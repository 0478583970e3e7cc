\* Three messages of three bytes to a server that reads two: four blocks. The
\* server's buffers stay at 4 bytes, FULL above 1; the client's grow to 7. The
\* epoll_ctl of a SetEvents may fail or not, so that a block may be passed over
\* and a later one returned.
SPECIFICATION FairSpec
CONSTANTS
    InitLen = 4  ConnLen = 2  Slack = 1  RateNum = 7  RateDen = 10
    ClientMax = 7  ServerMax <- UninitialisedMax
    MaxStreamRead = 8  FakeLen = 2  MsgLen = 3  ReadLen = 2
    CtlOutcomes = {TRUE, FALSE}
    MaxBytes = 9
INVARIANT EchoIsFaithful
PROPERTIES ServerKeepsUp CopiesInside KeepsPromise
CHECK_DEADLOCK FALSE
