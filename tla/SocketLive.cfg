\* Both directions at work, in buffers whose maximum was read uninitialised (-1)
\* and which are resized by hand; an application that arms EPOLLOUT when data is
\* cached and reads messages of two lengths, no assertions.
SPECIFICATION FairSpec
CONSTANTS
    InitLen = 4  MaxLen <- UninitialisedMax  ConnLen = 1  Slack = 1  RateNum = 7  RateDen = 10
    MsgLens = {4}  ReadLens = {2}  ReadLen = 3  MaxStreamRead = 8  FakeLen = 2
    BufSizes = {3}  CtlOutcomes = {TRUE}
    Asserts = FALSE  HasReceiver = TRUE  DeletesOnErr = FALSE  ArmsWritable = TRUE
    MaxBytes = 4  MaxPeer = 4  MaxConns = 1
INVARIANTS TypeOK BuffersHold ReceivedInOrder NoWritableSpin
PROPERTIES CacheIsSent
CHECK_DEADLOCK FALSE
