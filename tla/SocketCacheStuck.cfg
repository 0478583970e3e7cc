\* The library alone: nobody arms EPOLLOUT.
SPECIFICATION FairSpec
CONSTANTS
    InitLen = 4  MaxLen = 10  ConnLen = 1  Slack = 1  RateNum = 7  RateDen = 10
    MsgLens = {2, 5}  ReadLens = {}  ReadLen = 2  MaxStreamRead = 8  FakeLen = 2
    BufSizes = {}  CtlOutcomes = {TRUE}
    Asserts = FALSE  HasReceiver = TRUE  DeletesOnErr = TRUE  ArmsWritable = FALSE
    MaxBytes = 2  MaxPeer = 0  MaxConns = 1
PROPERTY CacheIsSent
CHECK_DEADLOCK FALSE
