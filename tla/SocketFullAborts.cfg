\* Built with assertions: a FULL socket that receives.
SPECIFICATION Spec
CONSTANTS
    InitLen = 4  MaxLen = 10  ConnLen = 1  Slack = 1  RateNum = 7  RateDen = 10
    MsgLens = {9}  ReadLens = {}  ReadLen = 2  MaxStreamRead = 8  FakeLen = 2
    BufSizes = {}  CtlOutcomes = {TRUE}
    Asserts = TRUE  HasReceiver = TRUE  DeletesOnErr = TRUE  ArmsWritable = FALSE
    MaxBytes = 9  MaxPeer = 1  MaxConns = 1
INVARIANT AssertsHold
CHECK_DEADLOCK FALSE
