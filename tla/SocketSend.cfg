\* The sending half: a 4-byte cache that doubles, stops at its maximum of 10,
\* passes its threshold (FULL) and refuses a message; two connections.
SPECIFICATION Spec
CONSTANTS
    InitLen = 4  MaxLen = 10  ConnLen = 1  Slack = 1  RateNum = 7  RateDen = 10
    MsgLens = {0, 2, 5}  ReadLens = {}  ReadLen = 1  MaxStreamRead = 8  FakeLen = 1
    BufSizes = {}  CtlOutcomes = {TRUE, FALSE}
    Asserts = FALSE  HasReceiver = TRUE  DeletesOnErr = TRUE  ArmsWritable = TRUE
    MaxBytes = 11  MaxPeer = 1  MaxConns = 2
INVARIANTS FullMeansFull FdMatchesState SentInOrder FreshConnection
PROPERTY SendsAsStream
CHECK_DEADLOCK FALSE
