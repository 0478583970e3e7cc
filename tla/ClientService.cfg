\* Up to four clients one after the other, two messages waiting, two connections
\* ended by the network. The program ends when it uses a deleted object.
SPECIFICATION FairSpec
CONSTANTS
    MaxPipe = 2  MaxObjs = 4  MaxBreaks = 2
INVARIANTS TypeOK OneClient TimerFollowsConnection
PROPERTIES DanglingHasCause EndedIsDeleted
CHECK_DEADLOCK FALSE
