\* TestMsg as soon as the shell runs: the thread of "Init" may not have begun.
SPECIFICATION Spec
CONSTANTS
    init = init  client = client  Shell = Shell  Unknown = Unknown
    Procs = {init, client}  InitProc = init
    Routes <- MCRoutes
    AddOutcomes <- MCAddOutcomes
    PipeCap = 1  MaxMsgs = 3
INVARIANT AssertsHold
CHECK_DEADLOCK FALSE
