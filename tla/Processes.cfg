\* Two processes, pipes of two messages, three messages, the client sends to
\* "Init" and the shell to both. The program may end, by exit or abort.
SPECIFICATION FairSpec
CONSTANTS
    init = init  client = client  Shell = Shell  Unknown = Unknown
    Procs = {init, client}  InitProc = init
    Routes <- MCRoutes
    AddOutcomes <- MCAddOutcomes
    PipeCap = 2  MaxMsgs = 3
INVARIANTS TypeOK OneOwner
PROPERTIES ActsAsMailboxes QueuedIsExecuted SendReturns
CHECK_DEADLOCK FALSE
