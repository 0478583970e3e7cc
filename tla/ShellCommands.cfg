\* Two processes that start beside the shell, and two lines, commands or
\* texts to complete. The program may end.
SPECIFICATION FairSpec
CONSTANTS
    client = client  server = server
    Procs = {client, server}  OwnOf <- MCOwnOf  Parses = {"Connect", "StartServer"}  MaxLines = 2
INVARIANTS TypeOK MissedOnlyEarly CrashHasCause
PROPERTIES PromptReturns
CHECK_DEADLOCK FALSE
