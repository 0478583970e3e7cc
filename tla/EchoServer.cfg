\* Five sockets, listening or accepted, on three descriptors; two connections
\* and two messages waiting. The program ends when it uses or deletes a deleted
\* object, or fails an assertion.
SPECIFICATION FairSpec
CONSTANTS
    AddOutcomes = {"watched", "thrown", "deaf"}
    MaxFd = 3  MaxBacklog = 2  MaxPipe = 2  MaxObjs = 5
INVARIANTS TypeOK OneOwner StoppedIsClosed OneCopy
PROPERTIES DanglingHasCause WaitingIsTaken
CHECK_DEADLOCK FALSE
