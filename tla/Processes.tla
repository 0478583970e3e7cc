------------------------------- MODULE Processes -------------------------------
(***************************************************************************)
(* Processes and the messages between them: Thread and ThreadMgr of        *)
(* xma_thread.cpp, Process and ProcessService of xma_process.cpp,          *)
(* Msg::Send of xma_message.cpp, and Application::Run and Exit.            *)
(*                                                                         *)
(* A Process is a Thread with a pipe. Msg::Send writes the pointer of a    *)
(* message into the pipe of the receiver and blocks while that is full;    *)
(* the loop of the receiver reads one pointer per event, runs the handler  *)
(* of the message and deletes it. The main thread runs the shell, whose    *)
(* commands send messages too.                                             *)
(***************************************************************************)
EXTENDS Naturals, Sequences, FiniteSets

CONSTANTS
    Procs,      \* the processes, one thread each
    InitProc,   \* the process "Init" of Application::Init
    Shell,      \* the main thread
    Routes,     \* the pairs of processes <<p, r>> such that callbacks of p send to r
    Unknown,    \* the name of no process
    AddOutcomes,\* for each process: what Epoll::Add does with the mask it has not initialised
    PipeCap,    \* pointers a pipe holds
    MaxMsgs     \* bound: messages in a behaviour

ASSUME ProcessesAssumption ==
    /\ InitProc \in Procs /\ Shell \notin Procs /\ Unknown \notin Procs
    /\ Routes \subseteq Procs \X Procs
    /\ AddOutcomes \in [Procs -> SUBSET {"watched", "thrown", "deaf"}]
    /\ PipeCap \in Nat \ {0} /\ MaxMsgs \in Nat

Senders == Procs \cup {Shell}
Msgs == 1..MaxMsgs
Phases == {"registered", "started", "service", "open", "running", "stopped"}

VARIABLES
    phase,      \* how far the thread of each process has come
    running,    \* running_ of each process
    deaf,       \* the processes whose pipe epoll never reports
    pipe,       \* the messages in msgconveyers_ of each process
    doing,      \* the message whose handler runs in each process, 0 for none
    post,       \* the message each thread is writing, 0 for none
    made,       \* messages created so far
    from, to,   \* sender and receiver of each message
    freed,      \* how often each message was deleted
    lost,       \* messages no code knows of any more
    done,       \* for checking: the messages each process has executed
    quitting,   \* the shell has returned
    over        \* how the program has ended, "no" while it runs

loopvars == <<phase, running, deaf>>
msgvars == <<pipe, doing, post, made, from, to, freed, lost, done>>
vars == <<loopvars, msgvars, quitting, over>>

Init ==
    /\ phase = [p \in Procs |-> "registered"]
    /\ running = [p \in Procs |-> TRUE] /\ deaf = {}
    /\ pipe = [p \in Procs |-> <<>>] /\ doing = [p \in Procs |-> 0]
    /\ post = [s \in Senders |-> 0]
    /\ made = 0
    /\ from = [m \in Msgs |-> Shell] /\ to = [m \in Msgs |-> Unknown]
    /\ freed = [m \in Msgs |-> 0] /\ lost = {}
    /\ done = [p \in Procs |-> <<>>]
    /\ quitting = FALSE /\ over = "no"
-----------------------------------------------------------------------------
(* The life of a thread.                                                    *)

Become(p, was, is) ==
    /\ over = "no" /\ phase[p] = was
    /\ phase' = [phase EXCEPT ![p] = is]
    /\ UNCHANGED <<running, deaf, msgvars, quitting, over>>

(* ThreadMgr::Run starts the threads one after the other.                   *)
Launch(p) == Become(p, "registered", "started")

(* Process::Init: the service is there, its pipe is not.                    *)
CreateService(p) == Become(p, "started", "service")

(* ProcessService::OnInit. pipe() fails, or Epoll::Add throws, and nothing  *)
(* catches that; or the mask of Add held EPOLLEXCLUSIVE, which no later     *)
(* EPOLL_CTL_MOD can replace: SetEvents fails, unnoticed.                   *)
OpenPipe(p) == "watched" \in AddOutcomes[p] /\ Become(p, "service", "open")

OpenDeaf(p) ==
    /\ "deaf" \in AddOutcomes[p] /\ over = "no" /\ phase[p] = "service"
    /\ phase' = [phase EXCEPT ![p] = "open"] /\ deaf' = deaf \cup {p}
    /\ UNCHANGED <<running, msgvars, quitting, over>>

OpenFails(p) ==
    /\ "thrown" \in AddOutcomes[p] /\ over = "no" /\ phase[p] = "service"
    /\ over' = "terminated"
    /\ UNCHANGED <<loopvars, msgvars, quitting>>

(* OnShell registers the commands of the process; then the loop begins.     *)
EnterMainInverted(p) ==                                              \* mutant
    Become(p, "open", IF running[p] THEN "stopped" ELSE "running")

EnterMain(p) == Become(p, "open", IF running[p] THEN "running" ELSE "stopped")

InLoop(p) == over = "no" /\ phase[p] = "running" /\ doing[p] = 0 /\ post[p] = 0

LeaveMain(p) == InLoop(p) /\ ~running[p] /\ Become(p, "running", "stopped")
-----------------------------------------------------------------------------
(* Receiving: an event of the pipe, one pointer, its handler. To be stopped *)
(* between epoll_wait and the read is to be stopped after the read.         *)

ReadsPairs(p) == Len(pipe[p]) > 1                                    \* mutant
Readable(p) == pipe[p] # <<>> /\ p \notin deaf

Begin(p) ==
    /\ InLoop(p) /\ running[p] /\ Readable(p)
    /\ doing' = [doing EXCEPT ![p] = Head(pipe[p])]
    /\ pipe' = [pipe EXCEPT ![p] = Tail(@)]
    /\ UNCHANGED <<loopvars, post, made, from, to, freed, lost, done, quitting, over>>

(* Dispatch deletes the message once its handler has returned.              *)
FinishKeeps(p) ==                                                    \* mutant
    /\ over = "no" /\ doing[p] # 0 /\ post[p] = 0
    /\ done' = [done EXCEPT ![p] = Append(@, doing[p])]
    /\ doing' = [doing EXCEPT ![p] = 0]
    /\ UNCHANGED <<loopvars, pipe, post, made, from, to, freed, lost, quitting, over>>

Finish(p) ==
    /\ over = "no" /\ doing[p] # 0 /\ post[p] = 0
    /\ done' = [done EXCEPT ![p] = Append(@, doing[p])]
    /\ freed' = [freed EXCEPT ![doing[p]] = @ + 1]
    /\ doing' = [doing EXCEPT ![p] = 0]
    /\ UNCHANGED <<loopvars, pipe, post, made, from, to, lost, quitting, over>>
-----------------------------------------------------------------------------
(* Sending.                                                                 *)

(* TestMsg is a command of Application::Init, the others come with OnShell. *)
HasCommand(r) == r = InitProc \/ phase[r] \in {"running", "stopped"}

MaySend(s, r) ==
    IF s = Shell
    THEN /\ ~quitting
         /\ \A p \in Procs : phase[p] # "registered"
         /\ r # Unknown => HasCommand(r)
    ELSE /\ phase[s] \in {"open", "running"}
         /\ r # Unknown => <<s, r>> \in Routes

(* After a failed Send most senders delete the message (the commands        *)
(* Connect, StartServer and TestMsg), the others (Disconnect, StopServer)   *)
(* forget it.                                                               *)
Failed(m) ==
    \/ freed' = [freed EXCEPT ![m] = @ + 1] /\ UNCHANGED lost
    \/ lost' = lost \cup {m} /\ UNCHANGED freed

(* Msg::Send up to the write: the receiver is looked up.                    *)
Send(s, r) ==
    /\ over = "no" /\ post[s] = 0 /\ made < MaxMsgs /\ MaySend(s, r)
    /\ made' = made + 1
    /\ from' = [from EXCEPT ![made'] = s] /\ to' = [to EXCEPT ![made'] = r]
    /\ IF r = Unknown THEN Failed(made') /\ UNCHANGED post
       ELSE post' = [post EXCEPT ![s] = made'] /\ UNCHANGED <<freed, lost>>
    /\ UNCHANGED <<loopvars, pipe, doing, done, quitting, over>>

NeverFull(r) == TRUE                                                 \* mutant
HasRoom(r) == Len(pipe[r]) < PipeCap

QueuedFirst(q, m) == <<m>> \o q                                      \* mutant
Queued(q, m) == Append(q, m)

(* Process::SendMsg and ProcessService::SendMsg. Before Process::Init there *)
(* is no service, and the assertion fails; until OnInit the descriptor of   *)
(* the pipe is uninitialised, and the write fails or goes elsewhere.        *)
Write(s) ==
    LET m == post[s]
        r == to[m]
    IN  /\ over = "no" /\ m # 0
        /\ post' = [post EXCEPT ![s] = 0]
        /\ \/ /\ phase[r] \in {"registered", "started"}
              /\ over' = "aborted"
              /\ UNCHANGED <<pipe, freed, lost>>
           \/ /\ phase[r] = "service"
              /\ Failed(m)
              /\ UNCHANGED <<pipe, over>>
           \/ /\ phase[r] \in {"open", "running", "stopped"} /\ HasRoom(r)
              /\ pipe' = [pipe EXCEPT ![r] = Queued(@, m)]
              /\ UNCHANGED <<freed, lost, over>>
        /\ UNCHANGED <<loopvars, doing, made, from, to, done, quitting>>
-----------------------------------------------------------------------------
(* The end: Readline answers XS_QUIT, Exit stops the threads, and main      *)
(* returns. It does not get to join them: the destructor of a               *)
(* ProcessService calls RemoveListener, which throws.                       *)

Quit ==
    /\ over = "no" /\ ~quitting /\ post[Shell] = 0
    /\ \A p \in Procs : phase[p] # "registered"
    /\ quitting' = TRUE
    /\ UNCHANGED <<loopvars, msgvars, over>>

StopThread(p) ==
    /\ over = "no" /\ quitting /\ running[p]
    /\ running' = [running EXCEPT ![p] = FALSE]
    /\ UNCHANGED <<phase, deaf, msgvars, quitting, over>>

Destruct ==
    /\ over = "no" /\ quitting /\ \A p \in Procs : ~running[p]
    /\ over' = "terminated"
    /\ UNCHANGED <<loopvars, msgvars, quitting>>

ThreadStep(p) ==
    \/ Launch(p) \/ CreateService(p) \/ OpenPipe(p) \/ OpenDeaf(p) \/ OpenFails(p)
    \/ EnterMain(p) \/ LeaveMain(p)
    \/ Begin(p) \/ Finish(p)

Exit == Destruct \/ \E p \in Procs : StopThread(p)

Next ==
    \/ \E p \in Procs : ThreadStep(p)
    \/ \E s \in Senders : Write(s) \/ \E r \in Procs \cup {Unknown} : Send(s, r)
    \/ Quit \/ Exit

Spec == Init /\ [][Next]_vars

(* Threads go on and handlers return; nobody has to send, or to quit.       *)
FairSpec ==
    /\ Spec
    /\ \A p \in Procs : WF_vars(ThreadStep(p))
    /\ \A s \in Senders : WF_vars(Write(s))
    /\ WF_vars(Exit)
-----------------------------------------------------------------------------
(* The shape of every variable; a pipe never holds more than it can. *)
TypeOK ==
    /\ phase \in [Procs -> Phases] /\ running \in [Procs -> BOOLEAN] /\ deaf \subseteq Procs
    /\ pipe \in [Procs -> Seq(Msgs)] /\ \A p \in Procs : Len(pipe[p]) <= PipeCap
    /\ doing \in [Procs -> 0..MaxMsgs] /\ post \in [Senders -> 0..MaxMsgs]
    /\ made \in 0..MaxMsgs /\ from \in [Msgs -> Senders]
    /\ to \in [Msgs -> Procs \cup {Unknown}]
    /\ freed \in [Msgs -> Nat] /\ lost \subseteq Msgs
    /\ done \in [Procs -> Seq(Msgs)]
    /\ quitting \in BOOLEAN /\ over \in {"no", "aborted", "terminated"}

(* How many pointers to m are in use: threads writing it, places in a pipe, *)
(* handlers running.                                                        *)
Holders(m) ==
    Cardinality({s \in Senders : post[s] = m}) + Cardinality({p \in Procs : doing[p] = m})
        + Cardinality({x \in Procs \X (1..PipeCap) :
                          x[2] <= Len(pipe[x[1]]) /\ pipe[x[1]][x[2]] = m})

(* Sender and receiver never both own a message: exactly one thread or pipe *)
(* has its pointer until it is deleted, and it is deleted only once         *)
(* (Dispatch, and the callers of Send); unless the program aborts.          *)
OneOwner ==
    over # "aborted" =>
        \A m \in 1..made : Holders(m) + freed[m] + Cardinality(lost \cap {m}) = 1

(* The pipes and the handlers implement mailboxes: a process executes what  *)
(* was sent to it, once, in the order in which it was written, and the      *)
(* messages of one thread in the order in which that thread has sent them,  *)
(* through startup, full pipes, failed sends and exit.                      *)
Pending == [p \in Procs |-> (IF doing[p] = 0 THEN <<>> ELSE <<doing[p]>>) \o pipe[p]]

Boxes == INSTANCE Mailbox WITH pending <- Pending, executed <- done

ActsAsMailboxes == Boxes!Spec

Ending == quitting \/ over # "no"

(* What is in a pipe is executed, unless the program is told to end, or a   *)
(* process is deaf.                                                         *)
QueuedIsExecuted ==
    \A m \in Msgs :
        (\E p \in Procs : \E i \in DOMAIN pipe[p] : pipe[p][i] = m)
            ~> (Ending \/ deaf # {} \/ \E p \in Procs : \E i \in DOMAIN done[p] : done[p][i] = m)

(* No thread stays blocked in write() on a full pipe, a stopped receiver    *)
(* included, as long as no cycle of processes send to each other and no     *)
(* process is deaf.                                                         *)
SendReturns == \A s \in Senders :
    (post[s] # 0) ~> (post[s] = 0 \/ over # "no" \/ deaf # {})

(* The assertion of Process::SendMsg (xma_process.cpp:168), and the comment *)
(* at the start of the shell (xma_application.cpp:83): when a command sends *)
(* a message, all threads are running.                                      *)
AssertsHold == over # "aborted"
=============================================================================
