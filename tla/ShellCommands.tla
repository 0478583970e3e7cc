----------------------------- MODULE ShellCommands -----------------------------
(***************************************************************************)
(* The shell and the processes it runs beside: the loop and the command    *)
(* table of xma_shell.cpp, the commands of Application::Init and of the     *)
(* programs, and Process::Init, which fills table and lists on the thread   *)
(* of each process while the shell reads them.                             *)
(*                                                                         *)
(* RegisterCommand inserts under a mutex, but ExecCommand, help and the     *)
(* completion read the std::map without it: a reading that overlaps an      *)
(* insertion finds the command, or does not, or crashes. ShowStats uses the *)
(* socket of a process while the process may delete it.                    *)
(***************************************************************************)
EXTENDS Registry

CONSTANTS
    OwnOf,      \* the commands each process registers, in order
    Parses,     \* those that parse a port
    MaxLines    \* bound: lines the shell reads

MainCommands == {"help", "quit", "ListService", "ListListener"}
OwnBy(p) == {OwnOf[p][i] : i \in DOMAIN OwnOf[p]}
Commands == MainCommands \cup UNION {OwnBy(p) : p \in Procs}
NoLine == "no line"

ASSUME ShellAssumption ==
    /\ Main \notin Procs /\ NoLine \notin Commands \cup Procs
    /\ \A p \in Procs : OwnOf[p] \in Seq(OwnBy(p))
    /\ MaxLines \in Nat

VARIABLES
    table,      \* _commands: the process whose function a name has, Main if
                \* that of the shell, NoLine if it is not registered
    done,       \* how many of its commands each process has registered
    phase,      \* "made", "init" or "running", for each process
    pc,         \* what the main thread does: it is at the prompt, completes a
                \* text, looks up a command, is at the start of its function,
                \* in ShowStats, or walks a list
    line,       \* the command, or the text to complete
    callee,     \* the process whose function runs
    node,       \* where the walk of a list is
    raced,      \* the reading of the table has overlapped an insertion
    stale,      \* the socket ShowStats has got hold of has been deleted since
    early,      \* for checking: a process was still starting when it began
    missed,     \* for checking: the last lookup has not found its command
    lines,      \* lines read so far
    over        \* "no", "quit", "crashed" or "terminated"

mainvars == <<pc, line, callee, node, early, missed, lines>>
vars == <<regvars, table, done, phase, mainvars, raced, stale, over>>

Init ==
    /\ RegInit
    /\ table = [c \in Commands |-> IF c \in MainCommands THEN Main ELSE NoLine]
    /\ done = [p \in Procs |-> 0] /\ phase = [p \in Procs |-> "made"]
    /\ pc = "prompt" /\ line = NoLine /\ callee = Main /\ node = Nothing
    /\ raced = FALSE /\ stale = FALSE /\ early = FALSE /\ missed = FALSE
    /\ lines = 0 /\ over = "no"

AllRunning == \A p \in Procs : phase[p] = "running"
-----------------------------------------------------------------------------
(* A process. ThreadMgr::Run starts the threads before the shell begins.    *)

Become(p, was, is) ==
    /\ phase[p] = was /\ phase' = [phase EXCEPT ![p] = is]
    /\ UNCHANGED <<regvars, table, done, raced, stale, over>>

Launch(p) == Become(p, "made", "init")

(* Calls of the process that touch the lists only.                          *)
InitStep(p) ==
    /\ phase[p] = "init"
    /\ MakeServices(p) \/ OpenPipe(p) \/ InitServices(p)
    /\ UNCHANGED <<table, done, phase, raced, stale, over>>

(* No descriptor is left for the pipe, or Epoll::Add throws: nothing        *)
(* catches it.                                                              *)
PipeFails(p) ==
    /\ phase[p] = "init" /\ <<p, "process">> \in context /\ ~Has(listeners, <<p, "pipe">>)
    /\ over' = "terminated"
    /\ UNCHANGED <<regvars, table, done, phase, raced, stale>>

(* RegisterCommand: the insertion takes a while, and the mutex keeps other  *)
(* insertions out; two at a time would break the map.                       *)
Reading == pc \in {"completing", "lookup"} \/ (pc = "call" /\ line = "help")

Insert(p) ==
    /\ phase[p] = "init" /\ Initialised(p)
    /\ p \notin inside["commands"] /\ done[p] < Len(OwnOf[p])
    /\ Enter("commands", p)
    /\ raced' = (raced \/ Reading)
    /\ over' = IF inside["commands"] = {} THEN over ELSE "crashed"
    /\ UNCHANGED <<lists, socket, table, done, phase, stale>>

InsertedAgain(p) ==                                                  \* mutant
    /\ p \in inside["commands"]
    /\ done' = [done EXCEPT ![p] = @ + 1]
    /\ UNCHANGED <<regvars, table, phase, raced, stale, over>>

Inserted(p) ==
    /\ p \in inside["commands"] /\ done[p] < Len(OwnOf[p])
    /\ done' = [done EXCEPT ![p] = @ + 1]
    /\ table' = [table EXCEPT ![OwnOf[p][done'[p]]] = p]
    /\ Leave("commands", p)
    /\ UNCHANGED <<lists, socket, phase, raced, stale, over>>

(* Mutant: the loop of a process begins before its OnShell.                 *)
EnterMainFirst(p) == Become(p, "init", "running")

EnterMain(p) ==
    /\ Initialised(p) /\ done[p] = Len(OwnOf[p])
    /\ Become(p, "init", "running")

(* Its loop makes and deletes the socket, for messages and for errors.      *)
LoopStep(p) ==
    /\ phase[p] = "running"
    /\ NewSocket(p) \/ Destruct(p) \/ Unregister(p) \/ Clear(p)
    /\ stale' = (stale \/ (pc = "stats" /\ callee = p /\ socket'[p] # "alive"))
    /\ UNCHANGED <<table, done, phase, raced, over>>

ThreadStep(p) ==
    /\ over = "no" /\ UNCHANGED mainvars
    /\ \/ Launch(p) \/ InitStep(p) \/ Insert(p) \/ Inserted(p) \/ EnterMain(p)
       \/ PipeFails(p) \/ LoopStep(p)
-----------------------------------------------------------------------------
(* The main thread. Readline is given a command, or a text to complete.     *)
Goto(place) == pc' = place /\ UNCHANGED line
Prompt == pc' = "prompt" /\ line' = NoLine

(* What a step does not say of itself stays as it is.                       *)
Quiet == UNCHANGED <<lists, socket, table, done, phase, lines, early>>

ReadLine(c, place) ==
    /\ pc = "prompt" /\ lines < MaxLines /\ \A p \in Procs : phase[p] # "made"
    /\ pc' = place /\ line' = c /\ lines' = lines + 1
    /\ early' = ~AllRunning /\ missed' = FALSE /\ stale' = FALSE
    /\ raced' = ~Free("commands")
    /\ UNCHANGED <<regvars, table, done, phase, callee, node, over>>

(* The end of the input ends the loop.                                      *)
EndOfInput ==
    /\ pc = "prompt" /\ \A p \in Procs : phase[p] # "made"
    /\ over' = "quit"
    /\ UNCHANGED <<regvars, table, done, phase, mainvars, raced, stale>>

(* What find() answers: the truth, or anything after a race.                *)
Answers == IF raced THEN {"found", "not found", "crash"}
           ELSE IF table[line] # NoLine THEN {"found"} ELSE {"not found"}

(* Whose function it finds.                                                 *)
Found == IF table[line] # NoLine THEN {table[line]} ELSE {p \in Procs : line \in OwnBy(p)}

Lookup ==
    /\ pc = "lookup"
    /\ \E answer \in Answers :
         /\ missed' = (answer = "not found")
         /\ over' = IF answer = "crash" THEN "crashed" ELSE over
         /\ IF answer = "found" THEN Goto("call") /\ callee' \in Found
                                ELSE Prompt /\ UNCHANGED callee
    /\ raced' = ~Free("commands")
    /\ Quiet /\ UNCHANGED <<inside, node, stale>>

(* CommandGenerator, which rl_completion_matches calls until it answers     *)
(* null. It ignores `state`: the whole name of a command is found again and *)
(* again.                                                                   *)
Complete ==
    /\ pc = "completing"
    /\ \E answer \in Answers :
         /\ over' = IF answer = "crash" THEN "crashed" ELSE over
         /\ IF answer = "found" THEN Goto(pc) ELSE Prompt
    /\ raced' = ~Free("commands")
    /\ Quiet /\ UNCHANGED <<inside, callee, node, stale, missed>>
-----------------------------------------------------------------------------
(* The functions of the commands.                                           *)

(* Those of one step. help copies the map; Connect and StartServer read     *)
(* their port with std::stoi, whose exception nobody catches.               *)
Ends == IF line = "quit" THEN {"quit"}
        ELSE IF line = "help" THEN {"no"} \cup (IF raced THEN {"crashed"} ELSE {})
        ELSE IF line \in Parses THEN {"no", "terminated"} ELSE {"no"}

Simple ==
    /\ pc = "call" /\ line \notin {"ListService", "ListListener", "ShowStats"}
    /\ over' \in Ends
    /\ Prompt
    /\ Quiet /\ UNCHANGED <<inside, callee, node, raced, stale, missed>>

(* Service::List and Listener::List.                                        *)
ListOf == IF line = "ListService" THEN services ELSE listeners
MutexOf == IF line = "ListService" THEN "services" ELSE "listeners"

BeginWalk ==
    /\ pc = "call" /\ line \in {"ListService", "ListListener"}
    /\ Enter(MutexOf, Main)
    /\ node' = First(ListOf) /\ Goto("walk")
    /\ Quiet /\ UNCHANGED <<callee, raced, stale, missed, over>>

(* A service without its context, or a freed listener, crash the walk.      *)
Bad == IF line = "ListService" THEN node \notin context ELSE Dead(node)

Walk ==
    /\ pc = "walk" /\ node # Nothing
    /\ over' \in IF Bad THEN {"no", "crashed"} ELSE {"no"}
    /\ node' = After(ListOf, node) /\ Goto(pc)
    /\ Quiet /\ UNCHANGED <<inside, callee, raced, stale, missed>>

EndWalk ==
    /\ pc = "walk" /\ node = Nothing
    /\ Leave(MutexOf, Main) /\ Prompt
    /\ Quiet /\ UNCHANGED <<callee, node, raced, stale, missed, over>>

(* ShowStats reads the pointer, and then uses what it has read.             *)
FetchSocket ==
    /\ pc = "call" /\ line = "ShowStats"
    /\ IF socket[callee] = "none" THEN Prompt ELSE Goto("stats")
    /\ stale' = (socket[callee] \in {"dying", "freed"})
    /\ Quiet /\ UNCHANGED <<inside, callee, node, raced, missed, over>>

UseSocket ==
    /\ pc = "stats"
    /\ over' \in IF stale THEN {"no", "crashed"} ELSE {"no"}
    /\ Prompt
    /\ Quiet /\ UNCHANGED <<inside, callee, node, raced, stale, missed>>

MainStep ==
    /\ over = "no"
    /\ \/ Lookup \/ Complete \/ Simple \/ BeginWalk \/ Walk \/ EndWalk
       \/ FetchSocket \/ UseSocket

Next ==
    \/ \E p \in Procs : ThreadStep(p)
    \/ over = "no" /\ \/ \E c \in Commands : ReadLine(c, "lookup") \/ ReadLine(c, "completing")
                      \/ EndOfInput
    \/ MainStep

Spec == Init /\ [][Next]_vars

(* Threads go on once they are started, and so does a command.              *)
FairSpec ==
    /\ Spec
    /\ \A p \in Procs : WF_vars(ThreadStep(p))
    /\ WF_vars(MainStep)
-----------------------------------------------------------------------------
(* The shape of every variable.                                             *)
TypeOK ==
    /\ RegTypeOK
    /\ table \in [Commands -> Threads \cup {NoLine}]
    /\ done \in [Procs -> Nat] /\ \A p \in Procs : done[p] <= Len(OwnOf[p])
    /\ phase \in [Procs -> {"made", "init", "running"}]
    /\ pc \in {"prompt", "completing", "lookup", "call", "stats", "walk"}
    /\ line \in Commands \cup {NoLine} /\ callee \in Threads
    /\ node \in Services \cup Listeners \cup {Nothing}
    /\ {raced, stale, early, missed} \subseteq BOOLEAN /\ lines \in 0..MaxLines
    /\ over \in {"no", "quit", "crashed", "terminated"}

(* A command of the program is answered "not found" only for a line that    *)
(* was typed before all threads were running: the shell starts right after  *)
(* ThreadMgr::Run (xma_application.cpp:81-84), and from then on nothing is  *)
(* registered.                                                              *)
MissedOnlyEarly == missed => early

(* What can crash the program between its threads: a line typed before all  *)
(* threads were running, or a ShowStats whose socket its process deletes    *)
(* meanwhile. No list is ever walked into a deleted listener, and the table *)
(* is never changed by two threads at once. (What the thread of a process   *)
(* does alone with a socket it has deleted is in ClientService and          *)
(* EchoServer.)                                                             *)
CrashHasCause == over = "crashed" => early \/ stale

(* Every command comes back to the prompt, whatever mutexes it takes, and   *)
(* so does every completion, unless the text is the whole name of a command *)
(* (or the program ends).                                                   *)
Endless == pc = "completing" /\ table[line] # NoLine

PromptReturns == (pc # "prompt") ~> (pc = "prompt" \/ Endless \/ over # "no")
=============================================================================
