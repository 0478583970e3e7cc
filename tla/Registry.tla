-------------------------------- MODULE Registry --------------------------------
(***************************************************************************)
(* The global lists of the program: Service::services_ and                 *)
(* Listener::listeners_, each with its mutex, and the command table of the  *)
(* shell with its own.                                                     *)
(*                                                                         *)
(* A service or a listener enters its list in the constructor and a        *)
(* listener leaves it in the destructor of the base class, on the thread of *)
(* its process. The commands ListService and ListListener walk the lists on *)
(* the main thread and hold the mutex meanwhile.                            *)
(***************************************************************************)
EXTENDS Naturals, Sequences, SequencesExt

CONSTANT Procs  \* the processes, one thread each

Main == "main"      \* the main thread
Threads == Procs \cup {Main}
Mutexes == {"commands", "services", "listeners"}
Nothing == <<"nothing", "nothing">>

(* Every process has its ProcessService and the service of the program; the *)
(* pipe of the first is a listener, and so is the socket of the second,     *)
(* TcpClient or TcpEchoServer (with it the timer of a client, listed by the  *)
(* same constructors and destructors).                                      *)
Services  == Procs \X {"process", "program"}
Listeners == Procs \X {"pipe", "socket"}

VARIABLES
    inside,     \* the threads inside the critical section of each mutex
    services,   \* services_
    context,    \* the services whose context_ is set
    listeners,  \* listeners_
    socket      \* client_ or server_ of each process, and what it points to

lists == <<services, context, listeners>>
regvars == <<inside, lists, socket>>

(* "none": the pointer is null; "dying": the destructors of the derived     *)
(* classes are running; "freed": the memory is gone, the pointer is not yet *)
(* null.                                                                    *)
SocketStates == {"none", "alive", "dying", "freed"}

RegInit ==
    /\ inside = [m \in Mutexes |-> {}]
    /\ services = <<>> /\ context = {} /\ listeners = <<>>
    /\ socket = [p \in Procs |-> "none"]

RegTypeOK ==
    /\ inside \in [Mutexes -> SUBSET Threads]
    /\ services \in Seq(Services) /\ context \subseteq Services
    /\ listeners \in Seq(Listeners)
    /\ socket \in [Procs -> SocketStates]
-----------------------------------------------------------------------------
Free(m) == inside[m] = {}

Enter(m, t) == Free(m) /\ inside' = [inside EXCEPT ![m] = @ \cup {t}]

LeaveNever(m, t) == UNCHANGED inside                                 \* mutant
Leave(m, t) == inside' = [inside EXCEPT ![m] = @ \ {t}]

Dead(l) == l[2] = "socket" /\ socket[l[1]] \in {"none", "freed"}

(* The element of a list after x, in a walk.                                *)
After(list, x) ==
    IF \E i \in 1..(Len(list) - 1) : list[i] = x
    THEN list[1 + CHOOSE i \in 1..(Len(list) - 1) : list[i] = x]
    ELSE Nothing

First(list) == IF list = <<>> THEN Nothing ELSE Head(list)
-----------------------------------------------------------------------------
(* Service::Register, Listener::Register.                                   *)
AddService(s) ==
    /\ Free("services") /\ services' = Append(services, s)
    /\ UNCHANGED <<inside, context, listeners>>

AddListener(l) ==
    /\ Free("listeners") /\ listeners' = Append(listeners, l)
    /\ UNCHANGED <<inside, services, context>>

(* Service::Init begins with it: until then context_ is not initialised.    *)
SaveContext(s) ==
    /\ context' = context \cup {s}
    /\ UNCHANGED <<inside, services, listeners, socket>>

(* Process::Init, one call after the other: the ProcessService is made and  *)
(* then that of the program (OnInit), the first is given its context and    *)
(* makes its pipe, the second is given its context.                         *)
Has(list, x) == \E i \in DOMAIN list : list[i] = x

MakeServices(p) == \E kind \in {"process", "program"} :
    /\ ~Has(services, <<p, kind>>)
    /\ kind = "program" => Has(services, <<p, "process">>)
    /\ AddService(<<p, kind>>) /\ UNCHANGED socket

OpenPipe(p) ==
    /\ <<p, "process">> \in context /\ ~Has(listeners, <<p, "pipe">>)
    /\ AddListener(<<p, "pipe">>) /\ UNCHANGED socket

InitServices(p) == \E kind \in {"process", "program"} :
    /\ Has(services, <<p, "program">>) /\ <<p, kind>> \notin context
    /\ kind = "program" => Has(listeners, <<p, "pipe">>)
    /\ SaveContext(<<p, kind>>)

Initialised(p) == <<p, "program">> \in context

(* client_ = new TcpClient, server_ = new TcpEchoServer.                    *)
NewSocket(p) ==
    /\ socket[p] = "none"
    /\ AddListener(<<p, "socket">>)
    /\ socket' = [socket EXCEPT ![p] = "alive"]

(* delete client_ begins; ~Listener takes it out of the list, where it is   *)
(* once, and the memory is freed; client_ = nullptr.                        *)
Destruct(p) ==
    /\ socket[p] = "alive"
    /\ socket' = [socket EXCEPT ![p] = "dying"]
    /\ UNCHANGED <<inside, lists>>

UnregisterUnlocked(p) ==                                             \* mutant
    /\ socket[p] = "dying"
    /\ listeners' = RemoveFirst(listeners, <<p, "socket">>)
    /\ socket' = [socket EXCEPT ![p] = "freed"]
    /\ UNCHANGED <<inside, services, context>>

Unregister(p) ==
    /\ socket[p] = "dying" /\ Free("listeners")
    /\ listeners' = RemoveFirst(listeners, <<p, "socket">>)
    /\ socket' = [socket EXCEPT ![p] = "freed"]
    /\ UNCHANGED <<inside, services, context>>

Clear(p) ==
    /\ socket[p] = "freed"
    /\ socket' = [socket EXCEPT ![p] = "none"]
    /\ UNCHANGED <<inside, lists>>
=============================================================================
