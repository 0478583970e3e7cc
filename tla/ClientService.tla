----------------------------- MODULE ClientService -----------------------------
(***************************************************************************)
(* The client program on its event loop: TcpClientService, TcpClient and   *)
(* TcpClientTimer of client/client_service.cpp, driven by Process::Main of *)
(* xma_process.cpp and the listeners of xma_epoll.cpp.                     *)
(*                                                                         *)
(* The loop waits, checks the timers and then hands out the events it has  *)
(* got, by pointer. A handler may delete a socket whose event is still to  *)
(* come, or the socket whose event it handles, which the loop then counts  *)
(* the event in: that is what this module is about. What a socket sends    *)
(* and receives is StreamSocket's; here it only fails, or becomes FULL.    *)
(***************************************************************************)
EXTENDS Naturals, Sequences, FiniteSets

CONSTANTS
    MaxPipe,    \* bound: messages waiting in the pipe
    MaxObjs,    \* bound: TcpClient objects ever made, or yet to be made for
                \* the messages in the pipe
    MaxBreaks   \* bound: connections the network ends

ASSUME ClientAssumption == {MaxPipe, MaxObjs, MaxBreaks} \subseteq Nat

Objs == 1..MaxObjs
Messages == {"StartConnect", "StopConnect"}
Pipe == 0               \* the listener of the pipe, among the listeners

VARIABLES
    client,     \* client_ of the service, 0 for nullptr
    obj,        \* the TcpClient objects
    made,       \* how many were made
    pipe,       \* the messages in the pipe
    phase,      \* where Main is: "wait", "timers", "events"
    batch,      \* the events epoll_wait has answered and Main has not handed out
    stopped,    \* for checking: objects StopClient has deleted since epoll_wait
    breaks,     \* connections the network has ended
    over        \* "dangling" when a deleted object was used, "aborted" by an assertion

vars == <<client, obj, made, pipe, phase, batch, stopped, breaks, over>>
service == <<client, obj, made, stopped, over>>

Unmade == [life |-> "unmade", state |-> "CREATED", armed |-> {}, link |-> "none",
           data |-> FALSE, timer |-> "Deactived"]

Init ==
    /\ client = 0 /\ made = 0 /\ obj = [o \in Objs |-> Unmade]
    /\ pipe = <<>> /\ phase = "wait" /\ batch = {} /\ stopped = {}
    /\ breaks = 0 /\ over = "no"

Alive(o) == obj[o].life = "alive"
Connected(c) == c.state \in {"CONNECTED", "FULL"}
-----------------------------------------------------------------------------
(* The object.                                                              *)

(* OpenClient: connect() refuses, or the handshake runs.                    *)
Opened == [Unmade EXCEPT !.life = "alive", !.state = "CONNECTING",
                         !.armed = {"IN", "OUT", "ERR"}, !.link = "syn"]

(* ~TcpClient and its bases: the timer is stopped, epoll forgets the        *)
(* descriptor, and the descriptor is closed.                                *)
DeletedButTimer(c) == [Unmade EXCEPT !.life = "deleted", !.timer = c.timer]  \* mutant
Deleted(c) == [Unmade EXCEPT !.life = "deleted"]

(* Listener::Handle counts an event in its listener once DoHandle has       *)
(* returned. If DoHandle has deleted the listener, that writes into freed   *)
(* memory: the program goes on, or it does not.                             *)
CountsInFreed == over' \in {over, "dangling"}

(* OnSocketErr: the service deletes its client and forgets it.              *)
OnSocketErrKeeps(o) ==                                               \* mutant
    obj' = [obj EXCEPT ![o] = Deleted(@)] /\ UNCHANGED <<client, over>>

OnSocketErrIgnored(o) == UNCHANGED <<client, obj, over>>             \* mutant

OnSocketErr(o) ==
    IF o = client THEN obj' = [obj EXCEPT ![o] = Deleted(@)] /\ client' = 0 /\ CountsInFreed
    ELSE UNCHANGED <<client, obj, over>>

Becomes(o, c) == obj' = [obj EXCEPT ![o] = c] /\ UNCHANGED <<client, over>>

(* DoConnect: the connection is up and the timer starts, or it failed.      *)
DoConnect(o, ev) ==
    IF {"IN", "OUT"} \cap ev = {} \/ obj[o].link = "broken" THEN OnSocketErr(o)
    ELSE IF obj[o].timer = "Actived" THEN over' = "aborted" /\ UNCHANGED <<client, obj>>
    ELSE Becomes(o, [obj[o] EXCEPT !.state = "CONNECTED", !.armed = {"IN", "ERR"},
                                   !.timer = "Actived"])

(* DoReadWrite: the read of a FULL socket runs into an assertion, a read    *)
(* that fails and an event of error end the client.                         *)
DoReadWrite(o, ev) ==
    IF "IN" \in ev /\ obj[o].state = "FULL" THEN over' = "aborted" /\ UNCHANGED <<client, obj>>
    ELSE IF "ERR" \in ev \/ obj[o].link = "broken" \/ (~obj[o].data /\ obj[o].link = "eof")
    THEN OnSocketErr(o)
    ELSE Becomes(o, [obj[o] EXCEPT !.data = FALSE])

DoHandle(o, ev) ==
    IF ~Alive(o) THEN over' = "dangling" /\ UNCHANGED <<client, obj>>
    ELSE IF Connected(obj[o]) THEN DoReadWrite(o, ev) ELSE DoConnect(o, ev)
-----------------------------------------------------------------------------
(* The service.                                                             *)

StartClient ==
    /\ UNCHANGED <<stopped, over>>
    /\ IF client # 0 THEN UNCHANGED <<client, obj, made>>
       ELSE /\ made' = made + 1
            /\ \/ client' = made' /\ obj' = [obj EXCEPT ![made'] = Opened]
               \/ client' = 0 /\ obj' = [obj EXCEPT ![made'] = Deleted(@)]

StopClientUnchecked ==                                               \* mutant
    /\ UNCHANGED <<made, over>>
    /\ obj' = [o \in Objs |-> IF o = client THEN Deleted(obj[o]) ELSE obj[o]]
    /\ stopped' = stopped \cup {client}
    /\ client' = 0

StopClient ==
    /\ UNCHANGED made
    /\ IF client = 0 THEN UNCHANGED <<client, obj, stopped, over>>
       ELSE IF ~Alive(client) THEN over' = "dangling" /\ UNCHANGED <<client, obj, stopped>>
       ELSE /\ obj' = [obj EXCEPT ![client] = Deleted(@)]
            /\ stopped' = stopped \cup {client}
            /\ client' = 0
            /\ UNCHANGED over
-----------------------------------------------------------------------------
(* The loop.                                                                *)

PipeEvent == [to |-> Pipe, events |-> {"IN"}]

ReadyOf(o) ==
    obj[o].armed \cap
        ((IF obj[o].data \/ obj[o].link \in {"eof", "broken"} THEN {"IN"} ELSE {})
            \cup (IF obj[o].link \in {"up", "eof", "broken"} THEN {"OUT"} ELSE {})
            \cup (IF obj[o].link = "broken" THEN {"ERR"} ELSE {}))

Ready ==
    {[to |-> o, events |-> ReadyOf(o)] : o \in {o \in Objs : ReadyOf(o) # {}}}
        \cup (IF pipe # <<>> THEN {PipeEvent} ELSE {})

(* epoll_wait answers what is ready, in an order of its own.                *)
Wait ==
    /\ over = "no" /\ phase = "wait"
    /\ phase' = "timers" /\ batch' = Ready /\ stopped' = {}
    /\ UNCHANGED <<client, obj, made, pipe, breaks, over>>

(* Timeout: SendData, which may fill the cache, and Set.                    *)
Timeout ==
    /\ over = "no" /\ phase = "timers"
    /\ \E o \in Objs :
         /\ obj[o].timer = "Actived"
         /\ IF Alive(o) THEN \E s \in {obj[o].state, "FULL"} : Becomes(o, [obj[o] EXCEPT !.state = s])
            ELSE over' = "dangling" /\ UNCHANGED <<client, obj>>
    /\ UNCHANGED <<made, pipe, phase, batch, stopped, breaks>>

TimersDone ==
    /\ over = "no" /\ phase = "timers"
    /\ phase' = IF batch = {} THEN "wait" ELSE "events"
    /\ UNCHANGED <<service, pipe, batch, breaks>>

(* The next event; a pipe event reads one message.                          *)
HandleSocket(e) ==
    /\ e.to # Pipe
    /\ DoHandle(e.to, e.events)
    /\ UNCHANGED <<made, pipe, stopped>>

HandlePipe(e) ==
    /\ e.to = Pipe
    /\ pipe' = Tail(pipe)
    /\ \/ Head(pipe) = "StartConnect" /\ StartClient
       \/ Head(pipe) = "StopConnect" /\ StopClient

Handle ==
    /\ over = "no" /\ phase = "events"
    /\ \E e \in batch :
         /\ HandlePipe(e) \/ HandleSocket(e)
         /\ batch' = batch \ {e}
    /\ phase' = IF batch' = {} THEN "wait" ELSE "events"
    /\ UNCHANGED breaks
-----------------------------------------------------------------------------
(* The shell's commands and the network.                                    *)

Command ==
    /\ over = "no" /\ Len(pipe) < MaxPipe
    /\ made + Len(pipe) < MaxObjs
    /\ \E m \in Messages : pipe' = Append(pipe, m)
    /\ UNCHANGED <<service, phase, batch, breaks>>

Network ==
    /\ over = "no"
    /\ \E o \in Objs :
         \/ /\ obj[o].link \in {"syn", "up"} /\ breaks < MaxBreaks
            /\ \E l \in {"eof", "broken"} :
                 /\ l = "eof" => obj[o].link = "up"
                 /\ obj' = [obj EXCEPT ![o].link = l]
            /\ breaks' = breaks + 1
         \/ /\ obj[o].link = "syn"
            /\ obj' = [obj EXCEPT ![o].link = "up"]
            /\ UNCHANGED breaks
         \/ /\ obj[o].link = "up" /\ ~obj[o].data
            /\ obj' = [obj EXCEPT ![o].data = TRUE]
            /\ UNCHANGED breaks
    /\ UNCHANGED <<client, made, pipe, phase, batch, stopped, over>>

Next == Wait \/ Timeout \/ TimersDone \/ Handle \/ Command \/ Network

Spec == Init /\ [][Next]_vars

(* The loop goes on; a check of the timers ends.                            *)
FairSpec == Spec /\ WF_vars(Wait) /\ WF_vars(TimersDone) /\ WF_vars(Handle)
-----------------------------------------------------------------------------
Objects ==
    [life : {"unmade", "alive", "deleted"}, state : {"CREATED", "CONNECTING", "CONNECTED", "FULL"},
     armed : SUBSET {"IN", "OUT", "ERR"}, link : {"none", "syn", "up", "eof", "broken"},
     data : BOOLEAN, timer : {"Actived", "Deactived"}]

(* The shape of every variable. *)
TypeOK ==
    /\ client \in 0..MaxObjs /\ made \in 0..MaxObjs
    /\ obj \in [Objs -> Objects]
    /\ pipe \in Seq(Messages) /\ phase \in {"wait", "timers", "events"}
    /\ batch \subseteq [to : 0..MaxObjs, events : SUBSET {"IN", "OUT", "ERR"}]
    /\ stopped \subseteq Objs /\ breaks \in Nat
    /\ over \in {"no", "dangling", "aborted"}

(* The service knows every client there is, and no other: none is leaked,   *)
(* and client_ never points to a deleted one, however Connect, Disconnect,  *)
(* refused connections and socket errors follow each other.                 *)
OneClient == {o \in Objs : Alive(o)} = {client} \ {0}

(* The timer of a client runs while its socket is connected and not longer, *)
(* so Timeout never finds its client deleted and Set never fails its        *)
(* assertion (xma_timer.cpp:66).                                            *)
TimerFollowsConnection ==
    \A o \in Objs : obj[o].timer = "Actived" <=> Alive(o) /\ Connected(obj[o])

(* A deleted client is used in two ways only, both by the loop that hands   *)
(* out an event (xma_process.cpp:214-224): a Disconnect was handled earlier *)
(* in the same batch and has deleted it, or the handler of this event has   *)
(* deleted it and Handle counts in it (xma_listener.h:72-77). A timer, a    *)
(* command or an event of a later batch never meets a deleted one.          *)
DanglingHasCause ==
    [][over' = "dangling" /\ over # "dangling" =>
          \E e \in batch \ batch' :
              /\ e.to # Pipe
              /\ e.to \in stopped \/ (Alive(e.to) /\ ~Alive(e.to)')]_vars

(* A client whose connection has ended is deleted in the end.               *)
Gone(o) == ~Alive(o) \/ over # "no"

EndedIsDeleted == \A o \in Objs :
    (Alive(o) /\ obj[o].link \in {"eof", "broken"}) ~> Gone(o)
=============================================================================
