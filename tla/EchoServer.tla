------------------------------ MODULE EchoServer ------------------------------
(***************************************************************************)
(* The echo server on its event loop: TcpEchoService, TcpEchoServer and    *)
(* TcpEchoListener of example/server_service.hpp, OpenServer and Accept of *)
(* xma_socket.cpp, and the registrations of xma_epoll.cpp.                 *)
(*                                                                         *)
(* Accept makes a socket, which epoll knows, and OnAccept keeps a copy of  *)
(* it in streams_, which epoll does not know. Both hold the number of one  *)
(* descriptor, one receiver and one memory for each buffer. This module is *)
(* about who owns what, and until when; bytes are StreamSocket's.          *)
(*                                                                         *)
(* TCP_NODELAY that fails is taken for success by the code (its result is  *)
(* compared with 1), so no socket is lost there.                           *)
(***************************************************************************)
EXTENDS Naturals, Sequences, FiniteSets

CONSTANTS
    AddOutcomes, \* what Epoll::Add does with the mask it has not initialised
    MaxFd,      \* descriptors the process may have open for sockets
    MaxBacklog, \* bound: connections waiting for accept4
    MaxPipe,    \* bound: messages waiting in the pipe
    MaxObjs     \* bound: sockets ever made, or yet to be made

ASSUME ServerAssumption ==
    /\ AddOutcomes \subseteq {"watched", "thrown", "deaf"}
    /\ {MaxFd, MaxBacklog, MaxPipe, MaxObjs} \subseteq Nat

Fds == 1..MaxFd
Objs == 1..MaxObjs
Messages == {"StartServer", "StopServer"}
Pipe == 0               \* the listener of the pipe, among the listeners

VARIABLES
    server,     \* server_ of the service, 0 for nullptr
    obj,        \* the TcpEchoServers and the TcpSockets made by Accept
    streams,    \* streams_: for each copy, its original and its descriptor
    file,       \* the kernel's table: whose socket a descriptor is, 0 when free;
                \* epoll has that socket as the data.ptr of the descriptor
    made,       \* how many sockets were made
    backlog,    \* connections waiting for accept4
    pipe,       \* the messages in the pipe
    phase,      \* where Main is: "wait", "events", or in the loop of "accept"
    batch,      \* listeners whose event epoll_wait has answered, still to come
    stopped,    \* for checking: what StopServer has deleted since epoll_wait
    over        \* the use of a deleted object, a double delete, an assertion or
                \* an exception that nothing catches

vars == <<server, obj, streams, file, made, backlog, pipe, phase, batch, stopped, over>>
sockets == <<server, obj, streams, file, made, backlog>>

Unmade == [life |-> "unmade", fd |-> 0, link |-> "none", data |-> FALSE,
           full |-> FALSE, grown |-> FALSE]

Init ==
    /\ server = 0 /\ obj = [o \in Objs |-> Unmade] /\ streams = <<>>
    /\ file = [n \in Fds |-> 0]
    /\ made = 0 /\ backlog = 0 /\ pipe = <<>>
    /\ phase = "wait" /\ batch = {} /\ stopped = {} /\ over = "no"

Alive(o) == obj[o].life = "alive"
Ended(o) == obj[o].link \in {"eof", "broken"}
Copies == {streams[i] : i \in DOMAIN streams}

(* A new descriptor is the lowest that is free.                             *)
FreeFds == {n \in Fds : file[n] = 0}
NewFd == CHOOSE n \in FreeFds : \A m \in FreeFds : n <= m

(* Start: the socket has the descriptor, and epoll the socket.              *)
Started(o, n, link) ==
    /\ obj' = [obj EXCEPT ![o] = [Unmade EXCEPT !.life = "alive", !.fd = n, !.link = link]]
    /\ file' = [file EXCEPT ![n] = o]

(* Close, for each of the descriptors: Remove, then close().                *)
Closed(ns) == file' = [n \in Fds |-> IF n \in ns THEN 0 ELSE file[n]]

Deleted == [Unmade EXCEPT !.life = "deleted"]
-----------------------------------------------------------------------------
(* The service.                                                             *)

(* Start: nothing catches what Epoll::Add throws.                           *)
Thrown == "thrown" \in AddOutcomes /\ over' = "terminated" /\ UNCHANGED <<obj, file>>

(* OpenServer, and what StartServer makes of a failure: before or after     *)
(* Start, the socket and its descriptor are gone before the message ends.   *)
(* After an Add with EPOLLEXCLUSIVE in its mask SetEvents fails, unnoticed: *)
(* the socket listens and no event ever tells of a connection.              *)
OpenServer(o) ==
    \/ /\ FreeFds # {} /\ server' = o /\ UNCHANGED over
       /\ \/ "watched" \in AddOutcomes /\ Started(o, NewFd, "listen")
          \/ "deaf" \in AddOutcomes /\ Started(o, NewFd, "deaf")
    \/ FreeFds # {} /\ Thrown /\ UNCHANGED server
    \/ obj' = [obj EXCEPT ![o] = Deleted] /\ UNCHANGED <<server, file, over>>

StartServer ==
    /\ UNCHANGED <<streams, backlog, stopped>>
    /\ IF server # 0 THEN UNCHANGED <<server, obj, file, made, over>>
       ELSE made' = made + 1 /\ OpenServer(made')

(* Deleting a copy deletes the receiver and the buffers it shares with its  *)
(* original: for the second time when the original has ended, and, for a    *)
(* buffer, when the original has replaced it by a larger one.               *)
SharesDeleted(c) == ~Alive(c.of) \/ obj[c.of].grown

StopServerKeepsStreams ==                                            \* mutant
    /\ UNCHANGED made
    /\ IF server = 0 THEN UNCHANGED <<server, obj, streams, file, backlog, stopped, over>>
       ELSE /\ server' = 0 /\ streams' = <<>> /\ backlog' = 0 /\ Closed({obj[server].fd})
            /\ obj' = [obj EXCEPT ![server] = Deleted]
            /\ stopped' = stopped \cup {server}
            /\ UNCHANGED over

(* StopServer: ~TcpEchoServer deletes the copies in streams_, each of which *)
(* closes its descriptor, and then closes its own. The originals stay: no   *)
(* one points to them any more, but for events that are still to come.      *)
StopServer ==
    /\ UNCHANGED made
    /\ IF server = 0 THEN UNCHANGED <<server, obj, streams, file, backlog, stopped, over>>
       ELSE IF \E c \in Copies : SharesDeleted(c)
       THEN over' = "deleted twice"
            /\ UNCHANGED <<server, obj, streams, file, backlog, stopped>>
       ELSE LET originals == {c.of : c \in Copies}
            IN  /\ server' = 0 /\ streams' = <<>> /\ backlog' = 0
                /\ Closed({c.fd : c \in Copies} \cup {obj[server].fd})
                /\ obj' = [o \in Objs |-> IF o = server THEN Deleted
                                          ELSE IF o \in originals THEN [obj[o] EXCEPT !.life = "orphan"]
                                          ELSE obj[o]]
                /\ stopped' = stopped \cup originals \cup {server}
                /\ UNCHANGED over
-----------------------------------------------------------------------------
(* The listening socket: one turn of the loop of Accept at a time, since    *)
(* connections arrive while it runs.                                        *)

LoopGoesOn == phase' = IF batch' = {} THEN "wait" ELSE "events"

(* SetEvents fails: the socket is deleted, and its descriptor closed.       *)
Refused(o, n) == obj' = [obj EXCEPT ![o] = Deleted] /\ UNCHANGED <<file, streams>>

(* Mutants: OnAccept keeps a copy made before Start; it keeps two copies.   *)
AcceptedUnstarted(o, n) ==
    Started(o, n, "up") /\ streams' = Append(streams, [of |-> o, fd |-> 0])

AcceptedTwice(o, n) ==
    /\ Started(o, n, "up")
    /\ streams' = streams \o <<[of |-> o, fd |-> n], [of |-> o, fd |-> n]>>

(* OnCreate, Start, SetEvents, and OnAccept, which keeps a copy.            *)
Accepted(o, n) ==
    /\ Started(o, n, "up")
    /\ streams' = Append(streams, [of |-> o, fd |-> n])

AcceptOne ==
    /\ over = "no" /\ phase = "accept" /\ backlog > 0 /\ FreeFds # {}
    /\ made' = made + 1 /\ backlog' = backlog - 1
    /\ \/ Accepted(made', NewFd) /\ UNCHANGED over
       \/ Refused(made', NewFd) /\ UNCHANGED over
       \/ Thrown /\ UNCHANGED streams
    /\ UNCHANGED <<server, pipe, phase, batch, stopped>>

(* accept4 fails: nothing waits, or no descriptor is free. (Linux hands out *)
(* a connection that was reset while it waited like any other.)             *)
AcceptFails ==
    /\ over = "no" /\ phase = "accept"
    /\ backlog = 0 \/ FreeFds = {}
    /\ UNCHANGED <<sockets, pipe, batch, stopped, over>>
    /\ LoopGoesOn
-----------------------------------------------------------------------------
(* An accepted socket.                                                      *)

(* The receiver closes the socket and OnSocketErr deletes it, with its      *)
(* receiver and its buffers. Its copy is not told.                          *)
DroppedButOpen(o) ==                                                 \* mutant
    obj' = [obj EXCEPT ![o] = Deleted] /\ UNCHANGED file

Dropped(o) == obj' = [obj EXCEPT ![o] = Deleted] /\ Closed({obj[o].fd})

(* The receiver reads and writes what it has read back: a buffer may grow,  *)
(* and the socket become FULL.                                              *)
Echoed(o) ==
    /\ \E grown \in {obj[o].grown, TRUE}, full \in BOOLEAN :
           obj' = [obj EXCEPT ![o].data = FALSE, ![o].full = full, ![o].grown = grown]
    /\ UNCHANGED file

(* Listener::Handle counts an event in its listener once DoHandle has       *)
(* returned. If DoHandle has deleted the listener, that writes into freed   *)
(* memory: the program goes on, or it does not.                             *)
CountsInFreed == over' \in {over, "dangling"}

(* Read: a FULL socket fails the assertion of DoRead.                       *)
Read(o) ==
    IF obj[o].full THEN over' = "aborted" /\ UNCHANGED <<obj, file>>
    ELSE IF obj[o].link = "broken" \/ (obj[o].link = "eof" /\ ~obj[o].data)
    THEN Dropped(o) /\ CountsInFreed
    ELSE Echoed(o) /\ UNCHANGED over

(* Mutant: DoListen looks at another event.                                 *)
HandleSocketDeaf(o) ==
    /\ o # Pipe
    /\ UNCHANGED <<server, streams, made, backlog, pipe, stopped>>
    /\ LoopGoesOn
    /\ IF Alive(o) /\ obj[o].link = "listen" THEN UNCHANGED <<obj, file, over>>
       ELSE IF Alive(o) THEN Read(o)
       ELSE over' = "dangling" /\ UNCHANGED <<obj, file>>

(* DoHandle: an event of a listening socket starts the loop of Accept.      *)
HandleSocket(o) ==
    /\ o # Pipe
    /\ UNCHANGED <<server, streams, made, backlog, pipe, stopped>>
    /\ IF Alive(o) /\ obj[o].link = "listen"
       THEN phase' = "accept" /\ UNCHANGED <<obj, file, over>>
       ELSE /\ LoopGoesOn
            /\ IF Alive(o) THEN Read(o)
               ELSE over' = "dangling" /\ UNCHANGED <<obj, file>>

HandlePipe(l) ==
    /\ l = Pipe
    /\ pipe' = Tail(pipe)
    /\ LoopGoesOn
    /\ \/ Head(pipe) = "StartServer" /\ StartServer
       \/ Head(pipe) = "StopServer" /\ StopServer
-----------------------------------------------------------------------------
(* The loop.                                                                *)

IsReady(o) ==
    IF obj[o].link = "listen" THEN backlog > 0 ELSE obj[o].data \/ Ended(o)

Ready == {file[n] : n \in {n \in Fds : file[n] # 0 /\ IsReady(file[n])}}
             \cup (IF pipe # <<>> THEN {Pipe} ELSE {})

(* epoll_wait answers what is ready, in an order of its own.                *)
Wait ==
    /\ over = "no" /\ phase = "wait"
    /\ batch' = Ready /\ stopped' = {} /\ LoopGoesOn
    /\ UNCHANGED <<sockets, pipe, over>>

(* Mutant: an event is handed out again when its handler fails.             *)
HandleAgain ==
    /\ over = "no" /\ phase = "events"
    /\ \E l \in batch, again \in BOOLEAN :
         /\ batch' = IF again /\ l # Pipe THEN batch ELSE batch \ {l}
         /\ HandlePipe(l) \/ HandleSocket(l)

Handle ==
    /\ over = "no" /\ phase = "events"
    /\ \E l \in batch :
         /\ batch' = batch \ {l}
         /\ HandlePipe(l) \/ HandleSocket(l)
-----------------------------------------------------------------------------
(* The shell's commands, the peers and the network.                         *)

Unbounded == made + backlog + Len(pipe) < MaxObjs

Command ==
    /\ over = "no" /\ Len(pipe) < MaxPipe /\ Unbounded
    /\ \E m \in Messages : pipe' = Append(pipe, m)
    /\ UNCHANGED <<sockets, phase, batch, stopped, over>>

Connect ==
    /\ over = "no" /\ server # 0 /\ backlog < MaxBacklog /\ Unbounded
    /\ backlog' = backlog + 1
    /\ UNCHANGED <<server, obj, streams, file, made, pipe, phase, batch, stopped, over>>

(* The network works for the sockets that have a descriptor.                *)
Network ==
    /\ over = "no"
    /\ \E n \in Fds : LET o == file[n] IN
         /\ o # 0
         /\ \/ obj[o].link = "up" /\ obj' = [obj EXCEPT ![o].data = TRUE]
            \/ obj[o].link = "up" /\ obj' = [obj EXCEPT ![o].link = "eof"]
            \/ obj[o].link \in {"up", "eof"}
               /\ obj' = [obj EXCEPT ![o].link = "broken", ![o].data = FALSE]
    /\ UNCHANGED <<server, streams, file, made, backlog, pipe, phase, batch, stopped, over>>

Next == Wait \/ Handle \/ AcceptOne \/ AcceptFails \/ Command \/ Connect \/ Network

Spec == Init /\ [][Next]_vars

(* The loop goes on, and so does that of Accept while it can.               *)
FairSpec == Spec /\ WF_vars(Wait) /\ WF_vars(Handle) /\ WF_vars(AcceptOne \/ AcceptFails)
-----------------------------------------------------------------------------
Objects ==
    [life : {"unmade", "alive", "deleted", "orphan"}, fd : 0..MaxFd,
     link : {"none", "listen", "deaf", "up", "eof", "broken"},
     data : BOOLEAN, full : BOOLEAN, grown : BOOLEAN]

(* The shape of every variable.                                             *)
TypeOK ==
    /\ server \in 0..MaxObjs /\ obj \in [Objs -> Objects]
    /\ streams \in Seq([of : Objs, fd : Fds])
    /\ file \in [Fds -> 0..MaxObjs]
    /\ made \in 0..MaxObjs /\ backlog \in 0..MaxBacklog /\ pipe \in Seq(Messages)
    /\ phase \in {"wait", "events", "accept"}
    /\ batch \subseteq 0..MaxObjs /\ stopped \subseteq Objs
    /\ over \in {"no", "dangling", "deleted twice", "aborted", "terminated"}

(* Each open descriptor belongs to one living socket, and a living socket   *)
(* has its own. Numbers are used again, but no event and no close() of one  *)
(* socket reaches another, and no descriptor is leaked                      *)
(* (xma_epoll.cpp:32-40, xma_socket.cpp:744-781).                           *)
OneOwner ==
    /\ \A n \in Fds : file[n] # 0 => Alive(file[n]) /\ obj[file[n]].fd = n
    /\ \A o \in Objs : Alive(o) => obj[o].fd \in Fds /\ file[obj[o].fd] = o

(* Once the server is stopped, without a double delete, nothing of it is    *)
(* open: neither the socket that listened, nor one it has accepted          *)
(* (server_service.hpp:159-169).                                            *)
StoppedIsClosed == server = 0 /\ over = "no" => \A n \in Fds : file[n] = 0

(* While a server runs, each of its connections has exactly one copy, with  *)
(* its descriptor: so deleting the copies closes each connection once, and  *)
(* closes nothing else unless a connection has ended before.                *)
OneCopy ==
    /\ \A i, j \in DOMAIN streams : i # j => streams[i].of # streams[j].of
    /\ \A o \in Objs : Alive(o) /\ o # server => [of |-> o, fd |-> obj[o].fd] \in Copies

(* A deleted socket, or one whose receiver and buffers are deleted, is used *)
(* in two ways only, both by the loop that hands out an event               *)
(* (xma_process.cpp:214-224): the server was stopped earlier in the same    *)
(* batch, or the handler of this event has deleted its socket and Handle    *)
(* counts in it (xma_listener.h:72-77). No refused connection leads there,  *)
(* and no event of a later batch, whose descriptor may be another's by then.*)
DanglingHasCause ==
    [][over' = "dangling" /\ over # "dangling" =>
          \E l \in batch \ batch' :
              /\ l # Pipe
              /\ l \in stopped \/ (Alive(l) /\ ~Alive(l)')]_vars

(* A connection that waits is taken, unless the server is stopped, no       *)
(* descriptor is free or epoll does not report the socket: also one that    *)
(* comes while Accept runs its loop.                                        *)
IsDeaf == server # 0 /\ obj[server].link = "deaf"

WaitingIsTaken ==
    backlog > 0 ~> (backlog = 0 \/ FreeFds = {} \/ IsDeaf \/ over # "no")
=============================================================================
