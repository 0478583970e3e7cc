--------------------------- MODULE EchoServerProofs ---------------------------
(***************************************************************************)
(* Proofs about EchoServer, for any number of descriptors, connections,    *)
(* messages and objects.                                                   *)
(***************************************************************************)
EXTENDS EchoServer, ListLemmas

Listening == {"listen", "deaf"}

(* The part of TypeOK that the handlers touch.                             *)
ObjectsTyped ==
    /\ server \in 0..MaxObjs /\ obj \in [Objs -> Objects]
    /\ streams \in Seq([of : Objs, fd : Fds])
    /\ file \in [Fds -> 0..MaxObjs] /\ stopped \subseteq Objs
    /\ over \in {"no", "dangling", "deleted twice", "aborted", "terminated"}

(* Objects are numbered in the order in which they are made.               *)
Numbered ==
    /\ \A o \in Objs : Alive(o) => o <= made
    /\ \A i \in DOMAIN streams : streams[i].of <= made

(* The one socket that listens is the server, and nothing is left without  *)
(* it.                                                                     *)
ServerListens ==
    /\ server # 0 => Alive(server)
    /\ server = 0 => streams = <<>> /\ \A o \in Objs : ~Alive(o)
    /\ \A o \in Objs : Alive(o) => (o = server <=> obj[o].link \in Listening)
    /\ \A i \in DOMAIN streams : streams[i].of # server

(* The object of an event lives, unless StopServer has deleted it since    *)
(* the batch was taken.                                                    *)
EventsLive == \A l \in batch : l # Pipe => Alive(l) \/ l \in stopped

SocketsInv == ObjectsTyped /\ OneOwner /\ OneCopy /\ Numbered /\ ServerListens

(* What is waiting may still be made; an event of the pipe has a message   *)
(* behind it; the loop of Accept is that of the server.                    *)
LoopInv ==
    /\ made + backlog + Len(pipe) <= MaxObjs
    /\ \A l \in batch : l <= made
    /\ Pipe \in batch => pipe # <<>>
    /\ phase = "accept" => server # 0

IInv == TypeOK /\ SocketsInv /\ EventsLive /\ LoopInv

LEMMA Numbers ==
    /\ MaxFd \in Nat /\ MaxBacklog \in Nat /\ MaxPipe \in Nat /\ MaxObjs \in Nat
    /\ 0 \notin Objs /\ Objs \subseteq 0..MaxObjs /\ Fds \subseteq 0..MaxFd
    /\ 0 \in 0..MaxFd /\ 0 \in 0..MaxObjs
    /\ \A l \in 0..MaxObjs : l # 0 => l \in Objs
    /\ \A k \in Nat : k + 1 <= MaxObjs => k + 1 \in Objs /\ k \notin {k + 1}
<1>1. MaxFd \in Nat /\ MaxBacklog \in Nat /\ MaxPipe \in Nat /\ MaxObjs \in Nat
  BY ServerAssumption
<1>2. QED
  BY <1>1 DEF Objs, Fds

(* NewFd is free when a descriptor is: a finite set of numbers has a least. *)
LEMMA NewFdIsFree ==
    ASSUME FreeFds # {}
    PROVE  NewFd \in FreeFds
<1>1. FreeFds \in SUBSET Nat
  BY Numbers DEF FreeFds, Fds
<1>2. QED
  BY <1>1, LeastExists DEF NewFd

LEMMA Lengths ==
    ASSUME NEW S, NEW s \in Seq(S)
    PROVE  Len(s) \in Nat
OBVIOUS

LEMMA OneMore ==
    ASSUME NEW i \in Nat, NEW j \in Nat, NEW k \in Nat, NEW n \in Nat, i + j + k < n
    PROVE  i + j + (k + 1) <= n /\ i + (j + 1) + k <= n
OBVIOUS

LEMMA CopiesTyped ==
    ASSUME TypeOK
    PROVE  \A i \in DOMAIN streams : streams[i].of \in Objs /\ streams[i].fd \in Fds
<1>1. streams \in Seq([of : Objs, fd : Fds])
  BY DEF TypeOK
<1>2. \A i \in DOMAIN streams : streams[i] \in [of : Objs, fd : Fds]
  BY <1>1, Elements
<1>3. QED
  BY <1>2
-----------------------------------------------------------------------------
(* What the operators do to the objects and to the table of descriptors.   *)

Touches(o) ==
    obj' \in [Objs -> Objects] /\ \A p \in Objs : p # o => obj'[p] = obj[p]

Table == file' \in [Fds -> 0..MaxObjs]

IsStarted(o, n, link) ==
    /\ obj'[o].life = "alive" /\ obj'[o].fd = n /\ obj'[o].link = link
    /\ \A m \in Fds : file'[m] = IF m = n THEN o ELSE file[m]

LEMMA StartedObj ==
    ASSUME TypeOK, NEW o \in Objs, NEW n \in Fds, NEW link \in {"listen", "deaf", "up"},
           Started(o, n, link)
    PROVE  Touches(o) /\ Table /\ IsStarted(o, n, link)
<1> DEFINE new == [Unmade EXCEPT !.life = "alive", !.fd = n, !.link = link]
<1>1. new \in Objects /\ new.life = "alive" /\ new.fd = n /\ new.link = link
  BY Numbers DEF Unmade, Objects
<1>2. o \in 0..MaxObjs
  BY Numbers
<1>3. QED
  BY <1>1, <1>2 DEF Started, TypeOK, Touches, Table, IsStarted

LEMMA DeletedObj ==
    ASSUME TypeOK, NEW o \in Objs, obj' = [obj EXCEPT ![o] = Deleted]
    PROVE  Touches(o) /\ obj'[o].life = "deleted"
<1>1. Deleted \in Objects /\ Deleted.life = "deleted"
  BY Numbers DEF Deleted, Unmade, Objects
<1>2. QED
  BY <1>1 DEF TypeOK, Touches

LEMMA ClosedFile ==
    ASSUME TypeOK, NEW ns, Closed(ns)
    PROVE  /\ Table
           /\ \A m \in Fds : file'[m] = IF m \in ns THEN 0 ELSE file[m]
BY Numbers DEF Closed, TypeOK, Table

(* A step that starts one socket keeps OneOwner, when that was dead before. *)
LEMMA StartedOwner ==
    ASSUME TypeOK, OneOwner, NEW o \in Objs, ~Alive(o), NEW n \in FreeFds,
           NEW link \in {"listen", "deaf", "up"}, Started(o, n, link)
    PROVE  OneOwner'
<1>1. n \in Fds /\ file[n] = 0 /\ 0 \notin Objs
  BY Numbers DEF FreeFds, Objs
<1>2. /\ obj'[o].life = "alive" /\ obj'[o].fd = n
      /\ \A p \in Objs : p # o => obj'[p] = obj[p]
      /\ \A m \in Fds : file'[m] = IF m = n THEN o ELSE file[m]
  BY <1>1, StartedObj DEF Touches, IsStarted
<1>3. \A m \in Fds : file[m] # 0 => file[m] \in Objs
  <2>1. file \in [Fds -> 0..MaxObjs]
    BY DEF TypeOK
  <2>2. QED
    BY <2>1, Numbers
<1>4. QED
  BY <1>1, <1>2, <1>3 DEF OneOwner, Alive

LEMMA OpenServerFits ==
    ASSUME IInv, server = 0, made + 1 <= MaxObjs, OpenServer(made + 1), made' = made + 1,
           UNCHANGED <<streams, stopped>>, batch' \subseteq batch
    PROVE  SocketsInv' /\ EventsLive'
<1> DEFINE o == made + 1
<1>0. TypeOK /\ SocketsInv /\ EventsLive
  BY DEF IInv
<1>1. /\ o \in Objs /\ o # 0 /\ o \in 0..MaxObjs /\ ~Alive(o)
      /\ made \in Nat
  <2>1. made \in 0..MaxObjs
    BY <1>0 DEF TypeOK
  <2>2. o \in Objs /\ made \in Nat /\ ~(o <= made)
    BY <2>1, Numbers
  <2>3. QED
    BY <1>0, <2>2, Numbers DEF SocketsInv, Numbered
<1>2. streams = <<>> /\ \A p \in Objs : ~Alive(p)
  BY <1>0 DEF SocketsInv, ServerListens
<1>3. EventsLive'
  <2>1. \A l \in batch : l # Pipe => l \in Objs
    BY <1>0, Numbers DEF TypeOK, Pipe
  <2>2. \A l \in batch : l # Pipe => l \in stopped
    BY <1>0, <1>2, <2>1 DEF EventsLive
  <2>3. QED
    BY <2>2 DEF EventsLive
<1>4. CASE server' = o /\ UNCHANGED over
           /\ \E link \in Listening : FreeFds # {} /\ Started(o, NewFd, link)
  <2>1. PICK link \in Listening : FreeFds # {} /\ Started(o, NewFd, link)
    BY <1>4
  <2>2. NewFd \in FreeFds /\ NewFd \in Fds
    BY <2>1, NewFdIsFree DEF FreeFds
  <2>10. link \in {"listen", "deaf", "up"}
    BY DEF Listening
  <2> HIDE DEF o
  <2>3. Touches(o) /\ Table /\ IsStarted(o, NewFd, link)
    BY <1>0, <1>1, <2>1, <2>2, <2>10, StartedObj
  <2>4. OneOwner'
    BY <1>0, <1>1, <2>1, <2>2, <2>10, StartedOwner DEF SocketsInv
  <2>5. \A p \in Objs : Alive(p)' <=> p = o
    BY <1>1, <1>2, <2>3 DEF Alive, Touches, IsStarted
  <2>6. OneCopy'
    BY <1>2, <1>4, <2>5 DEF OneCopy
  <2>7. Numbered' /\ ServerListens'
    BY <1>1, <1>2, <1>4, <2>3, <2>5 DEF o, Numbered, ServerListens, IsStarted
  <2>8. ObjectsTyped'
    BY <1>0, <1>1, <1>4, <2>3 DEF ObjectsTyped, TypeOK, Touches, Table
  <2>9. QED
    BY <1>3, <2>4, <2>6, <2>7, <2>8 DEF SocketsInv
<1>5. CASE Thrown /\ UNCHANGED server
  <2>1. UNCHANGED <<obj, file, server, streams>> /\ over' = "terminated"
    BY <1>5 DEF Thrown
  <2>2. QED
    <3>1. ObjectsTyped'
      BY <1>0, <2>1 DEF SocketsInv, ObjectsTyped
    <3>2. OneOwner' /\ OneCopy' /\ ServerListens'
      BY <1>0, <2>1 DEF SocketsInv, OneOwner, OneCopy, ServerListens, Alive, Copies
    <3>3. Numbered'
      BY <1>1, <1>2, <2>1 DEF Numbered, Alive
    <3>4. QED
      BY <1>3, <3>1, <3>2, <3>3 DEF SocketsInv
<1>6. CASE obj' = [obj EXCEPT ![o] = Deleted] /\ UNCHANGED <<server, file, over>>
  <2> HIDE DEF o
  <2>1. Touches(o) /\ obj'[o].life = "deleted"
    BY <1>0, <1>1, <1>6, DeletedObj
  <2>2. \A p \in Objs : ~Alive(p)'
    BY <1>2, <2>1 DEF Alive, Touches
  <2>3. \A n \in Fds : file[n] = 0
    <3>1. \A n \in Fds : file[n] \in 0..MaxObjs
      BY <1>0 DEF TypeOK
    <3>2. QED
      BY <1>0, <1>2, <3>1, Numbers DEF SocketsInv, OneOwner
  <2>4. QED
    <3>1. ObjectsTyped'
      BY <1>0, <1>6, <2>1 DEF SocketsInv, ObjectsTyped, Touches
    <3>2. OneOwner'
      BY <1>6, <2>2, <2>3 DEF OneOwner
    <3>3. OneCopy' /\ Numbered' /\ ServerListens'
      BY <1>2, <1>6, <2>2 DEF OneCopy, Numbered, ServerListens
    <3>4. QED
      BY <1>3, <3>1, <3>2, <3>3 DEF SocketsInv
<1>7. QED
  BY <1>4, <1>5, <1>6 DEF OpenServer, Listening

(* A step that leaves the life, the descriptor and the role of every        *)
(* socket alone.                                                            *)
LEMMA SameFits ==
    ASSUME IInv, obj' \in [Objs -> Objects],
           \A p \in Objs : /\ obj'[p].life = obj[p].life /\ obj'[p].fd = obj[p].fd
                           /\ obj'[p].link \in Listening <=> obj[p].link \in Listening,
           over' \in {"no", "dangling", "deleted twice", "aborted", "terminated"},
           UNCHANGED <<server, streams, file, made, stopped>>, batch' \subseteq batch
    PROVE  SocketsInv' /\ EventsLive'
<1>0. TypeOK /\ SocketsInv /\ EventsLive
  BY DEF IInv
<1>1. \A p \in Objs : Alive(p)' <=> Alive(p)
  BY DEF Alive
<1>2. \A m \in Fds : file[m] # 0 => file[m] \in Objs
  <2>1. file \in [Fds -> 0..MaxObjs]
    BY <1>0 DEF TypeOK
  <2>2. QED
    BY <2>1, Numbers
<1>3. server # 0 => server \in Objs
  BY <1>0, Numbers DEF TypeOK
<1>4. ObjectsTyped'
  BY <1>0 DEF SocketsInv, ObjectsTyped
<1>5. OneOwner'
  BY <1>0, <1>1, <1>2 DEF SocketsInv, OneOwner
<1>6. OneCopy'
  BY <1>0, <1>1 DEF SocketsInv, OneCopy, Copies
<1>7. Numbered' /\ ServerListens'
  BY <1>0, <1>1, <1>3 DEF SocketsInv, Numbered, ServerListens
<1>8. EventsLive'
  <2>1. \A l \in batch : l # Pipe => l \in Objs
    BY <1>0, Numbers DEF TypeOK, Pipe
  <2>2. QED
    BY <1>0, <1>1, <2>1 DEF EventsLive
<1>9. QED
  BY <1>4, <1>5, <1>6, <1>7, <1>8 DEF SocketsInv

(* A connection that ends takes its descriptor along.                       *)
LEMMA DroppedFits ==
    ASSUME IInv, NEW o \in Objs, Alive(o), o # server, Dropped(o),
           UNCHANGED <<server, streams, made, stopped>>, CountsInFreed,
           batch' \subseteq batch \ {o}
    PROVE  SocketsInv' /\ EventsLive'
<1>0. TypeOK /\ SocketsInv /\ EventsLive
  BY DEF IInv
<1>1. Touches(o) /\ obj'[o].life = "deleted"
  BY <1>0, DeletedObj DEF Dropped
<1>2. Table /\ \A m \in Fds : file'[m] = IF m = obj[o].fd THEN 0 ELSE file[m]
  BY <1>0, ClosedFile DEF Dropped
<1>3. \A p \in Objs : Alive(p)' <=> Alive(p) /\ p # o
  BY <1>1 DEF Alive, Touches
<1>4. \A p \in Objs : p # o => obj'[p] = obj[p]
  BY <1>1 DEF Touches
<1>5. ObjectsTyped'
  BY <1>0, <1>1, <1>2 DEF SocketsInv, ObjectsTyped, Touches, Table, CountsInFreed
<1>6. OneOwner'
  <2>1. \A m \in Fds : file[m] # 0 => file[m] \in Objs
    <3>1. file \in [Fds -> 0..MaxObjs]
      BY <1>0 DEF TypeOK
    <3>2. QED
      BY <3>1, Numbers
  <2>2. ASSUME NEW m \in Fds, file'[m] # 0
        PROVE  obj'[file'[m]].life = "alive" /\ obj'[file'[m]].fd = m
    <3>1. m # obj[o].fd /\ file'[m] = file[m] /\ file[m] \in Objs
      BY <1>2, <2>1, <2>2
    <3>2. Alive(file[m]) /\ obj[file[m]].fd = m
      BY <1>0, <2>2, <3>1 DEF SocketsInv, OneOwner
    <3>3. file[m] # o
      BY <3>1, <3>2
    <3>4. QED
      BY <1>4, <3>1, <3>2, <3>3 DEF Alive
  <2>3. ASSUME NEW p \in Objs, Alive(p)'
        PROVE  obj'[p].fd \in Fds /\ file'[obj'[p].fd] = p
    <3>1. Alive(p) /\ p # o /\ obj'[p] = obj[p]
      BY <1>3, <1>4, <2>3
    <3>2. obj[p].fd \in Fds /\ file[obj[p].fd] = p /\ file[obj[o].fd] = o
      BY <1>0, <3>1 DEF SocketsInv, OneOwner
    <3>3. QED
      BY <1>2, <3>1, <3>2
  <2>4. QED
    BY <2>2, <2>3 DEF OneOwner, Alive
<1>7. OneCopy'
  BY <1>0, <1>3, <1>4 DEF SocketsInv, OneCopy, Copies
<1>8. Numbered' /\ ServerListens'
  BY <1>0, <1>3, <1>4, Numbers DEF SocketsInv, Numbered, ServerListens, TypeOK
<1>9. EventsLive'
  <2>1. \A l \in batch : l # Pipe => l \in Objs
    BY <1>0, Numbers DEF TypeOK, Pipe
  <2>2. QED
    BY <1>0, <1>3, <2>1 DEF EventsLive
<1>10. QED
  BY <1>5, <1>6, <1>7, <1>8, <1>9 DEF SocketsInv

(* The loop of Accept: a started socket gets its copy, a refused one goes.  *)
LEMMA AcceptFits ==
    ASSUME IInv, server # 0, FreeFds # {}, made + 1 <= MaxObjs, made' = made + 1,
           Accepted(made + 1, NewFd), UNCHANGED <<server, stopped, over>>, batch' \subseteq batch
    PROVE  SocketsInv' /\ EventsLive'
<1> DEFINE o == made + 1
           c == [of |-> o, fd |-> NewFd]
<1>0. TypeOK /\ SocketsInv /\ EventsLive
  BY DEF IInv
<1>1. o \in Objs /\ made \in Nat /\ ~(o <= made) /\ ~Alive(o)
  <2>1. made \in 0..MaxObjs
    BY <1>0 DEF TypeOK
  <2>2. o \in Objs /\ made \in Nat /\ ~(o <= made)
    BY <2>1, Numbers
  <2>3. QED
    BY <1>0, <2>2 DEF SocketsInv, Numbered
<1>2. NewFd \in FreeFds /\ NewFd \in Fds
  BY NewFdIsFree DEF FreeFds
<1>3. Started(o, NewFd, "up") /\ streams' = Append(streams, c)
  BY DEF Accepted
<1>4. server \in Objs /\ server <= made /\ Alive(server)
  BY <1>0, Numbers DEF TypeOK, SocketsInv, ServerListens, Numbered
<1> HIDE DEF o
<1>5. Touches(o) /\ Table /\ IsStarted(o, NewFd, "up")
  BY <1>0, <1>1, <1>2, <1>3, StartedObj
<1>6. OneOwner'
  BY <1>0, <1>1, <1>2, <1>3, StartedOwner DEF SocketsInv
<1>7. \A p \in Objs : Alive(p)' <=> Alive(p) \/ p = o
  BY <1>1, <1>5 DEF Alive, Touches, IsStarted
<1>8. /\ streams' \in Seq([of : Objs, fd : Fds]) /\ Len(streams') = Len(streams) + 1
      /\ streams'[Len(streams')] = c /\ \A i \in 1..Len(streams) : streams'[i] = streams[i]
      /\ DOMAIN streams' = 1..Len(streams') /\ DOMAIN streams = 1..Len(streams)
      /\ Len(streams) \in Nat
  <2>1. streams \in Seq([of : Objs, fd : Fds]) /\ c \in [of : Objs, fd : Fds]
    BY <1>0, <1>1, <1>2 DEF TypeOK
  <2> HIDE DEF c
  <2>2. QED
    BY <1>3, <2>1
<1>9. ObjectsTyped'
  BY <1>0, <1>5, <1>8 DEF SocketsInv, ObjectsTyped, Touches, Table
<1>10. \A i \in DOMAIN streams : streams[i].of <= made /\ streams[i].of # o
  BY <1>0, <1>1 DEF SocketsInv, Numbered
<1>11. OneCopy'
  <2>1. ASSUME NEW i \in DOMAIN streams', NEW j \in DOMAIN streams', i # j
        PROVE  streams'[i].of # streams'[j].of
    BY <1>0, <1>8, <1>10, <2>1 DEF SocketsInv, OneCopy
  <2>2. ASSUME NEW p \in Objs, Alive(p)', p # server
        PROVE  \E i \in DOMAIN streams' : streams'[i] = [of |-> p, fd |-> obj'[p].fd]
    <3>1. CASE p = o
      BY <1>5, <1>8, <3>1 DEF IsStarted
    <3>2. CASE p # o
      <4>1. Alive(p) /\ obj'[p] = obj[p]
        BY <1>5, <1>7, <2>2, <3>2 DEF Touches
      <4>2. PICK i \in DOMAIN streams : streams[i] = [of |-> p, fd |-> obj[p].fd]
        BY <1>0, <2>2, <4>1 DEF SocketsInv, OneCopy, Copies
      <4>3. QED
        BY <1>8, <4>1, <4>2
    <3>3. QED
      BY <3>1, <3>2
  <2>3. QED
    BY <2>1, <2>2 DEF OneCopy, Copies
<1>12. Numbered'
  <2>1. \A p \in Objs : Alive(p)' => p <= made'
    BY <1>0, <1>1, <1>7, Numbers DEF o, SocketsInv, Numbered, Objs
  <2>2. \A i \in DOMAIN streams' : streams'[i].of <= made'
    <3>1. \A i \in DOMAIN streams : streams[i].of \in Objs
      BY <1>0, CopiesTyped
    <3>2. made' = o /\ o = made + 1
      BY DEF o
    <3>3. \A i \in DOMAIN streams : streams[i].of \in Nat /\ streams[i].of <= o
      BY <1>1, <1>10, <3>1, <3>2 DEF Objs
    <3>4. o <= o
      BY <1>1 DEF Objs
    <3>5. ASSUME NEW i \in DOMAIN streams'
          PROVE  streams'[i].of <= o
      <4>1. CASE i = Len(streams')
        BY <1>8, <3>4, <4>1
      <4>2. CASE i # Len(streams')
        <5>1. i \in DOMAIN streams
          BY <1>8, <3>5, <4>2
        <5>2. QED
          BY <1>8, <3>3, <5>1
      <4>3. QED
        BY <4>1, <4>2
    <3>6. QED
      BY <3>2, <3>5
  <2>3. QED
    BY <2>1, <2>2 DEF Numbered
<1>13. ServerListens'
  <2>1. o # server
    BY <1>1, <1>4
  <2>2. \A p \in Objs : Alive(p)' => (p = server <=> obj'[p].link \in Listening)
    BY <1>0, <1>5, <1>7, <2>1 DEF SocketsInv, ServerListens, Touches, IsStarted, Listening
  <2>3. \A i \in DOMAIN streams' : streams'[i].of # server
    BY <1>0, <1>8, <2>1 DEF SocketsInv, ServerListens
  <2>4. QED
    BY <1>4, <1>7, <2>2, <2>3 DEF ServerListens
<1>14. EventsLive'
  <2>1. \A l \in batch : l # Pipe => l \in Objs
    BY <1>0, Numbers DEF TypeOK, Pipe
  <2>2. QED
    BY <1>0, <1>7, <2>1 DEF EventsLive
<1>15. QED
  BY <1>6, <1>9, <1>11, <1>12, <1>13, <1>14 DEF SocketsInv

LEMMA RefusedFits ==
    ASSUME IInv, server # 0, made + 1 <= MaxObjs, made' = made + 1,
           Refused(made + 1, NewFd) \/ (Thrown /\ UNCHANGED streams),
           UNCHANGED <<server, stopped>>, over' \in {over, "terminated"}, batch' \subseteq batch
    PROVE  SocketsInv' /\ EventsLive'
<1> DEFINE o == made + 1
<1>0. TypeOK /\ SocketsInv /\ EventsLive
  BY DEF IInv
<1>1. o \in Objs /\ made \in Nat /\ ~(o <= made) /\ ~Alive(o)
  <2>1. made \in 0..MaxObjs
    BY <1>0 DEF TypeOK
  <2>2. o \in Objs /\ made \in Nat /\ ~(o <= made)
    BY <2>1, Numbers
  <2>3. QED
    BY <1>0, <2>2 DEF SocketsInv, Numbered
<1>2. server \in Objs /\ server <= made /\ Alive(server)
  BY <1>0, Numbers DEF TypeOK, SocketsInv, ServerListens, Numbered
<1>3. UNCHANGED <<file, streams>>
  BY DEF Refused, Thrown
<1> HIDE DEF o
<1>4. Touches(o) /\ obj'[o].life # "alive"
  <2>1. CASE Refused(made + 1, NewFd)
    BY <1>0, <1>1, <2>1, DeletedObj DEF Refused, o
  <2>2. CASE Thrown
    BY <1>0, <1>1, <2>2 DEF Thrown, TypeOK, Touches, Alive
  <2>3. QED
    BY <2>1, <2>2
<1>5. \A p \in Objs : /\ Alive(p)' <=> Alive(p)
                      /\ Alive(p) => obj'[p] = obj[p]
  BY <1>1, <1>4 DEF Alive, Touches
<1>6. \A m \in Fds : file[m] # 0 => file[m] \in Objs
  <2>1. file \in [Fds -> 0..MaxObjs]
    BY <1>0 DEF TypeOK
  <2>2. QED
    BY <2>1, Numbers
<1>7. ObjectsTyped'
  BY <1>0, <1>3, <1>4 DEF SocketsInv, ObjectsTyped, Touches
<1>8. OneOwner'
  BY <1>0, <1>3, <1>5, <1>6 DEF SocketsInv, OneOwner
<1>9. OneCopy'
  BY <1>0, <1>3, <1>5 DEF SocketsInv, OneCopy, Copies
<1>10. Numbered'
  <2>1. \A i \in DOMAIN streams : streams[i].of \in Objs
    BY <1>0, CopiesTyped
  <2>2. QED
    BY <1>0, <1>1, <1>3, <1>5, <2>1, Numbers DEF SocketsInv, Numbered, Objs
<1>11. ServerListens'
  BY <1>0, <1>2, <1>3, <1>5 DEF SocketsInv, ServerListens
<1>12. EventsLive'
  <2>1. \A l \in batch : l # Pipe => l \in Objs
    BY <1>0, Numbers DEF TypeOK, Pipe
  <2>2. QED
    BY <1>0, <1>5, <2>1 DEF EventsLive
<1>13. QED
  BY <1>7, <1>8, <1>9, <1>10, <1>11, <1>12 DEF SocketsInv

(* StopServer closes the descriptor of every copy and its own: all there    *)
(* are, since every connection has its copy.                                *)
LEMMA StopFits ==
    ASSUME IInv, StopServer, batch' \subseteq batch
    PROVE  SocketsInv' /\ EventsLive' /\ made' = made /\ backlog' \in {backlog, 0}
<1>0. TypeOK /\ SocketsInv /\ EventsLive /\ made' = made
  BY DEF IInv, StopServer
<1>1. CASE server = 0
  <2>1. UNCHANGED <<server, obj, streams, file, made, backlog, stopped, over>>
    BY <1>0, <1>1 DEF StopServer
  <2>2. SocketsInv' /\ EventsLive'
    BY <1>0, <2>1, SameFits DEF TypeOK
  <2>3. QED
    BY <1>0, <2>1, <2>2
<1>2. CASE server # 0 /\ \E c \in Copies : SharesDeleted(c)
  <2>1. /\ UNCHANGED <<server, obj, streams, file, made, backlog, stopped>>
        /\ over' = "deleted twice"
    BY <1>0, <1>2 DEF StopServer
  <2>2. SocketsInv' /\ EventsLive'
    BY <1>0, <2>1, SameFits DEF TypeOK
  <2>3. QED
    BY <1>0, <2>1, <2>2
<1>3. CASE server # 0 /\ ~ \E c \in Copies : SharesDeleted(c)
  <2> DEFINE originals == {c.of : c \in Copies}
             closed == {c.fd : c \in Copies} \cup {obj[server].fd}
  <2>1. /\ server' = 0 /\ streams' = <<>> /\ backlog' = 0 /\ over' = over /\ Closed(closed)
        /\ obj' = [o \in Objs |-> IF o = server THEN Deleted
                                  ELSE IF o \in originals THEN [obj[o] EXCEPT !.life = "orphan"]
                                  ELSE obj[o]]
        /\ stopped' = stopped \cup originals \cup {server}
    BY <1>3 DEF StopServer
  <2>2. server \in Objs
    BY <1>0, <1>3, Numbers DEF TypeOK
  <2>3. originals \subseteq Objs
    BY <1>0, CopiesTyped DEF Copies
  <2>4. \A o \in Objs : Alive(o) /\ o # server =>
            [of |-> o, fd |-> obj[o].fd] \in Copies /\ o \in originals
    BY <1>0 DEF SocketsInv, OneCopy
  <2> HIDE DEF originals
  <2>5. \A o \in Objs : obj'[o] \in Objects /\ ~Alive(o)'
    <3>1. Deleted \in Objects /\ Deleted.life # "alive"
      BY Numbers DEF Deleted, Unmade, Objects
    <3>2. \A o \in Objs : /\ obj[o] \in Objects
                          /\ [obj[o] EXCEPT !.life = "orphan"] \in Objects
                          /\ [obj[o] EXCEPT !.life = "orphan"].life # "alive"
      BY <1>0 DEF TypeOK, Objects
    <3>3. QED
      BY <2>1, <2>4, <3>1, <3>2 DEF Alive
  <2>6. Table /\ \A m \in Fds : file'[m] = 0
    <3>1. Table /\ \A m \in Fds : file'[m] = IF m \in closed THEN 0 ELSE file[m]
      BY <1>0, <2>1, ClosedFile
    <3>2. ASSUME NEW m \in Fds, file[m] # 0
          PROVE  m \in closed
      <4>1. file[m] \in Objs
        <5>1. file \in [Fds -> 0..MaxObjs]
          BY <1>0 DEF TypeOK
        <5>2. QED
          BY <3>2, <5>1, Numbers
      <4>2. Alive(file[m]) /\ obj[file[m]].fd = m
        BY <1>0, <3>2 DEF SocketsInv, OneOwner
      <4>3. file[m] # server => [of |-> file[m], fd |-> m] \in Copies
        BY <2>4, <4>1, <4>2
      <4>4. [of |-> file[m], fd |-> m].fd = m
        OBVIOUS
      <4>5. QED
        BY <4>2, <4>3, <4>4
    <3>3. QED
      BY <3>1, <3>2
  <2>7. ObjectsTyped'
    <3>1. obj' \in [Objs -> Objects]
      BY <2>1, <2>5
    <3>2. stopped' \subseteq Objs
      BY <1>0, <2>1, <2>2, <2>3 DEF TypeOK
    <3>3. streams' \in Seq([of : Objs, fd : Fds])
      BY <2>1
    <3>4. QED
      BY <1>0, <2>1, <2>6, <3>1, <3>2, <3>3, Numbers DEF SocketsInv, ObjectsTyped, Table
  <2>8. OneOwner' /\ OneCopy' /\ Numbered' /\ ServerListens'
    <3>1. DOMAIN streams' = {}
      BY <2>1
    <3>2. OneOwner'
      BY <2>5, <2>6 DEF OneOwner
    <3>3. OneCopy' /\ Numbered'
      BY <2>5, <3>1 DEF OneCopy, Numbered
    <3>4. ServerListens'
      BY <2>1, <2>5, <3>1 DEF ServerListens
    <3>5. QED
      BY <3>2, <3>3, <3>4
  <2>9. EventsLive'
    <3>1. \A l \in batch : l # Pipe => l \in Objs
      BY <1>0, Numbers DEF TypeOK, Pipe
    <3>2. QED
      BY <1>0, <2>1, <2>4, <3>1 DEF EventsLive
  <2>10. QED
    BY <1>0, <2>1, <2>7, <2>8, <2>9 DEF SocketsInv
<1>4. QED
  BY <1>1, <1>2, <1>3

(* One event of a socket, and one message.                                  *)
LEMMA HandleSocketFits ==
    ASSUME IInv, NEW o \in batch, HandleSocket(o), batch' = batch \ {o}
    PROVE  SocketsInv' /\ EventsLive'
<1>0. TypeOK /\ SocketsInv /\ EventsLive
  BY DEF IInv
<1>1. o \in Objs /\ UNCHANGED <<server, streams, made, stopped>>
  BY <1>0, Numbers DEF HandleSocket, TypeOK, Pipe
<1>2. CASE UNCHANGED <<obj, file>> /\ over' \in {over, "dangling", "aborted"}
  BY <1>0, <1>1, <1>2, SameFits DEF TypeOK
<1>3. CASE Alive(o) /\ Ended(o) /\ Dropped(o) /\ CountsInFreed
  <2>1. o # server
    BY <1>0, <1>1, <1>3 DEF SocketsInv, ServerListens, Listening, Ended
  <2>2. QED
    BY <1>1, <1>3, <2>1, DroppedFits
<1>4. CASE Echoed(o) /\ UNCHANGED over
  <2>1. PICK grown \in {obj[o].grown, TRUE}, full \in BOOLEAN :
            obj' = [obj EXCEPT ![o].data = FALSE, ![o].full = full, ![o].grown = grown]
    BY <1>4 DEF Echoed
  <2>2. obj \in [Objs -> Objects] /\ obj[o] \in Objects
    BY <1>0, <1>1 DEF TypeOK
  <2>3. obj' \in [Objs -> Objects]
    BY <2>1, <2>2 DEF Objects
  <2>4. \A p \in Objs : obj'[p].life = obj[p].life /\ obj'[p].fd = obj[p].fd
                       /\ obj'[p].link = obj[p].link
    BY <2>1, <2>2 DEF Objects
  <2>5. UNCHANGED file /\ over' \in {"no", "dangling", "deleted twice", "aborted", "terminated"}
    BY <1>0, <1>4 DEF Echoed, TypeOK
  <2>6. QED
    BY <1>1, <2>3, <2>4, <2>5, SameFits
<1>5. QED
  BY <1>2, <1>3, <1>4 DEF HandleSocket, Read, Ended, CountsInFreed

LEMMA HandlePipeFits ==
    ASSUME IInv, Pipe \in batch, HandlePipe(Pipe), batch' = batch \ {Pipe}
    PROVE  /\ SocketsInv' /\ EventsLive'
           /\ made' + backlog' + Len(pipe') <= MaxObjs
           /\ made' \in made..MaxObjs /\ backlog' \in {backlog, 0}
           /\ pipe' \in Seq(Messages)
<1>0. TypeOK /\ LoopInv
  BY DEF IInv
<1>1. /\ pipe' \in Seq(Messages) /\ Len(pipe') \in Nat /\ Len(pipe) = Len(pipe') + 1
      /\ pipe' = Tail(pipe)
  <2>1. pipe \in Seq(Messages) /\ pipe # <<>> /\ pipe' = Tail(pipe)
    BY <1>0 DEF TypeOK, LoopInv, HandlePipe
  <2>2. QED
    BY <2>1, Tails
<1>2. made \in 0..MaxObjs /\ backlog \in Nat /\ made + 1 <= MaxObjs
  <2>1. made \in 0..MaxObjs /\ backlog \in 0..MaxBacklog
    BY <1>0 DEF TypeOK
  <2>2. QED
    BY <1>0, <1>1, <2>1, Numbers DEF LoopInv
<1>3. CASE StartServer
  <2>1. UNCHANGED <<streams, backlog, stopped>>
    BY <1>3 DEF StartServer
  <2>2. CASE server # 0
    <3>1. UNCHANGED <<server, obj, file, made, over>>
      BY <1>3, <2>2 DEF StartServer
    <3>2. SocketsInv' /\ EventsLive'
      BY <1>0, <2>1, <3>1, SameFits DEF TypeOK
    <3>3. QED
      BY <1>0, <1>1, <1>2, <2>1, <3>1, <3>2, Numbers DEF LoopInv
  <2>3. CASE server = 0
    <3>1. made' = made + 1 /\ OpenServer(made + 1)
      BY <1>3, <2>3 DEF StartServer
    <3>2. SocketsInv' /\ EventsLive'
      BY <1>2, <2>1, <2>3, <3>1, OpenServerFits
    <3>3. QED
      BY <1>0, <1>1, <1>2, <2>1, <3>1, <3>2, Numbers DEF LoopInv
  <2>4. QED
    BY <2>2, <2>3
<1>4. CASE StopServer
  <2>1. SocketsInv' /\ EventsLive' /\ made' = made /\ backlog' \in {backlog, 0}
    BY <1>4, StopFits
  <2>2. QED
    BY <1>0, <1>1, <1>2, <2>1, Numbers DEF LoopInv
<1>5. QED
  BY <1>3, <1>4 DEF HandlePipe
-----------------------------------------------------------------------------
LEMMA InitIInv == Init => IInv
<1> SUFFICES ASSUME Init PROVE IInv
  OBVIOUS
<1>1. Unmade \in Objects /\ Unmade.life # "alive"
  BY Numbers DEF Unmade, Objects
<1>2. obj \in [Objs -> Objects] /\ \A o \in Objs : ~Alive(o)
  BY <1>1 DEF Init, Alive
<1>3. server = 0 /\ streams = <<>> /\ DOMAIN streams = {} /\ \A n \in Fds : file[n] = 0
  BY DEF Init
<1>4. file \in [Fds -> 0..MaxObjs]
  BY Numbers DEF Init
<1>5. TypeOK
  BY <1>2, <1>3, <1>4, Numbers DEF Init, TypeOK
<1>6. OneOwner /\ OneCopy /\ Numbered /\ ServerListens
  BY <1>2, <1>3 DEF OneOwner, OneCopy, Numbered, ServerListens
<1>7. EventsLive /\ LoopInv
  BY Numbers DEF Init, EventsLive, LoopInv
<1>8. QED
  BY <1>5, <1>6, <1>7 DEF IInv, SocketsInv, ObjectsTyped, TypeOK

(* What the events of epoll_wait stand for.                                 *)
LEMMA ReadyFits ==
    ASSUME IInv
    PROVE  /\ Ready \subseteq 0..made
           /\ \A l \in Ready : l # Pipe => Alive(l)
           /\ Pipe \in Ready => pipe # <<>>
<1>0. TypeOK /\ SocketsInv
  BY DEF IInv
<1>1. made \in 0..MaxObjs /\ file \in [Fds -> 0..MaxObjs]
  BY <1>0 DEF TypeOK
<1>2. ASSUME NEW n \in Fds, file[n] # 0
      PROVE  file[n] \in Objs /\ Alive(file[n]) /\ file[n] \in 0..made
  <2>1. file[n] \in 0..MaxObjs /\ file[n] \in Objs
    BY <1>1, <1>2, Numbers
  <2>2. Alive(file[n])
    BY <1>0, <1>2 DEF SocketsInv, OneOwner
  <2>3. file[n] <= made
    BY <1>0, <2>1, <2>2 DEF SocketsInv, Numbered
  <2>4. QED
    BY <1>1, <2>1, <2>2, <2>3
<1>3. \A l \in Ready : (l = Pipe /\ pipe # <<>>) \/ (\E n \in Fds : file[n] # 0 /\ l = file[n])
  BY DEF Ready
<1>4. 0 \in 0..made
  BY <1>1, Numbers
<1>5. QED
  BY <1>2, <1>3, <1>4, Numbers DEF Pipe

(* TypeOK of what the handlers do not touch, and LoopInv, which together    *)
(* with the sockets make the invariant.                                     *)
LEMMA MakesIInv ==
    ASSUME SocketsInv', EventsLive', LoopInv',
           made' \in 0..MaxObjs, backlog' \in 0..MaxBacklog, pipe' \in Seq(Messages),
           phase' \in {"wait", "events", "accept"}, batch' \subseteq 0..MaxObjs
    PROVE  IInv'
BY DEF IInv, SocketsInv, ObjectsTyped, TypeOK

LEMMA HandleStep ==
    ASSUME IInv, Handle
    PROVE  IInv'
<1>0. TypeOK /\ SocketsInv /\ EventsLive /\ LoopInv
  BY DEF IInv
<1>1. PICK l \in batch : batch' = batch \ {l} /\ (HandlePipe(l) \/ HandleSocket(l))
  BY DEF Handle
<1>2. batch' \subseteq batch /\ batch \subseteq 0..MaxObjs /\ made \in 0..MaxObjs
  BY <1>0, <1>1 DEF TypeOK
<1>3. CASE HandlePipe(l)
  <2>1. l = Pipe /\ HandlePipe(Pipe) /\ batch' = batch \ {Pipe} /\ phase' \in {"wait", "events"}
    BY <1>1, <1>3 DEF HandlePipe, LoopGoesOn
  <2>2. /\ SocketsInv' /\ EventsLive' /\ made' + backlog' + Len(pipe') <= MaxObjs
        /\ made' \in made..MaxObjs /\ backlog' \in {backlog, 0} /\ pipe' \in Seq(Messages)
    BY <1>1, <2>1, HandlePipeFits
  <2>3. LoopInv'
    BY <1>0, <1>2, <2>1, <2>2, Numbers DEF LoopInv
  <2>4. made' \in 0..MaxObjs /\ backlog' \in 0..MaxBacklog
    <3>1. backlog \in 0..MaxBacklog
      BY <1>0 DEF TypeOK
    <3>2. QED
      BY <1>2, <2>2, <3>1, Numbers
  <2>5. batch' \subseteq 0..MaxObjs /\ phase' \in {"wait", "events", "accept"}
    BY <1>2, <2>1
  <2>6. QED
    BY <2>2, <2>3, <2>4, <2>5, MakesIInv
<1>4. CASE HandleSocket(l)
  <2>1. SocketsInv' /\ EventsLive'
    BY <1>1, <1>4, HandleSocketFits
  <2>2. UNCHANGED <<server, made, backlog, pipe>> /\ l # Pipe
    BY <1>4 DEF HandleSocket
  <2>3. phase' \in {"wait", "events"} \/ (phase' = "accept" /\ Alive(l))
    BY <1>4 DEF HandleSocket, LoopGoesOn
  <2>4. Alive(l) => server # 0
    BY <1>0, <1>1, <1>2, <2>2, Numbers DEF SocketsInv, ServerListens, Pipe
  <2>5. LoopInv'
    BY <1>0, <1>2, <2>2, <2>3, <2>4 DEF LoopInv
  <2>6. QED
    BY <1>0, <1>2, <2>1, <2>2, <2>3, <2>5, MakesIInv DEF TypeOK
<1>5. QED
  BY <1>1, <1>3, <1>4

LEMMA AcceptStep ==
    ASSUME IInv, AcceptOne
    PROVE  IInv'
<1>0. TypeOK /\ LoopInv
  BY DEF IInv
<1>1. /\ backlog > 0 /\ FreeFds # {} /\ phase = "accept"
      /\ made' = made + 1 /\ backlog' = backlog - 1
      /\ UNCHANGED <<server, pipe, phase, batch, stopped>>
  BY DEF AcceptOne
<1>2. made \in 0..MaxObjs /\ backlog \in 0..MaxBacklog /\ pipe \in Seq(Messages)
  BY <1>0 DEF TypeOK
<1>3. Len(pipe) \in Nat
  BY <1>2
<1>4. /\ made + 1 <= MaxObjs /\ made' \in 0..MaxObjs /\ backlog' \in 0..MaxBacklog
      /\ made' + backlog' + Len(pipe) <= MaxObjs
  BY <1>0, <1>1, <1>2, <1>3, Numbers DEF LoopInv
<1>5. server # 0
  BY <1>0, <1>1 DEF LoopInv
<1>6. SocketsInv' /\ EventsLive'
  <2>1. CASE Accepted(made + 1, NewFd) /\ UNCHANGED over
    BY <1>1, <1>4, <1>5, <2>1, AcceptFits
  <2>2. CASE Refused(made + 1, NewFd) /\ UNCHANGED over
    BY <1>1, <1>4, <1>5, <2>2, RefusedFits
  <2>3. CASE Thrown /\ UNCHANGED streams
    <3>1. over' = "terminated"
      BY <2>3 DEF Thrown
    <3>2. QED
      BY <1>1, <1>4, <1>5, <2>3, <3>1, RefusedFits
  <2>4. QED
    BY <1>1, <2>1, <2>2, <2>3 DEF AcceptOne
<1>7. LoopInv'
  <2>1. batch \subseteq 0..MaxObjs
    BY <1>0 DEF TypeOK
  <2>2. \A l \in batch : l <= made + 1
    BY <1>0, <1>2, <2>1, Numbers DEF LoopInv
  <2>3. QED
    BY <1>0, <1>1, <1>4, <1>5, <2>2 DEF LoopInv
<1>8. batch' \subseteq 0..MaxObjs /\ phase' \in {"wait", "events", "accept"} /\ pipe' \in Seq(Messages)
  BY <1>0, <1>1, <1>2 DEF TypeOK
<1>9. QED
  BY <1>4, <1>6, <1>7, <1>8, MakesIInv

LEMMA WaitStep ==
    ASSUME IInv, Wait
    PROVE  IInv'
<1>0. TypeOK /\ SocketsInv /\ LoopInv
  BY DEF IInv
<1>1. /\ batch' = Ready /\ stopped' = {} /\ phase' \in {"wait", "events"}
      /\ UNCHANGED <<server, obj, streams, file, made, backlog, pipe, over>>
  BY DEF Wait, LoopGoesOn, sockets
<1>2. /\ Ready \subseteq 0..made /\ \A l \in Ready : l # Pipe => Alive(l)
      /\ Pipe \in Ready => pipe # <<>>
  BY ReadyFits
<1>3. made \in 0..MaxObjs
  BY <1>0 DEF TypeOK
<1>4. SocketsInv'
  <2>1. ObjectsTyped'
    BY <1>0, <1>1 DEF SocketsInv, ObjectsTyped
  <2>2. OneOwner' /\ OneCopy'
    BY <1>0, <1>1 DEF SocketsInv, OneOwner, OneCopy, Alive, Copies
  <2>3. Numbered' /\ ServerListens'
    BY <1>0, <1>1 DEF SocketsInv, Numbered, ServerListens, Alive
  <2>4. QED
    BY <2>1, <2>2, <2>3 DEF SocketsInv
<1>5. EventsLive'
  BY <1>1, <1>2 DEF EventsLive, Alive
<1>6. LoopInv'
  BY <1>0, <1>1, <1>2, <1>3 DEF LoopInv
<1>7. batch' \subseteq 0..MaxObjs
  <2>1. 0..made \subseteq 0..MaxObjs
    BY <1>3, Numbers
  <2>2. QED
    BY <1>1, <1>2, <2>1
<1>8. QED
  BY <1>0, <1>1, <1>4, <1>5, <1>6, <1>7, MakesIInv DEF TypeOK

(* The shell, the peers and the network.                                    *)
LEMMA OutsideStep ==
    ASSUME IInv, AcceptFails \/ Command \/ Connect \/ Network
    PROVE  IInv'
<1>0. TypeOK /\ SocketsInv /\ EventsLive /\ LoopInv
  BY DEF IInv
<1>1. /\ made \in 0..MaxObjs /\ backlog \in 0..MaxBacklog /\ pipe \in Seq(Messages)
      /\ batch \subseteq 0..MaxObjs /\ phase \in {"wait", "events", "accept"}
      /\ over \in {"no", "dangling", "deleted twice", "aborted", "terminated"}
      /\ obj \in [Objs -> Objects] /\ Len(pipe) \in Nat
  BY <1>0, Lengths DEF TypeOK
<1>1a. made \in Nat /\ backlog \in Nat /\ (backlog < MaxBacklog => backlog + 1 \in 0..MaxBacklog)
  <2>1. made \in 0..MaxObjs /\ backlog \in 0..MaxBacklog
    BY <1>1
  <2>2. QED
    BY <2>1, Numbers
<1>2. CASE AcceptFails
  <2>1. /\ UNCHANGED <<server, obj, streams, file, made, backlog, pipe, batch, stopped, over>>
        /\ phase' \in {"wait", "events"}
    BY <1>2 DEF AcceptFails, LoopGoesOn, sockets
  <2>2. SocketsInv' /\ EventsLive'
    BY <1>1, <2>1, SameFits
  <2>3. LoopInv'
    BY <1>0, <2>1 DEF LoopInv
  <2>4. QED
    BY <1>1, <2>1, <2>2, <2>3, MakesIInv
<1>3. CASE Command
  <2>1. PICK m \in Messages : pipe' = Append(pipe, m)
    BY <1>3 DEF Command
  <2>2. /\ UNCHANGED <<server, obj, streams, file, made, backlog, phase, batch, stopped, over>>
        /\ made + backlog + Len(pipe) < MaxObjs
    BY <1>3 DEF Command, Unbounded, sockets
  <2>3. SocketsInv' /\ EventsLive'
    BY <1>1, <2>2, SameFits
  <2>4. pipe' \in Seq(Messages) /\ Len(pipe') = Len(pipe) + 1 /\ pipe' # <<>>
    <3>1. pipe \in Seq(Messages)
      BY <1>1
    <3>2. /\ Append(pipe, m) \in Seq(Messages) /\ Append(pipe, m) # <<>>
          /\ Len(Append(pipe, m)) = Len(pipe) + 1
      BY <3>1, Appends
    <3>3. QED
      BY <2>1, <3>2
  <2>5. LoopInv'
    <3>1. made + backlog + Len(pipe') <= MaxObjs
      <4>1. made + backlog + (Len(pipe) + 1) <= MaxObjs
        BY <1>1, <1>1a, <2>2, OneMore, Numbers
      <4>2. QED
        BY <2>4, <4>1
    <3>2. QED
      BY <1>0, <2>2, <2>4, <3>1 DEF LoopInv
  <2>6. QED
    BY <1>1, <2>2, <2>3, <2>4, <2>5, MakesIInv
<1>4. CASE Connect
  <2>1. /\ UNCHANGED <<server, obj, streams, file, made, pipe, phase, batch, stopped, over>>
        /\ made + backlog + Len(pipe) < MaxObjs /\ backlog' = backlog + 1 /\ backlog < MaxBacklog
    BY <1>4 DEF Connect, Unbounded
  <2>2. SocketsInv' /\ EventsLive'
    BY <1>1, <2>1, SameFits
  <2>3. LoopInv' /\ backlog' \in 0..MaxBacklog
    <3>1. made + (backlog + 1) + Len(pipe) <= MaxObjs /\ backlog + 1 \in 0..MaxBacklog
      <4>1. made + (backlog + 1) + Len(pipe) <= MaxObjs
        BY <1>1, <1>1a, <2>1, OneMore, Numbers
      <4>2. QED
        BY <1>1a, <2>1, <4>1
    <3>2. QED
      BY <1>0, <2>1, <3>1 DEF LoopInv
  <2>4. QED
    BY <1>1, <2>1, <2>2, <2>3, MakesIInv
<1>5. CASE Network
  <2>1. UNCHANGED <<server, streams, file, made, backlog, pipe, phase, batch, stopped, over>>
    BY <1>5 DEF Network
  <2>2. PICK n \in Fds : LET o == file[n] IN
         /\ o # 0
         /\ \/ obj[o].link = "up" /\ obj' = [obj EXCEPT ![o].data = TRUE]
            \/ obj[o].link = "up" /\ obj' = [obj EXCEPT ![o].link = "eof"]
            \/ obj[o].link \in {"up", "eof"}
               /\ obj' = [obj EXCEPT ![o].link = "broken", ![o].data = FALSE]
    BY <1>5 DEF Network
  <2> DEFINE o == file[n]
  <2>3. o \in Objs /\ obj[o] \in Objects
    <3>1. file \in [Fds -> 0..MaxObjs]
      BY <1>0 DEF TypeOK
    <3>2. QED
      BY <1>1, <2>2, <3>1, Numbers
  <2> HIDE DEF o
  <2>4. \/ obj[o].link = "up" /\ obj' = [obj EXCEPT ![o].data = TRUE]
        \/ obj[o].link = "up" /\ obj' = [obj EXCEPT ![o].link = "eof"]
        \/ obj[o].link \in {"up", "eof"}
            /\ obj' = [obj EXCEPT ![o].link = "broken", ![o].data = FALSE]
    BY <2>2 DEF o
  <2>0. PICK new \in Objects :
            /\ obj' = [obj EXCEPT ![o] = new]
            /\ new.life = obj[o].life /\ new.fd = obj[o].fd
            /\ new.link \notin Listening /\ obj[o].link \notin Listening
    <3>1. CASE obj[o].link = "up" /\ obj' = [obj EXCEPT ![o].data = TRUE]
      <4> DEFINE new == [obj[o] EXCEPT !.data = TRUE]
      <4>1. new \in Objects /\ new.life = obj[o].life /\ new.fd = obj[o].fd /\ new.link = "up"
        BY <2>3, <3>1 DEF Objects
      <4>2. QED
        BY <3>1, <4>1 DEF Listening
    <3>2. CASE obj[o].link = "up" /\ obj' = [obj EXCEPT ![o].link = "eof"]
      <4> DEFINE new == [obj[o] EXCEPT !.link = "eof"]
      <4>1. new \in Objects /\ new.life = obj[o].life /\ new.fd = obj[o].fd /\ new.link = "eof"
        BY <2>3, <3>2 DEF Objects
      <4>2. QED
        BY <3>2, <4>1 DEF Listening
    <3>3. CASE /\ obj[o].link \in {"up", "eof"}
               /\ obj' = [obj EXCEPT ![o].link = "broken", ![o].data = FALSE]
      <4> DEFINE new == [obj[o] EXCEPT !.link = "broken", !.data = FALSE]
      <4>1. /\ new \in Objects /\ new.life = obj[o].life /\ new.fd = obj[o].fd
            /\ new.link = "broken"
        BY <2>3, <3>3 DEF Objects
      <4>2. obj' = [obj EXCEPT ![o] = new]
        BY <1>1, <2>3, <3>3
      <4>3. QED
        BY <3>3, <4>1, <4>2 DEF Listening
    <3>4. QED
      BY <2>4, <3>1, <3>2, <3>3
  <2>5. obj' \in [Objs -> Objects]
    BY <1>1, <2>0, <2>3
  <2>6. \A p \in Objs : /\ obj'[p].life = obj[p].life /\ obj'[p].fd = obj[p].fd
                        /\ obj'[p].link \in Listening <=> obj[p].link \in Listening
    BY <1>1, <2>0, <2>3
  <2>7. SocketsInv' /\ EventsLive'
    BY <1>1, <2>1, <2>5, <2>6, SameFits
  <2>8. LoopInv'
    BY <1>0, <2>1 DEF LoopInv
  <2>9. QED
    BY <1>1, <2>1, <2>7, <2>8, MakesIInv
<1>6. QED
  BY <1>2, <1>3, <1>4, <1>5

(* The invariant on which the theorems rest.                                *)
THEOREM ServerInvariant == Spec => []IInv
<1>1. IInv /\ [Next]_vars => IInv'
  <2> SUFFICES ASSUME IInv, [Next]_vars PROVE IInv'
    OBVIOUS
  <2>1. CASE Next
    BY <2>1, HandleStep, AcceptStep, WaitStep, OutsideStep DEF Next
  <2>2. CASE UNCHANGED vars
    <3>1. /\ UNCHANGED <<server, obj, streams, file, made, stopped, over>>
          /\ UNCHANGED <<backlog, pipe, phase, batch>>
      BY <2>2 DEF vars
    <3>2. SocketsInv' /\ EventsLive'
      BY <3>1, SameFits DEF IInv, TypeOK
    <3>3. LoopInv'
      BY <3>1 DEF IInv, LoopInv
    <3>4. QED
      BY <3>1, <3>2, <3>3, MakesIInv DEF IInv, TypeOK
  <2>3. QED
    BY <2>1, <2>2
<1>2. QED
  BY <1>1, InitIInv, PTL DEF Spec

(* The shape of every variable, for any number of objects.                  *)
THEOREM ServerTypes == Spec => []TypeOK
BY ServerInvariant, PTL DEF IInv

(* However connections are refused, ended, deleted and made again on the    *)
(* descriptors of others, no descriptor has two owners and none is leaked.  *)
THEOREM DescriptorsHaveOneOwner == Spec => []OneOwner
<1>1. IInv => OneOwner
  BY DEF IInv, SocketsInv
<1>2. QED
  BY <1>1, ServerInvariant, PTL

(* Each connection of a running server has its one copy in streams_.        *)
THEOREM ConnectionsHaveOneCopy == Spec => []OneCopy
<1>1. IInv => OneCopy
  BY DEF IInv, SocketsInv
<1>2. QED
  BY <1>1, ServerInvariant, PTL

(* A server that was stopped has left no descriptor open.                   *)
THEOREM StopClosesAll == Spec => []StoppedIsClosed
<1>1. IInv => StoppedIsClosed
  <2> SUFFICES ASSUME IInv, server = 0, NEW n \in Fds, file[n] # 0 PROVE FALSE
    BY DEF StoppedIsClosed
  <2>1. file \in [Fds -> 0..MaxObjs]
    BY DEF IInv, TypeOK
  <2>2. file[n] \in Objs
    BY <2>1, Numbers
  <2>3. QED
    BY <2>2 DEF IInv, SocketsInv, OneOwner, ServerListens
<1>2. QED
  BY <1>1, ServerInvariant, PTL

(* A deleted socket is used only for an event of it that was in the batch    *)
(* in which StopServer ran, or by Handle when the handler of its own event   *)
(* has deleted it.                                                          *)
THEOREM DanglingIsCaused == Spec => DanglingHasCause
<1> DEFINE P == over' = "dangling" /\ over # "dangling" =>
                  \E l \in batch \ batch' :
                      /\ l # Pipe
                      /\ l \in stopped \/ (Alive(l) /\ ~Alive(l)')
<1>1. ASSUME IInv, [Next]_vars PROVE [P]_vars
  <2> SUFFICES ASSUME Next, over' = "dangling", over # "dangling"
               PROVE  \E l \in batch \ batch' :
                          /\ l # Pipe
                          /\ l \in stopped \/ (Alive(l) /\ ~Alive(l)')
    BY <1>1
  <2>1. Handle
    BY DEF Next, Wait, AcceptOne, AcceptFails, Command, Connect, Network, Thrown
  <2>2. PICK l \in batch : batch' = batch \ {l} /\ (HandlePipe(l) \/ HandleSocket(l))
    BY <2>1 DEF Handle
  <2>3. HandleSocket(l) /\ l # Pipe /\ (~Alive(l) \/ Dropped(l))
    BY <2>2 DEF HandleSocket, Read, HandlePipe, StartServer, OpenServer, Thrown, StopServer
  <2>4. CASE ~Alive(l)
    BY <1>1, <2>2, <2>3, <2>4 DEF IInv, EventsLive
  <2>5. CASE Alive(l) /\ Dropped(l)
    <3>1. TypeOK /\ l \in Objs
      BY <1>1, <2>2, <2>3, Numbers DEF IInv, TypeOK, Pipe
    <3>2. obj' = [obj EXCEPT ![l] = Deleted]
      BY <2>5 DEF Dropped
    <3>3. obj'[l].life = "deleted"
      BY <3>1, <3>2, DeletedObj
    <3>4. QED
      BY <2>2, <2>3, <2>5, <3>3 DEF Alive
  <2>6. QED
    BY <2>3, <2>4, <2>5
<1>2. QED
  BY <1>1, ServerInvariant, PTL DEF Spec, DanglingHasCause
=============================================================================
