-------------------------- MODULE ClientServiceProofs --------------------------
(***************************************************************************)
(* Proofs about ClientService, for any number of objects, messages and     *)
(* failures of the network.                                                *)
(***************************************************************************)
EXTENDS ClientService, TLAPS

(* What epoll watches is a live object: a deleted one has left epoll.      *)
WatchedIsAlive == \A o \in Objs : obj[o].armed # {} => Alive(o)

(* A listener has one event in a batch. That of the pipe has a message     *)
(* behind it; the object of any other lives, unless StopClient has deleted *)
(* it since the batch was taken.                                           *)
BatchFits == \A e \in batch :
    /\ \A f \in batch : f.to = e.to => f = e
    /\ e.to = Pipe => pipe # <<>>
    /\ e.to # Pipe => Alive(e.to) \/ e.to \in stopped

IInv ==
    /\ TypeOK
    /\ OneClient
    /\ TimerFollowsConnection
    /\ WatchedIsAlive
    /\ BatchFits
    /\ made + Len(pipe) <= MaxObjs

(* What a step that touches the object o alone keeps, and whether it lives.  *)
Fits(c) ==
    /\ c \in Objects
    /\ c.timer = "Actived" <=> c.life = "alive" /\ Connected(c)
    /\ c.armed # {} => c.life = "alive"

LEMMA ObjFits == IInv => \A o \in Objs : Fits(obj[o])
BY DEF IInv, TypeOK, TimerFollowsConnection, WatchedIsAlive, Fits, Alive

LEMMA DeletedFits == \A c : Fits(Deleted(c)) /\ Deleted(c).life = "deleted"
BY DEF Fits, Deleted, Unmade, Objects, Connected

LEMMA UnmadeFits == Fits(Unmade) /\ Unmade.life = "unmade"
BY DEF Fits, Unmade, Objects, Connected

LEMMA OpenedFits == Fits(Opened) /\ Opened.life = "alive"
BY DEF Fits, Opened, Unmade, Objects, Connected

(* The three invariants about objects follow from Fits for each of them.   *)
LEMMA FitsAll ==
    ASSUME obj' \in [Objs -> Objects], \A o \in Objs : Fits(obj'[o])
    PROVE  TimerFollowsConnection' /\ WatchedIsAlive'
BY DEF Fits, TimerFollowsConnection, WatchedIsAlive, Alive, Connected

LEMMA InitIInv == Init => IInv
<1> SUFFICES ASSUME Init PROVE IInv
  OBVIOUS
<1>1. \A o \in Objs : obj[o] = Unmade /\ Fits(obj[o]) /\ obj[o].life = "unmade"
  BY UnmadeFits DEF Init
<1>2. TypeOK
  BY <1>1, ClientAssumption DEF Init, TypeOK, Fits, Objs, Messages
<1>3. OneClient
  BY <1>1 DEF OneClient, Alive, Init
<1>4. TimerFollowsConnection /\ WatchedIsAlive
  BY <1>1 DEF Fits, TimerFollowsConnection, WatchedIsAlive, Alive
<1>5. BatchFits /\ made + Len(pipe) <= MaxObjs
  BY ClientAssumption DEF Init, BatchFits
<1>6. QED
  BY <1>2, <1>3, <1>4, <1>5 DEF IInv
-----------------------------------------------------------------------------
(* The object o becomes c, or is deleted by its service.                   *)

Touched(o) ==
    \/ UNCHANGED <<client, obj>>
    \/ \E c \in Objects :
          /\ Fits(c) /\ c.life = "alive" /\ Alive(o)
          /\ obj' = [obj EXCEPT ![o] = c] /\ UNCHANGED client
    \/ /\ o = client /\ client' = 0
       /\ obj' = [obj EXCEPT ![o] = Deleted(@)]

LEMMA TouchedKeeps ==
    ASSUME IInv, NEW o \in Objs, Touched(o)
    PROVE  /\ obj' \in [Objs -> Objects] /\ client' \in 0..MaxObjs
           /\ OneClient' /\ TimerFollowsConnection' /\ WatchedIsAlive'
           /\ \A p \in Objs : p # o => obj'[p] = obj[p]
<1>1. \A p \in Objs : Fits(obj[p])
  BY ObjFits
<1>2. obj \in [Objs -> Objects] /\ client \in 0..MaxObjs /\ MaxObjs \in Nat
  BY ClientAssumption DEF IInv, TypeOK
<1>3. {p \in Objs : Alive(p)} = {client} \ {0}
  BY DEF IInv, OneClient
<1>4. CASE UNCHANGED <<client, obj>>
  BY <1>2, <1>4 DEF IInv, OneClient, TimerFollowsConnection, WatchedIsAlive, Alive
<1>5. ASSUME NEW c \in Objects, Fits(c), c.life = "alive", Alive(o),
             obj' = [obj EXCEPT ![o] = c], UNCHANGED client
      PROVE  /\ obj' \in [Objs -> Objects] /\ client' \in 0..MaxObjs
             /\ OneClient' /\ TimerFollowsConnection' /\ WatchedIsAlive'
             /\ \A p \in Objs : p # o => obj'[p] = obj[p]
  <2>1. obj' \in [Objs -> Objects] /\ \A p \in Objs : Fits(obj'[p])
    BY <1>1, <1>2, <1>5
  <2>2. \A p \in Objs : Alive(p)' <=> Alive(p)
    BY <1>2, <1>5 DEF Alive
  <2>3. OneClient'
    BY <1>3, <1>5, <2>2 DEF OneClient
  <2>4. QED
    BY <1>2, <1>5, <2>1, <2>3, FitsAll
<1>6. CASE o = client /\ client' = 0 /\ obj' = [obj EXCEPT ![o] = Deleted(@)]
  <2>1. obj' \in [Objs -> Objects] /\ \A p \in Objs : Fits(obj'[p])
    BY <1>1, <1>2, <1>6, DeletedFits DEF Fits
  <2>2. \A p \in Objs : Alive(p)' <=> Alive(p) /\ p # o
    BY <1>2, <1>6, DeletedFits DEF Alive
  <2>3. OneClient'
    BY <1>3, <1>6, <2>2 DEF OneClient
  <2>4. QED
    BY <1>2, <1>6, <2>1, <2>3, FitsAll
<1>7. QED
  BY <1>4, <1>5, <1>6 DEF Touched

LEMMA OnSocketErrTouches ==
    ASSUME IInv, NEW o \in Objs, OnSocketErr(o)
    PROVE  /\ Touched(o) /\ over' \in {over, "dangling"}
           /\ over' = over \/ ~Alive(o)'
<1>1. Touched(o) /\ over' \in {over, "dangling"}
  BY DEF OnSocketErr, Touched, CountsInFreed
<1>2. CASE obj' = [obj EXCEPT ![o] = Deleted(@)]
  <2>1. obj'[o] = Deleted(obj[o])
    BY <1>2 DEF IInv, TypeOK
  <2>2. QED
    BY <1>1, <2>1, DeletedFits DEF Alive
<1>3. CASE UNCHANGED <<client, obj, over>>
  BY <1>1, <1>3
<1>4. QED
  BY <1>2, <1>3 DEF OnSocketErr

LEMMA BecomesTouches ==
    ASSUME NEW o \in Objs, NEW c, Fits(c), c.life = "alive", Alive(o), Becomes(o, c)
    PROVE  Touched(o) /\ UNCHANGED over
BY DEF Becomes, Touched, Fits
LEMMA ConnectedFits ==
    ASSUME NEW c \in Objects, c.life = "alive"
    PROVE  LET d == [c EXCEPT !.state = "CONNECTED", !.armed = {"IN", "ERR"},
                              !.timer = "Actived"]
           IN  Fits(d) /\ d.life = "alive"
BY DEF Objects, Fits, Connected

LEMMA ReadFits ==
    ASSUME NEW c \in Objects, c.life = "alive", Fits(c)
    PROVE  LET d == [c EXCEPT !.data = FALSE] IN Fits(d) /\ d.life = "alive"
BY DEF Objects, Fits, Connected

LEMMA FullFits ==
    ASSUME NEW c \in Objects, c.life = "alive", Fits(c), c.timer = "Actived",
           NEW s \in {c.state, "FULL"}
    PROVE  LET d == [c EXCEPT !.state = s] IN Fits(d) /\ d.life = "alive"
BY DEF Objects, Fits, Connected

(* An event touches its socket only, and a deleted object is used only for *)
(* the event of one, or by one that deletes its socket.                    *)
LEMMA DoHandleTouches ==
    ASSUME IInv, NEW o \in Objs, NEW ev, DoHandle(o, ev)
    PROVE  /\ Touched(o)
           /\ over' \in {over, "dangling", "aborted"}
           /\ Alive(o) => over' \in {over, "aborted"} \/ ~Alive(o)'
<1>1. Fits(obj[o]) /\ obj[o] \in Objects
  BY ObjFits DEF Fits
<1>2. CASE ~Alive(o)
  BY <1>2 DEF DoHandle, Touched
<1>3. CASE Alive(o) /\ Connected(obj[o])
  <2>1. DoReadWrite(o, ev)
    BY <1>3 DEF DoHandle
  <2>2. CASE over' = "aborted" /\ UNCHANGED <<client, obj>>
    BY <2>2 DEF Touched
  <2>3. CASE OnSocketErr(o)
    BY <2>3, OnSocketErrTouches
  <2>4. CASE Becomes(o, [obj[o] EXCEPT !.data = FALSE])
    BY <1>1, <1>3, <2>4, ReadFits, BecomesTouches DEF Alive
  <2>5. QED
    BY <2>1, <2>2, <2>3, <2>4 DEF DoReadWrite
<1>4. CASE Alive(o) /\ ~Connected(obj[o])
  <2>1. DoConnect(o, ev)
    BY <1>4 DEF DoHandle
  <2>2. CASE over' = "aborted" /\ UNCHANGED <<client, obj>>
    BY <2>2 DEF Touched
  <2>3. CASE OnSocketErr(o)
    BY <2>3, OnSocketErrTouches
  <2>4. CASE Becomes(o, [obj[o] EXCEPT !.state = "CONNECTED", !.armed = {"IN", "ERR"},
                                       !.timer = "Actived"])
    BY <1>1, <1>4, <2>4, ConnectedFits, BecomesTouches DEF Alive
  <2>5. QED
    BY <2>1, <2>2, <2>3, <2>4 DEF DoConnect
<1>5. QED
  BY <1>2, <1>3, <1>4
-----------------------------------------------------------------------------
(* The actions.                                                            *)

LEMMA TypesOfIInv ==
    IInv => /\ client \in 0..MaxObjs /\ made \in 0..MaxObjs /\ MaxObjs \in Nat
            /\ obj \in [Objs -> Objects]
            /\ pipe \in Seq(Messages) /\ Len(pipe) \in Nat
            /\ batch \subseteq [to : 0..MaxObjs, events : SUBSET {"IN", "OUT", "ERR"}]
BY ClientAssumption DEF IInv, TypeOK

(* The two ways to use a deleted client.                                   *)
Caused(o) == o \in stopped \/ (Alive(o) /\ ~Alive(o)')

LEMMA HandleSocketKeeps ==
    ASSUME IInv, NEW e \in batch, HandleSocket(e), batch' = batch \ {e},
           phase' \in {"wait", "timers", "events"}, UNCHANGED breaks
    PROVE  IInv' /\ (over' = "dangling" =>
                       over = "dangling" \/ (e.to # Pipe /\ Caused(e.to)))
<1>1. e.to \in Objs
  BY TypesOfIInv DEF HandleSocket, Objs, Pipe
<1>2. DoHandle(e.to, e.events) /\ UNCHANGED <<made, pipe, stopped>>
  BY DEF HandleSocket
<1>3. /\ Touched(e.to)
      /\ over' \in {over, "dangling", "aborted"}
      /\ Alive(e.to) => over' \in {over, "aborted"} \/ ~Alive(e.to)'
  BY <1>1, <1>2, DoHandleTouches
<1>4. /\ obj' \in [Objs -> Objects] /\ client' \in 0..MaxObjs
      /\ OneClient' /\ TimerFollowsConnection' /\ WatchedIsAlive'
      /\ \A p \in Objs : p # e.to => obj'[p] = obj[p]
  BY <1>1, <1>3, TouchedKeeps
<1>5. TypeOK'
  BY <1>2, <1>3, <1>4 DEF IInv, TypeOK
<1>6. BatchFits'
  <2> SUFFICES ASSUME NEW f \in batch'
               PROVE  /\ \A g \in batch' : g.to = f.to => g = f
                      /\ f.to = Pipe => pipe' # <<>>
                      /\ f.to # Pipe => Alive(f.to)' \/ f.to \in stopped'
    BY DEF BatchFits
  <2>1. f \in batch /\ f.to # e.to
    BY DEF IInv, BatchFits
  <2>2. f.to # Pipe => f.to \in Objs
    BY <2>1, TypesOfIInv DEF Objs, Pipe
  <2>3. QED
    BY <1>2, <1>4, <2>1, <2>2 DEF IInv, BatchFits, Alive
<1>7. (made + Len(pipe) <= MaxObjs)'
  BY <1>2 DEF IInv
<1>8. over' = "dangling" => over = "dangling" \/ (e.to # Pipe /\ Caused(e.to))
  BY <1>1, <1>3 DEF IInv, BatchFits, HandleSocket, Caused
<1>9. QED
  BY <1>4, <1>5, <1>6, <1>7, <1>8 DEF IInv
(* A message has left the pipe and its event the batch.                    *)
LEMMA StartClientKeeps ==
    ASSUME IInv, StartClient, Len(pipe) > 0
    PROVE  /\ obj' \in [Objs -> Objects] /\ client' \in 0..MaxObjs
           /\ OneClient' /\ TimerFollowsConnection' /\ WatchedIsAlive'
           /\ \A p \in Objs : Alive(p) => Alive(p)'
           /\ made' \in {made, made + 1} /\ UNCHANGED <<stopped, over>>
<1>1. \A p \in Objs : Fits(obj[p])
  BY ObjFits
<1>2. CASE client # 0
  BY <1>2, TypesOfIInv
  DEF StartClient, IInv, OneClient, TimerFollowsConnection, WatchedIsAlive, Alive
<1>3. CASE client = 0
  <2>1. made' = made + 1 /\ made' \in Objs /\ UNCHANGED <<stopped, over>>
    BY <1>3, TypesOfIInv DEF StartClient, IInv, Objs
  <2>2. \A p \in Objs : ~Alive(p)
    BY <1>3 DEF IInv, OneClient
  <2>3. CASE client' = made' /\ obj' = [obj EXCEPT ![made'] = Opened]
    <3>1. obj' \in [Objs -> Objects] /\ \A p \in Objs : Fits(obj'[p])
      BY <1>1, <2>1, <2>3, OpenedFits, TypesOfIInv DEF Fits
    <3>2. \A p \in Objs : Alive(p)' <=> p = made'
      BY <2>1, <2>2, <2>3, OpenedFits, TypesOfIInv DEF Alive
    <3>3. OneClient'
      BY <2>1, <2>3, <3>2, TypesOfIInv DEF OneClient, Objs
    <3>4. QED
      BY <2>1, <2>2, <2>3, <3>1, <3>3, FitsAll, TypesOfIInv DEF Objs
  <2>4. CASE client' = 0 /\ obj' = [obj EXCEPT ![made'] = Deleted(@)]
    <3>1. obj' \in [Objs -> Objects] /\ \A p \in Objs : Fits(obj'[p])
      BY <1>1, <2>1, <2>4, DeletedFits, TypesOfIInv DEF Fits
    <3>2. \A p \in Objs : ~Alive(p)'
      BY <2>1, <2>2, <2>4, DeletedFits, TypesOfIInv DEF Alive
    <3>3. OneClient'
      BY <2>4, <3>2 DEF OneClient
    <3>4. QED
      BY <2>1, <2>2, <2>4, <3>1, <3>3, FitsAll, TypesOfIInv
  <2>5. QED
    BY <1>3, <2>3, <2>4 DEF StartClient
<1>4. QED
  BY <1>2, <1>3

LEMMA StopClientKeeps ==
    ASSUME IInv, StopClient
    PROVE  /\ obj' \in [Objs -> Objects] /\ client' \in 0..MaxObjs
           /\ OneClient' /\ TimerFollowsConnection' /\ WatchedIsAlive'
           /\ \A p \in Objs : Alive(p) => Alive(p)' \/ p \in stopped'
           /\ stopped \subseteq stopped' /\ stopped' \subseteq Objs
           /\ UNCHANGED <<made, over>>
<1>1. stopped \subseteq Objs
  BY DEF IInv, TypeOK
<1>2. CASE client = 0
  BY <1>1, <1>2, TypesOfIInv
  DEF StopClient, IInv, OneClient, TimerFollowsConnection, WatchedIsAlive, Alive
<1>3. CASE client # 0
  <2>1. client \in Objs /\ Alive(client)
    BY <1>3, TypesOfIInv DEF IInv, OneClient, Objs
  <2>2. /\ obj' = [obj EXCEPT ![client] = Deleted(@)]
        /\ stopped' = stopped \cup {client} /\ client' = 0
        /\ UNCHANGED <<made, over>>
    BY <1>3, <2>1 DEF StopClient
  <2>3. Touched(client)
    BY <2>2 DEF Touched
  <2>4. QED
    BY <1>1, <2>1, <2>2, <2>3, TouchedKeeps DEF Alive
<1>4. QED
  BY <1>2, <1>3

LEMMA HandlePipeKeeps ==
    ASSUME IInv, NEW e \in batch, HandlePipe(e), batch' = batch \ {e},
           phase' \in {"wait", "timers", "events"}, UNCHANGED breaks
    PROVE  IInv' /\ UNCHANGED over
<1>1. pipe \in Seq(Messages) /\ pipe # <<>> /\ Len(pipe) > 0
  BY TypesOfIInv DEF IInv, BatchFits, HandlePipe
<1>2. pipe' \in Seq(Messages) /\ Len(pipe') = Len(pipe) - 1
  BY <1>1 DEF HandlePipe
<1>3. /\ obj' \in [Objs -> Objects] /\ client' \in 0..MaxObjs
      /\ OneClient' /\ TimerFollowsConnection' /\ WatchedIsAlive'
      /\ \A p \in Objs : Alive(p) => Alive(p)' \/ p \in stopped'
      /\ stopped \subseteq stopped' /\ stopped' \subseteq Objs
      /\ made' \in {made, made + 1} /\ UNCHANGED over
  <2>1. CASE StartClient
    BY <1>1, <2>1, StartClientKeeps DEF IInv, TypeOK
  <2>2. CASE StopClient
    BY <2>2, StopClientKeeps
  <2>3. QED
    BY <2>1, <2>2 DEF HandlePipe
<1>4. (made + Len(pipe) <= MaxObjs)' /\ made' \in 0..MaxObjs
  BY <1>1, <1>2, <1>3, TypesOfIInv DEF IInv
<1>5. TypeOK'
  BY <1>2, <1>3, <1>4 DEF IInv, TypeOK
<1>6. BatchFits'
  <2> SUFFICES ASSUME NEW f \in batch'
               PROVE  /\ \A g \in batch' : g.to = f.to => g = f
                      /\ f.to # Pipe
                      /\ f.to # Pipe => Alive(f.to)' \/ f.to \in stopped'
    BY DEF BatchFits
  <2>1. f \in batch /\ f.to # e.to /\ f.to # Pipe
    BY DEF IInv, BatchFits, HandlePipe
  <2>2. f.to \in Objs
    BY <2>1, TypesOfIInv DEF Objs, Pipe
  <2>3. Alive(f.to) \/ f.to \in stopped
    BY <2>1 DEF IInv, BatchFits
  <2>4. \A g \in batch' : g.to = f.to => g = f
    BY <2>1 DEF IInv, BatchFits
  <2>5. QED
    BY <1>3, <2>1, <2>2, <2>3, <2>4
<1>7. QED
  BY <1>3, <1>4, <1>5, <1>6 DEF IInv

(* Main hands out an event.                                                *)
LEMMA HandleKeeps ==
    ASSUME IInv, Handle
    PROVE  IInv' /\ (over' = "dangling" =>
                       \E e \in batch \ batch' : e.to # Pipe /\ Caused(e.to))
<1>1. PICK e \in batch : (HandlePipe(e) \/ HandleSocket(e)) /\ batch' = batch \ {e}
  BY DEF Handle
<1>2. phase' \in {"wait", "timers", "events"} /\ UNCHANGED breaks /\ over = "no"
  BY DEF Handle
<1>3. CASE HandlePipe(e)
  BY <1>1, <1>2, <1>3, HandlePipeKeeps
<1>4. CASE HandleSocket(e)
  BY <1>1, <1>2, <1>4, HandleSocketKeeps
<1>5. QED
  BY <1>1, <1>3, <1>4

LEMMA TimeoutKeeps ==
    ASSUME IInv, Timeout
    PROVE  IInv' /\ over' # "dangling"
<1>1. PICK o \in Objs :
         /\ obj[o].timer = "Actived"
         /\ IF Alive(o)
            THEN \E s \in {obj[o].state, "FULL"} : Becomes(o, [obj[o] EXCEPT !.state = s])
            ELSE over' = "dangling" /\ UNCHANGED <<client, obj>>
  BY DEF Timeout
<1>2. Fits(obj[o]) /\ obj[o] \in Objects
  BY ObjFits DEF Fits
<1>3. Alive(o)
  BY <1>1 DEF IInv, TimerFollowsConnection
<1>4. PICK s \in {obj[o].state, "FULL"} : Becomes(o, [obj[o] EXCEPT !.state = s])
  BY <1>1, <1>3
<1>5. Touched(o) /\ UNCHANGED over
  BY <1>1, <1>2, <1>3, <1>4, FullFits, BecomesTouches DEF Alive
<1>6. /\ obj' \in [Objs -> Objects] /\ client' \in 0..MaxObjs
      /\ OneClient' /\ TimerFollowsConnection' /\ WatchedIsAlive'
  BY <1>5, TouchedKeeps
<1>7. \A p \in Objs : Alive(p)' <=> Alive(p)
  BY <1>2, <1>4, TypesOfIInv DEF Becomes, Alive, Objects
<1>8. UNCHANGED <<made, pipe, phase, batch, stopped, breaks, over>> /\ over = "no"
  BY <1>5 DEF Timeout
<1>9. TypeOK'
  BY <1>6, <1>8 DEF IInv, TypeOK
<1>10. BatchFits'
  BY <1>7, <1>8, TypesOfIInv DEF IInv, BatchFits, Objs, Pipe
<1>11. QED
  BY <1>6, <1>8, <1>9, <1>10 DEF IInv
(* epoll_wait answers one event for each listener that is ready.           *)
LEMMA WaitKeeps == IInv /\ Wait => IInv' /\ UNCHANGED over
<1> SUFFICES ASSUME IInv, Wait PROVE IInv' /\ UNCHANGED over
  OBVIOUS
<1>1. batch' = Ready /\ UNCHANGED <<client, obj, made, pipe, breaks, over>>
      /\ phase' = "timers" /\ stopped' = {}
  BY DEF Wait
<1>2. \A e \in Ready :
         \/ e = PipeEvent /\ pipe # <<>>
         \/ \E o \in Objs : e = [to |-> o, events |-> ReadyOf(o)] /\ ReadyOf(o) # {}
  BY DEF Ready
<1>3. \A o \in Objs : ReadyOf(o) \subseteq obj[o].armed
  BY DEF ReadyOf
<1>4. \A o \in Objs : obj[o].armed \in SUBSET {"IN", "OUT", "ERR"}
  BY TypesOfIInv DEF Objects
<1>5. \A o \in Objs : o \in 0..MaxObjs /\ o # Pipe
  BY TypesOfIInv DEF Objs, Pipe
<1>6. PipeEvent \in [to : 0..MaxObjs, events : SUBSET {"IN", "OUT", "ERR"}]
      /\ PipeEvent.to = Pipe
  BY TypesOfIInv DEF PipeEvent, Pipe
<1>7. TypeOK'
  <2>1. \A e \in Ready : e \in [to : 0..MaxObjs, events : SUBSET {"IN", "OUT", "ERR"}]
    <3> SUFFICES ASSUME NEW e \in Ready
                 PROVE  e \in [to : 0..MaxObjs, events : SUBSET {"IN", "OUT", "ERR"}]
      OBVIOUS
    <3>1. CASE e = PipeEvent
      BY <1>6, <3>1
    <3>2. ASSUME NEW o \in Objs, e = [to |-> o, events |-> ReadyOf(o)]
          PROVE  e \in [to : 0..MaxObjs, events : SUBSET {"IN", "OUT", "ERR"}]
      <4>1. ReadyOf(o) \in SUBSET {"IN", "OUT", "ERR"} /\ o \in 0..MaxObjs
        BY <1>3, <1>4, <1>5
      <4>2. QED
        BY <3>2, <4>1
    <3>3. QED
      BY <1>2, <3>1, <3>2
  <2>2. QED
    BY <1>1, <2>1 DEF IInv, TypeOK
<1>8. BatchFits'
  <2>1. \A e \in Ready : e.to = Pipe => e = PipeEvent /\ pipe # <<>>
    BY <1>2, <1>5
  <2>2. \A e \in Ready : e.to # Pipe =>
           /\ e.to \in Objs /\ e = [to |-> e.to, events |-> ReadyOf(e.to)]
           /\ ReadyOf(e.to) # {}
    BY <1>2, <1>6
  <2>3. \A e \in Ready : e.to # Pipe => Alive(e.to)
    BY <1>3, <2>2 DEF IInv, WatchedIsAlive
  <2>4. \A e, f \in Ready : f.to = e.to => f = e
    BY <2>1, <2>2
  <2>5. QED
    BY <1>1, <2>1, <2>3, <2>4 DEF BatchFits, Alive
<1>9. QED
  BY <1>1, <1>7, <1>8
  DEF IInv, OneClient, TimerFollowsConnection, WatchedIsAlive, Alive

LEMMA TimersDoneKeeps == IInv /\ TimersDone => IInv' /\ UNCHANGED over
BY DEF IInv, TimersDone, service, TypeOK, OneClient, TimerFollowsConnection,
       WatchedIsAlive, BatchFits, Alive

LEMMA CommandKeeps == IInv /\ Command => IInv' /\ UNCHANGED over
<1> SUFFICES ASSUME IInv, Command PROVE IInv' /\ UNCHANGED over
  OBVIOUS
<1>1. PICK m \in Messages : pipe' = Append(pipe, m)
  BY DEF Command
<1>2. pipe' \in Seq(Messages) /\ Len(pipe') = Len(pipe) + 1 /\ pipe' # <<>>
  BY <1>1, TypesOfIInv
<1>3. UNCHANGED <<client, obj, made, stopped, over, phase, batch, breaks>>
      /\ made + Len(pipe) < MaxObjs
  BY DEF Command, service
<1>4. TypeOK'
  BY <1>2, <1>3 DEF IInv, TypeOK
<1>5. BatchFits'
  BY <1>2, <1>3 DEF IInv, BatchFits, Alive
<1>6. (made + Len(pipe) <= MaxObjs)'
  BY <1>2, <1>3, TypesOfIInv
<1>7. QED
  BY <1>3, <1>4, <1>5, <1>6
  DEF IInv, OneClient, TimerFollowsConnection, WatchedIsAlive, Alive

(* The network moves no object between life and death.                     *)
LEMMA NetworkKeeps == IInv /\ Network => IInv' /\ UNCHANGED over
<1> SUFFICES ASSUME IInv, Network PROVE IInv' /\ UNCHANGED over
  OBVIOUS
<1>1. UNCHANGED <<client, made, pipe, phase, batch, stopped, over>>
  BY DEF Network
<1>2. PICK o \in Objs :
         /\ breaks' \in {breaks, breaks + 1}
         /\ \/ \E l \in {"eof", "broken", "up"} : obj' = [obj EXCEPT ![o].link = l]
            \/ obj' = [obj EXCEPT ![o].data = TRUE]
  BY DEF Network
<1>3. \A p \in Objs : obj[p] \in Objects /\ Fits(obj[p])
  BY ObjFits DEF Fits
<1>4. /\ obj' \in [Objs -> Objects]
      /\ \A p \in Objs : /\ obj'[p].life = obj[p].life /\ obj'[p].state = obj[p].state
                         /\ obj'[p].timer = obj[p].timer /\ obj'[p].armed = obj[p].armed
  <2>1. ASSUME NEW l \in {"eof", "broken", "up"}, obj' = [obj EXCEPT ![o].link = l]
        PROVE  <1>4!1 /\ <1>4!2
    BY <1>3, <2>1, TypesOfIInv DEF Objects
  <2>2. CASE obj' = [obj EXCEPT ![o].data = TRUE]
    <3>1. obj \in [Objs -> Objects]
      BY TypesOfIInv
    <3>2. [obj[o] EXCEPT !.data = TRUE] \in Objects
      BY <3>1 DEF Objects
    <3>3. obj' = [obj EXCEPT ![o] = [obj[o] EXCEPT !.data = TRUE]]
      BY <2>2
    <3>4. obj' \in [Objs -> Objects]
      BY <3>1, <3>2, <3>3
    <3>5. ASSUME NEW p \in Objs
          PROVE  /\ obj'[p].life = obj[p].life /\ obj'[p].state = obj[p].state
                 /\ obj'[p].timer = obj[p].timer /\ obj'[p].armed = obj[p].armed
      BY <3>1, <3>3 DEF Objects
    <3>6. QED
      BY <3>4, <3>5
  <2>3. QED
    BY <1>2, <2>1, <2>2
<1>5. \A p \in Objs : (Alive(p)' <=> Alive(p)) /\ (Connected(obj'[p]) <=> Connected(obj[p]))
  BY <1>4 DEF Alive, Connected
<1>6. TypeOK'
  BY <1>1, <1>2, <1>4 DEF IInv, TypeOK
<1>7. OneClient' /\ TimerFollowsConnection' /\ WatchedIsAlive'
  BY <1>1, <1>4, <1>5 DEF IInv, OneClient, TimerFollowsConnection, WatchedIsAlive
<1>8. BatchFits'
  BY <1>1, <1>5, TypesOfIInv DEF IInv, BatchFits, Objs, Pipe
<1>9. QED
  BY <1>1, <1>6, <1>7, <1>8 DEF IInv
-----------------------------------------------------------------------------
LEMMA NextIInv == IInv /\ [Next]_vars => IInv'
<1> SUFFICES ASSUME IInv, [Next]_vars PROVE IInv'
  OBVIOUS
<1>1. CASE Wait
  BY <1>1, WaitKeeps
<1>2. CASE Timeout
  BY <1>2, TimeoutKeeps
<1>3. CASE TimersDone
  BY <1>3, TimersDoneKeeps
<1>4. CASE Handle
  BY <1>4, HandleKeeps
<1>5. CASE Command
  BY <1>5, CommandKeeps
<1>6. CASE Network
  BY <1>6, NetworkKeeps
<1>7. CASE UNCHANGED vars
  BY <1>7 DEF vars, IInv, TypeOK, OneClient, TimerFollowsConnection, WatchedIsAlive,
              BatchFits, Alive
<1>8. QED
  BY <1>1, <1>2, <1>3, <1>4, <1>5, <1>6, <1>7 DEF Next

(* Every reachable state satisfies the invariant.                          *)
THEOREM ClientInvariant == Spec => []IInv
BY InitIInv, NextIInv, PTL DEF Spec

(* The variables keep their types.                                         *)
THEOREM ClientTypes == Spec => []TypeOK
<1>1. IInv => TypeOK
  BY DEF IInv
<1>2. QED
  BY <1>1, ClientInvariant, PTL

(* client_ points to the one live client, or to none and none lives.       *)
THEOREM ServiceKnowsItsClient == Spec => []OneClient
<1>1. IInv => OneClient
  BY DEF IInv
<1>2. QED
  BY <1>1, ClientInvariant, PTL

(* A timer runs exactly while its client lives and is connected.           *)
THEOREM TimerOfConnection == Spec => []TimerFollowsConnection
<1>1. IInv => TimerFollowsConnection
  BY DEF IInv
<1>2. QED
  BY <1>1, ClientInvariant, PTL

(* A deleted socket is used only for an event of it that was in the batch   *)
(* in which StopClient deleted it, or by Handle when the handler of its own *)
(* event has deleted it.                                                   *)
THEOREM DanglingIsCaused == Spec => DanglingHasCause
<1> DEFINE P == over' = "dangling" /\ over # "dangling" =>
                  \E e \in batch \ batch' :
                      /\ e.to # Pipe
                      /\ e.to \in stopped \/ (Alive(e.to) /\ ~Alive(e.to)')
<1>1. ASSUME IInv, [Next]_vars PROVE [P]_vars
  <2>1. CASE Timeout
    BY <1>1, <2>1, TimeoutKeeps
  <2>2. CASE Handle
    BY <1>1, <2>2, HandleKeeps DEF Caused
  <2>3. CASE Wait \/ TimersDone \/ Command \/ Network
    BY <1>1, <2>3, WaitKeeps, TimersDoneKeeps, CommandKeeps, NetworkKeeps
  <2>4. CASE UNCHANGED vars
    BY <2>4
  <2>5. QED
    BY <1>1, <2>1, <2>2, <2>3, <2>4 DEF Next
<1>2. QED
  BY <1>1, ClientInvariant, PTL DEF Spec, DanglingHasCause
=============================================================================
