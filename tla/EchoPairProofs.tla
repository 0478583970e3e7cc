---------------------------- MODULE EchoPairProofs ----------------------------
(***************************************************************************)
(* Proofs about EchoPair, for every choice of its constants that satisfies *)
(* the hypotheses of the theorems.                                         *)
(*                                                                         *)
(* The lemmas about the methods of a socket are those of                   *)
(* StreamSocketProofs, once for each end: CP for the client and SP for the *)
(* server, with the values that EchoPair gives to its C and S.             *)
(***************************************************************************)
EXTENDS EchoPair, SequenceTheorems, TLAPS

CP == INSTANCE StreamSocketProofs WITH
    conn <- client, accepted <- sent, delivered <- <<>>, peerSent <- 0, opened <- 0, ret <- 0,
    MaxLen <- ClientMax, HasReceiver <- FALSE, DeletesOnErr <- TRUE, ArmsWritable <- FALSE,
    Asserts <- FALSE, MsgLens <- {MsgLen}, ReadLens <- {}, BufSizes <- {},
    MaxPeer <- 0, MaxConns <- 0

SP == INSTANCE StreamSocketProofs WITH
    conn <- server, accepted <- <<>>, delivered <- <<>>, peerSent <- 0, opened <- 0, ret <- 0,
    MaxLen <- ServerMax, HasReceiver <- TRUE, DeletesOnErr <- TRUE, ArmsWritable <- FALSE,
    Asserts <- FALSE, MsgLens <- {ReadLen}, ReadLens <- {}, BufSizes <- {},
    MaxPeer <- 0, MaxConns <- 0

(* A message fits the largest cache of its sender (31 and 30 bytes, and    *)
(* caches of at least 512).                                                *)
Modest == MsgLen <= CP!Cap /\ ReadLen <= SP!Cap

(* OnRead takes less at a time than a buffer begins with and grows by (512, *)
(* 512 and 4096).                                                          *)
SmallReads == FakeLen <= InitLen /\ FakeLen <= ConnLen

(* The two programs satisfy both, whatever the maximum that the server     *)
(* computes from a value it has not initialised (xma_socket_cache.h:20, 33, *)
(* xma_socket.cpp:320, client_service.cpp:48, server_service.hpp:42).      *)
LEMMA ProgramValues ==
    ASSUME InitLen = 512, ConnLen = 4096, FakeLen = 512, MsgLen = 31, ReadLen = 30
    PROVE  Modest /\ SmallReads
BY PairAssumption DEF Modest, SmallReads, CP!Cap, SP!Cap

(* The bytes s are those of the stream that follow the first `from`.       *)
Run(s, from) == \A i \in DOMAIN s : s[i] = from + i

Arrived == server.rx \o server.inbox

GoodClient(c) ==
    /\ CP!Good(c) /\ c.txLen >= InitLen
    /\ c.fd => CP!Ready(c)
    /\ "OUT" \notin c.armed
    /\ SmallReads => CP!Inside(c)

GoodServer(c) ==
    /\ SP!Good(c) /\ c.txLen >= InitLen
    /\ c.fd => SP!Ready(c)
    /\ SP!Alive(c) \/ c.link = "none"

Failed(c) == c.err # "NO_ERR" \/ c.link \notin {"up", "eof"}

(* The client's stream: the first of what it has accepted is on the wire,  *)
(* and the rest cached as long as there is a client.                       *)
ClientStream ==
    /\ Run(client.wire, 0) /\ Len(client.wire) <= Len(sent)
    /\ atServer <= Len(client.wire)
    /\ CP!Alive(client) => client.wire \o client.tx = sent

(* The server's stream: what has come and is not taken yet follows what is *)
(* taken, in whole blocks.                                                 *)
ServerStream ==
    /\ Taken \in Nat /\ Taken % ReadLen = 0
    /\ Run(Arrived, Taken)

(* What is written back are blocks of what was taken, and all of it unless *)
(* something has gone wrong.                                               *)
Blocks(e) ==
    /\ Len(e) % ReadLen = 0
    /\ \A i \in DOMAIN e : (e[i] - i) % ReadLen = 0
    /\ \A i \in 2..Len(e) :
           e[i] = e[i - 1] + 1 \/ ((i - 1) % ReadLen = 0 /\ e[i] > e[i - 1])

EchoStream ==
    /\ Blocks(Echoed)
    /\ \A i \in DOMAIN Echoed : Echoed[i] <= Taken
    /\ ~Failed(server) => Len(Echoed) = Taken /\ Run(Echoed, 0)

IInv ==
    /\ GoodClient(client) /\ GoodServer(server)
    /\ sent \in Seq(Nat) /\ Run(sent, 0)
    /\ atServer \in Nat /\ atClient \in Nat
    /\ Modest => ClientStream
    /\ Modest /\ SP!Alive(server) => ServerStream /\ EchoStream
-----------------------------------------------------------------------------
(* The two instances of StreamSocket are the same as those of its lemmas.  *)

LEMMA Params ==
    /\ CP!BuffAssumption /\ CP!SocketAssumption
    /\ SP!BuffAssumption /\ SP!SocketAssumption
BY PairAssumption DEF CP!BuffAssumption, CP!SocketAssumption,
                      SP!BuffAssumption, SP!SocketAssumption

LEMMA ClientBuffer ==
    /\ \A len, idx : C!FreeLen(len, idx) = CP!FreeLen(len, idx)
    /\ \A len : C!CanLen(len) = CP!CanLen(len)
    /\ \A len, idx : C!AddLen(len, idx) = CP!AddLen(len, idx)
    /\ \A len, idx, n : C!CheckLen(len, idx, n) = CP!CheckLen(len, idx, n)
    /\ \A len, idx, n : C!CopyLen(len, idx, n) = CP!CopyLen(len, idx, n)
    /\ \A len, idx, n : C!CanOp(len, idx, n) <=> CP!CanOp(len, idx, n)
    /\ \A len, idx, n : C!CopyFits(len, idx, n) <=> CP!CopyFits(len, idx, n)
<1>1. \A len, need : C!Expand(len, need) = CP!Expand(len, need)
  BY DEF C!Expand, CP!Expand, C!Growth, CP!Growth
<1>2. /\ \A len, idx : C!FreeLen(len, idx) = CP!FreeLen(len, idx)
      /\ \A len : C!CanLen(len) = CP!CanLen(len)
  BY DEF C!FreeLen, CP!FreeLen, C!CanLen, CP!CanLen
<1>3. /\ \A len, idx : C!AddLen(len, idx) = CP!AddLen(len, idx)
      /\ \A len, idx, n : C!CheckLen(len, idx, n) = CP!CheckLen(len, idx, n)
      /\ \A len, idx, n : C!CopyLen(len, idx, n) = CP!CopyLen(len, idx, n)
  BY <1>1, <1>2 DEF C!AddLen, CP!AddLen, C!CheckLen, CP!CheckLen,
                    C!CopyLen, CP!CopyLen
<1>4. QED
  BY <1>2, <1>3 DEF C!CanOp, CP!CanOp, C!CopyFits, CP!CopyFits

LEMMA ClientBasics ==
    /\ \A x, y : C!Result(x, y) = CP!Result(x, y)
    /\ C!HardErr = CP!HardErr /\ C!Eof = CP!Eof /\ C!Garbage = CP!Garbage
    /\ C!Idle = CP!Idle /\ C!NewSocket = CP!NewSocket
    /\ \A c : C!Alive(c) <=> CP!Alive(c)
    /\ \A c : C!Ready(c) <=> CP!Ready(c)
    /\ \A c, e : C!SetErr(c, e) = CP!SetErr(c, e)
    /\ \A c, k : C!Flushed(c, k) = CP!Flushed(c, k)
    /\ \A c : C!Close(c) = CP!Close(c)
    /\ \A c : C!Reset(c) = CP!Reset(c)
    /\ \A c, e : C!OnSocketErr(c, e) = CP!OnSocketErr(c, e)
    /\ \A c, n : C!SendOutcomes(c, n) = CP!SendOutcomes(c, n)
    /\ \A c, n : C!RecvOutcomes(c, n) = CP!RecvOutcomes(c, n)
    /\ \A from, n : C!NextBytes(from, n) = CP!NextBytes(from, n)
BY DEF C!Result, CP!Result, C!HardErr, CP!HardErr, C!Eof, CP!Eof,
       C!Garbage, CP!Garbage, C!Idle, CP!Idle, C!NewSocket, CP!NewSocket,
       C!Alive, CP!Alive, C!Ready, CP!Ready, C!SetErr, CP!SetErr,
       C!Flushed, CP!Flushed, C!Close, CP!Close, C!Reset, CP!Reset,
       C!OnSocketErr, CP!OnSocketErr, C!SendOutcomes, CP!SendOutcomes,
       C!RecvOutcomes, CP!RecvOutcomes, C!NextBytes, CP!NextBytes

LEMMA ClientSends ==
    /\ \A c, m, n : C!CacheMsg(c, m, n) = CP!CacheMsg(c, m, n)
    /\ \A c, k, ok : C!DoWrite(c, k, ok) = CP!DoWrite(c, k, ok)
    /\ \A c, m, k, ok, j : C!WriteMsg(c, m, k, ok, j) = CP!WriteMsg(c, m, k, ok, j)
<1>1. ASSUME NEW c, NEW m, NEW n
      PROVE  C!CacheMsg(c, m, n) = CP!CacheMsg(c, m, n)
  BY ClientBuffer, ClientBasics, Zenon DEF C!CacheMsg, CP!CacheMsg
<1>2. ASSUME NEW c
      PROVE  C!NoLongerFull(c) = CP!NoLongerFull(c)
  BY ClientBuffer, Zenon DEF C!NoLongerFull, CP!NoLongerFull
<1>3. ASSUME NEW c, NEW k, NEW ok
      PROVE  C!DoWrite(c, k, ok) = CP!DoWrite(c, k, ok)
  BY ClientBasics, <1>2, Zenon
     DEF C!DoWrite, CP!DoWrite, C!AssertFails, CP!AssertFails,
         C!Abort, CP!Abort, C!SetEvents, CP!SetEvents
<1>4. ASSUME NEW c, NEW m, NEW k, NEW ok, NEW j
      PROVE  C!WriteMsg(c, m, k, ok, j) = CP!WriteMsg(c, m, k, ok, j)
  BY ClientBasics, <1>1, <1>3, Zenon DEF C!WriteMsg, CP!WriteMsg
<1>5. QED
  BY <1>1, <1>3, <1>4, Zenon

LEMMA ClientReads ==
    /\ \A c, r : C!Read(c, r) = CP!Read(c, r)
    /\ \A c : C!ReadRoom(c) = CP!ReadRoom(c)
<1>1. ASSUME NEW c, NEW r, NEW fake
      PROVE  C!DoRead(c, r, fake) = CP!DoRead(c, r, fake)
  BY ClientBuffer, ClientBasics, Zenon
     DEF C!DoRead, CP!DoRead, C!AssertFails, CP!AssertFails,
         C!Abort, CP!Abort
<1>2. ASSUME NEW c, NEW n, NEW r
      PROVE  C!ReadMsg(c, n, r) = CP!ReadMsg(c, n, r)
  BY ClientBuffer, ClientBasics, <1>1, Zenon
     DEF C!ReadMsg, CP!ReadMsg, C!HasMsg, CP!HasMsg, C!Taken, CP!Taken
<1>3. ASSUME NEW c, NEW r
      PROVE  C!Read(c, r) = CP!Read(c, r)
  BY ClientBasics, <1>1, <1>2, Zenon DEF C!Read, CP!Read, C!Receiver, CP!Receiver
<1>4. ASSUME NEW c
      PROVE  C!ReadRoom(c) = CP!ReadRoom(c)
  BY ClientBuffer, Zenon DEF C!ReadRoom, CP!ReadRoom
<1>5. QED
  BY <1>3, <1>4, Zenon

LEMMA ServerBuffer ==
    /\ \A len, idx : S!FreeLen(len, idx) = SP!FreeLen(len, idx)
    /\ \A len : S!CanLen(len) = SP!CanLen(len)
    /\ \A len, idx : S!AddLen(len, idx) = SP!AddLen(len, idx)
    /\ \A len, idx, n : S!CheckLen(len, idx, n) = SP!CheckLen(len, idx, n)
    /\ \A len, idx, n : S!CopyLen(len, idx, n) = SP!CopyLen(len, idx, n)
    /\ \A len, idx, n : S!CanOp(len, idx, n) <=> SP!CanOp(len, idx, n)
    /\ \A len, idx, n : S!CopyFits(len, idx, n) <=> SP!CopyFits(len, idx, n)
<1>1. \A len, need : S!Expand(len, need) = SP!Expand(len, need)
  BY DEF S!Expand, SP!Expand, S!Growth, SP!Growth
<1>2. /\ \A len, idx : S!FreeLen(len, idx) = SP!FreeLen(len, idx)
      /\ \A len : S!CanLen(len) = SP!CanLen(len)
  BY DEF S!FreeLen, SP!FreeLen, S!CanLen, SP!CanLen
<1>3. /\ \A len, idx : S!AddLen(len, idx) = SP!AddLen(len, idx)
      /\ \A len, idx, n : S!CheckLen(len, idx, n) = SP!CheckLen(len, idx, n)
      /\ \A len, idx, n : S!CopyLen(len, idx, n) = SP!CopyLen(len, idx, n)
  BY <1>1, <1>2 DEF S!AddLen, SP!AddLen, S!CheckLen, SP!CheckLen,
                    S!CopyLen, SP!CopyLen
<1>4. QED
  BY <1>2, <1>3 DEF S!CanOp, SP!CanOp, S!CopyFits, SP!CopyFits

LEMMA ServerBasics ==
    /\ \A x, y : S!Result(x, y) = SP!Result(x, y)
    /\ S!HardErr = SP!HardErr /\ S!Eof = SP!Eof /\ S!Garbage = SP!Garbage
    /\ S!Idle = SP!Idle /\ S!NewSocket = SP!NewSocket
    /\ \A c : S!Alive(c) <=> SP!Alive(c)
    /\ \A c : S!Ready(c) <=> SP!Ready(c)
    /\ \A c, e : S!SetErr(c, e) = SP!SetErr(c, e)
    /\ \A c, k : S!Flushed(c, k) = SP!Flushed(c, k)
    /\ \A c : S!Close(c) = SP!Close(c)
    /\ \A c : S!Reset(c) = SP!Reset(c)
    /\ \A c, e : S!OnSocketErr(c, e) = SP!OnSocketErr(c, e)
    /\ \A c, n : S!SendOutcomes(c, n) = SP!SendOutcomes(c, n)
    /\ \A c, n : S!RecvOutcomes(c, n) = SP!RecvOutcomes(c, n)
    /\ \A from, n : S!NextBytes(from, n) = SP!NextBytes(from, n)
BY DEF S!Result, SP!Result, S!HardErr, SP!HardErr, S!Eof, SP!Eof,
       S!Garbage, SP!Garbage, S!Idle, SP!Idle, S!NewSocket, SP!NewSocket,
       S!Alive, SP!Alive, S!Ready, SP!Ready, S!SetErr, SP!SetErr,
       S!Flushed, SP!Flushed, S!Close, SP!Close, S!Reset, SP!Reset,
       S!OnSocketErr, SP!OnSocketErr, S!SendOutcomes, SP!SendOutcomes,
       S!RecvOutcomes, SP!RecvOutcomes, S!NextBytes, SP!NextBytes

LEMMA ServerSends ==
    /\ \A c, m, n : S!CacheMsg(c, m, n) = SP!CacheMsg(c, m, n)
    /\ \A c, k, ok : S!DoWrite(c, k, ok) = SP!DoWrite(c, k, ok)
    /\ \A c, m, k, ok, j : S!WriteMsg(c, m, k, ok, j) = SP!WriteMsg(c, m, k, ok, j)
<1>1. ASSUME NEW c, NEW m, NEW n
      PROVE  S!CacheMsg(c, m, n) = SP!CacheMsg(c, m, n)
  BY ServerBuffer, ServerBasics, Zenon DEF S!CacheMsg, SP!CacheMsg
<1>2. ASSUME NEW c
      PROVE  S!NoLongerFull(c) = SP!NoLongerFull(c)
  BY ServerBuffer, Zenon DEF S!NoLongerFull, SP!NoLongerFull
<1>3. ASSUME NEW c, NEW k, NEW ok
      PROVE  S!DoWrite(c, k, ok) = SP!DoWrite(c, k, ok)
  BY ServerBasics, <1>2, Zenon
     DEF S!DoWrite, SP!DoWrite, S!AssertFails, SP!AssertFails,
         S!Abort, SP!Abort, S!SetEvents, SP!SetEvents
<1>4. ASSUME NEW c, NEW m, NEW k, NEW ok, NEW j
      PROVE  S!WriteMsg(c, m, k, ok, j) = SP!WriteMsg(c, m, k, ok, j)
  BY ServerBasics, <1>1, <1>3, Zenon DEF S!WriteMsg, SP!WriteMsg
<1>5. QED
  BY <1>1, <1>3, <1>4, Zenon

LEMMA ServerReads ==
    /\ \A c, r : S!Read(c, r) = SP!Read(c, r)
    /\ \A c : S!ReadRoom(c) = SP!ReadRoom(c)
<1>1. ASSUME NEW c, NEW r, NEW fake
      PROVE  S!DoRead(c, r, fake) = SP!DoRead(c, r, fake)
  BY ServerBuffer, ServerBasics, Zenon
     DEF S!DoRead, SP!DoRead, S!AssertFails, SP!AssertFails,
         S!Abort, SP!Abort
<1>2. ASSUME NEW c, NEW n, NEW r
      PROVE  S!ReadMsg(c, n, r) = SP!ReadMsg(c, n, r)
  BY ServerBuffer, ServerBasics, <1>1, Zenon
     DEF S!ReadMsg, SP!ReadMsg, S!HasMsg, SP!HasMsg, S!Taken, SP!Taken
<1>3. ASSUME NEW c, NEW r
      PROVE  S!Read(c, r) = SP!Read(c, r)
  BY ServerBasics, <1>1, <1>2, Zenon DEF S!Read, SP!Read, S!Receiver, SP!Receiver
<1>4. ASSUME NEW c
      PROVE  S!ReadRoom(c) = SP!ReadRoom(c)
  BY ServerBuffer, Zenon DEF S!ReadRoom, SP!ReadRoom
<1>5. QED
  BY <1>3, <1>4, Zenon

LEMMA ClientEvents ==
    \A c, ev, r, k, ok : C!DoHandle(c, ev, r, k, ok) = CP!DoHandle(c, ev, r, k, ok)
<1>1. ASSUME NEW c, NEW ev, NEW r, NEW k, NEW ok
      PROVE  C!DoReadWrite(c, ev, r, k, ok) = CP!DoReadWrite(c, ev, r, k, ok)
  BY ClientBasics, ClientSends, ClientReads, Zenon DEF C!DoReadWrite, CP!DoReadWrite, C!Write, CP!Write
<1>2. ASSUME NEW c, NEW ev, NEW ok
      PROVE  C!DoConnect(c, ev, ok) = CP!DoConnect(c, ev, ok)
  BY ClientBasics, Zenon DEF C!DoConnect, CP!DoConnect, C!SetEvents, CP!SetEvents
<1>3. ASSUME NEW c, NEW ev, NEW r, NEW k, NEW ok
      PROVE  C!DoHandle(c, ev, r, k, ok) = CP!DoHandle(c, ev, r, k, ok)
  BY ClientBasics, <1>1, <1>2, Zenon DEF C!DoHandle, CP!DoHandle
<1>4. QED
  BY <1>3, Zenon
-----------------------------------------------------------------------------
(* Multiples of the length of a block.                                     *)

LEMMA Quotient ==
    ASSUME NEW d \in Nat \ {0}, NEW a \in Int, a % d = 0
    PROVE  a = d * (a \div d) /\ a \div d \in Int
OBVIOUS

LEMMA Product ==
    ASSUME NEW d \in Nat \ {0}, NEW q \in Int
    PROVE  (d * q) % d = 0
OBVIOUS

LEMMA Multiples ==
    ASSUME NEW d \in Nat \ {0}, NEW a \in Int, NEW b \in Int, a % d = 0, b % d = 0
    PROVE  (a - b) % d = 0 /\ (a + b) % d = 0
<1> DEFINE p == a \div d
           q == b \div d
<1>1. a = d * p /\ p \in Int /\ b = d * q /\ q \in Int
  BY Quotient
<1> HIDE DEF p, q
<1>2. a - b = d * (p - q) /\ a + b = d * (p + q)
  BY <1>1
<1>3. p - q \in Int /\ p + q \in Int
  BY <1>1
<1>4. QED
  BY <1>2, <1>3, Product

LEMMA FirstMultiples ==
    ASSUME NEW d \in Nat \ {0}
    PROVE  0 % d = 0 /\ d % d = 0
<1>1. 0 = d * 0 /\ d = d * 1
  OBVIOUS
<1>2. QED
  BY <1>1, Product
-----------------------------------------------------------------------------
(* Runs of consecutive bytes, and blocks of them.                          *)

LEMMA Elements ==
    ASSUME NEW s \in Seq(Nat)
    PROVE  /\ Len(s) \in Nat /\ DOMAIN s = 1..Len(s)
           /\ \A i \in 1..Len(s) : s[i] \in Nat
OBVIOUS

LEMMA Joined ==
    ASSUME NEW s \in Seq(Nat), NEW t \in Seq(Nat)
    PROVE  /\ s \o t \in Seq(Nat) /\ Len(s \o t) = Len(s) + Len(t)
           /\ DOMAIN (s \o t) = 1..(Len(s) + Len(t))
           /\ \A i \in 1..Len(s) : (s \o t)[i] = s[i]
           /\ \A i \in 1..Len(t) : (s \o t)[Len(s) + i] = t[i]
           /\ \A i \in 1..(Len(s) + Len(t)) : i \in 1..Len(s) \/ i - Len(s) \in 1..Len(t)
<1> DEFINE u == s \o t
<1>1. /\ u \in Seq(Nat) /\ Len(u) = Len(s) + Len(t)
      /\ \A i \in 1..(Len(s) + Len(t)) :
           u[i] = IF i <= Len(s) THEN s[i] ELSE t[i - Len(s)]
  BY ConcatProperties
<1>2. Len(s) \in Nat /\ Len(t) \in Nat /\ DOMAIN u = 1..Len(u)
  BY <1>1, Elements
<1> HIDE DEF u
<1>3. \A i \in 1..Len(s) : u[i] = s[i]
  BY <1>1, <1>2
<1>4. ASSUME NEW i \in 1..Len(t)
      PROVE  u[Len(s) + i] = t[i]
  <2>1. Len(s) + i \in 1..(Len(s) + Len(t)) /\ ~(Len(s) + i <= Len(s)) /\ (Len(s) + i) - Len(s) = i
    BY <1>2
  <2>2. QED
    BY <1>1, <2>1
<1>5. \A i \in 1..(Len(s) + Len(t)) : i \in 1..Len(s) \/ i - Len(s) \in 1..Len(t)
  BY <1>2
<1>6. QED
  BY <1>1, <1>2, <1>3, <1>4, <1>5 DEF u

LEMMA RunJoined ==
    ASSUME NEW s \in Seq(Nat), NEW t \in Seq(Nat), NEW from \in Nat,
           Run(s, from), Run(t, from + Len(s))
    PROVE  Run(s \o t, from)
<1> DEFINE u == s \o t
<1>1. /\ DOMAIN u = 1..(Len(s) + Len(t))
      /\ \A i \in 1..Len(s) : u[i] = s[i]
      /\ \A i \in 1..Len(t) : u[Len(s) + i] = t[i]
      /\ \A i \in 1..(Len(s) + Len(t)) : i \in 1..Len(s) \/ i - Len(s) \in 1..Len(t)
  BY Joined
<1>2. /\ Len(s) \in Nat /\ DOMAIN s = 1..Len(s)
      /\ Len(t) \in Nat /\ DOMAIN t = 1..Len(t)
  BY Elements
<1> HIDE DEF u
<1>3. ASSUME NEW i \in 1..(Len(s) + Len(t))
      PROVE  u[i] = from + i
  <2>1. CASE i \in 1..Len(s)
    BY <1>1, <1>2, <2>1 DEF Run
  <2>2. CASE i - Len(s) \in 1..Len(t)
    <3>1. PICK j \in 1..Len(t) : i = Len(s) + j
      <4>1. i = Len(s) + (i - Len(s))
        BY <1>2
      <4>2. QED
        BY <2>2, <4>1
    <3>2. u[i] = t[j] /\ t[j] = (from + Len(s)) + j
      BY <1>1, <1>2, <3>1 DEF Run
    <3>3. QED
      BY <1>2, <3>1, <3>2
  <2>3. QED
    BY <1>1, <2>1, <2>2
<1>4. QED
  BY <1>1, <1>3 DEF Run, u

LEMMA RunExtended ==
    ASSUME NEW s \in Seq(Nat), NEW t \in Seq(Nat), NEW n \in Nat, Len(s) = n,
           Run(s, 0), Run(t, n)
    PROVE  s \o t \in Seq(Nat) /\ Len(s \o t) = n + Len(t) /\ Run(s \o t, 0)
<1>1. Run(t, 0 + Len(s))
  OBVIOUS
<1>2. QED
  BY <1>1, Joined, RunJoined

LEMMA RunParts ==
    ASSUME NEW s \in Seq(Nat), NEW t \in Seq(Nat), NEW from \in Nat, Run(s \o t, from)
    PROVE  Run(s, from) /\ Run(t, from + Len(s))
<1> DEFINE u == s \o t
<1>1. /\ DOMAIN u = 1..(Len(s) + Len(t))
      /\ \A i \in 1..Len(s) : u[i] = s[i]
      /\ \A i \in 1..Len(t) : u[Len(s) + i] = t[i]
  BY Joined
<1>2. /\ Len(s) \in Nat /\ DOMAIN s = 1..Len(s)
      /\ Len(t) \in Nat /\ DOMAIN t = 1..Len(t)
  BY Elements
<1>3. \A i \in DOMAIN u : u[i] = from + i
  BY DEF Run
<1> HIDE DEF u
<1>4. \A i \in 1..Len(s) : s[i] = from + i
  BY <1>1, <1>2, <1>3
<1>5. ASSUME NEW i \in 1..Len(t)
      PROVE  t[i] = (from + Len(s)) + i
  <2>1. Len(s) + i \in 1..(Len(s) + Len(t))
    BY <1>2
  <2>2. t[i] = from + (Len(s) + i)
    BY <1>1, <1>3, <2>1
  <2>3. QED
    BY <1>2, <2>2
<1>6. QED
  BY <1>2, <1>4, <1>5 DEF Run

LEMMA RunsEqual ==
    ASSUME NEW s \in Seq(Nat), NEW t \in Seq(Nat), NEW from \in Nat,
           Run(s, from), Run(t, from), Len(s) = Len(t)
    PROVE  s = t
<1>1. \A i \in 1..Len(s) : s[i] = t[i]
  BY Elements DEF Run
<1>2. QED
  BY <1>1, SeqEqual

(* A block of the stream, written after what was written before it.        *)
LEMMA BlockAdded ==
    ASSUME NEW e \in Seq(Nat), NEW b \in Seq(Nat), NEW from \in Nat, Len(b) = ReadLen,
           Blocks(e), Run(b, from), from % ReadLen = 0, \A i \in DOMAIN e : e[i] <= from
    PROVE  Blocks(e \o b) /\ \A i \in DOMAIN (e \o b) : (e \o b)[i] <= from + ReadLen
<1> DEFINE u == e \o b
           n == Len(e)
<1>1. /\ u \in Seq(Nat) /\ Len(u) = n + ReadLen /\ DOMAIN u = 1..(n + ReadLen)
      /\ \A i \in 1..n : u[i] = e[i]
      /\ \A i \in 1..ReadLen : u[n + i] = b[i]
      /\ \A i \in 1..(n + ReadLen) : i \in 1..n \/ i - n \in 1..ReadLen
  BY Joined
<1>2. /\ n \in Nat /\ DOMAIN e = 1..n /\ DOMAIN b = 1..ReadLen /\ ReadLen \in Nat \ {0}
      /\ \A i \in 1..n : e[i] \in Nat
  BY Elements, PairAssumption
<1> HIDE DEF u, n
<1>3. ASSUME NEW i \in 1..(n + ReadLen), i - n \in 1..ReadLen
      PROVE  u[i] = from + (i - n)
  <2>1. n + (i - n) = i
    BY <1>2
  <2>2. u[n + (i - n)] = b[i - n] /\ b[i - n] = from + (i - n)
    BY <1>1, <1>2, <1>3 DEF Run
  <2>3. QED
    BY <2>1, <2>2
<1>4. Len(u) % ReadLen = 0
  <2>1. n % ReadLen = 0 /\ ReadLen % ReadLen = 0
    BY <1>2, FirstMultiples DEF Blocks, n
  <2>2. (n + ReadLen) % ReadLen = 0
    BY <1>2, <2>1, Multiples
  <2>3. QED
    BY <1>1, <2>2
<1>5. ASSUME NEW i \in DOMAIN u
      PROVE  (u[i] - i) % ReadLen = 0 /\ u[i] <= from + ReadLen
  <2>1. CASE i \in 1..n
    <3>1. u[i] = e[i] /\ i \in DOMAIN e
      BY <1>1, <1>2, <2>1
    <3>2. (e[i] - i) % ReadLen = 0 /\ e[i] <= from /\ e[i] \in Nat
      BY <1>2, <3>1 DEF Blocks
    <3>3. QED
      BY <1>2, <3>1, <3>2
  <2>2. CASE i - n \in 1..ReadLen
    <3>1. u[i] = from + (i - n)
      BY <1>1, <1>3, <2>2
    <3>2. u[i] - i = from - n /\ u[i] <= from + ReadLen
      BY <1>1, <1>2, <2>2, <3>1
    <3>3. n % ReadLen = 0
      BY DEF Blocks, n
    <3>4. (from - n) % ReadLen = 0
      BY <1>2, <3>3, Multiples
    <3>5. QED
      BY <3>2, <3>4
  <2>3. QED
    BY <1>1, <2>1, <2>2
<1>6. ASSUME NEW i \in 2..Len(u)
      PROVE  u[i] = u[i - 1] + 1 \/ ((i - 1) % ReadLen = 0 /\ u[i] > u[i - 1])
  <2>0. i \in 1..(n + ReadLen) /\ i - 1 \in 1..(n + ReadLen)
    BY <1>1, <1>2
  <2>1. CASE i \in 1..n
    <3>1. i \in 2..n /\ i - 1 \in 1..n
      BY <1>2, <1>6, <2>1
    <3>2. u[i] = e[i] /\ u[i - 1] = e[i - 1]
      BY <1>1, <3>1
    <3>3. i \in 2..Len(e)
      BY <3>1 DEF n
    <3>4. QED
      BY <3>2, <3>3 DEF Blocks
  <2>2. CASE i = n + 1
    <3>1. u[i] = from + 1 /\ u[i - 1] = e[i - 1] /\ i - 1 = n /\ i - 1 \in DOMAIN e
      BY <1>1, <1>2, <1>3, <2>0, <2>2
    <3>2. e[i - 1] <= from /\ e[i - 1] \in Nat /\ n % ReadLen = 0
      BY <1>2, <3>1 DEF Blocks, n
    <3>3. QED
      BY <3>1, <3>2
  <2>3. CASE i - n \in 2..ReadLen
    <3>1. i - n \in 1..ReadLen /\ (i - 1) - n \in 1..ReadLen
      BY <1>2, <2>0, <2>3
    <3>2. u[i] = from + (i - n) /\ u[i - 1] = from + ((i - 1) - n)
      BY <1>3, <2>0, <3>1
    <3>3. QED
      BY <1>2, <2>0, <3>2
  <2>4. QED
    BY <1>1, <1>2, <2>0, <2>1, <2>2, <2>3
<1>7. QED
  BY <1>4, <1>5, <1>6 DEF Blocks, u

(* The server takes the block m, of which a is the rest, and writes it.    *)
LEMMA BlockEchoed ==
    ASSUME NEW e \in Seq(Nat), NEW m \in Seq(Nat), NEW a \in Seq(Nat), NEW t \in Nat,
           Len(m) = ReadLen, t % ReadLen = 0, Run(m \o a, t),
           Blocks(e), \A i \in DOMAIN e : e[i] <= t
    PROVE  /\ t + ReadLen \in Nat /\ (t + ReadLen) % ReadLen = 0 /\ Run(a, t + ReadLen)
           /\ Run(m, t)
           /\ \A i \in DOMAIN e : e[i] <= t + ReadLen
           /\ Blocks(e \o m) /\ \A i \in DOMAIN (e \o m) : (e \o m)[i] <= t + ReadLen
           /\ Len(e) = t /\ Run(e, 0) =>
                Len(e \o m) = t + ReadLen /\ Run(e \o m, 0)
<1>0. ReadLen \in Nat \ {0}
  BY PairAssumption
<1>1. Run(m, t) /\ Run(a, t + ReadLen)
  <2>1. Run(m, t) /\ Run(a, t + Len(m))
    BY RunParts
  <2>2. QED
    BY <2>1
<1>2. t + ReadLen \in Nat /\ (t + ReadLen) % ReadLen = 0
  BY <1>0, FirstMultiples, Multiples
<1>3. \A i \in DOMAIN e : e[i] <= t + ReadLen
  <2>1. \A i \in DOMAIN e : e[i] \in Nat
    BY Elements
  <2>2. QED
    BY <1>0, <2>1
<1>4. Blocks(e \o m) /\ \A i \in DOMAIN (e \o m) : (e \o m)[i] <= t + ReadLen
  BY <1>1, BlockAdded
<1>5. ASSUME Len(e) = t, Run(e, 0)
      PROVE  Len(e \o m) = t + ReadLen /\ Run(e \o m, 0)
  <2>1. Len(e \o m) = t + ReadLen
    BY <1>5, Joined
  <2>2. Run(m, 0 + Len(e))
    BY <1>1, <1>5
  <2>3. QED
    BY <1>5, <2>1, <2>2, RunJoined
<1>6. QED
  BY <1>1, <1>2, <1>3, <1>4, <1>5
-----------------------------------------------------------------------------
(* Both ends, whatever their methods do.                                   *)

LEMMA ClientTypes ==
    ASSUME NEW c, CP!Good(c)
    PROVE  /\ c \in CP!Sockets /\ (c.link = "none" <=> ~c.fd)
           /\ c.tx \in Seq(Nat) /\ c.wire \in Seq(Nat) /\ c.rx \in Seq(Nat) /\ c.inbox \in Seq(Nat)
           /\ c.txLen \in Nat /\ c.rxLen \in Nat \ {0}
           /\ c.armed \subseteq CP!Events /\ (c.armed # {} <=> c.fd)
BY DEF CP!Good, CP!Sockets, CP!FdMatches

LEMMA ServerTypes ==
    ASSUME NEW c, SP!Good(c)
    PROVE  /\ c \in SP!Sockets /\ (c.link = "none" <=> ~c.fd)
           /\ c.tx \in Seq(Nat) /\ c.wire \in Seq(Nat) /\ c.rx \in Seq(Nat) /\ c.inbox \in Seq(Nat)
           /\ c.txLen \in Nat /\ c.rxLen \in Nat \ {0}
           /\ c.armed \subseteq SP!Events /\ (c.armed # {} <=> c.fd)
BY DEF SP!Good, SP!Sockets, SP!FdMatches

(* OnSocketErr of the services deletes the socket.                         *)
LEMMA ClientGone ==
    ASSUME NEW c, GoodClient(c), CP!Alive(c), NEW e \in CP!Errors
    PROVE  /\ GoodClient(CP!OnSocketErr(c, e)) /\ CP!OnSocketErr(c, e).link = "none"
           /\ CP!OnSocketErr(c, e).rx = <<>> /\ CP!OnSocketErr(c, e).rxLen = c.rxLen
           /\ CP!OnSocketErr(c, e).wire = c.wire /\ ~CP!Alive(CP!OnSocketErr(c, e))
<1> DEFINE d == CP!OnSocketErr(c, e)
<1>0. CP!Good(c) /\ c.txLen >= InitLen
  BY DEF GoodClient
<1>1. /\ d.link = "none" /\ ~d.fd /\ d.rx = <<>> /\ d.rxLen = c.rxLen
      /\ d.wire = c.wire /\ d.life = "deleted"
  BY <1>0, Params, CP!OnSocketErrCloses
<1>2. CP!Good(d)
  BY <1>0, Params, CP!OnSocketErrGood
<1>3. d.txLen >= c.txLen
  BY <1>0, Params, CP!OnSocketErrHandles DEF CP!Handles
<1> HIDE DEF d
<1>4. "OUT" \notin d.armed /\ d.txLen \in Nat /\ c.txLen \in Nat /\ InitLen \in Nat
  <2>1. d.armed = {}
    BY <1>1, <1>2, ClientTypes, Zenon
  <2>2. d.txLen \in Nat /\ c.txLen \in Nat
    BY <1>0, <1>2, ClientTypes, Zenon
  <2>3. QED
    BY <2>1, <2>2, PairAssumption
<1>5. SmallReads => CP!Inside(d)
  <2>1. /\ Len(<<>>) = 0 /\ Len(c.rx) \in Nat /\ FakeLen \in Nat /\ c.rxLen \in Nat
        /\ ClientMax \in Int
    BY <1>0, ClientTypes, EmptySeq, LenProperties, PairAssumption
  <2>2. QED
    BY <1>1, <2>1 DEF GoodClient, CP!Inside
<1>6. GoodClient(d)
  BY <1>0, <1>1, <1>2, <1>3, <1>4, <1>5 DEF GoodClient
<1>7. QED
  BY <1>1, <1>6 DEF d, CP!Alive

(* d is c after its end: what was not on the wire is gone.                 *)
Gone(c, d) ==
    GoodServer(d) /\ ~SP!Alive(d) /\ d.link = "none" /\ d.wire = c.wire /\ d.tx = <<>>

LEMMA ServerGone ==
    ASSUME NEW c, GoodServer(c), SP!Alive(c), NEW e \in SP!Errors
    PROVE  Gone(c, SP!OnSocketErr(c, e))
<1> DEFINE d == SP!OnSocketErr(c, e)
<1>0. SP!Good(c) /\ c.txLen >= InitLen
  BY DEF GoodServer
<1>1. d.link = "none" /\ ~d.fd /\ d.wire = c.wire /\ d.tx = <<>> /\ d.life = "deleted"
  BY <1>0, Params, SP!OnSocketErrCloses
<1>2. SP!Good(d)
  BY <1>0, Params, SP!OnSocketErrGood
<1>3. d.txLen >= c.txLen
  BY <1>0, Params, SP!OnSocketErrHandles DEF SP!Handles
<1> HIDE DEF d
<1>4. d.txLen \in Nat /\ c.txLen \in Nat /\ InitLen \in Nat
  BY <1>0, <1>2, ClientTypes, ServerTypes, PairAssumption
<1>5. GoodServer(d)
  BY <1>0, <1>1, <1>2, <1>3, <1>4 DEF GoodServer
<1>6. QED
  BY <1>1, <1>5 DEF Gone, SP!Alive, d
-----------------------------------------------------------------------------
(* The initial state.                                                      *)

LEMMA NothingYet ==
    /\ <<>> \in Seq(Nat) /\ Len(<<>>) = 0 /\ <<>> \o <<>> = <<>>
    /\ \A t : Run(<<>>, t)
    /\ Blocks(<<>>) /\ \A i \in DOMAIN <<>> : FALSE
<1>1. 0 % ReadLen = 0
  BY PairAssumption, FirstMultiples
<1>2. <<>> \in Seq(Nat) /\ Len(<<>>) = 0 /\ DOMAIN <<>> = {} /\ 2..0 = {}
  OBVIOUS
<1>3. <<>> \o <<>> = <<>>
  BY <1>2, ConcatEmptySeq
<1>4. QED
  BY <1>1, <1>2, <1>3 DEF Run, Blocks

LEMMA InitIInv == Init => IInv
<1> SUFFICES ASSUME Init
             PROVE  IInv
  OBVIOUS
<1>1. /\ client.state = "CONNECTED" /\ client.fd /\ client.armed = {"IN", "ERR"}
      /\ client.link = "up" /\ client.tx = <<>> /\ client.rx = <<>> /\ client.wire = <<>>
      /\ client.inbox = <<>> /\ client.txLen = InitLen /\ client.rxLen = InitLen
      /\ client \in CP!Sockets
  BY NothingYet, PairAssumption
     DEF Init, Connected, C!NewSocket, C!Idle, CP!Sockets, CP!States, CP!Errors, CP!Links, CP!Events
<1>2. /\ server.state = "CONNECTED" /\ server.fd /\ server.armed = {"IN", "ERR"}
      /\ server.link = "up" /\ server.tx = <<>> /\ server.rx = <<>> /\ server.wire = <<>>
      /\ server.inbox = <<>> /\ server.txLen = InitLen /\ server.rxLen = InitLen
      /\ server \in SP!Sockets /\ server.life = "alive"
  BY NothingYet, PairAssumption
     DEF Init, Connected, S!NewSocket, C!Idle, SP!Sockets, SP!States, SP!Errors, SP!Links, SP!Events
<1>3. /\ sent = <<>> /\ atServer = 0 /\ atClient = 0
      /\ InitLen \in Nat \ {0} /\ FakeLen \in Nat
  BY PairAssumption DEF Init
<1>4. GoodClient(client)
  <2>1. CP!TxHolds(client)
    BY <1>1, <1>3, NothingYet, PairAssumption DEF CP!TxHolds, CP!Holds, CP!Cap
  <2>2. SmallReads => CP!Inside(client)
    BY <1>1, <1>3, NothingYet DEF SmallReads, CP!Inside
  <2>3. "OUT" \notin client.armed /\ client.armed # {}
    BY <1>1
  <2>4. CP!Good(client) /\ CP!Ready(client)
    BY <1>1, <2>1, <2>3 DEF CP!Good, CP!FdMatches, CP!Fresh, CP!Ready
  <2>5. QED
    BY <1>1, <1>3, <2>2, <2>3, <2>4 DEF GoodClient, CP!Ready
<1>5. GoodServer(server)
  <2>1. SP!TxHolds(server) /\ SP!RxHolds(server)
    BY <1>2, <1>3, NothingYet, PairAssumption DEF SP!TxHolds, SP!RxHolds, SP!Holds, SP!Cap
  <2>2. QED
    BY <1>2, <1>3, <2>1 DEF GoodServer, SP!Good, SP!FdMatches, SP!Fresh, SP!Ready, SP!Alive
<1>6. ClientStream /\ Taken = 0
  <2>1. client.wire \o client.tx = sent
    BY <1>1, <1>3, NothingYet, Zenon
  <2>2. Len(client.wire) = 0 /\ Len(server.inbox) = 0 /\ Len(server.rx) = 0
    BY <1>1, <1>2, NothingYet, Zenon
  <2>3. Run(client.wire, 0) /\ Len(sent) = 0
    BY <1>1, <1>3, NothingYet, Zenon
  <2>4. QED
    BY <1>3, <2>1, <2>2, <2>3 DEF ClientStream, Taken
<1>7. ServerStream /\ EchoStream
  <2>1. Echoed = <<>> /\ Arrived = <<>> /\ 0 % ReadLen = 0
    BY <1>2, NothingYet, PairAssumption, FirstMultiples DEF Echoed, Arrived
  <2>2. QED
    BY <1>6, <2>1, NothingYet DEF ServerStream, EchoStream
<1>8. QED
  BY <1>3, <1>4, <1>5, <1>6, <1>7, NothingYet DEF IInv

-----------------------------------------------------------------------------
(* The client's steps.                                                      *)

(* The client sends: what WriteMsg answers success for joins its stream.   *)
LEMMA SendDataIInv == IInv /\ SendData => IInv' /\ client'.rxLen = client.rxLen
<1> SUFFICES ASSUME IInv, SendData
             PROVE  IInv' /\ client'.rxLen = client.rxLen
  OBVIOUS
<1> DEFINE m == CP!NextBytes(Len(sent), MsgLen)
<1>1. /\ GoodClient(client) /\ GoodServer(server) /\ sent \in Seq(Nat) /\ Run(sent, 0)
      /\ Len(sent) \in Nat /\ MsgLen \in Nat /\ CP!Alive(client)
      /\ Modest => ClientStream
      /\ Modest /\ SP!Alive(server) => ServerStream /\ EchoStream
  BY LenProperties, PairAssumption, ClientBasics DEF IInv, SendData
<1>2. m \in Seq(Nat) /\ Len(m) = MsgLen
  BY <1>1, Params, CP!NextBytesIsSeq
<1>3. Run(m, 0 + Len(sent))
  BY <1>1 DEF Run, CP!NextBytes
<1> HIDE DEF m
<1>4. PICK ok \in CtlOutcomes, k \in CP!SendOutcomes(client, Len(client.tx)),
           j \in CP!SendOutcomes(client, MsgLen) :
        /\ client' = CP!WriteMsg(client, m, k, ok, j).c
        /\ sent' = IF CP!WriteMsg(client, m, k, ok, j).ret >= 0 THEN sent \o m ELSE sent
  <2>1. PICK ok \in CtlOutcomes, k \in C!SendOutcomes(client, Len(client.tx)),
             j \in C!SendOutcomes(client, MsgLen) :
          LET n == C!NextBytes(Len(sent), MsgLen)
              write == C!WriteMsg(client, n, k, ok, j)
          IN  /\ client' = write.c
              /\ sent' = IF write.ret >= 0 THEN sent \o n ELSE sent
    BY Zenon DEF SendData
  <2>2. /\ C!NextBytes(Len(sent), MsgLen) = m
        /\ C!WriteMsg(client, m, k, ok, j) = CP!WriteMsg(client, m, k, ok, j)
        /\ k \in CP!SendOutcomes(client, Len(client.tx))
        /\ j \in CP!SendOutcomes(client, MsgLen)
    BY ClientBasics, ClientSends, Zenon DEF m
  <2>3. QED
    BY <2>1, <2>2
<1> DEFINE w == CP!WriteMsg(client, m, k, ok, j)
           b == IF w.ret >= 0 THEN m ELSE <<>>
<1>5. UNCHANGED <<server, atServer, atClient>>
  BY DEF SendData
<1>6. /\ CP!Good(w.c) /\ w.c.txLen >= InitLen /\ CP!OnlySends(client, w.c)
      /\ CP!Ready(client) => CP!Ready(w.c)
      /\ w.ret \in Int /\ Len(w.c.wire) >= Len(client.wire)
      /\ Len(m) <= CP!Cap => w.c.wire \o w.c.tx = (client.wire \o client.tx) \o b
  <2>1. ok \in BOOLEAN /\ j \in CP!SendOutcomes(client, Len(m))
    BY <1>2, PairAssumption
  <2>2. CP!Good(client) /\ client.txLen >= InitLen
    BY <1>1 DEF GoodClient
  <2>3. CP!WritesWhole(client, w, m)
    BY <1>2, <2>1, <2>2, Params, CP!WriteMsgWhole
  <2>4. QED
    BY <2>3 DEF CP!WritesWhole
<1>7. client' = w.c
  BY <1>4
<1>8. sent' = sent \o b /\ b \in Seq(Nat) /\ Run(b, 0 + Len(sent))
  <2>1. CASE w.ret >= 0
    BY <1>2, <1>3, <1>4, <2>1
  <2>2. CASE ~(w.ret >= 0)
    <3>1. sent \o <<>> = sent
      BY <1>1, ConcatEmptySeq
    <3>2. QED
      BY <1>4, <2>2, <3>1, NothingYet
  <2>3. QED
    BY <2>1, <2>2
<1> HIDE DEF w, b
<1>9. sent' \in Seq(Nat) /\ Run(sent', 0)
  BY <1>1, <1>8, RunJoined, Joined
<1>10. GoodClient(client')
  <2>1. /\ client'.fd = client.fd /\ client'.rx = client.rx /\ client'.rxLen = client.rxLen
        /\ client'.armed \in {client.armed, {"IN", "ERR"}}
    BY <1>6, <1>7 DEF CP!OnlySends, CP!Idle
  <2>2. "OUT" \notin client'.armed
    BY <1>1, <2>1 DEF GoodClient
  <2>3. SmallReads => CP!Inside(client')
    BY <1>1, <2>1 DEF GoodClient, CP!Inside
  <2>4. QED
    BY <1>1, <1>6, <1>7, <2>1, <2>2, <2>3 DEF GoodClient
<1>11. ASSUME Modest
       PROVE  ClientStream'
  <2>1. client.wire \o client.tx = sent /\ atServer <= Len(client.wire) /\ atServer \in Nat
    BY <1>1, <1>11 DEF ClientStream, IInv
  <2>2. client'.wire \o client'.tx = sent'
    BY <1>2, <1>6, <1>7, <1>8, <1>11, <2>1 DEF Modest
  <2>3. /\ client'.wire \in Seq(Nat) /\ client'.tx \in Seq(Nat)
        /\ Len(client'.wire) \in Nat /\ Len(client.wire) \in Nat /\ Len(client'.tx) \in Nat
        /\ Len(client'.wire) >= Len(client.wire)
    BY <1>1, <1>6, <1>7, ClientTypes, LenProperties DEF GoodClient
  <2>4. Run(client'.wire, 0)
    <3>1. Run(client'.wire \o client'.tx, 0)
      BY <1>9, <2>2, Zenon
    <3>2. QED
      BY <2>3, <3>1, RunParts
  <2>5. Len(client'.wire) <= Len(sent')
    <3>1. Len(client'.wire \o client'.tx) = Len(client'.wire) + Len(client'.tx)
      BY <2>3, Joined
    <3>2. Len(sent') = Len(client'.wire) + Len(client'.tx)
      BY <2>2, <3>1, Zenon
    <3>3. \A p, q \in Nat : p <= p + q
      OBVIOUS
    <3>4. QED
      BY <2>3, <3>2, <3>3, Zenon
  <2>6. atServer' = atServer
    BY <1>5
  <2>7. QED
    BY <2>1, <2>2, <2>3, <2>4, <2>5, <2>6 DEF ClientStream, Run
<1>12. client'.rxLen = client.rxLen
  BY <1>6, <1>7 DEF CP!OnlySends
<1>13. ASSUME Modest, SP!Alive(server)
       PROVE  ServerStream' /\ EchoStream'
  BY <1>1, <1>5, <1>13, Zenon DEF ServerStream, EchoStream, Arrived, Echoed, Taken
<1>14. IInv'
  BY <1>1, <1>5, <1>9, <1>10, <1>11, <1>13 DEF IInv, Modest
<1>15. QED
  BY <1>12, <1>14

(* What an event of the client does to its socket.                         *)
LEMMA ClientReadStep ==
    ASSUME NEW c, GoodClient(c), CP!Ready(c), NEW r \in CP!RecvOutcomes(c, FakeLen)
    PROVE  LET d == CP!DoRead(c, r, TRUE).c
           IN  /\ GoodClient(d) /\ CP!OnlyReads(c, d)
               /\ SmallReads => CP!CopiedInside(c, d)
<1> DEFINE d == CP!DoRead(c, r, TRUE).c
<1>0. CP!Good(c) /\ c \in CP!Sockets /\ c.txLen >= InitLen /\ FakeLen \in Nat
  BY ClientTypes, PairAssumption DEF GoodClient
<1>1. CP!OnlyReads(c, d)
  BY <1>0, Params, CP!DoReadOnlyReads
<1>2. CP!Good(d)
  BY <1>0, Params, CP!DoReadHandles DEF CP!Handles
<1>3. ASSUME SmallReads
      PROVE  CP!Inside(d) /\ CP!CopiedInside(c, d)
  BY <1>0, <1>3, Params, CP!DoReadInside DEF GoodClient, SmallReads
<1> HIDE DEF d
<1>4. GoodClient(d)
  <2>1. d.txLen = c.txLen /\ d.fd = c.fd /\ d.armed = c.armed /\ d.state = c.state
    BY <1>1 DEF CP!OnlyReads
  <2>2. CP!Ready(d)
    BY <2>1 DEF CP!Ready
  <2>3. QED
    BY <1>0, <1>2, <1>3, <2>1, <2>2 DEF GoodClient
<1>5. QED
  BY <1>1, <1>3, <1>4 DEF d

(* d is c after a step of the client that sends nothing: the client is     *)
(* gone, or nothing has changed on the sending side.                       *)
Receives(c, d) ==
    /\ GoodClient(d) /\ d.wire = c.wire
    /\ CP!Alive(d) => CP!Alive(c) /\ d.tx = c.tx
    /\ SmallReads => CP!CopiedInside(c, d)

LEMMA GoneReceives ==
    ASSUME NEW c, GoodClient(c), CP!Alive(c), NEW e \in CP!Errors
    PROVE  Receives(c, CP!OnSocketErr(c, e))
BY ClientGone DEF Receives, CP!CopiedInside

LEMMA ReceivesIInv ==
    ASSUME IInv, Receives(client, client'), UNCHANGED <<server, sent, atServer>>, atClient' \in Nat
    PROVE  IInv'
<1>1. GoodClient(client') /\ GoodServer(server')
  BY DEF IInv, Receives
<1>2. /\ sent' \in Seq(Nat) /\ Run(sent', 0) /\ atServer' \in Nat
  BY DEF IInv
<1>3. ASSUME Modest
      PROVE  ClientStream'
  <2>1. ClientStream
    BY <1>3 DEF IInv
  <2>2. QED
    BY <2>1 DEF ClientStream, Receives, Run
<1>4. ASSUME Modest, SP!Alive(server)
      PROVE  ServerStream' /\ EchoStream'
  <2>1. ServerStream /\ EchoStream
    BY <1>4 DEF IInv
  <2>2. QED
    BY <2>1, Zenon DEF ServerStream, EchoStream, Arrived, Echoed, Taken
<1>5. QED
  BY <1>1, <1>2, <1>3, <1>4 DEF IInv, Modest

(* An event of the client reads and drops, or ends the connection.         *)
LEMMA ClientPollReceives == IInv /\ ClientPoll => Receives(client, client')
<1> SUFFICES ASSUME IInv, ClientPoll
             PROVE  Receives(client, client')
  OBVIOUS
<1>1. PICK ev \in SUBSET client.armed, r \in CP!RecvOutcomes(client, FakeLen) :
        /\ ev # {} /\ CP!Alive(client)
        /\ client' = CP!DoHandle(client, ev, r, 0, TRUE).c
  <2>1. PICK ev \in (SUBSET (client.armed \cap C!ReadyEvents(client))) \ {{}},
             r \in C!RecvOutcomes(client, FakeLen) :
          /\ C!Alive(client)
          /\ client' = C!DoHandle(client, ev, r, 0, TRUE).c
    BY Zenon DEF ClientPoll
  <2>2. /\ r \in CP!RecvOutcomes(client, FakeLen) /\ CP!Alive(client)
        /\ client' = CP!DoHandle(client, ev, r, 0, TRUE).c
    BY <2>1, ClientBasics, ClientEvents, Zenon
  <2>3. ev \in SUBSET client.armed /\ ev # {}
    BY <2>1
  <2>4. QED
    BY <2>2, <2>3
<1>2. GoodClient(client) /\ CP!Good(client)
  BY DEF IInv, GoodClient
<1>3. CP!Ready(client) /\ ev \in SUBSET CP!Events /\ "OUT" \notin ev
  <2>1. client.armed # {} /\ client.armed \subseteq CP!Events /\ "OUT" \notin client.armed
    BY <1>1, <1>2, ClientTypes DEF GoodClient
  <2>2. client.fd
    BY <1>2, <2>1, ClientTypes
  <2>3. QED
    BY <1>2, <2>1, <2>2 DEF GoodClient
<1> DEFINE read == CP!OnlyIn(client, ev, r)
<1>4. client' = read.c \/ CP!Ended(read.c, client')
  <2>1. r \in CP!RecvOutcomes(client, CP!ReadRoom(client))
    BY DEF CP!ReadRoom
  <2>2. QED
    BY <1>1, <1>2, <1>3, <2>1, Params, CP!EventWithoutOut, Zenon
<1>5. /\ GoodClient(read.c) /\ CP!OnlyReads(client, read.c)
      /\ SmallReads => CP!CopiedInside(client, read.c)
  <2>1. CASE "IN" \in ev
    <3>1. read = CP!DoRead(client, r, TRUE)
      BY <2>1 DEF CP!Read, CP!OnlyIn
    <3>2. QED
      BY <1>2, <1>3, <3>1, ClientReadStep
  <2>2. CASE "IN" \notin ev
    <3>1. read.c = client
      BY <2>2 DEF CP!Result, CP!OnlyIn
    <3> HIDE DEF read
    <3>2. QED
      BY <1>2, <3>1 DEF CP!OnlyReads, CP!CopiedInside
  <2>3. QED
    BY <2>1, <2>2
<1> HIDE DEF read
<1>6. CASE client' = read.c
  BY <1>5, <1>6 DEF Receives, CP!OnlyReads, CP!Alive
<1>7. ASSUME NEW e \in CP!Errors, client' = CP!OnSocketErr(read.c, e)
      PROVE  Receives(client, client')
  <2>1. CP!Alive(read.c)
    BY <1>1, <1>5 DEF CP!Alive, CP!OnlyReads
  <2>2. /\ GoodClient(client') /\ ~CP!Alive(client') /\ client'.wire = read.c.wire
        /\ client'.rx = <<>> /\ client'.rxLen = read.c.rxLen
    BY <1>5, <1>7, <2>1, ClientGone
  <2>3. Len(client'.rx) = 0 /\ client.rxLen \in Nat
    BY <1>2, <2>2, ClientTypes, NothingYet
  <2>4. client'.wire = client.wire
    BY <1>5, <2>2 DEF CP!OnlyReads
  <2>5. QED
    BY <2>2, <2>3, <2>4 DEF Receives, CP!CopiedInside
<1>8. QED
  BY <1>4, <1>6, <1>7 DEF CP!Ended

LEMMA ClientPollIInv == IInv /\ ClientPoll => IInv'
<1> SUFFICES ASSUME IInv, ClientPoll
             PROVE  IInv'
  OBVIOUS
<1>1. UNCHANGED <<server, sent, atServer, atClient>>
  BY DEF ClientPoll
<1>2. QED
  BY <1>1, ClientPollReceives, ReceivesIInv DEF IInv

LEMMA StopClientReceives == IInv /\ StopClient => Receives(client, client')
<1> SUFFICES ASSUME IInv, StopClient
             PROVE  Receives(client, client')
  OBVIOUS
<1>1. CP!Alive(client) /\ client' = [CP!Reset(client) EXCEPT !.life = "deleted"]
  BY ClientBasics, Zenon DEF StopClient
<1>2. client' = CP!OnSocketErr(client, "SYS_ERR")
  BY <1>1 DEF CP!OnSocketErr
<1>3. GoodClient(client)
  BY DEF IInv
<1>4. QED
  BY <1>1, <1>2, <1>3, GoneReceives DEF CP!Errors

LEMMA StopClientIInv == IInv /\ StopClient => IInv'
<1> SUFFICES ASSUME IInv, StopClient
             PROVE  IInv'
  OBVIOUS
<1>1. UNCHANGED <<server, sent, atServer, atClient>>
  BY DEF StopClient
<1>2. QED
  BY <1>1, StopClientReceives, ReceivesIInv DEF IInv

-----------------------------------------------------------------------------
(* The server's steps.                                                     *)

(* A step that leaves the client alone.                                    *)
LEMMA ServerSide ==
    ASSUME IInv, GoodServer(server'), UNCHANGED <<client, sent, atClient>>,
           atServer' \in Nat, atServer' = atServer \/ atServer' <= Len(client.wire),
           Modest /\ SP!Alive(server') => ServerStream' /\ EchoStream'
    PROVE  IInv'
<1>1. GoodClient(client') /\ sent' \in Seq(Nat) /\ Run(sent', 0) /\ atClient' \in Nat
  BY DEF IInv
<1>2. ASSUME Modest
      PROVE  ClientStream'
  <2>1. ClientStream
    BY <1>2 DEF IInv
  <2>2. QED
    BY <2>1 DEF ClientStream, Run
<1>3. QED
  BY <1>1, <1>2 DEF IInv, Modest

(* Of a server that has gone nothing is said.                              *)
LEMMA ServerEnds ==
    ASSUME IInv, Gone(server, server'), UNCHANGED <<client, sent, atServer, atClient>>
    PROVE  IInv'
<1>1. GoodServer(server') /\ ~SP!Alive(server') /\ atServer' \in Nat
  BY DEF IInv, Gone
<1>2. QED
  BY <1>1, ServerSide

(* d is c after an event that has brought nothing whole, or after one that *)
(* has brought the block m: it is written back, or something has gone      *)
(* wrong.                                                                  *)
Stays(c, d) == GoodServer(d) /\ SP!Alive(d) /\ d.link = c.link

Idles(c, d) ==
    /\ Stays(c, d) /\ (c.err # "NO_ERR" => d.err # "NO_ERR")
    /\ d.rx \o d.inbox = c.rx \o c.inbox /\ d.wire = c.wire /\ d.tx = c.tx

Echoes(c, d, m) ==
    /\ Stays(c, d)
    /\ Len(m) = ReadLen /\ m \o (d.rx \o d.inbox) = c.rx \o c.inbox
    /\ Modest =>
         \/ d.wire \o d.tx = (c.wire \o c.tx) \o m /\ d.err = c.err
         \/ d.wire \o d.tx = c.wire \o c.tx /\ Failed(d)

Handled(c, d) == Gone(c, d) \/ Idles(c, d) \/ \E m \in Seq(Nat) : Echoes(c, d, m)

(* The reply to what was read.                                              *)
LEMMA ReplyGood ==
    ASSUME NEW c, GoodServer(c), SP!Alive(c), c.fd, NEW read, SP!ReadsWhole(c, read), read.ret >= 0,
           NEW k \in SP!SendOutcomes(c, Len(c.tx)), NEW ok \in BOOLEAN,
           NEW j \in SP!SendOutcomes(c, ReadLen)
    PROVE  LET w == SP!WriteMsg(read.c, read.msg, k, ok, j)
           IN  /\ GoodServer(read.c)
               /\ read.ret > 0 => /\ SP!WritesWhole(read.c, w, read.msg) /\ GoodServer(w.c)
                                  /\ SP!Alive(w.c)
<1> DEFINE w == SP!WriteMsg(read.c, read.msg, k, ok, j)
<1>1. /\ SP!Good(read.c) /\ SP!Alive(read.c) /\ SP!OnlyReads(c, read.c) /\ SP!Ready(read.c)
      /\ read.msg \in Seq(Nat) /\ (read.ret > 0 => Len(read.msg) = ReadLen) /\ read.ret \in Int
  <2>1. read.ret \in Int
    BY Zenon DEF SP!ReadsWhole
  <2>2. ~(read.ret < 0)
    BY <2>1
  <2>3. QED
    BY <2>1, <2>2, Zenon DEF SP!ReadsWhole
<1>2. read.c.txLen >= InitLen
  BY <1>1 DEF GoodServer, SP!OnlyReads
<1>3. GoodServer(read.c)
  BY <1>1, <1>2 DEF GoodServer
<1>4. ASSUME read.ret > 0
      PROVE  SP!WritesWhole(read.c, w, read.msg)
  <2>1. read.c.tx = c.tx /\ read.c.link = c.link /\ Len(read.msg) = ReadLen
    BY <1>1, <1>4 DEF SP!OnlyReads
  <2>2. /\ k \in SP!SendOutcomes(read.c, Len(read.c.tx))
        /\ j \in SP!SendOutcomes(read.c, Len(read.msg))
    BY <2>1 DEF SP!SendOutcomes
  <2>3. QED
    BY <1>1, <1>2, <2>2, Params, SP!WriteMsgWhole
<1> HIDE DEF w
<1>5. ASSUME read.ret > 0
      PROVE  GoodServer(w.c) /\ SP!Alive(w.c)
  BY <1>1, <1>4, <1>5 DEF SP!WritesWhole, GoodServer, SP!OnlySends, SP!Alive
<1>6. QED
  BY <1>3, <1>4, <1>5 DEF w

LEMMA Streams ==
    ASSUME NEW c, SP!Good(c)
    PROVE  /\ c.rx \o c.inbox \in Seq(Nat) /\ c.wire \o c.tx \in Seq(Nat)
           /\ Len(c.rx \o c.inbox) = Len(c.rx) + Len(c.inbox)
           /\ Len(c.rx) \in Nat /\ Len(c.inbox) \in Nat
BY ServerTypes, Joined, Elements

LEMMA TakenIs ==
    ASSUME NEW n \in Nat, NEW c, SP!Good(c)
    PROVE  /\ n - Len(c.inbox) - Len(c.rx) = n - Len(c.rx \o c.inbox)
           /\ Len(c.rx \o c.inbox) \in Nat
<1>1. \A i, j \in Nat : n - i - j = n - (j + i) /\ j + i \in Nat
  OBVIOUS
<1>2. /\ Len(c.rx \o c.inbox) = Len(c.rx) + Len(c.inbox)
      /\ Len(c.rx) \in Nat /\ Len(c.inbox) \in Nat
  BY Streams, Zenon
<1>3. QED
  BY <1>1, <1>2, Zenon

(* What the receiver takes off the front of what has arrived, it writes    *)
(* back after what it wrote before, or something has gone wrong.           *)
LEMMA TakesBlock ==
    ASSUME IInv, Modest, SP!Alive(server), SP!Good(server'), atServer' = atServer,
           NEW m \in Seq(Nat), Len(m) = ReadLen, m \o Arrived' = Arrived,
           \/ Echoed' = Echoed \o m /\ (~Failed(server') => ~Failed(server))
           \/ Echoed' = Echoed /\ Failed(server')
    PROVE  /\ ServerStream' /\ EchoStream'
           /\ Taken' = Taken + ReadLen /\ Taken' <= atServer /\ Run(m, Taken)
<1>1. /\ ServerStream /\ EchoStream /\ SP!Good(server) /\ atServer \in Nat
  BY DEF IInv, GoodServer
<1>2. /\ Arrived \in Seq(Nat) /\ Echoed \in Seq(Nat) /\ Taken = atServer - Len(Arrived)
      /\ Arrived' \in Seq(Nat) /\ Taken' = atServer - Len(Arrived')
      /\ Len(Arrived) \in Nat /\ Len(Arrived') \in Nat
  <2>1. Arrived \in Seq(Nat) /\ Echoed \in Seq(Nat) /\ Arrived' \in Seq(Nat)
    BY <1>1, Streams, Zenon DEF Arrived, Echoed
  <2>2. Taken = atServer - Len(Arrived) /\ Len(Arrived) \in Nat
    BY <1>1, TakenIs, Zenon DEF Arrived, Taken
  <2>3. Taken' = atServer - Len(Arrived') /\ Len(Arrived') \in Nat
    BY <1>1, TakenIs, Zenon DEF Arrived, Taken
  <2>4. QED
    BY <2>1, <2>2, <2>3, Zenon
<1>3. Taken' = Taken + ReadLen
  <2>1. Len(Arrived) = Len(m) + Len(Arrived')
    BY <1>2, Joined
  <2>2. ReadLen \in Nat
    BY PairAssumption
  <2>3. QED
    BY <1>1, <1>2, <2>1, <2>2
<1>4. /\ Taken \in Nat /\ Taken % ReadLen = 0 /\ Run(m \o Arrived', Taken)
      /\ Blocks(Echoed) /\ \A i \in DOMAIN Echoed : Echoed[i] <= Taken
  <2>1. Taken \in Nat /\ Taken % ReadLen = 0 /\ Run(Arrived, Taken)
    BY <1>1 DEF ServerStream
  <2>2. Blocks(Echoed) /\ \A i \in DOMAIN Echoed : Echoed[i] <= Taken
    BY <1>1 DEF EchoStream
  <2>3. QED
    BY <2>1, <2>2, Zenon
<1>5. /\ Taken + ReadLen \in Nat /\ (Taken + ReadLen) % ReadLen = 0
      /\ Run(Arrived', Taken + ReadLen) /\ Run(m, Taken)
      /\ \A i \in DOMAIN Echoed : Echoed[i] <= Taken + ReadLen
      /\ Blocks(Echoed \o m) /\ \A i \in DOMAIN (Echoed \o m) : (Echoed \o m)[i] <= Taken + ReadLen
      /\ Len(Echoed) = Taken /\ Run(Echoed, 0) =>
           Len(Echoed \o m) = Taken + ReadLen /\ Run(Echoed \o m, 0)
  <2> HIDE DEF Taken, Echoed, Arrived
  <2>1. ASSUME NEW t \in Nat, NEW e \in Seq(Nat), NEW a \in Seq(Nat), t % ReadLen = 0,
               Run(m \o a, t), Blocks(e), \A i \in DOMAIN e : e[i] <= t
        PROVE  /\ t + ReadLen \in Nat /\ (t + ReadLen) % ReadLen = 0 /\ Run(a, t + ReadLen)
               /\ Run(m, t)
               /\ \A i \in DOMAIN e : e[i] <= t + ReadLen
               /\ Blocks(e \o m) /\ \A i \in DOMAIN (e \o m) : (e \o m)[i] <= t + ReadLen
               /\ Len(e) = t /\ Run(e, 0) =>
                    Len(e \o m) = t + ReadLen /\ Run(e \o m, 0)
    BY <2>1, BlockEchoed, Zenon
  <2>2. QED
    BY <1>2, <1>4, <2>1, Zenon
<1>6. ServerStream'
  <2>1. Taken' \in Nat /\ Taken' % ReadLen = 0 /\ Run(Arrived', Taken')
    BY <1>3, <1>5
  <2>2. QED
    BY <2>1 DEF ServerStream, Run
<1>7. EchoStream'
  <2>1. /\ Blocks(Echoed') /\ \A i \in DOMAIN Echoed' : Echoed'[i] <= Taken'
        /\ ~Failed(server') => Len(Echoed') = Taken' /\ Run(Echoed', 0)
    <3>1. CASE Echoed' = Echoed /\ Failed(server')
      BY <1>3, <1>4, <1>5, <3>1
    <3>2. CASE Echoed' = Echoed \o m /\ (~Failed(server') => ~Failed(server))
      <4>1. ~Failed(server) => Len(Echoed) = Taken /\ Run(Echoed, 0)
        BY <1>1 DEF EchoStream
      <4>2. QED
        BY <1>3, <1>5, <3>2, <4>1
    <3>3. QED
      BY <3>1, <3>2
  <2>2. QED
    BY <2>1 DEF EchoStream, Blocks, Run, Failed
<1>8. Taken' <= atServer
  <2> HIDE DEF Arrived, Taken
  <2>1. \A n, l \in Nat : n - l <= n
    OBVIOUS
  <2>2. QED
    BY <1>1, <1>2, <2>1, Zenon
<1>9. QED
  BY <1>3, <1>5, <1>6, <1>7, <1>8, Zenon

(* An event that brings nothing whole leaves everything where it was.      *)
LEMMA TakesNothing ==
    ASSUME IInv, Modest, SP!Alive(server), atServer' = atServer, SP!Good(server'),
           Arrived' = Arrived, Echoed' = Echoed, ~Failed(server') => ~Failed(server)
    PROVE  ServerStream' /\ EchoStream' /\ Taken' = Taken
<1>1. ServerStream /\ EchoStream /\ SP!Good(server) /\ atServer \in Nat
  BY DEF IInv, GoodServer
<1>2. Taken' = Taken
  <2>1. Taken = atServer - Len(Arrived)
    BY <1>1, TakenIs, Zenon DEF Arrived, Taken
  <2>2. Taken' = atServer - Len(Arrived')
    BY <1>1, TakenIs, Zenon DEF Arrived, Taken
  <2>3. QED
    BY <2>1, <2>2, Zenon
<1>3. QED
  BY <1>1, <1>2, Zenon DEF ServerStream, EchoStream, Blocks, Run, Failed

LEMMA ServerInHandled ==
    ASSUME IInv, NEW ev, NEW r \in S!RecvOutcomes(server, S!ReadRoom(server)), server.fd,
           "ERR" \in ev => server.link = "broken", ServerIn(ev, r)
    PROVE  Handled(server, server')
<1> DEFINE read == SP!Read(server, r)
<1>1. GoodServer(server) /\ SP!Good(server) /\ SP!Ready(server)
  BY DEF IInv, GoodServer
<1>2. r \in SP!RecvOutcomes(server, SP!ReadRoom(server)) /\ SP!Alive(server)
  BY ServerBasics, ServerReads, Zenon DEF ServerIn
<1>3. PICK ok \in BOOLEAN, k \in SP!SendOutcomes(server, Len(server.tx)),
           j \in SP!SendOutcomes(server, ReadLen) :
        server' = Echo(ev, read, k, ok, j)
  <2>1. PICK ok \in CtlOutcomes, k \in S!SendOutcomes(server, Len(server.tx)),
             j \in S!SendOutcomes(server, ReadLen) :
          server' = Echo(ev, S!Read(server, r), k, ok, j)
    BY Zenon DEF ServerIn
  <2>2. /\ k \in SP!SendOutcomes(server, Len(server.tx)) /\ j \in SP!SendOutcomes(server, ReadLen)
        /\ S!Read(server, r) = read
    BY ServerBasics, ServerReads, Zenon
  <2>3. ok \in BOOLEAN
    BY PairAssumption
  <2>4. QED
    BY <2>1, <2>2, <2>3, Zenon
<1> DEFINE w == SP!WriteMsg(read.c, read.msg, k, ok, j)
           reply == IF read.ret > 0 THEN w.c ELSE read.c
<1>4. IF read.ret < 0 THEN server' = SP!OnSocketErr(read.c, "READ_FAIL")
      ELSE IF "ERR" \in ev THEN server' = SP!OnSocketErr(reply, "UNKNOWN_EVENT")
      ELSE server' = reply
  BY <1>3, ServerBasics, ServerSends, Zenon DEF Echo, Reply
<1>5. SP!ReadsWhole(server, read)
  BY <1>1, <1>2, Params, SP!ReadWhole, Zenon
<1> HIDE DEF read
<1>6. CASE read.ret < 0
  <2>1. SP!Good(read.c) /\ SP!Alive(read.c) /\ read.c.wire = server.wire
    BY <1>5, <1>6, Zenon DEF SP!ReadsWhole
  <2>2. read.c.txLen >= server.txLen
    BY <1>1, <1>2, Params, SP!ReadHandles DEF SP!Handles, read
  <2>3. /\ server.txLen >= InitLen /\ server.txLen \in Nat /\ read.c.txLen \in Nat
        /\ InitLen \in Nat
    BY <1>1, <2>1, ServerTypes, PairAssumption DEF GoodServer
  <2>4. ~read.c.fd
    BY <1>5, <1>6, <2>1, ServerTypes, Zenon DEF SP!ReadsWhole
  <2>5. GoodServer(read.c)
    BY <2>1, <2>2, <2>3, <2>4 DEF GoodServer
  <2>6. Gone(read.c, server')
    BY <1>4, <1>6, <2>1, <2>5, ServerGone DEF SP!Errors
  <2>7. QED
    BY <2>1, <2>6 DEF Gone, Handled
<1>7. CASE ~(read.ret < 0)
  <2>1. /\ read.ret \in Int /\ read.ret >= 0 /\ SP!OnlyReads(server, read.c)
        /\ SP!Good(read.c) /\ SP!Alive(read.c) /\ read.msg \in Seq(Nat)
        /\ read.msg \o (read.c.rx \o read.c.inbox) = server.rx \o server.inbox
    <3>1. read.ret \in Int
      BY <1>5, Zenon DEF SP!ReadsWhole
    <3>2. read.ret >= 0
      BY <1>7, <3>1
    <3>3. QED
      BY <1>5, <1>7, <3>1, <3>2, Zenon DEF SP!ReadsWhole
  <2>2. /\ GoodServer(read.c)
        /\ read.ret > 0 => /\ SP!WritesWhole(read.c, w, read.msg) /\ GoodServer(w.c)
                           /\ SP!Alive(w.c)
    BY <1>1, <1>2, <1>5, <2>1, ReplyGood
  <2>3. GoodServer(reply) /\ SP!Alive(reply)
    BY <2>1, <2>2
  <2> HIDE DEF w
  <2>4. /\ read.c.link = server.link /\ read.c.wire = server.wire /\ read.c.tx = server.tx
        /\ server.err # "NO_ERR" => read.c.err # "NO_ERR"
    BY <2>1 DEF SP!OnlyReads
  <2>5. CASE "ERR" \in ev
    <3>1. Gone(reply, server')
      BY <1>4, <1>7, <2>3, <2>5, ServerGone DEF SP!Errors
    <3>2. reply.wire = server.wire
      <4>1. CASE read.ret > 0
        <5>1. read.c.link \notin {"up", "eof"}
          BY <2>4, <2>5
        <5>2. w.c.wire = read.c.wire
          BY <2>2, <4>1, <5>1 DEF SP!WritesWhole
        <5>3. QED
          BY <2>4, <4>1, <5>2
      <4>2. CASE ~(read.ret > 0)
        BY <2>4, <4>2
      <4>3. QED
        BY <4>1, <4>2
    <3>3. QED
      BY <3>1, <3>2 DEF Gone, Handled
  <2>6. CASE "ERR" \notin ev /\ ~(read.ret > 0)
    <3>1. server' = read.c
      BY <1>4, <1>7, <2>6
    <3>2. read.msg = <<>>
      BY <1>5, <2>6, Zenon DEF SP!ReadsWhole
    <3>3. read.c.rx \o read.c.inbox = server.rx \o server.inbox
      <4>1. read.c.rx \o read.c.inbox \in Seq(Nat)
        BY <2>1, Streams, Zenon
      <4>2. <<>> \o (read.c.rx \o read.c.inbox) = read.c.rx \o read.c.inbox
        BY <4>1, ConcatEmptySeq
      <4>3. QED
        BY <2>1, <3>2, <4>2, Zenon
    <3>4. QED
      BY <2>1, <2>2, <2>4, <3>1, <3>3, Zenon DEF Idles, Stays, Handled
  <2>7. CASE "ERR" \notin ev /\ read.ret > 0
    <3>1. server' = w.c
      BY <1>4, <1>7, <2>7
    <3>2. Len(read.msg) = ReadLen /\ read.c.err = server.err
      BY <1>5, <2>7, Zenon DEF SP!ReadsWhole
    <3>3. /\ SP!OnlySends(read.c, w.c) /\ w.ret \in Int
          /\ w.ret >= 0 => w.c.err = read.c.err
          /\ IF read.c.link \in {"up", "eof"} THEN w.ret < 0 => w.c.err # "NO_ERR"
             ELSE w.c.wire = read.c.wire
          /\ Len(read.msg) <= SP!Cap =>
               w.c.wire \o w.c.tx =
                 (read.c.wire \o read.c.tx) \o (IF w.ret >= 0 THEN read.msg ELSE <<>>)
      BY <2>2, <2>7, Zenon DEF SP!WritesWhole
    <3>4. /\ server'.link = server.link
          /\ server'.rx = read.c.rx /\ server'.inbox = read.c.inbox
      BY <2>4, <3>1, <3>3 DEF SP!OnlySends
    <3>5. read.msg \o (server'.rx \o server'.inbox) = server.rx \o server.inbox
      BY <2>1, <3>4, Zenon
    <3>6. ASSUME Modest
          PROVE  \/ /\ server'.wire \o server'.tx = (server.wire \o server.tx) \o read.msg
                    /\ server'.err = server.err
                 \/ server'.wire \o server'.tx = server.wire \o server.tx /\ Failed(server')
      <4>1. server'.wire \o server'.tx =
              (server.wire \o server.tx) \o (IF w.ret >= 0 THEN read.msg ELSE <<>>)
        <5>1. Len(read.msg) <= SP!Cap
          BY <3>2, <3>6 DEF Modest
        <5>2. QED
          BY <2>4, <3>1, <3>3, <5>1, Zenon
      <4>2. CASE w.ret >= 0
        BY <3>1, <3>2, <3>3, <4>1, <4>2, Zenon
      <4>3. CASE ~(w.ret >= 0)
        <5>1. w.ret < 0
          BY <3>3, <4>3
        <5>2. (server.wire \o server.tx) \o <<>> = server.wire \o server.tx
          <6>1. server.wire \o server.tx \in Seq(Nat)
            BY <1>1, Streams
          <6>2. QED
            BY <6>1, ConcatEmptySeq
        <5>3. Failed(server')
          BY <2>4, <3>1, <3>3, <3>4, <5>1, Zenon DEF Failed
        <5>4. QED
          BY <4>1, <4>3, <5>2, <5>3, Zenon
      <4>4. QED
        BY <4>2, <4>3
    <3>7. Echoes(server, server', read.msg)
      BY <2>2, <2>7, <3>1, <3>2, <3>4, <3>5, <3>6, Zenon DEF Echoes, Stays
    <3>8. QED
      BY <2>1, <3>7, Zenon DEF Handled
  <2>8. QED
    BY <2>5, <2>6, <2>7
<1>8. QED
  BY <1>6, <1>7

LEMMA ServerPollHandled ==
    ASSUME IInv, ServerPoll
    PROVE  /\ SP!Alive(server) /\ Handled(server, server')
           /\ UNCHANGED <<client, sent, atServer, atClient>>
<1>1. PICK ev \in ServerReports :
        \/ \E r \in S!RecvOutcomes(server, S!ReadRoom(server)) : ServerIn(ev, r)
        \/ /\ S!Alive(server) /\ "IN" \notin ev
           /\ server' = S!OnSocketErr(server, "UNKNOWN_EVENT")
           /\ UNCHANGED <<client, sent, atServer, atClient>>
  BY Zenon DEF ServerPoll
<1>2. GoodServer(server) /\ server.fd /\ ("ERR" \in ev => server.link = "broken")
  <2>1. ev # {} /\ ev \subseteq server.armed /\ ev \subseteq S!ReadyEvents(server)
    BY DEF ServerReports
  <2>2. SP!Good(server) /\ GoodServer(server)
    BY DEF IInv, GoodServer
  <2>3. "ERR" \in S!ReadyEvents(server) => server.link = "broken"
    BY DEF S!ReadyEvents
  <2>4. server.fd
    BY <2>1, <2>2, ServerTypes
  <2>5. QED
    BY <2>1, <2>2, <2>3, <2>4
<1>3. CASE \E r \in S!RecvOutcomes(server, S!ReadRoom(server)) : ServerIn(ev, r)
  <2>1. PICK r \in S!RecvOutcomes(server, S!ReadRoom(server)) : ServerIn(ev, r)
    BY <1>3
  <2>2. Handled(server, server')
    BY <1>2, <2>1, ServerInHandled
  <2>3. SP!Alive(server) /\ UNCHANGED <<client, sent, atServer, atClient>>
    BY <2>1, ServerBasics, Zenon DEF ServerIn
  <2>4. QED
    BY <2>2, <2>3
<1>4. CASE /\ S!Alive(server) /\ server' = S!OnSocketErr(server, "UNKNOWN_EVENT")
           /\ UNCHANGED <<client, sent, atServer, atClient>>
  <2>1. SP!Alive(server) /\ server' = SP!OnSocketErr(server, "UNKNOWN_EVENT")
    BY <1>4, ServerBasics, Zenon
  <2>2. Gone(server, server')
    BY <1>2, <2>1, ServerGone DEF SP!Errors
  <2>3. QED
    BY <1>4, <2>1, <2>2 DEF Handled
<1>5. QED
  BY <1>1, <1>3, <1>4

(* What an event does to the streams, and how much it takes.               *)
LEMMA IdlesStreams ==
    ASSUME IInv, Modest, SP!Alive(server), Idles(server, server'), atServer' = atServer
    PROVE  ServerStream' /\ EchoStream' /\ Taken' = Taken /\ Echoed' = Echoed
<1>1. SP!Good(server') /\ (~Failed(server') => ~Failed(server))
  BY DEF Idles, Stays, GoodServer, Failed
<1>2. Arrived' = Arrived /\ Echoed' = Echoed
  BY Zenon DEF Idles, Arrived, Echoed
<1>3. QED
  BY <1>1, <1>2, TakesNothing

LEMMA EchoesStreams ==
    ASSUME IInv, Modest, SP!Alive(server), atServer' = atServer,
           NEW m \in Seq(Nat), Echoes(server, server', m)
    PROVE  /\ ServerStream' /\ EchoStream'
           /\ Taken' = Taken + ReadLen /\ Taken' <= atServer /\ Run(m, Taken)
           /\ \/ Echoed' = Echoed \o m /\ (Failed(server') <=> Failed(server))
              \/ Echoed' = Echoed /\ Failed(server')
<1>1. SP!Good(server') /\ Len(m) = ReadLen /\ m \o Arrived' = Arrived
  BY DEF Echoes, Stays, GoodServer, Arrived
<1>2. \/ Echoed' = Echoed \o m /\ (Failed(server') <=> Failed(server))
      \/ Echoed' = Echoed /\ Failed(server')
  BY Zenon DEF Echoes, Stays, Failed, Echoed
<1>3. QED
  BY <1>1, <1>2, TakesBlock

LEMMA ServerPollIInv == IInv /\ ServerPoll => IInv'
<1> SUFFICES ASSUME IInv, ServerPoll
             PROVE  IInv'
  OBVIOUS
<1>1. /\ SP!Alive(server) /\ Handled(server, server') /\ atServer' \in Nat
      /\ UNCHANGED <<client, sent, atServer, atClient>>
  BY ServerPollHandled DEF IInv
<1>2. CASE Gone(server, server')
  BY <1>1, <1>2, ServerEnds
<1>3. CASE Idles(server, server')
  <2>1. GoodServer(server') /\ (Modest => ServerStream' /\ EchoStream')
    BY <1>1, <1>3, IdlesStreams DEF Idles, Stays
  <2>2. QED
    BY <1>1, <2>1, ServerSide
<1>4. ASSUME NEW m \in Seq(Nat), Echoes(server, server', m)
      PROVE  IInv'
  <2>1. GoodServer(server') /\ (Modest => ServerStream' /\ EchoStream')
    BY <1>1, <1>4, EchoesStreams DEF Echoes, Stays
  <2>2. QED
    BY <1>1, <2>1, ServerSide
<1>5. QED
  BY <1>1, <1>2, <1>3, <1>4 DEF Handled
-----------------------------------------------------------------------------
(* The network.                                                            *)

(* A byte that comes to an end joins what it has in its kernel.            *)
LEMMA ServerGets ==
    ASSUME NEW c, GoodServer(c), NEW x \in Nat
    PROVE  GoodServer([c EXCEPT !.inbox = Append(@, x)])
<1> DEFINE b == Append(c.inbox, x)
           d == [c EXCEPT !.inbox = b]
<1>1. SP!Good(c) /\ c \in SP!Sockets /\ c.inbox \in Seq(Nat)
  BY ServerTypes DEF GoodServer
<1>2. b \in Seq(Nat)
  BY <1>1, AppendProperties
<1>3. [c EXCEPT !.inbox = Append(@, x)] = d
  BY <1>1 DEF SP!Sockets
<1> HIDE DEF b
<1>4. /\ d \in SP!Sockets /\ d.state = c.state /\ d.fd = c.fd /\ d.armed = c.armed
      /\ d.link = c.link /\ d.tx = c.tx /\ d.txLen = c.txLen /\ d.rx = c.rx /\ d.rxLen = c.rxLen
      /\ d.life = c.life
  BY <1>1, <1>2 DEF SP!Sockets
<1> HIDE DEF d
<1>5. SP!Good(d)
  BY <1>1, <1>4, Params, SP!SameGood
<1>6. QED
  BY <1>3, <1>4, <1>5 DEF GoodServer, SP!Ready, SP!Alive

LEMMA ClientGets ==
    ASSUME NEW c, GoodClient(c), NEW x \in Nat
    PROVE  Receives(c, [c EXCEPT !.inbox = Append(@, x)])
<1> DEFINE b == Append(c.inbox, x)
           d == [c EXCEPT !.inbox = b]
<1>1. CP!Good(c) /\ c \in CP!Sockets /\ c.inbox \in Seq(Nat)
  BY ClientTypes DEF GoodClient
<1>2. b \in Seq(Nat)
  BY <1>1, AppendProperties
<1>3. [c EXCEPT !.inbox = Append(@, x)] = d
  BY <1>1 DEF CP!Sockets
<1> HIDE DEF b
<1>4. /\ d \in CP!Sockets /\ d.state = c.state /\ d.fd = c.fd /\ d.armed = c.armed
      /\ d.link = c.link /\ d.tx = c.tx /\ d.txLen = c.txLen /\ d.rx = c.rx /\ d.rxLen = c.rxLen
      /\ d.wire = c.wire /\ d.life = c.life
  BY <1>1, <1>2 DEF CP!Sockets
<1> HIDE DEF d
<1>5. CP!Good(d)
  BY <1>1, <1>4, Params, CP!SameGood
<1>6. GoodClient(d)
  BY <1>4, <1>5 DEF GoodClient, CP!Ready, CP!Inside
<1>7. QED
  BY <1>3, <1>4, <1>6 DEF Receives, CP!CopiedInside, CP!Alive

LEMMA ForthStreams ==
    ASSUME IInv, Forth
    PROVE  /\ GoodServer(server') /\ atServer' \in Nat /\ atServer' <= Len(client.wire)
           /\ SP!Alive(server') <=> SP!Alive(server)
           /\ Failed(server') <=> Failed(server)
           /\ Echoed' = Echoed
           /\ Modest /\ SP!Alive(server) => ServerStream' /\ EchoStream' /\ Taken' = Taken
<1> DEFINE x == client.wire[atServer + 1]
<1>1. /\ GoodClient(client) /\ GoodServer(server) /\ CP!Good(client) /\ SP!Good(server)
      /\ atServer \in Nat /\ sent \in Seq(Nat) /\ Run(sent, 0)
  BY DEF IInv, GoodClient, GoodServer
<1>2. /\ atServer < Len(client.wire) /\ server' = [server EXCEPT !.inbox = Append(@, x)]
      /\ atServer' = atServer + 1 /\ UNCHANGED <<client, sent, atClient>>
  BY DEF Forth
<1>3. client.wire \in Seq(Nat) /\ atServer + 1 \in 1..Len(client.wire) /\ x \in Nat
  <2>1. client.wire \in Seq(Nat) /\ client.tx \in Seq(Nat)
    BY <1>1, ClientTypes
  <2>2. Len(client.wire) \in Nat
    BY <2>1, Elements
  <2>3. atServer + 1 \in 1..Len(client.wire)
    BY <1>1, <1>2, <2>2
  <2>4. QED
    BY <2>1, <2>3, Elements
<1> HIDE DEF x
<1>4. GoodServer(server')
  BY <1>1, <1>2, <1>3, ServerGets
<1>5. /\ server'.inbox = Append(server.inbox, x) /\ server'.rx = server.rx
      /\ server'.wire = server.wire /\ server'.tx = server.tx /\ server'.err = server.err
      /\ server'.link = server.link /\ server'.life = server.life
  BY <1>1, <1>2, ServerTypes DEF SP!Sockets
<1>6. ASSUME Modest, SP!Alive(server)
      PROVE  ServerStream' /\ EchoStream' /\ Taken' = Taken
  <2>1. ClientStream /\ ServerStream /\ EchoStream
    BY <1>6 DEF IInv
  <2>2. x = atServer + 1
    <3>1. Run(client.wire, 0)
      BY <2>1 DEF ClientStream
    <3>2. DOMAIN client.wire = 1..Len(client.wire)
      BY <1>3, Elements
    <3>3. client.wire[atServer + 1] = 0 + (atServer + 1)
      BY <1>3, <3>1, <3>2, Zenon DEF Run
    <3>4. QED
      BY <1>1, <3>3 DEF x
  <2>3. Arrived \in Seq(Nat) /\ Len(Arrived) \in Nat /\ Taken = atServer - Len(Arrived)
    BY <1>1, Streams, TakenIs, Zenon DEF Arrived, Taken
  <2>4. Taken' = (atServer + 1) - Len(Arrived')
    <3>1. SP!Good(server') /\ atServer + 1 \in Nat /\ atServer' = atServer + 1
      BY <1>1, <1>2, <1>4 DEF GoodServer
    <3>2. QED
      BY <3>1, TakenIs, Zenon DEF Arrived, Taken
  <2>5. Arrived' = Arrived \o <<x>>
    <3>1. server.rx \in Seq(Nat) /\ server.inbox \in Seq(Nat) /\ <<x>> \in Seq(Nat)
      BY <1>1, <1>3, ServerTypes
    <3>2. Append(server.inbox, x) = server.inbox \o <<x>>
      BY <1>3, <3>1, AppendIsConcat
    <3>3. server.rx \o (server.inbox \o <<x>>) = (server.rx \o server.inbox) \o <<x>>
      BY <3>1, Params, CP!Assoc
    <3>4. QED
      BY <1>5, <3>2, <3>3, Zenon DEF Arrived
  <2>6. Taken' = Taken
    <3>1. Len(<<x>>) = 1 /\ <<x>> \in Seq(Nat)
      BY <1>3
    <3>2. Len(Arrived \o <<x>>) = Len(Arrived) + 1
      BY <2>3, <3>1, Joined
    <3>3. Len(Arrived') = Len(Arrived) + 1
      BY <2>5, <3>2, Zenon
    <3> HIDE DEF Arrived, Taken
    <3>4. \A n, l \in Nat : (n + 1) - (l + 1) = n - l
      OBVIOUS
    <3>5. QED
      BY <1>1, <2>3, <2>4, <3>3, <3>4, Zenon
  <2>7. Run(Arrived', Taken)
    <3>1. Taken \in Nat /\ Run(Arrived, Taken)
      BY <2>1 DEF ServerStream
    <3>2. Taken + Len(Arrived) = atServer
      <4> HIDE DEF Arrived, Taken
      <4>1. \A n, l, t \in Nat : t = n - l => t + l = n
        OBVIOUS
      <4>2. QED
        BY <1>1, <2>3, <3>1, <4>1, Zenon
    <3>3. Run(<<x>>, atServer) /\ <<x>> \in Seq(Nat)
      BY <1>1, <1>3, <2>2 DEF Run
    <3>4. Run(Arrived \o <<x>>, Taken)
      BY <2>3, <3>1, <3>2, <3>3, RunJoined
    <3>5. QED
      BY <2>5, <3>4, Zenon
  <2>8. ServerStream'
    <3>1. Taken' \in Nat /\ Taken' % ReadLen = 0
      BY <2>1, <2>6, Zenon DEF ServerStream
    <3>2. Run(Arrived', Taken')
      BY <2>6, <2>7, Zenon
    <3>3. QED
      BY <3>1, <3>2, Zenon DEF ServerStream, Run
  <2>9. EchoStream'
    <3>1. Echoed' = Echoed
      BY <1>5, Zenon DEF Echoed
    <3>2. QED
      BY <1>5, <2>1, <2>6, <3>1, Zenon DEF EchoStream, Blocks, Run, Failed
  <2>10. QED
    BY <2>6, <2>8, <2>9
<1>7. atServer' \in Nat /\ atServer' <= Len(client.wire)
  <2>1. Len(client.wire) \in Nat
    BY <1>3, Elements
  <2>2. QED
    BY <1>1, <1>2, <2>1
<1>8. /\ SP!Alive(server') <=> SP!Alive(server)
      /\ Failed(server') <=> Failed(server)
      /\ Echoed' = Echoed
  BY <1>5, Zenon DEF SP!Alive, Failed, Echoed
<1>9. QED
  BY <1>4, <1>6, <1>7, <1>8

LEMMA ForthIInv == IInv /\ Forth => IInv'
<1> SUFFICES ASSUME IInv, Forth
             PROVE  IInv'
  OBVIOUS
<1>1. UNCHANGED <<client, sent, atClient>>
  BY DEF Forth
<1>2. QED
  BY <1>1, ForthStreams, ServerSide

LEMMA BackReceives == IInv /\ Back => Receives(client, client') /\ atClient' \in Nat
<1> SUFFICES ASSUME IInv, Back
             PROVE  Receives(client, client') /\ atClient' \in Nat
  OBVIOUS
<1> DEFINE x == server.wire[atClient + 1]
<1>1. GoodClient(client) /\ SP!Good(server) /\ atClient \in Nat
  BY DEF IInv, GoodServer
<1>2. /\ atClient < Len(server.wire) /\ client' = [client EXCEPT !.inbox = Append(@, x)]
      /\ atClient' = atClient + 1
  BY DEF Back
<1>3. x \in Nat
  <2>1. server.wire \in Seq(Nat)
    BY <1>1, ServerTypes
  <2>2. Len(server.wire) \in Nat
    BY <2>1, Elements
  <2>3. atClient + 1 \in 1..Len(server.wire)
    BY <1>1, <1>2, <2>2
  <2>4. QED
    BY <2>1, <2>3, Elements
<1> HIDE DEF x
<1>4. QED
  BY <1>1, <1>2, <1>3, ClientGets

LEMMA BackIInv == IInv /\ Back => IInv'
<1> SUFFICES ASSUME IInv, Back
             PROVE  IInv'
  OBVIOUS
<1>1. UNCHANGED <<server, sent, atServer>>
  BY DEF Back
<1>2. QED
  BY <1>1, BackReceives, ReceivesIInv

(* A connection breaks, or is closed by the peer.                          *)
LEMMA ServerLink ==
    ASSUME NEW c, GoodServer(c), c.link \in {"up", "eof"}, NEW l \in {"eof", "broken"}
    PROVE  LET d == [c EXCEPT !.link = l]
           IN  /\ GoodServer(d) /\ SP!Alive(d) /\ SP!Alive(c) /\ d.link = l
               /\ d.rx = c.rx /\ d.inbox = c.inbox /\ d.wire = c.wire /\ d.tx = c.tx
               /\ d.err = c.err
<1> DEFINE d == [c EXCEPT !.link = l]
<1>1. SP!Good(c) /\ c \in SP!Sockets
  BY ServerTypes DEF GoodServer
<1>2. /\ d \in SP!Sockets /\ d.state = c.state /\ d.fd = c.fd /\ d.armed = c.armed
      /\ d.link = l /\ d.tx = c.tx /\ d.txLen = c.txLen /\ d.rx = c.rx /\ d.rxLen = c.rxLen
      /\ d.life = c.life /\ d.inbox = c.inbox /\ d.wire = c.wire /\ d.err = c.err
  BY <1>1 DEF SP!Sockets, SP!Links
<1> HIDE DEF d
<1>3. SP!Good(d)
  BY <1>1, <1>2 DEF SP!Good, SP!FdMatches, SP!Fresh, SP!Ready, SP!TxHolds, SP!RxHolds
<1>4. QED
  BY <1>2, <1>3 DEF GoodServer, SP!Ready, SP!Alive, d

LEMMA ClientBreaks ==
    ASSUME NEW c, GoodClient(c), c.link # "none"
    PROVE  Receives(c, [c EXCEPT !.link = "broken"])
<1> DEFINE d == [c EXCEPT !.link = "broken"]
<1>1. CP!Good(c) /\ c \in CP!Sockets
  BY ClientTypes DEF GoodClient
<1>2. /\ d \in CP!Sockets /\ d.state = c.state /\ d.fd = c.fd /\ d.armed = c.armed
      /\ d.link = "broken" /\ d.tx = c.tx /\ d.txLen = c.txLen /\ d.rx = c.rx /\ d.rxLen = c.rxLen
      /\ d.wire = c.wire /\ d.life = c.life
  BY <1>1 DEF CP!Sockets, CP!Links
<1> HIDE DEF d
<1>3. CP!Good(d)
  BY <1>1, <1>2 DEF CP!Good, CP!FdMatches, CP!Fresh, CP!Ready, CP!TxHolds, CP!RxHolds
<1>4. GoodClient(d)
  BY <1>2, <1>3 DEF GoodClient, CP!Ready, CP!Inside
<1>5. QED
  BY <1>2, <1>4 DEF Receives, CP!CopiedInside, CP!Alive, d

(* The link of the server changes, and nothing else.                       *)
LEMMA LinkStreams ==
    ASSUME IInv, server.link \in {"up", "eof"}, NEW l \in {"eof", "broken"},
           server' = [server EXCEPT !.link = l], UNCHANGED atServer
    PROVE  /\ GoodServer(server') /\ SP!Alive(server) /\ SP!Alive(server')
           /\ Taken' = Taken /\ Echoed' = Echoed
           /\ IF l = "eof" THEN Failed(server') <=> Failed(server) ELSE Failed(server')
           /\ Modest => ServerStream' /\ EchoStream'
<1>1. /\ GoodServer(server') /\ SP!Alive(server) /\ SP!Alive(server') /\ server'.link = l
      /\ server'.rx = server.rx /\ server'.inbox = server.inbox
      /\ server'.wire = server.wire /\ server'.tx = server.tx /\ server'.err = server.err
  BY ServerLink DEF IInv
<1>2. Taken' = Taken /\ Echoed' = Echoed /\ Arrived' = Arrived
  BY <1>1, Zenon DEF Taken, Echoed, Arrived
<1>3. IF l = "eof" THEN Failed(server') <=> Failed(server) ELSE Failed(server')
  BY <1>1 DEF Failed
<1>4. ASSUME Modest
      PROVE  ServerStream' /\ EchoStream'
  <2>1. SP!Good(server') /\ (~Failed(server') => ~Failed(server)) /\ atServer' = atServer
    BY <1>1, <1>3 DEF GoodServer
  <2>2. QED
    BY <1>1, <1>2, <1>4, <2>1, TakesNothing, Zenon
<1>5. QED
  BY <1>1, <1>2, <1>3, <1>4

LEMMA EndOfStreamIInv == IInv /\ EndOfStream => IInv'
<1> SUFFICES ASSUME IInv, EndOfStream
             PROVE  IInv'
  OBVIOUS
<1>1. /\ server.link = "up" /\ server' = [server EXCEPT !.link = "eof"]
      /\ UNCHANGED <<client, sent, atServer, atClient>> /\ atServer' \in Nat
  BY DEF EndOfStream, IInv
<1>2. GoodServer(server') /\ (Modest => ServerStream' /\ EchoStream')
  BY <1>1, LinkStreams
<1>3. QED
  BY <1>1, <1>2, ServerSide

LEMMA BreakReceives == IInv /\ Break => Receives(client, client') \/ UNCHANGED client
<1> SUFFICES ASSUME IInv, Break
             PROVE  Receives(client, client') \/ UNCHANGED client
  OBVIOUS
<1>1. GoodClient(client)
  BY DEF IInv
<1>2. CASE client.link = "up" /\ client' = [client EXCEPT !.link = "broken"]
  BY <1>1, <1>2, ClientBreaks
<1>3. CASE UNCHANGED client
  BY <1>3
<1>4. QED
  BY <1>2, <1>3 DEF Break

LEMMA BreakIInv == IInv /\ Break => IInv'
<1> SUFFICES ASSUME IInv, Break
             PROVE  IInv'
  OBVIOUS
<1>1. /\ GoodClient(client) /\ atClient \in Nat /\ atServer' \in Nat
      /\ UNCHANGED <<sent, atServer, atClient>>
  BY DEF IInv, Break
<1>2. CASE /\ client.link = "up" /\ client' = [client EXCEPT !.link = "broken"]
           /\ UNCHANGED server
  <2>1. Receives(client, client')
    BY <1>1, <1>2, ClientBreaks
  <2>2. QED
    BY <1>1, <1>2, <2>1, ReceivesIInv
<1>3. CASE /\ server.link \in {"up", "eof"} /\ server' = [server EXCEPT !.link = "broken"]
           /\ UNCHANGED client
  <2>1. GoodServer(server') /\ (Modest => ServerStream' /\ EchoStream')
    BY <1>1, <1>3, LinkStreams
  <2>2. QED
    BY <1>1, <1>3, <2>1, ServerSide
<1>4. QED
  BY <1>2, <1>3 DEF Break

LEMMA StutterIInv == IInv /\ UNCHANGED vars => IInv'
BY DEF vars, IInv, Modest, ClientStream, ServerStream, EchoStream, Arrived, Echoed, Taken,
       Blocks, Run, GoodClient, GoodServer, SmallReads, Failed

LEMMA NextIInv == IInv /\ [Next]_vars => IInv'
BY SendDataIInv, ClientPollIInv, StopClientIInv, ServerPollIInv, ForthIInv, BackIInv,
   EndOfStreamIInv, BreakIInv, StutterIInv DEF Next

(* Every reachable state satisfies the invariant that the other theorems   *)
(* rest on: both sockets are sound; the bytes of the client's stream lie   *)
(* one after the other on its way, also when the client is gone; and as    *)
(* long as there is a server, what it writes back are whole blocks of them. *)
THEOREM PairInvariant == Spec => []IInv
BY InitIInv, NextIInv, PTL DEF Spec
-----------------------------------------------------------------------------
(* Part of the stream, by where it begins and how long it is.              *)
LEMMA RunCut ==
    ASSUME NEW s \in Seq(Nat), Run(s, 0), NEW t \in Nat, NEW n \in Nat, t + n <= Len(s)
    PROVE  LET b == SubSeq(s, t + 1, t + n)
           IN  b \in Seq(Nat) /\ Len(b) = n /\ Run(b, t)
<1> DEFINE b == SubSeq(s, t + 1, t + n)
<1>1. b \in Seq(Nat) /\ Len(b) = n
  OBVIOUS
<1>2. \A i \in 1..n : b[i] = t + i
  <2>1. ASSUME NEW i \in 1..n
        PROVE  b[i] = t + i
    <3>1. b[i] = s[t + i]
      OBVIOUS
    <3>2. t + i \in DOMAIN s
      OBVIOUS
    <3>3. s[t + i] = 0 + (t + i)
      BY <3>2, Zenon DEF Run
    <3>4. QED
      BY <3>1, <3>3
  <2>2. QED
    BY <2>1
<1> HIDE DEF b
<1>3. Run(b, t)
  BY <1>1, <1>2, Elements DEF Run
<1>4. QED
  BY <1>1, <1>3 DEF b

(* While nothing has gone wrong, all that the client has sent and that is  *)
(* not written back is in the server or on its way.                        *)
LEMMA NothingMissing ==
    ASSUME IInv, Modest, SP!Alive(server), ~Failed(server)
    PROVE  Echoed \o server.rx \o server.inbox \o InFlight = client.wire
<1> DEFINE e == Echoed
           x == server.rx
           y == server.inbox
           f == InFlight
           w == client.wire
<1>1. /\ CP!Good(client) /\ SP!Good(server) /\ atServer \in Nat
      /\ ClientStream /\ ServerStream /\ EchoStream
  BY DEF IInv, GoodClient, GoodServer
<1>2. /\ e \in Seq(Nat) /\ x \in Seq(Nat) /\ y \in Seq(Nat) /\ w \in Seq(Nat)
      /\ Len(e) \in Nat /\ Len(x) \in Nat /\ Len(y) \in Nat /\ Len(w) \in Nat
  BY <1>1, ClientTypes, ServerTypes, Streams, Elements DEF Echoed
<1>3. /\ Taken \in Nat /\ Len(e) = Taken /\ Run(e, 0) /\ Run(x \o y, Taken)
      /\ Taken = atServer - Len(y) - Len(x) /\ atServer <= Len(w) /\ Run(w, 0)
  BY <1>1 DEF ServerStream, EchoStream, ClientStream, Arrived, Taken
<1>4. Taken + Len(x) \in Nat /\ (Taken + Len(x)) + Len(y) = atServer
  <2> HIDE DEF Taken, x, y
  <2>1. \A n, i, j, t \in Nat : t = n - j - i => t + i \in Nat /\ (t + i) + j = n
    OBVIOUS
  <2>2. /\ atServer \in Nat /\ Len(x) \in Nat /\ Len(y) \in Nat /\ Taken \in Nat
        /\ Taken = atServer - Len(y) - Len(x)
    BY <1>1, <1>2, <1>3
  <2>3. QED
    BY <2>1, <2>2, Zenon
<1>5. Run(x, Taken) /\ Run(y, Taken + Len(x))
  BY <1>2, <1>3, RunParts
<1>6. f \in Seq(Nat) /\ Len(f) = Len(w) - atServer /\ Run(f, atServer)
  <2> HIDE DEF w
  <2> DEFINE n == Len(w) - atServer
  <2>1. n \in Nat /\ atServer + n = Len(w) /\ atServer + n <= Len(w)
    BY <1>1, <1>2, <1>3
  <2>2. f = SubSeq(w, atServer + 1, atServer + n)
    BY <2>1 DEF InFlight, w
  <2> HIDE DEF f, n
  <2>3. QED
    BY <1>1, <1>2, <1>3, <2>1, <2>2, RunCut, Zenon DEF n
<1> HIDE DEF e, x, y, f, w
<1>7. /\ e \o x \in Seq(Nat) /\ Len(e \o x) = Taken + Len(x) /\ Run(e \o x, 0)
  BY <1>2, <1>3, <1>5, RunExtended, Zenon
<1>8. /\ (e \o x) \o y \in Seq(Nat) /\ Len((e \o x) \o y) = atServer /\ Run((e \o x) \o y, 0)
  BY <1>2, <1>4, <1>5, <1>7, RunExtended, Zenon
<1>9. /\ ((e \o x) \o y) \o f \in Seq(Nat) /\ Len(((e \o x) \o y) \o f) = Len(w)
      /\ Run(((e \o x) \o y) \o f, 0)
  <2>1. atServer + Len(f) = Len(w)
    BY <1>1, <1>2, <1>6
  <2>2. QED
    BY <1>1, <1>6, <1>8, <2>1, RunExtended, Zenon
<1>10. ((e \o x) \o y) \o f = w
  BY <1>2, <1>3, <1>9, RunsEqual
<1>11. QED
  BY <1>10, Zenon DEF e, x, y, f, w

(* What comes back are whole blocks of the client's stream, in order, and  *)
(* none is lost unless something has gone wrong for the server: however    *)
(* WriteMsg, the receiver and the network have divided the bytes, and also *)
(* when the client has gone before all is written (server_service.hpp:     *)
(* 36-71).                                                                 *)
THEOREM EchoFaithful ==
    ASSUME Modest
    PROVE  Spec => []EchoIsFaithful
<1>1. IInv => EchoIsFaithful
  <2> SUFFICES ASSUME IInv
               PROVE  EchoIsFaithful
    OBVIOUS
  <2>1. ASSUME S!Alive(server)
        PROVE  /\ Len(Echoed) % ReadLen = 0
               /\ \A i \in DOMAIN Echoed : (Echoed[i] - i) % ReadLen = 0
               /\ \A i \in 2..Len(Echoed) :
                      \/ Echoed[i] = Echoed[i - 1] + 1
                      \/ (i - 1) % ReadLen = 0 /\ Echoed[i] > Echoed[i - 1]
               /\ ~ServerFailed =>
                      Echoed \o server.rx \o server.inbox \o InFlight = client.wire
    <3>1. SP!Alive(server) /\ (~ServerFailed => ~Failed(server))
      BY <2>1, ServerBasics, Zenon DEF ServerFailed, Failed
    <3>2. Blocks(Echoed)
      BY <3>1 DEF IInv, EchoStream
    <3>3. QED
      BY <3>1, <3>2, NothingMissing, Zenon DEF Blocks
  <2>2. ClientStream /\ sent \in Seq(Nat) /\ CP!Good(client)
    BY DEF IInv, GoodClient
  <2>3. C!Alive(client) => client.wire \o client.tx = sent
    BY <2>2, ClientBasics, Zenon DEF ClientStream
  <2>4. \A i \in DOMAIN client.wire : client.wire[i] = i /\ i <= Len(sent)
    <3>1. client.wire \in Seq(Nat) /\ Len(client.wire) <= Len(sent)
      BY <2>2, ClientTypes DEF ClientStream
    <3>2. /\ Len(client.wire) \in Nat /\ Len(sent) \in Nat
          /\ DOMAIN client.wire = 1..Len(client.wire)
      BY <2>2, <3>1, Elements
    <3>3. \A i \in DOMAIN client.wire : client.wire[i] = 0 + i
      BY <2>2 DEF ClientStream, Run
    <3>4. QED
      BY <3>1, <3>2, <3>3
  <2>5. QED
    BY <2>1, <2>3, <2>4, Zenon DEF EchoIsFaithful
<1>2. QED
  BY <1>1, PairInvariant, PTL
-----------------------------------------------------------------------------
(***************************************************************************)
(* The pair keeps the promise of EchoPromise: each step of the two sockets *)
(* and of the network is one of its steps, or changes nothing it speaks of. *)
(***************************************************************************)

PromisedTaken == IF S!Alive(server) THEN Taken ELSE 0

LEMMA PromiseState ==
    /\ S!Alive(server) <=> SP!Alive(server)
    /\ ServerFailed <=> Failed(server)
    /\ PromisedTaken = IF SP!Alive(server) THEN Taken ELSE 0
BY ServerBasics, Zenon DEF ServerFailed, Failed, PromisedTaken

LEMMA PromiseStateNext ==
    /\ S!Alive(server)' <=> SP!Alive(server')
    /\ ServerFailed' <=> Failed(server')
    /\ PromisedTaken' = IF SP!Alive(server') THEN Taken' ELSE 0
BY DEF S!Alive, SP!Alive, ServerFailed, Failed, PromisedTaken

LEMMA PromiseInit == Init => Promise!Init
<1> SUFFICES ASSUME Init
             PROVE  Promise!Init
  OBVIOUS
<1>1. /\ server = Connected(SP!NewSocket) /\ sent = <<>> /\ atServer = 0
  BY ServerBasics, Zenon DEF Init
<1>2. /\ server.life = "alive" /\ server.err = "NO_ERR" /\ server.link = "up"
      /\ server.rx = <<>> /\ server.inbox = <<>> /\ server.wire = <<>> /\ server.tx = <<>>
  BY <1>1 DEF Connected, SP!NewSocket
<1>3. S!Alive(server) = TRUE /\ ServerFailed = FALSE
  BY <1>2 DEF S!Alive, ServerFailed
<1>4. Echoed = <<>> /\ Taken = 0
  <2>1. Echoed = <<>> \o <<>> /\ Taken = 0 - Len(<<>>) - Len(<<>>)
    BY <1>1, <1>2, Zenon DEF Echoed, Taken
  <2>2. Len(<<>>) = 0 /\ <<>> \o <<>> = <<>> /\ 0 - 0 - 0 = 0
    BY NothingYet
  <2>3. QED
    BY <2>1, <2>2, Zenon
<1>5. QED
  BY <1>1, <1>3, <1>4 DEF Promise!Init

(* A step that is none of its business.                                    *)
LEMMA PromiseStutters ==
    ASSUME sent' = sent, Echoed' = Echoed,
           SP!Alive(server') <=> SP!Alive(server), Failed(server') <=> Failed(server),
           SP!Alive(server) => Taken' = Taken
    PROVE  UNCHANGED Promise!vars
<1>1. (S!Alive(server)' <=> S!Alive(server)) /\ (ServerFailed' <=> ServerFailed)
  BY PromiseState, PromiseStateNext
<1>2. S!Alive(server)' = S!Alive(server) /\ ServerFailed' = ServerFailed
  BY <1>1 DEF S!Alive, ServerFailed
<1>3. PromisedTaken' = PromisedTaken
  BY PromiseState, PromiseStateNext
<1>4. QED
  BY <1>2, <1>3 DEF Promise!vars, PromisedTaken

(* The server has noticed that something is wrong, or its connection is    *)
(* broken.                                                                 *)
LEMMA PromiseFails ==
    ASSUME sent' = sent, Echoed' = Echoed, SP!Alive(server), SP!Alive(server'),
           Failed(server'), Taken' = Taken
    PROVE  Promise!Fail
<1>1. S!Alive(server) /\ S!Alive(server)' = S!Alive(server) /\ ServerFailed'
  BY PromiseState, PromiseStateNext DEF S!Alive
<1>2. PromisedTaken' = PromisedTaken
  BY PromiseState, PromiseStateNext
<1>3. QED
  BY <1>1, <1>2 DEF Promise!Fail, PromisedTaken

(* The server takes a block.                                               *)
LEMMA PromiseTakes ==
    ASSUME IInv, Modest, sent' = sent, SP!Alive(server), SP!Alive(server'),
           Taken' = Taken + ReadLen, Taken' <= atServer
    PROVE  Promise!Take /\ Taken \in Nat /\ Taken + ReadLen <= Len(sent)
<1>1. /\ Taken \in Nat /\ atServer \in Nat /\ atServer <= Len(client.wire)
      /\ Len(client.wire) <= Len(sent)
  BY DEF IInv, ServerStream, ClientStream
<1>2. ReadLen \in Nat /\ Len(client.wire) \in Nat /\ Len(sent) \in Nat
  BY PairAssumption, ClientTypes, Elements DEF IInv, GoodClient
<1>3. Taken + ReadLen <= Len(sent)
  BY <1>1, <1>2
<1>4. S!Alive(server) /\ PromisedTaken = Taken /\ PromisedTaken' = Taken'
  BY PromiseState, PromiseStateNext
<1>5. QED
  BY <1>1, <1>3, <1>4 DEF Promise!Take, PromisedTaken

(* The client's message joins what has been handed over.                   *)
LEMMA SendDataPromise ==
    ASSUME IInv, SendData
    PROVE  [Promise!Next]_(Promise!vars)
<1>1. UNCHANGED <<server, atServer, atClient>>
  BY DEF SendData
<1>2. sent' \in {sent, sent \o [i \in 1..MsgLen |-> Len(sent) + i]}
  <2>1. C!NextBytes(Len(sent), MsgLen) = [i \in 1..MsgLen |-> Len(sent) + i]
    BY DEF C!NextBytes
  <2>2. sent' \in {sent, sent \o C!NextBytes(Len(sent), MsgLen)}
    BY Zenon DEF SendData
  <2>3. QED
    BY <2>1, <2>2
<1>3. /\ Echoed' = Echoed /\ Taken' = Taken /\ S!Alive(server)' = S!Alive(server)
      /\ ServerFailed' = ServerFailed
  BY <1>1 DEF Echoed, Taken, ServerFailed, S!Alive
<1>4. PromisedTaken' = PromisedTaken
  BY <1>3 DEF PromisedTaken
<1>5. CASE sent' = sent
  BY <1>3, <1>4, <1>5 DEF Promise!vars, PromisedTaken
<1>6. CASE sent' = sent \o [i \in 1..MsgLen |-> Len(sent) + i]
  BY <1>3, <1>4, <1>6 DEF Promise!Submit, Promise!Next, PromisedTaken
<1>7. QED
  BY <1>2, <1>5, <1>6

(* A step that leaves the server and what has been handed over alone.      *)
LEMMA ClientSidePromise ==
    ASSUME UNCHANGED <<server, sent, atServer>>
    PROVE  UNCHANGED Promise!vars
<1>1. Echoed' = Echoed /\ Taken' = Taken
  BY DEF Echoed, Taken
<1>2. QED
  BY <1>1, PromiseStutters

(* The first of two sequences begins what they make together.              *)
LEMMA Beginning ==
    ASSUME NEW w \in Seq(Nat), NEW x \in Seq(Nat)
    PROVE  Len(w) \in 0..Len(w \o x) /\ w = SubSeq(w \o x, 1, Len(w))
<1> DEFINE b == SubSeq(w \o x, 1, Len(w))
<1>1. Len(w) \in Nat /\ Len(x) \in Nat /\ w \o x \in Seq(Nat) /\ Len(w \o x) = Len(w) + Len(x)
  OBVIOUS
<1>2. b \in Seq(Nat) /\ Len(b) = Len(w)
  BY <1>1
<1>3. ASSUME NEW i \in 1..Len(w)
      PROVE  w[i] = b[i]
  BY <1>1
<1>4. w = b
  <2> HIDE DEF b
  <2>1. QED
    BY <1>2, <1>3, SeqEqual
<1>5. QED
  BY <1>1, <1>4

(* An event of the server ends it, idles, or takes a block that comes back *)
(* or is lost.                                                             *)
LEMMA EndsPromise ==
    ASSUME IInv, SP!Alive(server), Gone(server, server'), sent' = sent
    PROVE  Promise!End
<1>1. SP!Good(server) /\ ~SP!Alive(server') /\ Failed(server')
  BY DEF IInv, GoodServer, Gone, Failed
<1>2. S!Alive(server) /\ ~S!Alive(server)' /\ ServerFailed' /\ PromisedTaken' = 0
  BY <1>1, PromiseState, PromiseStateNext
<1>3. server.wire \in Seq(Nat) /\ server.tx \in Seq(Nat)
  BY <1>1, ServerTypes
<1>4. Echoed' = server.wire
  <2>1. Echoed' = server.wire \o <<>>
    BY DEF Gone, Echoed
  <2>2. QED
    BY <1>3, <2>1, ConcatEmptySeq
<1>5. /\ Len(server.wire) \in 0..Len(Echoed)
      /\ server.wire = SubSeq(Echoed, 1, Len(server.wire))
  BY <1>3, Beginning, Zenon DEF Echoed
<1>6. QED
  BY <1>2, <1>4, <1>5 DEF Promise!End, PromisedTaken

LEMMA IdlesPromise ==
    ASSUME IInv, Modest, SP!Alive(server), Idles(server, server'),
           UNCHANGED <<client, sent, atServer, atClient>>
    PROVE  [Promise!Next]_(Promise!vars)
<1>1. Taken' = Taken /\ Echoed' = Echoed /\ SP!Alive(server')
  BY IdlesStreams DEF Idles, Stays
<1>2. Failed(server) => Failed(server')
  BY DEF Idles, Stays, Failed
<1>3. CASE Failed(server')
  BY <1>1, <1>3, PromiseFails DEF Promise!Next
<1>4. CASE ~Failed(server')
  BY <1>1, <1>2, <1>4, PromiseStutters
<1>5. QED
  BY <1>3, <1>4

LEMMA EchoesPromise ==
    ASSUME IInv, Modest, SP!Alive(server), NEW m \in Seq(Nat), Echoes(server, server', m),
           UNCHANGED <<client, sent, atServer, atClient>>
    PROVE  Promise!Return \/ Promise!Lose
<1>1. /\ Taken' = Taken + ReadLen /\ Taken' <= atServer /\ Run(m, Taken) /\ Len(m) = ReadLen
      /\ SP!Alive(server')
      /\ \/ Echoed' = Echoed \o m /\ (Failed(server') <=> Failed(server))
         \/ Echoed' = Echoed /\ Failed(server')
  BY EchoesStreams DEF Echoes, Stays
<1>2. Promise!Take /\ Taken \in Nat /\ Taken + ReadLen <= Len(sent)
  BY <1>1, PromiseTakes
<1>3. S!Alive(server)' = S!Alive(server) /\ PromisedTaken = Taken
  BY <1>1, PromiseState, PromiseStateNext DEF S!Alive
<1>4. m = SubSeq(sent, Taken + 1, Taken + ReadLen)
  <2>1. sent \in Seq(Nat) /\ Run(sent, 0) /\ ReadLen \in Nat
    BY PairAssumption DEF IInv
  <2> HIDE DEF Taken
  <2>2. QED
    BY <1>1, <1>2, <2>1, RunCut, RunsEqual
<1>5. CASE Echoed' = Echoed \o m /\ (Failed(server') <=> Failed(server))
  <2>1. ServerFailed' = ServerFailed
    BY <1>5, PromiseState, PromiseStateNext DEF ServerFailed
  <2>2. QED
    BY <1>2, <1>3, <1>4, <1>5, <2>1 DEF Promise!Return, PromisedTaken
<1>6. CASE Echoed' = Echoed /\ Failed(server')
  <2>1. ServerFailed'
    BY <1>6, PromiseStateNext
  <2>2. QED
    BY <1>2, <1>3, <1>6, <2>1 DEF Promise!Lose
<1>7. QED
  BY <1>1, <1>5, <1>6

LEMMA ServerPollPromise ==
    ASSUME IInv, Modest, ServerPoll
    PROVE  [Promise!Next]_(Promise!vars)
<1>1. /\ SP!Alive(server) /\ Handled(server, server')
      /\ UNCHANGED <<client, sent, atServer, atClient>>
  BY ServerPollHandled
<1>2. CASE Gone(server, server')
  BY <1>1, <1>2, EndsPromise DEF Promise!Next
<1>3. CASE Idles(server, server')
  BY <1>1, <1>3, IdlesPromise
<1>4. ASSUME NEW m \in Seq(Nat), Echoes(server, server', m)
      PROVE  Promise!Next
  BY <1>1, <1>4, EchoesPromise DEF Promise!Next
<1>5. QED
  BY <1>1, <1>2, <1>3, <1>4 DEF Handled

(* The network moves what has been handed over, or breaks.                 *)
LEMMA ForthPromise ==
    ASSUME IInv, Modest, Forth
    PROVE  UNCHANGED Promise!vars
<1>1. sent' = sent
  BY DEF Forth
<1>2. QED
  BY <1>1, ForthStreams, PromiseStutters

LEMMA EndOfStreamPromise ==
    ASSUME IInv, EndOfStream
    PROVE  UNCHANGED Promise!vars
<1>1. /\ server.link = "up" /\ server' = [server EXCEPT !.link = "eof"]
      /\ UNCHANGED <<client, sent, atServer, atClient>>
  BY DEF EndOfStream
<1>2. /\ SP!Alive(server) /\ SP!Alive(server') /\ Taken' = Taken /\ Echoed' = Echoed
      /\ (Failed(server') <=> Failed(server))
  BY <1>1, LinkStreams
<1>3. QED
  BY <1>1, <1>2, PromiseStutters

LEMMA BreakPromise ==
    ASSUME IInv, Break
    PROVE  [Promise!Next]_(Promise!vars)
<1>1. UNCHANGED <<sent, atServer, atClient>>
  BY DEF Break
<1>2. CASE UNCHANGED server
  BY <1>1, <1>2, ClientSidePromise
<1>3. CASE /\ server.link \in {"up", "eof"} /\ server' = [server EXCEPT !.link = "broken"]
  <2>1. /\ SP!Alive(server) /\ SP!Alive(server') /\ Taken' = Taken /\ Echoed' = Echoed
        /\ Failed(server')
    BY <1>1, <1>3, LinkStreams
  <2>2. QED
    BY <1>1, <2>1, PromiseFails DEF Promise!Next
<1>4. QED
  BY <1>2, <1>3 DEF Break

LEMMA NextPromise ==
    ASSUME Modest
    PROVE  IInv /\ [Next]_vars => [Promise!Next]_(Promise!vars)
<1> SUFFICES ASSUME IInv, [Next]_vars
             PROVE  [Promise!Next]_(Promise!vars)
  OBVIOUS
<1>1. CASE SendData
  BY <1>1, SendDataPromise
<1>2. CASE ClientPoll \/ StopClient \/ Back \/ UNCHANGED vars
  <2>1. UNCHANGED <<server, sent, atServer>>
    BY <1>2 DEF ClientPoll, StopClient, Back, vars
  <2>2. QED
    BY <2>1, ClientSidePromise
<1>3. CASE ServerPoll
  BY <1>3, ServerPollPromise
<1>4. CASE Forth
  BY <1>4, ForthPromise
<1>5. CASE EndOfStream
  BY <1>5, EndOfStreamPromise
<1>6. CASE Break
  BY <1>6, BreakPromise
<1>7. QED
  BY <1>1, <1>2, <1>3, <1>4, <1>5, <1>6 DEF Next

(* The two programs, each with its buffers and its kernel, and the network *)
(* between them are an echo server to the client: what is taken of the     *)
(* stream comes back block by block, and no block is passed over, twice    *)
(* returned or taken back unless something has gone wrong on the server's  *)
(* side (server_service.hpp:36-71).                                        *)
THEOREM KeepsItsPromise ==
    ASSUME Modest
    PROVE  Spec => KeepsPromise
<1>1. Init => Promise!Init
  BY PromiseInit
<1>2. IInv /\ [Next]_vars => [Promise!Next]_(Promise!vars)
  BY NextPromise
<1>3. QED
  BY <1>1, <1>2, PairInvariant, PTL DEF Spec, KeepsPromise, Promise!Spec
-----------------------------------------------------------------------------
(* When the client's receiving buffer moves to larger memory, all that its *)
(* index counts lies inside the old one (xma_socket_cache.h:152-160).      *)
THEOREM CopiesStayInside ==
    ASSUME SmallReads
    PROVE  Spec => CopiesInside
<1> DEFINE Step == client'.rxLen # client.rxLen => Len(client'.rx) <= client.rxLen
<1>1. IInv /\ [Next]_vars => Step
  <2> SUFFICES ASSUME IInv, [Next]_vars
               PROVE  Step
    OBVIOUS
  <2>1. CASE Receives(client, client')
    BY <2>1 DEF Receives, CP!CopiedInside
  <2>2. CASE UNCHANGED client
    BY <2>2
  <2>3. CASE SendData
    BY <2>3, SendDataIInv
  <2>4. QED
    BY <2>1, <2>2, <2>3, ClientPollReceives, StopClientReceives, BackReceives, BreakReceives
       DEF Next, vars, ServerPoll, ServerIn, Forth, EndOfStream
<1>2. Spec => [][Step]_vars
  <2> HIDE DEF Step
  <2>1. QED
    BY <1>1, PairInvariant, PTL DEF Spec
<1>3. QED
  BY <1>2 DEF CopiesInside
=============================================================================
