-------------------------- MODULE StreamSocketProofs --------------------------
(***************************************************************************)
(* Proofs about StreamSocket, for every choice of its constants.           *)
(*                                                                         *)
(* The methods are operators on a connection record, so the proof is built *)
(* the way the code is: `Good` is what every method keeps, `Sends` and     *)
(* `Receives` say in addition what a method does with the bytes, and there *)
(* is one lemma for each method, resting on the lemmas of those it calls.  *)
(***************************************************************************)
EXTENDS StreamSocket, ListLemmas

(***************************************************************************)
(* What the sizing rules of SocketBuff guarantee, for every choice of the  *)
(* sizes.                                                                  *)
(***************************************************************************)

(* The threshold of a buffer never exceeds its capacity.                   *)
LEMMA CanLenBound ==
    ASSUME NEW len \in Nat
    PROVE  CanLen(len) \in 0..len
<1>1. (len * RateNum) \div RateDen \in 0..len
  BY BuffAssumption, SMT
<1>2. QED
  BY <1>1, BuffAssumption DEF CanLen

(* One turn of the loop of expand, given what the turns after it answer.   *)
Turn(f, goal, n) ==
    IF 2 * n > MaxLen THEN MaxLen
    ELSE IF 2 * n >= goal THEN 2 * n
    ELSE f[2 * n]

(* The loop ends for every capacity, so its recursion defines a function:  *)
(* one that is right from n on can be made right from n - 1 on, and any    *)
(* function is nearly right from MaxLen on.                                *)
LEMMA GrowthExists ==
    ASSUME NEW goal \in Int
    PROVE  \E f : f = [n \in Nat \ {0} |-> Turn(f, goal, n)]
<1> DEFINE RightFrom(f, m) == \A n \in Nat \ {0} : n >= m => f[n] = Turn(f, goal, n)
           Ms == {m \in Nat \ {0} : \E f \in [Nat \ {0} -> Int] : RightFrom(f, m)}
<1>1. Ms # {}
  <2> DEFINE m == IF MaxLen > 0 THEN MaxLen ELSE 1
             f == [n \in Nat \ {0} |-> MaxLen]
  <2>1. m \in Nat \ {0} /\ f \in [Nat \ {0} -> Int]
    BY BuffAssumption
  <2>2. RightFrom(f, m)
    BY <2>1, BuffAssumption DEF Turn
  <2>3. QED
    BY <2>1, <2>2
<1>2. PICK m \in Ms : \A k \in Ms : m <= k
  BY <1>1, LeastExists
<1>3. PICK f \in [Nat \ {0} -> Int] : RightFrom(f, m)
  BY <1>2
<1>4. m = 1
  <2>1. SUFFICES ASSUME m # 1
                 PROVE  FALSE
    OBVIOUS
  <2>2. m \in Nat \ {0} /\ m - 1 \in Nat \ {0}
    BY <1>2, <2>1
  <2> DEFINE g == [f EXCEPT ![m - 1] = Turn(f, goal, m - 1)]
  <2>3. \A n \in Nat \ {0} : Turn(f, goal, n) \in Int
    BY <1>3, BuffAssumption DEF Turn
  <2>4. g \in [Nat \ {0} -> Int]
    BY <1>3, <2>2, <2>3
  <2>5. ASSUME NEW n \in Nat \ {0}, n >= m - 1
        PROVE  g[n] = Turn(g, goal, n)
    <3>1. 2 * n # m - 1 /\ 2 * n \in Nat \ {0}
      BY <2>2, <2>5
    <3>2. g[2 * n] = f[2 * n]
      BY <1>3, <3>1
    <3>3. Turn(g, goal, n) = Turn(f, goal, n)
      BY <3>2 DEF Turn
    <3>4. g[n] = Turn(f, goal, n)
      BY <1>3, <2>2, <2>5
    <3>5. QED
      BY <3>3, <3>4
  <2>6. m - 1 \in Ms
    BY <2>2, <2>4, <2>5
  <2>7. QED
    BY <1>2, <2>2, <2>6
<1>5. f = [n \in Nat \ {0} |-> Turn(f, goal, n)]
  BY <1>3, <1>4
<1>6. QED
  BY <1>5

LEMMA GrowthTurns ==
    ASSUME NEW goal \in Int
    PROVE  Growth(goal) = [n \in Nat \ {0} |-> Turn(Growth(goal), goal, n)]
BY GrowthExists, Zenon DEF Growth, Turn

(* The loop answers MaxLen or a doubling that meets the goal and stays     *)
(* within MaxLen; and never twice the goal, or more, but for a first       *)
(* doubling.                                                               *)
LEMMA GrowthBound ==
    ASSUME NEW goal \in Int, NEW len \in Nat \ {0}
    PROVE  LET new == Growth(goal)[len]
           IN  /\ new \in Int /\ new <= MaxLen
               /\ new = MaxLen \/ (new >= goal /\ new >= 2 * len)
               /\ len < goal => new < 2 * goal
<1> DEFINE g == Growth(goal)
           Right(n) == /\ g[n] \in Int /\ g[n] <= MaxLen
                       /\ g[n] = MaxLen \/ (g[n] >= goal /\ g[n] >= 2 * n)
                       /\ n < goal => g[n] < 2 * goal
           Ms == {m \in Nat : \E n \in Nat \ {0} : ~Right(n) /\ MaxLen - n = m}
<1>1. \A n \in Nat \ {0} : g[n] = Turn(g, goal, n)
  BY GrowthTurns
<1> HIDE DEF g
<1>2. SUFFICES ASSUME ~Right(len)
               PROVE  FALSE
  BY DEF g
<1>3. MaxLen - len \in Ms
  <2>1. MaxLen >= len
    BY <1>1, <1>2, BuffAssumption DEF Turn
  <2>2. MaxLen - len \in Nat
    BY <2>1, BuffAssumption
  <2>3. QED
    BY <1>2, <2>2
<1>4. PICK m \in Ms : \A k \in Ms : m <= k
  BY <1>3, LeastExists
<1>5. PICK n \in Nat \ {0} : ~Right(n) /\ MaxLen - n = m
  BY <1>4
<1>6. CASE 2 * n > MaxLen \/ 2 * n >= goal
  BY <1>1, <1>5, <1>6, BuffAssumption DEF Turn
<1>7. CASE 2 * n <= MaxLen /\ 2 * n < goal
  <2>1. g[n] = g[2 * n]
    BY <1>1, <1>5, <1>7, BuffAssumption DEF Turn
  <2>2. ~Right(2 * n)
    BY <1>5, <1>7, <2>1
  <2>3. MaxLen - 2 * n \in Nat /\ 2 * n \in Nat \ {0}
    BY <1>7, BuffAssumption
  <2>4. MaxLen - 2 * n \in Ms
    BY <2>2, <2>3
  <2>5. QED
    BY <1>4, <1>5, <1>7, <2>4, BuffAssumption
<1>8. QED
  BY <1>6, <1>7, BuffAssumption

(* expand never shrinks a buffer and never takes it past MaxLen; it either *)
(* finds the room asked for or leaves the buffer at its maximum, and never *)
(* allocates twice of what was asked for (xma_socket_cache.h:57-78).       *)
THEOREM ExpandBound ==
    ASSUME NEW len \in Nat \ {0}, NEW need \in Int
    PROVE  /\ Expand(len, need) \in Nat \ {0}
           /\ Expand(len, need) >= len
           /\ Expand(len, need) = len \/ Expand(len, need) <= MaxLen
           /\ need > 0 => /\ Expand(len, need) >= len + need \/ Expand(len, need) >= MaxLen
                          /\ Expand(len, need) < 2 * (len + need)
<1>1. CASE need <= 0
  BY <1>1 DEF Expand
<1>2. CASE need > 0
  <2> DEFINE new == Growth(len + need)[len]
  <2>1. /\ new \in Int /\ new <= MaxLen /\ (new = MaxLen \/ new >= len + need)
        /\ new < 2 * (len + need)
    BY <1>2, GrowthBound
  <2>2. Expand(len, need) = IF new > len THEN new ELSE len
    BY <1>2 DEF Expand
  <2> HIDE DEF new
  <2>3. CASE new > len
    BY <1>2, <2>1, <2>2, <2>3
  <2>4. CASE new <= len
    BY <1>2, <2>1, <2>2, <2>4, BuffAssumption
  <2>5. QED
    BY <2>1, <2>3, <2>4
<1>3. QED
  BY <1>1, <1>2
-----------------------------------------------------------------------------

(* The part of the invariant that is about a connection alone.             *)
Good(c) ==
    /\ c \in Sockets
    /\ FdMatches(c)
    /\ Fresh(c)
    /\ TxHolds(c)
    /\ HasReceiver => RxHolds(c)

(* d is c after sending: the bytes b have joined the stream of what is on  *)
(* the wire and what is cached, and the wire has only grown.               *)
Sends(c, d, b) ==
    /\ Good(d)
    /\ d.wire \o d.tx = (c.wire \o c.tx) \o b
    /\ Len(d.wire) >= Len(c.wire)
    /\ d.txLen >= c.txLen
    /\ d.rx = c.rx /\ d.inbox = c.inbox /\ d.fd = c.fd
    /\ Ready(d)
-----------------------------------------------------------------------------
(* Facts about sequences of bytes.                                         *)

LEMMA EmptyIsSeq == <<>> \in Seq(Nat)
OBVIOUS

LEMMA Assoc ==
    ASSUME NEW s \in Seq(Nat), NEW t \in Seq(Nat), NEW u \in Seq(Nat)
    PROVE  (s \o t) \o u = s \o (t \o u)
<1> DEFINE l == (s \o t) \o u
           r == s \o (t \o u)
<1>1. /\ Len(s) \in Nat /\ Len(t) \in Nat /\ Len(u) \in Nat
      /\ s \o t \in Seq(Nat) /\ Len(s \o t) = Len(s) + Len(t)
      /\ t \o u \in Seq(Nat) /\ Len(t \o u) = Len(t) + Len(u)
  OBVIOUS
<1>2. /\ l \in Seq(Nat) /\ Len(l) = Len(s) + Len(t) + Len(u)
      /\ r \in Seq(Nat) /\ Len(r) = Len(s) + Len(t) + Len(u)
  BY <1>1
<1>3. ASSUME NEW i \in 1..Len(l)
      PROVE  l[i] = r[i]
  <2>1. CASE i <= Len(s)
    BY <1>1, <1>2, <2>1
  <2>2. CASE i > Len(s) /\ i <= Len(s) + Len(t)
    BY <1>1, <1>2, <2>2
  <2>3. CASE i > Len(s) + Len(t)
    BY <1>1, <1>2, <2>3
  <2>4. QED
    BY <1>1, <1>2, <2>1, <2>2, <2>3
<1> HIDE DEF l, r
<1>4. l = r
  BY <1>2, <1>3, SeqEqual
<1>5. QED
  BY <1>4 DEF l, r

LEMMA Split ==
    ASSUME NEW s \in Seq(Nat), NEW k \in 0..Len(s)
    PROVE  /\ SubSeq(s, 1, k) \in Seq(Nat)
           /\ SubSeq(s, k + 1, Len(s)) \in Seq(Nat)
           /\ Len(SubSeq(s, k + 1, Len(s))) = Len(s) - k
           /\ SubSeq(s, 1, k) \o SubSeq(s, k + 1, Len(s)) = s
<1>1. \A i \in 1..Len(s) : s[i] \in Nat
  BY ElementOfSeq
<1>2. SubSeq(s, 1, k) \in Seq(Nat)
  BY <1>1, SubSeqProperties
<1>3. SubSeq(s, k + 1, Len(s)) \in Seq(Nat) /\ Len(SubSeq(s, k + 1, Len(s))) = Len(s) - k
  BY <1>1, SubSeqProperties
<1>4. SubSeq(s, 1, k) \o SubSeq(s, k + 1, Len(s)) = s
  <2>1. /\ 1 \in 1..(Len(s) + 1) /\ k \in (1 - 1)..Len(s) /\ Len(s) \in k..Len(s)
    OBVIOUS
  <2>2. SubSeq(s, 1, k) \o SubSeq(s, k + 1, Len(s)) = SubSeq(s, 1, Len(s))
    BY <2>1, ConcatAdjacentSubSeq
  <2>3. QED
    BY <2>2, SubSeqFull
<1>5. QED
  BY <1>2, <1>3, <1>4

-----------------------------------------------------------------------------
(* Closing, resetting and reporting.                                       *)

LEMMA CloseGood ==
    ASSUME NEW c, Good(c)
    PROVE  /\ Good(Close(c))
           /\ ~Close(c).fd
           /\ Close(c).state = c.state /\ Close(c).txLen = c.txLen
           /\ Close(c).tx = c.tx /\ Close(c).wire = c.wire
<1>1. CASE c.fd
  <2>1. Close(c) = [c EXCEPT !.fd = FALSE, !.armed = {}, !.link = "none", !.inbox = <<>>]
    BY <1>1 DEF Close
  <2>2. Close(c) \in Sockets
    BY <2>1, EmptyIsSeq DEF Good, Sockets, Links, Events
  <2>3. QED
    BY <2>1, <2>2 DEF Good, Sockets, FdMatches, Fresh, Ready, TxHolds, RxHolds
<1>2. CASE ~c.fd
  BY <1>2 DEF Close, Good, Sockets
<1>3. QED
  BY <1>1, <1>2

LEMMA ResetGood ==
    ASSUME NEW c, Good(c)
    PROVE  /\ Good(Reset(c)) /\ Reset(c).state = "CREATED" /\ ~Reset(c).fd
           /\ Reset(c).txLen = c.txLen
<1> DEFINE d == Close(c)
<1>1. Good(d) /\ ~d.fd /\ d.txLen = c.txLen
  BY CloseGood
<1>2. Reset(c) = [d EXCEPT !.state = "CREATED", !.tx = <<>>, !.rx = <<>>]
  BY DEF Reset
<1> HIDE DEF d
<1>3. Reset(c) \in Sockets
  BY <1>1, <1>2, EmptyIsSeq DEF Good, Sockets, States
<1>4. /\ Reset(c).state = "CREATED" /\ Reset(c).tx = <<>> /\ Reset(c).rx = <<>>
      /\ Reset(c).fd = d.fd /\ Reset(c).link = d.link /\ Reset(c).armed = d.armed
      /\ Reset(c).txLen = d.txLen /\ Reset(c).rxLen = d.rxLen
  BY <1>1, <1>2 DEF Good, Sockets
<1>5. FdMatches(Reset(c)) /\ Fresh(Reset(c)) /\ ~Reset(c).fd
  BY <1>1, <1>4 DEF Good, FdMatches, Fresh
<1>6. TxHolds(Reset(c)) /\ (HasReceiver => RxHolds(Reset(c)))
  BY <1>1, <1>3, <1>4, EmptySeq DEF Good, Sockets, TxHolds, RxHolds, Holds
<1>7. QED
  BY <1>1, <1>3, <1>4, <1>5, <1>6 DEF Good

(* A method that leaves alone all that Good looks at keeps Good.           *)
LEMMA SameGood ==
    ASSUME NEW c, Good(c), NEW d \in Sockets,
           d.state = c.state, d.fd = c.fd, d.armed = c.armed, d.link = c.link,
           d.tx = c.tx, d.txLen = c.txLen, d.rx = c.rx, d.rxLen = c.rxLen
    PROVE  Good(d)
BY DEF Good, FdMatches, Fresh, Ready, TxHolds, RxHolds

LEMMA SetErrGood ==
    ASSUME NEW c, Good(c), NEW e \in Errors
    PROVE  /\ Good(SetErr(c, e))
           /\ SetErr(c, e) = [c EXCEPT !.err = e]
<1>1. SetErr(c, e) \in Sockets
  BY DEF Good, SetErr, Sockets
<1>2. QED
  BY <1>1, SameGood DEF Good, SetErr, Sockets

LEMMA AbortGood ==
    ASSUME NEW c, Good(c)
    PROVE  Good(Abort(c))
<1>1. Abort(c) \in Sockets
  BY DEF Good, Abort, Sockets
<1>2. QED
  BY <1>1, SameGood DEF Good, Abort, Sockets

LEMMA OnSocketErrGood ==
    ASSUME NEW c, Good(c), NEW e \in Errors
    PROVE  /\ Good(OnSocketErr(c, e))
           /\ \/ ~Connection(OnSocketErr(c, e)) /\ ~OnSocketErr(c, e).fd
              \/ OnSocketErr(c, e) = [c EXCEPT !.err = OnSocketErr(c, e).err]
<1>1. CASE ~Alive(c)
  BY <1>1 DEF OnSocketErr, Good, Sockets
<1>2. CASE Alive(c) /\ DeletesOnErr
  <2> DEFINE d == Reset(c)
  <2>1. Good(d) /\ d.state = "CREATED" /\ ~d.fd
    BY ResetGood
  <2>2. OnSocketErr(c, e) = [d EXCEPT !.life = "deleted"]
    BY <1>2 DEF OnSocketErr
  <2> HIDE DEF d
  <2>3. OnSocketErr(c, e) \in Sockets
    BY <2>1, <2>2 DEF Good, Sockets
  <2>4. QED
    BY <2>1, <2>2, <2>3, SameGood DEF Good, Sockets, Connection
<1>3. CASE Alive(c) /\ ~DeletesOnErr
  BY <1>3, SetErrGood DEF OnSocketErr, SetErr, Good, Sockets
<1>4. QED
  BY <1>1, <1>2, <1>3

LEMMA SetEventsGood ==
    ASSUME NEW c, Good(c), c.fd, NEW ev \in SUBSET Events, ev # {}, NEW ok \in BOOLEAN
    PROVE  /\ Good(SetEvents(c, ev, ok))
           /\ SetEvents(c, ev, ok) = [c EXCEPT !.armed = SetEvents(c, ev, ok).armed]
<1>1. CASE ok
  <2>1. SetEvents(c, ev, ok) = [c EXCEPT !.armed = ev]
    BY <1>1 DEF SetEvents
  <2>2. SetEvents(c, ev, ok) \in Sockets
    BY <2>1 DEF Good, Sockets
  <2>3. QED
    BY <2>1, <2>2 DEF Good, Sockets, FdMatches, Fresh, Ready, TxHolds, RxHolds
<1>2. CASE ~ok
  BY <1>2 DEF SetEvents, Good, Sockets
<1>3. QED
  BY <1>1, <1>2
-----------------------------------------------------------------------------
(* Sending.                                                                 *)

(* What shrinkFromFront leaves: the k bytes sent have moved to the wire.   *)
LEMMA FlushedSends ==
    ASSUME NEW c, Good(c), Ready(c), NEW k \in 0..Len(c.tx)
    PROVE  /\ Sends(c, Flushed(c, k), <<>>)
           /\ Flushed(c, k).state = c.state /\ Flushed(c, k).txLen = c.txLen
           /\ Len(Flushed(c, k).tx) = Len(c.tx) - k
<1> DEFINE a == SubSeq(c.tx, 1, k)
           b == SubSeq(c.tx, k + 1, Len(c.tx))
           d == Flushed(c, k)
<1>1. c.tx \in Seq(Nat) /\ c.wire \in Seq(Nat)
  BY DEF Good, Sockets
<1>2. a \in Seq(Nat) /\ b \in Seq(Nat) /\ Len(b) = Len(c.tx) - k /\ a \o b = c.tx
  BY <1>1, Split
<1>3. c.wire \o a \in Seq(Nat) /\ Len(c.wire \o a) = Len(c.wire) + Len(a)
  BY <1>1, <1>2, ConcatProperties
<1>4. d = [c EXCEPT !.tx = b, !.wire = c.wire \o a]
  BY DEF Flushed, Good, Sockets
<1> HIDE DEF a, b, d
<1>5. d \in Sockets
  BY <1>2, <1>3, <1>4 DEF Good, Sockets
<1>6. /\ d.wire = c.wire \o a /\ d.tx = b
      /\ d.state = c.state /\ d.txLen = c.txLen /\ d.rxLen = c.rxLen
      /\ d.rx = c.rx /\ d.inbox = c.inbox /\ d.fd = c.fd
      /\ d.armed = c.armed /\ d.link = c.link
  BY <1>4 DEF Good, Sockets
<1>7. d.wire \o d.tx = (c.wire \o c.tx) \o <<>>
  <2>1. (c.wire \o a) \o b = c.wire \o (a \o b)
    BY <1>1, <1>2, Assoc
  <2>2. c.wire \o c.tx \in Seq(Nat)
    BY <1>1, ConcatProperties
  <2>3. QED
    BY <1>2, <1>6, <2>1, <2>2, ConcatEmptySeq
<1>8. Len(d.wire) >= Len(c.wire)
  BY <1>1, <1>2, <1>3, <1>6, LenProperties
<1>9. Good(d)
  <2>1. Len(b) <= Len(c.tx)
    BY <1>1, <1>2, LenProperties
  <2>2. TxHolds(d)
    BY <1>1, <1>2, <1>6, <2>1, LenProperties DEF Good, Sockets, TxHolds, Holds
  <2>3. QED
    BY <1>5, <1>6, <2>2 DEF Good, FdMatches, Fresh, Ready, RxHolds
<1>10. QED
  BY <1>2, <1>5, <1>6, <1>7, <1>8, <1>9 DEF Sends, Ready, Good, Sockets, d

(* Capacities stay within their bounds whatever is asked of expand.        *)
LEMMA ExpandHolds ==
    ASSUME NEW idx \in Nat, NEW len \in Nat \ {0}, NEW need \in Int, Holds(idx, len)
    PROVE  Holds(idx, Expand(len, need))
<1>1. /\ Expand(len, need) \in Nat \ {0} /\ Expand(len, need) >= len
      /\ Expand(len, need) = len \/ Expand(len, need) <= MaxLen
  BY ExpandBound
<1>2. QED
  BY <1>1, BuffAssumption DEF Holds, Cap

LEMMA CheckLenBound ==
    ASSUME NEW idx \in Nat, NEW len \in Nat \ {0}, NEW n \in Nat
    PROVE  /\ CheckLen(len, idx, n) \in Nat \ {0}
           /\ CheckLen(len, idx, n) >= len
           /\ Holds(idx, len) => Holds(idx, CheckLen(len, idx, n))
<1>1. idx + n - CanLen(len) + ConnLen \in Int
  BY CanLenBound, BuffAssumption
<1>2. CASE idx + n > CanLen(len)
  BY <1>1, <1>2, ExpandBound, ExpandHolds DEF CheckLen
<1>3. CASE ~(idx + n > CanLen(len))
  BY <1>3 DEF CheckLen
<1>4. QED
  BY <1>2, <1>3

(* Leaving FULL changes the state and the capacity only.                   *)
LEMMA NoLongerFullGood ==
    ASSUME NEW c, Good(c), Ready(c)
    PROVE  Sends(c, NoLongerFull(c), <<>>)
<1> DEFINE d == NoLongerFull(c)
<1>1. c.tx \in Seq(Nat) /\ c.wire \in Seq(Nat) /\ c.txLen \in Nat \ {0} /\ Len(c.tx) \in Nat
  BY LenProperties DEF Good, Sockets
<1>2. /\ CheckLen(c.txLen, Len(c.tx), 0) \in Nat \ {0}
      /\ CheckLen(c.txLen, Len(c.tx), 0) >= c.txLen
      /\ Holds(Len(c.tx), CheckLen(c.txLen, Len(c.tx), 0))
  BY <1>1, CheckLenBound DEF Good, TxHolds
<1>3. (c.wire \o c.tx) \o <<>> = c.wire \o c.tx
  BY <1>1, ConcatProperties, ConcatEmptySeq
<1>4. CASE c.state = "FULL"
  <2>1. PICK st \in {"CONNECTED", "FULL"} :
           d = [c EXCEPT !.txLen = CheckLen(c.txLen, Len(c.tx), 0), !.state = st]
    BY <1>4 DEF NoLongerFull, Good, Sockets
  <2> HIDE DEF d
  <2>2. d \in Sockets
    BY <1>2, <2>1 DEF Good, Sockets, States
  <2>3. /\ d.txLen = CheckLen(c.txLen, Len(c.tx), 0) /\ d.state = st
        /\ d.wire = c.wire /\ d.tx = c.tx /\ d.rxLen = c.rxLen
        /\ d.rx = c.rx /\ d.inbox = c.inbox /\ d.fd = c.fd
        /\ d.armed = c.armed /\ d.link = c.link
    BY <2>1 DEF Good, Sockets
  <2>4. Good(d)
    BY <1>2, <2>2, <2>3 DEF Good, FdMatches, Fresh, Ready, TxHolds, RxHolds
  <2>5. QED
    BY <1>1, <1>2, <1>3, <2>3, <2>4 DEF Sends, Ready, d
<1>5. CASE c.state # "FULL"
  <2>1. d = c /\ Len(c.wire) \in Nat
    BY <1>1, <1>5, LenProperties DEF NoLongerFull
  <2> HIDE DEF d
  <2>2. QED
    BY <1>1, <1>3, <2>1 DEF Sends, d
<1>6. QED
  BY <1>4, <1>5
LEMMA SendsNothing ==
    ASSUME NEW c, Good(c), NEW d, Good(d), Ready(d), d.wire = c.wire, d.tx = c.tx,
           d.txLen = c.txLen, d.rx = c.rx, d.inbox = c.inbox, d.fd = c.fd
    PROVE  Sends(c, d, <<>>)
<1>1. c.tx \in Seq(Nat) /\ c.wire \in Seq(Nat) /\ c.txLen \in Nat
  BY DEF Good, Sockets
<1>2. (c.wire \o c.tx) \o <<>> = c.wire \o c.tx /\ Len(c.wire) \in Nat
  BY <1>1, ConcatProperties, ConcatEmptySeq, LenProperties
<1>3. QED
  BY <1>1, <1>2 DEF Sends

LEMMA SendsThenSends ==
    ASSUME NEW c, Good(c), NEW d, NEW e, NEW b \in Seq(Nat),
           Sends(c, d, <<>>), Sends(d, e, b)
    PROVE  Sends(c, e, b)
<1>1. /\ c.tx \in Seq(Nat) /\ c.wire \in Seq(Nat) /\ d.wire \in Seq(Nat) /\ e.wire \in Seq(Nat)
      /\ c.txLen \in Nat /\ d.txLen \in Nat /\ e.txLen \in Nat
  BY DEF Sends, Good, Sockets
<1>2. (c.wire \o c.tx) \o <<>> = c.wire \o c.tx
  BY <1>1, ConcatProperties, ConcatEmptySeq
<1>3. Len(c.wire) \in Nat /\ Len(d.wire) \in Nat /\ Len(e.wire) \in Nat
  BY <1>1, LenProperties
<1>4. QED
  BY <1>1, <1>2, <1>3 DEF Sends

(* SetState(CONNECTED) on a socket in use.                                 *)
LEMMA ConnectedSends ==
    ASSUME NEW c, Good(c), Ready(c)
    PROVE  Sends(c, [c EXCEPT !.state = "CONNECTED"], <<>>)
<1> DEFINE d == [c EXCEPT !.state = "CONNECTED"]
<1>1. d \in Sockets
  BY DEF Good, Sockets, States
<1>2. /\ d.wire = c.wire /\ d.tx = c.tx /\ d.txLen = c.txLen /\ d.rxLen = c.rxLen
      /\ d.rx = c.rx /\ d.inbox = c.inbox /\ d.fd = c.fd
      /\ d.armed = c.armed /\ d.link = c.link /\ d.state = "CONNECTED"
  BY DEF Good, Sockets
<1> HIDE DEF d
<1>3. Good(d) /\ Ready(d)
  BY <1>1, <1>2 DEF Good, FdMatches, Fresh, Ready, TxHolds, RxHolds
<1>4. QED
  BY <1>2, <1>3, SendsNothing DEF d

LEMMA SetErrSends ==
    ASSUME NEW c, Good(c), Ready(c), NEW e \in Errors
    PROVE  Sends(c, SetErr(c, e), <<>>)
<1>1. SetErr(c, e) = [c EXCEPT !.err = e] /\ Good(SetErr(c, e))
  BY SetErrGood
<1>2. QED
  BY <1>1, SendsNothing DEF Good, Sockets, Ready

LEMMA SendBound ==
    ASSUME NEW c, NEW n \in Nat, NEW k \in SendOutcomes(c, n)
    PROVE  k \in Int /\ k <= n
BY DEF SendOutcomes, HardErr

(* DoWrite moves bytes from the cache to the wire and does nothing else to *)
(* the stream, whether it succeeds or fails.                               *)
LEMMA DoWriteSends ==
    ASSUME NEW c, Good(c), Ready(c), NEW k \in Int, k <= Len(c.tx), NEW ok \in BOOLEAN
    PROVE  /\ Sends(c, DoWrite(c, k, ok).c, <<>>)
           /\ DoWrite(c, k, ok).ret \in Int
           /\ DoWrite(c, k, ok).msg = <<>>
<1>1. c.tx \in Seq(Nat) /\ Len(c.tx) \in Nat /\ (c.tx # <<>> => Len(c.tx) > 0)
  BY EmptySeq, LenProperties DEF Good, Sockets
<1>2. k \in Int /\ k <= Len(c.tx)
  OBVIOUS
<1>3. CASE AssertFails(c)
  <2>1. DoWrite(c, k, ok) = Result(Abort(c), HardErr)
    BY <1>3 DEF DoWrite
  <2>2. Good(Abort(c))
    BY AbortGood
  <2>3. Sends(c, Abort(c), <<>>)
    BY <2>2, SendsNothing DEF Abort, Good, Sockets, Ready
  <2>4. QED
    BY <2>1, <2>3 DEF Result, HardErr
<1>4. CASE ~AssertFails(c) /\ (c.tx = <<>> \/ k <= 0)
  <2>1. DoWrite(c, k, ok) = Result(c, IF c.tx = <<>> THEN 0 ELSE k)
    BY <1>4 DEF DoWrite
  <2>2. Sends(c, c, <<>>)
    BY SendsNothing
  <2>3. QED
    BY <1>2, <2>1, <2>2 DEF Result
<1>5. CASE ~AssertFails(c) /\ c.tx # <<>> /\ k > 0 /\ k < Len(c.tx)
  <2> DEFINE d == Flushed(c, k)
  <2>1. DoWrite(c, k, ok) = Result(NoLongerFull(d), k)
    BY <1>1, <1>2, <1>5 DEF DoWrite
  <2>2. Sends(c, d, <<>>)
    BY <1>1, <1>2, <1>5, FlushedSends
  <2> HIDE DEF d
  <2>3. Sends(d, NoLongerFull(d), <<>>)
    BY <2>2, NoLongerFullGood DEF Sends
  <2>4. Sends(c, NoLongerFull(d), <<>>)
    BY <2>2, <2>3, EmptyIsSeq, SendsThenSends
  <2>5. QED
    BY <1>2, <2>1, <2>4 DEF Result
<1>6. CASE ~AssertFails(c) /\ c.tx # <<>> /\ k > 0 /\ ~(k < Len(c.tx))
  <2> DEFINE d == Flushed(c, k)
             e == [d EXCEPT !.state = "CONNECTED"]
  <2>1. DoWrite(c, k, ok) = IF c.fd /\ ok THEN Result(SetEvents(e, Idle, ok), k)
                            ELSE Result(SetErr(e, "SYS_ERR"), HardErr)
    BY <1>1, <1>2, <1>6 DEF DoWrite
  <2>2. Sends(c, d, <<>>)
    BY <1>1, <1>2, <1>6, FlushedSends
  <2> HIDE DEF d
  <2>3. Sends(d, e, <<>>)
    BY <2>2, ConnectedSends DEF Sends
  <2>4. Sends(c, e, <<>>)
    BY <2>2, <2>3, EmptyIsSeq, SendsThenSends
  <2> HIDE DEF e
  <2>5. CASE c.fd /\ ok
    <3>1. Good(e) /\ e.fd /\ Idle \in SUBSET Events /\ Idle # {}
      BY <2>4, <2>5 DEF Sends, Idle, Events
    <3>2. /\ Good(SetEvents(e, Idle, ok))
          /\ SetEvents(e, Idle, ok) = [e EXCEPT !.armed = SetEvents(e, Idle, ok).armed]
      BY <3>1, SetEventsGood
    <3>3. Sends(e, SetEvents(e, Idle, ok), <<>>)
      BY <2>4, <3>1, <3>2, SendsNothing DEF Sends, Good, Sockets, Ready
    <3>4. Sends(c, SetEvents(e, Idle, ok), <<>>)
      BY <2>4, <3>3, EmptyIsSeq, SendsThenSends
    <3>5. DoWrite(c, k, ok) = Result(SetEvents(e, Idle, ok), k)
      BY <2>1, <2>5
    <3> DEFINE f == SetEvents(e, Idle, ok)
    <3> HIDE DEF f
    <3>6. QED
      BY <1>2, <3>4, <3>5 DEF Result, f
  <2>6. CASE ~(c.fd /\ ok)
    <3>1. Sends(e, SetErr(e, "SYS_ERR"), <<>>)
      BY <2>4, SetErrSends DEF Sends, Errors
    <3>2. Sends(c, SetErr(e, "SYS_ERR"), <<>>)
      BY <2>4, <3>1, EmptyIsSeq, SendsThenSends
    <3>3. QED
      BY <2>1, <2>6, <3>2 DEF Result, HardErr
  <2>7. QED
    BY <2>5, <2>6
<1>7. QED
  BY <1>2, <1>3, <1>4, <1>5, <1>6
-----------------------------------------------------------------------------
(* copyBuf: what fits stays within the capacity it leaves.                 *)
LEMMA CopyBound ==
    ASSUME NEW len \in Nat \ {0}, NEW idx \in Nat, NEW n \in Nat, Holds(idx, len)
    PROVE  /\ CopyLen(len, idx, n) \in Nat \ {0}
           /\ CopyLen(len, idx, n) >= len
           /\ Holds(idx, CopyLen(len, idx, n))
           /\ CopyFits(len, idx, n) => Holds(idx + n, CopyLen(len, idx, n))
<1>1. /\ CopyLen(len, idx, n) \in Nat \ {0}
      /\ CopyLen(len, idx, n) >= len
      /\ Holds(idx, CopyLen(len, idx, n))
  <2>1. CopyLen(len, idx, n) \in {len, Expand(len, n)} /\ n \in Int
    BY DEF CopyLen
  <2>2. Expand(len, n) \in Nat \ {0} /\ Expand(len, n) >= len
    BY <2>1, ExpandBound
  <2>3. Holds(idx, Expand(len, n))
    BY <2>1, ExpandHolds
  <2>4. QED
    BY <2>1, <2>2, <2>3
<1>2. ASSUME CopyFits(len, idx, n)
      PROVE  idx + n <= CopyLen(len, idx, n)
  BY <1>1, <1>2 DEF CopyFits, FreeLen, Holds
<1>3. QED
  BY <1>1, <1>2 DEF Holds

(* DO_CACHE_MSG keeps all of its bytes or none.                            *)
LEMMA CacheMsgSends ==
    ASSUME NEW c, Good(c), Ready(c), NEW m \in Seq(Nat), NEW n \in Nat
    PROVE  /\ CacheMsg(c, m, n).msg = <<>>
           /\ CopyFits(c.txLen, Len(c.tx), Len(m)) =>
                Sends(c, CacheMsg(c, m, n).c, m) /\ CacheMsg(c, m, n).ret = n
           /\ ~CopyFits(c.txLen, Len(c.tx), Len(m)) =>
                Sends(c, CacheMsg(c, m, n).c, <<>>) /\ CacheMsg(c, m, n).ret = HardErr
<1> DEFINE len == CopyLen(c.txLen, Len(c.tx), Len(m))
           idx == Len(c.tx) + Len(m)
           cap == CheckLen(len, idx, 0)
<1>1. /\ c.tx \in Seq(Nat) /\ c.wire \in Seq(Nat) /\ c.txLen \in Nat \ {0}
      /\ Len(c.tx) \in Nat /\ Len(c.wire) \in Nat /\ Len(m) \in Nat
  BY LenProperties DEF Good, Sockets
<1>2. /\ len \in Nat \ {0} /\ len >= c.txLen /\ Holds(Len(c.tx), len)
      /\ CopyFits(c.txLen, Len(c.tx), Len(m)) => Holds(idx, len)
  BY <1>1, CopyBound DEF Good, TxHolds
<1>3. cap \in Nat \ {0} /\ cap >= len /\ (Holds(idx, len) => Holds(idx, cap))
  <2>1. idx \in Nat /\ 0 \in Nat
    BY <1>1
  <2> HIDE DEF len, idx
  <2>2. QED
    BY <1>2, <2>1, CheckLenBound
<1>4. CASE CopyFits(c.txLen, Len(c.tx), Len(m))
  <2>1. PICK st \in {c.state, "FULL"} :
          CacheMsg(c, m, n) = Result([c EXCEPT !.tx = c.tx \o m, !.txLen = cap, !.state = st], n)
    BY <1>4 DEF CacheMsg, Good, Sockets
  <2> DEFINE d == [c EXCEPT !.tx = c.tx \o m, !.txLen = cap, !.state = st]
  <2>2. c.tx \o m \in Seq(Nat) /\ Len(c.tx \o m) = idx
    BY <1>1, ConcatProperties
  <2> HIDE DEF len, cap, idx
  <2>3. d \in Sockets
    BY <1>3, <2>2 DEF Good, Sockets, States
  <2>4. /\ d.txLen = cap /\ d.state = st /\ d.tx = c.tx \o m /\ d.wire = c.wire
        /\ d.rxLen = c.rxLen /\ d.rx = c.rx /\ d.inbox = c.inbox /\ d.fd = c.fd
        /\ d.armed = c.armed /\ d.link = c.link
    BY DEF Good, Sockets
  <2> HIDE DEF d
  <2>5. Ready(d)
    BY <2>1, <2>4 DEF Ready
  <2>6. TxHolds(d)
    BY <1>2, <1>3, <1>4, <2>2, <2>4 DEF TxHolds
  <2>7. Good(d)
    BY <2>3, <2>4, <2>5, <2>6 DEF Good, FdMatches, Fresh, Ready, RxHolds
  <2>8. d.wire \o d.tx = (c.wire \o c.tx) \o m
    <3>1. (c.wire \o c.tx) \o m = c.wire \o (c.tx \o m)
      BY <1>1, Assoc
    <3>2. QED
      BY <2>4, <3>1
  <2>9. Sends(c, d, m)
    BY <1>1, <1>2, <1>3, <2>4, <2>5, <2>7, <2>8 DEF Sends
  <2>10. CacheMsg(c, m, n) = Result(d, n)
    BY <2>1 DEF d
  <2>11. QED
    BY <1>4, <2>9, <2>10 DEF Result
<1>5. CASE ~CopyFits(c.txLen, Len(c.tx), Len(m))
  <2> DEFINE d == [c EXCEPT !.txLen = len, !.err = "NO_SPACE"]
  <2>1. CacheMsg(c, m, n) = Result(d, HardErr)
    BY <1>5 DEF CacheMsg
  <2> HIDE DEF len
  <2>2. d \in Sockets
    BY <1>2 DEF Good, Sockets, Errors
  <2>3. /\ d.txLen = len /\ d.state = c.state /\ d.tx = c.tx /\ d.wire = c.wire
        /\ d.rxLen = c.rxLen /\ d.rx = c.rx /\ d.inbox = c.inbox /\ d.fd = c.fd
        /\ d.armed = c.armed /\ d.link = c.link
    BY DEF Good, Sockets
  <2> HIDE DEF d
  <2>4. Good(d) /\ Ready(d)
    BY <1>2, <2>2, <2>3 DEF Good, FdMatches, Fresh, Ready, TxHolds, RxHolds
  <2>5. (c.wire \o c.tx) \o <<>> = c.wire \o c.tx
    BY <1>1, ConcatProperties, ConcatEmptySeq
  <2>6. Sends(c, d, <<>>)
    BY <1>1, <1>2, <2>3, <2>4, <2>5 DEF Sends
  <2>7. QED
    BY <1>5, <2>1, <2>6 DEF Result
<1>6. QED
  BY <1>4, <1>5
LEMMA SendsAfter ==
    ASSUME NEW c, Good(c), NEW d, NEW e, NEW a \in Seq(Nat), NEW b \in Seq(Nat),
           Sends(c, d, a), Sends(d, e, b)
    PROVE  Sends(c, e, a \o b)
<1>1. /\ c.tx \in Seq(Nat) /\ c.wire \in Seq(Nat) /\ d.wire \in Seq(Nat) /\ e.wire \in Seq(Nat)
      /\ c.txLen \in Nat /\ d.txLen \in Nat /\ e.txLen \in Nat
  BY DEF Sends, Good, Sockets
<1>2. c.wire \o c.tx \in Seq(Nat)
  BY <1>1, ConcatProperties
<1>3. ((c.wire \o c.tx) \o a) \o b = (c.wire \o c.tx) \o (a \o b)
  BY <1>2, Assoc
<1>4. Len(c.wire) \in Nat /\ Len(d.wire) \in Nat /\ Len(e.wire) \in Nat
  BY <1>1, LenProperties
<1>5. QED
  BY <1>1, <1>3, <1>4 DEF Sends

(* send() of bytes that have not been cached, the cache being empty.       *)
LEMMA WireSends ==
    ASSUME NEW c, Good(c), Ready(c), c.tx = <<>>, NEW a \in Seq(Nat)
    PROVE  Sends(c, [c EXCEPT !.wire = @ \o a], a)
<1> DEFINE d == [c EXCEPT !.wire = c.wire \o a]
<1>1. /\ c.wire \in Seq(Nat) /\ c.wire \o a \in Seq(Nat) /\ c.txLen \in Nat
      /\ Len(c.wire \o a) = Len(c.wire) + Len(a)
      /\ Len(c.wire) \in Nat /\ Len(a) \in Nat
  BY ConcatProperties, LenProperties DEF Good, Sockets
<1>2. [c EXCEPT !.wire = @ \o a] = d
  BY DEF Good, Sockets
<1>3. d \in Sockets
  BY <1>1 DEF Good, Sockets
<1>4. /\ d.txLen = c.txLen /\ d.state = c.state /\ d.tx = <<>> /\ d.wire = c.wire \o a
      /\ d.rxLen = c.rxLen /\ d.rx = c.rx /\ d.inbox = c.inbox /\ d.fd = c.fd
      /\ d.armed = c.armed /\ d.link = c.link
  BY DEF Good, Sockets
<1> HIDE DEF d
<1>5. Good(d) /\ Ready(d)
  BY <1>3, <1>4, SameGood DEF Ready, Good
<1>6. (c.wire \o a) \o <<>> = c.wire \o a /\ c.wire \o <<>> = c.wire
  BY <1>1, ConcatEmptySeq
<1>7. Sends(c, d, a)
  BY <1>1, <1>4, <1>5, <1>6 DEF Sends
<1>8. QED
  BY <1>2, <1>7

(* A message no longer than the largest capacity fits into an empty cache. *)
LEMMA FitsWhenEmpty ==
    ASSUME NEW len \in Nat \ {0}, NEW n \in Nat, len >= InitLen, n <= Cap
    PROVE  CopyFits(len, 0, n)
<1>1. CASE n <= len
  BY <1>1 DEF CopyFits, CopyLen, FreeLen
<1>2. CASE n > len
  <2>1. n \in Int /\ n > 0 /\ FreeLen(len, 0) = len
    BY <1>2 DEF FreeLen
  <2>2. /\ Expand(len, n) \in Nat \ {0}
        /\ Expand(len, n) >= len + n \/ Expand(len, n) >= MaxLen
    BY <2>1, ExpandBound
  <2>3. CopyLen(len, 0, n) = Expand(len, n)
    BY <1>2, <2>1 DEF CopyLen
  <2>4. n <= Expand(len, n)
    BY <1>2, <2>2, BuffAssumption DEF Cap
  <2>5. QED
    BY <2>2, <2>3, <2>4 DEF CopyFits, FreeLen
<1>3. QED
  BY <1>1, <1>2

(* The result w of writing m has added all of m to the stream if it says   *)
(* success, and none of it if it fails, provided m fits the largest cache. *)
Writes(c, w, m) ==
    /\ w.ret \in Int
    /\ \E b \in Seq(Nat) :
         /\ Sends(c, w.c, b)
         /\ w.ret >= 0 => b = m
         /\ w.ret < 0 /\ c.txLen >= InitLen /\ Len(m) <= Cap => b = <<>>

LEMMA RefusedWrites ==
    ASSUME NEW c, NEW m, NEW w, Sends(c, w.c, <<>>), w.ret = HardErr
    PROVE  Writes(c, w, m)
<1>1. w.ret \in Int /\ ~(w.ret >= 0)
  BY DEF HardErr
<1>2. QED
  BY <1>1, EmptyIsSeq DEF Writes

LEMMA AcceptedWrites ==
    ASSUME NEW c, NEW m \in Seq(Nat), NEW w, Sends(c, w.c, m), w.ret = Len(m)
    PROVE  Writes(c, w, m)
<1>1. Len(m) \in Nat
  BY LenProperties
<1>2. w.ret \in Int /\ ~(w.ret < 0)
  BY <1>1
<1>3. QED
  BY <1>2 DEF Writes

LEMMA WriteMsgSends ==
    ASSUME NEW c, Good(c), NEW m \in Seq(Nat), NEW k \in SendOutcomes(c, Len(c.tx)),
           NEW ok \in BOOLEAN, NEW j \in SendOutcomes(c, Len(m)),
           c.state = "CONNECTED", m # <<>>
    PROVE  Writes(c, WriteMsg(c, m, k, ok, j), m)
<1> DEFINE flush == IF c.tx = <<>> THEN Result(c, 0) ELSE DoWrite(c, k, ok)
           d == flush.c
           w == WriteMsg(c, m, k, ok, j)
           a == SubSeq(m, 1, j)
           r == SubSeq(m, j + 1, Len(m))
           e == [d EXCEPT !.wire = @ \o a]
           f == [d EXCEPT !.wire = @ \o m]
<1>1. Ready(c) /\ Len(m) \in Nat /\ j \in Int /\ (j >= 0 => j <= Len(m))
  BY LenProperties DEF Ready, SendOutcomes, HardErr
<1>2. Sends(c, d, <<>>) /\ flush.ret \in Int
  <2>1. Sends(c, c, <<>>)
    BY <1>1, SendsNothing
  <2>2. QED
    <3>1. Len(c.tx) \in Nat
      BY LenProperties DEF Good, Sockets
    <3>2. k \in Int /\ k <= Len(c.tx)
      BY <3>1, SendBound
    <3>3. CASE c.tx = <<>>
      BY <2>1, <3>3 DEF Result
    <3>4. CASE c.tx # <<>>
      <4>1. Sends(c, DoWrite(c, k, ok).c, <<>>) /\ DoWrite(c, k, ok).ret \in Int
        BY <1>1, <3>2, DoWriteSends
      <4>2. QED
        BY <3>4, <4>1
    <3>5. QED
      BY <3>3, <3>4
<1>3. w = IF flush.ret < 0 THEN Result(d, HardErr)
          ELSE IF d.tx # <<>> THEN CacheMsg(d, m, Len(m))
          ELSE IF j < 0 THEN Result(SetErr(d, "SYS_ERR"), HardErr)
          ELSE IF j < Len(m) THEN CacheMsg(e, r, Len(m))
          ELSE Result(f, Len(m))
  BY DEF WriteMsg
<1> HIDE DEF flush, d, w, e, f
<1>4. Good(d) /\ Ready(d) /\ d.txLen >= c.txLen /\ d.txLen \in Nat \ {0} /\ c.txLen \in Nat
  BY <1>2 DEF Sends, Good, Sockets
<1>5. CASE flush.ret < 0
  <2>1. w = Result(d, HardErr)
    BY <1>3, <1>5
  <2>2. QED
    BY <1>2, <2>1, RefusedWrites DEF Result, w
<1>6. CASE flush.ret >= 0 /\ d.tx # <<>>
  <2> DEFINE g == CacheMsg(d, m, Len(m))
  <2>1. w = g
    BY <1>2, <1>3, <1>6
  <2>2. \/ Sends(d, g.c, m) /\ g.ret = Len(m)
        \/ Sends(d, g.c, <<>>) /\ g.ret = HardErr
    BY <1>1, <1>4, CacheMsgSends
  <2> HIDE DEF g
  <2>3. \/ Sends(c, g.c, m) /\ g.ret = Len(m)
        \/ Sends(c, g.c, <<>>) /\ g.ret = HardErr
    BY <1>2, <2>2, EmptyIsSeq, SendsThenSends
  <2>4. QED
    BY <2>1, <2>3, RefusedWrites, AcceptedWrites DEF w
<1>7. CASE flush.ret >= 0 /\ d.tx = <<>> /\ j < 0
  <2> DEFINE g == SetErr(d, "SYS_ERR")
  <2>1. w = Result(g, HardErr)
    BY <1>2, <1>3, <1>7
  <2>2. Sends(d, g, <<>>)
    BY <1>4, SetErrSends DEF Errors
  <2> HIDE DEF g
  <2>3. Sends(c, g, <<>>)
    BY <1>2, <2>2, EmptyIsSeq, SendsThenSends
  <2>4. w.ret = HardErr /\ w.c = g
    BY <2>1 DEF Result
  <2>5. QED
    BY <2>3, <2>4, RefusedWrites DEF w
<1>8. CASE flush.ret >= 0 /\ d.tx = <<>> /\ j >= 0 /\ j < Len(m)
  <2> DEFINE g == CacheMsg(e, r, Len(m))
  <2>1. w = g
    BY <1>1, <1>2, <1>3, <1>8
  <2>2. a \in Seq(Nat) /\ r \in Seq(Nat) /\ a \o r = m /\ Len(r) = Len(m) - j
    <3>1. j \in 0..Len(m)
      BY <1>1, <1>8
    <3>2. QED
      BY <3>1, Split
  <2>3. Sends(d, e, a)
    BY <1>4, <1>8, <2>2, WireSends DEF e
  <2>4. Sends(c, e, a)
    <3>1. Sends(c, e, <<>> \o a)
      BY <1>2, <2>2, <2>3, EmptyIsSeq, SendsAfter
    <3>2. QED
      BY <2>2, <3>1, ConcatEmptySeq
  <2>5. /\ Good(e) /\ Ready(e) /\ e.txLen >= c.txLen /\ e.tx \in Seq(Nat)
        /\ e.txLen \in Nat \ {0}
    BY <2>4 DEF Sends, Good, Sockets
  <2>6. e.tx = <<>>
    BY <1>8 DEF e, Good, Sockets
  <2>7. /\ CopyFits(e.txLen, Len(e.tx), Len(r)) =>
             Sends(e, g.c, r) /\ g.ret = Len(m)
        /\ ~CopyFits(e.txLen, Len(e.tx), Len(r)) =>
             Sends(e, g.c, <<>>) /\ g.ret = HardErr
    BY <1>1, <2>2, <2>5, CacheMsgSends
  <2> HIDE DEF g, a, r
  <2>8. CASE CopyFits(e.txLen, Len(e.tx), Len(r))
    <3>1. Sends(c, g.c, a \o r)
      BY <2>2, <2>4, <2>7, <2>8, SendsAfter
    <3>2. QED
      BY <2>1, <2>2, <2>7, <2>8, <3>1, AcceptedWrites DEF w
  <2>9. CASE ~CopyFits(e.txLen, Len(e.tx), Len(r))
    <3>1. Sends(c, g.c, a)
      <4>1. Sends(c, g.c, a \o <<>>)
        BY <2>2, <2>4, <2>7, <2>9, EmptyIsSeq, SendsAfter
      <4>2. QED
        BY <2>2, <4>1, ConcatEmptySeq
    <3>2. ~(c.txLen >= InitLen /\ Len(m) <= Cap)
      <4>1. SUFFICES ASSUME c.txLen >= InitLen, Len(m) <= Cap
                     PROVE  FALSE
        OBVIOUS
      <4>2. Len(r) \in Nat /\ Len(r) <= Cap /\ e.txLen >= InitLen
        <5>1. Cap \in Int /\ InitLen \in Nat
          BY BuffAssumption DEF Cap
        <5>2. Len(m) \in Nat /\ Len(r) \in Nat
          BY <2>2, LenProperties
        <5>3. Len(r) <= Len(m)
          BY <1>1, <1>8, <2>2, <5>2
        <5>4. Len(r) <= Cap
          BY <4>1, <5>1, <5>2, <5>3
        <5>5. e.txLen >= InitLen
          BY <1>4, <2>5, <4>1, <5>1
        <5>6. QED
          BY <5>2, <5>4, <5>5
      <4>3. Len(e.tx) = 0
        BY <2>6, EmptySeq
      <4>4. QED
        BY <2>5, <2>9, <4>2, <4>3, FitsWhenEmpty
    <3>3. QED
      <4>1. w.ret < 0 /\ ~(w.ret >= 0) /\ w.ret \in Int
        BY <2>1, <2>7, <2>9 DEF HardErr
      <4>2. QED
        BY <2>1, <2>2, <3>1, <3>2, <4>1 DEF w, Writes
  <2>10. QED
    BY <2>8, <2>9
<1>9. CASE flush.ret >= 0 /\ d.tx = <<>> /\ j >= 0 /\ ~(j < Len(m))
  <2>1. w = Result(f, Len(m))
    BY <1>1, <1>2, <1>3, <1>9
  <2>2. Sends(d, f, m)
    BY <1>4, <1>9, WireSends DEF f
  <2>3. Sends(c, f, m)
    BY <1>2, <2>2, SendsThenSends
  <2>4. w.ret = Len(m) /\ w.c = f
    BY <2>1 DEF Result
  <2>5. QED
    BY <2>3, <2>4, AcceptedWrites DEF w
<1>10. QED
  BY <1>1, <1>2, <1>5, <1>6, <1>7, <1>8, <1>9
-----------------------------------------------------------------------------
(* Receiving, and the rest of an event.                                     *)

(* d is c after a step that has handed b to the application: nothing is    *)
(* added to the stream being sent, nothing lost of the one received.       *)
Handles(c, d, b) ==
    /\ Good(d)
    /\ b \in Seq(Nat)
    /\ BufSizes = {} => d.txLen >= c.txLen
    /\ Connection(d) => Connection(c) /\ d.wire \o d.tx = c.wire \o c.tx
    /\ HasReceiver /\ Connection(d) /\ d.fd =>
         c.fd /\ b \o (d.rx \o d.inbox) = c.rx \o c.inbox

LEMMA HandlesAfter ==
    ASSUME NEW c, Good(c), NEW d, NEW e, NEW a, NEW b, Handles(c, d, a), Handles(d, e, b)
    PROVE  Handles(c, e, a \o b)
<1>1. /\ a \in Seq(Nat) /\ b \in Seq(Nat) /\ a \o b \in Seq(Nat)
      /\ e.rx \o e.inbox \in Seq(Nat)
      /\ c.txLen \in Nat /\ d.txLen \in Nat /\ e.txLen \in Nat
  <2>1. /\ a \in Seq(Nat) /\ b \in Seq(Nat) /\ e.rx \in Seq(Nat) /\ e.inbox \in Seq(Nat)
        /\ c.txLen \in Nat /\ d.txLen \in Nat /\ e.txLen \in Nat
    BY DEF Handles, Good, Sockets
  <2>2. QED
    BY <2>1, ConcatProperties
<1>2. (a \o b) \o (e.rx \o e.inbox) = a \o (b \o (e.rx \o e.inbox))
  BY <1>1, Assoc
<1>3. /\ Good(e) /\ (BufSizes = {} => e.txLen >= c.txLen)
      /\ Connection(e) => Connection(c) /\ e.wire \o e.tx = c.wire \o c.tx
  <2>1. Good(e) /\ (BufSizes = {} => e.txLen >= d.txLen /\ d.txLen >= c.txLen)
    BY DEF Handles
  <2>2. BufSizes = {} => e.txLen >= c.txLen
    BY <1>1, <2>1
  <2>3. ASSUME Connection(e)
        PROVE  Connection(c) /\ e.wire \o e.tx = c.wire \o c.tx
    BY <2>3, Zenon DEF Handles
  <2>4. QED
    BY <2>1, <2>2, <2>3
<1>4. ASSUME HasReceiver, Connection(e), e.fd
      PROVE  c.fd /\ (a \o b) \o (e.rx \o e.inbox) = c.rx \o c.inbox
  BY <1>2, <1>4 DEF Handles
<1>5. QED
  BY <1>1, <1>3, <1>4 DEF Handles

LEMMA HandlesThen ==
    ASSUME NEW c, Good(c), NEW d, NEW e, NEW a, Handles(c, d, a), Handles(d, e, <<>>)
    PROVE  Handles(c, e, a)
<1>1. a \in Seq(Nat) /\ a \o <<>> = a
  BY ConcatEmptySeq DEF Handles
<1>2. Handles(c, e, a \o <<>>)
  BY HandlesAfter
<1>3. QED
  BY <1>1, <1>2

(* A step that leaves the bytes alone.                                     *)
LEMMA KeepsBytes ==
    ASSUME NEW c, Good(c), NEW d, Good(d), BufSizes = {} => d.txLen >= c.txLen,
           Connection(d) => /\ Connection(c)
                            /\ d.wire = c.wire /\ d.tx = c.tx
                            /\ d.fd => c.fd /\ d.rx = c.rx /\ d.inbox = c.inbox
    PROVE  Handles(c, d, <<>>)
<1>1. c.rx \o c.inbox \in Seq(Nat)
  BY ConcatProperties DEF Good, Sockets
<1>2. <<>> \o (c.rx \o c.inbox) = c.rx \o c.inbox
  BY <1>1, ConcatEmptySeq
<1>3. QED
  BY <1>2, EmptyIsSeq DEF Handles

LEMMA SameHandles ==
    ASSUME NEW c, Good(c)
    PROVE  Handles(c, c, <<>>)
<1>1. c.txLen >= c.txLen
  BY DEF Good, Sockets
<1>2. QED
  BY <1>1, KeepsBytes

LEMMA SendsHandles ==
    ASSUME NEW c, Good(c), Ready(c), NEW d, Sends(c, d, <<>>)
    PROVE  Handles(c, d, <<>>)
<1>1. c.rx \o c.inbox \in Seq(Nat) /\ c.wire \o c.tx \in Seq(Nat)
  <2>1. /\ c.rx \in Seq(Nat) /\ c.inbox \in Seq(Nat)
        /\ c.wire \in Seq(Nat) /\ c.tx \in Seq(Nat)
    BY DEF Good, Sockets
  <2>2. QED
    BY <2>1, ConcatProperties
<1>2. <<>> \o (c.rx \o c.inbox) = c.rx \o c.inbox /\ (c.wire \o c.tx) \o <<>> = c.wire \o c.tx
  BY <1>1, ConcatEmptySeq
<1>3. QED
  BY <1>2, EmptyIsSeq DEF Handles, Sends, Connection, Ready

LEMMA SetErrHandles ==
    ASSUME NEW c, Good(c), NEW e \in Errors
    PROVE  Handles(c, SetErr(c, e), <<>>)
<1> DEFINE d == SetErr(c, e)
<1>1. Good(d) /\ d = [c EXCEPT !.err = e]
  BY SetErrGood
<1>2. /\ d.txLen >= c.txLen /\ d.state = c.state /\ d.tx = c.tx /\ d.wire = c.wire
      /\ d.fd = c.fd /\ d.rx = c.rx /\ d.inbox = c.inbox
  BY <1>1 DEF Good, Sockets
<1> HIDE DEF d
<1>3. Handles(c, d, <<>>)
  BY <1>1, <1>2, KeepsBytes DEF Connection
<1>4. QED
  BY <1>3 DEF d

LEMMA OnSocketErrHandles ==
    ASSUME NEW c, Good(c), NEW e \in Errors
    PROVE  Handles(c, OnSocketErr(c, e), <<>>)
<1> DEFINE d == OnSocketErr(c, e)
<1>1. /\ Good(d)
      /\ ~Connection(d) \/ d = [c EXCEPT !.err = d.err]
  BY OnSocketErrGood
<1>2. d.txLen = c.txLen
  <2>1. Reset(c).txLen = c.txLen /\ Reset(c) \in Sockets
    BY ResetGood DEF Good
  <2>2. [Reset(c) EXCEPT !.life = "deleted"].txLen = Reset(c).txLen
    BY <2>1 DEF Sockets
  <2>3. SetErr(c, e).txLen = c.txLen
    BY DEF SetErr, Good, Sockets
  <2>4. QED
    BY <2>1, <2>2, <2>3 DEF OnSocketErr
<1> HIDE DEF d
<1>3. d.txLen >= c.txLen
  BY <1>2 DEF Good, Sockets
<1>4. Handles(c, d, <<>>)
  BY <1>1, <1>3, KeepsBytes DEF Good, Sockets, Connection
<1>5. QED
  BY <1>4 DEF d

LEMMA CloseHandles ==
    ASSUME NEW c, Good(c)
    PROVE  Handles(c, Close(c), <<>>)
<1> DEFINE d == Close(c)
<1>1. /\ Good(d) /\ ~d.fd
      /\ d.txLen = c.txLen /\ d.state = c.state /\ d.tx = c.tx /\ d.wire = c.wire
  BY CloseGood
<1> HIDE DEF d
<1>2. d.txLen >= c.txLen
  BY <1>1 DEF Good, Sockets
<1>3. Handles(c, d, <<>>)
  BY <1>1, <1>2, KeepsBytes DEF Connection
<1>4. QED
  BY <1>3 DEF d
LEMMA RecvBound ==
    ASSUME NEW c, Good(c), NEW room \in Nat, NEW r \in RecvOutcomes(c, room)
    PROVE  /\ r \in Int
           /\ r # 0 /\ r # HardErr /\ r # Eof => r \in 1..room /\ r <= Len(c.inbox)
<1>1. c.link \in {"none", "syn"} \/ c.link \notin {"none", "syn"}
  OBVIOUS
<1>2. r = HardErr \/ r = Eof \/ (r \in 0..room /\ r <= Len(c.inbox))
  BY DEF RecvOutcomes
<1>3. QED
  BY <1>2 DEF HardErr, Eof

LEMMA AddLenBound ==
    ASSUME NEW len \in Nat \ {0}, NEW idx \in Nat
    PROVE  /\ AddLen(len, idx) \in Nat \ {0}
           /\ Holds(idx, len) => Holds(idx, AddLen(len, idx))
<1>1. ConnLen \in Int /\ AddLen(len, idx) \in {len, Expand(len, ConnLen)}
  BY BuffAssumption DEF AddLen
<1>2. Expand(len, ConnLen) \in Nat \ {0}
  BY <1>1, ExpandBound
<1>3. Holds(idx, len) => Holds(idx, Expand(len, ConnLen))
  BY <1>1, ExpandHolds
<1>4. QED
  BY <1>1, <1>2, <1>3

(* DoRead moves bytes from the kernel to the cache.                        *)
LEMMA DoReadHandles ==
    ASSUME NEW c, Good(c), Ready(c), NEW fake \in BOOLEAN, fake => ~HasReceiver,
           NEW room \in Nat, ~fake => room = FreeLen(c.rxLen, Len(c.rx)),
           NEW r \in RecvOutcomes(c, room)
    PROVE  /\ Handles(c, DoRead(c, r, fake).c, <<>>)
           /\ DoRead(c, r, fake).ret \in Int
           /\ DoRead(c, r, fake).msg = <<>>
<1> DEFINE bytes == IF fake THEN [i \in 1..r |-> Garbage] ELSE SubSeq(c.inbox, 1, r)
           rest == SubSeq(c.inbox, r + 1, Len(c.inbox))
           d == [c EXCEPT !.rx = c.rx \o bytes, !.rxLen = AddLen(c.rxLen, Len(c.rx) + r),
                          !.inbox = rest]
<1>1. Handles(c, c, <<>>)
  BY SameHandles
<1>2. CASE AssertFails(c)
  <2>1. DoRead(c, r, fake) = Result(Abort(c), HardErr)
    BY <1>2 DEF DoRead
  <2>2. Good(Abort(c))
    BY AbortGood
  <2>3. Handles(c, Abort(c), <<>>)
    <3>1. Abort(c) = [c EXCEPT !.life = "aborted"]
      BY DEF Abort
    <3>2. /\ Abort(c).txLen >= c.txLen /\ Abort(c).state = c.state /\ Abort(c).tx = c.tx
          /\ Abort(c).wire = c.wire /\ Abort(c).fd = c.fd /\ Abort(c).rx = c.rx
          /\ Abort(c).inbox = c.inbox
      BY <3>1 DEF Good, Sockets
    <3>3. QED
      BY <2>2, <3>2, KeepsBytes DEF Connection
  <2>4. QED
    BY <2>1, <2>3 DEF Result, HardErr
<1>3. CASE ~AssertFails(c) /\ r = 0
  <2>1. DoRead(c, r, fake) = Result(c, 0)
    BY <1>3 DEF DoRead
  <2>2. QED
    BY <1>1, <2>1 DEF Result
<1>4. CASE ~AssertFails(c) /\ r \in {HardErr, Eof}
  <2>1. PICK e \in Errors : DoRead(c, r, fake) = Result(SetErr(c, e), HardErr)
    BY <1>4 DEF DoRead, HardErr, Eof, Errors
  <2>2. Handles(c, SetErr(c, e), <<>>)
    BY SetErrHandles
  <2>3. QED
    BY <2>1, <2>2 DEF Result, HardErr
<1>5. CASE ~AssertFails(c) /\ r # 0 /\ r # HardErr /\ r # Eof
  <2>1. r \in 1..room /\ r <= Len(c.inbox) /\ r \in Nat
    BY <1>5, RecvBound
  <2>2. /\ c.inbox \in Seq(Nat) /\ c.rx \in Seq(Nat) /\ c.rxLen \in Nat \ {0}
        /\ Len(c.inbox) \in Nat /\ Len(c.rx) \in Nat
    BY LenProperties DEF Good, Sockets
  <2>3. DoRead(c, r, fake) = Result(d, r)
    BY <1>5 DEF DoRead, Good, Sockets
  <2>4. /\ SubSeq(c.inbox, 1, r) \in Seq(Nat) /\ rest \in Seq(Nat)
        /\ Len(SubSeq(c.inbox, 1, r)) = r /\ SubSeq(c.inbox, 1, r) \o rest = c.inbox
    <3>1. r \in 0..Len(c.inbox)
      BY <2>1, <2>2
    <3>2. /\ SubSeq(c.inbox, 1, r) \in Seq(Nat) /\ rest \in Seq(Nat)
          /\ Len(rest) = Len(c.inbox) - r /\ SubSeq(c.inbox, 1, r) \o rest = c.inbox
      BY <2>2, <3>1, Split
    <3> HIDE DEF rest
    <3>3. Len(SubSeq(c.inbox, 1, r) \o rest) = Len(SubSeq(c.inbox, 1, r)) + Len(rest)
      BY <3>2, ConcatProperties
    <3>4. Len(SubSeq(c.inbox, 1, r)) \in Nat
      BY <3>2, LenProperties
    <3>5. QED
      BY <2>1, <2>2, <3>2, <3>3, <3>4
  <2>5. bytes \in Seq(Nat) /\ Len(bytes) = r
    <3>1. CASE fake
      <4>1. bytes = [i \in 1..r |-> Garbage]
        BY <3>1
      <4>2. [i \in 1..r |-> Garbage] \in Seq(Nat) /\ Len([i \in 1..r |-> Garbage]) = r
        BY <2>1 DEF Garbage
      <4>3. QED
        BY <4>1, <4>2
    <3>2. CASE ~fake
      BY <2>4, <3>2
    <3>3. QED
      BY <3>1, <3>2
  <2>6. c.rx \o bytes \in Seq(Nat) /\ Len(c.rx \o bytes) = Len(c.rx) + r
    <3> HIDE DEF bytes
    <3>1. QED
      BY <2>2, <2>5, ConcatProperties
  <2>7. /\ AddLen(c.rxLen, Len(c.rx) + r) \in Nat \ {0}
        /\ Holds(Len(c.rx) + r, c.rxLen) =>
             Holds(Len(c.rx) + r, AddLen(c.rxLen, Len(c.rx) + r))
    <3>1. Len(c.rx) + r \in Nat
      BY <2>1, <2>2
    <3>2. QED
      BY <2>2, <3>1, AddLenBound
  <2> DEFINE rx == c.rx \o bytes
             len == AddLen(c.rxLen, Len(c.rx) + r)
  <2>8. d = [c EXCEPT !.rx = rx, !.rxLen = len, !.inbox = rest]
    OBVIOUS
  <2>9. HasReceiver => Holds(Len(rx), len)
    <3>1. ASSUME HasReceiver
          PROVE  Holds(Len(c.rx) + r, c.rxLen)
      <4>1. ~fake /\ Holds(Len(c.rx), c.rxLen)
        BY <3>1 DEF Good, RxHolds
      <4>2. Len(c.rx) + r <= c.rxLen
        BY <2>1, <2>2, <4>1 DEF FreeLen
      <4>3. QED
        BY <4>1, <4>2 DEF Holds
    <3>2. QED
      BY <2>6, <2>7, <3>1
  <2>10. HasReceiver => rx \o rest = c.rx \o c.inbox
    <3>1. SUFFICES ASSUME HasReceiver
                   PROVE  rx \o rest = c.rx \o c.inbox
      OBVIOUS
    <3>2. bytes \o rest = c.inbox
      BY <2>4, <3>1
    <3> HIDE DEF bytes, rest
    <3>3. (c.rx \o bytes) \o rest = c.rx \o (bytes \o rest)
      BY <2>2, <2>4, <2>5, Assoc
    <3>4. QED
      BY <3>2, <3>3
  <2> HIDE DEF bytes, rest, rx, len, d
  <2>11. d \in Sockets
    BY <2>4, <2>6, <2>7, <2>8 DEF Good, Sockets, rx, len
  <2>12. /\ d.txLen = c.txLen /\ d.state = c.state /\ d.tx = c.tx /\ d.wire = c.wire
         /\ d.rxLen = len /\ d.rx = rx /\ d.inbox = rest /\ d.fd = c.fd
         /\ d.armed = c.armed /\ d.link = c.link /\ d.txLen >= c.txLen
    BY <2>8 DEF Good, Sockets
  <2>13. Good(d)
    BY <2>9, <2>11, <2>12 DEF Good, FdMatches, Fresh, Ready, TxHolds, RxHolds
  <2>14. HasReceiver => <<>> \o (d.rx \o d.inbox) = c.rx \o c.inbox
    <3>1. c.rx \o c.inbox \in Seq(Nat)
      BY <2>2, ConcatProperties
    <3>2. QED
      BY <2>10, <2>12, <3>1, ConcatEmptySeq
  <2>15. Handles(c, d, <<>>)
    BY <2>12, <2>13, <2>14, EmptyIsSeq DEF Handles, Connection
  <2>16. QED
    BY <2>1, <2>3, <2>15 DEF Result
<1>6. QED
  BY <1>2, <1>3, <1>4, <1>5
(* Handing n bytes of the cache to the application.                        *)
LEMMA TakenHandles ==
    ASSUME NEW c, Good(c), Ready(c), NEW n \in Nat, HasMsg(c, n)
    PROVE  Handles(c, Taken(c, n), SubSeq(c.rx, 1, n))
<1> DEFINE a == SubSeq(c.rx, 1, n)
           b == SubSeq(c.rx, n + 1, Len(c.rx))
           d == [c EXCEPT !.rx = b]
<1>1. c.rx \in Seq(Nat) /\ c.inbox \in Seq(Nat) /\ Len(c.rx) \in Nat
  BY LenProperties DEF Good, Sockets
<1>2. a \in Seq(Nat) /\ b \in Seq(Nat) /\ Len(b) = Len(c.rx) - n /\ a \o b = c.rx
  <2>1. n \in 0..Len(c.rx)
    BY <1>1 DEF HasMsg
  <2>2. QED
    BY <1>1, <2>1, Split
<1>3. Taken(c, n) = d
  BY DEF Taken, Good, Sockets
<1> HIDE DEF a, b
<1>4. d \in Sockets
  BY <1>2 DEF Good, Sockets
<1>5. /\ d.txLen = c.txLen /\ d.state = c.state /\ d.tx = c.tx /\ d.wire = c.wire
      /\ d.rxLen = c.rxLen /\ d.rx = b /\ d.inbox = c.inbox /\ d.fd = c.fd
      /\ d.armed = c.armed /\ d.link = c.link /\ d.txLen >= c.txLen
  BY DEF Good, Sockets
<1> HIDE DEF d
<1>6. Len(b) <= Len(c.rx)
  BY <1>1, <1>2
<1>7. HasReceiver => RxHolds(d)
  BY <1>1, <1>2, <1>5, <1>6 DEF Good, RxHolds, Holds, Sockets
<1>8. Good(d)
  BY <1>4, <1>5, <1>7 DEF Good, FdMatches, Fresh, Ready, TxHolds
<1>9. a \o (d.rx \o d.inbox) = c.rx \o c.inbox
  <2>1. (a \o b) \o c.inbox = a \o (b \o c.inbox)
    BY <1>1, <1>2, Assoc
  <2>2. QED
    BY <1>2, <1>5, <2>1
<1>10. Handles(c, d, a)
  BY <1>2, <1>5, <1>8, <1>9 DEF Handles, Connection
<1>11. QED
  BY <1>3, <1>10 DEF a

(* ReadMsg hands over n bytes of the stream or none.                       *)
LEMMA ReadMsgHandles ==
    ASSUME NEW c, Good(c), NEW n \in Nat,
           NEW r \in RecvOutcomes(c, FreeLen(c.rxLen, Len(c.rx)))
    PROVE  /\ Handles(c, ReadMsg(c, n, r).c, ReadMsg(c, n, r).msg)
           /\ ReadMsg(c, n, r).ret \in Int
           /\ ReadMsg(c, n, r).ret < 0 => ReadMsg(c, n, r).msg = <<>>
<1> DEFINE room == FreeLen(c.rxLen, Len(c.rx))
           read == IF room > 0 THEN DoRead(c, r, FALSE) ELSE Result(c, 0)
           d == read.c
           w == ReadMsg(c, n, r)
<1>1. CASE n = 0 \/ n > MaxStreamRead \/ ~Ready(c)
  <2>1. PICK e \in Errors : w = Result(SetErr(c, e), 0)
    BY <1>1 DEF ReadMsg, Errors
  <2>2. Handles(c, SetErr(c, e), <<>>)
    BY SetErrHandles
  <2>3. w.c = SetErr(c, e) /\ w.msg = <<>> /\ w.ret = 0
    BY <2>1 DEF Result
  <2>4. QED
    BY <2>2, <2>3
<1>2. CASE ~(n = 0 \/ n > MaxStreamRead) /\ Ready(c)
  <2>1. w = IF read.ret < 0 THEN Result(d, HardErr)
            ELSE IF HasMsg(d, n)
            THEN [c |-> Taken(d, n), ret |-> n, msg |-> SubSeq(d.rx, 1, n)]
            ELSE Result(d, 0)
    BY <1>2 DEF ReadMsg
  <2>2. Handles(c, d, <<>>) /\ read.ret \in Int
    <3>1. room \in Nat
      BY LenProperties DEF FreeLen, Good, Sockets
    <3>2. CASE room > 0
      <4>1. read = DoRead(c, r, FALSE) /\ FALSE \in BOOLEAN
        BY <3>2
      <4> HIDE DEF read
      <4>2. /\ Handles(c, DoRead(c, r, FALSE).c, <<>>)
            /\ DoRead(c, r, FALSE).ret \in Int
        BY <1>2, <3>1, <4>1, DoReadHandles, Zenon
      <4>3. QED
        BY <4>1, <4>2
    <3>3. CASE ~(room > 0)
      <4>1. read = Result(c, 0)
        BY <3>3
      <4>2. Result(c, 0).c = c /\ Result(c, 0).ret = 0
        BY DEF Result
      <4>3. d = c /\ read.ret = 0
        BY <4>1, <4>2, Zenon
      <4> HIDE DEF read, d
      <4>4. QED
        BY <4>3, SameHandles
    <3>4. QED
      BY <3>2, <3>3
  <2> HIDE DEF d, read, w
  <2>3. CASE read.ret < 0
    <3>1. w.c = d /\ w.msg = <<>> /\ w.ret = HardErr
      BY <2>1, <2>3 DEF Result
    <3>2. QED
      BY <2>2, <3>1 DEF w, HardErr
  <2>4. CASE ~(read.ret < 0) /\ ~HasMsg(d, n)
    <3>1. w.c = d /\ w.msg = <<>> /\ w.ret = 0
      BY <2>1, <2>4 DEF Result
    <3>2. QED
      BY <2>2, <3>1 DEF w
  <2>5. CASE ~(read.ret < 0) /\ HasMsg(d, n)
    <3>1. w.c = Taken(d, n) /\ w.msg = SubSeq(d.rx, 1, n) /\ w.ret = n
      BY <2>1, <2>5
    <3>2. Good(d) /\ d.rx \in Seq(Nat) /\ n \in 1..Len(d.rx)
      BY <1>2, <2>2, <2>5, LenProperties DEF Handles, Good, Sockets, HasMsg
    <3>3. Ready(d)
      <4>1. d.rx # <<>>
        BY <3>2, EmptySeq
      <4>2. QED
        BY <3>2, <4>1 DEF Good, Fresh
    <3>4. Handles(d, w.c, w.msg)
      BY <2>5, <3>1, <3>2, <3>3, TakenHandles
    <3>5. Handles(c, w.c, <<>> \o w.msg)
      BY <2>2, <3>4, HandlesAfter
    <3>6. <<>> \o w.msg = w.msg
      BY <3>4, ConcatEmptySeq DEF Handles
    <3>7. w.ret \in Int /\ ~(w.ret < 0)
      BY <3>1
    <3>8. QED
      BY <3>5, <3>6, <3>7 DEF w
  <2>6. QED
    BY <2>3, <2>4, <2>5
<1>3. QED
  BY <1>1, <1>2
(* The handler of EPOLLIN, with a receiver and without.                    *)
LEMMA ReadHandles ==
    ASSUME NEW c, Good(c), Ready(c), NEW r \in RecvOutcomes(c, ReadRoom(c))
    PROVE  /\ Handles(c, Read(c, r).c, Read(c, r).msg)
           /\ Read(c, r).ret \in Int
           /\ Read(c, r).ret < 0 => Read(c, r).msg = <<>>
<1>1. CASE HasReceiver
  <2> DEFINE read == ReadMsg(c, ReadLen, r)
             w == Receiver(c, r)
             d == Close(read.c)
  <2>1. Read(c, r) = w
    BY <1>1 DEF Read
  <2>2. /\ Handles(c, read.c, read.msg)
        /\ read.ret \in Int
        /\ read.ret < 0 => read.msg = <<>>
    BY <1>1, ReadMsgHandles, SocketAssumption DEF ReadRoom
  <2>3. w = read \/ w = [read EXCEPT !.c = d]
    BY DEF Receiver
  <2>4. Good(read.c)
    BY <2>2 DEF Handles
  <2>5. Handles(read.c, d, <<>>)
    BY <2>4, CloseHandles
  <2>6. Handles(c, d, read.msg)
    BY <2>2, <2>5, HandlesThen
  <2>7. read = [c |-> read.c, ret |-> read.ret, msg |-> read.msg]
    BY DEF ReadMsg, DoRead, Result
  <2> HIDE DEF read, d, w
  <2>8. (w.c = read.c \/ w.c = d) /\ w.ret = read.ret /\ w.msg = read.msg
    BY <2>3, <2>7
  <2>9. QED
    BY <2>1, <2>2, <2>6, <2>8
<1>2. CASE ~HasReceiver
  <2>1. Read(c, r) = DoRead(c, r, TRUE) /\ ReadRoom(c) = FakeLen /\ FakeLen \in Nat
    BY <1>2, SocketAssumption DEF Read, ReadRoom
  <2>2. /\ Handles(c, DoRead(c, r, TRUE).c, <<>>)
        /\ DoRead(c, r, TRUE).ret \in Int
        /\ DoRead(c, r, TRUE).msg = <<>>
    BY <1>2, <2>1, DoReadHandles
  <2>3. QED
    BY <2>1, <2>2
<1>3. QED
  BY <1>1, <1>2

(* The handler of EPOLLOUT.                                                *)
LEMMA WriteHandles ==
    ASSUME NEW c, Good(c), NEW k \in Int, k <= Len(c.tx),
           NEW ok \in BOOLEAN
    PROVE  /\ Handles(c, Write(c, k, ok).c, <<>>)
           /\ Write(c, k, ok).ret \in Int
<1>1. CASE Ready(c)
  <2>1. Write(c, k, ok) = DoWrite(c, k, ok)
    BY <1>1 DEF Write
  <2>2. Sends(c, DoWrite(c, k, ok).c, <<>>) /\ DoWrite(c, k, ok).ret \in Int
    BY <1>1, DoWriteSends
  <2>3. Handles(c, DoWrite(c, k, ok).c, <<>>)
    BY <1>1, <2>2, SendsHandles
  <2>4. QED
    BY <2>1, <2>2, <2>3
<1>2. CASE ~Ready(c)
  <2>1. Write(c, k, ok) = Result(SetErr(c, "NOT_READY"), HardErr)
    BY <1>2 DEF Write
  <2>2. Handles(c, SetErr(c, "NOT_READY"), <<>>)
    BY SetErrHandles DEF Errors
  <2>3. QED
    BY <2>1, <2>2 DEF Result, HardErr
<1>3. QED
  BY <1>1, <1>2
(* Reading leaves the sending cache alone.                                 *)
LEMMA ReadKeepsTx ==
    ASSUME NEW c, Good(c), Ready(c), NEW r \in RecvOutcomes(c, ReadRoom(c))
    PROVE  Read(c, r).c.tx = c.tx
<1>1. ASSUME NEW d \in Sockets, NEW fake \in BOOLEAN
      PROVE  DoRead(d, r, fake).c.tx = d.tx
  BY DEF DoRead, Result, Abort, SetErr, Sockets
<1>2. CASE HasReceiver
  <2> DEFINE room == FreeLen(c.rxLen, Len(c.rx))
             read == IF room > 0 THEN DoRead(c, r, FALSE) ELSE Result(c, 0)
             msg == ReadMsg(c, ReadLen, r)
  <2>1. c \in Sockets /\ read.c.tx = c.tx
    BY <1>1 DEF Good, Result
  <2>2. read.c \in Sockets
    <3>1. room \in Nat
      BY LenProperties DEF FreeLen, Good, Sockets
    <3>2. CASE room > 0
      <4>1. Handles(c, DoRead(c, r, FALSE).c, <<>>)
        BY <1>2, <3>1, DoReadHandles DEF ReadRoom
      <4>2. QED
        BY <3>2, <4>1 DEF Handles, Good
    <3>3. CASE ~(room > 0)
      BY <2>1, <3>3 DEF Result
    <3>4. QED
      BY <3>2, <3>3
  <2>3. \/ msg.c = read.c
        \/ msg.c = Taken(read.c, ReadLen)
        \/ \E e \in Errors : msg.c = SetErr(c, e)
    BY DEF ReadMsg, Result, Errors
  <2> HIDE DEF read
  <2>4. msg.c.tx = c.tx
    BY <2>1, <2>2, <2>3 DEF Taken, SetErr, Sockets
  <2>5. Good(msg.c)
    BY <1>2, ReadMsgHandles, SocketAssumption DEF Handles, ReadRoom
  <2>6. Close(msg.c).tx = msg.c.tx
    BY <2>5, CloseGood
  <2>7. Read(c, r) = msg \/ Read(c, r) = [msg EXCEPT !.c = Close(msg.c)]
    BY <1>2 DEF Read, Receiver
  <2>8. msg = [c |-> msg.c, ret |-> msg.ret, msg |-> msg.msg]
    BY DEF ReadMsg, DoRead, Result
  <2> HIDE DEF msg
  <2>9. QED
    BY <2>4, <2>6, <2>7, <2>8
<1>3. CASE ~HasReceiver
  BY <1>1, <1>3 DEF Read, Good
<1>4. QED
  BY <1>2, <1>3

LEMMA DoReadWriteHandles ==
    ASSUME NEW c, Good(c), Ready(c), NEW ev \in SUBSET Events,
           NEW r \in RecvOutcomes(c, ReadRoom(c)),
           NEW k \in SendOutcomes(c, Len(c.tx)), NEW ok \in BOOLEAN
    PROVE  Handles(c, DoReadWrite(c, ev, r, k, ok).c, DoReadWrite(c, ev, r, k, ok).msg)
<1> DEFINE read == IF "IN" \in ev THEN Read(c, r) ELSE Result(c, 0)
           write == IF "OUT" \in ev THEN Write(read.c, k, ok) ELSE Result(read.c, 0)
           last == IF write.ret < 0 THEN OnSocketErr(write.c, "WRITE_FAIL")
                   ELSE IF "ERR" \in ev THEN OnSocketErr(write.c, "UNKNOWN_EVENT")
                   ELSE write.c
           w == DoReadWrite(c, ev, r, k, ok)
<1>1. /\ Handles(c, read.c, read.msg)
      /\ read.ret \in Int
      /\ read.ret < 0 => read.msg = <<>>
      /\ read.c.tx = c.tx
  <2>1. CASE "IN" \in ev
    BY <2>1, ReadHandles, ReadKeepsTx
  <2>2. CASE "IN" \notin ev
    BY <2>2, SameHandles DEF Result
  <2>3. QED
    BY <2>1, <2>2
<1>2. Handles(read.c, write.c, <<>>) /\ write.ret \in Int
  <2> HIDE DEF read
  <2>1. Len(c.tx) \in Nat
    BY LenProperties DEF Good, Sockets
  <2>2. k \in Int /\ k <= Len(read.c.tx) /\ Good(read.c)
    BY <1>1, <2>1, SendBound DEF Handles
  <2>3. CASE "OUT" \in ev
    BY <2>2, <2>3, WriteHandles
  <2>4. CASE "OUT" \notin ev
    BY <2>2, <2>4, SameHandles DEF Result
  <2>5. QED
    BY <2>3, <2>4
<1>3. w = IF read.ret < 0 THEN Result(OnSocketErr(read.c, "READ_FAIL"), HardErr)
          ELSE [read EXCEPT !.c = last]
  BY DEF DoReadWrite
<1>4. read = [c |-> read.c, ret |-> read.ret, msg |-> read.msg]
  BY DEF Read, Receiver, ReadMsg, DoRead, Result
<1> HIDE DEF read, write, w
<1>5. Good(read.c) /\ Good(write.c)
  BY <1>1, <1>2 DEF Handles
<1>6. CASE read.ret < 0
  <2> DEFINE d == OnSocketErr(read.c, "READ_FAIL")
  <2>1. Handles(read.c, d, <<>>)
    BY <1>5, OnSocketErrHandles DEF Errors
  <2>2. w.c = d /\ w.msg = read.msg
    BY <1>1, <1>3, <1>6 DEF Result
  <2> HIDE DEF d
  <2>3. QED
    BY <1>1, <2>1, <2>2, HandlesThen DEF w
<1>7. CASE ~(read.ret < 0)
  <2>1. Handles(write.c, last, <<>>)
    BY <1>5, OnSocketErrHandles, SameHandles DEF Errors
  <2> HIDE DEF last
  <2>2. Handles(c, last, read.msg)
    BY <1>1, <1>2, <1>5, <2>1, HandlesThen
  <2>3. w.c = last /\ w.msg = read.msg
    BY <1>3, <1>4, <1>7
  <2>4. QED
    BY <2>2, <2>3 DEF w
<1>8. QED
  BY <1>6, <1>7

LEMMA DoConnectHandles ==
    ASSUME NEW c, Good(c), c.state = "CONNECTING", c.fd, NEW ev \in SUBSET Events,
           NEW ok \in BOOLEAN
    PROVE  Handles(c, DoConnect(c, ev, ok).c, DoConnect(c, ev, ok).msg)
<1> DEFINE d == [c EXCEPT !.state = "CONNECTED"]
           e == SetEvents(d, Idle, ok)
           w == DoConnect(c, ev, ok)
<1>1. \/ \E x \in Errors : w = Result(OnSocketErr(c, x), HardErr)
      \/ w = Result(c, 0)
      \/ w = Result(e, 0)
  BY DEF DoConnect, Errors
<1>2. d \in Sockets
  BY DEF Good, Sockets, States
<1>3. /\ d.txLen = c.txLen /\ d.state = "CONNECTED" /\ d.tx = c.tx /\ d.wire = c.wire
      /\ d.rxLen = c.rxLen /\ d.rx = c.rx /\ d.inbox = c.inbox /\ d.fd = c.fd
      /\ d.armed = c.armed /\ d.link = c.link
  BY DEF Good, Sockets
<1> HIDE DEF d
<1>4. Good(d) /\ d.fd
  BY <1>2, <1>3 DEF Good, FdMatches, Fresh, Ready, TxHolds, RxHolds
<1>5. Good(e) /\ e = [d EXCEPT !.armed = e.armed]
  <2>1. Idle \in SUBSET Events /\ Idle # {}
    BY DEF Idle, Events
  <2>2. QED
    BY <1>4, <2>1, SetEventsGood
<1> HIDE DEF e, w
<1>6. /\ e.txLen >= c.txLen /\ e.tx = c.tx /\ e.wire = c.wire
      /\ e.rx = c.rx /\ e.inbox = c.inbox /\ e.fd = c.fd
  <2>1. /\ e.txLen = d.txLen /\ e.tx = d.tx /\ e.wire = d.wire
        /\ e.rx = d.rx /\ e.inbox = d.inbox /\ e.fd = d.fd
    BY <1>2, <1>5 DEF Sockets
  <2>2. c.txLen >= c.txLen
    BY DEF Good, Sockets
  <2>3. QED
    BY <1>3, <2>1, <2>2
<1>7. Handles(c, e, <<>>)
  BY <1>5, <1>6, KeepsBytes DEF Connection
<1>8. \A x \in Errors : Handles(c, OnSocketErr(c, x), <<>>)
  BY OnSocketErrHandles
<1>9. QED
  BY <1>1, <1>7, <1>8, SameHandles DEF Result, w

(* One event, handled to its end.                                          *)
LEMMA DoHandleHandles ==
    ASSUME NEW c, Good(c), c.fd, NEW ev \in SUBSET Events,
           NEW r \in RecvOutcomes(c, ReadRoom(c)),
           NEW k \in SendOutcomes(c, Len(c.tx)), NEW ok \in BOOLEAN
    PROVE  Handles(c, DoHandle(c, ev, r, k, ok).c, DoHandle(c, ev, r, k, ok).msg)
<1>1. CASE c.state = "CONNECTING"
  BY <1>1, DoConnectHandles DEF DoHandle
<1>2. CASE Ready(c)
  BY <1>2, DoReadWriteHandles DEF DoHandle, Ready
<1>3. CASE c.state # "CONNECTING" /\ ~Ready(c)
  <2>1. DoHandle(c, ev, r, k, ok) = Result(OnSocketErr(c, "STATE_ERR"), HardErr)
    BY <1>3 DEF DoHandle
  <2>2. Handles(c, OnSocketErr(c, "STATE_ERR"), <<>>)
    BY OnSocketErrHandles DEF Errors
  <2>3. QED
    BY <2>1, <2>2 DEF Result
<1>4. QED
  BY <1>1, <1>2, <1>3
-----------------------------------------------------------------------------
(* Calls of the application that are neither sending nor reading.          *)

LEMMA ArmGood ==
    ASSUME NEW c, Good(c)
    PROVE  Good(Arm(c)) /\ Arm(c) = [c EXCEPT !.armed = Arm(c).armed]
<1>1. Watching \in SUBSET Events /\ Watching # {} /\ TRUE \in BOOLEAN
  BY DEF Watching, Events
<1>2. c = [c EXCEPT !.armed = c.armed]
  BY DEF Good, Sockets
<1>3. CASE c.fd
  <2>1. /\ Good(SetEvents(c, Watching, TRUE))
        /\ SetEvents(c, Watching, TRUE)
             = [c EXCEPT !.armed = SetEvents(c, Watching, TRUE).armed]
    BY <1>1, <1>3, SetEventsGood
  <2>2. Arm(c) = c \/ Arm(c) = SetEvents(c, Watching, TRUE)
    BY DEF Arm
  <2>3. QED
    BY <1>2, <2>1, <2>2
<1>4. CASE ~c.fd
  <2>1. Arm(c) = c
    BY <1>4 DEF Arm, SetEvents
  <2>2. QED
    BY <1>2, <2>1
<1>5. QED
  BY <1>3, <1>4

(* OpenClient either leaves a socket in use alone, or fails and leaves no  *)
(* connection, or starts one whose streams are empty.                      *)
LEMMA OpenClientGood ==
    ASSUME NEW c, Good(c), NEW how \in {"refused", "unwatched", "started"}
    PROVE  /\ Good(OpenClient(c, how))
           /\ OpenClient(c, how).txLen = c.txLen
           /\ IF c.state \notin {"CREATED", "FAILED"}
              THEN OpenClient(c, how) = SetErr(c, "STATE_ERR")
              ELSE \/ OpenClient(c, how).state \in {"CREATED", "FAILED"}
                   \/ /\ OpenClient(c, how).state = "CONNECTING"
                      /\ OpenClient(c, how).wire = <<>> /\ OpenClient(c, how).tx = <<>>
                      /\ OpenClient(c, how).inbox = <<>> /\ OpenClient(c, how).rx = <<>>
<1> DEFINE d == OpenClient(c, how)
<1>1. CASE c.state \notin {"CREATED", "FAILED"}
  <2>1. d = SetErr(c, "STATE_ERR") /\ "STATE_ERR" \in Errors
    BY <1>1 DEF OpenClient, Errors
  <2>2. SetErr(c, "STATE_ERR").txLen = c.txLen
    BY DEF SetErr, Good, Sockets
  <2>3. QED
    BY <1>1, <2>1, <2>2, SetErrGood
<1>2. CASE c.state \in {"CREATED", "FAILED"}
  <2>1. ~c.fd /\ c.link = "none" /\ c.armed = {} /\ c.tx = <<>> /\ c.rx = <<>>
    BY <1>2 DEF Good, FdMatches, Fresh, Ready, Sockets
  <2>2. CASE how = "refused"
    <3>1. d = [c EXCEPT !.state = "FAILED", !.err = "SYS_ERR"]
      BY <1>2, <2>1, <2>2 DEF OpenClient
    <3>2. d \in Sockets
      BY <3>1 DEF Good, Sockets, States, Errors
    <3>3. QED
      BY <1>2, <2>1, <3>1, <3>2
      DEF Good, Sockets, FdMatches, Fresh, Ready, TxHolds, RxHolds
  <2>3. CASE how = "unwatched"
    <3> DEFINE x == [c EXCEPT !.err = "SYS_ERR", !.fd = TRUE]
               y == [x EXCEPT !.fd = FALSE, !.armed = {}, !.link = "none", !.inbox = <<>>]
    <3>1. d = Reset(x) /\ x.fd
      BY <1>2, <2>1, <2>3 DEF OpenClient, Good, Sockets
    <3>2. Close(x) = y
      BY <3>1 DEF Close
    <3>3. d = [y EXCEPT !.state = "CREATED", !.tx = <<>>, !.rx = <<>>]
      BY <3>1, <3>2 DEF Reset
    <3>4. x \in Sockets
      BY DEF Good, Sockets, Errors
    <3>5. /\ x.txLen = c.txLen /\ x.rxLen = c.rxLen
      BY DEF Good, Sockets
    <3> HIDE DEF x, d
    <3>6. y \in Sockets
      BY <3>4, EmptyIsSeq DEF Sockets, Links
    <3>7. /\ y.txLen = c.txLen /\ y.rxLen = c.rxLen /\ ~y.fd /\ y.link = "none"
          /\ y.armed = {}
      BY <3>4, <3>5 DEF Sockets
    <3> HIDE DEF y
    <3>8. d \in Sockets
      BY <3>3, <3>6, EmptyIsSeq DEF Sockets, States
    <3>9. /\ d.txLen = c.txLen /\ d.rxLen = c.rxLen /\ ~d.fd /\ d.link = "none"
          /\ d.armed = {} /\ d.state = "CREATED" /\ d.tx = c.tx /\ d.rx = c.rx
      BY <2>1, <3>3, <3>6, <3>7 DEF Sockets
    <3>10. Good(d)
      BY <2>1, <3>8, <3>9 DEF Good, FdMatches, Fresh, TxHolds, RxHolds
    <3>11. QED
      BY <1>2, <3>9, <3>10 DEF d
  <2>4. CASE how = "started"
    <3>1. d = [c EXCEPT !.state = "CONNECTING", !.fd = TRUE, !.armed = Watching,
                        !.link = "syn", !.wire = <<>>, !.inbox = <<>>]
      BY <1>2, <2>1, <2>4 DEF OpenClient
    <3>2. Watching \in SUBSET Events /\ Watching # {}
      BY DEF Watching, Events
    <3> HIDE DEF d
    <3>3. d \in Sockets
      BY <3>1, <3>2, EmptyIsSeq DEF Good, Sockets, States, Links
    <3>4. /\ d.txLen = c.txLen /\ d.rxLen = c.rxLen /\ d.fd /\ d.link = "syn"
          /\ d.armed = Watching /\ d.state = "CONNECTING" /\ d.tx = c.tx /\ d.rx = c.rx
          /\ d.wire = <<>> /\ d.inbox = <<>>
      BY <3>1 DEF Good, Sockets
    <3>5. Good(d)
      BY <2>1, <3>2, <3>3, <3>4 DEF Good, FdMatches, Fresh, TxHolds, RxHolds
    <3>6. QED
      BY <1>2, <2>1, <3>4, <3>5 DEF d
  <2>5. QED
    BY <2>2, <2>3, <2>4
<1>3. QED
  BY <1>1, <1>2

(* setNewSize never leaves a capacity below the index.                     *)
LEMMA NewSizeHolds ==
    ASSUME NEW len \in Nat \ {0}, NEW idx \in Nat, NEW size \in BufSizes, Holds(idx, len)
    PROVE  NewSize(len, idx, size) \in Nat \ {0} /\ Holds(idx, NewSize(len, idx, size))
<1>1. size \in Nat
  BY SocketAssumption
<1>2. QED
  BY <1>1 DEF NewSize, Holds
-----------------------------------------------------------------------------
(* The inductive invariant.  The two stream properties need what makes     *)
(* them true: no buffer is shrunk by hand and every message fits into the  *)
(* largest cache, respectively the receiver reads by ReadMsg.              *)
Modest == BufSizes = {} /\ \A n \in MsgLens : n <= Cap

IInv ==
    /\ Good(conn)
    /\ accepted \in Seq(Nat) /\ delivered \in Seq(Nat)
    /\ peerSent \in Nat /\ opened \in Nat /\ ret \in Int
    /\ BufSizes = {} => conn.txLen >= InitLen
    /\ Modest => SentInOrder
    /\ HasReceiver => ReceivedInOrder

LEMMA NextBytesIsSeq ==
    ASSUME NEW from \in Nat, NEW n \in Nat
    PROVE  NextBytes(from, n) \in Seq(Nat) /\ Len(NextBytes(from, n)) = n
BY DEF NextBytes

LEMMA InitIInv == Init => IInv
<1> SUFFICES ASSUME Init
             PROVE  IInv
  OBVIOUS
<1>1. conn = NewSocket
  BY DEF Init
<1>2. conn \in Sockets
  BY <1>1, EmptyIsSeq, BuffAssumption DEF NewSocket, Sockets, States, Errors, Links
<1>3. /\ conn.state = "CREATED" /\ ~conn.fd /\ conn.armed = {} /\ conn.link = "none"
      /\ conn.tx = <<>> /\ conn.rx = <<>> /\ conn.txLen = InitLen /\ conn.rxLen = InitLen
  BY <1>1 DEF NewSocket
<1>4. Len(conn.tx) = 0 /\ Len(conn.rx) = 0 /\ Holds(0, InitLen)
  BY <1>3, EmptySeq, BuffAssumption DEF Holds, Cap
<1>5. Good(conn)
  BY <1>2, <1>3, <1>4 DEF Good, FdMatches, Fresh, TxHolds, RxHolds
<1>6. ~Connection(conn)
  BY <1>3 DEF Connection
<1>7. QED
  BY <1>3, <1>5, <1>6, EmptyIsSeq, BuffAssumption
  DEF Init, IInv, SentInOrder, ReceivedInOrder

(* A step of the loop, the kernel or the application that does not send.   *)
LEMMA HandlesIInv ==
    ASSUME IInv, NEW b, Handles(conn, conn', b), delivered' = delivered \o b,
           accepted' = accepted, peerSent' = peerSent, opened' = opened, ret' = 0
    PROVE  IInv'
<1>1. /\ Good(conn) /\ Good(conn)' /\ delivered \in Seq(Nat) /\ b \in Seq(Nat)
      /\ conn.txLen \in Nat /\ conn'.txLen \in Nat /\ InitLen \in Nat
      /\ conn'.rx \in Seq(Nat) /\ conn'.inbox \in Seq(Nat)
      /\ conn.rx \in Seq(Nat) /\ conn.inbox \in Seq(Nat)
  BY BuffAssumption DEF IInv, Handles, Good, Sockets
<1>2. delivered' \in Seq(Nat)
  BY <1>1, ConcatProperties
<1>3. BufSizes = {} => conn'.txLen >= InitLen
  BY <1>1 DEF IInv, Handles
<1>4. Modest => SentInOrder'
  BY DEF IInv, Handles, SentInOrder
<1>5. ASSUME HasReceiver, Connection(conn'), conn'.fd
      PROVE  delivered' \o conn'.rx \o conn'.inbox = NextBytes(0, peerSent)
  <2>1. /\ Connection(conn) /\ conn.fd
        /\ b \o (conn'.rx \o conn'.inbox) = conn.rx \o conn.inbox
    BY <1>5 DEF Handles
  <2>2. delivered \o conn.rx \o conn.inbox = NextBytes(0, peerSent)
    <3>1. ReceivedInOrder
      BY <1>5, Zenon DEF IInv
    <3>2. QED
      BY <2>1, <3>1, Zenon DEF ReceivedInOrder
  <2>3. conn'.rx \o conn'.inbox \in Seq(Nat)
    BY <1>1, ConcatProperties
  <2>4. \A u \in Seq(Nat) : (delivered \o b) \o u = delivered \o (b \o u)
    BY <1>1, Assoc
  <2>5. delivered' \o conn'.rx \o conn'.inbox = delivered' \o (conn'.rx \o conn'.inbox)
    <3>1. \A s, t, v \in Seq(Nat) : (s \o t) \o v = s \o (t \o v)
      BY Assoc
    <3>2. delivered' \in Seq(Nat) /\ conn'.rx \in Seq(Nat) /\ conn'.inbox \in Seq(Nat)
      BY <1>1, <1>2, Zenon
    <3>3. QED
      BY <3>1, <3>2
  <2>6. delivered \o conn.rx \o conn.inbox = delivered \o (conn.rx \o conn.inbox)
    <3>1. \A s, t, v \in Seq(Nat) : (s \o t) \o v = s \o (t \o v)
      BY Assoc
    <3>2. delivered \in Seq(Nat) /\ conn.rx \in Seq(Nat) /\ conn.inbox \in Seq(Nat)
      BY <1>1, Zenon
    <3>3. QED
      BY <3>1, <3>2
  <2> DEFINE u == conn'.rx \o conn'.inbox
  <2>7. delivered' \o u = delivered \o (b \o u)
    <3>1. (delivered \o b) \o u = delivered \o (b \o u)
      BY <2>3, <2>4
    <3>2. QED
      BY <3>1
  <2>8. delivered \o (b \o u) = NextBytes(0, peerSent)
    BY <2>1, <2>2, <2>6, Zenon
  <2>9. QED
    BY <2>5, <2>7, <2>8, Zenon
<1>6. HasReceiver => ReceivedInOrder'
  <2>1. SUFFICES ASSUME HasReceiver, Connection(conn'), conn'.fd
                 PROVE  delivered' \o conn'.rx \o conn'.inbox = NextBytes(0, peerSent)
    BY Zenon DEF ReceivedInOrder
  <2>2. QED
    BY <1>5, <2>1, Zenon
<1>7. QED
  BY <1>1, <1>2, <1>3, <1>4, <1>6 DEF IInv

LEMMA AppOpenIInv == IInv /\ AppOpen => IInv'
<1> SUFFICES ASSUME IInv, AppOpen
             PROVE  IInv'
  OBVIOUS
<1>1. PICK how \in {"refused", "unwatched", "started"} : conn' = OpenClient(conn, how)
  BY DEF AppOpen
<1>2. Good(conn) /\ opened' \in Nat /\ ret' \in Int /\ delivered' \in Seq(Nat)
      /\ accepted' \in Seq(Nat) /\ peerSent' \in Nat
  <2>1. \/ accepted' = <<>> /\ delivered' = <<>> /\ peerSent' = 0
        \/ accepted' = accepted /\ delivered' = delivered /\ peerSent' = peerSent
    BY DEF AppOpen
  <2>2. opened' = opened + 1 /\ ret' = 0
    BY DEF AppOpen
  <2>3. /\ Good(conn) /\ accepted \in Seq(Nat) /\ delivered \in Seq(Nat)
        /\ peerSent \in Nat /\ opened \in Nat
    BY DEF IInv
  <2>4. opened' \in Nat
    BY <2>2, <2>3
  <2>5. accepted' \in Seq(Nat) /\ delivered' \in Seq(Nat)
    BY <2>1, <2>3, EmptyIsSeq, Zenon
  <2>6. peerSent' \in Nat
    BY <2>1, <2>3
  <2>7. QED
    BY <2>2, <2>3, <2>4, <2>5, <2>6
<1>3. Good(conn)' /\ (BufSizes = {} => conn'.txLen >= InitLen)
  <2>1. Good(conn') /\ conn'.txLen = conn.txLen
    BY <1>1, <1>2, OpenClientGood
  <2>2. BufSizes = {} => conn.txLen >= InitLen
    BY Zenon DEF IInv
  <2>3. QED
    BY <2>1, <2>2
<1>4. CASE conn.state \notin {"CREATED", "FAILED"}
  <2>1. conn' = SetErr(conn, "STATE_ERR")
    BY <1>1, <1>2, <1>4, OpenClientGood
  <2>2. accepted' = accepted /\ delivered' = delivered /\ peerSent' = peerSent
    BY <1>4 DEF AppOpen
  <2>3. /\ conn'.state = conn.state /\ conn'.fd = conn.fd /\ conn'.tx = conn.tx
        /\ conn'.wire = conn.wire /\ conn'.rx = conn.rx /\ conn'.inbox = conn.inbox
    BY <1>2, <2>1 DEF SetErr, Good, Sockets
  <2>4. Modest => SentInOrder'
    BY <2>2, <2>3 DEF IInv, SentInOrder, Connection
  <2>5. HasReceiver => ReceivedInOrder'
    <3>1. SUFFICES ASSUME HasReceiver, Connection(conn'), conn'.fd
                   PROVE  delivered' \o conn'.rx \o conn'.inbox = NextBytes(0, peerSent')
      BY DEF ReceivedInOrder
    <3>2. ReceivedInOrder
      BY <3>1, Zenon DEF IInv
    <3>3. Connection(conn) /\ conn.fd
      BY <2>3, <3>1 DEF Connection
    <3>4. delivered \o conn.rx \o conn.inbox = NextBytes(0, peerSent)
      BY <3>2, <3>3, Zenon DEF ReceivedInOrder
    <3>5. QED
      BY <2>2, <2>3, <3>4
  <2>6. QED
    BY <1>2, <1>3, <2>4, <2>5, Zenon DEF IInv
<1>5. CASE conn.state \in {"CREATED", "FAILED"} /\ conn'.state \in {"CREATED", "FAILED"}
  <2>1. ~Connection(conn')
    BY <1>5 DEF Connection
  <2>2. SentInOrder' /\ ReceivedInOrder'
    BY <2>1, Zenon DEF SentInOrder, ReceivedInOrder
  <2>3. QED
    BY <1>2, <1>3, <2>2, Zenon DEF IInv
<1>6. CASE conn.state \in {"CREATED", "FAILED"} /\ conn'.state \notin {"CREATED", "FAILED"}
  <2>1. /\ conn'.state = "CONNECTING" /\ conn'.wire = <<>> /\ conn'.tx = <<>>
        /\ conn'.inbox = <<>> /\ conn'.rx = <<>>
    BY <1>1, <1>2, <1>6, OpenClientGood
  <2>2. accepted' = <<>> /\ delivered' = <<>> /\ peerSent' = 0
    BY <1>6, <2>1 DEF AppOpen
  <2>3. <<>> \o <<>> = <<>> /\ <<>> \o <<>> \o <<>> = <<>> /\ NextBytes(0, 0) = <<>>
    <3>1. NextBytes(0, 0) \in Seq(Nat) /\ Len(NextBytes(0, 0)) = 0
      BY NextBytesIsSeq
    <3>2. QED
      BY <3>1, EmptySeq, EmptyIsSeq, ConcatEmptySeq
  <2>4. SentInOrder' /\ ReceivedInOrder'
    BY <2>1, <2>2, <2>3 DEF SentInOrder, ReceivedInOrder
  <2>5. QED
    BY <1>2, <1>3, <2>4 DEF IInv
<1>7. QED
  BY <1>4, <1>5, <1>6

LEMMA AppWriteIInv == IInv /\ AppWrite => IInv'
<1> SUFFICES ASSUME IInv, AppWrite
             PROVE  IInv'
  OBVIOUS
<1>1. PICK n \in MsgLens, ok \in CtlOutcomes :
        \E k \in SendOutcomes(conn, Len(conn.tx)), j \in SendOutcomes(conn, n) :
           LET m == NextBytes(Len(accepted), n)
               r == WriteMsg(conn, m, k, ok, j)
           IN  /\ conn' = Arm(r.c)
               /\ ret' = r.ret
               /\ accepted' = IF r.ret >= 0 THEN accepted \o m ELSE accepted
  BY DEF AppWrite
<1> DEFINE m == NextBytes(Len(accepted), n)
<1>2. PICK k \in SendOutcomes(conn, Len(conn.tx)), j \in SendOutcomes(conn, n) :
        /\ conn' = Arm(WriteMsg(conn, m, k, ok, j).c)
        /\ ret' = WriteMsg(conn, m, k, ok, j).ret
        /\ accepted' = IF WriteMsg(conn, m, k, ok, j).ret >= 0 THEN accepted \o m ELSE accepted
  BY <1>1
<1> DEFINE r == WriteMsg(conn, m, k, ok, j)
           c == r.c
<1>3. /\ n \in Nat /\ ok \in BOOLEAN /\ Good(conn) /\ accepted \in Seq(Nat)
      /\ delivered' = delivered /\ peerSent' = peerSent /\ opened' = opened
  BY SocketAssumption DEF AppWrite, IInv
<1>4. m \in Seq(Nat) /\ Len(m) = n
  BY <1>3, LenProperties, NextBytesIsSeq
<1>5. accepted' \in Seq(Nat)
  <2> HIDE DEF m
  <2>1. accepted \o m \in Seq(Nat)
    BY <1>3, <1>4, ConcatProperties
  <2>2. QED
    BY <1>2, <1>3, <2>1
<1>6. ASSUME Good(c)
      PROVE  /\ Good(conn')
             /\ conn'.state = c.state /\ conn'.fd = c.fd /\ conn'.txLen = c.txLen
             /\ conn'.tx = c.tx /\ conn'.wire = c.wire
             /\ conn'.rx = c.rx /\ conn'.inbox = c.inbox
  <2>1. conn' = Arm(c)
    BY <1>2
  <2> HIDE DEF c
  <2>2. Good(Arm(c)) /\ Arm(c) = [c EXCEPT !.armed = Arm(c).armed]
    BY <1>6, ArmGood
  <2>3. QED
    BY <1>6, <2>1, <2>2 DEF Good, Sockets
<1>7. CASE conn.state # "CONNECTED" \/ m = <<>>
  <2>1. PICK e \in Errors : r = Result(SetErr(conn, e), HardErr)
    BY <1>7 DEF WriteMsg, Errors
  <2>2. Good(SetErr(conn, e)) /\ SetErr(conn, e) = [conn EXCEPT !.err = e]
    BY <1>3, SetErrGood
  <2>3. c = SetErr(conn, e) /\ r.ret = HardErr
    BY <2>1 DEF Result
  <2> HIDE DEF c, r
  <2>4. /\ c.state = conn.state /\ c.fd = conn.fd /\ c.txLen = conn.txLen
        /\ c.tx = conn.tx /\ c.wire = conn.wire /\ c.rx = conn.rx /\ c.inbox = conn.inbox
    BY <1>3, <2>2, <2>3 DEF Good, Sockets
  <2>5. Good(c)
    BY <2>2, <2>3
  <2>6. accepted' = accepted /\ ret' \in Int
    BY <1>2, <2>3 DEF r, HardErr
  <2>7. Modest => SentInOrder'
    BY <1>6, <2>4, <2>5, <2>6 DEF IInv, SentInOrder, Connection
  <2>8. HasReceiver => ReceivedInOrder'
    BY <1>3, <1>6, <2>4, <2>5 DEF IInv, ReceivedInOrder, Connection
  <2>9. QED
    BY <1>3, <1>6, <2>4, <2>5, <2>6, <2>7, <2>8 DEF IInv
<1>8. CASE conn.state = "CONNECTED" /\ m # <<>>
  <2>1. Writes(conn, r, m)
    BY <1>3, <1>4, <1>8, WriteMsgSends
  <2>2. PICK b \in Seq(Nat) :
          /\ Sends(conn, c, b)
          /\ r.ret >= 0 => b = m
          /\ r.ret < 0 /\ conn.txLen >= InitLen /\ Len(m) <= Cap => b = <<>>
    BY <2>1 DEF Writes
  <2>3. r.ret \in Int /\ ret' = r.ret
    BY <1>2, <2>1 DEF Writes
  <2>4. accepted' = IF r.ret >= 0 THEN accepted \o m ELSE accepted
    BY <1>2
  <2> HIDE DEF c, r, m
  <2>5. /\ Good(c) /\ Ready(c) /\ c.txLen >= conn.txLen
        /\ c.rx = conn.rx /\ c.inbox = conn.inbox /\ c.fd = conn.fd
        /\ c.wire \o c.tx = (conn.wire \o conn.tx) \o b
    BY <2>2 DEF Sends
  <2>6. Connection(conn) /\ Connection(conn')
    BY <1>6, <1>8, <2>5 DEF Connection, Ready
  <2>7. ASSUME BufSizes = {}
        PROVE  conn.txLen >= InitLen /\ conn'.txLen >= InitLen
    <3>1. conn.txLen \in Nat /\ c.txLen \in Nat /\ InitLen \in Nat
      BY <1>3, <2>5, BuffAssumption DEF Good, Sockets
    <3>2. conn.txLen >= InitLen
      BY <2>7 DEF IInv
    <3>3. QED
      BY <1>6, <2>5, <3>1, <3>2
  <2>8. ASSUME Modest
        PROVE  SentInOrder'
    <3>1. conn.wire \o conn.tx = accepted
      BY <2>6, <2>8 DEF IInv, SentInOrder
    <3>2. conn'.wire \o conn'.tx = accepted \o b
      BY <1>6, <2>5, <3>1
    <3>3. b = IF r.ret >= 0 THEN m ELSE <<>>
      BY <1>4, <2>2, <2>3, <2>7, <2>8 DEF Modest
    <3>4. accepted' = accepted \o b
      BY <1>3, <2>4, <3>3, ConcatEmptySeq
    <3>5. QED
      BY <3>2, <3>4 DEF SentInOrder
  <2>9. HasReceiver => ReceivedInOrder'
    BY <1>3, <1>6, <2>5, <2>6 DEF IInv, ReceivedInOrder
  <2>10. QED
    BY <1>3, <1>5, <1>6, <2>3, <2>5, <2>7, <2>8, <2>9 DEF IInv
<1>9. QED
  BY <1>7, <1>8
(* The bytes are left alone, by calls and by the kernel.                   *)
LEMMA KeepsIInv ==
    ASSUME IInv, Handles(conn, conn', <<>>), UNCHANGED <<accepted, delivered, peerSent, opened>>,
           ret' = 0
    PROVE  IInv'
<1>1. delivered' = delivered \o <<>>
  BY ConcatEmptySeq DEF IInv
<1>2. QED
  BY <1>1, HandlesIInv

LEMMA AppReadIInv == IInv /\ AppRead => IInv'
<1> SUFFICES ASSUME IInv, AppRead
             PROVE  IInv'
  OBVIOUS
<1>1. PICK n \in ReadLens, r \in RecvOutcomes(conn, FreeLen(conn.rxLen, Len(conn.rx))) :
        /\ conn' = ReadMsg(conn, n, r).c
        /\ delivered' = delivered \o ReadMsg(conn, n, r).msg
  BY DEF AppRead
<1>2. Good(conn) /\ n \in Nat
  BY SocketAssumption DEF IInv
<1>3. Handles(conn, conn', ReadMsg(conn, n, r).msg)
  BY <1>1, <1>2, ReadMsgHandles
<1>4. QED
  BY <1>1, <1>3, HandlesIInv DEF AppRead

LEMMA CallsIInv == IInv /\ (AppClose \/ AppReset \/ AppDelete) => IInv'
<1> SUFFICES ASSUME IInv, AppClose \/ AppReset \/ AppDelete
             PROVE  IInv'
  OBVIOUS
<1>1. Good(conn)
  BY DEF IInv
<1>2. Handles(conn, Close(conn), <<>>)
  BY <1>1, CloseHandles
<1>3. ASSUME NEW d \in {Reset(conn), [Reset(conn) EXCEPT !.life = "deleted"]}
      PROVE  Handles(conn, d, <<>>)
  <2> DEFINE x == Reset(conn)
             y == [x EXCEPT !.life = "deleted"]
  <2>1. Good(x) /\ x.state = "CREATED" /\ ~x.fd /\ x.txLen = conn.txLen
    BY <1>1, ResetGood
  <2> HIDE DEF x
  <2>2. y \in Sockets
    BY <2>1 DEF Good, Sockets
  <2>3. /\ y.state = x.state /\ y.fd = x.fd /\ y.armed = x.armed /\ y.link = x.link
        /\ y.tx = x.tx /\ y.txLen = x.txLen /\ y.rx = x.rx /\ y.rxLen = x.rxLen
    BY <2>1 DEF Good, Sockets
  <2> HIDE DEF y
  <2>4. Good(y)
    BY <2>1, <2>2, <2>3, SameGood
  <2>5. conn.txLen >= conn.txLen
    BY <1>1 DEF Good, Sockets
  <2>6. ~Connection(x) /\ ~Connection(y)
    BY <2>1, <2>3 DEF Connection
  <2>7. Handles(conn, x, <<>>) /\ Handles(conn, y, <<>>)
    BY <1>1, <2>1, <2>3, <2>4, <2>5, <2>6, KeepsBytes
  <2>8. d = x \/ d = y
    BY DEF x, y
  <2>9. QED
    BY <2>7, <2>8
<1>4. Handles(conn, conn', <<>>)
  BY <1>2, <1>3 DEF AppClose, AppReset, AppDelete
<1>5. ret' = 0 /\ UNCHANGED <<accepted, delivered, peerSent, opened>>
  BY DEF AppClose, AppReset, AppDelete
<1>6. QED
  BY <1>4, <1>5, KeepsIInv

LEMMA SetSizesIInv == IInv /\ SetSizes => IInv'
<1> SUFFICES ASSUME IInv, SetSizes
             PROVE  IInv'
  OBVIOUS
<1>1. PICK size \in BufSizes :
        \/ conn' = [conn EXCEPT !.txLen = NewSize(conn.txLen, Len(conn.tx), size)]
        \/ conn' = [conn EXCEPT !.rxLen = NewSize(conn.rxLen, Len(conn.rx), size)]
  BY DEF SetSizes, IInv, Good, Sockets
<1> DEFINE tl == NewSize(conn.txLen, Len(conn.tx), size)
           rl == NewSize(conn.rxLen, Len(conn.rx), size)
<1>2. /\ Good(conn) /\ conn \in Sockets /\ BufSizes # {}
      /\ conn.txLen \in Nat \ {0} /\ conn.rxLen \in Nat \ {0}
      /\ Len(conn.tx) \in Nat /\ Len(conn.rx) \in Nat
  BY LenProperties DEF IInv, Good, Sockets
<1>3. tl \in Nat \ {0} /\ Holds(Len(conn.tx), tl)
  BY <1>2, NewSizeHolds DEF Good, TxHolds
<1>4. rl \in Nat \ {0} /\ (HasReceiver => Holds(Len(conn.rx), rl))
  <2>1. rl \in Nat \ {0}
    BY <1>2, SocketAssumption DEF NewSize
  <2>2. HasReceiver => Holds(Len(conn.rx), rl)
    BY <1>2, NewSizeHolds DEF Good, RxHolds
  <2>3. QED
    BY <2>1, <2>2
<1> HIDE DEF tl, rl
<1>5. /\ conn' \in Sockets
      /\ conn'.state = conn.state /\ conn'.fd = conn.fd /\ conn'.armed = conn.armed
      /\ conn'.link = conn.link /\ conn'.tx = conn.tx /\ conn'.wire = conn.wire
      /\ conn'.rx = conn.rx /\ conn'.inbox = conn.inbox
      /\ conn'.txLen \in {conn.txLen, tl} /\ conn'.rxLen \in {conn.rxLen, rl}
  <2>1. CASE conn' = [conn EXCEPT !.txLen = tl]
    BY <1>2, <1>3, <2>1 DEF Sockets
  <2>2. CASE conn' = [conn EXCEPT !.rxLen = rl]
    BY <1>2, <1>4, <2>2 DEF Sockets
  <2>3. QED
    BY <1>1, <2>1, <2>2 DEF tl, rl
<1>6. Good(conn')
  BY <1>2, <1>3, <1>4, <1>5 DEF Good, FdMatches, Fresh, Ready, TxHolds, RxHolds
<1>7. Handles(conn, conn', <<>>)
  BY <1>2, <1>5, <1>6, KeepsBytes DEF Connection
<1>8. QED
  BY <1>7, KeepsIInv DEF SetSizes

LEMMA PollIInv == IInv /\ Poll => IInv'
<1> SUFFICES ASSUME IInv, Poll
             PROVE  IInv'
  OBVIOUS
<1>1. PICK ev \in Reported, r \in RecvOutcomes(conn, ReadRoom(conn)),
           k \in SendOutcomes(conn, Len(conn.tx)), ok \in CtlOutcomes :
        Handle(ev, r, k, ok)
  BY DEF Poll
<1>2. ev \in SUBSET Events /\ ok \in BOOLEAN /\ Good(conn)
  BY SocketAssumption DEF Reported, IInv, Good, Sockets
<1>3. /\ conn' = DoHandle(conn, ev, r, k, ok).c /\ conn.fd
      /\ delivered' = delivered \o DoHandle(conn, ev, r, k, ok).msg
      /\ ret' = 0 /\ accepted' = accepted /\ peerSent' = peerSent /\ opened' = opened
  BY <1>1 DEF Handle
<1>4. Handles(conn, conn', DoHandle(conn, ev, r, k, ok).msg)
  BY <1>2, <1>3, DoHandleHandles
<1>5. QED
  BY <1>3, <1>4, HandlesIInv

LEMMA LinkIInv == IInv /\ (Handshake \/ PeerClose \/ Break) => IInv'
<1> SUFFICES ASSUME IInv, Handshake \/ PeerClose \/ Break
             PROVE  IInv'
  OBVIOUS
<1>1. PICK l \in Links \ {"none"} : conn' = [conn EXCEPT !.link = l]
  BY DEF Handshake, PeerClose, Break, Links
<1>2. conn.link # "none" /\ Good(conn) /\ conn \in Sockets
  BY DEF Handshake, PeerClose, Break, IInv, Good
<1>3. /\ conn' \in Sockets
      /\ conn'.state = conn.state /\ conn'.fd = conn.fd /\ conn'.armed = conn.armed
      /\ conn'.link = l /\ conn'.tx = conn.tx /\ conn'.wire = conn.wire
      /\ conn'.rx = conn.rx /\ conn'.inbox = conn.inbox
      /\ conn'.txLen = conn.txLen /\ conn'.rxLen = conn.rxLen
  BY <1>1, <1>2 DEF Sockets
<1>4. Good(conn')
  BY <1>2, <1>3 DEF Good, FdMatches, Fresh, Ready, TxHolds, RxHolds
<1>5. conn'.txLen >= conn.txLen
  BY <1>2, <1>3 DEF Sockets
<1>6. Handles(conn, conn', <<>>)
  BY <1>2, <1>3, <1>4, <1>5, KeepsBytes DEF Connection
<1>7. ret' = 0 /\ UNCHANGED <<accepted, delivered, peerSent, opened>>
  BY DEF Handshake, PeerClose, Break, Kernel
<1>8. QED
  BY <1>6, <1>7, KeepsIInv

LEMMA PeerSendIInv == IInv /\ PeerSend => IInv'
<1> SUFFICES ASSUME IInv, PeerSend
             PROVE  IInv'
  OBVIOUS
<1> DEFINE b == Append(conn.inbox, peerSent + 1)
<1>1. /\ conn' = [conn EXCEPT !.inbox = b] /\ peerSent' = peerSent + 1
      /\ accepted' = accepted /\ delivered' = delivered /\ opened' = opened /\ ret' = 0
  BY DEF PeerSend, Kernel, IInv, Good, Sockets
<1>2. /\ Good(conn) /\ conn \in Sockets /\ peerSent \in Nat /\ delivered \in Seq(Nat)
      /\ conn.inbox \in Seq(Nat) /\ conn.rx \in Seq(Nat)
  BY DEF IInv, Good, Sockets
<1>3. b \in Seq(Nat)
  BY <1>2, AppendProperties
<1> HIDE DEF b
<1>4. /\ conn' \in Sockets
      /\ conn'.state = conn.state /\ conn'.fd = conn.fd /\ conn'.armed = conn.armed
      /\ conn'.link = conn.link /\ conn'.tx = conn.tx /\ conn'.wire = conn.wire
      /\ conn'.rx = conn.rx /\ conn'.inbox = b
      /\ conn'.txLen = conn.txLen /\ conn'.rxLen = conn.rxLen
  BY <1>1, <1>2, <1>3 DEF Sockets
<1>5. Good(conn')
  BY <1>2, <1>4 DEF Good, FdMatches, Fresh, Ready, TxHolds, RxHolds
<1>6. Modest => SentInOrder'
  BY <1>1, <1>4 DEF IInv, SentInOrder, Connection
<1>7. HasReceiver => ReceivedInOrder'
  <2>1. SUFFICES ASSUME HasReceiver, Connection(conn'), conn'.fd
                 PROVE  delivered \o conn.rx \o b = NextBytes(0, peerSent + 1)
    BY <1>1, <1>4, Zenon DEF ReceivedInOrder
  <2>2. ReceivedInOrder
    BY <2>1, Zenon DEF IInv
  <2>3. Connection(conn) /\ conn.fd
    BY <1>4, <2>1 DEF Connection
  <2>4. delivered \o conn.rx \o conn.inbox = NextBytes(0, peerSent)
    BY <2>2, <2>3, Zenon DEF ReceivedInOrder
  <2>5. delivered \o conn.rx \in Seq(Nat)
    BY <1>2, ConcatProperties
  <2>6. \A s \in Seq(Nat) : s \o b = Append(s \o conn.inbox, peerSent + 1)
    <3>1. ASSUME NEW s \in Seq(Nat), NEW t \in Seq(Nat), NEW n \in Nat
          PROVE  s \o Append(t, n) = Append(s \o t, n)
      OBVIOUS
    <3>2. conn.inbox \in Seq(Nat) /\ peerSent + 1 \in Nat
      BY <1>2
    <3>3. QED
      BY <3>1, <3>2, Zenon DEF b
  <2>7. NextBytes(0, peerSent + 1) = Append(NextBytes(0, peerSent), peerSent + 1)
    BY <1>2 DEF NextBytes
  <2>8. delivered \o conn.rx \o b = Append(delivered \o conn.rx \o conn.inbox, peerSent + 1)
    BY <2>5, <2>6, Zenon
  <2>9. QED
    BY <2>4, <2>7, <2>8, Zenon
<1>8. QED
  BY <1>1, <1>2, <1>4, <1>5, <1>6, <1>7 DEF IInv

LEMMA NextIInv == IInv /\ [Next]_vars => IInv'
<1> SUFFICES ASSUME IInv, [Next]_vars
             PROVE  IInv'
  OBVIOUS
<1>1. CASE AppOpen
  BY <1>1, AppOpenIInv
<1>2. CASE AppWrite
  BY <1>2, AppWriteIInv
<1>3. CASE AppRead
  BY <1>3, AppReadIInv
<1>4. CASE AppClose \/ AppReset \/ AppDelete
  BY <1>4, CallsIInv
<1>5. CASE SetSizes
  BY <1>5, SetSizesIInv
<1>6. CASE Poll
  BY <1>6, PollIInv
<1>7. CASE Handshake \/ PeerClose \/ Break
  BY <1>7, LinkIInv
<1>8. CASE PeerSend
  BY <1>8, PeerSendIInv
<1>9. CASE UNCHANGED vars
  BY <1>9 DEF vars, IInv, SentInOrder, ReceivedInOrder
<1>10. QED
  BY <1>1, <1>2, <1>3, <1>4, <1>5, <1>6, <1>7, <1>8, <1>9 DEF Next
-----------------------------------------------------------------------------
(* IInv holds in every state that the socket can reach.                    *)
THEOREM InductiveInvariant == Spec => []IInv
BY InitIInv, NextIInv, PTL DEF Spec

(* Every variable keeps its shape, for buffers of any size.                *)
THEOREM TypeCorrect == Spec => []TypeOK
<1>1. IInv => TypeOK
  BY DEF IInv, Good, TypeOK
<1>2. QED
  BY <1>1, InductiveInvariant, PTL

(* OpenClient's assertion that no descriptor is open (xma_socket.cpp:662)  *)
(* holds whatever has failed before, and epoll watches what is open.       *)
THEOREM DescriptorFollowsState == Spec => []FdMatchesState
<1>1. IInv => FdMatchesState
  BY DEF IInv, Good, FdMatchesState
<1>2. QED
  BY <1>1, InductiveInvariant, PTL

(* A connection begins with empty caches, after any sequence of failures,  *)
(* resets and reconnections.                                               *)
THEOREM NoStaleBytes == Spec => []FreshConnection
<1>1. IInv => FreshConnection
  BY DEF IInv, Good, FreshConnection
<1>2. QED
  BY <1>1, InductiveInvariant, PTL

(* No buffer's index leaves its memory, whatever sizes are set, if the     *)
(* receiver reads through ReadMsg.                                         *)
THEOREM BuffersInBounds ==
    ASSUME HasReceiver
    PROVE  Spec => []BuffersHold
<1>1. IInv => BuffersHold
  BY DEF IInv, Good, BuffersHold
<1>2. QED
  BY <1>1, InductiveInvariant, PTL

(* Bytes are sent once and in order, and a refused message sends none, if  *)
(* each message fits into the largest cache and no cache is shrunk.        *)
THEOREM StreamIsSent ==
    ASSUME Modest
    PROVE  Spec => []SentInOrder
<1>1. IInv => SentInOrder
  BY DEF IInv
<1>2. QED
  BY <1>1, InductiveInvariant, PTL

(* Bytes are received once and in order, if the receiver reads by ReadMsg. *)
THEOREM StreamIsReceived ==
    ASSUME HasReceiver
    PROVE  Spec => []ReceivedInOrder
<1>1. IInv => ReceivedInOrder
  BY DEF IInv
<1>2. QED
  BY <1>1, InductiveInvariant, PTL
-----------------------------------------------------------------------------
(***************************************************************************)
(* More about the sending half: when it is FULL, when it watches EPOLLOUT, *)
(* and that it implements the abstract stream OutStream.                   *)
(*                                                                         *)
(* `Sound` is what every method keeps in addition to `Good`; what a method *)
(* does not touch is told by `SameCache`, and what an event does to the    *)
(* stream by `Advances`.                                                   *)
(***************************************************************************)

(* The threshold leaves room to spare: InitLen is past it already, and a   *)
(* buffer that has doubled may hold all that it held before (512 bytes,    *)
(* 7 / 10 and 16 satisfy both).                                            *)
Roomy ==
    /\ (InitLen * RateNum) \div RateDen > Slack
    /\ InitLen * (2 * RateNum - RateDen) >= Slack * RateDen

(* The program's values are such (xma_socket_cache.h:33, 195-196,          *)
(* xma_socket.cpp:276).                                                    *)
LEMMA ProgramIsRoomy ==
    ASSUME InitLen = 512, Slack = 16, RateNum = 7, RateDen = 10
    PROVE  Roomy
BY DEF Roomy

Threshold(c) ==
    Ready(c) =>
        /\ c.state = "FULL" <=> Len(c.tx) > CanLen(c.txLen)
        /\ c.state = "FULL" => c.txLen >= MaxLen

Quiet(c) == Ready(c) /\ "OUT" \in c.armed => c.tx # <<>>

Sound(c) ==
    /\ BufSizes = {} /\ Roomy => c.txLen >= InitLen /\ Threshold(c)
    /\ FALSE \notin CtlOutcomes => Quiet(c)

(* d has the cache of c, watched as before or not at all.                  *)
SameCache(c, d) ==
    /\ d.state = c.state /\ d.tx = c.tx /\ d.txLen = c.txLen
    /\ d.armed = c.armed \/ d.armed = {}

LEMMA SameCacheSound ==
    ASSUME NEW c, Sound(c), NEW d, SameCache(c, d)
    PROVE  Sound(d)
BY DEF SameCache, Sound, Threshold, Quiet, Ready

LEMMA AbortSame ==
    ASSUME NEW c, Good(c)
    PROVE  SameCache(c, Abort(c)) /\ Abort(c).wire = c.wire
BY DEF Abort, SameCache, Good, Sockets

LEMMA SetErrSame ==
    ASSUME NEW c, Good(c), NEW e
    PROVE  SameCache(c, SetErr(c, e)) /\ SetErr(c, e).wire = c.wire
BY DEF SetErr, SameCache, Good, Sockets

LEMMA IdleSound ==
    ASSUME NEW c, Sound(c), NEW d, ~Ready(d), d.txLen = c.txLen
    PROVE  Sound(d)
BY DEF Sound, Threshold, Quiet
-----------------------------------------------------------------------------
(* Sizes.                                                                   *)

(* A quotient is at least q when the product says so.                      *)
LEMMA QuotientAtLeast ==
    ASSUME NEW a \in Nat, NEW b \in Nat \ {0}, NEW q \in Nat, q * b <= a
    PROVE  a \div b >= q /\ a \div b \in Nat
OBVIOUS

LEMMA QuotientMonotone ==
    ASSUME NEW a \in Nat, NEW x \in Nat, NEW b \in Nat \ {0}, x <= a
    PROVE  a \div b >= x \div b /\ a \div b \in Nat /\ x \div b \in Nat
OBVIOUS

LEMMA ProductMonotone ==
    ASSUME NEW x \in Nat, NEW y \in Nat, NEW n \in Nat, x <= y
    PROVE  x * n <= y * n /\ x * n \in Nat /\ y * n \in Nat
OBVIOUS

(* Past InitLen the threshold grows with the capacity.                     *)
LEMMA CanLenGrows ==
    ASSUME Roomy, NEW len \in Nat, NEW new \in Nat, InitLen <= len, len <= new
    PROVE  /\ CanLen(len) <= CanLen(new)
           /\ CanLen(new) = (new * RateNum) \div RateDen - Slack
           /\ (new * RateNum) \div RateDen > Slack
<1> DEFINE i == (InitLen * RateNum) \div RateDen
           s == (len * RateNum) \div RateDen
           t == (new * RateNum) \div RateDen
<1>1. /\ InitLen \in Nat /\ RateNum \in Nat /\ RateDen \in Nat \ {0} /\ Slack \in Nat
      /\ i > Slack
  BY BuffAssumption DEF Roomy
<1>2. /\ InitLen * RateNum \in Nat /\ len * RateNum \in Nat /\ new * RateNum \in Nat
      /\ InitLen * RateNum <= len * RateNum /\ len * RateNum <= new * RateNum
  BY <1>1, ProductMonotone
<1>3. i <= s /\ s <= t /\ i \in Nat /\ s \in Nat /\ t \in Nat
  BY <1>1, <1>2, QuotientMonotone
<1>4. /\ CanLen(len) = IF s > Slack THEN s - Slack ELSE s
      /\ CanLen(new) = IF t > Slack THEN t - Slack ELSE t
  BY DEF CanLen
<1> HIDE DEF i, s, t
<1>5. CanLen(len) <= CanLen(new) /\ CanLen(new) = t - Slack /\ t > Slack
  BY <1>1, <1>3, <1>4
<1>6. QED
  BY <1>5 DEF t

(* A buffer that has doubled is below its threshold with all it held.      *)
LEMMA DoubledIsRoomy ==
    ASSUME Roomy, NEW len \in Nat, NEW new \in Nat, InitLen <= len, 2 * len <= new
    PROVE  CanLen(new) >= len
<1>1. /\ InitLen \in Nat /\ RateNum \in Nat /\ RateDen \in Nat \ {0} /\ Slack \in Nat
      /\ InitLen * (2 * RateNum - RateDen) >= Slack * RateDen
  BY BuffAssumption DEF Roomy
<1>2. CanLen(new) = (new * RateNum) \div RateDen - Slack
  BY <1>1, CanLenGrows
<1>3. (len + Slack) * RateDen <= new * RateNum
  <2> DEFINE g == 2 * RateNum - RateDen
  <2>1. CASE g >= 0
    <3>1. InitLen * g <= len * g
      BY <1>1, <2>1, ProductMonotone
    <3>2. (2 * len) * RateNum <= new * RateNum
      BY <1>1, ProductMonotone
    <3>3. (len + Slack) * RateDen = len * RateDen + Slack * RateDen
      BY <1>1
    <3>4. len * g = (2 * len) * RateNum - len * RateDen
      BY <1>1
    <3>5. /\ InitLen * g \in Int /\ len * g \in Int /\ (2 * len) * RateNum \in Int
          /\ new * RateNum \in Int /\ Slack * RateDen \in Int /\ len * RateDen \in Int
      BY <1>1, <2>1
    <3>6. Slack * RateDen <= InitLen * g
      BY <1>1
    <3> HIDE DEF g
    <3>7. QED
      BY <3>1, <3>2, <3>3, <3>4, <3>5, <3>6
  <2>2. CASE g < 0
    <3>1. InitLen * g < 0
      BY <1>1, <2>2, BuffAssumption
    <3>2. Slack * RateDen >= 0
      BY <1>1
    <3>3. QED
      BY <1>1, <2>2, <3>1, <3>2
  <2>3. QED
    BY <1>1, <2>1, <2>2
<1>4. new * RateNum \in Nat
  BY <1>1
<1>5. (new * RateNum) \div RateDen >= len + Slack /\ (new * RateNum) \div RateDen \in Nat
  BY <1>1, <1>3, <1>4, QuotientAtLeast
<1>6. QED
  BY <1>1, <1>2, <1>5

(* expand leaves a buffer that asks for more at its maximum, or doubled.   *)
LEMMA ExpandDoubles ==
    ASSUME NEW len \in Nat \ {0}, NEW need \in Nat \ {0}
    PROVE  Expand(len, need) >= MaxLen \/ Expand(len, need) >= 2 * len
<1> DEFINE new == Growth(len + need)[len]
<1>1. new \in Int /\ (new = MaxLen \/ new >= 2 * len)
  BY GrowthBound
<1>2. Expand(len, need) = IF new > len THEN new ELSE len
  BY DEF Expand
<1> HIDE DEF new
<1>3. QED
  BY <1>1, <1>2, BuffAssumption

(* A cache that is over its threshold after checkCanOp can grow no more.   *)
LEMMA FullIsAtMaximum ==
    ASSUME Roomy, NEW len \in Nat \ {0}, InitLen <= len, NEW idx \in Nat, idx <= len,
           idx > CanLen(CheckLen(len, idx, 0))
    PROVE  CheckLen(len, idx, 0) >= MaxLen
<1> DEFINE need == idx + 0 - CanLen(len) + ConnLen
<1>1. CanLen(len) \in 0..len /\ ConnLen \in Nat \ {0} /\ MaxLen \in Int
  BY CanLenBound, BuffAssumption
<1>2. idx > CanLen(len)
  BY DEF CheckLen
<1>3. CheckLen(len, idx, 0) = Expand(len, need)
  BY <1>2 DEF CheckLen
<1>4. need \in Nat \ {0} /\ need \in Int
  BY <1>1, <1>2
<1> HIDE DEF need
<1>5. Expand(len, need) \in Nat
  BY <1>4, ExpandBound
<1>6. CASE Expand(len, need) >= 2 * len
  <2>1. CanLen(Expand(len, need)) >= len
    BY <1>5, <1>6, DoubledIsRoomy
  <2>2. CanLen(Expand(len, need)) \in Nat
    BY <1>5, CanLenBound
  <2>3. QED
    BY <1>3, <2>1, <2>2
<1>7. QED
  BY <1>3, <1>4, <1>6, ExpandDoubles

(* A buffer at its maximum is left alone.                                  *)
LEMMA AtMaximumStays ==
    ASSUME NEW len \in Nat \ {0}, len >= MaxLen, NEW idx \in Nat, NEW n \in Nat
    PROVE  CheckLen(len, idx, n) = len
<1> DEFINE need == idx + n - CanLen(len) + ConnLen
<1>1. need \in Int /\ MaxLen \in Int
  BY CanLenBound, BuffAssumption
<1>2. CheckLen(len, idx, n) = len \/ CheckLen(len, idx, n) = Expand(len, need)
  BY DEF CheckLen
<1> HIDE DEF need
<1>3. /\ Expand(len, need) \in Nat /\ Expand(len, need) >= len
      /\ Expand(len, need) = len \/ Expand(len, need) <= MaxLen
  BY <1>1, ExpandBound
<1>4. QED
  BY <1>1, <1>2, <1>3
-----------------------------------------------------------------------------
(* The methods that send keep the verdict and the watching of EPOLLOUT.     *)

LEMMA CapacityKept ==
    ASSUME NEW c, Good(c)
    PROVE  /\ c.tx \in Seq(Nat) /\ Len(c.tx) \in Nat /\ c.txLen \in Nat \ {0}
           /\ CanLen(c.txLen) \in 0..c.txLen
           /\ InitLen \in Nat /\ MaxLen \in Int
<1>1. c.tx \in Seq(Nat) /\ c.txLen \in Nat \ {0} /\ c.txLen \in Nat
  BY DEF Good, Sockets
<1>2. Len(c.tx) \in Nat
  BY <1>1, LenProperties
<1>3. QED
  BY <1>1, <1>2, CanLenBound, BuffAssumption

LEMMA NoLongerFullSound ==
    ASSUME NEW c, Good(c), Ready(c), Sound(c), NEW k \in 0..Len(c.tx), k < Len(c.tx)
    PROVE  /\ Sound(NoLongerFull(Flushed(c, k)))
           /\ c.state = "CONNECTED" => NoLongerFull(Flushed(c, k)).state = "CONNECTED"
<1> DEFINE d == Flushed(c, k)
           e == NoLongerFull(d)
<1>1. /\ Good(d) /\ Ready(d) /\ d.state = c.state /\ d.txLen = c.txLen
      /\ Len(d.tx) = Len(c.tx) - k
  BY FlushedSends DEF Sends
<1>2. d.armed = c.armed
  BY DEF Flushed, Good, Sockets
<1>3. /\ Len(c.tx) \in Nat /\ Len(d.tx) \in Nat /\ d.txLen \in Nat \ {0}
      /\ CanLen(d.txLen) \in Nat /\ InitLen \in Nat /\ MaxLen \in Int
  BY <1>1, CapacityKept
<1>4. Len(d.tx) > 0 /\ Len(d.tx) <= Len(c.tx)
  BY <1>1, <1>3
<1> HIDE DEF d
<1>5. e = IF d.state = "FULL"
          THEN [d EXCEPT !.txLen = CheckLen(@, Len(d.tx), 0),
                         !.state = IF CanOp(d.txLen, Len(d.tx), 0) THEN "CONNECTED" ELSE @]
          ELSE d
  BY DEF NoLongerFull
<1>6. /\ e.tx = d.tx /\ e.armed = d.armed /\ Ready(e)
      /\ e.txLen = IF d.state = "FULL" THEN CheckLen(d.txLen, Len(d.tx), 0) ELSE d.txLen
      /\ e.state = IF d.state = "FULL" /\ ~CanOp(d.txLen, Len(d.tx), 0) THEN "FULL" ELSE "CONNECTED"
  BY <1>1, <1>5 DEF Good, Sockets, Ready
<1> HIDE DEF e
<1>7. e.tx # <<>>
  BY <1>4, <1>6, EmptySeq
<1>8. ASSUME BufSizes = {}, Roomy
      PROVE  e.txLen >= InitLen /\ Threshold(e)
  <2>1. /\ d.txLen >= InitLen
        /\ d.state = "FULL" => d.txLen >= MaxLen
        /\ d.state # "FULL" => Len(c.tx) <= CanLen(d.txLen)
    BY <1>1, <1>3, <1>8 DEF Sound, Threshold
  <2>2. CASE d.state = "FULL"
    <3>1. CheckLen(d.txLen, Len(d.tx), 0) = d.txLen
      BY <1>3, <2>1, <2>2, AtMaximumStays
    <3>2. CanOp(d.txLen, Len(d.tx), 0) <=> Len(d.tx) <= CanLen(d.txLen)
      BY <1>3, <3>1 DEF CanOp
    <3>3. QED
      BY <1>3, <1>6, <2>1, <2>2, <3>1, <3>2 DEF Threshold
  <2>3. CASE d.state # "FULL"
    BY <1>3, <1>4, <1>6, <2>1, <2>3 DEF Threshold
  <2>4. QED
    BY <2>2, <2>3
<1>9. QED
  BY <1>1, <1>6, <1>7, <1>8 DEF Sound, Quiet, e, d

(* DoWrite; a socket that was not FULL does not become so.                 *)
LEMMA DoWriteSound ==
    ASSUME NEW c, Good(c), Ready(c), Sound(c), NEW k \in Int, k <= Len(c.tx),
           NEW ok \in CtlOutcomes
    PROVE  /\ Sound(DoWrite(c, k, ok).c)
           /\ c.state = "CONNECTED" => DoWrite(c, k, ok).c.state = "CONNECTED"
<1> DEFINE w == DoWrite(c, k, ok)
<1>1. /\ Len(c.tx) \in Nat /\ c.txLen \in Nat \ {0} /\ CanLen(c.txLen) \in Nat
      /\ (c.tx # <<>> => Len(c.tx) > 0)
  BY CapacityKept, EmptySeq
<1>2. ok \in BOOLEAN
  BY SocketAssumption
<1>3. CASE AssertFails(c)
  <2>1. w = Result(Abort(c), HardErr)
    BY <1>3 DEF DoWrite
  <2>2. w.c.state = c.state /\ SameCache(c, w.c)
    BY <2>1, AbortSame DEF Result, SameCache
  <2>3. QED
    BY <2>2, SameCacheSound
<1>4. CASE ~AssertFails(c) /\ (c.tx = <<>> \/ k <= 0)
  BY <1>4 DEF DoWrite, Result
<1>5. CASE ~AssertFails(c) /\ c.tx # <<>> /\ k > 0 /\ k < Len(c.tx)
  <2>1. w = Result(NoLongerFull(Flushed(c, k)), k)
    BY <1>1, <1>5 DEF DoWrite
  <2>2. k \in 0..Len(c.tx)
    BY <1>1, <1>5
  <2>3. w.c = NoLongerFull(Flushed(c, k))
    BY <2>1 DEF Result
  <2>4. QED
    BY <1>5, <2>2, <2>3, NoLongerFullSound
<1>6. CASE ~AssertFails(c) /\ c.tx # <<>> /\ k > 0 /\ ~(k < Len(c.tx))
  <2> DEFINE d == Flushed(c, k)
             e == [d EXCEPT !.state = "CONNECTED"]
  <2>1. w = IF c.fd /\ ok THEN Result(SetEvents(e, Idle, ok), k)
            ELSE Result(SetErr(e, "SYS_ERR"), HardErr)
    BY <1>1, <1>6 DEF DoWrite
  <2>2. k \in 0..Len(c.tx) /\ k = Len(c.tx)
    BY <1>1, <1>6
  <2>3. Good(d) /\ d.txLen = c.txLen /\ Len(d.tx) = 0 /\ d.fd = c.fd
    <3>1. Sends(c, d, <<>>) /\ d.txLen = c.txLen /\ Len(d.tx) = Len(c.tx) - k
      BY <2>2, FlushedSends
    <3> HIDE DEF d
    <3>2. QED
      BY <1>1, <2>2, <3>1 DEF Sends
  <2>4. d.armed = c.armed
    BY DEF Flushed, Good, Sockets
  <2> HIDE DEF d
  <2>5. /\ e.state = "CONNECTED" /\ Len(e.tx) = 0 /\ e.txLen = c.txLen
        /\ e.armed = c.armed /\ e.fd = c.fd /\ e \in Sockets
    BY <2>3, <2>4 DEF Good, Sockets, States
  <2> HIDE DEF e
  <2>6. /\ w.c.state = "CONNECTED" /\ Len(w.c.tx) = 0 /\ w.c.txLen = c.txLen
        /\ w.c.armed = IF c.fd /\ ok THEN Idle ELSE c.armed
    BY <2>1, <2>5 DEF Result, SetEvents, SetErr, Sockets
  <2> HIDE DEF w
  <2>7. ASSUME FALSE \notin CtlOutcomes
        PROVE  "OUT" \notin w.c.armed
    <3>1. ok
      BY <1>2, <2>7
    <3>2. ~c.fd => c.armed = {}
      BY DEF Good, FdMatches
    <3>3. QED
      BY <2>6, <3>1, <3>2 DEF Idle
  <2>8. BufSizes = {} /\ Roomy => c.txLen >= InitLen
    BY DEF Sound
  <2>9. Threshold(w.c)
    BY <1>1, <2>6 DEF Threshold
  <2>10. QED
    BY <2>6, <2>7, <2>8, <2>9 DEF Sound, Quiet, w
<1>7. QED
  BY <1>3, <1>4, <1>5, <1>6

(* DO_CACHE_MSG, of a message that is not empty.                           *)
LEMMA CacheMsgSound ==
    ASSUME NEW c, Good(c), Sound(c), c.state = "CONNECTED",
           NEW m \in Seq(Nat), m # <<>>, NEW n
    PROVE  Sound(CacheMsg(c, m, n).c)
<1> DEFINE len == CopyLen(c.txLen, Len(c.tx), Len(m))
           idx == Len(c.tx) + Len(m)
           cap == CheckLen(len, idx, 0)
           d == CacheMsg(c, m, n).c
<1>1. /\ c.tx \in Seq(Nat) /\ Len(c.tx) \in Nat /\ c.txLen \in Nat \ {0}
      /\ CanLen(c.txLen) \in Nat /\ InitLen \in Nat /\ MaxLen \in Int
      /\ Len(m) \in Nat /\ Len(m) > 0
  BY CapacityKept, EmptySeq, LenProperties
<1>2. /\ len \in Nat \ {0} /\ len >= c.txLen
      /\ CopyFits(c.txLen, Len(c.tx), Len(m)) => idx <= len
  BY <1>1, CopyBound DEF Good, TxHolds, Holds
<1>3. /\ c.tx \o m \in Seq(Nat) /\ Len(c.tx \o m) = idx /\ idx \in Nat /\ idx > 0
  BY <1>1, ConcatProperties
<1>4. ASSUME BufSizes = {}, Roomy
      PROVE  c.txLen >= InitLen /\ Len(c.tx) <= CanLen(c.txLen)
  BY <1>1, <1>4 DEF Sound, Threshold, Ready
<1>5. Ready(c)
  BY DEF Ready
<1>6. CASE CopyFits(c.txLen, Len(c.tx), Len(m))
  <2>1. /\ d.tx = c.tx \o m /\ d.txLen = cap /\ d.armed = c.armed
        /\ d.state = IF CanOp(len, idx, 0) THEN "CONNECTED" ELSE "FULL"
    BY <1>6 DEF CacheMsg, Result, Good, Sockets
  <2> HIDE DEF d, len, idx
  <2>2. d.tx # <<>> /\ Len(d.tx) = idx
    BY <1>3, <2>1, EmptySeq
  <2>3. ASSUME BufSizes = {}, Roomy
        PROVE  d.txLen >= InitLen /\ Threshold(d)
    <3>1. cap \in Nat \ {0} /\ cap >= len /\ len >= InitLen
      <4>1. idx \in Nat /\ len \in Nat \ {0} /\ 0 \in Nat
        BY <1>2, <1>3
      <4>2. cap \in Nat \ {0} /\ cap >= len
        BY <4>1, CheckLenBound
      <4>3. QED
        BY <1>1, <1>2, <1>4, <2>3, <4>2
    <3>2. CanLen(cap) \in Nat
      BY <3>1, CanLenBound
    <3>3. CanOp(len, idx, 0) <=> idx <= CanLen(cap)
      BY <1>3 DEF CanOp
    <3>4. idx > CanLen(cap) => cap >= MaxLen
      BY <1>2, <1>3, <1>6, <2>3, <3>1, FullIsAtMaximum
    <3> HIDE DEF cap
    <3>5. QED
      BY <1>1, <1>2, <1>3, <2>1, <2>2, <3>1, <3>2, <3>3, <3>4 DEF Threshold
  <2>4. QED
    BY <2>2, <2>3 DEF Sound, Quiet, d
<1>7. CASE ~CopyFits(c.txLen, Len(c.tx), Len(m))
  <2>1. /\ d.tx = c.tx /\ d.txLen = len /\ d.armed = c.armed /\ d.state = "CONNECTED"
    BY <1>7 DEF CacheMsg, Result, Good, Sockets
  <2> HIDE DEF d, len
  <2>2. ASSUME BufSizes = {}, Roomy
        PROVE  d.txLen >= InitLen /\ Threshold(d)
    <3>1. CanLen(c.txLen) <= CanLen(len)
      BY <1>1, <1>2, <1>4, <2>2, CanLenGrows
    <3>2. CanLen(len) \in Nat
      BY <1>2, CanLenBound
    <3>3. QED
      BY <1>1, <1>2, <1>4, <2>1, <2>2, <3>1, <3>2 DEF Threshold
  <2>3. FALSE \notin CtlOutcomes => Quiet(d)
    BY <1>5, <2>1 DEF Sound, Quiet
  <2>4. QED
    BY <2>2, <2>3 DEF Sound, d
<1>8. QED
  BY <1>6, <1>7

LEMMA WriteMsgSound ==
    ASSUME NEW c, Good(c), Sound(c), NEW m \in Seq(Nat), NEW k \in SendOutcomes(c, Len(c.tx)),
           NEW ok \in CtlOutcomes, NEW j \in SendOutcomes(c, Len(m)),
           c.state = "CONNECTED", m # <<>>
    PROVE  Sound(WriteMsg(c, m, k, ok, j).c)
<1> DEFINE flush == IF c.tx = <<>> THEN Result(c, 0) ELSE DoWrite(c, k, ok)
           d == flush.c
           w == WriteMsg(c, m, k, ok, j)
           a == SubSeq(m, 1, j)
           r == SubSeq(m, j + 1, Len(m))
           e == [d EXCEPT !.wire = @ \o a]
           f == [d EXCEPT !.wire = @ \o m]
<1>1. Ready(c) /\ Len(c.tx) \in Nat /\ Len(m) \in Nat /\ j \in Int /\ ok \in BOOLEAN
  BY CapacityKept, LenProperties, SocketAssumption DEF Ready, SendOutcomes, HardErr
<1>2. k \in Int /\ k <= Len(c.tx)
  BY <1>1, SendBound
<1>3. Good(d) /\ Sound(d) /\ d.state = "CONNECTED"
  <2>1. CASE c.tx = <<>>
    BY <2>1 DEF Result
  <2>2. CASE c.tx # <<>>
    BY <1>1, <1>2, <2>2, DoWriteSends, DoWriteSound DEF Sends
  <2>3. QED
    BY <2>1, <2>2
<1>4. \/ w = Result(d, HardErr)
      \/ w = CacheMsg(d, m, Len(m))
      \/ w = Result(SetErr(d, "SYS_ERR"), HardErr)
      \/ j >= 0 /\ j < Len(m) /\ d.tx = <<>> /\ w = CacheMsg(e, r, Len(m))
      \/ d.tx = <<>> /\ w = Result(f, Len(m))
  BY <1>1 DEF WriteMsg
<1> HIDE DEF d, w
<1>5. CASE w = Result(d, HardErr)
  BY <1>3, <1>5 DEF Result, w
<1>6. CASE w = CacheMsg(d, m, Len(m))
  BY <1>3, <1>6, CacheMsgSound DEF w
<1>7. CASE w = Result(SetErr(d, "SYS_ERR"), HardErr)
  <2>1. SameCache(d, w.c)
    BY <1>3, <1>7 DEF Result, SetErr, SameCache, Good, Sockets
  <2>2. QED
    BY <1>3, <2>1, SameCacheSound DEF w
<1>8. CASE j >= 0 /\ j < Len(m) /\ d.tx = <<>> /\ w = CacheMsg(e, r, Len(m))
  <2>1. /\ j \in 0..Len(m)
        /\ a \in Seq(Nat) /\ r \in Seq(Nat) /\ Len(r) = Len(m) - j
    <3>1. j \in 0..Len(m)
      BY <1>1, <1>8
    <3>2. QED
      BY <3>1, Split
  <2> HIDE DEF a, r
  <2>2. r # <<>>
    <3>1. Len(r) # 0
      BY <1>1, <1>8, <2>1
    <3>2. QED
      BY <2>1, <3>1, EmptySeq
  <2>3. Good(e)
    BY <1>3, <1>8, <2>1, WireSends DEF Sends, Ready
  <2>4. e.state = "CONNECTED" /\ SameCache(d, e)
    BY <1>3 DEF SameCache, Good, Sockets
  <2>5. Sound(e)
    BY <1>3, <2>4, SameCacheSound
  <2> HIDE DEF e
  <2>6. QED
    BY <1>8, <2>1, <2>2, <2>3, <2>4, <2>5, CacheMsgSound DEF w
<1>9. CASE d.tx = <<>> /\ w = Result(f, Len(m))
  <2>1. SameCache(d, f) /\ w.c = f
    BY <1>3, <1>9 DEF SameCache, Good, Sockets, Result
  <2>2. QED
    BY <1>3, <2>1, SameCacheSound DEF w
<1>10. QED
  BY <1>4, <1>5, <1>6, <1>7, <1>8, <1>9

LEMMA ArmSound ==
    ASSUME NEW c, Good(c), Sound(c)
    PROVE  Sound(Arm(c))
<1>1. Arm(c) = c \/ (c.tx # <<>> /\ Arm(c) = [c EXCEPT !.armed = Watching])
  BY DEF Arm, SetEvents
<1>2. CASE c.tx # <<>> /\ Arm(c) = [c EXCEPT !.armed = Watching]
  <2> DEFINE d == Arm(c)
  <2>1. d.state = c.state /\ d.tx = c.tx /\ d.txLen = c.txLen
    BY <1>2 DEF Good, Sockets
  <2> HIDE DEF d
  <2>2. Sound(d)
    BY <1>2, <2>1 DEF Sound, Threshold, Quiet, Ready
  <2>3. QED
    BY <2>2 DEF d
<1>3. QED
  BY <1>1, <1>2
-----------------------------------------------------------------------------
(* What a step does to the stream.                                          *)

(* d is c with nothing sent and nothing closed.                            *)
Leaves(c, d) == SameCache(c, d) /\ d.wire = c.wire

(* d is c with its connection closed, and the cache with it.               *)
Drops(c, d) ==
    /\ ~Connection(d) /\ ~Ready(d) /\ d.tx = <<>>
    /\ d.wire = c.wire /\ d.txLen = c.txLen

(* d is what an event makes of c: more of the cache may have been sent     *)
(* (e), and then the connection may have ended.                            *)
Advances(c, d) == \E e :
    /\ Good(e) /\ Connection(e)
    /\ e.wire \o e.tx = c.wire \o c.tx /\ Len(e.wire) >= Len(c.wire)
    /\ Leaves(e, d) \/ Drops(e, d)

LEMMA LeavesLeaves ==
    ASSUME NEW c, NEW d, NEW e, Leaves(c, d), Leaves(d, e)
    PROVE  Leaves(c, e)
BY DEF Leaves, SameCache

LEMMA LeavesItself ==
    ASSUME NEW c
    PROVE  Leaves(c, c)
BY DEF Leaves, SameCache

LEMMA CloseLeaves ==
    ASSUME NEW c, Good(c)
    PROVE  Leaves(c, Close(c))
<1>1. /\ Close(c).state = c.state /\ Close(c).txLen = c.txLen
      /\ Close(c).tx = c.tx /\ Close(c).wire = c.wire
  BY CloseGood
<1>2. Close(c).armed = c.armed \/ Close(c).armed = {}
  BY DEF Close, Good, Sockets
<1>3. QED
  BY <1>1, <1>2 DEF Leaves, SameCache

LEMMA ResetDrops ==
    ASSUME NEW c, Good(c), NEW life \in {"alive", "deleted", "aborted"}
    PROVE  Drops(c, Reset(c)) /\ Drops(c, [Reset(c) EXCEPT !.life = life])
<1> DEFINE d == Close(c)
           r == Reset(c)
           e == [r EXCEPT !.life = life]
<1>1. Good(d) /\ d.wire = c.wire /\ d.txLen = c.txLen
  BY CloseGood
<1>2. r = [d EXCEPT !.state = "CREATED", !.tx = <<>>, !.rx = <<>>]
  BY DEF Reset
<1> HIDE DEF d, r
<1>3. /\ r.state = "CREATED" /\ r.tx = <<>> /\ r.wire = c.wire /\ r.txLen = c.txLen
      /\ e.state = "CREATED" /\ e.tx = <<>> /\ e.wire = c.wire /\ e.txLen = c.txLen
  BY <1>1, <1>2 DEF Good, Sockets
<1> HIDE DEF e
<1>4. Drops(c, r) /\ Drops(c, e)
  BY <1>3 DEF Drops, Connection, Ready
<1>5. QED
  BY <1>4 DEF r, e

LEMMA OnSocketErrEnds ==
    ASSUME NEW c, Good(c), NEW e \in Errors
    PROVE  Leaves(c, OnSocketErr(c, e)) \/ Drops(c, OnSocketErr(c, e))
<1>1. \/ OnSocketErr(c, e) = c
      \/ OnSocketErr(c, e) = [Reset(c) EXCEPT !.life = "deleted"]
      \/ OnSocketErr(c, e) = SetErr(c, e)
  BY DEF OnSocketErr
<1>2. QED
  BY <1>1, LeavesItself, ResetDrops, SetErrSame DEF Leaves

LEMMA DoReadLeaves ==
    ASSUME NEW c, Good(c), NEW r, NEW fake \in BOOLEAN
    PROVE  Leaves(c, DoRead(c, r, fake).c)
<1> DEFINE bytes == IF fake THEN [i \in 1..r |-> Garbage] ELSE SubSeq(c.inbox, 1, r)
           d == [c EXCEPT !.rx = @ \o bytes,
                          !.rxLen = AddLen(@, Len(c.rx) + r),
                          !.inbox = SubSeq(@, r + 1, Len(@))]
<1>1. \/ DoRead(c, r, fake).c = c
      \/ DoRead(c, r, fake).c = Abort(c)
      \/ \E e \in Errors : DoRead(c, r, fake).c = SetErr(c, e)
      \/ DoRead(c, r, fake).c = d
  BY DEF DoRead, Result, Errors
<1>2. Leaves(c, d)
  BY DEF Leaves, SameCache, Good, Sockets
<1> HIDE DEF d
<1>3. QED
  BY <1>1, <1>2, LeavesItself, AbortSame, SetErrSame DEF Leaves

LEMMA ReadMsgLeaves ==
    ASSUME NEW c, Good(c), NEW n \in Nat, NEW r
    PROVE  Leaves(c, ReadMsg(c, n, r).c)
<1> DEFINE room == FreeLen(c.rxLen, Len(c.rx))
           read == IF room > 0 THEN DoRead(c, r, FALSE) ELSE Result(c, 0)
           d == read.c
           w == ReadMsg(c, n, r)
<1>1. Leaves(c, d)
  BY DoReadLeaves, LeavesItself DEF Result
<1>2. \/ w.c = d \/ w.c = Taken(d, n)
      \/ \E e \in Errors : w.c = SetErr(c, e)
  BY DEF ReadMsg, Result, Errors
<1>3. Leaves(d, Taken(d, n))
  BY DEF Taken, Leaves, SameCache
<1> HIDE DEF d, w
<1>4. QED
  BY <1>1, <1>2, <1>3, LeavesLeaves, SetErrSame DEF Leaves, w

LEMMA ReadLeaves ==
    ASSUME NEW c, Good(c), Ready(c), NEW r \in RecvOutcomes(c, ReadRoom(c))
    PROVE  Leaves(c, Read(c, r).c) /\ Good(Read(c, r).c)
<1> DEFINE read == ReadMsg(c, ReadLen, r)
           d == read.c
           e == Read(c, r).c
<1>1. Good(e)
  BY ReadHandles DEF Handles
<1>2. CASE HasReceiver
  <2>1. ReadLen \in Nat
    BY SocketAssumption
  <2>2. Leaves(c, d)
    BY <2>1, ReadMsgLeaves
  <2>3. Good(d)
    BY <1>2, <2>1, ReadMsgHandles DEF ReadRoom, Handles
  <2>4. Leaves(d, Close(d))
    BY <2>3, CloseLeaves
  <2>5. read = [c |-> d, ret |-> read.ret, msg |-> read.msg]
    BY DEF ReadMsg, DoRead, Result
  <2>6. Read(c, r) = read \/ Read(c, r) = [read EXCEPT !.c = Close(d)]
    BY <1>2 DEF Read, Receiver
  <2> HIDE DEF read, d
  <2>7. e = d \/ e = Close(d)
    BY <2>5, <2>6 DEF d
  <2>8. QED
    BY <1>1, <2>2, <2>4, <2>7, LeavesLeaves
<1>3. CASE ~HasReceiver
  <2>1. Read(c, r) = DoRead(c, r, TRUE)
    BY <1>3 DEF Read
  <2>2. QED
    BY <1>1, <2>1, DoReadLeaves
<1>4. QED
  BY <1>2, <1>3

(* Reading, sending and then, perhaps, the end of the connection.          *)
LEMMA DoReadWriteAdvances ==
    ASSUME NEW c, Good(c), Ready(c), Sound(c), NEW ev \in SUBSET Events,
           NEW r \in RecvOutcomes(c, ReadRoom(c)),
           NEW k \in SendOutcomes(c, Len(c.tx)), NEW ok \in CtlOutcomes
    PROVE  /\ Advances(c, DoReadWrite(c, ev, r, k, ok).c)
           /\ Sound(DoReadWrite(c, ev, r, k, ok).c)
<1> DEFINE read == IF "IN" \in ev THEN Read(c, r) ELSE Result(c, 0)
           x == read.c
           write == IF "OUT" \in ev THEN Write(x, k, ok) ELSE Result(x, 0)
           y == write.c
           d == DoReadWrite(c, ev, r, k, ok).c
<1>1. ok \in BOOLEAN /\ Len(c.tx) \in Nat
  BY SocketAssumption, CapacityKept
<1>2. Leaves(c, x) /\ Good(x)
  BY ReadLeaves, LeavesItself DEF Result
<1>3. PICK z \in {x, y} : \/ d = z
                          \/ \E e \in Errors : d = OnSocketErr(z, e)
  <2>1. read = [c |-> x, ret |-> read.ret, msg |-> read.msg]
    BY DEF Read, Receiver, ReadMsg, DoRead, Result
  <2>2. DoReadWrite(c, ev, r, k, ok) =
          IF read.ret < 0 THEN Result(OnSocketErr(x, "READ_FAIL"), HardErr)
          ELSE [read EXCEPT !.c =
                  IF write.ret < 0 THEN OnSocketErr(y, "WRITE_FAIL")
                  ELSE IF "ERR" \in ev THEN OnSocketErr(y, "UNKNOWN_EVENT")
                  ELSE y]
    BY DEF DoReadWrite
  <2> HIDE DEF read, write
  <2>3. \/ d = OnSocketErr(x, "READ_FAIL") \/ d = OnSocketErr(y, "WRITE_FAIL")
        \/ d = OnSocketErr(y, "UNKNOWN_EVENT") \/ d = y
    BY <2>1, <2>2 DEF Result
  <2> HIDE DEF d, x, y
  <2>4. QED
    BY <2>3 DEF Errors
<1> HIDE DEF read
<1>4. Ready(x) /\ Sound(x) /\ x.tx = c.tx /\ x.wire = c.wire
  BY <1>2, SameCacheSound DEF Leaves, SameCache, Ready
<1>5. k \in Int /\ k <= Len(x.tx)
  BY <1>1, <1>4, SendBound
<1>6. Sends(x, x, <<>>)
  BY <1>2, <1>4, SendsNothing
<1>7. Sends(x, y, <<>>) /\ Sound(y)
  <2>1. CASE "OUT" \in ev
    <3>1. Write(x, k, ok) = DoWrite(x, k, ok)
      BY <1>4 DEF Write
    <3>2. QED
      BY <1>1, <1>2, <1>4, <1>5, <2>1, <3>1, DoWriteSends, DoWriteSound
  <2>2. CASE "OUT" \notin ev
    BY <1>4, <1>6, <2>2 DEF Result
  <2>3. QED
    BY <2>1, <2>2
<1> HIDE DEF x, y, d
<1>8. Sends(x, z, <<>>) /\ Sound(z)
  BY <1>4, <1>6, <1>7
<1>9. Good(z) /\ Connection(z)
  BY <1>8 DEF Sends, Ready, Connection
<1>10. z.wire \o z.tx = c.wire \o c.tx /\ Len(z.wire) >= Len(c.wire)
  <2>1. c.wire \o c.tx \in Seq(Nat)
    BY ConcatProperties DEF Good, Sockets
  <2>2. (c.wire \o c.tx) \o <<>> = c.wire \o c.tx
    BY <2>1, ConcatEmptySeq
  <2>3. QED
    BY <1>4, <1>8, <2>2 DEF Sends
<1>11. Leaves(z, d) \/ Drops(z, d)
  BY <1>3, <1>9, LeavesItself, OnSocketErrEnds
<1>12. Advances(c, d)
  BY <1>9, <1>10, <1>11 DEF Advances
<1>13. Sound(d)
  BY <1>8, <1>11, SameCacheSound, IdleSound DEF Leaves, Drops
<1>14. QED
  BY <1>12, <1>13 DEF d

(* The connection is established, or fails.                                *)
LEMMA DoConnectAdvances ==
    ASSUME NEW c, Good(c), c.state = "CONNECTING", c.fd, Sound(c),
           NEW ev \in SUBSET Events, NEW ok \in CtlOutcomes
    PROVE  /\ Advances(c, DoConnect(c, ev, ok).c)
           /\ Sound(DoConnect(c, ev, ok).c)
<1> DEFINE e == SetEvents([c EXCEPT !.state = "CONNECTED"], Idle, ok)
           d == DoConnect(c, ev, ok).c
<1>1. /\ c.tx \in Seq(Nat) /\ c.wire \in Seq(Nat) /\ Len(c.wire) \in Nat
      /\ CanLen(c.txLen) \in Nat /\ ok \in BOOLEAN /\ c.tx = <<>>
  BY CapacityKept, SocketAssumption, LenProperties DEF Good, Sockets, Fresh, Ready
<1>2. Good(d)
  BY <1>1, DoConnectHandles DEF Handles
<1>3. d = e \/ d = c \/ \E x \in Errors : d = OnSocketErr(c, x)
  BY DEF DoConnect, Result, Errors
<1>4. /\ e.state = "CONNECTED" /\ e.tx = <<>> /\ e.wire = c.wire /\ e.txLen = c.txLen
      /\ ok => e.armed = Idle
  BY <1>1 DEF SetEvents, Good, Sockets
<1> HIDE DEF d, e
<1>5. CASE d = e
  <2>1. Advances(c, d)
    <3>1. Connection(d) /\ d.wire = c.wire /\ d.tx = c.tx
      BY <1>1, <1>4, <1>5 DEF Connection
    <3>2. Len(d.wire) >= Len(c.wire)
      BY <1>1, <3>1
    <3>3. QED
      BY <1>2, <3>1, <3>2, LeavesItself DEF Advances
  <2>2. Threshold(d)
    BY <1>1, <1>4, <1>5, EmptySeq DEF Threshold
  <2>3. ASSUME FALSE \notin CtlOutcomes
        PROVE  Quiet(d)
    <3>1. ok
      BY <1>1, <2>3
    <3>2. QED
      BY <1>4, <1>5, <3>1 DEF Quiet, Idle
  <2>4. Sound(d)
    BY <1>4, <1>5, <2>2, <2>3 DEF Sound
  <2>5. QED
    BY <2>1, <2>4 DEF d
<1>6. CASE d = c \/ \E x \in Errors : d = OnSocketErr(c, x)
  <2>1. Leaves(c, d) \/ Drops(c, d)
    BY <1>6, LeavesItself, OnSocketErrEnds
  <2>2. Connection(c) /\ Len(c.wire) >= Len(c.wire)
    BY <1>1 DEF Connection
  <2>3. Advances(c, d)
    BY <2>1, <2>2 DEF Advances
  <2>4. Sound(d)
    BY <2>1, SameCacheSound, IdleSound DEF Leaves, Drops
  <2>5. QED
    BY <2>3, <2>4 DEF d
<1>7. QED
  BY <1>3, <1>5, <1>6

LEMMA DoHandleAdvances ==
    ASSUME NEW c, Good(c), c.fd, Sound(c), NEW ev \in SUBSET Events,
           NEW r \in RecvOutcomes(c, ReadRoom(c)),
           NEW k \in SendOutcomes(c, Len(c.tx)), NEW ok \in CtlOutcomes
    PROVE  /\ Connection(c)
           /\ Advances(c, DoHandle(c, ev, r, k, ok).c)
           /\ Sound(DoHandle(c, ev, r, k, ok).c)
<1>1. c.state = "CONNECTING" \/ Ready(c)
  BY DEF Good, Sockets, States, FdMatches, Ready
<1>2. CASE c.state = "CONNECTING"
  BY <1>2, DoConnectAdvances DEF DoHandle, Connection
<1>3. CASE Ready(c)
  BY <1>3, DoReadWriteAdvances DEF DoHandle, Connection, Ready
<1>4. QED
  BY <1>1, <1>2, <1>3
-----------------------------------------------------------------------------
(* The invariant: what IInv says, and that the socket is Sound.             *)
SInv == IInv /\ Sound(conn)

LEMMA InitSInv == Init => SInv
<1> SUFFICES ASSUME Init
             PROVE  SInv
  OBVIOUS
<1>1. ~Ready(conn) /\ conn.txLen = InitLen /\ InitLen >= InitLen
  BY BuffAssumption DEF Init, NewSocket, Ready
<1>2. QED
  BY <1>1, InitIInv DEF SInv, Sound, Threshold, Quiet

LEMMA AppOpenSound == SInv /\ AppOpen => Sound(conn')
<1> SUFFICES ASSUME SInv, AppOpen
             PROVE  Sound(conn')
  OBVIOUS
<1>1. PICK how \in {"refused", "unwatched", "started"} : conn' = OpenClient(conn, how)
  BY DEF AppOpen
<1>2. Good(conn) /\ Sound(conn)
  BY DEF SInv, IInv
<1>3. CASE conn.state \notin {"CREATED", "FAILED"}
  <2>1. conn' = SetErr(conn, "STATE_ERR")
    BY <1>1, <1>2, <1>3, OpenClientGood
  <2>2. QED
    BY <1>2, <2>1, SetErrSame, SameCacheSound
<1>4. CASE conn.state \in {"CREATED", "FAILED"}
  <2>1. conn'.txLen = conn.txLen /\ conn'.state \in {"CREATED", "FAILED", "CONNECTING"}
    BY <1>1, <1>2, <1>4, OpenClientGood
  <2>2. ~Ready(conn')
    BY <2>1 DEF Ready
  <2>3. QED
    BY <1>2, <2>1, <2>2, IdleSound
<1>5. QED
  BY <1>3, <1>4

(* What WriteMsg makes of the connection, whether it accepts or not.       *)
LEMMA AppWriteCases ==
    ASSUME SInv, AppWrite
    PROVE  \/ /\ conn'.tx = conn.tx /\ conn'.wire = conn.wire /\ accepted' = accepted
              /\ Connection(conn') = Connection(conn) /\ Sound(conn')
           \/ /\ Connection(conn) /\ Connection(conn') /\ Sound(conn')
              /\ Len(conn'.wire) >= Len(conn.wire)
              /\ \/ accepted' = accepted
                 \/ \E n \in MsgLens \ {0} : accepted' = accepted \o NextBytes(Len(accepted), n)
<1>1. PICK n \in MsgLens, ok \in CtlOutcomes :
        \E k \in SendOutcomes(conn, Len(conn.tx)), j \in SendOutcomes(conn, n) :
           LET m == NextBytes(Len(accepted), n)
               r == WriteMsg(conn, m, k, ok, j)
           IN  /\ conn' = Arm(r.c)
               /\ ret' = r.ret
               /\ accepted' = IF r.ret >= 0 THEN accepted \o m ELSE accepted
  BY DEF AppWrite
<1> DEFINE m == NextBytes(Len(accepted), n)
<1>2. PICK k \in SendOutcomes(conn, Len(conn.tx)), j \in SendOutcomes(conn, n) :
        /\ conn' = Arm(WriteMsg(conn, m, k, ok, j).c)
        /\ accepted' = IF WriteMsg(conn, m, k, ok, j).ret >= 0 THEN accepted \o m ELSE accepted
  BY <1>1
<1> DEFINE r == WriteMsg(conn, m, k, ok, j)
           c == r.c
<1>3. n \in Nat /\ ok \in BOOLEAN /\ Good(conn) /\ Sound(conn) /\ accepted \in Seq(Nat)
  BY SocketAssumption DEF SInv, IInv
<1>4. m \in Seq(Nat) /\ Len(m) = n
  BY <1>3, LenProperties, NextBytesIsSeq
<1>5. ASSUME Good(c), Sound(c)
      PROVE  /\ conn'.state = c.state /\ conn'.tx = c.tx /\ conn'.wire = c.wire
             /\ Sound(conn')
  <2>1. conn' = Arm(c)
    BY <1>2
  <2> HIDE DEF c
  <2>2. Good(Arm(c)) /\ Arm(c) = [c EXCEPT !.armed = Arm(c).armed]
    BY <1>5, ArmGood
  <2>3. Sound(Arm(c))
    BY <1>5, ArmSound
  <2>4. QED
    BY <1>5, <2>1, <2>2, <2>3 DEF Good, Sockets
<1>6. CASE conn.state # "CONNECTED" \/ m = <<>>
  <2>1. PICK e \in Errors : r = Result(SetErr(conn, e), HardErr)
    BY <1>6 DEF WriteMsg, Errors
  <2>2. c = SetErr(conn, e) /\ r.ret = HardErr
    BY <2>1 DEF Result
  <2>3. accepted' = accepted
    BY <1>2, <2>2 DEF HardErr
  <2> HIDE DEF c, r
  <2>4. Good(c) /\ SameCache(conn, c) /\ c.wire = conn.wire
    BY <1>3, <2>2, SetErrGood, SetErrSame
  <2>5. Sound(c)
    BY <1>3, <2>4, SameCacheSound
  <2>6. QED
    BY <1>5, <2>3, <2>4, <2>5 DEF SameCache, Connection
<1>7. CASE conn.state = "CONNECTED" /\ m # <<>>
  <2>1. Writes(conn, r, m) /\ Sound(c)
    BY <1>3, <1>4, <1>7, WriteMsgSends, WriteMsgSound
  <2>2. PICK b \in Seq(Nat) : Sends(conn, c, b)
    BY <2>1 DEF Writes
  <2>3. n # 0
    BY <1>4, <1>7, EmptySeq
  <2>4. accepted' = accepted \/ accepted' = accepted \o m
    BY <1>2
  <2> HIDE DEF c, r, m
  <2>5. Good(c) /\ Ready(c) /\ Len(c.wire) >= Len(conn.wire)
    BY <2>2 DEF Sends
  <2>6. Connection(conn) /\ Connection(conn') /\ Sound(conn') /\ conn'.wire = c.wire
    BY <1>5, <1>7, <2>1, <2>5 DEF Connection, Ready
  <2>7. QED
    BY <2>3, <2>4, <2>5, <2>6 DEF m
<1>8. QED
  BY <1>6, <1>7

LEMMA CallsCases ==
    ASSUME SInv, AppRead \/ AppClose \/ AppReset \/ AppDelete
    PROVE  Leaves(conn, conn') \/ Drops(conn, conn')
<1>1. Good(conn)
  BY DEF SInv, IInv
<1>2. CASE AppRead
  <2>1. PICK n \in ReadLens, r \in RecvOutcomes(conn, FreeLen(conn.rxLen, Len(conn.rx))) :
          conn' = ReadMsg(conn, n, r).c
    BY <1>2 DEF AppRead
  <2>2. n \in Nat
    BY SocketAssumption
  <2>3. QED
    BY <1>1, <2>1, <2>2, ReadMsgLeaves
<1>3. CASE AppClose
  BY <1>1, <1>3, CloseLeaves DEF AppClose
<1>4. CASE AppReset \/ AppDelete
  BY <1>1, <1>4, ResetDrops DEF AppReset, AppDelete
<1>5. QED
  BY <1>2, <1>3, <1>4

LEMMA PollCases ==
    ASSUME SInv, Poll
    PROVE  /\ Connection(conn) /\ Advances(conn, conn') /\ Sound(conn')
           /\ accepted' = accepted
<1>1. PICK ev \in Reported, r \in RecvOutcomes(conn, ReadRoom(conn)),
           k \in SendOutcomes(conn, Len(conn.tx)), ok \in CtlOutcomes :
        Handle(ev, r, k, ok)
  BY DEF Poll
<1>2. ev \in SUBSET Events /\ Good(conn) /\ Sound(conn)
  BY DEF Reported, SInv, IInv, Good, Sockets
<1>3. conn' = DoHandle(conn, ev, r, k, ok).c /\ conn.fd /\ accepted' = accepted
  BY <1>1 DEF Handle
<1>4. QED
  BY <1>2, <1>3, DoHandleAdvances

LEMMA KernelCases ==
    ASSUME SInv, Handshake \/ PeerSend \/ PeerClose \/ Break
    PROVE  Leaves(conn, conn') /\ accepted' = accepted
BY DEF Handshake, PeerSend, PeerClose, Break, Kernel, Leaves, SameCache, SInv, IInv, Good, Sockets

LEMMA SetSizesCases ==
    ASSUME SInv, SetSizes
    PROVE  /\ BufSizes # {} /\ conn'.state = conn.state /\ conn'.tx = conn.tx
           /\ conn'.wire = conn.wire /\ conn'.armed = conn.armed /\ accepted' = accepted
BY DEF SetSizes, SInv, IInv, Good, Sockets

LEMMA NextSInv == SInv /\ [Next]_vars => SInv'
<1> SUFFICES ASSUME SInv, [Next]_vars
             PROVE  SInv'
  OBVIOUS
<1>1. IInv' /\ Sound(conn)
  BY NextIInv DEF SInv
<1>2. Sound(conn')
  <2>1. CASE AppOpen
    BY <2>1, AppOpenSound
  <2>2. CASE AppWrite
    BY <2>2, AppWriteCases
  <2>3. CASE AppRead \/ AppClose \/ AppReset \/ AppDelete
    BY <1>1, <2>3, CallsCases, SameCacheSound, IdleSound DEF Leaves, Drops
  <2>4. CASE SetSizes
    BY <1>1, <2>4, SetSizesCases DEF Sound, Quiet, Ready
  <2>5. CASE Poll
    BY <2>5, PollCases
  <2>6. CASE Handshake \/ PeerSend \/ PeerClose \/ Break
    BY <1>1, <2>6, KernelCases, SameCacheSound DEF Leaves
  <2>7. CASE UNCHANGED vars
    BY <1>1, <2>7 DEF vars
  <2>8. QED
    BY <2>1, <2>2, <2>3, <2>4, <2>5, <2>6, <2>7 DEF Next
<1>3. QED
  BY <1>1, <1>2 DEF SInv

(* SInv holds in every state that the socket can reach.                    *)
THEOREM SendingInvariant == Spec => []SInv
BY InitSInv, NextSInv, PTL DEF Spec

(* A socket in use is FULL exactly when its cache is over the threshold,   *)
(* and the cache can then not grow any more: the state and the buffer never *)
(* disagree, if no buffer is resized by hand and the threshold is roomy.   *)
THEOREM FullTellsTheTruth ==
    ASSUME BufSizes = {}, Roomy
    PROVE  Spec => []FullMeansFull
<1>1. SInv => FullMeansFull
  BY DEF SInv, Sound, Threshold, FullMeansFull
<1>2. QED
  BY <1>1, SendingInvariant, PTL

(* An empty cache never leaves EPOLLOUT watched, which would spin the loop, *)
(* as long as epoll_ctl does not fail: through partial sends, refusals,    *)
(* resets and reconnections.                                               *)
THEOREM NeverSpins ==
    ASSUME FALSE \notin CtlOutcomes
    PROVE  Spec => []NoWritableSpin
<1>1. SInv => NoWritableSpin
  BY DEF SInv, Sound, Quiet, NoWritableSpin
<1>2. QED
  BY <1>1, SendingInvariant, PTL
-----------------------------------------------------------------------------
(* The sending half implements the abstract stream.                         *)

(* A stream split in two at any place is its two parts.                    *)
LEMMA Parts ==
    ASSUME NEW s \in Seq(Nat), NEW t \in Seq(Nat)
    PROVE  /\ s \o t \in Seq(Nat) /\ Len(s) <= Len(s \o t)
           /\ SubSeq(s \o t, 1, Len(s)) = s
           /\ SubSeq(s \o t, Len(s) + 1, Len(s \o t)) = t
<1> DEFINE u == s \o t
           a == SubSeq(u, 1, Len(s))
           b == SubSeq(u, Len(s) + 1, Len(u))
<1>1. /\ Len(s) \in Nat /\ Len(t) \in Nat
      /\ u \in Seq(Nat) /\ Len(u) = Len(s) + Len(t)
      /\ \A i \in 1..Len(u) : u[i] = IF i <= Len(s) THEN s[i] ELSE t[i - Len(s)]
  BY ConcatProperties, LenProperties
<1> HIDE DEF u
<1>2. Len(s) \in 0..Len(u) /\ Len(s) <= Len(u)
  BY <1>1
<1>3. /\ a \in Seq(Nat) /\ b \in Seq(Nat) /\ Len(b) = Len(u) - Len(s)
  BY <1>1, <1>2, Split
<1>4. /\ Len(a) = Len(s) /\ \A i \in 1..Len(a) : a[i] = u[i]
      /\ \A i \in 1..Len(b) : b[i] = u[Len(s) + i]
  <2>1. \A i \in 1..Len(u) : u[i] \in Nat
    BY <1>1, ElementOfSeq
  <2>2. QED
    BY <1>1, <1>2, <2>1, SubSeqProperties
<1> HIDE DEF a, b
<1>5. a = s
  <2>1. \A i \in 1..Len(a) : a[i] = s[i]
    BY <1>1, <1>2, <1>4
  <2>2. QED
    BY <1>3, <1>4, <2>1, SeqEqual
<1>6. b = t
  <2>1. Len(b) = Len(t)
    BY <1>1, <1>3
  <2>2. ASSUME NEW i \in 1..Len(b)
        PROVE  b[i] = t[i]
    <3>1. /\ Len(s) + i \in 1..Len(u) /\ ~(Len(s) + i <= Len(s))
          /\ (Len(s) + i) - Len(s) = i
      BY <1>1, <2>1
    <3>2. b[i] = u[Len(s) + i]
      BY <1>4
    <3>3. u[Len(s) + i] = t[(Len(s) + i) - Len(s)]
      BY <1>1, <3>1
    <3>4. QED
      BY <3>1, <3>2, <3>3
  <2>3. QED
    BY <1>3, <2>1, <2>2, SeqEqual
<1>7. QED
  BY <1>1, <1>2, <1>5, <1>6 DEF a, b, u

LEMMA Within ==
    ASSUME NEW l \in Nat, NEW k \in Nat, NEW n \in Nat, l <= k, k <= n
    PROVE  k \in l..n
OBVIOUS

(* The wire has grown along the stream `all`.                              *)
LEMMA GrowsAlong ==
    ASSUME NEW all, conn'.wire \in Seq(Nat), conn'.tx \in Seq(Nat),
           all = conn'.wire \o conn'.tx, Len(conn'.wire) >= Len(conn.wire),
           Len(conn.wire) \in Nat
    PROVE  Out!Send(all)
<1> DEFINE k == Len(conn'.wire)
           l == Len(conn.wire)
<1>1. /\ k <= Len(all) /\ all \in Seq(Nat)
      /\ conn'.wire = SubSeq(all, 1, k) /\ conn'.tx = SubSeq(all, k + 1, Len(all))
  BY Parts
<1>2. k \in Nat /\ Len(all) \in Nat /\ l \in Nat /\ l <= k
  BY <1>1, LenProperties
<1> HIDE DEF k, l
<1>3. k \in l..Len(all)
  BY <1>1, <1>2, Within
<1>4. QED
  BY <1>1, <1>3 DEF Out!Send, l

LEMMA Wires ==
    ASSUME NEW c, Good(c)
    PROVE  /\ c.wire \in Seq(Nat) /\ c.tx \in Seq(Nat)
           /\ c.wire \o c.tx \in Seq(Nat) /\ Len(c.wire) \in Nat
           /\ ~Connection(c) => c.tx = <<>>
<1>1. c.wire \in Seq(Nat) /\ c.tx \in Seq(Nat)
  BY DEF Good, Sockets
<1>2. ~Connection(c) => c.tx = <<>>
  BY DEF Good, Fresh, Connection, Ready
<1>3. QED
  BY <1>1, <1>2, ConcatProperties, LenProperties

LEMMA StuttersOut ==
    ASSUME conn'.tx = conn.tx, conn'.wire = conn.wire, accepted' = accepted,
           Connection(conn') = Connection(conn)
    PROVE  UNCHANGED Out!vars
BY DEF Out!vars

(* The connection ends, with or without a cache to lose.                   *)
LEMMA DropsOut ==
    ASSUME Good(conn), accepted' = accepted, NEW c, Good(c),
           c.wire \o c.tx = conn.wire \o conn.tx, Len(c.wire) >= Len(conn.wire),
           Connection(conn), Drops(c, conn')
    PROVE  Out!Disconnect
<1> DEFINE all == conn.wire \o conn.tx
           k == Len(c.wire)
           l == Len(conn.wire)
<1>1. /\ c.wire \in Seq(Nat) /\ c.tx \in Seq(Nat) /\ all \in Seq(Nat)
      /\ k \in Nat /\ l \in Nat
  BY Wires
<1>2. k <= Len(all) /\ SubSeq(all, 1, k) = c.wire
  BY <1>1, Parts
<1>3. l <= k /\ Len(all) \in Nat
  BY <1>1, LenProperties
<1> HIDE DEF k, l
<1>4. k \in l..Len(all)
  BY <1>1, <1>2, <1>3, Within
<1>5. conn'.wire = SubSeq(all, 1, k) /\ conn'.tx = <<>> /\ ~Connection(conn')
  BY <1>2 DEF Drops
<1>6. QED
  BY <1>4, <1>5 DEF Out!Disconnect, l

LEMMA OpenOut == SInv /\ SInv' /\ AppOpen => [Out!Next]_(Out!vars)
<1> SUFFICES ASSUME SInv, SInv', AppOpen
             PROVE  [Out!Next]_(Out!vars)
  OBVIOUS
<1>1. PICK how \in {"refused", "unwatched", "started"} : conn' = OpenClient(conn, how)
  BY DEF AppOpen
<1>2. Good(conn) /\ Good(conn')
  BY DEF SInv, IInv
<1>3. CASE conn.state \notin {"CREATED", "FAILED"}
  <2>1. conn' = SetErr(conn, "STATE_ERR")
    BY <1>1, <1>2, <1>3, OpenClientGood
  <2>2. SameCache(conn, conn') /\ conn'.wire = conn.wire
    BY <1>2, <2>1, SetErrSame
  <2>3. accepted' = accepted
    BY <1>3 DEF AppOpen
  <2>4. QED
    BY <2>2, <2>3, StuttersOut DEF SameCache, Connection
<1>4. CASE conn.state \in {"CREATED", "FAILED"} /\ conn'.state \in {"CREATED", "FAILED"}
  <2>1. accepted' = accepted
    BY <1>4 DEF AppOpen
  <2>2. ~Connection(conn) /\ ~Connection(conn')
    BY <1>4 DEF Connection
  <2>3. conn'.wire = conn.wire
    <3>1. conn \in Sockets
      BY <1>2 DEF Good
    <3>2. CASE conn.fd /\ Asserts
      BY <1>1, <1>4, <3>1, <3>2 DEF OpenClient, Abort, Sockets
    <3>3. CASE ~(conn.fd /\ Asserts) /\ how = "refused"
      BY <1>1, <1>4, <3>1, <3>3 DEF OpenClient, Sockets
    <3>4. CASE ~(conn.fd /\ Asserts) /\ how = "unwatched"
      <4> DEFINE c == [conn EXCEPT !.err = "SYS_ERR", !.fd = TRUE]
                 d == [c EXCEPT !.fd = FALSE, !.armed = {}, !.link = "none", !.inbox = <<>>]
      <4>1. conn' = [d EXCEPT !.state = "CREATED", !.tx = <<>>, !.rx = <<>>]
        BY <1>1, <1>4, <3>1, <3>4 DEF OpenClient, Reset, Close, Sockets
      <4>2. QED
        BY <3>1, <4>1 DEF Sockets
    <3>5. CASE ~(conn.fd /\ Asserts) /\ how = "started"
      <4>1. conn'.state = "CONNECTING"
        BY <1>1, <1>4, <3>1, <3>5 DEF OpenClient, Sockets
      <4>2. QED
        BY <1>4, <4>1
    <3>6. QED
      BY <3>2, <3>3, <3>4, <3>5
  <2>4. QED
    <3>1. conn'.tx = conn.tx
      BY <1>2, <2>2, Wires
    <3>2. QED
      BY <2>1, <2>2, <2>3, <3>1, StuttersOut DEF Connection
<1>5. CASE conn.state \in {"CREATED", "FAILED"} /\ conn'.state \notin {"CREATED", "FAILED"}
  <2>1. conn'.state = "CONNECTING" /\ conn'.wire = <<>> /\ conn'.tx = <<>>
    BY <1>1, <1>2, <1>5, OpenClientGood
  <2>2. accepted' = <<>>
    BY <1>5, <2>1 DEF AppOpen
  <2>3. ~Connection(conn) /\ Connection(conn')
    BY <1>5, <2>1 DEF Connection
  <2>4. QED
    BY <2>1, <2>2, <2>3 DEF Out!Connect, Out!Next
<1>6. QED
  BY <1>3, <1>4, <1>5

LEMMA WriteOut ==
    ASSUME Modest
    PROVE  SInv /\ SInv' /\ AppWrite => [Out!Next]_(Out!vars)
<1> SUFFICES ASSUME SInv, SInv', AppWrite
             PROVE  [Out!Next]_(Out!vars)
  OBVIOUS
<1>1. /\ Good(conn) /\ Good(conn') /\ accepted \in Seq(Nat)
      /\ Connection(conn) => conn.wire \o conn.tx = accepted
      /\ Connection(conn') => conn'.wire \o conn'.tx = accepted'
  BY DEF SInv, IInv, SentInOrder
<1>2. CASE /\ conn'.tx = conn.tx /\ conn'.wire = conn.wire /\ accepted' = accepted
           /\ Connection(conn') = Connection(conn)
  BY <1>2, StuttersOut
<1>3. CASE /\ Connection(conn) /\ Connection(conn')
           /\ Len(conn'.wire) >= Len(conn.wire)
           /\ \/ accepted' = accepted
              \/ \E n \in MsgLens \ {0} : accepted' = accepted \o NextBytes(Len(accepted), n)
  <2>1. /\ conn'.wire \in Seq(Nat) /\ conn'.tx \in Seq(Nat) /\ Len(conn.wire) \in Nat
    BY <1>1, Wires
  <2>2. accepted' = conn'.wire \o conn'.tx
    BY <1>1, <1>3
  <2>3. Out!Send(accepted')
    BY <1>3, <2>1, <2>2, GrowsAlong
  <2>4. CASE accepted' = accepted
    <3>1. accepted' = conn.wire \o conn.tx
      BY <1>1, <1>3, <2>4
    <3>2. Out!Send(conn.wire \o conn.tx)
      BY <1>3, <2>1, <2>2, <3>1, GrowsAlong
    <3>3. QED
      BY <1>3, <2>4, <3>2 DEF Out!Transmit, Out!Next
  <2>5. CASE \E n \in MsgLens \ {0} : accepted' = accepted \o NextBytes(Len(accepted), n)
    BY <1>3, <2>3, <2>5 DEF Out!Submit, Out!Next, NextBytes
  <2>6. QED
    BY <1>3, <2>4, <2>5
<1>4. QED
  BY <1>2, <1>3, AppWriteCases

(* A step that leaves the stream, or ends it.                              *)
LEMMA LeavesOut ==
    ASSUME SInv, accepted' = accepted, Leaves(conn, conn') \/ Drops(conn, conn'),
           Good(conn')
    PROVE  [Out!Next]_(Out!vars)
<1>1. Good(conn)
  BY DEF SInv, IInv
<1>2. CASE Leaves(conn, conn')
  BY <1>2, StuttersOut DEF Leaves, SameCache, Connection
<1>3. CASE Drops(conn, conn') /\ ~Connection(conn)
  <2>1. /\ conn'.tx = conn.tx /\ conn'.wire = conn.wire
        /\ ~Connection(conn) /\ ~Connection(conn')
    BY <1>1, <1>3, Wires DEF Drops
  <2>2. QED
    BY <2>1, StuttersOut DEF Connection
<1>4. CASE Drops(conn, conn') /\ Connection(conn)
  <2>1. Len(conn.wire) >= Len(conn.wire)
    BY <1>1, Wires
  <2>2. Out!Disconnect
    BY <1>1, <1>4, <2>1, DropsOut
  <2>3. QED
    BY <2>2 DEF Out!Next
<1>5. QED
  BY <1>2, <1>3, <1>4

LEMMA EventOut == SInv /\ SInv' /\ Poll => [Out!Next]_(Out!vars)
<1> SUFFICES ASSUME SInv, SInv', Poll
             PROVE  [Out!Next]_(Out!vars)
  OBVIOUS
<1>1. Good(conn) /\ Good(conn')
  BY DEF SInv, IInv
<1>2. Connection(conn) /\ Advances(conn, conn') /\ accepted' = accepted
  BY PollCases
<1>3. PICK e : /\ Good(e) /\ Connection(e)
               /\ e.wire \o e.tx = conn.wire \o conn.tx /\ Len(e.wire) >= Len(conn.wire)
               /\ Leaves(e, conn') \/ Drops(e, conn')
  BY <1>2 DEF Advances
<1>4. CASE Leaves(e, conn')
  <2>1. conn'.wire = e.wire /\ conn'.tx = e.tx /\ Connection(conn')
    BY <1>3, <1>4 DEF Leaves, SameCache, Connection
  <2>2. conn'.wire \in Seq(Nat) /\ conn'.tx \in Seq(Nat) /\ Len(conn.wire) \in Nat
    BY <1>1, Wires
  <2>3. Out!Send(conn.wire \o conn.tx)
    BY <1>3, <2>1, <2>2, GrowsAlong
  <2>4. QED
    BY <1>2, <2>1, <2>3 DEF Out!Transmit, Out!Next
<1>5. CASE Drops(e, conn')
  BY <1>1, <1>2, <1>3, <1>5, DropsOut DEF Out!Next
<1>6. QED
  BY <1>3, <1>4, <1>5

LEMMA NextOut ==
    ASSUME Modest
    PROVE  SInv /\ SInv' /\ [Next]_vars => [Out!Next]_(Out!vars)
<1> SUFFICES ASSUME SInv, SInv', [Next]_vars
             PROVE  [Out!Next]_(Out!vars)
  OBVIOUS
<1>1. Good(conn')
  BY DEF SInv, IInv
<1>2. CASE AppOpen
  BY <1>2, OpenOut
<1>3. CASE AppWrite
  BY <1>3, WriteOut
<1>4. CASE AppRead \/ AppClose \/ AppReset \/ AppDelete
  <2>1. accepted' = accepted
    BY <1>4 DEF AppRead, AppClose, AppReset, AppDelete
  <2>2. QED
    BY <1>1, <1>4, <2>1, CallsCases, LeavesOut
<1>5. CASE SetSizes
  BY <1>5, SetSizesCases DEF Modest
<1>6. CASE Poll
  BY <1>6, EventOut
<1>7. CASE Handshake \/ PeerSend \/ PeerClose \/ Break
  BY <1>1, <1>7, KernelCases, LeavesOut
<1>8. CASE UNCHANGED vars
  BY <1>8, StuttersOut DEF vars
<1>9. QED
  BY <1>2, <1>3, <1>4, <1>5, <1>6, <1>7, <1>8 DEF Next

(* The sending half implements the abstract stream: whatever the kernel    *)
(* takes, whatever fails, and however the connection ends, the peer gets a *)
(* beginning of the accepted messages and the rest is pending or lost with *)
(* the connection.                                                         *)
THEOREM ImplementsStream ==
    ASSUME Modest
    PROVE  Spec => SendsAsStream
<1>1. Init => Out!Init
  BY DEF Init, Out!Init, NewSocket, Connection
<1>2. SInv /\ SInv' /\ [Next]_vars => [Out!Next]_(Out!vars)
  BY NextOut
<1>3. QED
  BY <1>1, <1>2, SendingInvariant, PTL DEF Spec, SendsAsStream, Out!Spec
-----------------------------------------------------------------------------
(***************************************************************************)
(* What the methods leave alone, for modules that compose sockets.         *)
(***************************************************************************)

(* d is c with nothing received, nothing closed and no error forgotten;    *)
(* epoll watches it as before, or for all but EPOLLOUT.                    *)
OnlySends(c, d) ==
    /\ d.life = c.life /\ d.link = c.link /\ d.fd = c.fd
    /\ d.rx = c.rx /\ d.rxLen = c.rxLen /\ d.inbox = c.inbox
    /\ d.armed \in {c.armed, Idle}
    /\ c.err # "NO_ERR" => d.err # "NO_ERR"

LEMMA OnlySendsAgain ==
    ASSUME NEW c, NEW d, NEW e, OnlySends(c, d), OnlySends(d, e)
    PROVE  OnlySends(c, e)
BY DEF OnlySends

LEMMA DoWriteOnlySends ==
    ASSUME NEW c \in Sockets, ~Asserts, NEW k \in Int, NEW ok
    PROVE  LET w == DoWrite(c, k, ok)
           IN  /\ OnlySends(c, w.c)
               /\ k >= 0 /\ w.ret < 0 => w.c.err # "NO_ERR"
               /\ ~(w.ret < 0) => w.c.err = c.err
               /\ k < 0 => w.c = c /\ (c.tx # <<>> => w.ret < 0)
BY DEF DoWrite, OnlySends, AssertFails, Result, NoLongerFull, Flushed, SetErr, SetEvents, Idle,
       HardErr, Sockets

LEMMA CacheMsgOnlySends ==
    ASSUME NEW c \in Sockets, NEW m, NEW n \in Nat
    PROVE  LET w == CacheMsg(c, m, n)
           IN  /\ OnlySends(c, w.c)
               /\ w.ret < 0 => w.c.err # "NO_ERR"
               /\ ~(w.ret < 0) => w.c.err = c.err
BY DEF CacheMsg, OnlySends, Result, HardErr, Sockets

(* A WriteMsg that fails though the kernel did not leaves an error, one    *)
(* that succeeds leaves none, and the kernel takes nothing when it fails.  *)
LEMMA WriteMsgOnlySends ==
    ASSUME NEW c, Good(c), ~Asserts, NEW m \in Seq(Nat), NEW k \in Int, k <= Len(c.tx),
           NEW ok \in BOOLEAN, NEW j \in Int
    PROVE  LET w == WriteMsg(c, m, k, ok, j)
           IN  /\ OnlySends(c, w.c)
               /\ k >= 0 /\ j >= 0 /\ w.ret < 0 => w.c.err # "NO_ERR"
               /\ ~(w.ret < 0) => w.c.err = c.err
               /\ k < 0 /\ j < 0 => w.c.wire = c.wire
<1> DEFINE flush == IF c.tx = <<>> THEN Result(c, 0) ELSE DoWrite(c, k, ok)
           d == flush.c
           sent == [d EXCEPT !.wire = @ \o SubSeq(m, 1, j)]
           w == WriteMsg(c, m, k, ok, j)
<1>0. c \in Sockets /\ Len(m) \in Nat
  BY DEF Good
<1>1. CASE m = <<>> \/ c.state # "CONNECTED"
  BY <1>0, <1>1 DEF WriteMsg, Result, SetErr, HardErr, OnlySends, Sockets
<1>2. CASE m # <<>> /\ c.state = "CONNECTED"
  <2>1. /\ OnlySends(c, d) /\ d \in Sockets
        /\ k >= 0 /\ flush.ret < 0 => d.err # "NO_ERR"
        /\ ~(flush.ret < 0) => d.err = c.err
        /\ k < 0 => d = c /\ (c.tx # <<>> => flush.ret < 0)
    <3>1. CASE c.tx = <<>>
      BY <1>0, <3>1 DEF Result, OnlySends
    <3>2. CASE c.tx # <<>>
      <4>1. Good(DoWrite(c, k, ok).c)
        BY <1>2, DoWriteSends DEF Sends, Ready
      <4>2. QED
        BY <1>0, <3>2, <4>1, DoWriteOnlySends DEF Good
    <3>3. QED
      BY <3>1, <3>2
  <2>2. \/ w = Result(d, HardErr) /\ flush.ret < 0
        \/ w = CacheMsg(d, m, Len(m)) /\ ~(flush.ret < 0) /\ d.tx # <<>>
        \/ w = Result(SetErr(d, "SYS_ERR"), HardErr)
        \/ w = CacheMsg(sent, SubSeq(m, j + 1, Len(m)), Len(m)) /\ ~(flush.ret < 0) /\ ~(j < 0)
        \/ w = Result([d EXCEPT !.wire = @ \o m], Len(m)) /\ ~(flush.ret < 0) /\ ~(j < 0)
    BY <1>2 DEF WriteMsg
  <2> HIDE DEF flush, w
  <2>3. CASE w = Result(d, HardErr) /\ flush.ret < 0
    BY <2>1, <2>3 DEF Result, HardErr, w
  <2>4. CASE w = CacheMsg(d, m, Len(m)) /\ ~(flush.ret < 0) /\ d.tx # <<>>
    BY <1>0, <2>1, <2>4, CacheMsgOnlySends, OnlySendsAgain DEF w
  <2>5. CASE w = Result(SetErr(d, "SYS_ERR"), HardErr)
    <3>1. /\ OnlySends(d, SetErr(d, "SYS_ERR")) /\ SetErr(d, "SYS_ERR").err # "NO_ERR"
          /\ SetErr(d, "SYS_ERR").wire = d.wire
      BY <2>1 DEF SetErr, OnlySends, Sockets
    <3>2. QED
      BY <2>1, <2>5, <3>1, OnlySendsAgain DEF Result, HardErr, w
  <2>6. CASE /\ w = CacheMsg(sent, SubSeq(m, j + 1, Len(m)), Len(m))
             /\ ~(flush.ret < 0) /\ ~(j < 0)
    <3>1. OnlySends(d, sent) /\ sent.err = d.err
      BY <2>1 DEF OnlySends, Sockets
    <3>2. /\ OnlySends(sent, w.c)
          /\ w.ret < 0 => w.c.err # "NO_ERR"
          /\ ~(w.ret < 0) => w.c.err = sent.err
      BY <1>0, <2>6 DEF CacheMsg, OnlySends, Result, HardErr, SetErr
    <3>3. QED
      BY <2>1, <2>6, <3>1, <3>2, OnlySendsAgain DEF w
  <2>7. CASE w = Result([d EXCEPT !.wire = @ \o m], Len(m)) /\ ~(flush.ret < 0) /\ ~(j < 0)
    <3> DEFINE done == [d EXCEPT !.wire = @ \o m]
    <3>1. OnlySends(d, done) /\ done.err = d.err
      BY <2>1 DEF OnlySends, Sockets
    <3>2. w.c = done /\ w.ret = Len(m) /\ ~(Len(m) < 0)
      BY <1>0, <2>7 DEF Result
    <3> HIDE DEF done
    <3>3. OnlySends(c, w.c) /\ w.c.err = c.err /\ ~(w.ret < 0)
      BY <2>1, <2>7, <3>1, <3>2, OnlySendsAgain
    <3>4. QED
      BY <1>0, <2>7, <3>3 DEF w
  <2>8. QED
    BY <2>2, <2>3, <2>4, <2>5, <2>6, <2>7
<1>3. QED
  BY <1>1, <1>2

(* ReadMsg answers a whole message or none, and closes nothing.            *)
OnlyReads(c, d) ==
    /\ d.life = c.life /\ d.link = c.link /\ d.fd = c.fd /\ d.armed = c.armed
    /\ d.state = c.state /\ d.tx = c.tx /\ d.txLen = c.txLen /\ d.wire = c.wire
    /\ c.err # "NO_ERR" => d.err # "NO_ERR"

LEMMA DoReadOnlyReads ==
    ASSUME NEW c \in Sockets, ~Asserts, NEW r, NEW fake
    PROVE  LET read == DoRead(c, r, fake)
           IN  OnlyReads(c, read.c) /\ (~(read.ret < 0) => read.c.err = c.err)
BY DEF DoRead, OnlyReads, AssertFails, Result, SetErr, HardErr, Sockets

LEMMA ReadMsgOnlyReads ==
    ASSUME NEW c, Good(c), ~Asserts, NEW n \in Nat,
           NEW r \in RecvOutcomes(c, FreeLen(c.rxLen, Len(c.rx)))
    PROVE  LET read == ReadMsg(c, n, r)
           IN  /\ OnlyReads(c, read.c)
               /\ IF read.ret > 0 THEN read.ret = n /\ Len(read.msg) = n /\ read.c.err = c.err
                  ELSE read.msg = <<>>
<1> DEFINE room == FreeLen(c.rxLen, Len(c.rx))
           in == IF room > 0 THEN DoRead(c, r, FALSE) ELSE Result(c, 0)
           d == in.c
           read == ReadMsg(c, n, r)
<1>0. c \in Sockets /\ room \in Nat
  BY LenProperties DEF FreeLen, Good, Sockets
<1>1. CASE n = 0 \/ n > MaxStreamRead \/ ~Ready(c)
  <2>1. \E e \in {"PARAM_ERR", "NOT_READY"} : read = Result(SetErr(c, e), 0)
    BY <1>1 DEF ReadMsg
  <2> HIDE DEF read
  <2>2. QED
    BY <1>0, <2>1 DEF read, Result, SetErr, OnlyReads, Sockets
<1>2. CASE ~(n = 0 \/ n > MaxStreamRead) /\ Ready(c)
  <2>1. OnlyReads(c, d) /\ d \in Sockets /\ (~(in.ret < 0) => d.err = c.err)
    <3>1. CASE room > 0
      <4>1. Handles(c, DoRead(c, r, FALSE).c, <<>>)
        BY <1>0, <1>2, DoReadHandles, Zenon
      <4>2. QED
        BY <1>0, <3>1, <4>1, DoReadOnlyReads DEF Handles, Good, Sockets
    <3>2. CASE ~(room > 0)
      <4>1. d = c
        BY <3>2 DEF Result
      <4> HIDE DEF in
      <4>2. QED
        BY <1>0, <4>1 DEF OnlyReads, Sockets
    <3>3. QED
      BY <3>1, <3>2
  <2>2. \/ read = Result(d, HardErr)
        \/ /\ HasMsg(d, n) /\ ~(in.ret < 0)
           /\ read = [c |-> Taken(d, n), ret |-> n, msg |-> SubSeq(d.rx, 1, n)]
        \/ read = Result(d, 0)
    BY <1>2 DEF ReadMsg
  <2> HIDE DEF in, read
  <2>3. CASE read \in {Result(d, HardErr), Result(d, 0)}
    BY <2>1, <2>3 DEF Result, HardErr, read
  <2>4. CASE /\ HasMsg(d, n) /\ ~(in.ret < 0)
             /\ read = [c |-> Taken(d, n), ret |-> n, msg |-> SubSeq(d.rx, 1, n)]
    <3>1. OnlyReads(c, Taken(d, n)) /\ Taken(d, n).err = c.err
      <4>1. d \in Sockets
        BY <2>1
      <4>2. QED
        BY <2>1, <2>4, <4>1 DEF OnlyReads, Taken, Sockets
    <3>2. Len(SubSeq(d.rx, 1, n)) = n /\ n > 0
      <4>1. d.rx \in Seq(Nat)
        BY <2>1 DEF Sockets
      <4>2. QED
        BY <1>2, <2>4, <4>1, SubSeqProperties DEF HasMsg
    <3>3. QED
      BY <2>4, <3>1, <3>2 DEF read
  <2>5. QED
    BY <2>2, <2>3, <2>4
<1>3. QED
  BY <1>1, <1>2

(* The receiver closes the socket when its read fails.                     *)
LEMMA ReceiverOnlyReads ==
    ASSUME NEW c, Good(c), ~Asserts, Alive(c), NEW r \in RecvOutcomes(c, FreeLen(c.rxLen, Len(c.rx)))
    PROVE  LET read == Receiver(c, r)
           IN  /\ read.c.life = c.life
               /\ IF read.ret < 0 THEN read.c.link = "none" /\ read.c.wire = c.wire
                  ELSE OnlyReads(c, read.c)
               /\ IF read.ret > 0
                  THEN read.ret = ReadLen /\ Len(read.msg) = ReadLen /\ read.c.err = c.err
                  ELSE read.msg = <<>>
<1> DEFINE read == ReadMsg(c, ReadLen, r)
<1>1. /\ OnlyReads(c, read.c) /\ Good(read.c) /\ read.ret \in Int
      /\ IF read.ret > 0
         THEN read.ret = ReadLen /\ Len(read.msg) = ReadLen /\ read.c.err = c.err
         ELSE read.msg = <<>>
  BY ReadMsgOnlyReads, ReadMsgHandles, SocketAssumption DEF Handles
<1>2. read = [c |-> read.c, ret |-> read.ret, msg |-> read.msg]
  BY DEF ReadMsg, DoRead, Result
<1>3. Receiver(c, r) = IF read.ret < 0 /\ Alive(read.c) THEN [read EXCEPT !.c = Close(read.c)] ELSE read
  BY DEF Receiver
<1> HIDE DEF read
<1>4. Alive(read.c) /\ read.c.life = c.life
  BY <1>1 DEF Alive, OnlyReads
<1>5. CASE read.ret < 0
  <2>1. Receiver(c, r).c = Close(read.c) /\ Receiver(c, r).ret = read.ret /\ Receiver(c, r).msg = read.msg
    BY <1>2, <1>3, <1>4, <1>5
  <2>2. /\ Close(read.c).link = "none" /\ Close(read.c).life = read.c.life
        /\ Close(read.c).wire = c.wire
    BY <1>1 DEF Close, Good, FdMatches, Sockets, OnlyReads
  <2>3. QED
    BY <1>1, <1>4, <1>5, <2>1, <2>2
<1>6. CASE ~(read.ret < 0)
  BY <1>1, <1>3, <1>4, <1>6
<1>7. QED
  BY <1>5, <1>6

(* OnSocketErr of the services deletes the socket, which closes it.        *)
LEMMA OnSocketErrCloses ==
    ASSUME NEW c, Good(c), Alive(c), DeletesOnErr, NEW e
    PROVE  /\ OnSocketErr(c, e).link = "none" /\ ~OnSocketErr(c, e).fd
           /\ OnSocketErr(c, e).rx = <<>> /\ OnSocketErr(c, e).rxLen = c.rxLen
           /\ OnSocketErr(c, e).wire = c.wire /\ OnSocketErr(c, e).tx = <<>>
           /\ OnSocketErr(c, e).life = "deleted"
BY DEF OnSocketErr, Reset, Close, Good, FdMatches, Sockets

(* An event of a connection without EPOLLOUT is a read, and its end.        *)
OnlyIn(c, ev, r) == IF "IN" \in ev THEN Read(c, r) ELSE Result(c, 0)

Ended(c, d) == \E e \in Errors : d = OnSocketErr(c, e)

LEMMA EventWithoutOut ==
    ASSUME NEW c, Good(c), Ready(c), NEW ev \in SUBSET Events, "OUT" \notin ev,
           NEW r \in RecvOutcomes(c, ReadRoom(c)), NEW k, NEW ok
    PROVE  \/ /\ DoHandle(c, ev, r, k, ok).c = OnlyIn(c, ev, r).c
              /\ OnlyIn(c, ev, r).ret >= 0
           \/ Ended(OnlyIn(c, ev, r).c, DoHandle(c, ev, r, k, ok).c)
<1> DEFINE read == IF "IN" \in ev THEN Read(c, r) ELSE Result(c, 0)
           write == Result(read.c, 0)
<1>0. read.ret \in Int /\ read = [c |-> read.c, ret |-> read.ret, msg |-> read.msg]
  <2>1. CASE "IN" \in ev
    <3>1. read = Read(c, r) /\ read.ret \in Int
      BY <2>1, ReadHandles
    <3>2. QED
      BY <3>1 DEF Read, Receiver, ReadMsg, DoRead, Result
  <2>2. CASE "IN" \notin ev
    BY <2>2 DEF Result
  <2>3. QED
    BY <2>1, <2>2
<1>1. DoHandle(c, ev, r, k, ok) = DoReadWrite(c, ev, r, k, ok)
  BY DEF DoHandle, Ready
<1>2. DoReadWrite(c, ev, r, k, ok) =
        IF read.ret < 0 THEN Result(OnSocketErr(read.c, "READ_FAIL"), HardErr)
        ELSE [read EXCEPT !.c =
                IF write.ret < 0 THEN OnSocketErr(write.c, "WRITE_FAIL")
                ELSE IF "ERR" \in ev THEN OnSocketErr(write.c, "UNKNOWN_EVENT")
                ELSE write.c]
  BY DEF DoReadWrite
<1>3. write.ret = 0 /\ write.c = read.c
  BY DEF Result
<1> HIDE DEF read, write
<1>4. QED
  BY <1>0, <1>1, <1>2, <1>3 DEF OnlyIn, Ended, Result, Errors, read

(* Without a receiver, OnRead moves the index of a buffer it does not fill; *)
(* but in small enough steps, for a buffer that can still grow.            *)
Inside(c) == c.rxLen >= MaxLen \/ Len(c.rx) + FakeLen <= c.rxLen

CopiedInside(c, d) == d.rxLen # c.rxLen => Len(d.rx) <= c.rxLen

LEMMA AddLenInside ==
    ASSUME NEW len \in Nat \ {0}, NEW idx \in Nat,
           len >= MaxLen \/ idx <= len
    PROVE  /\ AddLen(len, idx) \in Nat /\ AddLen(len, idx) >= len
           /\ AddLen(len, idx) >= MaxLen \/ idx + ConnLen <= AddLen(len, idx)
           /\ AddLen(len, idx) # len => idx <= len
<1>1. /\ Expand(len, ConnLen) \in Nat /\ Expand(len, ConnLen) >= len
      /\ Expand(len, ConnLen) = len \/ Expand(len, ConnLen) <= MaxLen
      /\ Expand(len, ConnLen) >= len + ConnLen \/ Expand(len, ConnLen) >= MaxLen
  BY ExpandBound, BuffAssumption
<1> DEFINE new == Expand(len, ConnLen)
<1>2. AddLen(len, idx) = IF FreeLen(len, idx) < ConnLen THEN new ELSE len
  BY DEF AddLen
<1>3. FreeLen(len, idx) = IF idx < len THEN len - idx ELSE 0
  BY DEF FreeLen
<1>4. new \in Nat /\ ConnLen \in Nat \ {0} /\ MaxLen \in Int
  BY <1>1, BuffAssumption
<1> HIDE DEF new
<1>5. CASE FreeLen(len, idx) < ConnLen
  BY <1>1, <1>2, <1>4, <1>5 DEF new
<1>6. CASE ~(FreeLen(len, idx) < ConnLen)
  BY <1>2, <1>3, <1>4, <1>6
<1>7. QED
  BY <1>5, <1>6

LEMMA DoReadInside ==
    ASSUME NEW c, Good(c), Inside(c), FakeLen <= ConnLen, ~Asserts,
           NEW r \in RecvOutcomes(c, FakeLen)
    PROVE  /\ Inside(DoRead(c, r, TRUE).c) /\ CopiedInside(c, DoRead(c, r, TRUE).c)
           /\ DoRead(c, r, TRUE).c.rxLen >= c.rxLen
<1> DEFINE bytes == [i \in 1..r |-> Garbage]
           idx == Len(c.rx) + r
           d == DoRead(c, r, TRUE).c
<1>0. /\ c.rx \in Seq(Nat) /\ Len(c.rx) \in Nat /\ c.rxLen \in Nat \ {0} /\ c \in Sockets
      /\ FakeLen \in Nat /\ ConnLen \in Nat \ {0} /\ MaxLen \in Int
  BY SocketAssumption, BuffAssumption DEF Good, Sockets
<1>1. CASE r \in {0, HardErr, Eof}
  <2>1. d.rx = c.rx /\ d.rxLen = c.rxLen
    BY <1>0, <1>1 DEF DoRead, AssertFails, Result, SetErr, Sockets, HardErr, Eof
  <2> HIDE DEF d
  <2>2. Inside(d) /\ CopiedInside(c, d) /\ d.rxLen >= c.rxLen
    BY <1>0, <2>1 DEF Inside, CopiedInside
  <2>3. QED
    BY <2>2 DEF d
<1>2. CASE r \notin {0, HardErr, Eof}
  <2>1. r \in 1..FakeLen
    BY <1>0, <1>2, RecvBound
  <2>2. bytes \in Seq(Nat) /\ Len(bytes) = r
    BY <2>1 DEF Garbage
  <2>3. d.rx = c.rx \o bytes /\ d.rxLen = AddLen(c.rxLen, idx)
    BY <1>0, <1>2 DEF DoRead, AssertFails, Result, Sockets
  <2> HIDE DEF d, bytes
  <2>4. Len(d.rx) = idx /\ idx \in Nat /\ idx <= Len(c.rx) + FakeLen
    <3>1. c.rx \in Seq(Nat) /\ bytes \in Seq(Nat)
      BY <1>0, <2>2
    <3>2. Len(c.rx \o bytes) = Len(c.rx) + Len(bytes)
      BY <3>1, ConcatProperties
    <3>3. QED
      BY <1>0, <2>1, <2>2, <2>3, <3>2
  <2> HIDE DEF idx
  <2>5. c.rxLen >= MaxLen \/ idx <= c.rxLen
    BY <1>0, <2>4 DEF Inside
  <2>6. /\ d.rxLen \in Nat /\ d.rxLen >= c.rxLen
        /\ d.rxLen >= MaxLen \/ idx + ConnLen <= d.rxLen
        /\ d.rxLen # c.rxLen => idx <= c.rxLen
    BY <1>0, <2>3, <2>4, <2>5, AddLenInside
  <2>7. Inside(d) /\ CopiedInside(c, d)
    BY <1>0, <2>4, <2>6 DEF Inside, CopiedInside
  <2>8. QED
    BY <2>6, <2>7 DEF d
<1>3. QED
  BY <1>1, <1>2

(* WriteMsg as a whole: what it answers, w, and what is left of c.         *)
WritesWhole(c, w, m) ==
    /\ Good(w.c) /\ w.c.txLen >= InitLen /\ OnlySends(c, w.c)
    /\ Ready(c) => Ready(w.c)
    /\ w.ret \in Int /\ Len(w.c.wire) >= Len(c.wire)
    /\ w.ret >= 0 => w.c.err = c.err
    /\ IF c.link \in {"up", "eof"} THEN w.ret < 0 => w.c.err # "NO_ERR"
       ELSE w.c.wire = c.wire
    /\ Len(m) <= Cap =>
         w.c.wire \o w.c.tx = (c.wire \o c.tx) \o (IF w.ret >= 0 THEN m ELSE <<>>)

LEMMA WriteMsgWhole ==
    ASSUME NEW c, Good(c), c.txLen >= InitLen, ~Asserts, NEW m \in Seq(Nat),
           NEW k \in SendOutcomes(c, Len(c.tx)), NEW ok \in BOOLEAN,
           NEW j \in SendOutcomes(c, Len(m))
    PROVE  WritesWhole(c, WriteMsg(c, m, k, ok, j), m)
<1> DEFINE w == WriteMsg(c, m, k, ok, j)
<1>0. /\ c \in Sockets /\ Len(m) \in Nat /\ Len(c.tx) \in Nat /\ Len(c.wire) \in Nat
      /\ c.wire \o c.tx \in Seq(Nat) /\ c.txLen \in Nat /\ InitLen \in Nat
  BY LenProperties, ConcatProperties, BuffAssumption DEF Good, Sockets
<1>1. /\ k \in Int /\ k <= Len(c.tx) /\ j \in Int
      /\ IF c.link \in {"up", "eof"} THEN k >= 0 /\ j >= 0 ELSE k < 0 /\ j < 0
  <2>1. k \in Int /\ k <= Len(c.tx) /\ j \in Int
    BY <1>0, SendBound
  <2>2. IF c.link \in {"up", "eof"} THEN k \in 0..Len(c.tx) /\ j \in 0..Len(m)
        ELSE k = -1 /\ j = -1
    BY DEF SendOutcomes, HardErr
  <2>3. QED
    BY <1>0, <2>1, <2>2
<1>2. /\ OnlySends(c, w.c) /\ (~(w.ret < 0) => w.c.err = c.err)
      /\ IF c.link \in {"up", "eof"} THEN w.ret < 0 => w.c.err # "NO_ERR"
         ELSE w.c.wire = c.wire
  BY <1>1, WriteMsgOnlySends
<1>3. CASE m = <<>> \/ c.state # "CONNECTED"
  <2>1. PICK e \in Errors : w = Result(SetErr(c, e), HardErr)
    BY <1>3 DEF WriteMsg, Errors
  <2>2. w.c = SetErr(c, e) /\ w.ret = -1
    BY <2>1 DEF Result, HardErr
  <2> HIDE DEF w
  <2>3. /\ Good(w.c) /\ w.c.txLen = c.txLen /\ w.c.wire = c.wire /\ w.c.tx = c.tx
        /\ w.c.state = c.state
    BY <1>0, <2>2, SetErrGood DEF SetErr, Sockets
  <2>4. (c.wire \o c.tx) \o <<>> = c.wire \o c.tx
    BY <1>0, ConcatEmptySeq
  <2>5. QED
    BY <1>0, <1>2, <2>2, <2>3, <2>4 DEF WritesWhole, Ready, w
<1>4. CASE m # <<>> /\ c.state = "CONNECTED"
  <2>1. Writes(c, w, m)
    BY <1>4, WriteMsgSends
  <2>2. PICK b \in Seq(Nat) :
          /\ Sends(c, w.c, b)
          /\ w.ret >= 0 => b = m
          /\ w.ret < 0 /\ c.txLen >= InitLen /\ Len(m) <= Cap => b = <<>>
    BY <2>1 DEF Writes
  <2>3. w.ret \in Int
    BY <2>1 DEF Writes
  <2> HIDE DEF w
  <2>4. Good(w.c) /\ Ready(w.c) /\ Len(w.c.wire) >= Len(c.wire) /\ w.c.txLen >= c.txLen
        /\ w.c.wire \o w.c.tx = (c.wire \o c.tx) \o b /\ w.c.txLen \in Nat
    BY <2>2 DEF Sends, Good, Sockets
  <2>5. Len(m) <= Cap => b = (IF w.ret >= 0 THEN m ELSE <<>>)
    BY <2>2, <2>3
  <2>6. w.c.txLen >= InitLen
    BY <1>0, <2>4
  <2>7. ~(w.ret < 0) <=> w.ret >= 0
    BY <2>3
  <2>8. WritesWhole(c, w, m)
    BY <1>2, <2>3, <2>4, <2>5, <2>6, <2>7, Zenon DEF WritesWhole
  <2>9. QED
    BY <2>8 DEF w
<1>5. QED
  BY <1>3, <1>4

(* A read of the receiver as a whole.                                      *)
ReadsWhole(c, read) ==
    /\ Good(read.c) /\ Alive(read.c) /\ read.ret \in Int
    /\ IF read.ret < 0 THEN read.c.link = "none" /\ read.c.wire = c.wire
       ELSE /\ OnlyReads(c, read.c) /\ Ready(read.c) /\ read.msg \in Seq(Nat)
            /\ read.msg \o (read.c.rx \o read.c.inbox) = c.rx \o c.inbox
    /\ IF read.ret > 0
       THEN read.ret = ReadLen /\ Len(read.msg) = ReadLen /\ read.c.err = c.err
       ELSE read.msg = <<>>

LEMMA ReadWhole ==
    ASSUME NEW c, Good(c), Ready(c), Alive(c), c.fd, ~Asserts, HasReceiver,
           NEW r \in RecvOutcomes(c, ReadRoom(c))
    PROVE  ReadsWhole(c, Read(c, r))
<1> DEFINE read == Read(c, r)
<1>1. /\ Handles(c, read.c, read.msg) /\ read.ret \in Int
      /\ r \in RecvOutcomes(c, FreeLen(c.rxLen, Len(c.rx))) /\ read = Receiver(c, r)
  BY ReadHandles DEF Read, ReadRoom
<1>2. /\ read.c.life = c.life
      /\ IF read.ret < 0 THEN read.c.link = "none" /\ read.c.wire = c.wire
         ELSE OnlyReads(c, read.c)
      /\ IF read.ret > 0
         THEN read.ret = ReadLen /\ Len(read.msg) = ReadLen /\ read.c.err = c.err
         ELSE read.msg = <<>>
  BY <1>1, ReceiverOnlyReads
<1> HIDE DEF read
<1>3. Good(read.c) /\ Alive(read.c) /\ read.msg \in Seq(Nat)
  BY <1>1, <1>2 DEF Handles, Alive
<1>4. CASE read.ret < 0
  BY <1>1, <1>2, <1>3, <1>4 DEF ReadsWhole, read
<1>5. CASE ~(read.ret < 0)
  <2>1. OnlyReads(c, read.c)
    BY <1>2, <1>5
  <2>2. Ready(read.c) /\ Connection(read.c) /\ read.c.fd
    BY <2>1 DEF OnlyReads, Ready, Connection
  <2>3. read.msg \o (read.c.rx \o read.c.inbox) = c.rx \o c.inbox
    BY <1>1, <2>2 DEF Handles
  <2>4. QED
    BY <1>1, <1>2, <1>3, <1>5, <2>1, <2>2, <2>3 DEF ReadsWhole, read
<1>6. QED
  BY <1>4, <1>5
=============================================================================
