----------------------------- MODULE TimersProofs -----------------------------
(***************************************************************************)
(* Proofs about Timers, for any timers, durations and clock. The types hold *)
(* whatever the callbacks do, the rest as long as they are tame.           *)
(***************************************************************************)
EXTENDS Timers, ListLemmas

(* The iterator is at the entry of the timer whose callback is running, or  *)
(* that entry has been erased.                                             *)
Tracks(l, k) == phase = "fire" => k = 0 \/ (k \in DOMAIN l /\ firing = {l[k]})

(* The entries that wait: all but the one of the callback.                 *)
WaitingIn(l) == {i \in DOMAIN l : phase = "fire" => i # 1}
Waits(l, t) == \E i \in WaitingIn(l) : l[i] = t
Once(l) == \A i, j \in WaitingIn(l) : l[i] = l[j] => i = j

(* CheckTimers takes one first entry after the other.                      *)
IteratorFirst ==
    /\ it = 1 /\ start <= now
    /\ IF phase = "fire" THEN list # <<>> ELSE firing = {}

OneEntryEach ==
    /\ Once(list)
    /\ \A t \in Timers : status[t] = "Actived" <=> Waits(list, t)

(* The list is sorted, but for the entry of a timer that its own callback   *)
(* has armed again: the new time is that of another entry.                 *)
SortedFrom(n, l, due) == \A i, j \in DOMAIN l : n < i /\ i < j => due[l[i]] <= due[l[j]]

Rearmed == phase = "fire" /\ status[list[1]] = "Actived"
Ordered == SortedFrom(IF Rearmed THEN 1 ELSE 0, list, tp)

FiredWasDue == phase = "fire" /\ ~Rearmed => tp[list[1]] <= start

(* No armed timer is due before the time that Main has read, none that its   *)
(* timeout was computed for before the end of that, and no wait is longer   *)
(* than its timeout.                                                       *)
InTime(t, x) == start <= tp[t] /\ (t \in planned => start + x <= tp[t])

Timely ==
    /\ phase \in {"handle", "wait"} =>
          \A t \in Timers : status[t] = "Actived" => InTime(t, timeout * Tick)
    /\ phase = "wait" => now <= wake

TypeInv == TypeOK /\ Tracks(list, it)
Walk == ~broken /\ IteratorFirst /\ OneEntryEach /\ Ordered /\ FiredWasDue /\ Timely
IInv == TypeInv /\ (tame => Walk)
-----------------------------------------------------------------------------
(* The operators on the list.                                              *)

LEMMA Numbers ==
    /\ MaxTime \in Nat /\ Tick \in Nat \ {0} /\ MaxWait \in Nat \ {0}
    /\ \A t \in Timers : Expire[t] \in Nat
BY TimersAssumption

LEMMA LeastIs ==
    ASSUME NEW P \in SUBSET Nat, P # {}
    PROVE  Least(P) \in P /\ \A j \in P : Least(P) <= j
BY LeastExists DEF Least

(* SetTimer inserts after all that are due no later.                       *)
LEMMA PlaceIs ==
    ASSUME NEW l \in Seq(Timers), NEW t \in Timers, NEW due \in [Timers -> Nat]
    PROVE  LET p == Place(l, t, due)
           IN  /\ p \in 1..(Len(l) + 1)
               /\ p \in 1..Len(l) => due[t] < due[l[p]]
               /\ \A i \in 1..(p - 1) : i \in 1..Len(l) /\ due[l[i]] <= due[t]
<1> DEFINE P == {i \in DOMAIN l : due[t] < due[l[i]]} \cup {Len(l) + 1}
           p == Place(l, t, due)
<1>1. Len(l) \in Nat /\ DOMAIN l = 1..Len(l) /\ \A i \in 1..Len(l) : l[i] \in Timers
  BY Elements
<1>2. P \in SUBSET Nat /\ P # {}
  BY <1>1
<1>3. p \in P /\ \A j \in P : p <= j
  BY <1>2, LeastIs DEF Place
<1> HIDE DEF p
<1>4. p \in 1..(Len(l) + 1) /\ (p \in 1..Len(l) => due[t] < due[l[p]])
  BY <1>1, <1>3
<1>5. ASSUME NEW i \in 1..(p - 1)
      PROVE  i \in 1..Len(l) /\ due[l[i]] <= due[t]
  <2>1. i \in 1..Len(l) /\ i \notin P
    BY <1>1, <1>3, <1>4
  <2>2. due[l[i]] \in Nat /\ due[t] \in Nat /\ ~(due[t] < due[l[i]])
    BY <1>1, <2>1
  <2>3. QED
    BY <2>1, <2>2
<1>6. QED
  BY <1>4, <1>5 DEF p

LEMMA FindIs ==
    ASSUME NEW l \in Seq(Timers), NEW t \in Timers
    PROVE  /\ Find(l, t) \in Nat
           /\ Find(l, t) = 0 => \A i \in DOMAIN l : l[i] # t
           /\ Find(l, t) # 0 => Find(l, t) \in 1..Len(l) /\ l[Find(l, t)] = t
<1>1. Len(l) \in Nat /\ DOMAIN l = 1..Len(l)
  BY Elements
<1>2. CASE \E i \in DOMAIN l : l[i] = t
  <2> DEFINE P == {i \in DOMAIN l : l[i] = t}
  <2>1. P \in SUBSET Nat /\ P # {}
    BY <1>1, <1>2
  <2>2. Least(P) \in P
    BY <2>1, LeastIs
  <2>3. Find(l, t) = Least(P)
    BY <1>2 DEF Find
  <2>4. QED
    BY <1>1, <2>2, <2>3
<1>3. CASE ~ \E i \in DOMAIN l : l[i] = t
  BY <1>3 DEF Find
<1>4. QED
  BY <1>2, <1>3

LEMMA InsertedIs ==
    ASSUME NEW l \in Seq(Timers), NEW t \in Timers, NEW p \in 1..(Len(l) + 1)
    PROVE  Inserted(l, p, t) \in Seq(Timers) /\ IsInserted(Inserted(l, p, t), l, p, t)
<1>1. \A r : r = SubSeq(l, 1, p - 1) \o <<t>> \o SubSeq(l, p, Len(l)) =>
                r \in Seq(Timers) /\ IsInserted(r, l, p, t)
  BY Inserting
<1>2. QED
  BY <1>1 DEF Inserted

LEMMA ErasedIs ==
    ASSUME NEW l \in Seq(Timers), NEW p \in 1..Len(l)
    PROVE  Erased(l, p) \in Seq(Timers) /\ IsErased(Erased(l, p), l, p)
BY Erasing DEF Erased

(* The iterator stays at its entry.                                        *)
LEMMA InsertTracks ==
    ASSUME NEW l \in Seq(Timers), NEW t \in Timers, NEW p \in 1..(Len(l) + 1), NEW k \in Nat,
           Tracks(l, k)
    PROVE  AfterInsert(p, k) \in Nat /\ Tracks(Inserted(l, p, t), AfterInsert(p, k))
<1> DEFINE r == Inserted(l, p, t)
<1>1. /\ DOMAIN r = 1..(Len(l) + 1) /\ Len(l) \in Nat /\ DOMAIN l = 1..Len(l)
      /\ \A i \in 1..(p - 1) : r[i] = l[i]
      /\ \A i \in p..Len(l) : r[i + 1] = l[i]
  BY InsertedIs, Elements DEF IsInserted
<1> HIDE DEF r
<1>2. AfterInsert(p, k) \in Nat
  BY <1>1 DEF AfterInsert
<1>3. ASSUME phase = "fire", k # 0
      PROVE  AfterInsert(p, k) \in DOMAIN r /\ firing = {r[AfterInsert(p, k)]}
  <2>1. k \in 1..Len(l) /\ firing = {l[k]}
    BY <1>1, <1>3 DEF Tracks
  <2>2. CASE p <= k
    BY <1>1, <1>3, <2>1, <2>2 DEF AfterInsert
  <2>3. CASE ~(p <= k)
    BY <1>1, <1>3, <2>1, <2>3 DEF AfterInsert
  <2>4. QED
    BY <2>2, <2>3
<1>4. CASE phase = "fire" /\ k = 0
  BY <1>4 DEF AfterInsert, Tracks
<1>5. QED
  BY <1>2, <1>3, <1>4 DEF Tracks, r

LEMMA EraseTracks ==
    ASSUME NEW l \in Seq(Timers), NEW p \in 1..Len(l), NEW k \in Nat, Tracks(l, k)
    PROVE  AfterErase(p, k) \in Nat /\ Tracks(Erased(l, p), AfterErase(p, k))
<1> DEFINE r == Erased(l, p)
<1>1. /\ DOMAIN r = 1..(Len(l) - 1) /\ Len(l) \in Nat /\ DOMAIN l = 1..Len(l)
      /\ \A i \in 1..(p - 1) : r[i] = l[i]
      /\ \A i \in p..(Len(l) - 1) : r[i] = l[i + 1]
  BY ErasedIs, Elements DEF IsErased
<1> HIDE DEF r
<1>2. AfterErase(p, k) \in Nat
  BY <1>1 DEF AfterErase
<1>3. ASSUME phase = "fire", k # 0, k # p
      PROVE  AfterErase(p, k) \in DOMAIN r /\ firing = {r[AfterErase(p, k)]}
  <2>1. k \in 1..Len(l) /\ firing = {l[k]}
    BY <1>1, <1>3 DEF Tracks
  <2>2. CASE p > k
    BY <1>1, <1>3, <2>1, <2>2 DEF AfterErase
  <2>3. CASE p < k
    <3>1. AfterErase(p, k) = k - 1 /\ k - 1 \in p..(Len(l) - 1) /\ (k - 1) + 1 = k
      BY <1>1, <1>3, <2>1, <2>3 DEF AfterErase
    <3>2. QED
      BY <1>1, <2>1, <3>1
  <2>4. QED
    BY <1>1, <1>3, <2>2, <2>3
<1>4. CASE phase = "fire" /\ (k = 0 \/ k = p)
  BY <1>4 DEF AfterErase, Tracks
<1>5. QED
  BY <1>2, <1>3, <1>4 DEF Tracks, r

(* The waiting entries after an insertion that is not before the entry of   *)
(* the callback.                                                           *)
LEMMA InsertWaits ==
    ASSUME NEW l \in Seq(Timers), NEW t \in Timers, NEW p \in 1..(Len(l) + 1),
           Once(l), ~Waits(l, t), phase = "fire" => l # <<>> /\ 1 < p
    PROVE  LET r == Inserted(l, p, t)
           IN  /\ Once(r) /\ \A x \in Timers : Waits(r, x) <=> Waits(l, x) \/ x = t
               /\ phase = "fire" => r # <<>> /\ r[1] = l[1]
<1> DEFINE r == Inserted(l, p, t)
<1>1. /\ DOMAIN r = 1..(Len(l) + 1) /\ Len(l) \in Nat /\ DOMAIN l = 1..Len(l)
      /\ r \in Seq(Timers) /\ r[p] = t
      /\ \A i \in 1..(p - 1) : r[i] = l[i]
      /\ \A i \in p..Len(l) : r[i + 1] = l[i]
  BY InsertedIs, Elements DEF IsInserted
<1> HIDE DEF r
<1>2. p \in WaitingIn(r) /\ \A j \in WaitingIn(l) : l[j] # t
  BY <1>1 DEF WaitingIn, Waits
<1>3. ASSUME NEW i \in WaitingIn(r), i # p
      PROVE  \E j \in WaitingIn(l) : r[i] = l[j] /\ i = (IF j < p THEN j ELSE j + 1)
  <2>1. CASE i < p
    <3>1. i \in WaitingIn(l) /\ r[i] = l[i]
      BY <1>1, <1>3, <2>1 DEF WaitingIn
    <3>2. QED
      BY <2>1, <3>1
  <2>2. CASE i > p
    <3>1. i - 1 \in p..Len(l) /\ (i - 1) + 1 = i /\ ~(i - 1 < p)
      BY <1>1, <1>3, <2>2 DEF WaitingIn
    <3>2. i - 1 \in WaitingIn(l) /\ r[i] = l[i - 1]
      BY <1>1, <1>3, <3>1 DEF WaitingIn
    <3>3. QED
      BY <3>1, <3>2
  <2>3. QED
    BY <1>1, <1>3, <2>1, <2>2 DEF WaitingIn
<1>4. ASSUME NEW j \in WaitingIn(l)
      PROVE  \E i \in WaitingIn(r) : r[i] = l[j]
  <2>1. CASE j < p
    <3>1. j \in WaitingIn(r) /\ r[j] = l[j]
      BY <1>1, <2>1 DEF WaitingIn
    <3>2. QED
      BY <3>1
  <2>2. CASE j >= p
    <3>1. j + 1 \in WaitingIn(r) /\ r[j + 1] = l[j]
      BY <1>1, <2>2 DEF WaitingIn
    <3>2. QED
      BY <3>1
  <2>3. QED
    BY <1>1, <2>1, <2>2 DEF WaitingIn
<1>5. ASSUME NEW i \in WaitingIn(r), NEW k \in WaitingIn(r), r[i] = r[k]
      PROVE  i = k
  <2>1. CASE i = p \/ k = p
    BY <1>1, <1>2, <1>3, <1>5, <2>1
  <2>2. CASE i # p /\ k # p
    <3>1. PICK j \in WaitingIn(l) : r[i] = l[j] /\ i = (IF j < p THEN j ELSE j + 1)
      BY <1>3, <2>2
    <3>2. PICK m \in WaitingIn(l) : r[k] = l[m] /\ k = (IF m < p THEN m ELSE m + 1)
      BY <1>3, <2>2
    <3>3. j = m
      BY <1>5, <3>1, <3>2 DEF Once
    <3>4. QED
      BY <3>1, <3>2, <3>3
  <2>3. QED
    BY <2>1, <2>2
<1>6. ASSUME NEW x \in Timers
      PROVE  Waits(r, x) <=> Waits(l, x) \/ x = t
  BY <1>1, <1>2, <1>3, <1>4 DEF Waits
<1>7. ASSUME phase = "fire"
      PROVE  r # <<>> /\ r[1] = l[1]
  <2>1. 1 \in 1..(p - 1) /\ Len(r) # 0
    BY <1>1, <1>7
  <2>2. QED
    BY <1>1, <2>1
<1>8. QED
  BY <1>5, <1>6, <1>7 DEF Once, r

(* The waiting entries after one of them has been erased.                  *)
LEMMA EraseWaits ==
    ASSUME NEW l \in Seq(Timers), NEW p \in WaitingIn(l), Once(l)
    PROVE  LET r == Erased(l, p)
           IN  /\ Once(r) /\ \A x \in Timers : Waits(r, x) <=> Waits(l, x) /\ x # l[p]
               /\ phase = "fire" => r # <<>> /\ r[1] = l[1]
<1> DEFINE r == Erased(l, p)
<1>0. Len(l) \in Nat /\ DOMAIN l = 1..Len(l) /\ p \in 1..Len(l)
  BY Elements DEF WaitingIn
<1>1. /\ DOMAIN r = 1..(Len(l) - 1) /\ r \in Seq(Timers)
      /\ \A i \in 1..(p - 1) : r[i] = l[i]
      /\ \A i \in p..(Len(l) - 1) : r[i] = l[i + 1]
  BY <1>0, ErasedIs DEF IsErased
<1> HIDE DEF r
<1>3. ASSUME NEW i \in WaitingIn(r)
      PROVE  \E j \in WaitingIn(l) : r[i] = l[j] /\ j # p /\ i = (IF j < p THEN j ELSE j - 1)
  <2>1. CASE i < p
    <3>1. i \in WaitingIn(l) /\ r[i] = l[i] /\ i # p
      BY <1>0, <1>1, <2>1 DEF WaitingIn
    <3>2. QED
      BY <2>1, <3>1
  <2>2. CASE i >= p
    <3>1. i + 1 \in WaitingIn(l) /\ r[i] = l[i + 1] /\ ~(i + 1 < p) /\ i + 1 # p
      BY <1>0, <1>1, <2>2 DEF WaitingIn
    <3>2. (i + 1) - 1 = i
      BY <1>1 DEF WaitingIn
    <3>3. QED
      BY <3>1, <3>2
  <2>3. QED
    BY <1>0, <1>1, <2>1, <2>2 DEF WaitingIn
<1>4. ASSUME NEW j \in WaitingIn(l), j # p
      PROVE  \E i \in WaitingIn(r) : r[i] = l[j]
  <2>1. CASE j < p
    <3>1. j \in WaitingIn(r) /\ r[j] = l[j]
      BY <1>0, <1>1, <2>1 DEF WaitingIn
    <3>2. QED
      BY <3>1
  <2>2. CASE j > p
    <3>1. j - 1 \in p..(Len(l) - 1) /\ (j - 1) + 1 = j
      BY <1>0, <2>2 DEF WaitingIn
    <3>2. j - 1 \in WaitingIn(r) /\ r[j - 1] = l[j]
      BY <1>0, <1>1, <3>1 DEF WaitingIn
    <3>3. QED
      BY <3>2
  <2>3. QED
    BY <1>0, <1>4, <2>1, <2>2 DEF WaitingIn
<1>5. ASSUME NEW i \in WaitingIn(r), NEW k \in WaitingIn(r), r[i] = r[k]
      PROVE  i = k
  <2>1. PICK j \in WaitingIn(l) : r[i] = l[j] /\ i = (IF j < p THEN j ELSE j - 1)
    BY <1>3
  <2>2. PICK m \in WaitingIn(l) : r[k] = l[m] /\ k = (IF m < p THEN m ELSE m - 1)
    BY <1>3
  <2>3. j = m
    BY <1>5, <2>1, <2>2 DEF Once
  <2>4. QED
    BY <2>1, <2>2, <2>3
<1>6. ASSUME NEW x \in Timers
      PROVE  Waits(r, x) <=> Waits(l, x) /\ x # l[p]
  <2>1. \A j \in WaitingIn(l) : l[j] = l[p] <=> j = p
    BY DEF Once
  <2>2. QED
    BY <1>3, <1>4, <2>1 DEF Waits
<1>7. ASSUME phase = "fire"
      PROVE  r # <<>> /\ r[1] = l[1]
  <2>1. 1 \in 1..(p - 1) /\ 1 \in DOMAIN r
    BY <1>0, <1>1, <1>7 DEF WaitingIn
  <2>2. QED
    BY <1>1, <2>1
<1>8. QED
  BY <1>5, <1>6, <1>7 DEF Once, r

(* A list sorted but for its first n entries stays so.                     *)
LEMMA InsertSorted ==
    ASSUME NEW l \in Seq(Timers), NEW t \in Timers, NEW due \in [Timers -> Nat],
           NEW n \in Nat, SortedFrom(n, l, due), n < Place(l, t, due)
    PROVE  SortedFrom(n, Inserted(l, Place(l, t, due), t), due)
<1> DEFINE p == Place(l, t, due)
           r == Inserted(l, p, t)
<1>0. Len(l) \in Nat /\ DOMAIN l = 1..Len(l) /\ \A i \in 1..Len(l) : due[l[i]] \in Nat
  BY Elements
<1>1. /\ p \in 1..(Len(l) + 1)
      /\ p \in 1..Len(l) => due[t] < due[l[p]]
      /\ \A i \in 1..(p - 1) : i \in 1..Len(l) /\ due[l[i]] <= due[t]
  BY PlaceIs
<1> HIDE DEF p
<1>2. /\ DOMAIN r = 1..(Len(l) + 1) /\ r[p] = t
      /\ \A i \in 1..(p - 1) : r[i] = l[i]
      /\ \A i \in p..Len(l) : r[i + 1] = l[i]
  BY <1>0, <1>1, InsertedIs DEF IsInserted
<1> HIDE DEF r
<1>3. \A i \in p..Len(l) : due[t] <= due[l[i]]
  <2> SUFFICES ASSUME NEW i \in p..Len(l) PROVE due[t] <= due[l[i]]
    OBVIOUS
  <2>1. p \in 1..Len(l) /\ i \in 1..Len(l) /\ due[t] < due[l[p]] /\ due[t] \in Nat
    BY <1>0, <1>1
  <2>2. CASE i = p
    BY <1>0, <2>1, <2>2
  <2>3. CASE p < i
    <3>1. due[l[p]] <= due[l[i]]
      BY <1>0, <2>1, <2>3 DEF SortedFrom, p
    <3>2. QED
      BY <1>0, <2>1, <3>1
  <2>4. QED
    BY <1>1, <2>1, <2>2, <2>3
<1>4. ASSUME NEW i \in DOMAIN r, NEW j \in DOMAIN r, n < i, i < j
      PROVE  due[r[i]] <= due[r[j]]
  <2>1. i \in 1..(Len(l) + 1) /\ j \in 1..(Len(l) + 1)
    BY <1>2
  <2>2. CASE j < p
    <3>1. i \in 1..Len(l) /\ j \in 1..Len(l) /\ r[i] = l[i] /\ r[j] = l[j]
      BY <1>0, <1>1, <1>2, <1>4, <2>1, <2>2
    <3>2. QED
      BY <1>0, <1>4, <3>1 DEF SortedFrom
  <2>3. CASE j = p
    <3>1. i \in 1..(p - 1) /\ r[j] = t
      BY <1>1, <1>2, <1>4, <2>1, <2>3
    <3>2. QED
      BY <1>1, <1>2, <3>1
  <2>4. CASE j > p
    <3>0. j - 1 \in p..Len(l) /\ (j - 1) + 1 = j /\ j - 1 \in 1..Len(l)
      BY <1>0, <1>1, <2>1, <2>4
    <3>1. r[j] = l[j - 1] /\ due[t] <= due[l[j - 1]]
      BY <1>2, <1>3, <3>0
    <3>2. CASE i < p
      <4>1. i \in 1..(p - 1) /\ r[i] = l[i] /\ i \in 1..Len(l) /\ i < j - 1
        BY <1>0, <1>1, <1>2, <2>1, <2>4, <3>2
      <4>2. QED
        BY <1>0, <1>4, <3>0, <3>1, <4>1 DEF SortedFrom
    <3>3. CASE i = p
      BY <1>2, <3>1, <3>3
    <3>4. CASE i > p
      <4>1. i - 1 \in p..Len(l) /\ (i - 1) + 1 = i /\ i - 1 \in 1..Len(l) /\ i - 1 < j - 1
        BY <1>0, <1>1, <1>4, <2>1, <3>4
      <4>2. r[i] = l[i - 1] /\ n < i - 1
        <5>1. r[i] = l[i - 1]
          BY <1>2, <4>1
        <5>2. n < p
          BY DEF p
        <5>3. QED
          BY <1>1, <3>4, <4>1, <5>1, <5>2
      <4>3. QED
        BY <1>0, <3>0, <3>1, <4>1, <4>2 DEF SortedFrom
    <3>5. QED
      BY <1>1, <2>1, <3>2, <3>3, <3>4
  <2>5. QED
    BY <1>1, <2>1, <2>2, <2>3, <2>4
<1>5. QED
  BY <1>4 DEF SortedFrom, r, p

LEMMA EraseSorted ==
    ASSUME NEW l \in Seq(Timers), NEW due \in [Timers -> Nat], NEW p \in 1..Len(l),
           NEW n \in Nat, SortedFrom(n, l, due), n < p \/ (n = 1 /\ p = 1)
    PROVE  SortedFrom(IF p = 1 THEN 0 ELSE n, Erased(l, p), due)
<1> DEFINE r == Erased(l, p)
<1>0. Len(l) \in Nat /\ DOMAIN l = 1..Len(l)
  BY Elements
<1>1. /\ DOMAIN r = 1..(Len(l) - 1)
      /\ \A i \in 1..(p - 1) : r[i] = l[i]
      /\ \A i \in p..(Len(l) - 1) : r[i] = l[i + 1]
  BY <1>0, ErasedIs DEF IsErased
<1> HIDE DEF r
<1>e. ASSUME NEW i \in DOMAIN r
      PROVE  LET a == IF i < p THEN i ELSE i + 1 IN a \in DOMAIN l /\ r[i] = l[a]
  <2>0. i \in 1..(Len(l) - 1)
    BY <1>1
  <2>1. CASE i < p
    <3>1. i \in 1..(p - 1) /\ i \in 1..Len(l)
      BY <1>0, <2>0, <2>1
    <3>2. QED
      BY <1>0, <1>1, <2>1, <3>1
  <2>2. CASE ~(i < p)
    <3>1. i \in p..(Len(l) - 1) /\ i + 1 \in 1..Len(l)
      BY <1>0, <2>0, <2>2
    <3>2. QED
      BY <1>0, <1>1, <2>2, <3>1
  <2>3. QED
    BY <2>1, <2>2
<1>2. ASSUME NEW i \in DOMAIN r, NEW j \in DOMAIN r, (IF p = 1 THEN 0 ELSE n) < i, i < j
      PROVE  due[r[i]] <= due[r[j]]
  <2> DEFINE a == IF i < p THEN i ELSE i + 1
             b == IF j < p THEN j ELSE j + 1
  <2>1. a \in DOMAIN l /\ r[i] = l[a] /\ b \in DOMAIN l /\ r[j] = l[b]
    BY <1>e
  <2>2. n < a
    <3>1. CASE p = 1
      BY <1>0, <1>1, <1>2, <3>1
    <3>2. CASE p # 1
      BY <1>0, <1>1, <1>2, <3>2
    <3>3. QED
      BY <3>1, <3>2
  <2>3. a < b
    BY <1>0, <1>1, <1>2
  <2>4. QED
    BY <2>1, <2>2, <2>3 DEF SortedFrom
<1>3. QED
  BY <1>2 DEF SortedFrom, r
-----------------------------------------------------------------------------
(* The types, whatever the callbacks do.                                   *)

LEMMA InitTypes == Init => TypeInv
<1>1. Init => planned \in SUBSET Timers /\ broken \in BOOLEAN /\ tame \in BOOLEAN
  BY DEF Init
<1>2. QED
  BY <1>1, Numbers DEF Init, TypeInv, TypeOK, Tracks, Statuses

(* StopTimer of the manager.                                               *)
LEMMA RemoveTypes ==
    ASSUME TypeInv, NEW t \in Timers, Remove(t)
    PROVE  list' \in Seq(Timers) /\ it' \in Nat /\ Tracks(list', it')
<1>1. list \in Seq(Timers) /\ it \in Nat /\ Tracks(list, it)
  BY DEF TypeInv, TypeOK
<1> DEFINE i == Find(list, t)
<1>2. i \in Nat /\ (i # 0 => i \in 1..Len(list))
  BY <1>1, FindIs
<1>3. CASE i = 0
  BY <1>1, <1>3 DEF Remove
<1>4. CASE i # 0
  <2>1. list' = Erased(list, i) /\ it' = AfterErase(i, it)
    BY <1>4 DEF Remove
  <2> HIDE DEF i
  <2>2. Erased(list, i) \in Seq(Timers)
    BY <1>1, <1>2, <1>4, ErasedIs
  <2>3. AfterErase(i, it) \in Nat /\ Tracks(Erased(list, i), AfterErase(i, it))
    BY <1>1, <1>2, <1>4, EraseTracks
  <2>4. QED
    BY <2>1, <2>2, <2>3
<1>5. QED
  BY <1>3, <1>4

LEMMA SetTypes ==
    ASSUME TypeInv, NEW t \in Timers, Set(t)
    PROVE  TypeInv'
<1>0. list \in Seq(Timers) /\ it \in Nat /\ Tracks(list, it) /\ tp \in [Timers -> Nat]
  BY DEF TypeInv, TypeOK
<1>1. tp' \in [Timers -> Nat]
  <2>1. now + Expire[t] \in Nat
    BY Numbers DEF TypeInv, TypeOK
  <2>2. QED
    BY <1>0, <2>1 DEF Set
<1> DEFINE i == Place(list, t, tp')
<1>2. list' = Inserted(list, i, t) /\ it' = AfterInsert(i, it)
  BY DEF Set
<1>3. i \in 1..(Len(list) + 1)
  BY <1>0, <1>1, PlaceIs
<1> HIDE DEF i
<1>4. Inserted(list, i, t) \in Seq(Timers)
  BY <1>0, <1>3, InsertedIs
<1>5. AfterInsert(i, it) \in Nat /\ Tracks(Inserted(list, i, t), AfterInsert(i, it))
  BY <1>0, <1>3, InsertTracks
<1>6. TypeOK'
  <2>1. /\ broken' \in BOOLEAN /\ tame' \in BOOLEAN /\ planned' \in SUBSET Timers
    BY DEF Set, FreedUpTo, TypeInv, TypeOK
  <2>2. QED
    BY <1>1, <1>2, <1>4, <1>5, <2>1 DEF Set, TypeInv, TypeOK, loop, Statuses
<1>7. (Tracks(list, it))'
  BY <1>2, <1>5 DEF Tracks, Set, loop
<1>8. QED
  BY <1>6, <1>7 DEF TypeInv

LEMMA RestartTypes ==
    ASSUME TypeInv, NEW t \in Timers, Restart(t)
    PROVE  TypeInv'
<1>0. list \in Seq(Timers) /\ it \in Nat /\ Tracks(list, it) /\ tp \in [Timers -> Nat]
  BY DEF TypeInv, TypeOK
<1>b. broken' \in BOOLEAN /\ tame' \in BOOLEAN
  BY DEF Restart, FreedUpTo
<1>n. CASE Find(list, t) = 0
  <2>1. UNCHANGED <<now, list, it, tp, status, planned, phase, firing, start, timeout, wake>>
    BY <1>n DEF Restart, loop
  <2>2. QED
    BY <1>b, <2>1 DEF TypeInv, TypeOK, Tracks
<1>s. CASE Find(list, t) # 0
  <2> DEFINE j == Find(list, t)
             l == Erased(list, j)
             k == AfterErase(j, it)
             i == Place(l, t, tp)
  <2>1. list' = Inserted(l, i, t) /\ it' = AfterInsert(i, k)
    BY <1>s DEF Restart
  <2>2. j \in 1..Len(list)
    BY <1>0, <1>s, FindIs
  <2> HIDE DEF j
  <2>3. l \in Seq(Timers) /\ k \in Nat /\ Tracks(l, k)
    BY <1>0, <2>2, ErasedIs, EraseTracks
  <2> HIDE DEF l, k
  <2>4. i \in 1..(Len(l) + 1)
    BY <1>0, <2>3, PlaceIs
  <2> HIDE DEF i
  <2>5. Inserted(l, i, t) \in Seq(Timers)
    BY <2>3, <2>4, InsertedIs
  <2>6. AfterInsert(i, k) \in Nat /\ Tracks(Inserted(l, i, t), AfterInsert(i, k))
    BY <2>3, <2>4, InsertTracks
  <2>7. TypeOK'
    BY <1>b, <2>1, <2>5, <2>6 DEF Restart, TypeInv, TypeOK, loop
  <2>8. (Tracks(list, it))'
    BY <2>1, <2>6 DEF Tracks, Restart, loop
  <2>9. QED
    BY <2>7, <2>8 DEF TypeInv
<1>q. QED
  BY <1>n, <1>s

LEMMA StopDestroyTypes ==
    ASSUME TypeInv, NEW t \in Timers, Stop(t) \/ Destroy(t)
    PROVE  TypeInv'
<1>1. list' \in Seq(Timers) /\ it' \in Nat /\ Tracks(list', it')
  <2>1. CASE Remove(t)
    BY <2>1, RemoveTypes
  <2>2. CASE UNCHANGED <<list, it>>
    BY <2>2 DEF TypeInv, TypeOK
  <2>3. QED
    BY <2>1, <2>2 DEF Stop, Destroy
<1>2. UNCHANGED <<now, tp, phase, firing, start, timeout, wake, planned>>
  BY DEF Stop, Destroy, loop
<1>3. status' \in [Timers -> Statuses]
  BY DEF Stop, Destroy, TypeInv, TypeOK, Statuses
<1>b. broken' \in BOOLEAN /\ tame' \in BOOLEAN
  BY DEF Stop, Destroy, Remove, FreedUpTo, TypeInv, TypeOK
<1>4. QED
  BY <1>1, <1>2, <1>3, <1>b DEF TypeInv, TypeOK, Tracks

(* What Main waits is positive and no longer than MaxWait.                 *)
LEMMA WaitTyped ==
    ASSUME TypeInv
    PROVE  WaitFor(timeout) \in 1..MaxWait
<1> DEFINE next == IF list = <<>> THEN 0 ELSE (tp[Head(list)] - start) \div Tick
           t == IF next < timeout THEN next ELSE timeout
<1>1. /\ list \in Seq(Timers) /\ tp \in [Timers -> Nat] /\ start \in Nat
      /\ timeout \in 1..MaxWait /\ MaxWait \in Nat \ {0}
  BY Numbers DEF TypeInv, TypeOK
<1>2. next \in Int
  <2>1. CASE list = <<>>
    BY <2>1
  <2>2. CASE list # <<>>
    <3>1. tp[Head(list)] - start \in Int
      BY <1>1, <2>2, Tails
    <3>2. QED
      BY <2>2, <3>1, Numbers
  <2>3. QED
    BY <2>1, <2>2
<1>3. WaitFor(timeout) = IF t <= 0 THEN MaxWait ELSE t
  BY DEF WaitFor
<1> HIDE DEF next
<1>4. QED
  BY <1>1, <1>2, <1>3

LEMMA LoopTypes ==
    ASSUME TypeInv, Wake \/ Fire \/ Return \/ EraseInvalid \/ EndCheck \/ Wait \/ Elapse \/ UNCHANGED vars
    PROVE  TypeInv'
<1>0. /\ list \in Seq(Timers) /\ it \in Nat /\ Len(list) \in Nat /\ DOMAIN list = 1..Len(list)
      /\ Tracks(list, it) /\ \A i \in DOMAIN list : list[i] \in Timers
  BY Elements DEF TypeInv, TypeOK
<1>1. CASE Wake
  BY <1>1 DEF Wake, TypeInv, TypeOK, Tracks
<1>2. CASE Fire
  BY <1>0, <1>2 DEF Fire, IsDue, Deactivated, TypeInv, TypeOK, Tracks, Statuses
<1>3. CASE Return
  <2>1. it \in 1..Len(list)
    BY <1>0, <1>3 DEF Return, Tracks
  <2>2. Erased(list, it) \in Seq(Timers)
    BY <1>0, <2>1, ErasedIs
  <2>3. QED
    BY <1>0, <1>3, <2>2 DEF Return, NextOf, TypeInv, TypeOK, Tracks
<1>4. CASE EndCheck
  <2>1. planned' \in SUBSET Timers
    BY <1>4 DEF EndCheck
  <2>2. QED
    BY <1>4, <2>1, WaitTyped DEF EndCheck, TypeInv, TypeOK, Tracks
<1>w. CASE EraseInvalid
  BY <1>w DEF EraseInvalid, loop, TypeInv, TypeOK, Tracks
<1>5. CASE Wait
  <2>1. timeout \in Nat /\ Tick \in Nat /\ now \in Nat
    BY Numbers DEF TypeInv, TypeOK
  <2>2. now + timeout * Tick \in Nat
    BY <2>1
  <2>3. QED
    BY <1>5, <2>2 DEF Wait, TypeInv, TypeOK, Tracks
<1>6. CASE Elapse
  BY <1>6, Numbers DEF Elapse, loop, TypeInv, TypeOK, Tracks
<1>7. CASE UNCHANGED vars
  BY <1>7 DEF vars, TypeInv, TypeOK, Tracks
<1>8. QED
  BY <1>1, <1>2, <1>3, <1>4, <1>w, <1>5, <1>6, <1>7

LEMMA NextTypes == TypeInv /\ [Next]_vars => TypeInv'
BY SetTypes, RestartTypes, StopDestroyTypes, LoopTypes DEF Next, Call
-----------------------------------------------------------------------------
(* Callbacks that are tame.                                                *)

LEMMA InitIInv == Init => IInv
<1>1. Init => Walk
  BY Numbers DEF Init, Walk, IteratorFirst, OneEntryEach, Once, Waits, WaitingIn, Ordered,
                 SortedFrom, Rearmed, FiredWasDue, Timely
<1>2. QED
  BY <1>1, InitTypes DEF IInv

(* What the invariant says in a form that the steps use.                   *)
LEMMA Facts ==
    ASSUME TypeInv, Walk
    PROVE  /\ list \in Seq(Timers) /\ Len(list) \in Nat /\ DOMAIN list = 1..Len(list)
           /\ \A i \in DOMAIN list : list[i] \in Timers
           /\ it = 1 /\ start \in Nat /\ now \in Nat /\ start <= now
           /\ tp \in [Timers -> Nat] /\ status \in [Timers -> Statuses]
           /\ phase = "fire" => list # <<>> /\ 1 \in DOMAIN list /\ firing = {list[1]}
           /\ phase # "fire" => firing = {}
           /\ Once(list) /\ \A t \in Timers : status[t] = "Actived" <=> Waits(list, t)
<1>1. /\ list \in Seq(Timers) /\ Len(list) \in Nat /\ DOMAIN list = 1..Len(list)
      /\ \A i \in DOMAIN list : list[i] \in Timers
  BY Elements DEF TypeInv, TypeOK
<1>2. /\ it = 1 /\ start \in Nat /\ now \in Nat /\ start <= now
      /\ tp \in [Timers -> Nat] /\ status \in [Timers -> Statuses]
  BY DEF TypeInv, TypeOK, Walk, IteratorFirst
<1>3. /\ phase = "fire" => list # <<>> /\ 1 \in DOMAIN list /\ firing = {list[1]}
      /\ phase # "fire" => firing = {}
  BY <1>2 DEF TypeInv, Tracks, Walk, IteratorFirst
<1>4. Once(list) /\ \A t \in Timers : status[t] = "Actived" <=> Waits(list, t)
  BY DEF Walk, OneEntryEach
<1>5. QED
  BY <1>1, <1>2, <1>3, <1>4

LEMMA PlaceAfterHead ==
    ASSUME NEW l \in Seq(Timers), NEW t \in Timers, NEW due \in [Timers -> Nat],
           l # <<>>, due[l[1]] <= due[t]
    PROVE  1 < Place(l, t, due)
<1> DEFINE p == Place(l, t, due)
<1>1. p \in 1..(Len(l) + 1) /\ (p \in 1..Len(l) => due[t] < due[l[p]])
  BY PlaceIs
<1> HIDE DEF p
<1>2. Len(l) \in Nat /\ 1 \in 1..Len(l) /\ due[l[1]] \in Nat /\ due[t] \in Nat
  <2>1. Len(l) \in Nat /\ 1 \in 1..Len(l) /\ l[1] \in Timers
    OBVIOUS
  <2>2. QED
    BY <2>1
<1>3. p # 1
  BY <1>1, <1>2
<1>4. QED
  BY <1>1, <1>2, <1>3 DEF p

(* SetTimer: the callback has set its own timer again, or one that is due   *)
(* no earlier than its own.                                                *)
LEMMA TameSet ==
    ASSUME TypeInv, Walk, NEW t \in Timers, Set(t), tame'
    PROVE  IteratorFirst' /\ OneEntryEach' /\ Ordered' /\ FiredWasDue'
<1> DEFINE i == Place(list, t, tp')
           n == IF phase = "fire" /\ (Rearmed \/ t = list[1]) THEN 1 ELSE 0
<1>0. /\ list \in Seq(Timers) /\ Len(list) \in Nat /\ DOMAIN list = 1..Len(list)
      /\ \A j \in DOMAIN list : list[j] \in Timers
      /\ it = 1 /\ start \in Nat /\ now \in Nat /\ start <= now
      /\ tp \in [Timers -> Nat] /\ status \in [Timers -> Statuses]
      /\ phase = "fire" => list # <<>> /\ 1 \in DOMAIN list /\ firing = {list[1]}
      /\ phase # "fire" => firing = {}
      /\ Once(list) /\ \A x \in Timers : status[x] = "Actived" <=> Waits(list, x)
  BY Facts
<1>1. /\ status[t] = "Deactived" /\ tp' = [tp EXCEPT ![t] = now + Expire[t]]
      /\ list' = Inserted(list, i, t) /\ it' = AfterInsert(i, it)
      /\ status' = [status EXCEPT ![t] = "Actived"]
      /\ UNCHANGED <<now, phase, firing, start, timeout, wake>>
  BY DEF Set, loop
<1>2. /\ now + Expire[t] \in Nat /\ tp' \in [Timers -> Nat] /\ tp'[t] = now + Expire[t]
      /\ \A x \in Timers : x # t => tp'[x] = tp[x]
      /\ start <= tp'[t]
  <2>1. Expire[t] \in Nat
    BY Numbers
  <2>2. now + Expire[t] \in Nat /\ start <= now + Expire[t]
    BY <1>0, <2>1
  <2>3. QED
    BY <1>0, <1>1, <2>2
<1>3. /\ ~Waits(list, t)
      /\ \A j \in DOMAIN list : n < j => list[j] # t
  BY <1>0, <1>1 DEF Waits, WaitingIn
<1>4. SortedFrom(n, list, tp')
  <2>1. ASSUME NEW j \in DOMAIN list, NEW k \in DOMAIN list, n < j, j < k
        PROVE  tp'[list[j]] <= tp'[list[k]]
    <3>1. Rearmed => 1 < j
      BY <2>1 DEF Rearmed
    <3>2. tp[list[j]] <= tp[list[k]]
      BY <1>0, <2>1, <3>1 DEF Walk, Ordered, SortedFrom
    <3>3. n < k
      BY <1>0, <2>1
    <3>4. QED
      BY <1>0, <1>2, <1>3, <2>1, <3>2, <3>3
  <2>2. QED
    BY <2>1 DEF SortedFrom
<1>5. phase = "fire" => tp'[list[1]] <= tp'[t]
  <2> SUFFICES ASSUME phase = "fire" PROVE tp'[list[1]] <= tp'[t]
    OBVIOUS
  <2>1. CASE t = list[1]
    BY <1>2, <2>1
  <2>2. CASE t # list[1] /\ Rearmed
    <3>1. now + Expire[t] >= tp[list[1]]
      BY <1>0, <2>2 DEF Set, NotBeforeOwn, Rearmed
    <3>2. QED
      BY <1>0, <1>2, <2>2, <3>1
  <2>3. CASE t # list[1] /\ ~Rearmed
    <3>1. tp[list[1]] <= start /\ tp[list[1]] \in Nat /\ tp'[list[1]] = tp[list[1]]
      BY <1>0, <1>2, <2>3 DEF Walk, FiredWasDue
    <3>2. QED
      BY <1>0, <1>2, <3>1
  <2>4. QED
    BY <2>1, <2>2, <2>3
<1>6. i \in 1..(Len(list) + 1) /\ (phase = "fire" => 1 < i) /\ n < i
  <2>1. i \in 1..(Len(list) + 1)
    BY <1>0, <1>2, PlaceIs
  <2>2. phase = "fire" => 1 < i
    BY <1>0, <1>2, <1>5, PlaceAfterHead
  <2> HIDE DEF i
  <2>3. QED
    BY <1>0, <2>1, <2>2
<1>7. SortedFrom(n, list', tp')
  BY <1>0, <1>1, <1>2, <1>4, <1>6, InsertSorted
<1> HIDE DEF i
<1>8. /\ Once(list') /\ \A x \in Timers : Waits(list', x) <=> Waits(list, x) \/ x = t
      /\ phase = "fire" => list' # <<>> /\ list'[1] = list[1]
  BY <1>0, <1>1, <1>3, <1>6, InsertWaits
<1>9. IteratorFirst'
  <2>1. it' = 1
    BY <1>0, <1>1, <1>6 DEF AfterInsert
  <2>2. QED
    BY <1>0, <1>1, <1>8, <2>1 DEF IteratorFirst
<1>10. OneEntryEach'
  <2>1. \A x \in Timers : status'[x] = "Actived" <=> Waits(list', x)
    BY <1>0, <1>1, <1>8
  <2>2. QED
    BY <1>1, <1>8, <2>1 DEF OneEntryEach, Once, Waits, WaitingIn
<1>11. /\ n = IF Rearmed' THEN 1 ELSE 0
       /\ ~Rearmed' /\ phase = "fire" => ~Rearmed /\ t # list[1]
  BY <1>0, <1>1, <1>8 DEF Rearmed
<1>12. Ordered'
  BY <1>7, <1>11 DEF Ordered, SortedFrom
<1>13. FiredWasDue'
  BY <1>0, <1>1, <1>2, <1>8, <1>11 DEF Walk, FiredWasDue
<1>14. QED
  BY <1>9, <1>10, <1>12, <1>13

(* StopTimer erases the one entry of a timer that is not firing.           *)
LEMMA TameErase ==
    ASSUME TypeInv, Walk, NEW t \in Timers, t \notin firing, \E k \in DOMAIN list : list[k] = t
    PROVE  LET i == Find(list, t)
               l == Erased(list, i)
           IN  /\ i # 0 /\ AfterErase(i, it) = 1
               /\ l \in Seq(Timers) /\ Once(l) /\ Waits(list, t)
               /\ \A x \in Timers : Waits(l, x) <=> Waits(list, x) /\ x # t
               /\ phase = "fire" => l # <<>> /\ l[1] = list[1]
               /\ SortedFrom(IF Rearmed THEN 1 ELSE 0, l, tp)
               /\ phase = "fire" /\ ~Rearmed => tp[list[1]] <= tp[t]
<1> DEFINE i == Find(list, t)
           l == Erased(list, i)
           n == IF Rearmed THEN 1 ELSE 0
<1>0. /\ list \in Seq(Timers) /\ Len(list) \in Nat /\ DOMAIN list = 1..Len(list)
      /\ it = 1 /\ tp \in [Timers -> Nat] /\ Once(list)
      /\ phase = "fire" => list # <<>> /\ 1 \in DOMAIN list /\ firing = {list[1]}
  BY Facts
<1>1. i \in 1..Len(list) /\ i # 0 /\ list[i] = t
  BY <1>0, FindIs
<1> HIDE DEF i
<1>2. i \in WaitingIn(list) /\ (phase = "fire" => 1 < i) /\ Waits(list, t)
  BY <1>0, <1>1 DEF WaitingIn, Waits
<1>3. AfterErase(i, it) = 1
  BY <1>0, <1>1, <1>2 DEF AfterErase
<1>4. l \in Seq(Timers)
  BY <1>0, <1>1, ErasedIs
<1>5. /\ Once(l) /\ \A x \in Timers : Waits(l, x) <=> Waits(list, x) /\ x # list[i]
      /\ phase = "fire" => l # <<>> /\ l[1] = list[1]
  BY <1>0, <1>2, EraseWaits
<1>6. SortedFrom(n, l, tp)
  <2>1. SortedFrom(n, list, tp) /\ n \in Nat /\ n < i
    BY <1>0, <1>1, <1>2 DEF Walk, Ordered, Rearmed
  <2>2. SortedFrom(IF i = 1 THEN 0 ELSE n, l, tp)
    BY <1>0, <1>1, <2>1, EraseSorted
  <2>3. (IF i = 1 THEN 0 ELSE n) = n
    BY <1>1, <2>1
  <2>4. QED
    BY <2>2, <2>3
<1>7. phase = "fire" /\ ~Rearmed => tp[list[1]] <= tp[t]
  BY <1>0, <1>1, <1>2 DEF Walk, Ordered, SortedFrom
<1>8. QED
  BY <1>1, <1>2, <1>3, <1>4, <1>5, <1>6, <1>7 DEF i

LEMMA TameRestart ==
    ASSUME TypeInv, Walk, NEW t \in Timers, Restart(t), tame'
    PROVE  IteratorFirst' /\ OneEntryEach' /\ Ordered' /\ FiredWasDue'
<1>n. ASSUME Find(list, t) = 0
      PROVE  IteratorFirst' /\ OneEntryEach' /\ Ordered' /\ FiredWasDue'
  <2>1. UNCHANGED <<now, list, it, tp, status, phase, firing, start>>
    BY <1>n DEF Restart, loop
  <2>2. Rearmed' <=> Rearmed
    BY <2>1 DEF Rearmed
  <2>3. QED
    BY <2>1, <2>2 DEF Walk, IteratorFirst, OneEntryEach, Once, Waits, WaitingIn, Ordered,
                      SortedFrom, FiredWasDue
<1> SUFFICES ASSUME Find(list, t) # 0
             PROVE  IteratorFirst' /\ OneEntryEach' /\ Ordered' /\ FiredWasDue'
  BY <1>n
<1> DEFINE j == Find(list, t)
           l == Erased(list, j)
           i == Place(l, t, tp)
           n == IF Rearmed THEN 1 ELSE 0
<1>0. /\ list \in Seq(Timers) /\ Len(list) \in Nat /\ DOMAIN list = 1..Len(list)
      /\ it = 1 /\ start <= now
      /\ tp \in [Timers -> Nat]
      /\ phase = "fire" => list # <<>> /\ 1 \in DOMAIN list /\ firing = {list[1]}
      /\ phase # "fire" => firing = {}
      /\ Once(list) /\ \A x \in Timers : status[x] = "Actived" <=> Waits(list, x)
  BY Facts
<1>1. /\ list' = Inserted(l, i, t) /\ it' = AfterInsert(i, AfterErase(j, it))
      /\ UNCHANGED <<now, tp, status, phase, firing, start, timeout, wake>>
      /\ j # 0 /\ t \notin firing
  BY DEF Restart, OwnAlone, loop
<1>2. \E k \in DOMAIN list : list[k] = t
  BY <1>0, <1>1, FindIs
<1>3. /\ AfterErase(j, it) = 1
      /\ l \in Seq(Timers) /\ Once(l) /\ Waits(list, t)
      /\ \A x \in Timers : Waits(l, x) <=> Waits(list, x) /\ x # t
      /\ phase = "fire" => l # <<>> /\ l[1] = list[1]
      /\ SortedFrom(n, l, tp)
      /\ phase = "fire" /\ ~Rearmed => tp[list[1]] <= tp[t]
  BY <1>1, <1>2, TameErase
<1> HIDE DEF j, l
<1>4. phase = "fire" => tp[l[1]] <= tp[t]
  <2>1. CASE phase = "fire" /\ Rearmed
    <3>1. tp[t] >= tp[list[1]]
      BY <1>0, <2>1 DEF Restart, NotBeforeOwn, Rearmed
    <3>2. list[1] \in Timers
      BY <1>0, <2>1
    <3>3. QED
      BY <1>0, <1>3, <2>1, <3>1, <3>2
  <2>2. QED
    BY <1>3, <2>1
<1>5. i \in 1..(Len(l) + 1) /\ (phase = "fire" => 1 < i) /\ n < i
  <2>1. i \in 1..(Len(l) + 1) /\ Len(l) \in Nat
    BY <1>0, <1>3, PlaceIs
  <2>2. phase = "fire" => 1 < i
    BY <1>0, <1>3, <1>4, PlaceAfterHead
  <2> HIDE DEF i
  <2>3. QED
    BY <2>1, <2>2 DEF Rearmed
<1>6. SortedFrom(n, list', tp)
  BY <1>0, <1>1, <1>3, <1>5, InsertSorted
<1> HIDE DEF i
<1>7. /\ Once(list') /\ \A x \in Timers : Waits(list', x) <=> Waits(l, x) \/ x = t
      /\ phase = "fire" => list' # <<>> /\ list'[1] = list[1]
  <2>1. ~Waits(l, t)
    BY <1>3
  <2>2. QED
    BY <1>1, <1>3, <1>5, <2>1, InsertWaits
<1>8. IteratorFirst'
  <2>1. it' = 1
    BY <1>1, <1>3, <1>5 DEF AfterInsert
  <2>2. QED
    BY <1>0, <1>1, <1>7, <2>1 DEF IteratorFirst
<1>9. OneEntryEach'
  <2>1. \A x \in Timers : status'[x] = "Actived" <=> Waits(list', x)
    BY <1>0, <1>1, <1>3, <1>7
  <2>2. QED
    BY <1>1, <1>7, <2>1 DEF OneEntryEach, Once, Waits, WaitingIn
<1>10. Rearmed' <=> Rearmed
  BY <1>1, <1>7 DEF Rearmed
<1>11. Ordered'
  BY <1>1, <1>6, <1>10 DEF Ordered, SortedFrom
<1>12. FiredWasDue'
  BY <1>1, <1>7, <1>10 DEF Walk, FiredWasDue
<1>13. QED
  BY <1>8, <1>9, <1>11, <1>12

LEMMA TameStopDestroy ==
    ASSUME TypeInv, Walk, NEW t \in Timers, Stop(t) \/ Destroy(t), tame'
    PROVE  IteratorFirst' /\ OneEntryEach' /\ Ordered' /\ FiredWasDue'
<1>0. /\ list \in Seq(Timers) /\ Len(list) \in Nat /\ DOMAIN list = 1..Len(list)
      /\ it = 1 /\ start <= now
      /\ tp \in [Timers -> Nat] /\ status \in [Timers -> Statuses]
      /\ phase = "fire" => list # <<>> /\ 1 \in DOMAIN list /\ firing = {list[1]}
      /\ phase # "fire" => firing = {}
      /\ Once(list) /\ \A x \in Timers : status[x] = "Actived" <=> Waits(list, x)
  BY Facts
<1>1. UNCHANGED <<now, tp, phase, firing, start, timeout, wake>>
  BY DEF Stop, Destroy, loop
<1>2. ASSUME status[t] = "Actived"
      PROVE  /\ it' = 1 /\ Once(list')
             /\ \A x \in Timers : Waits(list', x) <=> Waits(list, x) /\ x # t
             /\ phase = "fire" => list' # <<>> /\ list'[1] = list[1] /\ t # list[1]
             /\ SortedFrom(IF Rearmed THEN 1 ELSE 0, list', tp)
             /\ \A x \in Timers : status'[x] = "Actived" <=> status[x] = "Actived" /\ x # t
  <2>1. Remove(t) /\ t \notin firing
    BY <1>2 DEF Stop, Destroy, OwnAlone
  <2>2. \E k \in DOMAIN list : list[k] = t
    BY <1>0, <1>2 DEF Waits, WaitingIn
  <2> DEFINE i == Find(list, t)
             l == Erased(list, i)
  <2>3. /\ i # 0 /\ AfterErase(i, it) = 1 /\ Once(l)
        /\ \A x \in Timers : Waits(l, x) <=> Waits(list, x) /\ x # t
        /\ phase = "fire" => l # <<>> /\ l[1] = list[1]
        /\ SortedFrom(IF Rearmed THEN 1 ELSE 0, l, tp)
    BY <2>1, <2>2, TameErase
  <2>4. list' = l /\ it' = AfterErase(i, it)
    BY <2>1, <2>3 DEF Remove
  <2>5. \A x \in Timers : status'[x] = "Actived" <=> status[x] = "Actived" /\ x # t
    BY <1>0, <2>3 DEF Stop, Destroy
  <2> HIDE DEF i, l
  <2>6. QED
    BY <1>0, <2>1, <2>3, <2>4, <2>5
<1>3. ASSUME status[t] # "Actived"
      PROVE  /\ UNCHANGED <<list, it>>
             /\ \A x \in Timers : status'[x] = "Actived" <=> status[x] = "Actived"
  BY <1>0, <1>3 DEF Stop, Destroy
<1>4. CASE status[t] = "Actived"
  <2>1. IteratorFirst'
    BY <1>0, <1>1, <1>2, <1>4 DEF IteratorFirst
  <2>2. OneEntryEach'
    <3>1. \A x \in Timers : status'[x] = "Actived" <=> Waits(list', x)
      BY <1>0, <1>2, <1>4
    <3>2. QED
      BY <1>1, <1>2, <1>4, <3>1 DEF OneEntryEach, Once, Waits, WaitingIn
  <2>3. Rearmed' <=> Rearmed
    <3>1. phase = "fire" => list[1] \in Timers
      BY <1>0
    <3>2. QED
      BY <1>1, <1>2, <1>4, <3>1 DEF Rearmed
  <2>4. Ordered'
    BY <1>1, <1>2, <1>4, <2>3 DEF Ordered, SortedFrom
  <2>5. FiredWasDue'
    BY <1>1, <1>2, <1>4, <2>3 DEF Walk, FiredWasDue
  <2>6. QED
    BY <2>1, <2>2, <2>4, <2>5
<1>5. CASE status[t] # "Actived"
  <2>1. IteratorFirst'
    BY <1>0, <1>1, <1>3, <1>5 DEF IteratorFirst
  <2>2. OneEntryEach'
    BY <1>0, <1>1, <1>3, <1>5 DEF OneEntryEach, Once, Waits, WaitingIn
  <2>3. Rearmed' <=> Rearmed
    <3>1. phase = "fire" => list[1] \in Timers
      BY <1>0
    <3>2. QED
      BY <1>1, <1>3, <1>5, <3>1 DEF Rearmed
  <2>4. Ordered' /\ FiredWasDue'
    BY <1>1, <1>3, <1>5, <2>3 DEF Walk, Ordered, SortedFrom, FiredWasDue
  <2>5. QED
    BY <2>1, <2>2, <2>4
<1>6. QED
  BY <1>4, <1>5

(* Main and CheckTimers.                                                   *)
LEMMA TameLoop ==
    ASSUME TypeInv, Walk, Wake \/ Fire \/ Return \/ EraseInvalid \/ EndCheck \/ Wait \/ Elapse \/ UNCHANGED vars
    PROVE  IteratorFirst' /\ OneEntryEach' /\ Ordered' /\ FiredWasDue'
<1>0. /\ list \in Seq(Timers) /\ Len(list) \in Nat /\ DOMAIN list = 1..Len(list)
      /\ \A j \in DOMAIN list : list[j] \in Timers
      /\ it = 1 /\ start \in Nat /\ now \in Nat /\ start <= now
      /\ tp \in [Timers -> Nat] /\ status \in [Timers -> Statuses]
      /\ phase = "fire" => list # <<>> /\ 1 \in DOMAIN list /\ firing = {list[1]}
      /\ phase # "fire" => firing = {}
      /\ Once(list) /\ \A x \in Timers : status[x] = "Actived" <=> Waits(list, x)
  BY Facts
<1>1. CASE Fire
  <2> DEFINE f == list[1]
  <2>1. /\ phase = "check" /\ phase' = "fire" /\ 1 \in DOMAIN list /\ f \in Timers
        /\ tp[f] <= start /\ firing' = {f} /\ status' = [status EXCEPT ![f] = "Deactived"]
        /\ UNCHANGED <<now, list, it, start, tp>>
    BY <1>0, <1>1 DEF Fire, IsDue, Deactivated
  <2>2. status'[f] = "Deactived" /\ \A x \in Timers : x # f => status'[x] = status[x]
    BY <1>0, <2>1
  <2>3. IteratorFirst'
    BY <1>0, <2>1 DEF IteratorFirst
  <2>4. OneEntryEach'
    <3>1. /\ WaitingIn(list) = DOMAIN list
          /\ (WaitingIn(list))' = DOMAIN list \ {1}
      BY <2>1 DEF WaitingIn
    <3>2. (Once(list))'
      BY <1>0, <2>1, <3>1 DEF Once
    <3>3. ASSUME NEW x \in Timers
          PROVE  status'[x] = "Actived" <=> (Waits(list, x))'
      <4>1. CASE x = f
        BY <1>0, <2>1, <2>2, <3>1, <4>1 DEF Once, Waits
      <4>2. CASE x # f
        BY <1>0, <2>1, <2>2, <3>1, <4>2 DEF Waits
      <4>3. QED
        BY <4>1, <4>2
    <3>4. QED
      BY <3>2, <3>3 DEF OneEntryEach, Waits
  <2>5. ~Rearmed /\ ~Rearmed'
    BY <2>1, <2>2 DEF Rearmed
  <2>6. Ordered' /\ FiredWasDue'
    BY <2>1, <2>5 DEF Walk, Ordered, SortedFrom, FiredWasDue
  <2>7. QED
    BY <2>3, <2>4, <2>6
<1>2. CASE Return
  <2>1. /\ phase = "fire" /\ phase' = "check" /\ firing' = {} /\ 1 \in 1..Len(list)
        /\ list' = Erased(list, 1) /\ it' = 1
        /\ UNCHANGED <<now, start, tp, status>>
    BY <1>0, <1>2 DEF Return, NextOf
  <2>2. /\ DOMAIN list' = 1..(Len(list) - 1)
        /\ \A i \in 1..(Len(list) - 1) : list'[i] = list[i + 1]
    BY <1>0, <2>1, ErasedIs DEF IsErased
  <2>3. IteratorFirst'
    BY <1>0, <2>1 DEF IteratorFirst
  <2>4. OneEntryEach'
    <3>1. /\ WaitingIn(list) = DOMAIN list \ {1}
          /\ (WaitingIn(list))' = DOMAIN list'
      BY <2>1 DEF WaitingIn
    <3>2. \A i \in DOMAIN list' : i + 1 \in WaitingIn(list) /\ list'[i] = list[i + 1]
      BY <1>0, <2>2, <3>1
    <3>3. \A i \in WaitingIn(list) : i - 1 \in DOMAIN list' /\ list'[i - 1] = list[i]
      <4>1. ASSUME NEW i \in WaitingIn(list)
            PROVE  i - 1 \in 1..(Len(list) - 1) /\ (i - 1) + 1 = i
        BY <1>0, <3>1
      <4>2. QED
        BY <2>2, <4>1
    <3>4. (Once(list))'
      <4>1. ASSUME NEW i \in DOMAIN list', NEW j \in DOMAIN list', list'[i] = list'[j]
            PROVE  i = j
        <5>1. i + 1 = j + 1
          BY <1>0, <3>2, <4>1 DEF Once
        <5>2. QED
          BY <1>0, <2>2, <5>1
      <4>2. QED
        BY <3>1, <4>1 DEF Once
    <3>5. ASSUME NEW x \in Timers
          PROVE  status'[x] = "Actived" <=> (Waits(list, x))'
      <4>1. Waits(list, x) <=> \E i \in DOMAIN list' : list'[i] = x
        BY <3>2, <3>3 DEF Waits
      <4>2. (Waits(list, x))' <=> \E i \in DOMAIN list' : list'[i] = x
        BY <3>1 DEF Waits
      <4>3. QED
        BY <1>0, <2>1, <4>1, <4>2
    <3>6. QED
      BY <3>4, <3>5 DEF OneEntryEach
  <2>5. Ordered' /\ FiredWasDue'
    <3> DEFINE n == IF Rearmed THEN 1 ELSE 0
    <3>1. SortedFrom(n, list, tp)
      BY DEF Walk, Ordered
    <3>2. SortedFrom(1, list, tp)
      BY <1>0, <3>1 DEF SortedFrom
    <3>3. SortedFrom(IF 1 = 1 THEN 0 ELSE 1, Erased(list, 1), tp)
      BY <1>0, <2>1, <3>2, EraseSorted
    <3>4. SortedFrom(0, list', tp')
      BY <2>1, <3>3
    <3>5. ~Rearmed'
      BY <2>1 DEF Rearmed
    <3>6. QED
      BY <2>1, <3>4, <3>5 DEF Ordered, SortedFrom, FiredWasDue
  <2>6. QED
    BY <2>3, <2>4, <2>5
<1>w. ~EraseInvalid
  BY <1>0 DEF EraseInvalid
<1>3. CASE Wake \/ EndCheck \/ Wait
  <2>1. /\ phase # "fire" /\ phase' # "fire" /\ it' = 1 /\ start' <= now'
        /\ UNCHANGED <<list, firing, tp, status>>
    BY <1>0, <1>3 DEF Wake, EndCheck, Wait
  <2>2. ~Rearmed /\ ~Rearmed'
    BY <2>1 DEF Rearmed
  <2>3. QED
    BY <1>0, <2>1, <2>2 DEF Walk, IteratorFirst, OneEntryEach, Once, Waits, WaitingIn, Ordered,
                            SortedFrom, FiredWasDue
<1>4. CASE Elapse \/ UNCHANGED vars
  <2>1. now' \in Nat /\ now <= now' /\ UNCHANGED <<phase, list, it, firing, start, tp, status>>
    BY <1>0, <1>4 DEF Elapse, loop, vars
  <2>2. Rearmed' <=> Rearmed
    BY <2>1 DEF Rearmed
  <2>3. IteratorFirst'
    BY <1>0, <2>1 DEF IteratorFirst
  <2>4. QED
    BY <1>0, <2>1, <2>2, <2>3 DEF Walk, OneEntryEach, Once, Waits, WaitingIn, Ordered,
                                  SortedFrom, FiredWasDue
<1>5. QED
  BY <1>1, <1>2, <1>w, <1>3, <1>4

(* CheckTimers ends at a list whose first timer is not due, or empty.      *)
LEMMA EndsAtFirst ==
    ASSUME TypeInv, Walk, EndCheck, NEW t \in Timers, status[t] = "Actived"
    PROVE  list # <<>> /\ Head(list) \in Timers /\ status[Head(list)] = "Actived"
           /\ start < tp[Head(list)] /\ tp[Head(list)] <= tp[t]
<1>0. /\ list \in Seq(Timers) /\ Len(list) \in Nat /\ DOMAIN list = 1..Len(list)
      /\ \A j \in DOMAIN list : list[j] \in Timers
      /\ it = 1 /\ start \in Nat /\ tp \in [Timers -> Nat]
      /\ \A x \in Timers : status[x] = "Actived" <=> Waits(list, x)
  BY Facts
<1>1. phase = "check" /\ ~IsDue
  BY DEF EndCheck
<1>2. PICK i \in DOMAIN list : list[i] = t
  BY <1>0 DEF Waits, WaitingIn
<1>3. list # <<>> /\ 1 \in DOMAIN list /\ Head(list) = list[1]
  BY <1>0, <1>2
<1>4. status[list[1]] = "Actived"
  BY <1>0, <1>1, <1>3 DEF Waits, WaitingIn
<1>5. start < tp[list[1]]
  BY <1>0, <1>1, <1>3 DEF IsDue
<1>6. tp[list[1]] <= tp[t]
  <2>1. CASE i = 1
    BY <1>0, <1>2, <2>1
  <2>2. CASE i # 1
    <3>1. 1 < i /\ ~Rearmed
      BY <1>0, <1>1, <2>2 DEF Rearmed
    <3>2. QED
      BY <1>2, <1>3, <3>1 DEF Walk, Ordered, SortedFrom
  <2>3. QED
    BY <2>1, <2>2
<1>7. QED
  BY <1>0, <1>3, <1>4, <1>5, <1>6

LEMMA Quotient ==
    ASSUME NEW a \in Nat, NEW b \in Nat \ {0}, b <= a
    PROVE  a \div b \in Nat \ {0} /\ (a \div b) * b <= a
OBVIOUS

LEMMA Product ==
    ASSUME NEW a \in Nat, NEW b \in Nat
    PROVE  a * b \in Nat
OBVIOUS

LEMMA Shorter ==
    ASSUME NEW q \in Nat, NEW t \in Nat, NEW b \in Nat, t <= q
    PROVE  t * b <= q * b
OBVIOUS

LEMMA WaitsForFirst ==
    ASSUME TypeInv, Walk, EndCheck, list # <<>>, Head(list) \in Timers, tp[Head(list)] - start >= Tick
    PROVE  start + timeout' * Tick <= tp[Head(list)]
<1> DEFINE a == tp[Head(list)] - start
           q == a \div Tick
           t == IF q < timeout THEN q ELSE timeout
<1>1. /\ start \in Nat /\ tp \in [Timers -> Nat] /\ timeout \in 1..MaxWait
      /\ MaxWait \in Nat \ {0} /\ Tick \in Nat \ {0}
  BY Numbers, Facts DEF TypeInv, TypeOK
<1>2. tp[Head(list)] \in Nat
  BY <1>1
<1>3. a \in Nat /\ Tick <= a /\ tp[Head(list)] = start + a
  BY <1>1, <1>2
<1>4. timeout' = IF t <= 0 THEN MaxWait ELSE t
  BY DEF EndCheck, WaitFor
<1> HIDE DEF a
<1>5. q \in Nat \ {0} /\ q * Tick <= a
  BY <1>1, <1>3, Quotient
<1> HIDE DEF q
<1>6. timeout' \in Nat /\ timeout' <= q
  BY <1>1, <1>4, <1>5
<1>7. timeout' * Tick <= q * Tick
  BY <1>1, <1>5, <1>6, Shorter
<1>8. timeout' * Tick \in Nat /\ q * Tick \in Nat
  BY <1>1, <1>5, <1>6, Product
<1> DEFINE x == timeout' * Tick
           y == q * Tick
<1> HIDE DEF x, y
<1>9. x \in Nat /\ y \in Nat /\ x <= y /\ y <= a
  BY <1>5, <1>7, <1>8 DEF x, y
<1>10. start + x <= tp[Head(list)]
  BY <1>1, <1>3, <1>9
<1>11. QED
  BY <1>10 DEF x

(* Nothing that the list still points to was destroyed, but the timer of a   *)
(* callback that has destroyed it.                                         *)
LEMMA NoneFreed ==
    ASSUME TypeInv, Walk, OwnNotFreed
    PROVE  \A n : ~FreedUpTo(list, n)
<1>1. ASSUME NEW i \in DOMAIN list
      PROVE  status[list[i]] # "Destroyed"
  <2>0. /\ DOMAIN list = 1..Len(list) /\ \A j \in DOMAIN list : list[j] \in Timers
        /\ phase = "fire" => firing = {list[1]}
        /\ \A x \in Timers : status[x] = "Actived" <=> Waits(list, x)
    BY Facts
  <2>1. CASE i \in WaitingIn(list)
    BY <2>0, <2>1 DEF Waits
  <2>2. CASE i \notin WaitingIn(list)
    BY <2>0, <2>2 DEF WaitingIn, OwnNotFreed
  <2>3. QED
    BY <2>1, <2>2
<1>2. QED
  BY <1>1 DEF FreedUpTo

(* No step of the loop, and no tame call, uses what is freed or erased.     *)
LEMMA TameUnbroken ==
    ASSUME TypeInv, Walk, [Next]_vars, tame'
    PROVE  ~broken'
<1>1. ASSUME NEW t \in Timers, Set(t) \/ Stop(t)
      PROVE  ~broken'
  <2>1. OwnNotFreed
    BY <1>1 DEF Set, Stop
  <2>2. \E n : broken' = FreedUpTo(list, n)
    BY <1>1 DEF Set, Stop, Remove
  <2>3. QED
    BY <2>1, <2>2, NoneFreed
<1>2. ASSUME NEW t \in Timers, Destroy(t)
      PROVE  ~broken'
  <2>1. CASE status[t] = "Actived"
    BY <1>2, <2>1, NoneFreed DEF Destroy, Remove
  <2>2. CASE status[t] # "Actived"
    BY <1>2, <2>2 DEF Destroy, Walk
  <2>3. QED
    BY <2>1, <2>2
<1>3. ASSUME NEW t \in Timers, Restart(t)
      PROVE  ~broken'
  <2> DEFINE j == Find(list, t)
             l == Erased(list, j)
             i == Place(l, t, tp)
  <2>1. OwnNotFreed /\ broken' = IF j = 0 THEN FreedUpTo(list, Len(list))
                                 ELSE FreedUpTo(list, j) \/ FreedUpTo(l, i)
    BY <1>3 DEF Restart
  <2>2. \A n : ~FreedUpTo(list, n)
    BY <2>1, NoneFreed
  <2>3. list \in Seq(Timers) /\ Len(list) \in Nat /\ DOMAIN list = 1..Len(list)
    BY Facts
  <2>4. ASSUME j # 0
        PROVE  \A n : ~FreedUpTo(l, n)
    <3>1. j \in 1..Len(list)
      BY <2>3, <2>4, FindIs
    <3> HIDE DEF j
    <3>2. /\ DOMAIN l = 1..(Len(list) - 1)
          /\ \A m \in 1..(j - 1) : l[m] = list[m]
          /\ \A m \in j..(Len(list) - 1) : l[m] = list[m + 1]
      BY <2>3, <3>1, ErasedIs DEF IsErased
    <3> HIDE DEF l
    <3>3. ASSUME NEW m \in DOMAIN l
          PROVE  \E k \in DOMAIN list : l[m] = list[k]
      <4>1. CASE m < j
        BY <2>3, <3>1, <3>2, <4>1
      <4>2. CASE ~(m < j)
        <5>1. m \in j..(Len(list) - 1) /\ m + 1 \in DOMAIN list
          BY <2>3, <3>1, <3>2, <4>2
        <5>2. l[m] = list[m + 1]
          BY <3>2, <5>1
        <5>3. QED
          BY <5>1, <5>2
      <4>3. QED
        BY <4>1, <4>2
    <3>4. \A k \in DOMAIN list : status[list[k]] # "Destroyed"
      <4>1. ~FreedUpTo(list, Len(list))
        BY <2>2
      <4>2. QED
        BY <2>3, <4>1 DEF FreedUpTo
    <3>5. QED
      BY <3>3, <3>4 DEF FreedUpTo
  <2> HIDE DEF j, l, i
  <2>5. QED
    BY <2>1, <2>2, <2>4
<1>5. ~EraseInvalid
  BY Facts DEF EraseInvalid
<1>6. CASE Wake \/ Fire \/ Return \/ EndCheck \/ Wait \/ Elapse \/ UNCHANGED vars
  BY <1>6 DEF Wake, Fire, Return, EndCheck, Wait, Elapse, vars, Walk
<1>7. QED
  BY <1>1, <1>2, <1>3, <1>5, <1>6 DEF Next, Call

(* Main is not late for a timer that its timeout was computed for.         *)
LEMMA TameTimely ==
    ASSUME TypeInv, Walk, [Next]_vars, tame'
    PROVE  Timely'
<1> DEFINE x == timeout * Tick
<1>0. /\ now \in Nat /\ start \in Nat /\ start <= now /\ wake \in Nat
      /\ tp \in [Timers -> Nat] /\ status \in [Timers -> Statuses]
      /\ phase \in {"handle", "wait"} =>
            \A t \in Timers : status[t] = "Actived" => InTime(t, x)
      /\ phase = "wait" => now <= wake
  BY Facts DEF TypeInv, TypeOK, Walk, Timely
<1>x. x \in Nat
  <2>1. timeout \in Nat /\ Tick \in Nat
    BY Numbers DEF TypeInv, TypeOK
  <2>2. QED
    BY <2>1, Product
<1>1. ASSUME NEW t \in Timers, Set(t)
      PROVE  Timely'
  <2>1. /\ status' = [status EXCEPT ![t] = "Actived"] /\ planned' = planned \ {t}
        /\ tp' = [tp EXCEPT ![t] = now + Expire[t]] /\ phase # "wait"
        /\ UNCHANGED <<phase, start, timeout>>
    BY <1>1 DEF Set, Calling, loop
  <2>2. Expire[t] \in Nat
    BY Numbers
  <2>3. ASSUME phase = "handle", NEW u \in Timers, status'[u] = "Actived"
        PROVE  start <= tp'[u] /\ (u \in planned' => start + x <= tp'[u])
    <3>1. CASE u = t
      BY <1>0, <2>1, <2>2, <3>1
    <3>2. CASE u # t
      BY <1>0, <2>1, <2>3, <3>2 DEF InTime
    <3>3. QED
      BY <3>1, <3>2
  <2> HIDE DEF x
  <2>4. x' = x
    BY <2>1 DEF x
  <2>5. QED
    BY <2>1, <2>3, <2>4 DEF Timely, InTime, x
<1>2. ASSUME NEW t \in Timers, Stop(t) \/ Restart(t) \/ Destroy(t)
      PROVE  Timely'
  <2>1. /\ UNCHANGED <<phase, start, timeout, tp, planned>> /\ phase # "wait"
        /\ \A u \in Timers : status'[u] = "Actived" => status[u] = "Actived"
    BY <1>0, <1>2 DEF Stop, Restart, Destroy, Calling, loop, Statuses
  <2>2. QED
    BY <1>0, <2>1 DEF Timely, InTime
<1>3. CASE EndCheck
  <2>1. /\ phase' = "handle" /\ UNCHANGED <<start, tp, status>>
        /\ planned' = IF \A t \in {u \in Timers : status[u] = "Actived"} : tp[t] - start >= Tick
                      THEN {u \in Timers : status[u] = "Actived"} ELSE {}
    BY <1>3 DEF EndCheck
  <2>2. timeout' * Tick \in Nat
    <3>1. timeout' \in Nat /\ Tick \in Nat
      BY <1>3, Numbers, WaitTyped DEF EndCheck
    <3>2. QED
      BY <3>1, Product
  <2>3. ASSUME NEW t \in Timers, status[t] = "Actived"
        PROVE  /\ start <= tp[t]
               /\ t \in planned' => start + timeout' * Tick <= tp[t]
    <3>1. /\ list # <<>> /\ Head(list) \in Timers /\ status[Head(list)] = "Actived"
          /\ start < tp[Head(list)] /\ tp[Head(list)] <= tp[t]
      BY <1>3, <2>3, EndsAtFirst
    <3>2. tp[t] \in Nat /\ tp[Head(list)] \in Nat
      BY <1>0, <3>1
    <3>3. t \in planned' => start + timeout' * Tick <= tp[Head(list)]
      BY <1>3, <2>1, <3>1, WaitsForFirst
    <3> DEFINE y == timeout' * Tick
    <3>4. y \in Nat /\ (t \in planned' => start + y <= tp[Head(list)])
      BY <2>2, <3>3
    <3> HIDE DEF y
    <3>5. start <= tp[t] /\ (t \in planned' => start + y <= tp[t])
      BY <1>0, <3>1, <3>2, <3>4
    <3>6. QED
      BY <3>5 DEF y
  <2>4. \A t \in Timers : status'[t] = "Actived" =>
            start' <= tp'[t] /\ (t \in planned' => start' + timeout' * Tick <= tp'[t])
    BY <2>1, <2>3
  <2>5. QED
    BY <2>1, <2>4 DEF Timely, InTime
<1>4. CASE Wait
  <2>1. /\ phase = "handle" /\ wake' = now + x
        /\ UNCHANGED <<now, start, timeout, tp, status, planned>>
    BY <1>4 DEF Wait
  <2>2. now' <= wake'
    <3> HIDE DEF x
    <3>1. QED
      BY <1>0, <1>x, <2>1
  <2>3. QED
    BY <1>0, <2>1, <2>2 DEF Timely, InTime
<1>5. CASE Elapse
  BY <1>0, <1>5 DEF Elapse, loop, Timely, InTime
<1>6. CASE UNCHANGED vars
  BY <1>0, <1>6 DEF vars, Timely, InTime
<1>7. CASE Wake \/ Fire \/ Return
  BY <1>7 DEF Wake, Fire, Return, Timely
<1>8. ~EraseInvalid
  BY TameUnbroken DEF EraseInvalid
<1>9. QED
  BY <1>1, <1>2, <1>3, <1>4, <1>5, <1>6, <1>7, <1>8 DEF Next, Call

LEMMA TameBefore == [Next]_vars /\ tame' => tame
BY DEF Next, Call, Set, Stop, Restart, Destroy, Wake, Fire, Return, EraseInvalid,
       EndCheck, Wait, Elapse, vars

LEMMA NextIInv ==
    ASSUME IInv, [Next]_vars
    PROVE  IInv'
<1>1. TypeInv'
  BY NextTypes DEF IInv
<1>2. ASSUME tame'
      PROVE  Walk'
  <2>1. TypeInv /\ Walk
    BY <1>2, TameBefore DEF IInv
  <2>2. IteratorFirst' /\ OneEntryEach' /\ Ordered' /\ FiredWasDue'
    BY <1>2, <2>1, TameSet, TameRestart, TameStopDestroy, TameLoop DEF Next, Call
  <2>3. QED
    BY <1>2, <2>1, <2>2, TameUnbroken, TameTimely DEF Walk
<1>3. QED
  BY <1>1, <1>2 DEF IInv
-----------------------------------------------------------------------------
(* The shape of the state, for callbacks that do all the interface allows.  *)
THEOREM TimersTypes == Spec => []TypeOK
<1>1. TypeInv => TypeOK
  BY DEF TypeInv
<1>2. QED
  BY <1>1, InitTypes, NextTypes, PTL DEF Spec

(* The inductive invariant of the walk of CheckTimers (xma_timer.cpp:141-   *)
(* 149). Callbacks may do anything; as long as what they do is tame, it is  *)
(* at the head of a list that holds each armed timer once, in the order of  *)
(* the times, but for the entry of a timer its callback has armed again.    *)
THEOREM TimersInvariant == Spec => []IInv
<1>1. IInv /\ [Next]_vars => IInv'
  BY NextIInv
<1>2. QED
  BY <1>1, InitIInv, PTL DEF Spec

(* As long as callbacks are tame, erase(it) erases the entry of the timer   *)
(* whose callback has returned, and no freed timer is read.                *)
THEOREM IteratorStays == Spec => []IteratorValid
<1>1. IInv => IteratorValid
  BY Facts DEF IInv, Walk, IteratorValid
<1>2. QED
  BY <1>1, TimersInvariant, PTL

(* As long as callbacks are tame, a timer that is armed has one entry to    *)
(* fire by, any other has none.                                            *)
THEOREM OneEntryPerTimer == Spec => []FiresOncePerSet
<1>1. ASSUME TypeInv, Walk, NEW t \in Timers
      PROVE  Cardinality(Entries(t)) = IF status[t] = "Actived" THEN 1 ELSE 0
  <2>1. it = 1 /\ Once(list) /\ (status[t] = "Actived" <=> Waits(list, t))
    BY <1>1, Facts
  <2>2. Entries(t) = {i \in WaitingIn(list) : list[i] = t}
    BY <2>1 DEF Entries, WaitingIn
  <2>3. CASE Waits(list, t)
    <3>1. PICK i \in WaitingIn(list) : list[i] = t
      BY <2>3 DEF Waits
    <3>2. Entries(t) = {i}
      BY <2>1, <2>2, <3>1 DEF Once
    <3>3. QED
      BY <2>1, <2>3, <3>2, FS_Singleton
  <2>4. CASE ~Waits(list, t)
    <3>1. Entries(t) = {}
      BY <2>2, <2>4 DEF Waits
    <3>2. QED
      BY <2>1, <2>4, <3>1, FS_EmptySet
  <2>5. QED
    BY <2>3, <2>4
<1>2. IInv => FiresOncePerSet
  BY <1>1 DEF IInv, FiresOncePerSet
<1>3. QED
  BY <1>2, TimersInvariant, PTL

(* As long as callbacks are tame, CheckTimers leaves no timer behind that   *)
(* was due when it began.                                                  *)
THEOREM NoneDueIsLeft == Spec => LeavesNoneDue
<1> DEFINE Step == EndCheck /\ tame => \A t \in Timers : status[t] = "Actived" => tp[t] > start
<1>1. ASSUME TypeInv, Walk, EndCheck, NEW t \in Timers, status[t] = "Actived"
      PROVE  tp[t] > start
  <2>1. start \in Nat /\ tp \in [Timers -> Nat]
    BY <1>1, Facts
  <2>2. Head(list) \in Timers /\ start < tp[Head(list)] /\ tp[Head(list)] <= tp[t]
    BY <1>1, EndsAtFirst
  <2>3. tp[t] \in Nat /\ tp[Head(list)] \in Nat
    BY <2>1, <2>2
  <2>4. QED
    BY <2>1, <2>2, <2>3
<1>2. IInv /\ [Next]_vars => [Step]_vars
  BY <1>1 DEF IInv
<1> HIDE DEF Step
<1>3. Spec => [][Step]_vars
  BY <1>2, TimersInvariant, PTL DEF Spec
<1>4. QED
  BY <1>3 DEF LeavesNoneDue, Step

(* As long as callbacks are tame, a wait goes on past an armed timer by no   *)
(* more than what callbacks and handlers took before it, and the longest    *)
(* wait if its timeout could not be computed for that timer: it was armed   *)
(* since, or some timer was less than a millisecond away.                  *)
THEOREM WaitsAreShort == Spec => []WakesInTime
<1>1. ASSUME TypeInv, Walk, phase = "wait", NEW t \in Timers, status[t] = "Actived"
      PROVE  now <= tp[t] + Busy + (IF t \in planned THEN 0 ELSE MaxWait * Tick)
  <2> DEFINE x == timeout * Tick
             m == MaxWait * Tick
  <2>1. /\ now \in Nat /\ start \in Nat /\ wake \in Nat /\ tp[t] \in Nat /\ now <= wake
        /\ start <= tp[t] /\ (t \in planned => start + x <= tp[t])
    BY <1>1 DEF TypeInv, TypeOK, Walk, Timely, InTime
  <2>2. x \in Nat /\ m \in Nat /\ x <= m
    <3>1. timeout \in Nat /\ MaxWait \in Nat /\ Tick \in Nat /\ timeout <= MaxWait
      BY <1>1, Numbers DEF TypeInv, TypeOK
    <3>2. QED
      BY <3>1, Product, Shorter
  <2>3. Busy = wake - x - start
    BY DEF Busy
  <2> HIDE DEF x, m
  <2>4. CASE t \in planned
    BY <2>1, <2>2, <2>3, <2>4
  <2>5. CASE t \notin planned
    <3>1. now <= tp[t] + Busy + m
      BY <2>1, <2>2, <2>3
    <3>2. QED
      BY <2>5, <3>1 DEF m
  <2>6. QED
    BY <2>4, <2>5
<1>2. IInv => WakesInTime
  BY <1>1 DEF IInv, WakesInTime
<1>3. QED
  BY <1>2, TimersInvariant, PTL
=============================================================================
