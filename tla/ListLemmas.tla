------------------------------ MODULE ListLemmas ------------------------------
(***************************************************************************)
(* Facts about numbers and lists that the proofs about several components  *)
(* need: the least of a set of numbers, and what a std::list is after an    *)
(* insertion or an erasure in its middle.                                  *)
(***************************************************************************)
EXTENDS Integers, Sequences, TLAPS, FiniteSetTheorems, WellFoundedInduction, SequenceTheorems

(* A nonempty set of naturals has a least member: the finite sets of        *)
(* naturals are well-founded, and with them the intervals that begin at 0. *)
LEMMA LeastExists ==
    ASSUME NEW P \in SUBSET Nat, P # {}
    PROVE  \E k \in P : \A y \in P : k <= y
<1> DEFINE T == {0..n : n \in P}
           R == StrictSubsetOrdering(Nat)
<1>1. PICK x \in T : \A y \in T : ~ (<<y, x>> \in R)
  <2>1. \A n \in P : 0..n \in SUBSET Nat /\ IsFiniteSet(0..n)
    BY FS_Interval
  <2>2. T \subseteq FiniteSubsetsOf(Nat) /\ T # {}
    BY <2>1 DEF FiniteSubsetsOf
  <2>3. IsWellFoundedOn(R, FiniteSubsetsOf(Nat))
    BY FS_StrictSubsetOrderingWellFounded
  <2>4. QED
    BY <2>2, <2>3, WFMin
<1>2. PICK m \in P : x = 0..m
  OBVIOUS
<1>3. ASSUME NEW y \in P
      PROVE  m <= y
  <2> SUFFICES ASSUME y < m PROVE FALSE
    OBVIOUS
  <2>1. 0..y \subseteq 0..m /\ m \in 0..m /\ m \notin 0..y
    OBVIOUS
  <2>2. <<0..y, x>> \in R
    BY <1>2, <2>1 DEF StrictSubsetOrdering
  <2>3. QED
    BY <1>1, <2>2
<1>4. QED
  BY <1>3

LEMMA Elements ==
    ASSUME NEW S, NEW s \in Seq(S)
    PROVE  /\ Len(s) \in Nat /\ DOMAIN s = 1..Len(s) /\ \A i \in DOMAIN s : s[i] \in S
           /\ \A i \in 1..Len(s) : s[i] \in S
OBVIOUS

LEMMA Tails ==
    ASSUME NEW S, NEW q \in Seq(S), q # <<>>
    PROVE  /\ Tail(q) \in Seq(S) /\ Head(q) = q[1] /\ Head(q) \in S
           /\ Len(q) \in Nat \ {0} /\ Len(Tail(q)) = Len(q) - 1 /\ Len(Tail(q)) \in Nat
           /\ \A i \in 1..(Len(q) - 1) : Tail(q)[i] = q[i + 1]
OBVIOUS

LEMMA Appends ==
    ASSUME NEW S, NEW q \in Seq(S), NEW e \in S
    PROVE  /\ Append(q, e) \in Seq(S) /\ Append(q, e) # <<>>
           /\ Len(q) \in Nat /\ Len(Append(q, e)) = Len(q) + 1
           /\ Append(q, e)[Len(q) + 1] = e
           /\ \A i \in 1..Len(q) : Append(q, e)[i] = q[i]
OBVIOUS

(* r is s without its element at k, and s with x before that element.      *)
IsErased(r, s, k) ==
    /\ Len(r) = Len(s) - 1 /\ DOMAIN r = 1..(Len(s) - 1)
    /\ \A i \in 1..(k - 1) : r[i] = s[i]
    /\ \A i \in k..(Len(s) - 1) : r[i] = s[i + 1]

IsInserted(r, s, k, x) ==
    /\ Len(r) = Len(s) + 1 /\ DOMAIN r = 1..(Len(s) + 1) /\ r[k] = x
    /\ \A i \in 1..(k - 1) : r[i] = s[i]
    /\ \A i \in k..Len(s) : r[i + 1] = s[i]

LEMMA Erasing ==
    ASSUME NEW S, NEW s \in Seq(S), NEW k \in 1..Len(s),
           NEW r, r = SubSeq(s, 1, k - 1) \o SubSeq(s, k + 1, Len(s))
    PROVE  r \in Seq(S) /\ IsErased(r, s, k)
<1> DEFINE a == SubSeq(s, 1, k - 1)
           b == SubSeq(s, k + 1, Len(s))
<1>0. Len(s) \in Nat /\ \A i \in 1..Len(s) : s[i] \in S
  BY Elements
<1>1. a \in Seq(S) /\ Len(a) = k - 1 /\ \A i \in 1..(k - 1) : a[i] = s[i]
  <2>1. k - 1 \in Int /\ 1 \in Int /\ \A i \in 1..(k - 1) : s[i] \in S
    BY <1>0
  <2>2. /\ a \in Seq(S) /\ Len(a) = IF 1 <= k - 1 THEN (k - 1) - 1 + 1 ELSE 0
        /\ \A i \in 1..((k - 1) - 1 + 1) : a[i] = s[1 + i - 1]
    BY <2>1, SubSeqProperties
  <2> HIDE DEF a
  <2>3. QED
    BY <1>0, <2>2
<1>2. b \in Seq(S) /\ Len(b) = Len(s) - k /\ \A i \in 1..(Len(s) - k) : b[i] = s[k + i]
  <2>1. k + 1 \in Int /\ Len(s) \in Int /\ \A i \in (k + 1)..Len(s) : s[i] \in S
    BY <1>0
  <2>2. /\ b \in Seq(S) /\ Len(b) = IF k + 1 <= Len(s) THEN Len(s) - (k + 1) + 1 ELSE 0
        /\ \A i \in 1..(Len(s) - (k + 1) + 1) : b[i] = s[(k + 1) + i - 1]
    BY <2>1, SubSeqProperties
  <2> HIDE DEF b
  <2>3. QED
    BY <1>0, <2>2
<1>r. r = a \o b
  OBVIOUS
<1> HIDE DEF a, b
<1>3. /\ a \o b \in Seq(S) /\ Len(a \o b) = Len(s) - 1
      /\ \A i \in 1..(Len(s) - 1) : (a \o b)[i] = IF i <= k - 1 THEN a[i] ELSE b[i - (k - 1)]
  <2>1. /\ a \o b \in Seq(S) /\ Len(a \o b) = Len(a) + Len(b)
        /\ \A i \in 1..(Len(a) + Len(b)) :
              (a \o b)[i] = IF i <= Len(a) THEN a[i] ELSE b[i - Len(a)]
    BY <1>1, <1>2, ConcatProperties
  <2>2. Len(a) + Len(b) = Len(s) - 1
    BY <1>0, <1>1, <1>2
  <2>3. QED
    BY <1>1, <2>1, <2>2
<1>4. \A i \in 1..(k - 1) : (a \o b)[i] = s[i]
  BY <1>0, <1>1, <1>3
<1>5. ASSUME NEW i \in k..(Len(s) - 1)
      PROVE  (a \o b)[i] = s[i + 1]
  <2>1. /\ i - (k - 1) \in 1..(Len(s) - k) /\ k + (i - (k - 1)) = i + 1
        /\ i \in 1..(Len(s) - 1) /\ ~(i <= k - 1)
    BY <1>0
  <2>2. QED
    BY <1>2, <1>3, <2>1
<1>6. DOMAIN (a \o b) = 1..(Len(s) - 1)
  BY <1>3
<1>7. QED
  BY <1>r, <1>3, <1>4, <1>5, <1>6 DEF IsErased

LEMMA Inserting ==
    ASSUME NEW S, NEW s \in Seq(S), NEW x \in S, NEW k \in 1..(Len(s) + 1),
           NEW r, r = SubSeq(s, 1, k - 1) \o <<x>> \o SubSeq(s, k, Len(s))
    PROVE  r \in Seq(S) /\ IsInserted(r, s, k, x)
<1> DEFINE a == SubSeq(s, 1, k - 1)
           b == SubSeq(s, k, Len(s))
           e == a \o <<x>>
<1>0. Len(s) \in Nat /\ \A i \in 1..Len(s) : s[i] \in S
  BY Elements
<1>1. a \in Seq(S) /\ Len(a) = k - 1 /\ \A i \in 1..(k - 1) : a[i] = s[i]
  <2>1. k - 1 \in Int /\ 1 \in Int /\ \A i \in 1..(k - 1) : s[i] \in S
    BY <1>0
  <2>2. /\ a \in Seq(S) /\ Len(a) = IF 1 <= k - 1 THEN (k - 1) - 1 + 1 ELSE 0
        /\ \A i \in 1..((k - 1) - 1 + 1) : a[i] = s[1 + i - 1]
    BY <2>1, SubSeqProperties
  <2> HIDE DEF a
  <2>3. QED
    BY <1>0, <2>2
<1>2. /\ b \in Seq(S) /\ Len(b) = Len(s) - (k - 1)
      /\ \A i \in 1..(Len(s) - (k - 1)) : b[i] = s[(k - 1) + i]
  <2>1. k \in Int /\ Len(s) \in Int /\ \A i \in k..Len(s) : s[i] \in S
    BY <1>0
  <2>2. /\ b \in Seq(S) /\ Len(b) = IF k <= Len(s) THEN Len(s) - k + 1 ELSE 0
        /\ \A i \in 1..(Len(s) - k + 1) : b[i] = s[k + i - 1]
    BY <2>1, SubSeqProperties
  <2> HIDE DEF b
  <2>3. QED
    BY <1>0, <2>2
<1>r. r = e \o b
  OBVIOUS
<1> HIDE DEF a, b
<1>3. e \in Seq(S) /\ Len(e) = k /\ e[k] = x /\ \A i \in 1..(k - 1) : e[i] = s[i]
  <2>1. <<x>> \in Seq(S) /\ Len(<<x>>) = 1 /\ <<x>>[1] = x
    OBVIOUS
  <2>2. /\ e \in Seq(S) /\ Len(e) = Len(a) + 1
        /\ \A i \in 1..(Len(a) + 1) : e[i] = IF i <= Len(a) THEN a[i] ELSE <<x>>[i - Len(a)]
    BY <1>1, <2>1, ConcatProperties
  <2> HIDE DEF e
  <2>3. e[k] = x
    <3>1. k \in 1..(Len(a) + 1) /\ ~(k <= Len(a)) /\ k - Len(a) = 1
      BY <1>0, <1>1
    <3>2. QED
      BY <2>1, <2>2, <3>1
  <2>4. QED
    BY <1>0, <1>1, <2>2, <2>3
<1> HIDE DEF e
<1>4. /\ e \o b \in Seq(S) /\ Len(e \o b) = Len(s) + 1
      /\ \A i \in 1..(Len(s) + 1) : (e \o b)[i] = IF i <= k THEN e[i] ELSE b[i - k]
  <2>1. /\ e \o b \in Seq(S) /\ Len(e \o b) = Len(e) + Len(b)
        /\ \A i \in 1..(Len(e) + Len(b)) :
              (e \o b)[i] = IF i <= Len(e) THEN e[i] ELSE b[i - Len(e)]
    BY <1>2, <1>3, ConcatProperties
  <2>2. Len(e) + Len(b) = Len(s) + 1
    BY <1>0, <1>2, <1>3
  <2>3. QED
    BY <1>3, <2>1, <2>2
<1>5. (e \o b)[k] = x /\ \A i \in 1..(k - 1) : (e \o b)[i] = s[i]
  BY <1>0, <1>3, <1>4
<1>6. ASSUME NEW i \in k..Len(s)
      PROVE  (e \o b)[i + 1] = s[i]
  <2>1. /\ i + 1 \in 1..(Len(s) + 1) /\ ~(i + 1 <= k)
        /\ (i + 1) - k \in 1..(Len(s) - (k - 1)) /\ (k - 1) + ((i + 1) - k) = i
    BY <1>0
  <2>2. QED
    BY <1>2, <1>4, <2>1
<1>7. DOMAIN (e \o b) = 1..(Len(s) + 1)
  BY <1>4
<1>8. QED
  BY <1>r, <1>4, <1>5, <1>6, <1>7 DEF IsInserted
=============================================================================
