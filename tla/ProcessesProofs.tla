---------------------------- MODULE ProcessesProofs ----------------------------
(***************************************************************************)
(* Proofs about Processes, for any number of processes, messages and       *)
(* routes, and any capacity of the pipes.                                  *)
(***************************************************************************)
EXTENDS Processes, ListLemmas

(* Deleted by somebody, or forgotten.                                      *)
Gone(m) == freed[m] # 0 \/ m \in lost
GoneNext(m) == freed'[m] # 0 \/ m \in lost'

Counted ==
    /\ \A m \in Msgs : freed[m] \in {0, 1} /\ (m \in lost => freed[m] = 0)
    /\ \A m \in Msgs : m > made => ~Gone(m)

(* A thread writes the last message it has made.                           *)
PostsOwn == \A s \in Senders : post[s] # 0 =>
    /\ post[s] \in 1..made /\ from[post[s]] = s /\ to[post[s]] \in Procs
    /\ ~Gone(post[s])
    /\ \A k \in 1..made : from[k] = s => k <= post[s]

HandlersOwn == \A p \in Procs : doing[p] # 0 =>
    /\ doing[p] \in 1..made /\ to[doing[p]] = p /\ ~Gone(doing[p])
    /\ \A s \in Senders : post[s] # doing[p]

PipesOwn == \A p \in Procs : \A i \in 1..Len(pipe[p]) :
    /\ pipe[p][i] \in 1..made /\ to[pipe[p][i]] = p /\ ~Gone(pipe[p][i])
    /\ \A s \in Senders : post[s] # pipe[p][i]
    /\ doing[p] # pipe[p][i]
    /\ \A j \in 1..Len(pipe[p]) : pipe[p][j] = pipe[p][i] => j = i

DoneFreed == \A p \in Procs : \A i \in 1..Len(done[p]) :
    done[p][i] \in 1..made /\ freed[done[p][i]] # 0

(* Every message that was made is somewhere.                               *)
Piped(m) == \E p \in Procs : \E i \in 1..Len(pipe[p]) : pipe[p][i] = m

Somewhere(m) ==
    \/ Gone(m) \/ Piped(m)
    \/ \E s \in Senders : post[s] = m
    \/ \E p \in Procs : doing[p] = m

Known == \A m \in 1..made : Somewhere(m)

Owners == Counted /\ PostsOwn /\ HandlersOwn /\ PipesOwn /\ DoneFreed

IInv == TypeOK /\ Owners /\ (over # "aborted" => Known)
-----------------------------------------------------------------------------
LEMMA Numbers ==
    /\ MaxMsgs \in Nat /\ PipeCap \in Nat \ {0} /\ Msgs \subseteq 0..MaxMsgs
    /\ 0 \notin Msgs /\ 0 \in 0..MaxMsgs
    /\ Shell \in Senders /\ Procs \subseteq Senders
BY ProcessesAssumption DEF Msgs, Senders

LEMMA MadeAreMsgs ==
    ASSUME TypeOK
    PROVE  1..made \subseteq Msgs
BY Numbers DEF TypeOK, Msgs
-----------------------------------------------------------------------------
(* The type invariant.                                                     *)

LEMMA TypesInit ==
    ASSUME Init
    PROVE  TypeOK
<1>1. \A S : <<>> \in Seq(S) /\ Len(<<>>) = 0
  OBVIOUS
<1>2. pipe \in [Procs -> Seq(Msgs)] /\ \A p \in Procs : Len(pipe[p]) <= PipeCap
  BY <1>1, Numbers DEF Init
<1>3. done \in [Procs -> Seq(Msgs)]
  BY <1>1 DEF Init
<1>4. QED
  BY <1>2, <1>3, Numbers DEF Init, TypeOK, Phases, Senders

LEMMA TypesQuiet ==
    ASSUME TypeOK, UNCHANGED msgvars,
           phase' \in [Procs -> Phases], running' \in [Procs -> BOOLEAN],
           deaf' \subseteq Procs, quitting' \in BOOLEAN,
           over' \in {"no", "aborted", "terminated"}
    PROVE  TypeOK'
BY DEF TypeOK, msgvars

(* What Begin leaves in the pipe.                                          *)
LEMMA Popped ==
    ASSUME TypeOK, NEW p \in Procs, Begin(p)
    PROVE  /\ doing[p] = 0 /\ Len(pipe[p]) \in Nat \ {0}
           /\ pipe[p][1] \in Msgs /\ doing' = [doing EXCEPT ![p] = pipe[p][1]]
           /\ pipe' \in [Procs -> Seq(Msgs)]
           /\ Len(pipe'[p]) = Len(pipe[p]) - 1
           /\ \A i \in 1..(Len(pipe[p]) - 1) : pipe'[p][i] = pipe[p][i + 1]
           /\ \A q \in Procs : q # p => pipe'[q] = pipe[q]
<1>1. pipe[p] \in Seq(Msgs) /\ pipe[p] # <<>> /\ pipe \in [Procs -> Seq(Msgs)]
  BY DEF TypeOK, Begin, Readable
<1>2. /\ Tail(pipe[p]) \in Seq(Msgs) /\ Head(pipe[p]) = pipe[p][1] /\ Head(pipe[p]) \in Msgs
      /\ Len(pipe[p]) \in Nat \ {0} /\ Len(Tail(pipe[p])) = Len(pipe[p]) - 1
      /\ \A i \in 1..(Len(pipe[p]) - 1) : Tail(pipe[p])[i] = pipe[p][i + 1]
  BY <1>1, Tails
<1>3. /\ pipe' = [pipe EXCEPT ![p] = Tail(@)]
      /\ doing[p] = 0 /\ doing' = [doing EXCEPT ![p] = Head(pipe[p])]
  BY DEF Begin, InLoop
<1>4. pipe'[p] = Tail(pipe[p]) /\ \A q \in Procs : q # p => pipe'[q] = pipe[q]
  BY <1>1, <1>3
<1>5. pipe' \in [Procs -> Seq(Msgs)]
  BY <1>1, <1>2, <1>3
<1>6. QED
  BY <1>2, <1>3, <1>4, <1>5

LEMMA TypesBegin ==
    ASSUME TypeOK, NEW p \in Procs, Begin(p)
    PROVE  TypeOK'
<1>1. \A q \in Procs : Len(pipe[q]) <= PipeCap /\ Len(pipe[q]) \in Nat
  BY Elements DEF TypeOK
<1>2. \A q \in Procs : Len(pipe'[q]) <= PipeCap
  <2>1. Len(pipe'[p]) <= PipeCap
    BY <1>1, Popped, Numbers
  <2>2. QED
    BY <1>1, <2>1, Popped
<1>3. doing' \in [Procs -> 0..MaxMsgs] /\ pipe' \in [Procs -> Seq(Msgs)]
  BY Popped, Numbers DEF TypeOK
<1>4. QED
  BY <1>2, <1>3 DEF TypeOK, Begin, loopvars

(* What Finish adds to what is done.                                       *)
LEMMA Executed ==
    ASSUME TypeOK, NEW p \in Procs, Finish(p)
    PROVE  /\ doing[p] \in Msgs /\ doing' = [doing EXCEPT ![p] = 0]
           /\ freed' = [freed EXCEPT ![doing[p]] = @ + 1]
           /\ done' \in [Procs -> Seq(Msgs)]
           /\ Len(done[p]) \in Nat /\ Len(done'[p]) = Len(done[p]) + 1
           /\ done'[p][Len(done[p]) + 1] = doing[p]
           /\ \A i \in 1..Len(done[p]) : done'[p][i] = done[p][i]
           /\ \A q \in Procs : q # p => done'[q] = done[q]
<1>1. doing[p] \in Msgs /\ done[p] \in Seq(Msgs) /\ done \in [Procs -> Seq(Msgs)]
  BY Numbers DEF TypeOK, Finish, Msgs
<1>2. /\ Append(done[p], doing[p]) \in Seq(Msgs) /\ Len(done[p]) \in Nat
      /\ Len(Append(done[p], doing[p])) = Len(done[p]) + 1
      /\ Append(done[p], doing[p])[Len(done[p]) + 1] = doing[p]
      /\ \A i \in 1..Len(done[p]) : Append(done[p], doing[p])[i] = done[p][i]
  BY <1>1, Appends
<1>3. /\ done' = [done EXCEPT ![p] = Append(@, doing[p])]
      /\ freed' = [freed EXCEPT ![doing[p]] = @ + 1]
      /\ doing' = [doing EXCEPT ![p] = 0]
  BY DEF Finish
<1>4. done'[p] = Append(done[p], doing[p]) /\ \A q \in Procs : q # p => done'[q] = done[q]
  BY <1>1, <1>3
<1>5. done' \in [Procs -> Seq(Msgs)]
  BY <1>1, <1>2, <1>3
<1>6. QED
  BY <1>1, <1>2, <1>3, <1>4, <1>5

LEMMA FreedOnce ==
    ASSUME TypeOK, NEW m \in Msgs, freed' = [freed EXCEPT ![m] = @ + 1]
    PROVE  /\ freed' \in [Msgs -> Nat] /\ freed'[m] = freed[m] + 1 /\ freed[m] \in Nat
           /\ \A k \in Msgs : k # m => freed'[k] = freed[k]
<1>1. freed \in [Msgs -> Nat]
  BY DEF TypeOK
<1>2. freed[m] \in Nat /\ freed[m] + 1 \in Nat
  BY <1>1
<1>3. QED
  BY <1>1, <1>2

LEMMA TypesFinish ==
    ASSUME TypeOK, NEW p \in Procs, Finish(p)
    PROVE  TypeOK'
<1>1. doing' \in [Procs -> 0..MaxMsgs] /\ freed' \in [Msgs -> Nat]
  <2>1. doing' \in [Procs -> 0..MaxMsgs]
    <3>1. doing \in [Procs -> 0..MaxMsgs] /\ doing' = [doing EXCEPT ![p] = 0]
      BY Executed DEF TypeOK
    <3>2. QED
      BY <3>1, Numbers
  <2>2. QED
    BY <2>1, Executed, FreedOnce
<1>2. QED
  BY <1>1, Executed DEF TypeOK, Finish, loopvars

LEMMA TypesFailed ==
    ASSUME TypeOK, NEW m \in Msgs, Failed(m)
    PROVE  freed' \in [Msgs -> Nat] /\ lost' \subseteq Msgs
<1>1. CASE freed' = [freed EXCEPT ![m] = @ + 1] /\ UNCHANGED lost
  BY <1>1, FreedOnce DEF TypeOK
<1>2. CASE lost' = lost \cup {m} /\ UNCHANGED freed
  BY <1>2 DEF TypeOK
<1>3. QED
  BY <1>1, <1>2 DEF Failed

LEMMA TypesSend ==
    ASSUME TypeOK, NEW s \in Senders, NEW r \in Procs \cup {Unknown}, Send(s, r)
    PROVE  TypeOK' /\ made' = made + 1 /\ made' \in Msgs
<1>1. made' = made + 1 /\ made' \in Msgs /\ made' \in 0..MaxMsgs
  BY Numbers DEF TypeOK, Send, Msgs
<1>2. from' \in [Msgs -> Senders] /\ to' \in [Msgs -> Procs \cup {Unknown}]
  BY <1>1 DEF TypeOK, Send
<1>3. post' \in [Senders -> 0..MaxMsgs] /\ freed' \in [Msgs -> Nat] /\ lost' \subseteq Msgs
  BY <1>1, TypesFailed DEF TypeOK, Send
<1>4. QED
  BY <1>1, <1>2, <1>3 DEF TypeOK, Send, loopvars

(* What a write puts into a pipe.                                          *)
LEMMA Pushed ==
    ASSUME TypeOK, NEW m \in Msgs, NEW r \in Procs, HasRoom(r),
           pipe' = [pipe EXCEPT ![r] = Queued(@, m)]
    PROVE  /\ pipe' \in [Procs -> Seq(Msgs)] /\ \A q \in Procs : Len(pipe'[q]) <= PipeCap
           /\ pipe'[r] = Append(pipe[r], m)
           /\ Len(pipe[r]) \in Nat /\ Len(pipe'[r]) = Len(pipe[r]) + 1
           /\ pipe'[r][Len(pipe[r]) + 1] = m
           /\ \A i \in 1..Len(pipe[r]) : pipe'[r][i] = pipe[r][i]
           /\ \A q \in Procs : q # r => pipe'[q] = pipe[q]
<1>1. pipe[r] \in Seq(Msgs) /\ pipe \in [Procs -> Seq(Msgs)]
  BY DEF TypeOK
<1>2. /\ Append(pipe[r], m) \in Seq(Msgs) /\ Len(pipe[r]) \in Nat
      /\ Len(Append(pipe[r], m)) = Len(pipe[r]) + 1
      /\ Append(pipe[r], m)[Len(pipe[r]) + 1] = m
      /\ \A i \in 1..Len(pipe[r]) : Append(pipe[r], m)[i] = pipe[r][i]
  BY <1>1, Appends
<1>3. pipe'[r] = Append(pipe[r], m) /\ \A q \in Procs : q # r => pipe'[q] = pipe[q]
  BY <1>1 DEF Queued
<1>4. pipe' \in [Procs -> Seq(Msgs)]
  BY <1>1, <1>2 DEF Queued
<1>5. Len(pipe'[r]) <= PipeCap
  BY <1>2, <1>3, Numbers DEF HasRoom
<1>6. \A q \in Procs : Len(pipe'[q]) <= PipeCap
  BY <1>3, <1>5 DEF TypeOK
<1>7. QED
  BY <1>2, <1>3, <1>4, <1>6

LEMMA TypesWrite ==
    ASSUME TypeOK, NEW s \in Senders, Write(s), post[s] # 0 => to[post[s]] \in Procs
    PROVE  TypeOK'
<1> DEFINE m == post[s]
           r == to[m]
<1>1. m \in Msgs /\ r \in Procs
  BY Numbers DEF TypeOK, Write, Msgs
<1>2. post' \in [Senders -> 0..MaxMsgs]
  BY Numbers DEF TypeOK, Write
<1>3. /\ pipe' \in [Procs -> Seq(Msgs)] /\ \A q \in Procs : Len(pipe'[q]) <= PipeCap
      /\ freed' \in [Msgs -> Nat] /\ lost' \subseteq Msgs
      /\ over' \in {"no", "aborted", "terminated"}
  <2>1. CASE over' = "aborted" /\ UNCHANGED <<pipe, freed, lost>>
    BY <2>1 DEF TypeOK
  <2>2. CASE Failed(m) /\ UNCHANGED <<pipe, over>>
    BY <1>1, <2>2, TypesFailed DEF TypeOK
  <2>3. CASE HasRoom(r) /\ pipe' = [pipe EXCEPT ![r] = Queued(@, m)] /\ UNCHANGED <<freed, lost, over>>
    BY <1>1, <2>3, Pushed DEF TypeOK
  <2>4. QED
    BY <2>1, <2>2, <2>3 DEF Write
<1>4. QED
  BY <1>2, <1>3 DEF TypeOK, Write, loopvars
-----------------------------------------------------------------------------
(* The owners of messages.                                                 *)

LEMMA OwnersQuiet ==
    ASSUME IInv, UNCHANGED msgvars, over' # "aborted" => over # "aborted"
    PROVE  Owners' /\ (over' # "aborted" => Known')
BY DEF IInv, Owners, Counted, PostsOwn, HandlersOwn, PipesOwn, DoneFreed, Known, Somewhere,
       Piped, Gone, msgvars

(* Begin moves the first message of the pipe to the handler.               *)
LEMMA OwnersBegin ==
    ASSUME IInv, TypeOK', NEW p \in Procs, Begin(p)
    PROVE  Owners' /\ Known'
<1> DEFINE m == pipe[p][1]
           n == Len(pipe[p])
<1>0. /\ UNCHANGED <<post, made, from, to, freed, lost, done, over>> /\ over = "no"
      /\ doing' = [doing EXCEPT ![p] = m] /\ doing[p] = 0
      /\ n \in Nat \ {0} /\ Len(pipe'[p]) = n - 1
      /\ \A i \in 1..(n - 1) : pipe'[p][i] = pipe[p][i + 1]
      /\ \A q \in Procs : q # p => pipe'[q] = pipe[q]
      /\ doing \in [Procs -> 0..MaxMsgs]
  BY Popped DEF IInv, Begin, InLoop, TypeOK
<1>1. doing'[p] = m /\ \A q \in Procs : q # p => doing'[q] = doing[q]
  BY <1>0
<1>2. \A k : Gone(k)' <=> Gone(k)
  BY <1>0 DEF Gone
<1>3. /\ m \in 1..made /\ to[m] = p /\ ~Gone(m) /\ \A s \in Senders : post[s] # m
      /\ \A j \in 1..n : pipe[p][j] = m => j = 1
  BY <1>0 DEF IInv, Owners, PipesOwn
<1>4. Counted' /\ PostsOwn' /\ DoneFreed'
  BY <1>0, <1>2 DEF IInv, Owners, Counted, PostsOwn, DoneFreed
<1>5. HandlersOwn'
  BY <1>0, <1>1, <1>2, <1>3 DEF IInv, Owners, HandlersOwn
<1>6. PipesOwn'
  <2> SUFFICES ASSUME NEW q \in Procs, NEW i \in 1..Len(pipe'[q])
               PROVE  /\ pipe'[q][i] \in 1..made /\ to[pipe'[q][i]] = q /\ ~Gone(pipe'[q][i])
                      /\ \A s \in Senders : post[s] # pipe'[q][i]
                      /\ doing'[q] # pipe'[q][i]
                      /\ \A j \in 1..Len(pipe'[q]) : pipe'[q][j] = pipe'[q][i] => j = i
    BY <1>0, <1>2 DEF PipesOwn
  <2>1. CASE q # p
    BY <1>0, <1>1, <2>1 DEF IInv, Owners, PipesOwn
  <2>2. CASE q = p
    <3>1. i \in 1..(n - 1) /\ i + 1 \in 1..n /\ i + 1 # 1 /\ pipe'[p][i] = pipe[p][i + 1]
      BY <1>0, <2>2
    <3>2. /\ pipe[p][i + 1] \in 1..made /\ to[pipe[p][i + 1]] = p /\ ~Gone(pipe[p][i + 1])
          /\ \A s \in Senders : post[s] # pipe[p][i + 1]
      BY <3>1 DEF IInv, Owners, PipesOwn
    <3>3. doing'[p] # pipe[p][i + 1]
      BY <1>1, <1>3, <3>1
    <3>4. ASSUME NEW j \in 1..(n - 1), pipe'[p][j] = pipe'[p][i] PROVE j = i
      <4>1. j + 1 \in 1..n /\ pipe[p][j + 1] = pipe[p][i + 1]
        BY <1>0, <3>1, <3>4
      <4>2. j + 1 = i + 1
        BY <3>1, <4>1 DEF IInv, Owners, PipesOwn
      <4>3. QED
        BY <1>0, <3>1, <4>2
    <3>5. QED
      BY <1>0, <2>2, <3>1, <3>2, <3>3, <3>4
  <2>3. QED
    BY <2>1, <2>2
<1>7. Known'
  <2> SUFFICES ASSUME NEW k \in 1..made PROVE Somewhere(k)'
    BY <1>0 DEF Known
  <2>1. Somewhere(k)
    BY <1>0 DEF IInv, Known
  <2>2. CASE Gone(k) \/ \E s \in Senders : post[s] = k
    BY <1>0, <1>2, <2>2 DEF Somewhere
  <2>3. ASSUME NEW q \in Procs, doing[q] = k PROVE Somewhere(k)'
    <3>1. doing'[q] = k
      BY <1>0, <1>1, <2>3
    <3>2. QED
      BY <3>1 DEF Somewhere
  <2>4. ASSUME NEW q \in Procs, NEW i \in 1..Len(pipe[q]), pipe[q][i] = k PROVE Somewhere(k)'
    <3>1. CASE q # p
      BY <1>0, <2>4, <3>1 DEF Somewhere, Piped
    <3>2. CASE q = p /\ i = 1
      BY <1>1, <2>4, <3>2 DEF Somewhere
    <3>3. CASE q = p /\ i # 1
      <4>1. i - 1 \in 1..(n - 1) /\ pipe'[p][i - 1] = pipe[p][(i - 1) + 1] /\ (i - 1) + 1 = i
        BY <1>0, <3>3
      <4>2. i - 1 \in 1..Len(pipe'[p]) /\ pipe'[p][i - 1] = k
        BY <1>0, <2>4, <3>3, <4>1
      <4>3. QED
        BY <4>2 DEF Somewhere, Piped
    <3>4. QED
      BY <3>1, <3>2, <3>3
  <2>5. QED
    BY <2>1, <2>2, <2>3, <2>4 DEF Somewhere, Piped
<1>8. QED
  BY <1>4, <1>5, <1>6, <1>7 DEF Owners

(* Finish deletes the message.                                             *)
LEMMA OwnersFinish ==
    ASSUME IInv, TypeOK', NEW p \in Procs, Finish(p)
    PROVE  Owners' /\ Known'
<1> DEFINE m == doing[p]
<1>0. /\ UNCHANGED <<pipe, post, made, from, to, lost, over>> /\ over = "no"
      /\ m # 0 /\ m \in Msgs /\ doing' = [doing EXCEPT ![p] = 0]
      /\ freed' = [freed EXCEPT ![m] = @ + 1]
      /\ doing \in [Procs -> 0..MaxMsgs] /\ TypeOK
  BY Executed DEF IInv, Finish, TypeOK
<1>1. doing'[p] = 0 /\ \A q \in Procs : q # p => doing'[q] = doing[q]
  BY <1>0
<1>2. m \in 1..made /\ to[m] = p /\ ~Gone(m) /\ \A s \in Senders : post[s] # m
  BY <1>0 DEF IInv, Owners, HandlersOwn, Gone, GoneNext
<1>3. freed[m] = 0 /\ m \notin lost /\ freed'[m] = 1 /\ \A k \in Msgs : k # m => freed'[k] = freed[k]
  <2>1. freed'[m] = freed[m] + 1 /\ \A k \in Msgs : k # m => freed'[k] = freed[k]
    BY <1>0, FreedOnce
  <2>2. QED
    BY <1>2, <2>1 DEF Gone, GoneNext
<1>4. 1..made \subseteq Msgs
  BY <1>0, MadeAreMsgs
<1>5. /\ \A k \in Msgs : k # m => (GoneNext(k) <=> Gone(k))
      /\ GoneNext(m)
  BY <1>0, <1>3 DEF Gone, GoneNext
<1>6. Counted'
  <2> SUFFICES ASSUME NEW k \in Msgs
               PROVE  /\ freed'[k] \in {0, 1} /\ (k \in lost' => freed'[k] = 0)
                      /\ k > made' => ~GoneNext(k)
    BY DEF Counted, Gone, GoneNext
  <2>1. /\ freed[k] \in {0, 1} /\ (k \in lost => freed[k] = 0)
        /\ k > made => ~Gone(k)
    BY DEF IInv, Owners, Counted
  <2>2. k \in Nat /\ made \in Nat
    BY DEF IInv, TypeOK, Msgs
  <2>3. CASE k = m
    BY <1>0, <1>2, <1>3, <1>5, <2>2, <2>3
  <2>4. CASE k # m
    BY <1>0, <1>2, <1>3, <1>5, <2>1, <2>2, <2>4
  <2>5. QED
    BY <2>3, <2>4
<1>7. PostsOwn'
  BY <1>0, <1>2, <1>4, <1>5 DEF IInv, Owners, PostsOwn, Gone, GoneNext
<1>8. HandlersOwn'
  BY <1>0, <1>1, <1>2, <1>4, <1>5 DEF IInv, Owners, HandlersOwn, Gone, GoneNext
<1>9. PipesOwn'
  <2> SUFFICES ASSUME NEW q \in Procs, NEW i \in 1..Len(pipe[q])
               PROVE  ~GoneNext(pipe[q][i]) /\ doing'[q] # pipe[q][i]
    BY <1>0 DEF IInv, Owners, PipesOwn, Gone, GoneNext
  <2>1. /\ pipe[q][i] \in 1..made /\ to[pipe[q][i]] = q /\ ~Gone(pipe[q][i])
        /\ doing[q] # pipe[q][i]
    BY DEF IInv, Owners, PipesOwn, Gone, GoneNext
  <2>2. pipe[q][i] # m
    BY <1>2, <2>1
  <2>3. pipe[q][i] \in Msgs /\ pipe[q][i] # 0
    BY <1>4, <2>1
  <2>4. QED
    BY <1>1, <1>5, <2>1, <2>2, <2>3
<1>10. DoneFreed'
  <2> SUFFICES ASSUME NEW q \in Procs, NEW i \in 1..Len(done'[q])
               PROVE  done'[q][i] \in 1..made /\ freed'[done'[q][i]] # 0
    BY <1>0 DEF DoneFreed
  <2>1. CASE q = p /\ i = Len(done[p]) + 1
    BY <1>0, <1>2, <1>3, <2>1, Executed
  <2>2. CASE q # p \/ i # Len(done[p]) + 1
    <3>1. i \in 1..Len(done[q]) /\ done'[q][i] = done[q][i]
      <4>1. CASE q # p
        BY <1>0, <4>1, Executed
      <4>2. CASE q = p /\ i # Len(done[p]) + 1
        <5>1. Len(done[p]) \in Nat /\ Len(done'[p]) = Len(done[p]) + 1
          BY <1>0, Executed
        <5>2. i \in 1..Len(done[p])
          BY <4>2, <5>1
        <5>3. QED
          BY <1>0, <4>2, <5>2, Executed
      <4>3. QED
        BY <2>2, <4>1, <4>2
    <3>2. done[q][i] \in 1..made /\ freed[done[q][i]] # 0
      BY <3>1 DEF IInv, Owners, DoneFreed
    <3>3. done[q][i] # m /\ done[q][i] \in Msgs
      BY <1>3, <1>4, <3>2
    <3>4. QED
      BY <1>3, <3>1, <3>2, <3>3
  <2>3. QED
    BY <2>1, <2>2
<1>11. Known'
  <2> SUFFICES ASSUME NEW k \in 1..made PROVE Somewhere(k)'
    BY <1>0 DEF Known
  <2>1. CASE k = m
    BY <1>5, <2>1 DEF Somewhere, Gone, GoneNext
  <2>2. CASE k # m
    <3>1. Somewhere(k) /\ (GoneNext(k) <=> Gone(k))
      BY <1>0, <1>4, <1>5, <2>2 DEF IInv, Known
    <3>2. \A q \in Procs : doing[q] = k => doing'[q] = k
      BY <1>1, <2>2
    <3>3. Piped(k)' <=> Piped(k)
      BY <1>0 DEF Piped
    <3>4. QED
      BY <1>0, <3>1, <3>2, <3>3 DEF Somewhere, Gone, GoneNext
  <2>3. QED
    BY <2>1, <2>2
<1>12. QED
  BY <1>6, <1>7, <1>8, <1>9, <1>10, <1>11 DEF Owners

(* Send makes a new message, which its sender holds, unless nobody knows   *)
(* the receiver.                                                           *)
LEMMA OwnersSend ==
    ASSUME IInv, TypeOK', NEW s \in Senders, NEW r \in Procs \cup {Unknown}, Send(s, r)
    PROVE  Owners' /\ Known'
<1> DEFINE m == made + 1
<1>0. /\ UNCHANGED <<pipe, doing, done, over>> /\ over = "no" /\ post[s] = 0
      /\ made' = m /\ m \in Msgs /\ TypeOK /\ made \in Nat
      /\ from' = [from EXCEPT ![m] = s] /\ to' = [to EXCEPT ![m] = r]
  BY TypesSend DEF IInv, Send, TypeOK
<1>1. 1..made \subseteq Msgs /\ 1..made' = 1..made \cup {m} /\ m \notin 1..made
  BY <1>0, MadeAreMsgs
<1>2. /\ from'[m] = s /\ to'[m] = r
      /\ \A k \in 1..made : from'[k] = from[k] /\ to'[k] = to[k]
  BY <1>0, <1>1 DEF TypeOK
<1>3. ~Gone(m) /\ freed[m] = 0 /\ m \notin lost
  BY <1>0 DEF IInv, Owners, Counted, Gone, GoneNext
<1>4. /\ \A k \in Msgs : k # m => (GoneNext(k) <=> Gone(k)) /\ freed'[k] = freed[k]
                              /\ (k \in lost' <=> k \in lost)
      /\ freed'[m] \in {0, 1} /\ (m \in lost' => freed'[m] = 0)
      /\ r = Unknown => GoneNext(m)
      /\ r # Unknown => ~GoneNext(m)
  <2>1. CASE r = Unknown /\ freed' = [freed EXCEPT ![m] = @ + 1] /\ UNCHANGED lost
    <3>1. freed'[m] = freed[m] + 1 /\ \A k \in Msgs : k # m => freed'[k] = freed[k]
      BY <1>0, <2>1, FreedOnce
    <3>2. freed'[m] = 1
      BY <1>3, <3>1
    <3>3. QED
      BY <1>3, <2>1, <3>1, <3>2 DEF Gone, GoneNext
  <2>2. CASE r = Unknown /\ lost' = lost \cup {m} /\ UNCHANGED freed
    BY <1>0, <1>3, <2>2 DEF Gone, GoneNext
  <2>3. CASE r # Unknown /\ UNCHANGED <<freed, lost>>
    BY <1>3, <2>3 DEF Gone, GoneNext
  <2>4. QED
    BY <1>0, <2>1, <2>2, <2>3 DEF Send, Failed
<1>5. /\ r = Unknown => post' = post
      /\ r # Unknown => post'[s] = m
      /\ \A t \in Senders : t # s => post'[t] = post[t]
  BY <1>0 DEF Send, TypeOK
<1>6. Counted'
  <2> SUFFICES ASSUME NEW k \in Msgs
               PROVE  /\ freed'[k] \in {0, 1} /\ (k \in lost' => freed'[k] = 0)
                      /\ k > made' => ~GoneNext(k)
    BY DEF Counted, Gone, GoneNext
  <2>1. /\ freed[k] \in {0, 1} /\ (k \in lost => freed[k] = 0)
        /\ k > made => ~Gone(k)
    BY DEF IInv, Owners, Counted
  <2>2. k \in Nat /\ made \in Nat
    BY DEF IInv, TypeOK, Msgs
  <2>3. CASE k = m
    BY <1>0, <1>3, <1>4, <2>2, <2>3
  <2>4. CASE k # m
    BY <1>0, <1>3, <1>4, <2>1, <2>2, <2>4
  <2>5. QED
    BY <2>3, <2>4
<1>7. PostsOwn'
  <2> SUFFICES ASSUME NEW t \in Senders, post'[t] # 0
               PROVE  /\ post'[t] \in 1..made' /\ from'[post'[t]] = t /\ to'[post'[t]] \in Procs
                      /\ ~GoneNext(post'[t])
                      /\ \A k \in 1..made' : from'[k] = t => k <= post'[t]
    BY DEF PostsOwn, Gone, GoneNext
  <2>1. CASE t = s
    BY <1>0, <1>1, <1>2, <1>4, <1>5, <2>1
  <2>2. CASE t # s
    <3>1. /\ post'[t] = post[t] /\ post[t] \in 1..made /\ from[post[t]] = t
          /\ to[post[t]] \in Procs /\ ~Gone(post[t])
          /\ \A k \in 1..made : from[k] = t => k <= post[t]
      BY <1>5, <2>2 DEF IInv, Owners, PostsOwn, Gone, GoneNext
    <3>2. post[t] \in Msgs /\ post[t] # m
      BY <1>1, <3>1
    <3>3. ~GoneNext(post[t])
      BY <1>4, <3>1, <3>2
    <3>4. \A k \in 1..made' : from'[k] = t => k <= post[t]
      BY <1>1, <1>2, <2>2, <3>1
    <3>5. QED
      BY <1>1, <1>2, <3>1, <3>3, <3>4 DEF Gone, GoneNext
  <2>3. QED
    BY <2>1, <2>2
<1>8. ASSUME NEW k \in 1..made, ~Gone(k), \A t \in Senders : post[t] # k
      PROVE  /\ k \in 1..made' /\ to'[k] = to[k] /\ ~GoneNext(k)
             /\ \A t \in Senders : post'[t] # k
  <2>1. k \in Msgs /\ k # m
    BY <1>1
  <2>2. QED
    BY <1>1, <1>2, <1>4, <1>5, <1>8, <2>1
<1>9. HandlersOwn'
  <2> SUFFICES ASSUME NEW p \in Procs, doing[p] # 0
               PROVE  /\ doing[p] \in 1..made' /\ to'[doing[p]] = p /\ ~GoneNext(doing[p])
                      /\ \A t \in Senders : post'[t] # doing[p]
    BY <1>0 DEF HandlersOwn, Gone, GoneNext
  <2>1. QED
    BY <1>8 DEF IInv, Owners, HandlersOwn, Gone, GoneNext
<1>10. PipesOwn'
  <2> SUFFICES ASSUME NEW p \in Procs, NEW i \in 1..Len(pipe[p])
               PROVE  /\ pipe[p][i] \in 1..made' /\ to'[pipe[p][i]] = p /\ ~GoneNext(pipe[p][i])
                      /\ \A t \in Senders : post'[t] # pipe[p][i]
    BY <1>0 DEF IInv, Owners, PipesOwn, Gone, GoneNext
  <2>1. QED
    BY <1>8 DEF IInv, Owners, PipesOwn, Gone, GoneNext
<1>11. DoneFreed'
  BY <1>0, <1>1, <1>4 DEF IInv, Owners, DoneFreed
<1>12. Known'
  <2> SUFFICES ASSUME NEW k \in 1..made' PROVE Somewhere(k)'
    BY DEF Known
  <2>1. CASE k = m
    BY <1>4, <1>5, <2>1 DEF Somewhere, Gone, GoneNext
  <2>2. CASE k # m
    <3>1. k \in 1..made /\ Somewhere(k) /\ k \in Msgs
      BY <1>0, <1>1, <2>2 DEF IInv, Known
    <3>2. GoneNext(k) <=> Gone(k)
      BY <1>4, <2>2, <3>1
    <3>3. \A t \in Senders : post[t] = k => post'[t] = k
      BY <1>0, <1>5, <3>1
    <3>4. Piped(k)' <=> Piped(k)
      BY <1>0 DEF Piped
    <3>5. QED
      BY <1>0, <3>1, <3>2, <3>3, <3>4 DEF Somewhere, Gone, GoneNext
  <2>3. QED
    BY <2>1, <2>2
<1>13. QED
  BY <1>6, <1>7, <1>9, <1>10, <1>11, <1>12 DEF Owners

(* Write gives the message to a pipe, to its sender again, or to nobody.   *)
LEMMA PostedIs ==
    ASSUME IInv, NEW s \in Senders, Write(s)
    PROVE  /\ post[s] \in 1..made /\ post[s] \in Msgs /\ from[post[s]] = s
           /\ to[post[s]] \in Procs /\ ~Gone(post[s])
           /\ \A t \in Senders : t # s => post[t] # post[s]
           /\ \A p \in Procs : doing[p] # post[s]
           /\ \A p \in Procs : \A i \in 1..Len(pipe[p]) : pipe[p][i] # post[s]
           /\ \A p \in Procs : \A i \in 1..Len(done[p]) : done[p][i] # post[s]
<1>1. post[s] # 0
  BY DEF Write
<1>2. /\ post[s] \in 1..made /\ from[post[s]] = s /\ to[post[s]] \in Procs /\ ~Gone(post[s])
      /\ \A t \in Senders : post[t] # 0 => from[post[t]] = t
  BY <1>1 DEF IInv, Owners, PostsOwn
<1>3. post[s] \in Msgs
  BY <1>2, MadeAreMsgs DEF IInv
<1>4. \A t \in Senders : t # s => post[t] # post[s]
  BY <1>1, <1>2
<1>5. /\ \A p \in Procs : doing[p] # post[s]
      /\ \A p \in Procs : \A i \in 1..Len(pipe[p]) : pipe[p][i] # post[s]
  BY <1>1 DEF IInv, Owners, HandlersOwn, PipesOwn
<1>6. \A p \in Procs : \A i \in 1..Len(done[p]) : done[p][i] # post[s]
  BY <1>2 DEF IInv, Owners, DoneFreed, Gone
<1>7. QED
  BY <1>2, <1>3, <1>4, <1>5, <1>6

LEMMA OwnersWrite ==
    ASSUME IInv, TypeOK', NEW s \in Senders, Write(s)
    PROVE  Owners' /\ (over' # "aborted" => Known')
<1> DEFINE r == to[post[s]]
<1>0. /\ UNCHANGED <<doing, made, from, to, done>> /\ over = "no" /\ TypeOK
      /\ post'[s] = 0 /\ \A t \in Senders : t # s => post'[t] = post[t]
  BY DEF IInv, Write, TypeOK
<1>1. PICK m \in Msgs : m = post[s]
  BY PostedIs
<1>2. /\ m \in 1..made /\ from[m] = s /\ r \in Procs /\ r = to[m] /\ ~Gone(m)
      /\ \A t \in Senders : t # s => post[t] # m
      /\ \A p \in Procs : doing[p] # m
      /\ \A p \in Procs : \A i \in 1..Len(pipe[p]) : pipe[p][i] # m
      /\ \A p \in Procs : \A i \in 1..Len(done[p]) : done[p][i] # m
  BY <1>1, PostedIs
<1>3. 1..made \subseteq Msgs /\ made \in Nat /\ 0 \notin 1..made
  BY <1>0, MadeAreMsgs DEF TypeOK
<1>4. \A t \in Senders : post'[t] = 0 \/ (t # s /\ post'[t] = post[t])
  BY <1>0
<1>5. ASSUME UNCHANGED <<freed, lost>> PROVE PostsOwn' /\ Counted' /\ DoneFreed' /\ HandlersOwn'
  <2>1. Counted' /\ DoneFreed'
    BY <1>0, <1>5 DEF IInv, Owners, Counted, DoneFreed, Gone
  <2>2. PostsOwn'
    BY <1>0, <1>4, <1>5 DEF IInv, Owners, PostsOwn, Gone
  <2>3. HandlersOwn'
    BY <1>0, <1>3, <1>4, <1>5 DEF IInv, Owners, HandlersOwn, Gone
  <2>4. QED
    BY <2>1, <2>2, <2>3
<1>6. CASE over' = "aborted" /\ UNCHANGED <<pipe, freed, lost>>
  <2>1. PipesOwn'
    BY <1>0, <1>3, <1>4, <1>6 DEF IInv, Owners, PipesOwn, Gone
  <2>2. QED
    BY <1>5, <1>6, <2>1 DEF Owners
<1>7. CASE Failed(m) /\ UNCHANGED <<pipe, over>>
  <2>1. /\ \A k \in Msgs : k # m => (GoneNext(k) <=> Gone(k)) /\ freed'[k] = freed[k]
                                /\ (k \in lost' <=> k \in lost)
        /\ freed'[m] \in {0, 1} /\ (m \in lost' => freed'[m] = 0) /\ GoneNext(m)
    <3>1. freed[m] = 0 /\ m \notin lost
      BY <1>2 DEF Gone
    <3>2. CASE freed' = [freed EXCEPT ![m] = @ + 1] /\ UNCHANGED lost
      <4>1. freed'[m] = freed[m] + 1 /\ \A k \in Msgs : k # m => freed'[k] = freed[k]
        BY <1>0, <3>2, FreedOnce
      <4>2. freed'[m] = 1
        BY <3>1, <4>1
      <4>3. QED
        BY <3>1, <3>2, <4>1, <4>2 DEF Gone, GoneNext
    <3>3. CASE lost' = lost \cup {m} /\ UNCHANGED freed
      BY <3>1, <3>3 DEF Gone, GoneNext
    <3>4. QED
      BY <1>7, <3>2, <3>3 DEF Failed
  <2>2. Counted'
    <3> SUFFICES ASSUME NEW k \in Msgs
                 PROVE  /\ freed'[k] \in {0, 1} /\ (k \in lost' => freed'[k] = 0)
                        /\ k > made => ~GoneNext(k)
      BY <1>0 DEF Counted, Gone, GoneNext
    <3>1. /\ freed[k] \in {0, 1} /\ (k \in lost => freed[k] = 0)
          /\ k > made => ~Gone(k)
      BY DEF IInv, Owners, Counted
    <3>2. CASE k = m
      BY <1>2, <1>3, <2>1, <3>2 DEF Msgs
    <3>3. CASE k # m
      BY <2>1, <3>1, <3>3
    <3>4. QED
      BY <3>2, <3>3
  <2>3. PostsOwn'
    <3> SUFFICES ASSUME NEW t \in Senders, post'[t] # 0
                 PROVE  /\ post'[t] \in 1..made /\ from[post'[t]] = t /\ to[post'[t]] \in Procs
                        /\ ~GoneNext(post'[t]) /\ \A k \in 1..made : from[k] = t => k <= post'[t]
      BY <1>0 DEF PostsOwn, Gone, GoneNext
    <3>1. t # s /\ post'[t] = post[t] /\ post[t] # m
      BY <1>2, <1>4
    <3>2. /\ post[t] \in 1..made /\ from[post[t]] = t /\ to[post[t]] \in Procs
          /\ ~Gone(post[t]) /\ \A k \in 1..made : from[k] = t => k <= post[t]
      BY <3>1 DEF IInv, Owners, PostsOwn
    <3>3. QED
      BY <1>3, <2>1, <3>1, <3>2
  <2>4. HandlersOwn'
    <3> SUFFICES ASSUME NEW p \in Procs, doing[p] # 0
                 PROVE  /\ doing[p] \in 1..made /\ to[doing[p]] = p /\ ~GoneNext(doing[p])
                        /\ \A t \in Senders : post'[t] # doing[p]
      BY <1>0 DEF HandlersOwn, Gone, GoneNext
    <3>1. /\ doing[p] \in 1..made /\ to[doing[p]] = p /\ ~Gone(doing[p])
          /\ \A t \in Senders : post[t] # doing[p]
      BY DEF IInv, Owners, HandlersOwn
    <3>2. QED
      BY <1>2, <1>3, <1>4, <2>1, <3>1
  <2>5. PipesOwn'
    <3> SUFFICES ASSUME NEW p \in Procs, NEW i \in 1..Len(pipe[p])
                 PROVE  ~GoneNext(pipe[p][i]) /\ \A t \in Senders : post'[t] # pipe[p][i]
      BY <1>0, <1>7 DEF IInv, Owners, PipesOwn, Gone, GoneNext
    <3>1. pipe[p][i] \in 1..made /\ ~Gone(pipe[p][i]) /\ \A t \in Senders : post[t] # pipe[p][i]
      BY DEF IInv, Owners, PipesOwn
    <3>2. QED
      BY <1>2, <1>3, <1>4, <2>1, <3>1
  <2>6. DoneFreed'
    BY <1>0, <1>2, <1>3, <2>1 DEF IInv, Owners, DoneFreed
  <2>7. Known'
    <3> SUFFICES ASSUME NEW k \in 1..made PROVE Somewhere(k)'
      BY <1>0 DEF Known
    <3>1. CASE k = m
      BY <2>1, <3>1 DEF Somewhere, Gone, GoneNext
    <3>2. CASE k # m
      <4>1. Somewhere(k) /\ (GoneNext(k) <=> Gone(k))
        BY <1>0, <1>3, <2>1, <3>2 DEF IInv, Known
      <4>2. \A t \in Senders : post[t] = k => post'[t] = k
        BY <1>0, <1>1, <3>2
      <4>3. Piped(k)' <=> Piped(k)
        BY <1>7 DEF Piped
      <4>4. QED
        BY <1>0, <4>1, <4>2, <4>3 DEF Somewhere, Gone, GoneNext
    <3>3. QED
      BY <3>1, <3>2
  <2>8. QED
    BY <2>2, <2>3, <2>4, <2>5, <2>6, <2>7 DEF Owners
<1>8. CASE HasRoom(r) /\ pipe' = [pipe EXCEPT ![r] = Queued(@, m)] /\ UNCHANGED <<freed, lost, over>>
  <2> DEFINE n == Len(pipe[r])
  <2>1. /\ n \in Nat /\ Len(pipe'[r]) = n + 1 /\ pipe'[r][n + 1] = m
        /\ \A i \in 1..n : pipe'[r][i] = pipe[r][i]
        /\ \A q \in Procs : q # r => pipe'[q] = pipe[q]
    BY <1>0, <1>2, <1>8, Pushed
  <2>2. ASSUME NEW p \in Procs, NEW i \in 1..Len(pipe'[p])
        PROVE  \/ p = r /\ i = n + 1 /\ pipe'[p][i] = m
               \/ i \in 1..Len(pipe[p]) /\ pipe'[p][i] = pipe[p][i]
    BY <2>1
  <2>3. PipesOwn'
    <3> SUFFICES ASSUME NEW p \in Procs, NEW i \in 1..Len(pipe'[p])
                 PROVE  /\ pipe'[p][i] \in 1..made /\ to[pipe'[p][i]] = p /\ ~GoneNext(pipe'[p][i])
                        /\ \A t \in Senders : post'[t] # pipe'[p][i]
                        /\ doing[p] # pipe'[p][i]
                        /\ \A j \in 1..Len(pipe'[p]) : pipe'[p][j] = pipe'[p][i] => j = i
      BY <1>0 DEF PipesOwn, Gone, GoneNext
    <3>1. \A k : GoneNext(k) <=> Gone(k)
      BY <1>8 DEF Gone, GoneNext
    <3>2. CASE p = r /\ i = n + 1 /\ pipe'[p][i] = m
      <4>1. \A t \in Senders : post'[t] # m
        BY <1>2, <1>3, <1>4
      <4>2. ASSUME NEW j \in 1..Len(pipe'[p]), pipe'[p][j] = m PROVE j = i
        BY <1>2, <2>2, <3>2, <4>2
      <4>3. QED
        BY <1>2, <3>1, <3>2, <4>1, <4>2
    <3>3. CASE i \in 1..Len(pipe[p]) /\ pipe'[p][i] = pipe[p][i]
      <4>1. /\ pipe[p][i] \in 1..made /\ to[pipe[p][i]] = p /\ ~Gone(pipe[p][i])
            /\ \A t \in Senders : post[t] # pipe[p][i]
            /\ doing[p] # pipe[p][i] /\ pipe[p][i] # m
            /\ \A j \in 1..Len(pipe[p]) : pipe[p][j] = pipe[p][i] => j = i
        BY <1>2, <3>3 DEF IInv, Owners, PipesOwn
      <4>2. \A t \in Senders : post'[t] # pipe[p][i]
        BY <1>3, <1>4, <4>1
      <4>3. ASSUME NEW j \in 1..Len(pipe'[p]), pipe'[p][j] = pipe[p][i] PROVE j = i
        BY <2>2, <4>1, <4>3
      <4>4. QED
        BY <3>1, <3>3, <4>1, <4>2, <4>3
    <3>4. QED
      BY <2>2, <3>2, <3>3
  <2>4. Known'
    <3> SUFFICES ASSUME NEW k \in 1..made PROVE Somewhere(k)'
      BY <1>0 DEF Known
    <3>1. CASE k = m
      <4>1. n + 1 \in 1..Len(pipe'[r])
        BY <2>1
      <4>2. QED
        BY <1>2, <2>1, <3>1, <4>1 DEF Somewhere, Piped
    <3>2. CASE k # m
      <4>1. Somewhere(k)
        BY <1>0 DEF IInv, Known
      <4>2. \A t \in Senders : post[t] = k => post'[t] = k
        BY <1>0, <1>1, <3>2
      <4>3. Piped(k) => Piped(k)'
        <5> SUFFICES ASSUME NEW p \in Procs, NEW i \in 1..Len(pipe[p]), pipe[p][i] = k
                     PROVE  i \in 1..Len(pipe'[p]) /\ pipe'[p][i] = k
          BY DEF Piped
        <5>1. QED
          BY <2>1
      <4>4. QED
        BY <1>0, <1>8, <4>1, <4>2, <4>3 DEF Somewhere, Gone
    <3>3. QED
      BY <3>1, <3>2
  <2>5. QED
    BY <1>5, <1>8, <2>3, <2>4 DEF Owners
<1>9. QED
  BY <1>1, <1>2, <1>6, <1>7, <1>8 DEF Write
-----------------------------------------------------------------------------
(* The invariant of the specification.                                     *)

LEMMA InvInit ==
    ASSUME Init
    PROVE  IInv
<1>1. TypeOK
  BY TypesInit
<1>2. made = 0 /\ 1..made = {}
  BY DEF Init
<1>3. /\ \A p \in Procs : doing[p] = 0 /\ 1..Len(pipe[p]) = {} /\ 1..Len(done[p]) = {}
      /\ \A s \in Senders : post[s] = 0
      /\ \A m \in Msgs : freed[m] = 0
      /\ lost = {}
  BY DEF Init
<1>4. Owners
  BY <1>3 DEF Owners, Counted, PostsOwn, HandlersOwn, PipesOwn, DoneFreed, Gone
<1>5. QED
  BY <1>1, <1>2, <1>4 DEF IInv, Known

LEMMA InvQuiet ==
    ASSUME IInv, UNCHANGED msgvars,
           phase' \in [Procs -> Phases], running' \in [Procs -> BOOLEAN],
           deaf' \subseteq Procs, quitting' \in BOOLEAN,
           over' \in {"no", "aborted", "terminated"},
           over' # "aborted" => over # "aborted"
    PROVE  IInv'
BY TypesQuiet, OwnersQuiet DEF IInv

LEMMA InvBecome ==
    ASSUME IInv, NEW p \in Procs, NEW was, NEW is \in Phases, Become(p, was, is)
    PROVE  IInv'
<1>1. phase' \in [Procs -> Phases]
  BY DEF IInv, TypeOK, Become
<1>2. UNCHANGED <<running, deaf, quitting, over>> /\ UNCHANGED msgvars
  BY DEF Become
<1>3. QED
  BY <1>1, <1>2, InvQuiet DEF IInv, TypeOK

LEMMA InvThread ==
    ASSUME IInv, NEW p \in Procs, ThreadStep(p)
    PROVE  IInv'
<1>1. CASE Launch(p)
  BY <1>1, InvBecome DEF Launch, Phases
<1>2. CASE CreateService(p)
  BY <1>2, InvBecome DEF CreateService, Phases
<1>3. CASE OpenPipe(p)
  BY <1>3, InvBecome DEF OpenPipe, Phases
<1>4. CASE OpenDeaf(p)
  <2>1. /\ phase' \in [Procs -> Phases] /\ deaf' \subseteq Procs
        /\ UNCHANGED <<running, quitting, over>> /\ UNCHANGED msgvars
    BY <1>4 DEF OpenDeaf, IInv, TypeOK, Phases
  <2>2. QED
    BY <2>1, InvQuiet DEF IInv, TypeOK
<1>5. CASE OpenFails(p)
  <2>1. /\ UNCHANGED <<phase, running, deaf, quitting>> /\ UNCHANGED msgvars
        /\ over' = "terminated" /\ over = "no"
    BY <1>5 DEF OpenFails, loopvars
  <2>2. QED
    BY <2>1, InvQuiet DEF IInv, TypeOK
<1>6. CASE EnterMain(p)
  <2>1. CASE running[p]
    BY <1>6, <2>1, InvBecome DEF EnterMain, Phases
  <2>2. CASE ~running[p]
    BY <1>6, <2>2, InvBecome DEF EnterMain, Phases
  <2>3. QED
    BY <2>1, <2>2
<1>7. CASE LeaveMain(p)
  BY <1>7, InvBecome DEF LeaveMain, Phases
<1>8. CASE Begin(p)
  <2>1. TypeOK'
    BY <1>8, TypesBegin DEF IInv
  <2>2. QED
    BY <1>8, <2>1, OwnersBegin DEF IInv
<1>9. CASE Finish(p)
  <2>1. TypeOK'
    BY <1>9, TypesFinish DEF IInv
  <2>2. QED
    BY <1>9, <2>1, OwnersFinish DEF IInv
<1>10. QED
  BY <1>1, <1>2, <1>3, <1>4, <1>5, <1>6, <1>7, <1>8, <1>9 DEF ThreadStep

LEMMA InvStep ==
    ASSUME IInv, [Next]_vars
    PROVE  IInv'
<1>1. ASSUME NEW p \in Procs, ThreadStep(p) PROVE IInv'
  BY <1>1, InvThread
<1>2. ASSUME NEW s \in Senders, Write(s) PROVE IInv'
  <2>1. TypeOK'
    BY <1>2, PostedIs, TypesWrite DEF IInv
  <2>2. QED
    BY <1>2, <2>1, OwnersWrite DEF IInv
<1>3. ASSUME NEW s \in Senders, NEW r \in Procs \cup {Unknown}, Send(s, r) PROVE IInv'
  <2>1. TypeOK'
    BY <1>3, TypesSend DEF IInv
  <2>2. QED
    BY <1>3, <2>1, OwnersSend DEF IInv
<1>4. CASE Quit
  <2>1. /\ UNCHANGED <<phase, running, deaf, over>> /\ UNCHANGED msgvars /\ quitting' = TRUE
    BY <1>4 DEF Quit, loopvars
  <2>2. QED
    BY <2>1, InvQuiet DEF IInv, TypeOK
<1>5. CASE Destruct
  <2>1. /\ UNCHANGED <<phase, running, deaf, quitting>> /\ UNCHANGED msgvars
        /\ over = "no" /\ over' = "terminated"
    BY <1>5 DEF Destruct, loopvars
  <2>2. QED
    BY <2>1, InvQuiet DEF IInv, TypeOK
<1>6. ASSUME NEW p \in Procs, StopThread(p) PROVE IInv'
  <2>1. /\ UNCHANGED <<phase, deaf, quitting, over>> /\ UNCHANGED msgvars
        /\ running' \in [Procs -> BOOLEAN]
    BY <1>6 DEF StopThread, IInv, TypeOK
  <2>2. QED
    BY <2>1, InvQuiet DEF IInv, TypeOK
<1>7. CASE UNCHANGED vars
  <2>1. UNCHANGED <<phase, running, deaf, quitting, over>> /\ UNCHANGED msgvars
    BY <1>7 DEF vars, loopvars
  <2>2. QED
    BY <2>1, InvQuiet DEF IInv, TypeOK
<1>8. QED
  BY <1>1, <1>2, <1>3, <1>4, <1>5, <1>6, <1>7 DEF Next, Exit

(* Every reachable state satisfies the invariant: who holds the pointer of  *)
(* each message (xma_process.cpp:20-62, 115-130, xma_message.cpp:17-30).   *)
THEOREM ProcessesInvariant == Spec => []IInv
<1>1. Init => IInv
  BY InvInit
<1>2. IInv /\ [Next]_vars => IInv'
  BY InvStep
<1>3. QED
  BY <1>1, <1>2, PTL DEF Spec

(* All variables keep their types; a pipe never holds more than it can     *)
(* (xma_process.cpp:115-130).                                              *)
THEOREM ProcessesTypes == Spec => []TypeOK
<1>1. IInv => TypeOK
  BY DEF IInv
<1>2. QED
  BY <1>1, ProcessesInvariant, PTL

LEMMA AtMostOne ==
    ASSUME NEW S, NEW x, S \subseteq {x}
    PROVE  Cardinality(S) = IF S = {} THEN 0 ELSE 1
<1>1. S = {} \/ S = {x}
  OBVIOUS
<1>2. Cardinality({}) = 0 /\ Cardinality({x}) = 1
  BY FS_EmptySet, FS_Singleton
<1>3. QED
  BY <1>1, <1>2

Writing(m) == {s \in Senders : post[s] = m}
Handling(m) == {p \in Procs : doing[p] = m}
Holding(m) == {x \in Procs \X (1..PipeCap) : x[2] <= Len(pipe[x[1]]) /\ pipe[x[1]][x[2]] = m}

(* A place in a pipe that has the message is the only one.                 *)
LEMMA OnePlace ==
    ASSUME IInv, NEW m \in 1..made
    PROVE  /\ Cardinality(Holding(m)) = IF Holding(m) = {} THEN 0 ELSE 1
           /\ Holding(m) # {} <=> Piped(m)
<1>1. \A p \in Procs : Len(pipe[p]) \in Nat /\ Len(pipe[p]) <= PipeCap /\ PipeCap \in Nat
  BY Elements, Numbers DEF IInv, TypeOK
<1>2. ASSUME NEW x \in Holding(m)
      PROVE  /\ x[1] \in Procs /\ x[2] \in 1..Len(pipe[x[1]]) /\ pipe[x[1]][x[2]] = m
             /\ x = <<x[1], x[2]>>
  BY <1>1, <1>2 DEF Holding
<1>3. ASSUME NEW x \in Holding(m), NEW y \in Holding(m) PROVE x = y
  <2>1. to[m] = x[1] /\ to[m] = y[1]
    BY <1>2 DEF IInv, Owners, PipesOwn
  <2>2. x[2] = y[2]
    BY <1>2, <2>1 DEF IInv, Owners, PipesOwn
  <2>3. QED
    BY <1>2, <2>1, <2>2
<1>4. Cardinality(Holding(m)) = IF Holding(m) = {} THEN 0 ELSE 1
  <2>1. CASE Holding(m) = {}
    BY <2>1, FS_EmptySet
  <2>2. CASE Holding(m) # {}
    <3>1. PICK x : x \in Holding(m)
      BY <2>2
    <3>2. Holding(m) \subseteq {x}
      BY <1>3, <3>1
    <3>3. QED
      BY <3>2, AtMostOne
  <2>3. QED
    BY <2>1, <2>2
<1>5. Piped(m) => Holding(m) # {}
  <2> SUFFICES ASSUME NEW p \in Procs, NEW i \in 1..Len(pipe[p]), pipe[p][i] = m
               PROVE  <<p, i>> \in Holding(m)
    BY DEF Piped
  <2>1. i \in 1..PipeCap /\ i <= Len(pipe[p])
    BY <1>1
  <2>2. QED
    BY <2>1 DEF Holding
<1>6. Holding(m) # {} => Piped(m)
  BY <1>2 DEF Piped
<1>7. QED
  BY <1>4, <1>5, <1>6

LEMMA OwnerCounted ==
    ASSUME IInv, over # "aborted", NEW m \in 1..made
    PROVE  Holders(m) + freed[m] + Cardinality(lost \cap {m}) = 1
<1> DEFINE W == Writing(m)
           H == Handling(m)
           P == Holding(m)
           L == lost \cap {m}
<1>1. m \in Msgs /\ m # 0 /\ freed[m] \in {0, 1} /\ (m \in lost => freed[m] = 0)
  BY MadeAreMsgs, Numbers DEF IInv, Owners, Counted
<1>2. Cardinality(W) = IF W = {} THEN 0 ELSE 1
  <2>1. W \subseteq {from[m]}
    BY <1>1 DEF IInv, Owners, PostsOwn, Writing
  <2>2. QED
    BY <2>1, AtMostOne
<1>3. Cardinality(H) = IF H = {} THEN 0 ELSE 1
  <2>1. H \subseteq {to[m]}
    BY <1>1 DEF IInv, Owners, HandlersOwn, Handling
  <2>2. QED
    BY <2>1, AtMostOne
<1>4. Cardinality(P) = IF P = {} THEN 0 ELSE 1
  BY OnePlace
<1>5. Cardinality(L) = IF m \in lost THEN 1 ELSE 0
  <2>1. L \subseteq {m} /\ (L # {} <=> m \in lost)
    OBVIOUS
  <2>2. QED
    BY <2>1, AtMostOne
<1>6. W # {} => ~Gone(m) /\ H = {} /\ P = {}
  <2> SUFFICES ASSUME NEW s \in Senders, post[s] = m PROVE ~Gone(m) /\ H = {} /\ ~Piped(m)
    BY OnePlace DEF Writing
  <2>1. ~Gone(m)
    BY <1>1 DEF IInv, Owners, PostsOwn
  <2>2. H = {}
    BY <1>1 DEF IInv, Owners, HandlersOwn, Handling
  <2>3. ~Piped(m)
    BY DEF IInv, Owners, PipesOwn, Piped
  <2>4. QED
    BY <2>1, <2>2, <2>3
<1>7. H # {} => ~Gone(m) /\ P = {}
  <2> SUFFICES ASSUME NEW p \in Procs, doing[p] = m PROVE ~Gone(m) /\ ~Piped(m)
    BY OnePlace DEF Handling
  <2>1. ~Gone(m) /\ to[m] = p
    BY <1>1 DEF IInv, Owners, HandlersOwn
  <2>2. ~Piped(m)
    BY <2>1 DEF IInv, Owners, PipesOwn, Piped
  <2>3. QED
    BY <2>1, <2>2
<1>8. P # {} => ~Gone(m)
  BY OnePlace DEF IInv, Owners, PipesOwn, Piped
<1>9. Gone(m) \/ W # {} \/ H # {} \/ P # {}
  BY OnePlace DEF IInv, Known, Somewhere, Writing, Handling
<1>10. Holders(m) = Cardinality(W) + Cardinality(H) + Cardinality(P)
  BY DEF Holders, Writing, Handling, Holding
<1>11. Gone(m) <=> freed[m] # 0 \/ m \in lost
  BY DEF Gone
<1> HIDE DEF W, H, P, L
<1>12. CASE Gone(m)
  <2>1. W = {} /\ H = {} /\ P = {}
    BY <1>6, <1>7, <1>8, <1>12
  <2>2. Holders(m) = 0
    BY <1>2, <1>3, <1>4, <1>10, <2>1
  <2>3. QED
    BY <1>1, <1>5, <1>11, <1>12, <2>2 DEF L
<1>13. CASE ~Gone(m)
  <2>1. Holders(m) = 1
    <3>1. CASE W # {}
      BY <1>2, <1>3, <1>4, <1>6, <1>10, <3>1
    <3>2. CASE W = {} /\ H # {}
      BY <1>2, <1>3, <1>4, <1>7, <1>10, <3>2
    <3>3. CASE W = {} /\ H = {} /\ P # {}
      BY <1>2, <1>3, <1>4, <1>10, <3>3
    <3>4. QED
      BY <1>9, <1>13, <3>1, <3>2, <3>3
  <2>2. freed[m] = 0 /\ Cardinality(lost \cap {m}) = 0
    BY <1>5, <1>11, <1>13 DEF L
  <2>3. QED
    BY <2>1, <2>2
<1>14. QED
  BY <1>12, <1>13

(* Exactly one thread, pipe or handler has the pointer of a message until  *)
(* it is deleted, and it is deleted only once (xma_message.cpp:17-30,      *)
(* xma_process.cpp:20-62).                                                 *)
THEOREM MessagesHaveOneOwner == Spec => []OneOwner
<1>1. IInv => OneOwner
  BY OwnerCounted DEF OneOwner
<1>2. QED
  BY <1>1, ProcessesInvariant, PTL
-----------------------------------------------------------------------------
(* The pipes and the handlers implement mailboxes.                         *)

LEMMA Prepends ==
    ASSUME NEW S, NEW q \in Seq(S), NEW d \in S
    PROVE  /\ <<d>> \o q \in Seq(S) /\ Len(<<d>> \o q) = Len(q) + 1
           /\ (<<d>> \o q)[1] = d /\ \A i \in 1..Len(q) : (<<d>> \o q)[i + 1] = q[i]
           /\ Tail(<<d>> \o q) = q /\ Head(<<d>> \o q) = d /\ <<d>> \o q # <<>>
           /\ \A e \in S : Append(<<d>> \o q, e) = <<d>> \o Append(q, e)
BY ConcatProperties

LEMMA Rejoined ==
    ASSUME NEW S, NEW q \in Seq(S), q # <<>>
    PROVE  <<Head(q)>> \o Tail(q) = q
OBVIOUS

(* What Pending is, by what the process does.                              *)
LEMMA PendingIs ==
    ASSUME TypeOK, NEW p \in Procs
    PROVE  /\ pipe[p] \in Seq(Msgs) /\ Len(pipe[p]) \in Nat
           /\ doing[p] = 0 => Pending[p] = pipe[p]
<1>1. pipe[p] \in Seq(Msgs)
  BY DEF TypeOK
<1>2. Pending[p] = (IF doing[p] = 0 THEN <<>> ELSE <<doing[p]>>) \o pipe[p]
  BY DEF Pending
<1>3. <<>> \o pipe[p] = pipe[p]
  BY <1>1, ConcatEmptySeq
<1>4. Len(pipe[p]) \in Nat
  BY <1>1, Elements
<1>5. QED
  BY <1>1, <1>2, <1>3, <1>4

LEMMA PendingBusy ==
    ASSUME TypeOK, NEW p \in Procs, doing[p] # 0
    PROVE  /\ doing[p] \in Msgs /\ Pending[p] = <<doing[p]>> \o pipe[p]
           /\ Len(Pending[p]) = Len(pipe[p]) + 1 /\ Len(pipe[p]) \in Nat
           /\ Pending[p][1] = doing[p] /\ \A i \in 1..Len(pipe[p]) : Pending[p][i + 1] = pipe[p][i]
           /\ Tail(Pending[p]) = pipe[p] /\ Head(Pending[p]) = doing[p] /\ Pending[p] # <<>>
           /\ \A e \in Msgs : Append(Pending[p], e) = <<doing[p]>> \o Append(pipe[p], e)
<1>1. pipe[p] \in Seq(Msgs) /\ Len(pipe[p]) \in Nat
  BY PendingIs
<1>2. doing[p] \in Msgs
  BY Numbers DEF TypeOK, Msgs
<1>3. Pending[p] = <<doing[p]>> \o pipe[p]
  BY DEF Pending
<1>4. /\ <<doing[p]>> \o pipe[p] \in Seq(Msgs) /\ Len(<<doing[p]>> \o pipe[p]) = Len(pipe[p]) + 1
      /\ (<<doing[p]>> \o pipe[p])[1] = doing[p]
      /\ \A i \in 1..Len(pipe[p]) : (<<doing[p]>> \o pipe[p])[i + 1] = pipe[p][i]
      /\ Tail(<<doing[p]>> \o pipe[p]) = pipe[p] /\ Head(<<doing[p]>> \o pipe[p]) = doing[p]
      /\ <<doing[p]>> \o pipe[p] # <<>>
      /\ \A e \in Msgs : Append(<<doing[p]>> \o pipe[p], e) = <<doing[p]>> \o Append(pipe[p], e)
  <2>1. \A q \in Seq(Msgs), d \in Msgs :
           /\ <<d>> \o q \in Seq(Msgs) /\ Len(<<d>> \o q) = Len(q) + 1
           /\ (<<d>> \o q)[1] = d /\ \A i \in 1..Len(q) : (<<d>> \o q)[i + 1] = q[i]
           /\ Tail(<<d>> \o q) = q /\ Head(<<d>> \o q) = d /\ <<d>> \o q # <<>>
           /\ \A e \in Msgs : Append(<<d>> \o q, e) = <<d>> \o Append(q, e)
    BY Prepends
  <2>2. QED
    BY <1>1, <1>2, <2>1, Zenon
<1>5. QED
  BY <1>1, <1>2, <1>3, <1>4

LEMMA AcceptedAre ==
    ASSUME IInv, NEW k \in Boxes!Accepted
    PROVE  /\ k \in 1..made
           /\ \/ \E p \in Procs : doing[p] = k
              \/ Piped(k)
              \/ \E p \in Procs : \E i \in 1..Len(done[p]) : done[p][i] = k
<1>1. PICK p \in Procs : k \in Boxes!In(Pending[p]) \/ k \in Boxes!In(done[p])
  BY DEF Boxes!Accepted
<1>2. TypeOK /\ done[p] \in Seq(Msgs)
  BY DEF IInv, TypeOK
<1>3. CASE k \in Boxes!In(done[p])
  <2>1. PICK i \in 1..Len(done[p]) : done[p][i] = k
    BY <1>2, <1>3 DEF Boxes!In
  <2>2. QED
    BY <2>1 DEF IInv, Owners, DoneFreed
<1>4. CASE k \in Boxes!In(Pending[p])
  <2>1. PICK i \in 1..Len(Pending[p]) : Pending[p][i] = k
    BY <1>2, <1>4, PendingIs DEF Boxes!In
  <2>2. CASE doing[p] = 0
    <3>1. i \in 1..Len(pipe[p]) /\ pipe[p][i] = k
      BY <1>2, <2>1, <2>2, PendingIs
    <3>2. QED
      BY <3>1 DEF IInv, Owners, PipesOwn, Piped
  <2>3. CASE doing[p] # 0 /\ i = 1
    <3>1. doing[p] = k
      BY <1>2, <2>1, <2>3, PendingBusy
    <3>2. QED
      BY <2>3, <3>1 DEF IInv, Owners, HandlersOwn
  <2>4. CASE doing[p] # 0 /\ i # 1
    <3>1. Len(pipe[p]) \in Nat /\ Len(Pending[p]) = Len(pipe[p]) + 1
      BY <1>2, <2>4, PendingBusy
    <3>2. i - 1 \in 1..Len(pipe[p]) /\ (i - 1) + 1 = i
      BY <2>1, <2>4, <3>1
    <3>3. pipe[p][i - 1] = k
      BY <1>2, <2>1, <2>4, <3>2, PendingBusy
    <3>4. QED
      BY <3>2, <3>3 DEF IInv, Owners, PipesOwn, Piped
  <2>5. QED
    BY <2>2, <2>3, <2>4
<1>5. QED
  BY <1>1, <1>3, <1>4

LEMMA BoxesInit ==
    ASSUME Init
    PROVE  Boxes!Init
<1>1. \A p \in Procs : Pending[p] = <<>>
  BY ConcatEmptySeq DEF Init, Pending
<1>2. Pending = [p \in Procs |-> <<>>]
  BY <1>1 DEF Pending
<1>3. QED
  BY <1>2 DEF Init, Boxes!Init, Senders

LEMMA BoxesQuiet ==
    ASSUME UNCHANGED msgvars
    PROVE  UNCHANGED Boxes!vars
BY DEF msgvars, Boxes!vars, Pending

(* To begin with a message leaves it pending.                              *)
LEMMA BoxesBegin ==
    ASSUME IInv, TypeOK', NEW p \in Procs, Begin(p)
    PROVE  UNCHANGED Boxes!vars
<1>1. TypeOK /\ pipe[p] \in Seq(Msgs) /\ pipe[p] # <<>>
  BY DEF IInv, TypeOK, Begin, Readable
<1>2. /\ doing[p] = 0 /\ doing' = [doing EXCEPT ![p] = Head(pipe[p])]
      /\ pipe' = [pipe EXCEPT ![p] = Tail(@)]
      /\ UNCHANGED <<from, to, done>>
  BY DEF Begin, InLoop
<1>3. doing \in [Procs -> 0..MaxMsgs] /\ pipe \in [Procs -> Seq(Msgs)]
  BY <1>1 DEF TypeOK
<1>4. Head(pipe[p]) # 0 /\ Head(pipe[p]) \in Msgs
  BY <1>1, Tails, Numbers
<1>5. ASSUME NEW q \in Procs PROVE Pending'[q] = Pending[q]
  <2>0. Pending'[q] = (IF doing'[q] = 0 THEN <<>> ELSE <<doing'[q]>>) \o pipe'[q]
    BY DEF Pending
  <2>1. CASE q # p
    BY <1>2, <1>3, <2>0, <2>1 DEF Pending
  <2>2. CASE q = p
    <3>1. doing'[p] = Head(pipe[p]) /\ pipe'[p] = Tail(pipe[p])
      BY <1>2, <1>3
    <3>2. Pending'[p] = <<Head(pipe[p])>> \o Tail(pipe[p])
      BY <1>4, <2>0, <2>2, <3>1
    <3>3. QED
      BY <1>1, <1>2, <2>2, <3>2, Rejoined, PendingIs
  <2>3. QED
    BY <2>1, <2>2
<1>6. Pending' = Pending
  BY <1>5 DEF Pending
<1>7. QED
  BY <1>2, <1>6 DEF Boxes!vars

LEMMA BoxesFinish ==
    ASSUME IInv, TypeOK', NEW p \in Procs, Finish(p)
    PROVE  Boxes!Execute(p)
<1>1. TypeOK /\ doing[p] # 0 /\ doing[p] \in Msgs /\ pipe[p] \in Seq(Msgs)
  BY Executed DEF IInv, TypeOK, Finish
<1>2. /\ doing' = [doing EXCEPT ![p] = 0] /\ done' = [done EXCEPT ![p] = Append(@, doing[p])]
      /\ UNCHANGED <<pipe, from, to>> /\ doing \in [Procs -> 0..MaxMsgs]
  BY <1>1 DEF Finish, TypeOK
<1>3. Pending[p] # <<>> /\ Head(Pending[p]) = doing[p] /\ Tail(Pending[p]) = pipe[p]
  BY <1>1, PendingBusy
<1>4. ASSUME NEW q \in Procs PROVE Pending'[q] = IF q = p THEN Tail(Pending[p]) ELSE Pending[q]
  <2>0. Pending'[q] = (IF doing'[q] = 0 THEN <<>> ELSE <<doing'[q]>>) \o pipe'[q]
    BY DEF Pending
  <2>1. CASE q # p
    BY <1>2, <2>0, <2>1 DEF Pending
  <2>2. CASE q = p
    <3>1. doing'[p] = 0 /\ pipe'[p] = pipe[p]
      BY <1>2
    <3>2. Pending'[p] = pipe[p]
      BY <1>1, <2>0, <2>2, <3>1, ConcatEmptySeq
    <3>3. QED
      BY <1>3, <2>2, <3>2
  <2>3. QED
    BY <2>1, <2>2
<1>5. Pending' = [Pending EXCEPT ![p] = Tail(@)]
  BY <1>4 DEF Pending
<1>6. QED
  BY <1>2, <1>3, <1>5 DEF Boxes!Execute

LEMMA BoxesSend ==
    ASSUME IInv, NEW s \in Senders, NEW r \in Procs \cup {Unknown}, Send(s, r)
    PROVE  \E m \in Msgs : Boxes!Address(m, s, r)
<1>1. /\ made + 1 \in Msgs /\ made' = made + 1 /\ UNCHANGED <<pipe, doing, done>>
      /\ from' = [from EXCEPT ![made + 1] = s] /\ to' = [to EXCEPT ![made + 1] = r]
      /\ made \in Nat
  <2>1. made' = made + 1 /\ made' \in Msgs
    BY TypesSend DEF IInv
  <2>2. QED
    BY <2>1 DEF IInv, TypeOK, Send
<1>2. made + 1 \notin Boxes!Accepted
  BY <1>1, AcceptedAre
<1>3. Pending' = Pending
  BY <1>1 DEF Pending
<1>4. QED
  BY <1>1, <1>2, <1>3 DEF Boxes!Address

(* A write that succeeds is the moment of acceptance.                      *)
LEMMA BoxesPush ==
    ASSUME IInv, NEW s \in Senders, Write(s), HasRoom(to[post[s]]),
           pipe' = [pipe EXCEPT ![to[post[s]]] = Queued(@, post[s])]
    PROVE  Boxes!Accept(post[s])
<1> DEFINE m == post[s]
           r == to[m]
<1>1. /\ m \in Msgs /\ m \in 1..made /\ from[m] = s /\ r \in Procs /\ ~Gone(m)
      /\ \A p \in Procs : doing[p] # m
      /\ \A p \in Procs : \A i \in 1..Len(pipe[p]) : pipe[p][i] # m
      /\ \A p \in Procs : \A i \in 1..Len(done[p]) : done[p][i] # m
  BY PostedIs
<1>2. TypeOK /\ UNCHANGED <<doing, from, to, done>>
  BY DEF IInv, Write
<1>3. m \notin Boxes!Accepted
  BY <1>1, AcceptedAre DEF Piped
<1>4. \A k \in Boxes!Accepted : from[k] = from[m] => k < m
  <2> SUFFICES ASSUME NEW k \in Boxes!Accepted, from[k] = s PROVE k < m
    BY <1>1
  <2>1. k \in 1..made /\ k # m
    BY <1>3, AcceptedAre
  <2>2. k <= m
    BY <1>1, <2>1, Numbers DEF IInv, Owners, PostsOwn
  <2>3. QED
    BY <1>1, <2>1, <2>2
<1>5. ASSUME NEW q \in Procs PROVE Pending'[q] = IF q = r THEN Append(Pending[r], m) ELSE Pending[q]
  <2>0. Pending'[q] = (IF doing[q] = 0 THEN <<>> ELSE <<doing[q]>>) \o pipe'[q]
    BY <1>2 DEF Pending
  <2>1. CASE q # r
    BY <1>1, <1>2, <2>0, <2>1, Pushed DEF Pending
  <2>2. CASE q = r
    <3>1. pipe'[r] = Append(pipe[r], m) /\ pipe[r] \in Seq(Msgs) /\ Append(pipe[r], m) \in Seq(Msgs)
      BY <1>1, <1>2, Pushed, Appends DEF TypeOK
    <3>2. CASE doing[r] = 0
      <4>1. Pending'[r] = <<>> \o Append(pipe[r], m)
        BY <2>0, <2>2, <3>1, <3>2
      <4>2. Pending'[r] = Append(pipe[r], m)
        BY <3>1, <4>1, ConcatEmptySeq
      <4>3. QED
        BY <1>1, <1>2, <2>2, <3>2, <4>2, PendingIs
    <3>3. CASE doing[r] # 0
      <4>1. Pending'[r] = <<doing[r]>> \o Append(pipe[r], m)
        BY <2>0, <2>2, <3>1, <3>3
      <4>2. Append(Pending[r], m) = <<doing[r]>> \o Append(pipe[r], m)
        BY <1>1, <1>2, <3>3, PendingBusy
      <4>3. QED
        BY <2>2, <4>1, <4>2
    <3>4. QED
      BY <3>2, <3>3
  <2>3. QED
    BY <2>1, <2>2
<1>6. Pending' = [Pending EXCEPT ![r] = Append(@, m)]
  BY <1>5 DEF Pending
<1>7. QED
  BY <1>1, <1>2, <1>3, <1>4, <1>6 DEF Boxes!Accept

LEMMA BoxesWrite ==
    ASSUME IInv, NEW s \in Senders, Write(s)
    PROVE  (\E m \in Msgs : Boxes!Accept(m)) \/ UNCHANGED Boxes!vars
<1>1. UNCHANGED <<doing, from, to, done>>
  BY DEF Write
<1>2. CASE UNCHANGED pipe
  BY <1>1, <1>2 DEF Boxes!vars, Pending
<1>3. CASE HasRoom(to[post[s]]) /\ pipe' = [pipe EXCEPT ![to[post[s]]] = Queued(@, post[s])]
  BY <1>3, BoxesPush, PostedIs
<1>4. QED
  BY <1>2, <1>3 DEF Write

LEMMA BoxesStep ==
    ASSUME IInv, IInv', [Next]_vars
    PROVE  [Boxes!Next]_(Boxes!vars)
<1>0. TypeOK'
  BY DEF IInv
<1>1. ASSUME NEW p \in Procs, ThreadStep(p) PROVE Boxes!Execute(p) \/ UNCHANGED Boxes!vars
  <2>1. CASE UNCHANGED msgvars
    BY <2>1, BoxesQuiet
  <2>2. CASE Begin(p)
    BY <1>0, <2>2, BoxesBegin
  <2>3. CASE Finish(p)
    BY <1>0, <2>3, BoxesFinish
  <2>4. QED
    BY <1>1, <2>1, <2>2, <2>3 DEF ThreadStep, Launch, CreateService, OpenPipe, OpenDeaf, OpenFails,
       EnterMain, LeaveMain, Become
<1>2. ASSUME NEW s \in Senders, NEW r \in Procs \cup {Unknown}, Send(s, r)
      PROVE  \E m \in Msgs : Boxes!Address(m, s, r)
  BY <1>2, BoxesSend
<1>3. CASE Quit \/ Exit
  BY <1>3, BoxesQuiet DEF Quit, Exit, Destruct, StopThread
<1>4. CASE UNCHANGED vars
  BY <1>4, BoxesQuiet DEF vars
<1>5. QED
  BY <1>1, <1>2, <1>3, <1>4, BoxesWrite DEF Next, Boxes!Next

(* A process executes what was sent to it, once, in the order in which it   *)
(* was written, and the messages of one thread in the order in which that   *)
(* thread has sent them (xma_process.cpp:26-62, 115-130).                  *)
THEOREM MailboxesImplemented == Spec => ActsAsMailboxes
<1>1. Init => Boxes!Init
  BY BoxesInit
<1>2. IInv /\ IInv' /\ [Next]_vars => [Boxes!Next]_(Boxes!vars)
  BY BoxesStep
<1>3. QED
  BY <1>1, <1>2, ProcessesInvariant, PTL DEF Spec, ActsAsMailboxes, Boxes!Spec
=============================================================================
