-------------------------- MODULE ShellCommandsProofs --------------------------
(***************************************************************************)
(* Proofs about ShellCommands, for any number of processes, commands and   *)
(* lines.                                                                  *)
(***************************************************************************)
EXTENDS ShellCommands, ListLemmas

(* A line typed once all threads were running meets a table that nobody    *)
(* changes any more.                                                       *)
LateIsQuiet == lines > 0 /\ ~early => AllRunning /\ ~raced

CommandInWork == pc # "prompt" => lines > 0 /\ line \in Commands

(* What has been registered stays so.                                      *)
Registered ==
    /\ \A c \in MainCommands : table[c] # NoLine
    /\ \A p \in Procs : \A i \in 1..done[p] : table[OwnOf[p][i]] # NoLine

(* Only processes that are starting insert commands.                       *)
Inserters == \A p \in inside["commands"] :
    p \in Procs /\ phase[p] = "init" /\ done[p] < Len(OwnOf[p])

RunningIsReady == \A p \in Procs :
    phase[p] = "running" => Initialised(p) /\ done[p] = Len(OwnOf[p])

(* The services of a process are given their context one after the other.  *)
ContextInOrder == \A p \in Procs :
    Has(listeners, <<p, "pipe">>) \/ Initialised(p) => <<p, "process">> \in context

(* A listener is in the list once, and a socket only while it lives.       *)
ListedOnce == \A i, j \in DOMAIN listeners : listeners[i] = listeners[j] => i = j

ListedLive == \A p \in Procs :
    Has(listeners, <<p, "socket">>) => socket[p] \in {"alive", "dying"}

(* A walk holds the mutex of its list.                                     *)
WalkHolds == pc = "walk" =>
    /\ line \in {"ListService", "ListListener"} /\ Main \in inside[MutexOf]
    /\ node = Nothing \/ Has(ListOf, node)

TableInv == LateIsQuiet /\ CommandInWork /\ Registered /\ Inserters /\ RunningIsReady
ListsInv == ContextInOrder /\ ListedOnce /\ ListedLive /\ WalkHolds

IInv == TypeOK /\ TableInv /\ ListsInv /\ MissedOnlyEarly /\ CrashHasCause
-----------------------------------------------------------------------------
(* Lists.                                                                  *)

LEMMA HasTyped ==
    ASSUME NEW S, NEW s \in Seq(S), NEW x, Has(s, x)
    PROVE  x \in S
BY Elements DEF Has

(* What a list has after an insertion at its end.                          *)
LEMMA Appended ==
    ASSUME NEW S, NEW s \in Seq(S), NEW x \in S
    PROVE  /\ Append(s, x) \in Seq(S)
           /\ \A y : Has(Append(s, x), y) <=> Has(s, y) \/ y = x
           /\ ~Has(s, x) /\ (\A i, j \in DOMAIN s : s[i] = s[j] => i = j) =>
                \A i, j \in DOMAIN Append(s, x) : Append(s, x)[i] = Append(s, x)[j] => i = j
<1> DEFINE a == Append(s, x)
<1>1. /\ a \in Seq(S) /\ Len(s) \in Nat /\ Len(a) = Len(s) + 1
      /\ DOMAIN a = 1..(Len(s) + 1) /\ DOMAIN s = 1..Len(s)
      /\ a[Len(s) + 1] = x /\ \A i \in 1..Len(s) : a[i] = s[i]
  OBVIOUS
<1> HIDE DEF a
<1>2. \A y : Has(a, y) <=> Has(s, y) \/ y = x
  BY <1>1 DEF Has
<1>3. ASSUME ~Has(s, x), \A i, j \in DOMAIN s : s[i] = s[j] => i = j
      PROVE  \A i, j \in DOMAIN a : a[i] = a[j] => i = j
  <2>1. \A i \in DOMAIN a : i = Len(s) + 1 \/ i \in 1..Len(s)
    BY <1>1
  <2>2. \A i \in 1..Len(s) : a[i] # x
    BY <1>1, <1>3 DEF Has
  <2>3. QED
    BY <1>1, <1>3, <2>1, <2>2
<1>4. QED
  BY <1>1, <1>2, <1>3 DEF a

(* A nonempty set of positions has a least one.                            *)
LEMMA LeastPosition ==
    ASSUME NEW P \in SUBSET Nat, P # {}
    PROVE  Min(P) \in P
BY LeastExists DEF Min

LEMMA Removed ==
    ASSUME NEW S, NEW s \in Seq(S), NEW x, \A i, j \in DOMAIN s : s[i] = s[j] => i = j
    PROVE  /\ RemoveFirst(s, x) \in Seq(S)
           /\ \A y : Has(RemoveFirst(s, x), y) <=> Has(s, y) /\ y # x
           /\ \A i, j \in DOMAIN RemoveFirst(s, x) :
                RemoveFirst(s, x)[i] = RemoveFirst(s, x)[j] => i = j
<1>0. Len(s) \in Nat /\ DOMAIN s = 1..Len(s) /\ \A i \in DOMAIN s : s[i] \in S
  BY Elements
<1>1. CASE ~Has(s, x)
  <2>1. RemoveFirst(s, x) = s
    BY <1>0, <1>1 DEF RemoveFirst, Has
  <2>2. QED
    BY <1>1, <2>1
<1>2. CASE Has(s, x)
  <2> DEFINE P == {i \in 1..Len(s) : s[i] = x}
             k == Min(P)
             r == SubSeq(s, 1, k - 1) \o SubSeq(s, k + 1, Len(s))
  <2>1. k \in P
    BY <1>0, <1>2, LeastPosition DEF Has
  <2>2. RemoveFirst(s, x) = r
    <3>1. SelectInSeq(s, LAMBDA y : y = x) = k
      BY <2>1 DEF SelectInSeq
    <3>2. \E i \in 1..Len(s) : s[i] = x
      BY <2>1
    <3>3. QED
      BY <3>1, <3>2 DEF RemoveFirst, RemoveAt
  <2> HIDE DEF k
  <2>3. k \in 1..Len(s) /\ s[k] = x
    BY <2>1
  <2>4. /\ r \in Seq(S) /\ Len(r) = Len(s) - 1 /\ DOMAIN r = 1..(Len(s) - 1)
        /\ \A i \in 1..(k - 1) : r[i] = s[i]
        /\ \A i \in k..(Len(s) - 1) : r[i] = s[i + 1]
    <3>1. r \in Seq(S) /\ IsErased(r, s, k)
      BY <2>3, Erasing
    <3> HIDE DEF r
    <3>2. QED
      BY <3>1 DEF IsErased
  <2> HIDE DEF r
  <2>5. \A y : Has(r, y) => Has(s, y) /\ y # x
    <3>1. ASSUME NEW i \in 1..(Len(s) - 1)
          PROVE  \E j \in 1..Len(s) : r[i] = s[j] /\ j # k
      <4>1. CASE i < k
        BY <1>0, <2>3, <2>4, <4>1
      <4>2. CASE i >= k
        <5>1. r[i] = s[i + 1] /\ i + 1 \in 1..Len(s) /\ i + 1 # k
          BY <1>0, <2>3, <2>4, <4>2
        <5>2. QED
          BY <5>1
      <4>3. QED
        BY <1>0, <2>3, <4>1, <4>2
    <3>2. \A j \in 1..Len(s) : j # k => s[j] # x
      BY <1>0, <2>3
    <3>3. \A i \in 1..(Len(s) - 1) : r[i] # x /\ \E j \in 1..Len(s) : r[i] = s[j]
      BY <3>1, <3>2
    <3>4. QED
      BY <1>0, <2>4, <3>3 DEF Has
  <2>6. \A y : Has(s, y) /\ y # x => Has(r, y)
    <3> SUFFICES ASSUME NEW j \in 1..Len(s), s[j] # x
                 PROVE  \E i \in 1..(Len(s) - 1) : r[i] = s[j]
      BY <1>0, <2>4 DEF Has
    <3>1. CASE j < k
      BY <1>0, <2>3, <2>4, <3>1
    <3>2. CASE j > k
      <4>1. j - 1 \in k..(Len(s) - 1) /\ j - 1 \in 1..(Len(s) - 1) /\ (j - 1) + 1 = j
        BY <1>0, <2>3, <3>2
      <4>2. QED
        BY <2>4, <4>1
    <3>3. QED
      BY <1>0, <2>3, <3>1, <3>2
  <2>7. ASSUME NEW i \in DOMAIN r, NEW j \in DOMAIN r, r[i] = r[j]
        PROVE  i = j
    <3>1. i \in 1..(Len(s) - 1) /\ j \in 1..(Len(s) - 1)
      BY <2>4
    <3>2. CASE i < k /\ j < k
      BY <1>0, <2>3, <2>4, <2>7, <3>1, <3>2
    <3>3. CASE i >= k /\ j >= k
      <4>1. s[i + 1] = s[j + 1] /\ i + 1 \in 1..Len(s) /\ j + 1 \in 1..Len(s)
        BY <1>0, <2>3, <2>4, <2>7, <3>1, <3>3
      <4>2. QED
        BY <1>0, <3>1, <4>1
    <3>4. CASE i < k /\ j >= k
      <4>1. s[i] = s[j + 1] /\ i \in 1..Len(s) /\ j + 1 \in 1..Len(s)
        BY <1>0, <2>3, <2>4, <2>7, <3>1, <3>4
      <4>2. QED
        BY <1>0, <2>3, <3>1, <3>4, <4>1
    <3>5. CASE i >= k /\ j < k
      <4>1. s[j] = s[i + 1] /\ j \in 1..Len(s) /\ i + 1 \in 1..Len(s)
        BY <1>0, <2>3, <2>4, <2>7, <3>1, <3>5
      <4>2. QED
        BY <1>0, <2>3, <3>1, <3>5, <4>1
    <3>6. QED
      BY <2>3, <3>1, <3>2, <3>3, <3>4, <3>5
  <2>8. QED
    BY <2>2, <2>4, <2>5, <2>6, <2>7
<1>3. QED
  BY <1>1, <1>2

(* A walk goes from an element of its list to another, or ends.            *)
LEMMA Walked ==
    ASSUME NEW S, NEW s \in Seq(S), NEW x
    PROVE  /\ First(s) = Nothing \/ Has(s, First(s))
           /\ After(s, x) = Nothing \/ Has(s, After(s, x))
<1>0. Len(s) \in Nat /\ DOMAIN s = 1..Len(s)
  BY Elements
<1>1. First(s) = Nothing \/ Has(s, First(s))
  <2>1. CASE s = <<>>
    BY <2>1 DEF First
  <2>2. CASE s # <<>>
    <3>1. 1 \in DOMAIN s /\ Head(s) = s[1]
      BY <2>2
    <3>2. QED
      BY <2>2, <3>1 DEF First, Has
  <2>3. QED
    BY <2>1, <2>2
<1>2. ASSUME \E i \in 1..(Len(s) - 1) : s[i] = x
      PROVE  Has(s, After(s, x))
  <2> DEFINE k == CHOOSE i \in 1..(Len(s) - 1) : s[i] = x
  <2>1. k \in 1..(Len(s) - 1)
    BY <1>2
  <2>2. After(s, x) = s[1 + k]
    BY <1>2 DEF After
  <2> HIDE DEF k
  <2>3. 1 + k \in DOMAIN s
    BY <1>0, <2>1
  <2>4. QED
    BY <2>2, <2>3 DEF Has
<1>3. QED
  BY <1>1, <1>2 DEF After
-----------------------------------------------------------------------------
(* The names a process registers are commands of the program.              *)
LEMMA OwnNames ==
    ASSUME NEW p \in Procs
    PROVE  /\ Len(OwnOf[p]) \in Nat
           /\ \A i \in 1..Len(OwnOf[p]) : OwnOf[p][i] \in OwnBy(p) /\ OwnOf[p][i] \in Commands
           /\ \A c \in OwnBy(p) : \E i \in 1..Len(OwnOf[p]) : OwnOf[p][i] = c
<1>1. OwnOf[p] \in Seq(OwnBy(p))
  BY ShellAssumption
<1>2. Len(OwnOf[p]) \in Nat /\ DOMAIN OwnOf[p] = 1..Len(OwnOf[p])
  BY <1>1, Elements
<1>3. QED
  BY <1>2 DEF OwnBy, Commands

LEMMA InitInv == Init => IInv
<1> SUFFICES ASSUME Init PROVE IInv
  OBVIOUS
<1> USE DEF Init, RegInit
<1>1. TypeOK
  <2>1. \A p \in Procs : done[p] <= Len(OwnOf[p])
    BY OwnNames
  <2>2. RegTypeOK
    BY DEF RegTypeOK, SocketStates
  <2>3. table \in [Commands -> Threads \cup {NoLine}] /\ callee \in Threads
    BY DEF Threads
  <2>4. lines \in 0..MaxLines
    BY ShellAssumption
  <2>5. QED
    BY <2>1, <2>2, <2>3, <2>4 DEF TypeOK
<1>2. TableInv
  <2>1. LateIsQuiet /\ CommandInWork /\ Inserters /\ RunningIsReady
    BY DEF LateIsQuiet, CommandInWork, Inserters, RunningIsReady, Mutexes
  <2>2. Registered
    <3>1. \A c \in MainCommands : c \in Commands /\ table[c] = Main
      BY DEF Commands
    <3>2. \A c \in MainCommands : table[c] # NoLine
      BY <3>1 DEF Main, NoLine
    <3>3. \A p \in Procs : 1..done[p] = {}
      OBVIOUS
    <3>4. QED
      BY <3>2, <3>3 DEF Registered
  <2>3. QED
    BY <2>1, <2>2 DEF TableInv
<1>3. ListsInv
  BY DEF ListsInv, ContextInOrder, ListedOnce, ListedLive, WalkHolds, Has, Initialised
<1>4. QED
  BY <1>1, <1>2, <1>3 DEF IInv, MissedOnlyEarly, CrashHasCause
-----------------------------------------------------------------------------
(* The steps of a process. What the main thread keeps for itself is as it   *)
(* was, and the program is still running.                                  *)

LEMMA LaunchStep ==
    ASSUME IInv, NEW p \in Procs, Launch(p), over = "no", UNCHANGED mainvars
    PROVE  IInv'
<1> USE DEF Launch, Become, regvars, lists, mainvars
<1>1. TypeOK'
  BY DEF IInv, TypeOK, RegTypeOK
<1>2. \A q \in Procs : phase[q] # "made" => phase'[q] = phase[q]
  BY DEF IInv, TypeOK
<1>3. TableInv'
  <2>1. LateIsQuiet'
    BY DEF IInv, TableInv, LateIsQuiet, AllRunning
  <2>2. CommandInWork' /\ Registered'
    BY DEF IInv, TableInv, CommandInWork, Registered
  <2>3. Inserters'
    BY <1>2 DEF IInv, TableInv, Inserters
  <2>4. RunningIsReady'
    BY DEF IInv, TypeOK, TableInv, RunningIsReady, Initialised
  <2>5. QED
    BY <2>1, <2>2, <2>3, <2>4 DEF TableInv
<1>4. ListsInv'
  BY DEF IInv, ListsInv, ContextInOrder, ListedOnce, ListedLive, WalkHolds, Has, Initialised,
         MutexOf, ListOf
<1>5. QED
  BY <1>1, <1>3, <1>4 DEF IInv, MissedOnlyEarly, CrashHasCause

LEMMA EnterMainStep ==
    ASSUME IInv, NEW p \in Procs, EnterMain(p), over = "no", UNCHANGED mainvars
    PROVE  IInv'
<1> USE DEF EnterMain, Become, regvars, lists, mainvars
<1>1. TypeOK'
  BY DEF IInv, TypeOK, RegTypeOK
<1>2. \A q \in Procs : phase'[q] = IF q = p THEN "running" ELSE phase[q]
  BY DEF IInv, TypeOK
<1>3. TableInv'
  <2>1. LateIsQuiet'
    BY DEF IInv, TableInv, LateIsQuiet, AllRunning
  <2>2. CommandInWork' /\ Registered'
    BY DEF IInv, TableInv, CommandInWork, Registered
  <2>3. Inserters'
    <3>1. \A q \in inside["commands"] : q # p
      BY OwnNames DEF IInv, TypeOK, TableInv, Inserters
    <3>2. QED
      BY <1>2, <3>1 DEF IInv, TableInv, Inserters
  <2>4. RunningIsReady'
    BY <1>2 DEF IInv, TableInv, RunningIsReady, Initialised
  <2>5. QED
    BY <2>1, <2>2, <2>3, <2>4 DEF TableInv
<1>4. ListsInv'
  BY DEF IInv, ListsInv, ContextInOrder, ListedOnce, ListedLive, WalkHolds, Has, Initialised,
         MutexOf, ListOf
<1>5. QED
  BY <1>1, <1>3, <1>4 DEF IInv, MissedOnlyEarly, CrashHasCause

LEMMA PipeFailsStep ==
    ASSUME IInv, NEW p \in Procs, PipeFails(p), over = "no", UNCHANGED mainvars
    PROVE  IInv'
<1> USE DEF PipeFails, regvars, lists, mainvars
<1>1. TypeOK'
  BY DEF IInv, TypeOK, RegTypeOK
<1>2. TableInv'
  BY DEF IInv, TableInv, LateIsQuiet, AllRunning, CommandInWork, Registered, Inserters,
         RunningIsReady, Initialised
<1>3. ListsInv'
  BY DEF IInv, ListsInv, ContextInOrder, ListedOnce, ListedLive, WalkHolds, Has, Initialised,
         MutexOf, ListOf
<1>4. QED
  BY <1>1, <1>2, <1>3 DEF IInv, MissedOnlyEarly, CrashHasCause

(* The process is starting: the shell has read no line after the start.    *)
LEMMA InsertStep ==
    ASSUME IInv, NEW p \in Procs, Insert(p), over = "no", UNCHANGED mainvars
    PROVE  IInv'
<1> USE DEF Insert, Enter, Free, regvars, lists, mainvars
<1>0. inside \in [Mutexes -> SUBSET Threads] /\ "commands" \in Mutexes /\ p \in Threads
  BY DEF IInv, TypeOK, RegTypeOK, Mutexes, Threads
<1>1. /\ inside' \in [Mutexes -> SUBSET Threads] /\ inside'["commands"] = {p} /\ over' = over
      /\ \A m \in Mutexes : m # "commands" => inside'[m] = inside[m]
  BY <1>0
<1>2. TypeOK'
  <2>1. raced' \in BOOLEAN
    BY DEF IInv, TypeOK, Reading
  <2>2. QED
    BY <1>1, <2>1 DEF IInv, TypeOK, RegTypeOK
<1>3. TableInv'
  <2>1. LateIsQuiet'
    BY DEF IInv, TableInv, LateIsQuiet, AllRunning
  <2>2. CommandInWork' /\ Registered' /\ RunningIsReady'
    BY DEF IInv, TableInv, CommandInWork, Registered, RunningIsReady, Initialised
  <2>3. Inserters'
    BY <1>1 DEF Inserters
  <2>4. QED
    BY <2>1, <2>2, <2>3 DEF TableInv
<1>4. ListsInv'
  <2>1. WalkHolds'
    BY <1>0, <1>1 DEF IInv, ListsInv, WalkHolds, Has, MutexOf, ListOf, Mutexes
  <2>2. QED
    BY <2>1 DEF IInv, ListsInv, ContextInOrder, ListedOnce, ListedLive, Has, Initialised
<1>5. QED
  BY <1>1, <1>2, <1>3, <1>4 DEF IInv, MissedOnlyEarly, CrashHasCause

LEMMA InsertedStep ==
    ASSUME IInv, NEW p \in Procs, Inserted(p), over = "no", UNCHANGED mainvars
    PROVE  IInv'
<1> USE DEF Inserted, Leave, regvars, lists, mainvars
<1> DEFINE c == OwnOf[p][done[p] + 1]
<1>0. /\ inside \in [Mutexes -> SUBSET Threads] /\ "commands" \in Mutexes
      /\ done \in [Procs -> Nat] /\ done[p] + 1 \in 1..Len(OwnOf[p]) /\ c \in Commands
      /\ table \in [Commands -> Threads \cup {NoLine}]
  BY OwnNames DEF IInv, TypeOK, RegTypeOK, Mutexes
<1>1. /\ \A q \in Procs : done'[q] = IF q = p THEN done[p] + 1 ELSE done[q]
      /\ \A d \in Commands : table'[d] = IF d = c THEN p ELSE table[d]
      /\ table' \in [Commands -> Threads \cup {NoLine}] /\ done' \in [Procs -> Nat]
  BY <1>0 DEF Threads
<1>2. /\ inside' \in [Mutexes -> SUBSET Threads]
      /\ inside'["commands"] = inside["commands"] \ {p}
      /\ \A m \in Mutexes : m # "commands" => inside'[m] = inside[m]
  BY <1>0
<1> HIDE DEF c
<1>3. TypeOK'
  <2>1. \A q \in Procs : done'[q] <= Len(OwnOf[q])
    BY <1>0, <1>1 DEF IInv, TypeOK
  <2>2. QED
    BY <1>1, <1>2, <2>1 DEF IInv, TypeOK, RegTypeOK
<1>4. TableInv'
  <2>1. LateIsQuiet' /\ CommandInWork'
    BY DEF IInv, TableInv, LateIsQuiet, AllRunning, CommandInWork
  <2>2. Registered'
    <3>1. \A d \in Commands : table[d] # NoLine => table'[d] # NoLine
      BY <1>1, ShellAssumption
    <3>2. \A d \in MainCommands : table'[d] # NoLine
      BY <3>1 DEF IInv, TableInv, Registered, Commands
    <3>3. ASSUME NEW q \in Procs, NEW i \in 1..done'[q]
          PROVE  table'[OwnOf[q][i]] # NoLine
      <4>1. CASE i \in 1..done[q]
        <5>1. OwnOf[q][i] \in Commands
          BY <1>0, <4>1, OwnNames DEF IInv, TypeOK
        <5>2. QED
          BY <3>1, <4>1, <5>1 DEF IInv, TableInv, Registered
      <4>2. CASE i \notin 1..done[q]
        <5>1. q = p /\ i = done[p] + 1
          BY <1>0, <1>1, <4>2
        <5>2. QED
          BY <1>0, <1>1, <5>1, ShellAssumption DEF c
      <4>3. QED
        BY <4>1, <4>2
    <3>4. QED
      BY <3>2, <3>3 DEF Registered
  <2>3. Inserters'
    BY <1>1, <1>2 DEF IInv, TableInv, Inserters
  <2>4. RunningIsReady'
    <3>1. phase[p] # "running"
      BY DEF IInv, TableInv, Inserters
    <3>2. QED
      BY <1>1, <3>1 DEF IInv, TableInv, RunningIsReady, Initialised
  <2>5. QED
    BY <2>1, <2>2, <2>3, <2>4 DEF TableInv
<1>5. ListsInv'
  <2>1. WalkHolds'
    BY <1>0, <1>2 DEF IInv, ListsInv, WalkHolds, Has, MutexOf, ListOf, Mutexes
  <2>2. QED
    BY <2>1 DEF IInv, ListsInv, ContextInOrder, ListedOnce, ListedLive, Has, Initialised
<1>6. QED
  BY <1>3, <1>4, <1>5 DEF IInv, MissedOnlyEarly, CrashHasCause

(* A walk of the main thread keeps its mutex: neither list changes under it. *)
LEMMA WalkIsAlone ==
    ASSUME IInv, pc = "walk"
    PROVE  /\ Free("services") => line = "ListListener" /\ ListOf = listeners
           /\ Free("listeners") => line = "ListService" /\ ListOf = services
BY DEF IInv, ListsInv, WalkHolds, Free, MutexOf, ListOf

LEMMA InitStepStep ==
    ASSUME IInv, NEW p \in Procs, InitStep(p), over = "no", UNCHANGED mainvars
    PROVE  IInv'
<1> USE DEF mainvars
<1>1. UNCHANGED <<table, done, phase, raced, stale, over>> /\ phase[p] = "init"
  BY DEF InitStep
<1>2. ASSUME NEW kind \in {"process", "program"}, ~Has(services, <<p, kind>>),
             AddService(<<p, kind>>), UNCHANGED socket
      PROVE  IInv'
  <2>1. /\ UNCHANGED <<inside, context, listeners, socket>> /\ Free("services")
        /\ services \in Seq(Services) /\ <<p, kind>> \in Services
        /\ services' = Append(services, <<p, kind>>)
    BY <1>2 DEF AddService, Services, IInv, TypeOK, RegTypeOK
  <2>2. TypeOK'
    BY <1>1, <2>1, Appended DEF IInv, TypeOK, RegTypeOK
  <2>3. TableInv'
    BY <1>1, <2>1 DEF IInv, TableInv, LateIsQuiet, AllRunning, CommandInWork, Registered,
                      Inserters, RunningIsReady, Initialised
  <2>4. WalkHolds'
    BY <1>1, <2>1, WalkIsAlone DEF IInv, ListsInv, WalkHolds, MutexOf, ListOf, Has
  <2>5. ListsInv'
    BY <1>1, <2>1, <2>4 DEF IInv, ListsInv, ContextInOrder, ListedOnce, ListedLive, Has,
                            Initialised
  <2>6. QED
    BY <1>1, <2>2, <2>3, <2>5 DEF IInv, MissedOnlyEarly, CrashHasCause
<1>3. ASSUME OpenPipe(p)
      PROVE  IInv'
  <2>1. /\ UNCHANGED <<inside, context, services, socket>> /\ Free("listeners")
        /\ <<p, "process">> \in context /\ ~Has(listeners, <<p, "pipe">>)
        /\ listeners \in Seq(Listeners) /\ <<p, "pipe">> \in Listeners
        /\ listeners' = Append(listeners, <<p, "pipe">>)
    BY <1>3 DEF OpenPipe, AddListener, Listeners, IInv, TypeOK, RegTypeOK
  <2>2. /\ listeners' \in Seq(Listeners) /\ ListedOnce'
        /\ \A l : Has(listeners', l) <=> Has(listeners, l) \/ l = <<p, "pipe">>
    <3> DEFINE l == <<p, "pipe">>
    <3>1. /\ \A i, j \in DOMAIN listeners : listeners[i] = listeners[j] => i = j
          /\ l \in Listeners /\ ~Has(listeners, l)
      BY <2>1 DEF IInv, ListsInv, ListedOnce
    <3> HIDE DEF l
    <3>2. /\ Append(listeners, l) \in Seq(Listeners)
          /\ \A k : Has(Append(listeners, l), k) <=> Has(listeners, k) \/ k = l
          /\ \A i, j \in DOMAIN Append(listeners, l) :
                Append(listeners, l)[i] = Append(listeners, l)[j] => i = j
      BY <2>1, <3>1, Appended
    <3>3. QED
      BY <2>1, <3>2 DEF ListedOnce, l
  <2>3. TypeOK'
    BY <1>1, <2>1, <2>2 DEF IInv, TypeOK, RegTypeOK
  <2>4. TableInv'
    BY <1>1, <2>1 DEF IInv, TableInv, LateIsQuiet, AllRunning, CommandInWork, Registered,
                      Inserters, RunningIsReady, Initialised
  <2>5. WalkHolds'
    BY <1>1, <2>1, WalkIsAlone DEF IInv, ListsInv, WalkHolds, MutexOf, ListOf, Has
  <2>6. ContextInOrder' /\ ListedLive'
    BY <2>1, <2>2 DEF IInv, ListsInv, ContextInOrder, ListedLive, Initialised
  <2>7. QED
    BY <1>1, <2>2, <2>3, <2>4, <2>5, <2>6 DEF IInv, ListsInv, MissedOnlyEarly, CrashHasCause
<1>4. ASSUME NEW kind \in {"process", "program"}, SaveContext(<<p, kind>>),
             kind = "program" => Has(listeners, <<p, "pipe">>)
      PROVE  IInv'
  <2>1. /\ UNCHANGED <<inside, listeners, services, socket>>
        /\ <<p, kind>> \in Services /\ context' = context \cup {<<p, kind>>}
    BY <1>4 DEF SaveContext, Services
  <2>2. TypeOK'
    BY <1>1, <2>1 DEF IInv, TypeOK, RegTypeOK
  <2>3. TableInv'
    BY <1>1, <2>1 DEF IInv, TableInv, LateIsQuiet, AllRunning, CommandInWork, Registered,
                      Inserters, RunningIsReady, Initialised
  <2>4. ContextInOrder'
    BY <1>4, <2>1 DEF IInv, ListsInv, ContextInOrder, Has, Initialised
  <2>5. ListsInv'
    BY <1>1, <2>1, <2>4 DEF IInv, ListsInv, ListedOnce, ListedLive, WalkHolds, MutexOf, ListOf,
                            Has
  <2>6. QED
    BY <1>1, <2>2, <2>3, <2>5 DEF IInv, MissedOnlyEarly, CrashHasCause
<1>5. QED
  BY <1>2, <1>3, <1>4 DEF InitStep, MakeServices, InitServices

(* The socket is listed while it is alive or dying, and not while the main  *)
(* thread walks the listeners.                                             *)
LEMMA SocketSteps ==
    ASSUME IInv, NEW p \in Procs, NewSocket(p) \/ Destruct(p) \/ Unregister(p) \/ Clear(p),
           UNCHANGED <<pc, line, node>>
    PROVE  /\ UNCHANGED <<inside, services, context>>
           /\ listeners' \in Seq(Listeners) /\ socket' \in [Procs -> SocketStates]
           /\ \A q \in Procs : Has(listeners', <<q, "pipe">>) => Has(listeners, <<q, "pipe">>)
           /\ ListedOnce' /\ ListedLive' /\ WalkHolds'
<1> DEFINE s == <<p, "socket">>
<1>0. /\ listeners \in Seq(Listeners) /\ s \in Listeners
      /\ socket \in [Procs -> SocketStates]
      /\ \A i, j \in DOMAIN listeners : listeners[i] = listeners[j] => i = j
  BY DEF IInv, TypeOK, RegTypeOK, ListsInv, ListedOnce, Listeners
<1>1. CASE NewSocket(p)
  <2>1. /\ UNCHANGED <<inside, services, context>> /\ Free("listeners") /\ socket[p] = "none"
        /\ listeners' = Append(listeners, s)
        /\ socket' = [socket EXCEPT ![p] = "alive"]
    BY <1>1 DEF NewSocket, AddListener
  <2>2. ~Has(listeners, s)
    BY <2>1 DEF IInv, ListsInv, ListedLive
  <2>3. /\ listeners' \in Seq(Listeners) /\ ListedOnce'
        /\ \A l : Has(listeners', l) <=> Has(listeners, l) \/ l = s
    <3> HIDE DEF s
    <3>1. /\ Append(listeners, s) \in Seq(Listeners)
          /\ \A l : Has(Append(listeners, s), l) <=> Has(listeners, l) \/ l = s
          /\ \A i, j \in DOMAIN Append(listeners, s) :
                Append(listeners, s)[i] = Append(listeners, s)[j] => i = j
      BY <1>0, <2>2, Appended
    <3>2. QED
      BY <2>1, <3>1 DEF ListedOnce
  <2>4. /\ socket' \in [Procs -> SocketStates] /\ socket'[p] = "alive"
        /\ \A q \in Procs : q # p => socket'[q] = socket[q]
    BY <1>0, <2>1 DEF SocketStates
  <2>5. ListedLive'
    BY <2>3, <2>4 DEF IInv, ListsInv, ListedLive
  <2>6. WalkHolds'
    BY <2>1, WalkIsAlone DEF IInv, ListsInv, WalkHolds, MutexOf, ListOf, Has
  <2>7. QED
    BY <2>1, <2>3, <2>4, <2>5, <2>6
<1>2. CASE Destruct(p)
  <2>1. /\ UNCHANGED <<inside, services, context, listeners>> /\ socket[p] = "alive"
        /\ socket' = [socket EXCEPT ![p] = "dying"]
    BY <1>2 DEF Destruct, lists
  <2>2. /\ socket' \in [Procs -> SocketStates] /\ socket'[p] = "dying"
        /\ \A q \in Procs : q # p => socket'[q] = socket[q]
    BY <1>0, <2>1 DEF SocketStates
  <2>3. ListedLive' /\ ListedOnce' /\ WalkHolds'
    BY <2>1, <2>2 DEF IInv, ListsInv, ListedLive, ListedOnce, WalkHolds, MutexOf, ListOf, Has
  <2>4. QED
    BY <1>0, <2>1, <2>2, <2>3 DEF Has
<1>3. CASE Unregister(p)
  <2>1. /\ UNCHANGED <<inside, services, context>> /\ Free("listeners")
        /\ listeners' = RemoveFirst(listeners, s)
        /\ socket' = [socket EXCEPT ![p] = "freed"]
    BY <1>3 DEF Unregister
  <2>2. /\ listeners' \in Seq(Listeners) /\ ListedOnce'
        /\ \A l : Has(listeners', l) <=> Has(listeners, l) /\ l # s
    <3> HIDE DEF s
    <3>1. /\ RemoveFirst(listeners, s) \in Seq(Listeners)
          /\ \A l : Has(RemoveFirst(listeners, s), l) <=> Has(listeners, l) /\ l # s
          /\ \A i, j \in DOMAIN RemoveFirst(listeners, s) :
                RemoveFirst(listeners, s)[i] = RemoveFirst(listeners, s)[j] => i = j
      BY <1>0, Removed
    <3>2. QED
      BY <2>1, <3>1 DEF ListedOnce
  <2>3. /\ socket' \in [Procs -> SocketStates]
        /\ \A q \in Procs : q # p => socket'[q] = socket[q]
    BY <1>0, <2>1 DEF SocketStates
  <2>4. ListedLive'
    BY <2>2, <2>3 DEF IInv, ListsInv, ListedLive
  <2>5. WalkHolds'
    BY <2>1, WalkIsAlone DEF IInv, ListsInv, WalkHolds, MutexOf, ListOf, Has
  <2>6. QED
    BY <2>1, <2>2, <2>3, <2>4, <2>5
<1>4. CASE Clear(p)
  <2>1. /\ UNCHANGED <<inside, services, context, listeners>> /\ socket[p] = "freed"
        /\ socket' = [socket EXCEPT ![p] = "none"]
    BY <1>4 DEF Clear, lists
  <2>2. /\ socket' \in [Procs -> SocketStates]
        /\ \A q \in Procs : q # p => socket'[q] = socket[q]
    BY <1>0, <2>1 DEF SocketStates
  <2>3. ListedLive'
    BY <2>1, <2>2 DEF IInv, ListsInv, ListedLive, Has
  <2>4. ListedOnce' /\ WalkHolds'
    BY <2>1 DEF IInv, ListsInv, ListedOnce, WalkHolds, MutexOf, ListOf, Has
  <2>5. QED
    BY <1>0, <2>1, <2>2, <2>3, <2>4 DEF Has
<1>5. QED
  BY <1>1, <1>2, <1>3, <1>4

LEMMA LoopStepStep ==
    ASSUME IInv, NEW p \in Procs, LoopStep(p), over = "no", UNCHANGED mainvars
    PROVE  IInv'
<1> USE DEF mainvars
<1>1. UNCHANGED <<table, done, phase, raced, over>>
  BY DEF LoopStep
<1>2. /\ UNCHANGED <<inside, services, context>>
      /\ listeners' \in Seq(Listeners) /\ socket' \in [Procs -> SocketStates]
      /\ \A q \in Procs : Has(listeners', <<q, "pipe">>) => Has(listeners, <<q, "pipe">>)
      /\ ListedOnce' /\ ListedLive' /\ WalkHolds'
  BY SocketSteps DEF LoopStep
<1>3. TypeOK'
  <2>1. stale' \in BOOLEAN
    BY DEF LoopStep, IInv, TypeOK
  <2>2. QED
    BY <1>1, <1>2, <2>1 DEF IInv, TypeOK, RegTypeOK
<1>4. TableInv'
  BY <1>1, <1>2 DEF IInv, TableInv, LateIsQuiet, AllRunning, CommandInWork, Registered,
                    Inserters, RunningIsReady, Initialised
<1>5. ContextInOrder'
  BY <1>2 DEF IInv, ListsInv, ContextInOrder, Initialised
<1>6. QED
  BY <1>1, <1>2, <1>3, <1>4, <1>5 DEF IInv, ListsInv, MissedOnlyEarly, CrashHasCause

LEMMA ThreadSteps ==
    ASSUME IInv, NEW p \in Procs, ThreadStep(p)
    PROVE  IInv'
BY LaunchStep, InitStepStep, InsertStep, InsertedStep, EnterMainStep, PipeFailsStep,
   LoopStepStep DEF ThreadStep
-----------------------------------------------------------------------------
(* The steps of the main thread.                                           *)

(* What they all leave alone.                                              *)
LEMMA MainKeeps ==
    ASSUME IInv, UNCHANGED <<lists, socket, table, done, phase>>,
           inside' \in [Mutexes -> SUBSET Threads], inside'["commands"] = inside["commands"]
    PROVE  /\ RegTypeOK' /\ table' \in [Commands -> Threads \cup {NoLine}]
           /\ done' \in [Procs -> Nat] /\ \A p \in Procs : done'[p] <= Len(OwnOf[p])
           /\ phase' \in [Procs -> {"made", "init", "running"}]
           /\ Registered' /\ Inserters' /\ RunningIsReady' /\ AllRunning' = AllRunning
           /\ ContextInOrder' /\ ListedOnce' /\ ListedLive'
<1> USE DEF lists
<1>1. /\ RegTypeOK' /\ table' \in [Commands -> Threads \cup {NoLine}]
      /\ done' \in [Procs -> Nat] /\ \A p \in Procs : done'[p] <= Len(OwnOf[p])
      /\ phase' \in [Procs -> {"made", "init", "running"}]
  BY DEF IInv, TypeOK, RegTypeOK
<1>2. Registered' /\ RunningIsReady' /\ AllRunning' = AllRunning
  BY DEF IInv, TableInv, Registered, RunningIsReady, Initialised, AllRunning
<1>3. Inserters'
  BY DEF IInv, TableInv, Inserters
<1>4. ContextInOrder' /\ ListedOnce' /\ ListedLive'
  BY DEF IInv, ListsInv, ContextInOrder, ListedOnce, ListedLive, Has, Initialised
<1>5. QED
  BY <1>1, <1>2, <1>3, <1>4

(* Once all threads are running, nobody is inside the table and every       *)
(* command of the program is in it.                                        *)
LEMMA RunningIsComplete ==
    ASSUME IInv, AllRunning
    PROVE  Free("commands") /\ \A c \in Commands : table[c] # NoLine
<1>1. Free("commands")
  BY DEF IInv, TableInv, Inserters, AllRunning, Free
<1>2. ASSUME NEW c \in Commands
      PROVE  table[c] # NoLine
  <2>1. CASE c \in MainCommands
    BY <2>1 DEF IInv, TableInv, Registered
  <2>2. CASE c \notin MainCommands
    <3>1. PICK p \in Procs : c \in OwnBy(p)
      BY <2>2 DEF Commands
    <3>2. PICK i \in 1..Len(OwnOf[p]) : OwnOf[p][i] = c
      BY <3>1, OwnNames
    <3>3. done[p] = Len(OwnOf[p])
      BY DEF IInv, TableInv, RunningIsReady, AllRunning
    <3>4. QED
      BY <3>2, <3>3 DEF IInv, TableInv, Registered
  <2>3. QED
    BY <2>1, <2>2
<1>3. QED
  BY <1>1, <1>2

(* A command at work was typed early, or nothing races with it and it is in *)
(* the table.                                                              *)
LEMMA EarlyOrFound ==
    ASSUME IInv, pc # "prompt"
    PROVE  /\ lines > 0 /\ line \in Commands
           /\ early \/ (AllRunning /\ ~raced /\ Free("commands") /\ table[line] # NoLine)
BY RunningIsComplete DEF IInv, TableInv, CommandInWork, LateIsQuiet

LEMMA ReadLineStep ==
    ASSUME IInv, NEW c \in Commands, NEW place \in {"lookup", "completing"},
           ReadLine(c, place), over = "no"
    PROVE  IInv'
<1>1. /\ UNCHANGED <<inside, lists, socket, table, done, phase, callee, node, over>>
      /\ pc' = place /\ line' = c /\ lines' = lines + 1 /\ lines < MaxLines
      /\ early' = ~AllRunning /\ missed' = FALSE /\ stale' = FALSE /\ raced' = ~Free("commands")
  BY DEF ReadLine, regvars
<1>2. /\ RegTypeOK' /\ table' \in [Commands -> Threads \cup {NoLine}]
      /\ done' \in [Procs -> Nat] /\ \A p \in Procs : done'[p] <= Len(OwnOf[p])
      /\ phase' \in [Procs -> {"made", "init", "running"}]
      /\ Registered' /\ Inserters' /\ RunningIsReady' /\ AllRunning' = AllRunning
      /\ ContextInOrder' /\ ListedOnce' /\ ListedLive'
  BY <1>1, MainKeeps DEF IInv, TypeOK, RegTypeOK
<1>3. lines' \in 0..MaxLines /\ lines' > 0
  BY <1>1, ShellAssumption DEF IInv, TypeOK
<1>4. TypeOK'
  <2>1. early' \in BOOLEAN /\ raced' \in BOOLEAN
    BY <1>1 DEF AllRunning, Free
  <2>2. QED
    BY <1>1, <1>2, <1>3, <2>1 DEF IInv, TypeOK
<1>5. LateIsQuiet' /\ CommandInWork' /\ WalkHolds'
  BY <1>1, <1>2, <1>3, RunningIsComplete DEF LateIsQuiet, CommandInWork, WalkHolds
<1>6. MissedOnlyEarly' /\ CrashHasCause'
  BY <1>1 DEF MissedOnlyEarly, CrashHasCause
<1>7. QED
  BY <1>2, <1>4, <1>5, <1>6 DEF IInv, TableInv, ListsInv

LEMMA EndOfInputStep ==
    ASSUME IInv, EndOfInput
    PROVE  IInv'
<1> USE DEF EndOfInput, regvars, mainvars, lists
<1>1. TypeOK'
  BY DEF IInv, TypeOK, RegTypeOK
<1>2. TableInv'
  BY DEF IInv, TableInv, LateIsQuiet, AllRunning, CommandInWork, Registered, Inserters,
         RunningIsReady, Initialised
<1>3. ListsInv'
  BY DEF IInv, ListsInv, ContextInOrder, ListedOnce, ListedLive, WalkHolds, Has, Initialised,
         MutexOf, ListOf
<1>4. QED
  BY <1>1, <1>2, <1>3 DEF IInv, MissedOnlyEarly, CrashHasCause

(* A reading of the table: what find() answers to a line typed late is the  *)
(* function of the command.                                                *)
LEMMA FindSteps ==
    ASSUME IInv, Lookup \/ Complete, over = "no"
    PROVE  IInv'
<1>1. /\ UNCHANGED <<inside, lists, socket, table, done, phase, lines, early, node, stale>>
      /\ pc \in {"lookup", "completing"} /\ raced' = ~Free("commands")
      /\ \/ pc' = "prompt" /\ line' = NoLine
         \/ pc' \in {"call", "completing"} /\ line' = line
  BY DEF Lookup, Complete, Quiet, Goto, Prompt
<1>2. /\ RegTypeOK' /\ table' \in [Commands -> Threads \cup {NoLine}]
      /\ done' \in [Procs -> Nat] /\ \A p \in Procs : done'[p] <= Len(OwnOf[p])
      /\ phase' \in [Procs -> {"made", "init", "running"}]
      /\ Registered' /\ Inserters' /\ RunningIsReady' /\ AllRunning' = AllRunning
      /\ ContextInOrder' /\ ListedOnce' /\ ListedLive'
  BY <1>1, MainKeeps DEF IInv, TypeOK, RegTypeOK
<1>3. /\ lines > 0 /\ line \in Commands
      /\ early \/ (AllRunning /\ ~raced /\ Free("commands") /\ table[line] # NoLine)
  BY <1>1, EarlyOrFound
<1>4. /\ missed' \in BOOLEAN /\ callee' \in Threads /\ over' \in {"no", "crashed"}
      /\ ~early => over' = "no" /\ (missed' => missed)
  <2>1. ASSUME NEW answer \in Answers
        PROVE  /\ answer \in {"found", "not found", "crash"}
               /\ early \/ answer = "found"
    BY <1>3 DEF Answers
  <2>2. CASE Complete
    BY <2>1, <2>2 DEF Complete, IInv, TypeOK
  <2>3. CASE Lookup
    <3>1. PICK answer \in Answers :
            /\ missed' = (answer = "not found")
            /\ over' = IF answer = "crash" THEN "crashed" ELSE over
            /\ IF answer = "found" THEN Goto("call") /\ callee' \in Found
                                   ELSE Prompt /\ UNCHANGED callee
      BY <2>3 DEF Lookup
    <3>2. Found \subseteq Threads
      BY <1>3 DEF Found, IInv, TypeOK, Threads
    <3>3. callee' \in Threads
      BY <3>1, <3>2 DEF IInv, TypeOK
    <3>4. QED
      BY <2>1, <3>1, <3>3
  <2>4. QED
    BY <2>2, <2>3
<1>5. TypeOK'
  <2>1. raced' \in BOOLEAN
    BY <1>1 DEF Free
  <2>2. QED
    BY <1>1, <1>2, <1>4, <2>1 DEF IInv, TypeOK
<1>6. LateIsQuiet' /\ CommandInWork' /\ WalkHolds'
  BY <1>1, <1>2, <1>3 DEF LateIsQuiet, CommandInWork, WalkHolds
<1>7. MissedOnlyEarly' /\ CrashHasCause'
  BY <1>1, <1>4 DEF IInv, MissedOnlyEarly, CrashHasCause
<1>8. QED
  BY <1>2, <1>5, <1>6, <1>7 DEF IInv, TableInv, ListsInv

(* A command that goes on or ends without touching the mutexes.            *)
LEMMA CommandKeeps ==
    ASSUME IInv, Quiet, UNCHANGED <<inside, raced, missed>>, pc # "prompt",
           \/ pc' = "prompt" /\ line' = NoLine
           \/ pc' \in {"stats", "walk"} /\ UNCHANGED line,
           WalkHolds', CrashHasCause', callee' \in Threads, stale' \in BOOLEAN,
           node' \in Services \cup Listeners \cup {Nothing},
           over' \in {"no", "quit", "crashed", "terminated"}
    PROVE  IInv'
<1> USE DEF Quiet
<1>1. /\ RegTypeOK' /\ table' \in [Commands -> Threads \cup {NoLine}]
      /\ done' \in [Procs -> Nat] /\ \A p \in Procs : done'[p] <= Len(OwnOf[p])
      /\ phase' \in [Procs -> {"made", "init", "running"}]
      /\ Registered' /\ Inserters' /\ RunningIsReady' /\ AllRunning' = AllRunning
      /\ ContextInOrder' /\ ListedOnce' /\ ListedLive'
  BY MainKeeps DEF IInv, TypeOK, RegTypeOK
<1>2. lines > 0 /\ line \in Commands
  BY EarlyOrFound
<1>3. TypeOK'
  BY <1>1, <1>2 DEF IInv, TypeOK
<1>4. LateIsQuiet' /\ CommandInWork' /\ MissedOnlyEarly'
  BY <1>1, <1>2 DEF IInv, TableInv, LateIsQuiet, CommandInWork, MissedOnlyEarly
<1>5. QED
  BY <1>1, <1>3, <1>4 DEF IInv, TableInv, ListsInv

LEMMA SimpleStep ==
    ASSUME IInv, Simple, over = "no"
    PROVE  IInv'
<1>1. /\ Quiet /\ UNCHANGED <<inside, callee, node, raced, stale, missed>>
      /\ pc = "call" /\ pc' = "prompt" /\ line' = NoLine /\ over' \in Ends
  BY DEF Simple, Prompt
<1>2. over' \in {"no", "quit", "crashed", "terminated"} /\ (over' = "crashed" => raced)
  BY <1>1 DEF Ends
<1>3. CrashHasCause'
  BY <1>1, <1>2, EarlyOrFound DEF CrashHasCause, Quiet
<1>4. QED
  BY <1>1, <1>2, <1>3, CommandKeeps DEF IInv, TypeOK, WalkHolds

LEMMA FetchSocketStep ==
    ASSUME IInv, FetchSocket, over = "no"
    PROVE  IInv'
<1>1. /\ Quiet /\ UNCHANGED <<inside, callee, node, raced, missed, over>> /\ pc = "call"
      /\ \/ pc' = "prompt" /\ line' = NoLine
         \/ pc' = "stats" /\ UNCHANGED line
      /\ stale' \in BOOLEAN
  BY DEF FetchSocket, Prompt, Goto
<1>2. CrashHasCause'
  BY <1>1 DEF CrashHasCause
<1>3. QED
  BY <1>1, <1>2, CommandKeeps DEF IInv, TypeOK, WalkHolds

LEMMA UseSocketStep ==
    ASSUME IInv, UseSocket, over = "no"
    PROVE  IInv'
<1>1. /\ Quiet /\ UNCHANGED <<inside, callee, node, raced, stale, missed>> /\ pc = "stats"
      /\ pc' = "prompt" /\ line' = NoLine
      /\ over' \in {"no", "crashed"} /\ (over' = "crashed" => stale)
  BY DEF UseSocket, Prompt
<1>2. CrashHasCause'
  BY <1>1 DEF CrashHasCause
<1>3. QED
  BY <1>1, <1>2, CommandKeeps DEF IInv, TypeOK, WalkHolds

(* No walk meets a freed listener; a service whose context is missing       *)
(* belongs to a process that is starting.                                  *)
LEMMA BadIsEarly ==
    ASSUME IInv, pc = "walk", node # Nothing, Bad
    PROVE  early
<1> SUFFICES ASSUME ~early PROVE FALSE
  OBVIOUS
<1>1. AllRunning /\ line \in {"ListService", "ListListener"} /\ Has(ListOf, node)
  BY EarlyOrFound DEF IInv, ListsInv, WalkHolds
<1>2. CASE line = "ListService"
  <2>1. node \in Services /\ node \notin context
    BY <1>1, <1>2, HasTyped DEF IInv, TypeOK, RegTypeOK, ListOf, Bad
  <2>2. PICK p \in Procs, kind \in {"process", "program"} : node = <<p, kind>>
    BY <2>1 DEF Services
  <2>3. <<p, "program">> \in context /\ <<p, "process">> \in context
    BY <1>1 DEF IInv, TableInv, ListsInv, RunningIsReady, AllRunning, Initialised, ContextInOrder
  <2>4. QED
    BY <2>1, <2>2, <2>3
<1>3. CASE line = "ListListener"
  <2>1. node \in Listeners /\ Dead(node) /\ Has(listeners, node)
    BY <1>1, <1>3, HasTyped DEF IInv, TypeOK, RegTypeOK, ListOf, Bad
  <2>2. PICK p \in Procs : node = <<p, "socket">> /\ socket[p] \in {"none", "freed"}
    BY <2>1 DEF Listeners, Dead
  <2>3. socket[p] \in {"alive", "dying"}
    BY <2>1, <2>2 DEF IInv, ListsInv, ListedLive
  <2>4. QED
    BY <2>2, <2>3
<1>4. QED
  BY <1>1, <1>2, <1>3

(* What a walk goes to next is of its list, which is typed.                *)
LEMMA NodeTyped ==
    ASSUME IInv, NEW x, x = Nothing \/ Has(ListOf, x)
    PROVE  x \in Services \cup Listeners \cup {Nothing}
BY HasTyped DEF IInv, TypeOK, RegTypeOK, ListOf

LEMMA WalkStep ==
    ASSUME IInv, Walk, over = "no"
    PROVE  IInv'
<1>1. /\ Quiet /\ UNCHANGED <<inside, callee, raced, stale, missed>> /\ pc = "walk"
      /\ pc' = "walk" /\ UNCHANGED line /\ node # Nothing /\ node' = After(ListOf, node)
      /\ over' \in {"no", "crashed"} /\ (over' = "crashed" => Bad)
  BY DEF Walk, Goto
<1>2. ListOf' = ListOf /\ MutexOf' = MutexOf
  BY <1>1 DEF ListOf, MutexOf, Quiet, lists
<1>3. node' = Nothing \/ Has(ListOf, node')
  BY <1>1, Walked DEF IInv, TypeOK, RegTypeOK, ListOf
<1>4. WalkHolds'
  BY <1>1, <1>2, <1>3 DEF IInv, ListsInv, WalkHolds, Has
<1>5. CrashHasCause'
  BY <1>1, BadIsEarly DEF CrashHasCause, Quiet
<1>6. QED
  BY <1>1, <1>3, <1>4, <1>5, CommandKeeps, NodeTyped DEF IInv, TypeOK

LEMMA BeginWalkStep ==
    ASSUME IInv, BeginWalk, over = "no"
    PROVE  IInv'
<1>1. /\ Quiet /\ UNCHANGED <<callee, raced, stale, missed, over>> /\ pc = "call"
      /\ pc' = "walk" /\ UNCHANGED line /\ node' = First(ListOf)
      /\ line \in {"ListService", "ListListener"}
      /\ inside' = [inside EXCEPT ![MutexOf] = @ \cup {Main}]
      /\ inside \in [Mutexes -> SUBSET Threads]
  BY DEF BeginWalk, Goto, Enter, IInv, TypeOK, RegTypeOK
<1>2. MutexOf \in Mutexes /\ MutexOf # "commands" /\ "commands" \in Mutexes
  BY DEF MutexOf, Mutexes
<1>3. /\ inside' \in [Mutexes -> SUBSET Threads] /\ inside'["commands"] = inside["commands"]
      /\ Main \in inside'[MutexOf]
  BY <1>1, <1>2 DEF Threads
<1>4. /\ RegTypeOK' /\ table' \in [Commands -> Threads \cup {NoLine}]
      /\ done' \in [Procs -> Nat] /\ \A p \in Procs : done'[p] <= Len(OwnOf[p])
      /\ phase' \in [Procs -> {"made", "init", "running"}]
      /\ Registered' /\ Inserters' /\ RunningIsReady' /\ AllRunning' = AllRunning
      /\ ContextInOrder' /\ ListedOnce' /\ ListedLive'
  BY <1>1, <1>3, MainKeeps DEF Quiet
<1>5. ListOf' = ListOf /\ MutexOf' = MutexOf
  BY <1>1 DEF ListOf, MutexOf, Quiet, lists
<1>6. node' = Nothing \/ Has(ListOf, node')
  BY <1>1, Walked DEF IInv, TypeOK, RegTypeOK, ListOf
<1>7. TypeOK'
  BY <1>1, <1>4, <1>6, NodeTyped DEF IInv, TypeOK, Quiet
<1>8. WalkHolds'
  BY <1>1, <1>3, <1>5, <1>6 DEF WalkHolds, Has
<1>9. /\ LateIsQuiet' /\ CommandInWork' /\ MissedOnlyEarly' /\ CrashHasCause'
  BY <1>1, <1>4, EarlyOrFound DEF IInv, TableInv, LateIsQuiet, CommandInWork, MissedOnlyEarly,
                                  CrashHasCause, Quiet
<1>10. QED
  BY <1>4, <1>7, <1>8, <1>9 DEF IInv, TableInv, ListsInv

LEMMA EndWalkStep ==
    ASSUME IInv, EndWalk, over = "no"
    PROVE  IInv'
<1>1. /\ Quiet /\ UNCHANGED <<callee, node, raced, stale, missed, over>> /\ pc = "walk"
      /\ pc' = "prompt" /\ line' = NoLine
      /\ inside' = [inside EXCEPT ![MutexOf] = @ \ {Main}]
      /\ inside \in [Mutexes -> SUBSET Threads]
  BY DEF EndWalk, Prompt, Leave, IInv, TypeOK, RegTypeOK
<1>2. MutexOf \in Mutexes /\ MutexOf # "commands" /\ "commands" \in Mutexes
  BY DEF MutexOf, Mutexes
<1>3. inside' \in [Mutexes -> SUBSET Threads] /\ inside'["commands"] = inside["commands"]
  BY <1>1, <1>2
<1>4. /\ RegTypeOK' /\ table' \in [Commands -> Threads \cup {NoLine}]
      /\ done' \in [Procs -> Nat] /\ \A p \in Procs : done'[p] <= Len(OwnOf[p])
      /\ phase' \in [Procs -> {"made", "init", "running"}]
      /\ Registered' /\ Inserters' /\ RunningIsReady' /\ AllRunning' = AllRunning
      /\ ContextInOrder' /\ ListedOnce' /\ ListedLive'
  BY <1>1, <1>3, MainKeeps DEF Quiet
<1>5. TypeOK'
  BY <1>1, <1>4 DEF IInv, TypeOK, Quiet
<1>6. /\ LateIsQuiet' /\ CommandInWork' /\ MissedOnlyEarly' /\ CrashHasCause' /\ WalkHolds'
  BY <1>1, <1>4 DEF IInv, TableInv, LateIsQuiet, CommandInWork, MissedOnlyEarly,
                    CrashHasCause, WalkHolds, Quiet
<1>7. QED
  BY <1>4, <1>5, <1>6 DEF IInv, TableInv, ListsInv
-----------------------------------------------------------------------------
LEMMA Stutters ==
    ASSUME IInv, UNCHANGED vars
    PROVE  IInv'
<1> USE DEF vars, regvars, mainvars, lists
<1>1. TypeOK'
  BY DEF IInv, TypeOK, RegTypeOK
<1>2. TableInv'
  BY DEF IInv, TableInv, LateIsQuiet, AllRunning, CommandInWork, Registered, Inserters,
         RunningIsReady, Initialised
<1>3. ListsInv'
  BY DEF IInv, ListsInv, ContextInOrder, ListedOnce, ListedLive, WalkHolds, Has, Initialised,
         MutexOf, ListOf
<1>4. QED
  BY <1>1, <1>2, <1>3 DEF IInv, MissedOnlyEarly, CrashHasCause

(* The inductive invariant: which threads may still change the table and    *)
(* the lists that the shell reads (xma_shell.cpp, xma_service.cpp,          *)
(* xma_listener.cpp), and what a reading of them may meet.                 *)
THEOREM ShellInvariant == Spec => []IInv
<1>1. IInv /\ [Next]_vars => IInv'
  <2> SUFFICES ASSUME IInv, [Next]_vars PROVE IInv'
    OBVIOUS
  <2>1. ASSUME NEW p \in Procs, ThreadStep(p)
        PROVE  IInv'
    BY <2>1, ThreadSteps
  <2>2. ASSUME over = "no", NEW c \in Commands, ReadLine(c, "lookup") \/ ReadLine(c, "completing")
        PROVE  IInv'
    BY <2>2, ReadLineStep
  <2>3. CASE EndOfInput
    BY <2>3, EndOfInputStep
  <2>4. CASE MainStep
    BY <2>4, FindSteps, SimpleStep, BeginWalkStep, WalkStep, EndWalkStep, FetchSocketStep,
       UseSocketStep DEF MainStep
  <2>5. CASE UNCHANGED vars
    BY <2>5, Stutters
  <2>6. QED
    BY <2>1, <2>2, <2>3, <2>4, <2>5 DEF Next
<1>2. QED
  BY <1>1, InitInv, PTL DEF Spec

(* The shape of the table, the lists and the state of the shell.           *)
THEOREM ShellTypes == Spec => []TypeOK
<1>1. IInv => TypeOK
  BY DEF IInv
<1>2. QED
  BY <1>1, ShellInvariant, PTL

(* ExecCommand answers "not found" to a command of the program only when    *)
(* the line was read before every thread had ended its Init.               *)
THEOREM MissesAreEarly == Spec => []MissedOnlyEarly
<1>1. IInv => MissedOnlyEarly
  BY DEF IInv
<1>2. QED
  BY <1>1, ShellInvariant, PTL

(* The shell crashes the program only while threads are starting, or in a   *)
(* ShowStats whose socket is deleted meanwhile: never by a walk that meets  *)
(* a freed listener, and never by two insertions into the table at once.   *)
THEOREM CrashesHaveCauses == Spec => []CrashHasCause
<1>1. IInv => CrashHasCause
  BY DEF IInv
<1>2. QED
  BY <1>1, ShellInvariant, PTL
=============================================================================
