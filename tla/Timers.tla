-------------------------------- MODULE Timers --------------------------------
(***************************************************************************)
(* Timers of one process: Timer and TimerMgr of xma_timer.cpp, and the     *)
(* part of Process::Main that waits, checks the timers and then handles    *)
(* events.                                                                 *)
(*                                                                         *)
(* CheckTimers is not one step here: it walks a std::list with an iterator *)
(* while the callbacks it calls set, stop, restart and destroy timers.     *)
(* `list` is that list and `it` the index of the entry the iterator is at. *)
(*                                                                         *)
(* Callbacks do all that the interface allows. Some of it leads to the use  *)
(* of an erased entry or of a freed timer; `tame` records whether the      *)
(* callbacks have kept clear of that so far, and the properties of the     *)
(* walk are about the runs in which they have.                             *)
(***************************************************************************)
EXTENDS Integers, Sequences, FiniteSets

CONSTANTS
    Timers,         \* the Timer objects
    Expire,         \* expire_ of each timer, in ticks of the clock
    Tick,           \* ticks in a millisecond: the clock is finer than a Duration
    MaxWait,        \* the longest wait of Main, in milliseconds (10)
    MaxTime         \* bound: the clock

ASSUME TimersAssumption ==
    /\ Expire \in [Timers -> Nat]
    /\ Tick \in Nat \ {0} /\ MaxWait \in Nat \ {0} /\ MaxTime \in Nat

VARIABLES
    now,        \* Clock::now()
    phase,      \* where Main is: "wait", "check", "fire" (a callback), "handle"
    list,       \* timers_
    it,         \* the iterator of CheckTimers, 0 when its entry was erased
    firing,     \* the timers whose callback is running
    start,      \* the `now` CheckTimers has read
    tp,         \* tp_ of each timer
    status,     \* status_ of each timer, "Destroyed" once it is destroyed
    timeout,    \* Main's timeout, in milliseconds
    wake,       \* when the wait under way ends at the latest
    broken,     \* an erased entry or a freed timer was used: no more is known
    tame,       \* history: whether every callback so far was a tame one
    planned     \* history: the timers that `timeout` was computed to be back for

vars == <<now, phase, list, it, firing, start, tp, status, timeout, wake, broken, tame, planned>>
loop == <<phase, firing, start, timeout, wake>>

Statuses == {"Actived", "Deactived", "Destroyed"}

Init ==
    /\ now = 0 /\ phase = "handle"
    /\ list = <<>> /\ it = 1 /\ firing = {} /\ start = 0
    /\ tp = [t \in Timers |-> 0]
    /\ status = [t \in Timers |-> "Deactived"]
    /\ timeout = MaxWait /\ wake = 0
    /\ broken = FALSE /\ tame = TRUE /\ planned = {}
-----------------------------------------------------------------------------
(* The list.                                                                *)

Least(S) == CHOOSE i \in S : \A j \in S : i <= j

(* SetTimer: before the first entry that is due later than t.               *)
PlaceAtFront(l, t, due) == 1                                        \* mutant

Place(l, t, due) ==
    Least({i \in DOMAIN l : due[t] < due[l[i]]} \cup {Len(l) + 1})

Inserted(l, i, t) == SubSeq(l, 1, i - 1) \o <<t>> \o SubSeq(l, i, Len(l))
Erased(l, i) == SubSeq(l, 1, i - 1) \o SubSeq(l, i + 1, Len(l))

(* StopTimer: the first entry with the id of t, 0 when there is none.       *)
Find(l, t) ==
    IF \E i \in DOMAIN l : l[i] = t THEN Least({i \in DOMAIN l : l[i] = t}) ELSE 0

(* A search dereferences the timers of the entries it passes. One that was  *)
(* destroyed has left its pointer in the list if it is firing: it is not    *)
(* active then, so its destructor does not stop it, and the entry stays     *)
(* until its callback returns.                                              *)
FreedUpTo(l, n) == \E i \in DOMAIN l : i <= n /\ status[l[i]] = "Destroyed"

(* A list iterator stays at its entry when others come and go.              *)
AfterInsert(i, k) == IF phase = "fire" /\ k # 0 /\ i <= k THEN k + 1 ELSE k
AfterErase(i, k) ==
    IF phase # "fire" \/ i > k THEN k ELSE IF i = k THEN 0 ELSE k - 1
-----------------------------------------------------------------------------
(* What callbacks and event handlers may call.                              *)

Calling == ~broken /\ phase \in {"fire", "handle"}

(* What the code relies on and its interface does not say. A callback that  *)
(* has destroyed its own timer calls nothing more that searches the list;   *)
(* none stops, restarts or destroys its own timer while that is active or   *)
(* in the list; and one that has armed its own timer again does not then    *)
(* arm or restart another for an earlier time.                              *)
OwnNotFreed == \A f \in firing : status[f] # "Destroyed"
OwnAlone(t) == t \notin firing
NotBeforeOwn(due) == \A f \in firing : status[f] = "Actived" => due >= tp[f]

Set(t) ==
    /\ Calling /\ status[t] = "Deactived"
    /\ now + Expire[t] < MaxTime
    /\ tp' = [tp EXCEPT ![t] = now + Expire[t]]
    /\ LET i == Place(list, t, tp')
       IN  /\ list' = Inserted(list, i, t) /\ it' = AfterInsert(i, it)
           /\ broken' = FreedUpTo(list, i)
    /\ status' = [status EXCEPT ![t] = "Actived"]
    /\ tame' = (tame /\ OwnNotFreed /\ NotBeforeOwn(now + Expire[t]))
    /\ planned' = planned \ {t}
    /\ UNCHANGED <<now, loop>>

Remove(t) ==
    LET i == Find(list, t)
    IN  /\ IF i = 0 THEN UNCHANGED <<list, it>>
           ELSE list' = Erased(list, i) /\ it' = AfterErase(i, it)
        /\ broken' = FreedUpTo(list, IF i = 0 THEN Len(list) ELSE i)

Stop(t) ==
    /\ Calling /\ status[t] = "Actived"
    /\ Remove(t)
    /\ tame' = (tame /\ OwnNotFreed /\ OwnAlone(t))
    /\ status' = IF Find(list, t) = 0 THEN status ELSE [status EXCEPT ![t] = "Deactived"]
    /\ UNCHANGED <<now, tp, planned, loop>>

(* RestartTimer: StopTimer and, if that has found the timer, SetTimer of    *)
(* the manager; neither the time nor the status of the timer changes.       *)
Restart(t) ==
    /\ Calling /\ status[t] # "Destroyed"
    /\ LET j == Find(list, t)
           l == Erased(list, j)
           i == Place(l, t, tp)
       IN  IF j = 0 THEN UNCHANGED <<list, it>> /\ broken' = FreedUpTo(list, Len(list))
           ELSE /\ list' = Inserted(l, i, t)
                /\ it' = AfterInsert(i, AfterErase(j, it))
                /\ broken' = (FreedUpTo(list, j) \/ FreedUpTo(l, i))
    /\ tame' = (tame /\ OwnNotFreed /\ OwnAlone(t) /\ NotBeforeOwn(tp[t]))
    /\ UNCHANGED <<now, tp, status, planned, loop>>

(* The destructor stops a timer that is active.                             *)
DestroyUnchecked(t) ==                                               \* mutant
    /\ Calling /\ status[t] # "Destroyed"
    /\ Remove(t)
    /\ tame' = (tame /\ (status[t] = "Actived" => OwnNotFreed /\ OwnAlone(t)))
    /\ status' = [status EXCEPT ![t] = "Destroyed"]
    /\ UNCHANGED <<now, tp, planned, loop>>

Destroy(t) ==
    /\ Calling /\ status[t] # "Destroyed"
    /\ IF status[t] = "Actived" THEN Remove(t) ELSE UNCHANGED <<list, it, broken>>
    /\ tame' = (tame /\ (status[t] = "Actived" => OwnNotFreed /\ OwnAlone(t)))
    /\ status' = [status EXCEPT ![t] = "Destroyed"]
    /\ UNCHANGED <<now, tp, planned, loop>>
-----------------------------------------------------------------------------
(* Process::Main and CheckTimers.                                           *)

(* epoll_wait returns, because of an event or at the end of its timeout.    *)
Wake ==
    /\ ~broken /\ phase = "wait"
    /\ phase' = "check" /\ start' = now /\ it' = 1 /\ planned' = {}
    /\ UNCHANGED <<now, list, firing, tp, status, timeout, wake, broken, tame>>

IsDue == it \in DOMAIN list /\ tp[list[it]] <= start

(* Timer::DoHandle, up to the callback.                                     *)
DeactivatedNever(s, t) == s                                          \* mutant
Deactivated(s, t) == [s EXCEPT ![t] = "Deactived"]

Fire ==
    /\ ~broken /\ phase = "check" /\ IsDue
    /\ phase' = "fire" /\ firing' = {list[it]}
    /\ status' = Deactivated(status, list[it])
    /\ UNCHANGED <<now, list, it, start, tp, timeout, wake, broken, tame, planned>>

(* The callback has returned: erase(it) answers the next entry, if `it` is  *)
(* still at one.                                                            *)
SkipsNext(i) == i + 1                                                \* mutant
NextOf(i) == i

Return ==
    /\ ~broken /\ phase = "fire" /\ it # 0
    /\ phase' = "check" /\ firing' = {}
    /\ list' = Erased(list, it) /\ it' = NextOf(it)
    /\ UNCHANGED <<now, start, tp, status, timeout, wake, broken, tame, planned>>

EraseInvalid ==
    /\ ~broken /\ phase = "fire" /\ it = 0
    /\ broken' = TRUE
    /\ UNCHANGED <<now, list, it, tp, status, tame, planned, loop>>

(* How long Main waits next: not past the first timer, as far as a whole    *)
(* number of milliseconds tells, and never longer than before.              *)
WaitRoundsUp(old) ==                                                  \* mutant
    LET next == IF list = <<>> THEN 0 ELSE (tp[Head(list)] - start + Tick - 1) \div Tick
        t    == IF next < old THEN next ELSE old
    IN  IF t <= 0 THEN MaxWait ELSE t

WaitUnbounded(old) ==                                                 \* mutant
    LET next == IF list = <<>> THEN 0 ELSE (tp[Head(list)] - start) \div Tick
    IN  IF next < old THEN next ELSE old

WaitFor(old) ==
    LET next == IF list = <<>> THEN 0 ELSE (tp[Head(list)] - start) \div Tick
        t    == IF next < old THEN next ELSE old
    IN  IF t <= 0 THEN MaxWait ELSE t

EndCheck ==
    /\ ~broken /\ phase = "check" /\ ~IsDue
    /\ phase' = "handle" /\ it' = 1
    /\ timeout' = WaitFor(timeout)
    /\ LET armed == {t \in Timers : status[t] = "Actived"}
       IN  planned' = IF \A t \in armed : tp[t] - start >= Tick THEN armed ELSE {}
    /\ UNCHANGED <<now, list, firing, start, tp, status, wake, broken, tame>>

(* The events are handled: Main waits again.                                *)
Wait ==
    /\ ~broken /\ phase = "handle"
    /\ phase' = "wait" /\ wake' = now + timeout * Tick
    /\ UNCHANGED <<now, list, it, firing, start, tp, status, timeout, broken, tame, planned>>

(* Time passes; a wait ends when its timeout is over.                       *)
Elapse ==
    /\ ~broken /\ now < MaxTime
    /\ phase = "wait" => now < wake
    /\ now' = now + 1
    /\ UNCHANGED <<list, it, tp, status, broken, tame, planned, loop>>

Call == \E t \in Timers : Set(t) \/ Stop(t) \/ Restart(t) \/ Destroy(t)

Next ==
    \/ Call \/ Wake \/ Fire \/ Return \/ EraseInvalid
    \/ EndCheck \/ Wait \/ Elapse

Spec == Init /\ [][Next]_vars

(* The loop and its callbacks go on and time passes; nobody has to call, and *)
(* no event has to come: a wait has to end when its timeout is over, or the *)
(* bounded clock is.                                                        *)
FairSpec ==
    /\ Spec
    /\ WF_vars(Wake /\ (now >= wake \/ now = MaxTime))
    /\ WF_vars(Fire) /\ WF_vars(Return) /\ WF_vars(EndCheck)
    /\ WF_vars(Wait) /\ WF_vars(Elapse)
-----------------------------------------------------------------------------
(* The shape of every variable. *)
TypeOK ==
    /\ now \in 0..MaxTime /\ start \in 0..MaxTime /\ wake \in Nat
    /\ phase \in {"wait", "check", "fire", "handle"}
    /\ list \in Seq(Timers) /\ it \in Nat
    /\ firing \in SUBSET Timers /\ planned \in SUBSET Timers
    /\ tp \in [Timers -> Nat] /\ status \in [Timers -> Statuses]
    /\ timeout \in 1..MaxWait
    /\ broken \in BOOLEAN /\ tame \in BOOLEAN

(* As long as callbacks are tame, no freed timer is read, and the iterator  *)
(* of CheckTimers is still at the timer whose callback runs when the        *)
(* callback returns, so erase(it) erases that entry (line 148).             *)
IteratorValid ==
    tame => ~broken /\ (phase = "fire" => it \in DOMAIN list /\ firing = {list[it]})

(* As long as callbacks are tame, a timer has as many entries, besides one  *)
(* that is firing, as its status says: armed once it fires once, stopped or *)
(* destroyed it never does.                                                 *)
Entries(t) == {i \in DOMAIN list : list[i] = t /\ ~(phase = "fire" /\ i = it)}

FiresOncePerSet ==
    tame => \A t \in Timers : Cardinality(Entries(t)) = IF status[t] = "Actived" THEN 1 ELSE 0

(* Whatever tame callbacks have armed and stopped meanwhile, CheckTimers    *)
(* leaves no timer behind that was due when it began.                       *)
LeavesNoneDue ==
    [][EndCheck /\ tame => \A t \in Timers : status[t] = "Actived" => tp[t] > start]_vars

(* How late Main is at the latest for an armed timer, at any moment of a    *)
(* wait. The wait begins later than the clock was read that its timeout was *)
(* computed from: `Busy` is what callbacks and handlers took in between. A  *)
(* timer the timeout was computed for is late by no more than that. One     *)
(* that a handler has armed since, or any timer if one was less than a      *)
(* millisecond away (the truncated 0 makes Main wait MaxWait), may be late  *)
(* by the wait as well, but never by more than MaxWait.                     *)
Busy == wake - timeout * Tick - start

WakesInTime ==
    phase = "wait" /\ tame =>
        \A t \in Timers : status[t] = "Actived" =>
            now <= tp[t] + Busy + (IF t \in planned THEN 0 ELSE MaxWait * Tick)

(* An armed timer is not forgotten as long as callbacks are tame: it fires, *)
(* or is stopped or destroyed.                                              *)
ArmedFires ==
    \A t \in Timers : (tame /\ status[t] = "Actived") ~> (status[t] # "Actived" \/ ~tame)
=============================================================================
