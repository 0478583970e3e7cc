-------------------------------- MODULE Mailbox --------------------------------
(***************************************************************************)
(* What sending a message to a process promises, however the pointer        *)
(* travels: an accepted message is executed by the process it is addressed  *)
(* to, at most once, in the order of acceptance, and the messages of one    *)
(* sender are accepted in the order in which it has made them.              *)
(***************************************************************************)
EXTENDS Naturals, Sequences

CONSTANTS Procs, Senders, Msgs, Unknown

VARIABLES
    from, to,   \* sender and receiver of each message
    pending,    \* accepted by each process and not executed yet
    executed    \* executed by each process

vars == <<from, to, pending, executed>>

In(q) == {q[i] : i \in DOMAIN q}
Accepted == UNION {In(pending[p]) \cup In(executed[p]) : p \in Procs}

Init ==
    /\ from \in [Msgs -> Senders] /\ to \in [Msgs -> Procs \cup {Unknown}]
    /\ pending = [p \in Procs |-> <<>>] /\ executed = [p \in Procs |-> <<>>]

Address(m, s, r) ==
    /\ m \notin Accepted
    /\ from' = [from EXCEPT ![m] = s] /\ to' = [to EXCEPT ![m] = r]
    /\ UNCHANGED <<pending, executed>>

Accept(m) ==
    /\ m \notin Accepted /\ to[m] \in Procs
    /\ \A k \in Accepted : from[k] = from[m] => k < m
    /\ pending' = [pending EXCEPT ![to[m]] = Append(@, m)]
    /\ UNCHANGED <<from, to, executed>>

Execute(p) ==
    /\ pending[p] # <<>>
    /\ pending' = [pending EXCEPT ![p] = Tail(@)]
    /\ executed' = [executed EXCEPT ![p] = Append(@, Head(pending[p]))]
    /\ UNCHANGED <<from, to>>

Next ==
    \/ \E m \in Msgs :
         Accept(m) \/ \E s \in Senders, r \in Procs \cup {Unknown} : Address(m, s, r)
    \/ \E p \in Procs : Execute(p)

Spec == Init /\ [][Next]_vars
=============================================================================
