----------------------------- MODULE EchoPromise -----------------------------
(***************************************************************************)
(* What an echo server promises on one connection: it takes what the       *)
(* client has sent in blocks of ReadLen bytes and returns each block once, *)
(* whole and in order; it passes over a block only when it has failed, and *)
(* when it ends, what it has not sent yet is all that it takes back.       *)
(***************************************************************************)
EXTENDS Integers, Sequences

CONSTANTS MsgLen, ReadLen

VARIABLES
    sent,       \* the bytes the client has handed over
    serving,    \* the server has its socket
    taken,      \* how many bytes it has read off the front of `sent`
    echoed,     \* what it has returned
    failed      \* something has gone wrong on its side

vars == <<sent, serving, taken, echoed, failed>>

Init == sent = <<>> /\ serving = TRUE /\ taken = 0 /\ echoed = <<>> /\ failed = FALSE

Submit ==
    /\ sent' = sent \o [i \in 1..MsgLen |-> Len(sent) + i]
    /\ UNCHANGED <<serving, taken, echoed, failed>>

Take == serving /\ taken + ReadLen <= Len(sent) /\ taken' = taken + ReadLen

Return ==
    /\ Take
    /\ echoed' = echoed \o SubSeq(sent, taken + 1, taken + ReadLen)
    /\ UNCHANGED <<sent, serving, failed>>

Lose ==
    /\ Take
    /\ failed'
    /\ UNCHANGED <<sent, serving, echoed>>

Fail ==
    /\ serving /\ failed'
    /\ UNCHANGED <<sent, serving, taken, echoed>>

End ==
    /\ serving /\ ~serving' /\ taken' = 0 /\ failed'
    /\ \E n \in 0..Len(echoed) : echoed' = SubSeq(echoed, 1, n)
    /\ UNCHANGED sent

Next == Submit \/ Return \/ Lose \/ Fail \/ End

Spec == Init /\ [][Next]_vars
=============================================================================
