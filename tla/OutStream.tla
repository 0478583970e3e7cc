------------------------------- MODULE OutStream -------------------------------
(***************************************************************************)
(* What the sending half of a StreamSocket promises: the peer receives the *)
(* bytes of the accepted messages, whole, once and in the order of the     *)
(* calls, however the bytes are divided between the kernel and a cache, and *)
(* nothing of a message that was refused.                                  *)
(***************************************************************************)
EXTENDS Naturals, Sequences

CONSTANT Lens       \* the lengths of messages

VARIABLES
    open,           \* a connection is being set up or is in use
    accepted,       \* the bytes accepted on this connection, in order
    pending,        \* accepted and not yet given to the network
    wire            \* given to the network

vars == <<open, accepted, pending, wire>>

Init == open = FALSE /\ accepted = <<>> /\ pending = <<>> /\ wire = <<>>

Connect ==
    /\ ~open /\ open'
    /\ accepted' = <<>> /\ pending' = <<>> /\ wire' = <<>>

(* Give the network some more of the bytes of `all`, in order.             *)
Send(all) ==
    \E k \in Len(wire)..Len(all) :
        /\ wire' = SubSeq(all, 1, k)
        /\ pending' = SubSeq(all, k + 1, Len(all))

Submit == \E n \in Lens :
    /\ open /\ UNCHANGED open
    /\ accepted' = accepted \o [i \in 1..n |-> Len(accepted) + i]
    /\ Send(accepted')

Transmit == open /\ UNCHANGED <<open, accepted>> /\ Send(wire \o pending)

(* The connection ends, and what is still pending with it; the last call    *)
(* may have given the network some of it before it failed.                  *)
Disconnect ==
    /\ open /\ ~open' /\ UNCHANGED accepted
    /\ \E k \in Len(wire)..Len(wire \o pending) : wire' = SubSeq(wire \o pending, 1, k)
    /\ pending' = <<>>

Next == Connect \/ Submit \/ Transmit \/ Disconnect

Spec == Init /\ [][Next]_vars
=============================================================================
