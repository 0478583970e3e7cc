------------------------------ MODULE SocketBuff ------------------------------
(***************************************************************************)
(* The sizing rules of CPngConnBuf (xma_socket_cache.h), the growing        *)
(* buffer a StreamSocket keeps for each direction.                          *)
(*                                                                         *)
(* A buffer is a capacity `len` (m_len) and an index `idx` (m_index, the   *)
(* number of bytes it holds); the bytes themselves are kept by the module  *)
(* that uses it.  Every operator below answers the capacity that a method  *)
(* leaves behind, or the question the method asks.                         *)
(***************************************************************************)
EXTENDS Integers

CONSTANTS
    InitLen,    \* the capacity the constructor allocates (512)
    MaxLen,     \* m_maxBufLen: STREAM_RWBUFLEN(len) * 2 (66080 for len 8196)
    ConnLen,    \* CONNECTION_LEN (4096)
    Slack,      \* the bytes recomputeCanLen sets aside (16)
    RateNum,    \* m_canRate of the sending buffer as a fraction (7 / 10)
    RateDen

(* MaxLen may be any integer, smaller than InitLen too: an accepted socket *)
(* computes it from an uninitialised field (xma_socket.h:222, 236).        *)
ASSUME BuffAssumption ==
    /\ InitLen \in Nat \ {0}
    /\ MaxLen \in Int
    /\ ConnLen \in Nat \ {0}
    /\ Slack \in Nat
    /\ RateNum \in Nat
    /\ RateDen \in Nat \ {0}
    /\ RateNum <= RateDen

(* The largest capacity a buffer that is never resized by hand can reach.  *)
Cap == IF MaxLen > InitLen THEN MaxLen ELSE InitLen

(* recomputeCanLen: the threshold above which a sender counts as full.     *)
CanLen(len) ==
    LET share == (len * RateNum) \div RateDen
    IN  IF share > Slack THEN share - Slack ELSE share

(* getFreeLen: never negative, also when the index has run past the end.   *)
FreeLen(len, idx) == IF idx < len THEN len - idx ELSE 0

(* The loop of expand: from a capacity `new`, double until the goal is met  *)
(* or a doubling exceeds MaxLen, which is then the answer.                  *)
Growth(goal) ==
    LET grow[new \in Nat \ {0}] ==
            IF 2 * new > MaxLen THEN MaxLen
            ELSE IF 2 * new >= goal THEN 2 * new
            ELSE grow[2 * new]
    IN  grow

(* expand: room for `need` bytes more; a buffer never shrinks here.         *)
ExpandUnguarded(len, need) ==           \* mutant: does not look whether it grows
    IF need > 0 THEN Growth(len + need)[len] ELSE len

Expand(len, need) ==
    LET new == Growth(len + need)[len]
    IN  IF need > 0 /\ new > len THEN new ELSE len

(* copyBuf of n bytes: the capacity it leaves, and whether the bytes fit.  *)
CopyLen(len, idx, n) ==
    IF n > FreeLen(len, idx) THEN Expand(len, n) ELSE len

CopyFits(len, idx, n) == n <= FreeLen(CopyLen(len, idx, n), idx)

(* checkCanOp(n): the capacity it leaves, and its verdict.                 *)
CheckLen(len, idx, n) ==
    IF idx + n > CanLen(len)
    THEN Expand(len, idx + n - CanLen(len) + ConnLen)
    ELSE len

CanOp(len, idx, n) == idx + n <= CanLen(CheckLen(len, idx, n))

(* addIndex: the capacity once the index has become `idx`.                 *)
AddLenLate(len, idx) ==     \* mutant: makes room when none is left
    IF FreeLen(len, idx) = 0 THEN Expand(len, ConnLen) ELSE len

AddLen(len, idx) ==
    IF FreeLen(len, idx) < ConnLen THEN Expand(len, ConnLen) ELSE len

(* setNewSize: grow to any size, shrink only to one that holds the bytes.  *)
NewSizeUnsafe(len, idx, size) == size     \* mutant: shrinks below the index

NewSize(len, idx, size) == IF size > len \/ size > idx THEN size ELSE len
=============================================================================
