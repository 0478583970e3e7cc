---------------------------- MODULE MCStreamSocket ----------------------------
(* StreamSocket with the value a TLC configuration cannot write itself.     *)
EXTENDS StreamSocket

(* A maximum computed from the uninitialised buff_len (xma_socket.h:236),   *)
(* as an int: the buffer can never grow.                                    *)
UninitialisedMax == -1
=============================================================================
