------------------------------ MODULE MCEchoPair ------------------------------
(* EchoPair with the values a TLC configuration cannot write itself.        *)
EXTENDS EchoPair

(* The server's maximum, computed from the uninitialised buff_len, as in    *)
(* MCStreamSocket.                                                          *)
UninitialisedMax == -1
=============================================================================
