---------------------------- MODULE MCShellCommands ----------------------------
(* Two processes in one program, with the commands of the client and of the *)
(* server: an application of the framework has as many as it makes, and     *)
(* both of these register a ShowStats.                                      *)
EXTENDS ShellCommands

CONSTANTS client, server

MCOwnOf == [p \in {client, server} |->
    IF p = client THEN <<"Connect", "ShowStats">> ELSE <<"StartServer", "ShowStats">>]
=============================================================================
