------------------------------ MODULE MCProcesses ------------------------------
(* Processes with "Init" and one process more, whose callbacks send to it.  *)
EXTENDS Processes

CONSTANTS init, client

MCRoutes == {<<client, init>>}

(* All three outcomes of Epoll::Add, divided between the two processes.     *)
MCAddOutcomes == [p \in {init, client} |->
    {"watched"} \cup IF p = init THEN {"deaf"} ELSE {"thrown"}]
=============================================================================
