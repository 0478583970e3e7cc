------------------------------- MODULE EchoPair -------------------------------
(***************************************************************************)
(* The client and the echo server on one connection: TcpClientTimer of     *)
(* client/client_service.cpp sends a message at a time, TcpEchoListener of *)
(* example/server_service.hpp reads ReadLen bytes per event and writes     *)
(* them back, and the client, which has no receiver, drops what comes.     *)
(* A message of the client is one byte longer than what the server reads,  *)
(* 31 and 30.                                                              *)
(*                                                                         *)
(* Both ends are sockets of StreamSocket, from the moment at which both    *)
(* are CONNECTED; the network moves the bytes that one end has given its   *)
(* kernel into the inbox of the other. Nobody arms EPOLLOUT, and no        *)
(* assertion is compiled in.                                               *)
(***************************************************************************)
EXTENDS Integers, Sequences

CONSTANTS
    InitLen, ConnLen, Slack, RateNum, RateDen,      \* as in SocketBuff
    ClientMax, ServerMax,   \* maxima of the buffers of either end
    MaxStreamRead, FakeLen, \* as in StreamSocket
    MsgLen,         \* the length of the client's message (31)
    ReadLen,        \* what the server reads per event (30)
    CtlOutcomes,    \* results of epoll_ctl(EPOLL_CTL_MOD)
    MaxBytes        \* bound: bytes accepted by the client

ASSUME PairAssumption ==
    /\ {InitLen, ConnLen, RateDen, FakeLen, MsgLen, ReadLen} \subseteq Nat \ {0}
    /\ {Slack, RateNum, MaxStreamRead, MaxBytes} \subseteq Nat
    /\ {ClientMax, ServerMax} \subseteq Int
    /\ RateNum <= RateDen
    /\ CtlOutcomes \subseteq BOOLEAN

VARIABLES
    client, server,     \* the two sockets
    sent,               \* bytes for which the client's WriteMsg answered success
    atServer, atClient  \* how many bytes have come to each end

vars == <<client, server, sent, atServer, atClient>>

C == INSTANCE StreamSocket WITH
    conn <- client, accepted <- sent, delivered <- <<>>, peerSent <- 0, opened <- 0, ret <- 0,
    MaxLen <- ClientMax, HasReceiver <- FALSE, DeletesOnErr <- TRUE, ArmsWritable <- FALSE,
    Asserts <- FALSE, MsgLens <- {MsgLen}, ReadLens <- {}, BufSizes <- {},
    MaxPeer <- 0, MaxConns <- 0

S == INSTANCE StreamSocket WITH
    conn <- server, accepted <- <<>>, delivered <- <<>>, peerSent <- 0, opened <- 0, ret <- 0,
    MaxLen <- ServerMax, HasReceiver <- TRUE, DeletesOnErr <- TRUE, ArmsWritable <- FALSE,
    Asserts <- FALSE, MsgLens <- {ReadLen}, ReadLens <- {}, BufSizes <- {},
    MaxPeer <- 0, MaxConns <- 0

(* DoConnect and Accept leave both ends in this state.                      *)
Connected(socket) ==
    [socket EXCEPT !.state = "CONNECTED", !.fd = TRUE, !.armed = C!Idle, !.link = "up"]

Init ==
    /\ client = Connected(C!NewSocket) /\ server = Connected(S!NewSocket)
    /\ sent = <<>> /\ atServer = 0 /\ atClient = 0
-----------------------------------------------------------------------------
(* The client.                                                              *)

SendData == \E ok \in CtlOutcomes :
    /\ C!Alive(client) /\ Len(sent) + MsgLen <= MaxBytes
    /\ LET m == C!NextBytes(Len(sent), MsgLen)
       IN  \E k \in C!SendOutcomes(client, Len(client.tx)), j \in C!SendOutcomes(client, MsgLen) :
             LET write == C!WriteMsg(client, m, k, ok, j)
             IN  /\ client' = write.c
                 /\ sent' = IF write.ret >= 0 THEN sent \o m ELSE sent
    /\ UNCHANGED <<server, atServer, atClient>>

ClientPoll == \E ev \in (SUBSET (client.armed \cap C!ReadyEvents(client))) \ {{}},
                 r \in C!RecvOutcomes(client, FakeLen) :
    /\ C!Alive(client)
    /\ client' = C!DoHandle(client, ev, r, 0, TRUE).c
    /\ UNCHANGED <<server, sent, atServer, atClient>>

(* StopClient.                                                              *)
StopClient ==
    /\ C!Alive(client)
    /\ client' = [C!Reset(client) EXCEPT !.life = "deleted"]
    /\ UNCHANGED <<server, sent, atServer, atClient>>
-----------------------------------------------------------------------------
(* The server: DoReadWrite with TcpEchoListener::DoHandle as the receiver,  *)
(* which does not look at what WriteMsg answers.                            *)

Reply(read, k, ok, j) ==
    IF read.ret > 0 THEN S!WriteMsg(read.c, read.msg, k, ok, j).c ELSE read.c

Echo(ev, read, k, ok, j) ==
    IF read.ret < 0 THEN S!OnSocketErr(read.c, "READ_FAIL")
    ELSE IF "ERR" \in ev THEN S!OnSocketErr(Reply(read, k, ok, j), "UNKNOWN_EVENT")
    ELSE Reply(read, k, ok, j)

(* Mutant: a FULL server does not read.                                     *)
ServerInPaused(ev, r) ==
    /\ S!Alive(server) /\ "IN" \in ev /\ server.state # "FULL"
    /\ UNCHANGED <<client, sent, atServer, atClient>>
    /\ \E read \in {S!Read(server, r)}, ok \in CtlOutcomes,
          k \in S!SendOutcomes(server, Len(server.tx)), j \in S!SendOutcomes(server, ReadLen) :
         server' = Echo(ev, read, k, ok, j)

ServerIn(ev, r) ==
    /\ S!Alive(server) /\ "IN" \in ev
    /\ UNCHANGED <<client, sent, atServer, atClient>>
    /\ \E read \in {S!Read(server, r)}, ok \in CtlOutcomes,
          k \in S!SendOutcomes(server, Len(server.tx)), j \in S!SendOutcomes(server, ReadLen) :
         server' = Echo(ev, read, k, ok, j)

ServerReports == (SUBSET (server.armed \cap S!ReadyEvents(server))) \ {{}}

ServerPoll == \E ev \in ServerReports :
    \/ \E r \in S!RecvOutcomes(server, S!ReadRoom(server)) : ServerIn(ev, r)
    \/ /\ S!Alive(server) /\ "IN" \notin ev
       /\ server' = S!OnSocketErr(server, "UNKNOWN_EVENT")
       /\ UNCHANGED <<client, sent, atServer, atClient>>
-----------------------------------------------------------------------------
(* The network.                                                             *)

Forth ==
    /\ atServer < Len(client.wire) /\ server.link = "up"
    /\ server' = [server EXCEPT !.inbox = Append(@, client.wire[atServer + 1])]
    /\ atServer' = atServer + 1
    /\ UNCHANGED <<client, sent, atClient>>

Back ==
    /\ atClient < Len(server.wire) /\ client.link = "up"
    /\ client' = [client EXCEPT !.inbox = Append(@, server.wire[atClient + 1])]
    /\ atClient' = atClient + 1
    /\ UNCHANGED <<server, sent, atServer>>

(* The end of the stream comes after its last byte.                         *)
EndOfStream ==
    /\ ~client.fd /\ atServer = Len(client.wire) /\ server.link = "up"
    /\ server' = [server EXCEPT !.link = "eof"]
    /\ UNCHANGED <<client, sent, atServer, atClient>>

Break ==
    /\ \/ client.link = "up" /\ client' = [client EXCEPT !.link = "broken"] /\ UNCHANGED server
       \/ server.link \in {"up", "eof"} /\ server' = [server EXCEPT !.link = "broken"]
          /\ UNCHANGED client
    /\ UNCHANGED <<sent, atServer, atClient>>

Next ==
    \/ SendData \/ ClientPoll \/ StopClient
    \/ ServerPoll
    \/ Forth \/ Back \/ EndOfStream \/ Break

Spec == Init /\ [][Next]_vars

(* The network delivers, and the server's loop handles events that would    *)
(* move bytes, as in StreamSocket.                                          *)
ServerMoves == \E ev \in ServerReports, r \in S!RecvOutcomes(server, S!ReadRoom(server)) :
    (r # 0 \/ S!ReadRoom(server) = 0) /\ ServerIn(ev, r)

FairSpec == Spec /\ WF_vars(Forth) /\ WF_vars(ServerMoves)
-----------------------------------------------------------------------------
Up == client.link = "up" /\ server.link = "up"

Echoed == server.wire \o server.tx
InFlight == SubSeq(client.wire, atServer + 1, Len(client.wire))

(* Something has gone wrong for the server: it has recorded an error, or    *)
(* its connection is broken or given up. At the end of the client's stream  *)
(* nothing is wrong yet.                                                    *)
ServerFailed == server.err # "NO_ERR" \/ server.link \notin {"up", "eof"}

(* What the server writes back are blocks of ReadLen bytes of what the      *)
(* client has sent, whole, each at most once and in order, however the      *)
(* bytes were divided on the way; and as long as nothing has gone wrong for *)
(* the server, no block is missing: what it has not written back yet is     *)
(* still in a buffer or on its way, also when the client is gone            *)
(* (server_service.hpp:36-71).                                              *)
EchoIsFaithful ==
    /\ S!Alive(server) =>
        /\ Len(Echoed) % ReadLen = 0
        /\ \A i \in DOMAIN Echoed : (Echoed[i] - i) % ReadLen = 0
        /\ \A i \in 2..Len(Echoed) :
               \/ Echoed[i] = Echoed[i - 1] + 1
               \/ (i - 1) % ReadLen = 0 /\ Echoed[i] > Echoed[i - 1]
        /\ ~ServerFailed =>
               Echoed \o server.rx \o server.inbox \o InFlight = client.wire
    /\ C!Alive(client) => client.wire \o client.tx = sent
    /\ \A i \in DOMAIN client.wire : client.wire[i] = i /\ i <= Len(sent)

(* Each message leaves a byte behind in the server, whose loop takes one    *)
(* block per event: but it does not stay behind by more than its buffer     *)
(* holds, unless the connection ends (server_service.hpp:42).               *)
Taken == atServer - Len(server.inbox) - Len(server.rx)
Behind == Len(client.wire) - Taken > server.rxLen

ServerKeepsUp == (Up /\ Behind) ~> (~Up \/ ~Behind)

(* The two sockets and the network keep the promise of an echo server: each *)
(* step is one of EchoPromise, or none of its business                      *)
(* (server_service.hpp:36-71, client_service.cpp:36-50).                    *)
Promise == INSTANCE EchoPromise WITH
    serving <- S!Alive(server), echoed <- Echoed, failed <- ServerFailed,
    taken <- IF S!Alive(server) THEN Taken ELSE 0

KeepsPromise == Promise!Spec

(* The client moves the index of a buffer that it never fills, past the end *)
(* of its memory in the long run: but when the buffer is moved to larger    *)
(* memory, what is copied lies inside the old one                           *)
(* (xma_socket.cpp:501, xma_socket_cache.h:152-160, 203-219).               *)
CopiesInside ==
    [][client'.rxLen # client.rxLen => Len(client'.rx) <= client.rxLen]_vars
=============================================================================
