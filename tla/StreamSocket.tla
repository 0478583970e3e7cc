----------------------------- MODULE StreamSocket -----------------------------
(***************************************************************************)
(* One client StreamSocket / TcpSocket of xma_socket.cpp on its event      *)
(* loop: connecting, sending with a cache, receiving with a cache, errors, *)
(* closing and reconnecting.                                               *)
(*                                                                         *)
(* The library runs a socket on one thread, so a step of this module is    *)
(* one call: an application call, one epoll event handled to its end, or a *)
(* step of the kernel and the peer.  Methods are operators that map the    *)
(* connection record to a result; what the kernel answers (a short send, a *)
(* full socket, a reset) is an argument, chosen by the action.             *)
(*                                                                         *)
(* Bytes are numbers: the application sends 1, 2, 3, ... on a connection   *)
(* and so does the peer, so a byte lost, doubled or out of order shows.    *)
(*                                                                         *)
(* The counts that Listener::Handle keeps around DoHandle are left out,    *)
(* and with them its write into a socket that OnSocketErr has deleted:     *)
(* ClientService and EchoServer have that.                                 *)
(***************************************************************************)
EXTENDS SocketBuff, Sequences

CONSTANTS
    MsgLens,        \* lengths the application passes to WriteMsg (0 included)
    ReadLens,       \* lengths the application passes to ReadMsg
    ReadLen,        \* the length the receiver asks for at every event
    MaxStreamRead,  \* MAX_STREAM_READ
    FakeLen,        \* MAX_FAKE_READ_LEN, the read of OnRead
    BufSizes,       \* sizes passed to SetTxSize and SetRxSize
    CtlOutcomes,    \* results of epoll_ctl(EPOLL_CTL_MOD): {TRUE} or BOOLEAN
    Asserts,        \* built with assertions (no NDEBUG)
    HasReceiver,    \* SetReceiver was called, else OnRead's fake read is used
    DeletesOnErr,   \* OnSocketErr deletes the socket, else it does nothing
    ArmsWritable,   \* the application arms EPOLLOUT when WriteMsg has cached
    MaxBytes,       \* bound: bytes accepted on a connection
    MaxPeer,        \* bound: bytes the peer sends on a connection
    MaxConns        \* bound: calls of OpenClient

ASSUME SocketAssumption ==
    /\ MsgLens \subseteq Nat
    /\ ReadLens \subseteq Nat
    /\ ReadLen \in Nat
    /\ MaxStreamRead \in Nat
    /\ FakeLen \in Nat \ {0}
    /\ BufSizes \subseteq Nat
    /\ CtlOutcomes \subseteq BOOLEAN
    /\ {Asserts, HasReceiver, DeletesOnErr, ArmsWritable} \subseteq BOOLEAN
    /\ {MaxBytes, MaxPeer, MaxConns} \subseteq Nat

VARIABLES
    conn,       \* the socket object and the kernel's side of its connection
    accepted,   \* bytes for which WriteMsg has answered success
    delivered,  \* bytes ReadMsg has handed to the application
    peerSent,   \* number of bytes the peer has sent on this connection
    opened,     \* number of OpenClient calls
    ret         \* what the last step's WriteMsg returned, 0 if it made none

vars == <<conn, accepted, delivered, peerSent, opened, ret>>

States == {"CREATED", "CONNECTING", "CONNECTED", "FULL", "FAILED"}
Errors == {"NO_ERR", "SYS_ERR", "PARAM_ERR", "NO_SPACE", "PEER_CLOSED", "READ_FAIL",
           "WRITE_FAIL", "STATE_ERR", "NOT_READY", "UNKNOWN_EVENT"}
Events == {"IN", "OUT", "ERR"}       \* "ERR" stands for EPOLLERR and EPOLLHUP
Links  == {"none", "syn", "up", "eof", "broken"}

HardErr == -1       \* a send or recv that fails for good
Eof     == -2       \* a recv that answers 0: the peer has closed
Garbage == 0        \* what rx_buff holds where OnRead has moved its index
-----------------------------------------------------------------------------
(* The kernel's answers.  0 stands for EAGAIN and EINTR, k > 0 for k bytes. *)

SendOutcomes(c, n) ==
    IF c.link \in {"up", "eof"} THEN 0..n ELSE {HardErr}

RecvOutcomes(c, room) ==
    IF c.link \in {"none", "syn"} THEN {HardErr}
    ELSE {k \in 0..room : k <= Len(c.inbox)}
           \cup (IF c.link = "broken" THEN {HardErr} ELSE {})
           \cup (IF c.link = "eof" /\ c.inbox = <<>> THEN {Eof} ELSE {})

Result(c, r) == [c |-> c, ret |-> r, msg |-> <<>>]

SetErr(c, e) == [c EXCEPT !.err = e]

Alive(c) == c.life = "alive"
Ready(c) == c.state \in {"CONNECTED", "FULL"}

(* assert(CONNECTED == GetState() || FULL != GetState()), which reads       *)
(* "not FULL", opens both DoWrite and DoRead.                               *)
AssertFails(c) == Asserts /\ c.state = "FULL"
Abort(c) == [c EXCEPT !.life = "aborted"]

(* EpollListener::SetEvents: refused without a descriptor.                  *)
SetEvents(c, events, ok) ==
    IF c.fd /\ ok THEN [c EXCEPT !.armed = events] ELSE c

IdleButOut == {"IN", "OUT", "ERR"}       \* mutant: EPOLLOUT stays armed

Idle     == {"IN", "ERR"}
Watching == {"IN", "OUT", "ERR"}

(* EpollListener::Close; the kernel drops what it had not handed over.      *)
Close(c) ==
    IF c.fd THEN [c EXCEPT !.fd = FALSE, !.armed = {}, !.link = "none", !.inbox = <<>>]
    ELSE c

(* StreamSocket::Reset: Close, then Init empties both buffers, whose        *)
(* capacity and whose last error stay.                                      *)
ResetKeepsFd(c) == [c EXCEPT !.state = "CREATED", !.tx = <<>>, !.rx = <<>>]  \* mutant
ResetKeepsCache(c) == [Close(c) EXCEPT !.state = "CREATED"]                  \* mutant

Reset(c) == [Close(c) EXCEPT !.state = "CREATED", !.tx = <<>>, !.rx = <<>>]

(* GetContainer()->OnSocketErr(this): the services of client/ and example/  *)
(* delete the socket, Service itself does nothing.                          *)
OnSocketErr(c, e) ==
    IF ~Alive(c) THEN c
    ELSE IF DeletesOnErr THEN [Reset(c) EXCEPT !.life = "deleted"] ELSE SetErr(c, e)
-----------------------------------------------------------------------------
(* Sending.                                                                 *)

(* DoWrite: send the cache; k is what send() answers, ok what SetEvents     *)
(* does once the cache is empty.                                            *)
FlushedTwice(c, k) == [c EXCEPT !.wire = @ \o SubSeq(c.tx, 1, k)]  \* mutant: no shrink
FlushedShort(c, k) ==                                  \* mutant: shrinks one too many
    [c EXCEPT !.tx = SubSeq(@, k + 2, Len(@)), !.wire = @ \o SubSeq(c.tx, 1, k)]

Flushed(c, k) ==
    [c EXCEPT !.tx = SubSeq(@, k + 1, Len(@)), !.wire = @ \o SubSeq(c.tx, 1, k)]

NoLongerFullUnchecked(c) == [c EXCEPT !.state = "CONNECTED"]   \* mutant

NoLongerFull(c) ==
    IF c.state = "FULL"
    THEN [c EXCEPT !.txLen = CheckLen(@, Len(c.tx), 0),
                   !.state = IF CanOp(c.txLen, Len(c.tx), 0) THEN "CONNECTED" ELSE @]
    ELSE c

DoWrite(c, k, ok) ==
    IF AssertFails(c) THEN Result(Abort(c), HardErr)
    ELSE IF c.tx = <<>> THEN Result(c, 0)
    ELSE IF k <= 0 THEN Result(c, k)
    ELSE IF k < Len(c.tx) THEN Result(NoLongerFull(Flushed(c, k)), k)
    ELSE LET d == [Flushed(c, k) EXCEPT !.state = "CONNECTED"]
         IN  IF c.fd /\ ok THEN Result(SetEvents(d, Idle, ok), k)
             ELSE Result(SetErr(d, "SYS_ERR"), HardErr)

(* DO_CACHE_MSG: keep the bytes m and answer n, or refuse them.             *)
CacheMsg(c, m, n) ==
    LET len  == CopyLen(c.txLen, Len(c.tx), Len(m))
        idx  == Len(c.tx) + Len(m)
    IN  IF CopyFits(c.txLen, Len(c.tx), Len(m))
        THEN Result([c EXCEPT !.tx = @ \o m,
                              !.txLen = CheckLen(len, idx, 0),
                              !.state = IF CanOp(len, idx, 0) THEN @ ELSE "FULL"], n)
        ELSE Result([c EXCEPT !.txLen = len, !.err = "NO_SPACE"], HardErr)

(* WriteMsg: flush the cache (k, ok), then cache m, or send it (j) and      *)
(* cache what send() has left.                                              *)
WriteMsg(c, m, k, ok, j) ==
    IF m = <<>> THEN Result(SetErr(c, "PARAM_ERR"), HardErr)
    ELSE IF c.state # "CONNECTED" THEN Result(SetErr(c, "NOT_READY"), HardErr)
    ELSE LET flush == IF c.tx = <<>> THEN Result(c, 0) ELSE DoWrite(c, k, ok)
             d     == flush.c
         IN  IF flush.ret < 0 THEN Result(d, HardErr)
             ELSE IF d.tx # <<>> THEN CacheMsg(d, m, Len(m))
             ELSE IF j < 0 THEN Result(SetErr(d, "SYS_ERR"), HardErr)
             ELSE IF j < Len(m)
             THEN CacheMsg([d EXCEPT !.wire = @ \o SubSeq(m, 1, j)],
                           SubSeq(m, j + 1, Len(m)), Len(m))
             ELSE Result([d EXCEPT !.wire = @ \o m], Len(m))

(* Write, the handler of EPOLLOUT.                                          *)
WriteSkipsFull(c, k, ok) ==     \* mutant: EPOLLOUT is ignored in FULL
    IF c.state = "CONNECTED" THEN DoWrite(c, k, ok) ELSE Result(c, 0)

Write(c, k, ok) ==
    IF Ready(c) THEN DoWrite(c, k, ok) ELSE Result(SetErr(c, "NOT_READY"), HardErr)
-----------------------------------------------------------------------------
(* Receiving.                                                               *)

(* DoRead: r is what recv() answers; the bytes land in rx_buff, or in       *)
(* OnRead's own buffer while rx_buff moves its index all the same.          *)
DoRead(c, r, fake) ==
    IF AssertFails(c) THEN Result(Abort(c), HardErr)
    ELSE IF r = 0 THEN Result(c, 0)
    ELSE IF r = HardErr THEN Result(SetErr(c, "READ_FAIL"), HardErr)
    ELSE IF r = Eof THEN Result(SetErr(c, "PEER_CLOSED"), HardErr)
    ELSE LET bytes == IF fake THEN [i \in 1..r |-> Garbage] ELSE SubSeq(c.inbox, 1, r)
         IN  Result([c EXCEPT !.rx = @ \o bytes,
                              !.rxLen = AddLen(@, Len(c.rx) + r),
                              !.inbox = SubSeq(@, r + 1, Len(@))], r)

(* ReadMsg: one recv() into the free space, then n bytes or none.           *)
TakenFromEnd(c, n) == [c EXCEPT !.rx = SubSeq(@, 1, Len(@) - n)]     \* mutant: no memmove

HasMsg(c, n) == Len(c.rx) >= n
Taken(c, n) == [c EXCEPT !.rx = SubSeq(@, n + 1, Len(@))]

ReadMsg(c, n, r) ==
    IF n = 0 \/ n > MaxStreamRead THEN Result(SetErr(c, "PARAM_ERR"), 0)
    ELSE IF ~Ready(c) THEN Result(SetErr(c, "NOT_READY"), 0)
    ELSE LET room == FreeLen(c.rxLen, Len(c.rx))
             read == IF room > 0 THEN DoRead(c, r, FALSE) ELSE Result(c, 0)
             d    == read.c
         IN  IF read.ret < 0 THEN Result(d, HardErr)
             ELSE IF HasMsg(d, n)
             THEN [c |-> Taken(d, n), ret |-> n, msg |-> SubSeq(d.rx, 1, n)]
             ELSE Result(d, 0)

(* Read, the handler of EPOLLIN: the receiver of example/ reads one message *)
(* per event and closes the socket when that fails. What it writes in reply *)
(* is an AppWrite: events come in any parts, so an event that is read,      *)
(* answered and written is two events with an AppWrite between them.        *)
Receiver(c, r) ==
    LET read == ReadMsg(c, ReadLen, r)
    IN  IF read.ret < 0 /\ Alive(read.c) THEN [read EXCEPT !.c = Close(read.c)] ELSE read

Read(c, r) == IF HasReceiver THEN Receiver(c, r) ELSE DoRead(c, r, TRUE)

ReadRoom(c) == IF HasReceiver THEN FreeLen(c.rxLen, Len(c.rx)) ELSE FakeLen
-----------------------------------------------------------------------------
(* The socket state machine, Socket::DoHandle.                              *)

(* DoReadWrite, in states CONNECTED and FULL.                               *)
DoReadWrite(c, ev, r, k, ok) ==
    LET read  == IF "IN" \in ev THEN Read(c, r) ELSE Result(c, 0)
        write == IF "OUT" \in ev THEN Write(read.c, k, ok) ELSE Result(read.c, 0)
    IN  IF read.ret < 0 THEN Result(OnSocketErr(read.c, "READ_FAIL"), HardErr)
        ELSE [read EXCEPT !.c =
                IF write.ret < 0 THEN OnSocketErr(write.c, "WRITE_FAIL")
                ELSE IF "ERR" \in ev THEN OnSocketErr(write.c, "UNKNOWN_EVENT")
                ELSE write.c]

(* DoConnect, in state CONNECTING; the result of SetEvents is not looked at. *)
DoConnect(c, ev, ok) ==
    IF {"IN", "OUT"} \cap ev = {} THEN Result(OnSocketErr(c, "UNKNOWN_EVENT"), HardErr)
    ELSE IF c.link = "broken" THEN Result(OnSocketErr(c, "SYS_ERR"), HardErr)
    ELSE IF c.link = "syn" THEN Result(c, 0)
    ELSE Result(SetEvents([c EXCEPT !.state = "CONNECTED"], Idle, ok), 0)

DoHandle(c, ev, r, k, ok) ==
    IF c.state = "CONNECTING" THEN DoConnect(c, ev, ok)
    ELSE IF Ready(c) THEN DoReadWrite(c, ev, r, k, ok)
    ELSE Result(OnSocketErr(c, "STATE_ERR"), HardErr)

(* TcpSocket::OpenClient.  "refused": socket(), setsockopt() or connect()   *)
(* fails; "unwatched": SetEvents fails; "started": the handshake runs.      *)
OpenClient(c, how) ==
    IF c.state \notin {"CREATED", "FAILED"} THEN SetErr(c, "STATE_ERR")
    ELSE IF c.fd /\ Asserts THEN Abort(c)
    ELSE IF how = "refused" THEN [c EXCEPT !.state = "FAILED", !.err = "SYS_ERR"]
    ELSE IF how = "unwatched" THEN Reset([c EXCEPT !.err = "SYS_ERR", !.fd = TRUE])
    ELSE [c EXCEPT !.state = "CONNECTING", !.fd = TRUE, !.armed = Watching,
                   !.link = "syn", !.wire = <<>>, !.inbox = <<>>]
-----------------------------------------------------------------------------
NewSocket ==
    [life |-> "alive", state |-> "CREATED", err |-> "NO_ERR",
     fd |-> FALSE, armed |-> {},
     txLen |-> InitLen, tx |-> <<>>, rxLen |-> InitLen, rx |-> <<>>,
     link |-> "none", wire |-> <<>>, inbox |-> <<>>]

Init ==
    /\ conn = NewSocket
    /\ accepted = <<>> /\ delivered = <<>>
    /\ peerSent = 0 /\ opened = 0 /\ ret = 0

NextBytes(from, n) == [i \in 1..n |-> from + i]

(* Calls of the application, made from its timers and shell commands.      *)

AppOpen == \E how \in {"refused", "unwatched", "started"} :
    /\ Alive(conn) /\ opened < MaxConns
    /\ conn' = OpenClient(conn, how)
    /\ opened' = opened + 1
    /\ ret' = 0
    /\ IF conn.state \in {"CREATED", "FAILED"} /\ conn'.state = "CONNECTING"
       THEN accepted' = <<>> /\ delivered' = <<>> /\ peerSent' = 0
       ELSE UNCHANGED <<accepted, delivered, peerSent>>

(* What is still cached needs EPOLLOUT; only the application can ask for it. *)
Arm(c) ==
    IF ArmsWritable /\ Alive(c) /\ c.tx # <<>> THEN SetEvents(c, Watching, TRUE) ELSE c

AppWrite == \E n \in MsgLens, ok \in CtlOutcomes :
    /\ Alive(conn) /\ Len(accepted) + n <= MaxBytes
    /\ LET m == NextBytes(Len(accepted), n)
       IN  \E k \in SendOutcomes(conn, Len(conn.tx)), j \in SendOutcomes(conn, n) :
             LET r == WriteMsg(conn, m, k, ok, j)
             IN  /\ conn' = Arm(r.c)
                 /\ ret' = r.ret
                 /\ accepted' = IF r.ret >= 0 THEN accepted \o m ELSE accepted
    /\ UNCHANGED <<delivered, peerSent, opened>>

AppRead == \E n \in ReadLens, r \in RecvOutcomes(conn, FreeLen(conn.rxLen, Len(conn.rx))) :
    /\ Alive(conn)
    /\ LET read == ReadMsg(conn, n, r)
       IN  conn' = read.c /\ delivered' = delivered \o read.msg
    /\ ret' = 0
    /\ UNCHANGED <<accepted, peerSent, opened>>

AppClose ==
    /\ Alive(conn)
    /\ conn' = Close(conn) /\ ret' = 0
    /\ UNCHANGED <<accepted, delivered, peerSent, opened>>

AppReset ==
    /\ Alive(conn)
    /\ conn' = Reset(conn) /\ ret' = 0
    /\ UNCHANGED <<accepted, delivered, peerSent, opened>>

AppDelete ==
    /\ Alive(conn)
    /\ conn' = [Reset(conn) EXCEPT !.life = "deleted"] /\ ret' = 0
    /\ UNCHANGED <<accepted, delivered, peerSent, opened>>

SetSizes == \E size \in BufSizes :
    /\ Alive(conn)
    /\ \/ conn' = [conn EXCEPT !.txLen = NewSize(@, Len(conn.tx), size)]
       \/ conn' = [conn EXCEPT !.rxLen = NewSize(@, Len(conn.rx), size)]
    /\ ret' = 0
    /\ UNCHANGED <<accepted, delivered, peerSent, opened>>

(* One event of an epoll_wait batch.  The kernel reports a level, but an    *)
(* event may be handled after a timer has run, so any part of what is ready *)
(* may reach the handler.                                                   *)
ReadyEvents(c) ==
    (IF c.inbox # <<>> \/ c.link \in {"eof", "broken"} THEN {"IN"} ELSE {})
      \cup (IF c.link \in {"up", "eof", "broken"} THEN {"OUT"} ELSE {})
      \cup (IF c.link = "broken" THEN {"ERR"} ELSE {})

Handle(ev, r, k, ok) ==
    /\ Alive(conn) /\ conn.fd
    /\ LET d == DoHandle(conn, ev, r, k, ok)
       IN  conn' = d.c /\ delivered' = delivered \o d.msg
    /\ ret' = 0
    /\ UNCHANGED <<accepted, peerSent, opened>>

Reported == (SUBSET (conn.armed \cap ReadyEvents(conn))) \ {{}}

Poll == \E ev \in Reported, r \in RecvOutcomes(conn, ReadRoom(conn)),
           k \in SendOutcomes(conn, Len(conn.tx)), ok \in CtlOutcomes :
    Handle(ev, r, k, ok)

(* The kernel and the peer.                                                 *)

Kernel == UNCHANGED <<accepted, delivered, opened>> /\ ret' = 0

Handshake ==
    /\ conn.link = "syn"
    /\ \E l \in {"up", "broken"} : conn' = [conn EXCEPT !.link = l]
    /\ UNCHANGED peerSent /\ Kernel

PeerSend ==
    /\ conn.link = "up" /\ peerSent < MaxPeer
    /\ conn' = [conn EXCEPT !.inbox = Append(@, peerSent + 1)]
    /\ peerSent' = peerSent + 1
    /\ Kernel

PeerClose ==
    /\ conn.link = "up"
    /\ conn' = [conn EXCEPT !.link = "eof"]
    /\ UNCHANGED peerSent /\ Kernel

Break ==
    /\ conn.link \in {"up", "eof"}
    /\ conn' = [conn EXCEPT !.link = "broken"]
    /\ UNCHANGED peerSent /\ Kernel

Next ==
    \/ AppOpen \/ AppWrite \/ AppRead
    \/ AppClose \/ AppReset \/ AppDelete \/ SetSizes
    \/ Poll
    \/ Handshake \/ PeerSend \/ PeerClose \/ Break

Spec == Init /\ [][Next]_vars

(* Main reports a ready level at every epoll_wait, and the kernel goes on   *)
(* moving bytes: an event for which a call would move bytes or fail is not  *)
(* put off for ever.                                                        *)
PollIn == \E ev \in Reported, r \in RecvOutcomes(conn, ReadRoom(conn)),
             k \in SendOutcomes(conn, Len(conn.tx)), ok \in CtlOutcomes :
    "IN" \in ev /\ (r # 0 \/ ReadRoom(conn) = 0) /\ Handle(ev, r, k, ok)

PollOut == \E ev \in Reported, r \in RecvOutcomes(conn, ReadRoom(conn)),
              k \in SendOutcomes(conn, Len(conn.tx)), ok \in CtlOutcomes :
    "OUT" \in ev /\ (k # 0 \/ conn.tx = <<>>) /\ Handle(ev, r, k, ok)

FairSpec == Spec /\ WF_vars(PollIn) /\ WF_vars(PollOut)
-----------------------------------------------------------------------------
Sockets ==
    [life : {"alive", "deleted", "aborted"}, state : States, err : Errors,
     fd : BOOLEAN, armed : SUBSET Events,
     txLen : Nat \ {0}, tx : Seq(Nat), rxLen : Nat \ {0}, rx : Seq(Nat),
     link : Links, wire : Seq(Nat), inbox : Seq(Nat)]

(* The shape of every variable. *)
TypeOK ==
    /\ conn \in Sockets
    /\ accepted \in Seq(Nat) /\ delivered \in Seq(Nat)
    /\ peerSent \in Nat /\ opened \in Nat /\ ret \in Int

Connection(c) == c.state \in {"CONNECTING", "CONNECTED", "FULL"}

(* The index of a buffer stays inside its memory through every mixture of   *)
(* copyBuf, shrinkFromFront, addIndex, setNewSize and recv(), and no buffer *)
(* outgrows its maximum ("business guarantees not exceeding the range",     *)
(* xma_socket_cache.h:147).                                                 *)
Holds(idx, len) == idx <= len /\ (len <= Cap \/ len \in BufSizes)

TxHolds(c) == Holds(Len(c.tx), c.txLen)
RxHolds(c) == Holds(Len(c.rx), c.rxLen)

BuffersHold == TxHolds(conn) /\ RxHolds(conn)

(* The FULL state is the buffer's own verdict: a socket in use is FULL      *)
(* exactly when its cache is over the threshold, and then the cache cannot  *)
(* grow any more.                                                           *)
FullMeansFull ==
    Ready(conn) =>
        /\ conn.state = "FULL" <=> Len(conn.tx) > CanLen(conn.txLen)
        /\ conn.state = "FULL" => conn.txLen >= MaxLen

(* OpenClient may assert that no descriptor is open (xma_socket.cpp:662),   *)
(* whatever failed before; and what epoll watches is an open descriptor.    *)
FdMatches(c) ==
    /\ c.state \in {"CREATED", "FAILED"} => ~c.fd
    /\ c.fd <=> c.link # "none"
    /\ c.fd <=> c.armed # {}

FdMatchesState == FdMatches(conn)

(* What the network has been given and what is cached are together the      *)
(* messages WriteMsg has accepted on this connection, nothing lost, doubled *)
(* or reordered, and no byte of a message it has refused.                   *)
SentInOrder == Connection(conn) => conn.wire \o conn.tx = accepted

(* Nothing the peer has sent is lost or reordered between the kernel, the   *)
(* receiving cache and the application.                                     *)
ReceivedInOrder ==
    Connection(conn) /\ conn.fd =>
        delivered \o conn.rx \o conn.inbox = NextBytes(0, peerSent)

(* A new connection starts with empty caches: it never sends or delivers a  *)
(* byte of the connection before.                                           *)
Fresh(c) == Ready(c) \/ (c.tx = <<>> /\ c.rx = <<>>)

FreshConnection == Fresh(conn)

(* A socket with nothing to send does not watch EPOLLOUT, which would wake  *)
(* the event loop at once, for ever.                                        *)
NoWritableSpin == Ready(conn) /\ "OUT" \in conn.armed => conn.tx # <<>>

(* A failing WriteMsg leaves the reason in GetErr (xma_socket.h:89-90).     *)
FailureHasReason == ret < 0 => conn.err # "NO_ERR"

(* The assertions of DoWrite and DoRead hold (xma_socket.cpp:362, 483).     *)
AssertsHold == conn.life # "aborted"

(* The sending half implements the abstract stream. *)
Out == INSTANCE OutStream WITH
    Lens <- MsgLens \ {0}, open <- Connection(conn), pending <- conn.tx, wire <- conn.wire

SendsAsStream == Out!Spec

Over == ~Alive(conn) \/ ~conn.fd \/ conn.link = "broken"

(* What WriteMsg has accepted does not stay in the cache: the cache runs    *)
(* empty, unless the connection ends first.                                 *)
CacheIsSent == (conn.tx # <<>> /\ ~Over) ~> (Over \/ conn.tx = <<>>)

(* A message the peer has sent completely is delivered, unless the          *)
(* connection ends first.                                                   *)
CompleteIsDelivered == \A b \in 1..(MaxPeer \div ReadLen) :
    (peerSent >= b * ReadLen /\ ~Over) ~> (Over \/ Len(delivered) >= b * ReadLen)
=============================================================================
