# Verification of the XMA library (cpp-readline)

The repository is a small C++ framework, called XMA in its sources: processes
(threads with an event loop) that exchange messages, timers, TCP sockets with
their own send and receive caches, and a readline shell, with an echo client
(`client/`) and an echo server (`example/`) built on it. Its README still
describes the readline wrapper it grew from. This directory holds TLA+ modules
of the parts that carry state, the TLC runs that check them and the proofs that
hold for every value of the constants. Paths below are relative to `src/`.

## Inventory

| Component | State | Operations | Module |
|---|---|---|---|
| `CPngConnBuf` (`src/xma_socket_cache.h`) | capacity, index, maximum, threshold | `copyBuf`, `expand`, `checkCanOp`, `addIndex`, `shrinkFromFront`, `setNewSize` | `SocketBuff`; proofs in `StreamSocketProofs` |
| `StreamSocket`, `TcpSocket` as a client (`src/xma_socket.cpp`) | state, last error, descriptor, events watched, two caches | `OpenClient`, `WriteMsg`, `ReadMsg`, `DoHandle` and what it calls, `Close`, `Reset`, destructor | `StreamSocket`, `MCStreamSocket`, `OutStream`, `StreamSocketProofs` |
| `Timer`, `TimerMgr` (`src/xma_timer.cpp`), the wait of `Process::Main` | the sorted list, the iterator of `CheckTimers`, status and due time of each timer, the timeout | `Set`, `Stop`, `Restart`, destructor, `CheckTimers`, `DoHandle` | `Timers`, `MCTimers`, `TimersProofs` |
| `Process`, `ProcessService`, `Thread`, `ThreadMgr`, `Msg`, `Application` | life of each thread, its pipe, who owns which message | start, `Msg::Send`, `SendMsg`, dispatch, exit | `Processes`, `MCProcesses`, `Mailbox`, `ProcessesProofs` |
| `TcpClientService`, `TcpClient`, `TcpClientTimer` on `Process::Main` and `EpollListener` | `client_`, the objects, the batch of events | `StartClient`, `StopClient`, `OnSocketErr`, `OnConnected`, `Timeout`, the loop | `ClientService`, `ClientServiceProofs` |
| `TcpEchoServer`, `TcpEchoService`, `TcpEchoListener` (`example/`) on listening and accepted `TcpSocket`s | `server_`, the accepted sockets, their copies in `streams_`, the descriptors | `OpenServer`, `Accept`, `OnCreate`, `OnAccept`, `OnSocketErr`, `StartServer`, `StopServer` | `EchoServer`, `EchoServerProofs` |
| client and server on one connection | two sockets, the bytes between them | `TcpClientTimer::Timeout`, `TcpEchoListener::DoHandle`, polls, the network | `EchoPair`, `MCEchoPair`, `EchoPromise`, `EchoPairProofs` |
| `Shell` (`src/xma_shell.cpp`), `Application::Init` | the map of commands and its lock, the line in work | `RegisterCommand`, `ExecCommand`, completion, `Readline`, `Run`, the functions of the commands | `ShellCommands`, `MCShellCommands`, `ShellCommandsProofs`; what its end does in `Processes` |
| `Service`, `Listener` (`src/xma_service.cpp`, `src/xma_listener.cpp`) | the global lists and their locks | constructors, destructors, `List`, `Service::Init` | `Registry`, composed by `ShellCommands` |
| `Epoll` | descriptors watched and their masks | `Add`, `SetEvents`, `Close`, `Wait` | part of `StreamSocket`, `ClientService`, `EchoServer` and `Processes` |
| `Fifo`, `Mailbox`, `Object` headers | - | - | never compiled; `Fifo` does not compile |
| statistics, addresses, lists for display | counters and names | - | no decision reads them |

How they interact. Each process is one thread. `Process::Main` waits in
`epoll_wait`, runs the timers that are due (`CheckTimers`), and hands the events
of the batch to their listeners **by pointer**: the pipe of the process (one
message per event) and its sockets. A message is a pointer written to the pipe
of the receiver by any thread; its handler runs on the receiver, which deletes
it. A socket reports trouble to its service (`OnSocketErr`), which deletes it.
The main thread runs the shell, whose commands mostly send messages.

What is hard here, and where it is covered:

- short sends, EAGAIN, a growing cache, the FULL state and errors in any order
  (`StreamSocket`): is the stream on the wire the accepted messages?
- messages that arrive in pieces and together; a cache that is full
- a list walked while callbacks change it (`Timers`); timeouts truncated to
  milliseconds
- threads that start, send, block on full pipes and end at their own speed
  (`Processes`); a pointer with two possible owners
- events whose object an earlier handler has deleted (`ClientService`,
  `EchoServer`)
- two socket objects with one descriptor, one receiver and the same buffers: the
  accepted socket and the copy that `OnAccept` keeps (`EchoServer`)
- a `std::map` that one thread fills under a lock and another reads without it;
  lists that one thread walks while another deletes their elements; a statistic
  that reads a socket another thread deletes (`ShellCommands`, `Registry`)
- a client that sends 31 bytes at a time to a server that takes 30: what the two
  make of each other's short sends, short reads and full buffers (`EchoPair`)
- an event mask read uninitialised, which lets `epoll_ctl` fail, or succeed in a
  way that no later call can correct (`Processes`, `EchoServer`)

`PROJECT.json` lists every hazard with its line and the properties that cover
it, or why none does.

## Modules

**SocketBuff** has the buffer's arithmetic as operators: `Expand` (`expand`, whose
loop is the recursive function `Growth`), `CopyLen`/`CopyFits` (`copyBuf`),
`CheckLen`/`CanOp` (`checkCanOp`, which expands while it decides), `AddLen`,
`NewSize`, `FreeLen`.

**StreamSocket** is one client socket with the kernel's side of its connection
in one record `conn`. Methods are operators from the record to a record and a
result; what the kernel answers (`SendOutcomes`, `RecvOutcomes`, a failing
`epoll_ctl`) is an argument, so that an action is one whole call:
`AppOpen`, `AppWrite`, `AppRead`, `AppClose`, `AppReset`, `AppDelete`,
`SetSizes` for the application, `Poll` for one epoll event handled to its end,
`Handshake`, `PeerSend`, `PeerClose`, `Break` for the network. Bytes are
numbers counted from 1 on each connection, in both directions, so a byte lost,
doubled or moved shows. Constants say what differs between programs: does the
build keep assertions (`Asserts`; the default build does), is there a receiver,
does the service delete a failed socket (`DeletesOnErr`), does the application
arm EPOLLOUT itself (`ArmsWritable`; the library offers `SetEvents`, no code
here uses it so). The echo that the server's receiver writes back is an
`AppWrite` of its own; since an event may reach the handler in parts, this
loses no order of steps.

**OutStream** is what the sending half promises: accepted bytes go to the wire
in order, a connection at a time. `StreamSocket` implements it under the mapping
`open <- Connection(conn)`, `pending <- conn.tx`, `wire <- conn.wire`.
`Disconnect` may give the network some more first: a `DoWrite` that sends the
whole cache and then fails in `SetEvents` ends in `OnSocketErr`, which deletes the
socket, all in the handler of one event.

**Timers** breaks `CheckTimers` into its steps: `Fire` (the status changes, the
callback begins), the calls of the callback, `Return` (the entry is erased) and
`EndCheck` (the timeout is computed). `it` is the list iterator: it stays at its
entry when others come and go and becomes 0 when its entry is erased. The clock
has `Tick` steps to a millisecond since `Duration` truncates to milliseconds.
Callbacks do whatever the interface allows, also to the timer that is firing. Three
things the interface does not forbid break the walk of the list:
a callback that stops, restarts or destroys its own timer while that is in the list
as armed, or restarts it without arming it, erases the entry that `erase(it)` erases
again (`EraseInvalid`); one that destroys its own timer leaves a freed pointer in the
list until it returns, which every search that passes it dereferences (`FreedUpTo`);
and one that arms its own timer again and then another for an earlier
time inserts that before the entry that is firing, where the walk has passed. The
first two use memory that is gone: they set `broken`, and the model stops. The history variable `tame` records whether the callbacks have
kept clear of all this: after destroying its own timer a callback calls nothing that
searches the list (`OwnNotFreed`); none stops or restarts its own timer, or destroys
it while it is armed (`OwnAlone`); and once it has armed its own timer again it
arms or restarts no other for an earlier time (`NotBeforeOwn`). What the properties
say of the walk is conditional on `tame`. The one callback of the repository,
`TcpClientTimer::Timeout`, sends data and then sets its own timer, and is tame.

**Mailbox** is what sending a message promises: it is executed by the process it
is addressed to, at most once, in the order of acceptance, and messages of one
sender are accepted in the order in which they were made. `Processes` implements
it, with `pending` as the message whose handler runs followed by the pipe.

**Processes** follows every thread from registration through `Process::Init`
(the service exists, then its pipe) and the loop to its end, and every message
from its sender through a pipe to its handler. `post` is a write in progress,
which blocks when the pipe is full. Commands exist when their process has run
`OnShell`, but `TestMsg` exists from the start. A write before the pipe exists
goes to an uninitialised descriptor: it fails or goes elsewhere. `AddOutcomes`
is what `Epoll::Add` does with the mask it has not initialised: the pipe is
watched, or the exception ends the program (`OpenFails`), or the mask held
EPOLLEXCLUSIVE, the later `SetEvents` fails unnoticed, and the process is `deaf`
to its pipe. `Destruct` is
the end of the program: the destructor of `ProcessService` calls
`RemoveListener`, which throws, so the program ends there, whatever the threads
are doing.

**ClientService** is the client program on its loop. A batch is a set of events
(`to`, `events`) taken at `Wait`; handlers run on what the objects have become
by then. `over = "dangling"` when a deleted object is used and the program does not
survive that. `HandleSocket` on a deleted socket always ends there; the other way
in is `CountsInFreed`: `Listener::Handle` counts the event in its listener after
`DoHandle` has returned (`xma_listener.h:72-77`), and every socket error has then
deleted it in `OnSocketErr`, so each ordinary end of a connection writes into freed
memory, and the program goes on or does not. Sending and receiving are abstracted to
"the socket may become FULL", "the read fails".

**EchoServer** is the server program on its loop, about who owns which object
and descriptor. `file` is the kernel's table: it gives each open descriptor its
socket, and lets numbers be used again. `AcceptOne` is one turn of the loop of
`Accept`, so that peers may connect while it runs. The copies in `streams` are
pairs of the original and the descriptor number; what they share with the
original beyond that decides `SharesDeleted`. `StopServer` ends in "deleted
twice" when a connection has ended before, or has grown a buffer: the copy then
deletes a receiver or a buffer that is gone. TLC reaches that, and no document
promises otherwise, so it is listed as a hazard and is a way for the program to
end. `AddOutcomes` is as in `Processes`: a listening or an accepted socket may be
deaf, and an exception ends the program. `CountsInFreed` is as in `ClientService`: an
accepted socket whose read fails is deleted before its event is counted. The counts
of `Listener::Handle` are left out of the other modules, `StreamSocket` included.

**EchoPair** composes two instances of `StreamSocket`, one as the client and one
as the accepted socket of the server, and a network that moves bytes from the
`wire` of one to the `inbox` of the other. It takes the methods of `StreamSocket`
(`WriteMsg`, `Read`, `DoHandle`, `OnSocketErr`, `Reset`) and not its actions, and
adds what the two programs do with them: `SendData` is one timeout of the client,
`ServerIn` one event of the server with its receiver, which writes back what it
has read and does not look at the answer. `ServerFailed` says that something has
gone wrong for the server: it has recorded an error, or its connection is broken
or given up; the end of the client's stream is not an error.

**EchoPromise** is what an echo server promises to a client, without sockets,
caches or a network: it takes the bytes in blocks, returns each block once, whole
and in order (`Return`), passes over one only with a failure on its side (`Lose`),
and takes back at its end only what it had not sent (`End`). `EchoPair` is shown to
implement it (`KeepsPromise`): `taken` are the bytes the server's receiver has had,
`echoed` its wire and sending cache.

**Registry** has the lists of services and listeners, the mutexes, and the
sockets of the two programs as far as the lists are concerned: a socket is
"dying" while the destructors of the derived classes run, leaves the list in
`~Listener`, and its pointer becomes null later. `MakeServices`, `OpenPipe`,
`InitServices` are the calls of `Process::Init` in their order.

**ShellCommands** extends it with one thread per process and the main thread.
An insertion into the table takes a while (`Insert`, `Inserted`), and so do a
lookup, a completion and the copy `help` makes: one that overlaps an insertion
(`raced`) answers anything, or crashes; two insertions at once crash. A list is
walked node by node under its mutex. `ShowStats` reads the pointer of the socket
(`FetchSocket`) and then uses it (`UseSocket`); `stale` says that its process has
begun to delete it meanwhile. `std::stoi` on what follows `Connect` or
`StartServer` may throw, which ends the program.

`Processes`, `ClientService` and `EchoServer` have the same loop in three
degrees of detail: in the first a handler may send, in the other two it changes
the objects whose events are still to come. `StreamSocket` is one of these
objects in full; its `OnSocketErr` and its receiver are those of the programs,
and `EchoPair` joins two of them.

## Runs

| Run | Shows | Bounds, and why they are enough |
|---|---|---|
| `socket_send` | `FullMeansFull`, `FdMatchesState`, `SentInOrder`, `FreshConnection`; implements `OutStream` | a 4-byte cache that doubles once, meets its maximum 10, becomes FULL and refuses; failing `epoll_ctl`; two connections; the service deletes a failed socket |
| `socket_live` | `BuffersHold`, `ReceivedInOrder` with a maximum of -1 (read uninitialised) and manual resizing; with EPOLLOUT armed by the application the cache runs empty and EPOLLOUT is disarmed | both directions; a message as long as the sending cache, which makes the socket FULL; receiving caches as long as the longest message, cut by hand; reads of two lengths; the service only records a failure |
| `timers` | as long as callbacks are tame: the walk stays valid, one firing per `Set`, none due left behind, armed timers fire, and `WakesInTime`: how late a wait may be for an armed timer. A timer the timeout was computed for is late by no more than callbacks and handlers took before the wait; one that was armed since, or any when one was less than a millisecond away, by the longest wait more. Timers *are* slept past | three timers of 0, 2 and 3 ticks, half-millisecond ticks, waits of 2 ms: equal and different due times, re-arming, restarting and destroying in callbacks, the own timer included |
| `processes` | one owner per message until it is deleted once (`OneOwner`); implements `Mailbox`; what is in a pipe is executed, no sender stays blocked, unless a process is deaf | two processes and the shell, pipes of two, three messages: a third sender's write blocks; "Init" may be deaf, the pipe of the other may throw |
| `client_service` | `OneClient`, `TimerFollowsConnection`, `EndedIsDeleted`; `DanglingHasCause`: a deleted socket is used only when a Disconnect was handled in the same batch, or when `Handle` counts the event whose handler has deleted it | up to four clients in turn, two waiting messages, two connections ended by the network |
| `echo_server` | `OneOwner`, `OneCopy`, `StoppedIsClosed`; waiting connections are taken; `DanglingHasCause`: a deleted socket is used only in the batch in which the server was stopped, or when `Handle` counts the event whose handler has deleted it | five sockets on three descriptors, so that numbers are used again; two waiting connections and messages: a stop, a start and a connection in one batch; sockets that are deaf, registrations that throw |
| `echo_pair` | `EchoIsFaithful`: what is written back are whole blocks of what was sent, once, in order; while nothing has gone wrong for the server none is missing, also when the client has gone; implements `EchoPromise`; `ServerKeepsUp`: the server does not stay behind by more than its buffer; `CopiesInside`: the client, which moves the index of a buffer it never fills, copies nothing from outside a buffer | three messages of three bytes, read two at a time, so that the byte each leaves behind makes a fourth block; the server's buffers stay at four bytes (maximum -1), where two bytes in the cache make it FULL; the client's grow once, to a maximum that is no power of two; an `epoll_ctl` may fail or not, so that a block is passed over and a later one returned |
| `shell_commands` | `MissedOnlyEarly`, `CrashHasCause`: a command is missed only for a line typed before all threads were running, and what the threads share crashes the program only for such a line or for a `ShowStats` whose socket is deleted meanwhile, never in a walk of a list; `PromptReturns`: the prompt comes back, unless the text to complete is a whole name | client and server in one program, both with a `ShowStats`, two commands each; two lines, the second typed in any state the first leaves: one may race with the start and one with the running threads |

Runs that find a violation; `PROJECT.json` quotes the text each contradicts:

| Run | What happens |
|---|---|
| `socket_full_aborts` | the assertion of `DoRead`/`DoWrite` fails in FULL, a state every guard lets through |
| `socket_cache_stuck` | nothing arms EPOLLOUT: an accepted, cached message is never sent |
| `socket_left_behind` | of two messages that arrive together the second waits in `rx_buff` |
| `processes_startup` | a command reaches "Init" before its thread has run `Process::Init`, and an assertion aborts the program |

The systems may stop, so no run checks deadlock: a socket is deleted, a program
ends or breaks, or nothing more is to be sent within the bounds. That the loop of
the timers goes on is part of `ArmedFires`.

Bounds appear as guards: `MaxBytes`, `MaxPeer`, `MaxConns`, `MaxTime`,
`MaxMsgs`, `MaxPipe`, `MaxObjs`, `MaxBreaks`, `MaxBacklog`, `MaxLines`. `PipeCap`
and `MaxFd` are limits the system has; they are small here.

## Fairness

- `StreamSocket`: `Main` polls at least every 10 ms and epoll reports levels, so
  an event that would move bytes or fail is handled in the end (`PollIn`,
  `PollOut`). The application and the network owe nothing.
- `Timers`: the loop and its callbacks go on and the clock advances; nobody has
  to call, and no event has to come: a wait need only end when its timeout is over
  (or the bounded clock is), so a timeout that is too long keeps timers waiting.
- `Processes`: each thread goes on, handlers return, a write that stays possible
  is done, and exit runs to its end. Writers are weakly fair only; with few
  messages no writer can be overtaken for ever. Nobody has to send or to quit.
  The liveness properties except a deaf process by name (`deaf # {}`): epoll never
  reports its pipe, so no fairness of the loop helps.
- `ClientService`: the loop goes on. Timeouts, commands and the network owe
  nothing.
- `EchoServer`: the loop goes on, and `Accept` in it as long as its own
  condition holds. Peers, commands and the network owe nothing.
- `EchoPair`: the network delivers towards the server (`Forth`), and the server's
  loop handles events that move bytes (`ServerMoves`). The client owes nothing,
  and the connection may break at any time.
- `ShellCommands`: a started thread goes on, the threads are started, and so does
  the main thread with a command it has begun (`MainStep`). Mutexes are held for
  finitely many steps. Nobody has to type.

## Proofs

`ListLemmas` says what insertion and removal do to a sequence, by positions; it
also has the well-foundedness of the naturals in the form `LeastExists`, which is
what justifies every `CHOOSE` of a least number in the models. The other modules
each belong to one component.

`StreamSocketProofs` proves, for every choice of capacities, lengths and
bounds, that `Spec` keeps the inductive invariant

    IInv == Good(conn) /\ types
            /\ (BufSizes = {} => conn.txLen >= InitLen)
            /\ (Modest => SentInOrder)
            /\ (HasReceiver => ReceivedInOrder)

and from it `TypeCorrect`, `DescriptorFollowsState` (`FdMatchesState`),
`NoStaleBytes` (`FreshConnection`), `BuffersInBounds` (`BuffersHold`),
`StreamIsSent` (`SentInOrder`) and `StreamIsReceived` (`ReceivedInOrder`).
`Good` is the part that every method keeps: the record has its type, descriptor
and state agree, caches of an unconnected socket are empty, indices are within
their buffers. It is needed because none of its parts is inductive alone: that a
new connection starts with empty caches needs that only a connected socket
fills them, and that `OpenClient` may assert "no descriptor" needs that every
way into CREATED or FAILED has closed it. The proof has one lemma per method
(`Sends` and `Receives` say what it does with bytes), then one per action.

The lemmas about the buffer come first. The loop of `expand` is a recursive
function, of which a proof may use nothing before it has shown that there is one:
`GrowthExists` does so. From the maximum up a constant function satisfies the
recursion; the least number from which some function does is 1 (`LeastExists`),
since a value for the number below it is always to be had. So the loop ends, for
any capacity, goal and maximum. `GrowthBound` says by the same well-foundedness
what it ends with, and `ExpandBound` what
`expand` promises: never less than before, never past the maximum, room for the
request or the maximum, and less than twice what was needed.

The assumptions of the theorems are the named ASSUMEs of the modules, and two
that the code needs: *Modest*, no buffer is resized by hand and no message is
longer than the largest cache (a longer message may be refused with its first
bytes on the wire), and *HasReceiver* for what is received (without one, `OnRead` moves the index of a
buffer it does not fill).

The second half of `StreamSocketProofs` continues with `SInv == IInv /\ Sound(conn)`, where `Sound`
says what FULL and an armed EPOLLOUT mean, and proves from it

- `FullTellsTheTruth` (`FullMeansFull`) when no buffer is resized by hand and the
  threshold is *Roomy*: the initial capacity leaves more than the slack under
  the threshold, and a buffer that has doubled is under its threshold with all
  that it held before. 512 bytes, 0.7 and 16 satisfy both (`ProgramIsRoomy`). Without the second a
  socket could turn FULL with a cache that can still grow, and a resizing by
  hand changes the threshold under a state that stays.
- `NeverSpins` (`NoWritableSpin`) when `epoll_ctl` does not fail; a failing one
  leaves EPOLLOUT armed with an empty cache, as `SetErr` is all that follows.
- `ImplementsStream` (`SendsAsStream`), the refinement of `OutStream`, when
  *Modest* holds. A method either leaves the stream alone (`Leaves`), drops the
  connection (`Drops`) or moves some of the cache to the network and perhaps drops
  the connection then (`Advances`); each is a step of `OutStream` or none.

The last section, "What the methods leave alone", is for `EchoPair`: how far a method
touches the stream, the events and the inside of a buffer, and what a whole
`WriteMsg` or `Read` does to them.

`EchoPairProofs` takes these lemmas once for each end (`CP`, `SP`: the instances of
`StreamSocketProofs` that belong to the `C` and `S` of `EchoPair`), restates the few
it needs for both names of an operator, and proves for all lengths, capacities
and bounds the invariant

    IInv == types /\ GoodClient(client) /\ GoodServer(server) /\ Run(sent, 0)
            /\ (Modest => ClientStream)
            /\ (Modest /\ SP!Alive(server) => ServerStream /\ EchoStream)

`GoodClient` and `GoodServer` are `Good` with what the two programs add: the client
never arms EPOLLOUT, and while its receiving buffer can still grow there is room
for one more pretended read. `ClientStream` says that the wire is a beginning of what
was sent, all of it with the cache as long as there is a client, and no more has
come to the server than is on the wire; `ServerStream`, that what the server holds
follows what it has taken, whole blocks; `EchoStream`, that wire and cache of the
server are blocks of that, and all of it while nothing has gone wrong for it. None
of the three is inductive alone: that a block written back is the next one needs
that nothing was lost on its way through either cache. The invariant speaks of
connections that end as well: the server goes on with what the client has left
behind. From it follow

- `EchoFaithful` (`EchoIsFaithful`) under *Modest*: neither message is longer than
  the largest cache of its sender. They have 31 and 30 bytes, the caches 512 and
  more (`ProgramValues`).
- `KeepsItsPromise` (`KeepsPromise`), the refinement of `EchoPromise`, under *Modest*.
  An event of the server ends it (`Gone`), takes nothing whole (`Idles`) or takes a
  block (`Echoes`), which are `End`, `Fail` or a stutter, and `Return` or `Lose`; that
  the block returned is the one the client sent there follows from `ServerStream`
  and `ClientStream`. The network and the client's events are stutters, `SendData` is
  `Submit` when `WriteMsg` answers success.
- `CopiesStayInside` (`CopiesInside`, an action property) under *SmallReads*: what
  `OnRead` takes and drops at a time (512, `MAX_FAKE_READ_LEN`) is no longer than
  the sizes a buffer begins with and gets when connected (512 and 4096). With a
  longer one the index would pass the end of the buffer before it grows.

`TimersProofs` proves, for any timers, durations and times and for every callback,
the type invariant, `IteratorValid`, `FiresOncePerSet`, `LeavesNoneDue` and `WakesInTime`.
No theorem assumes that callbacks are tame; the properties themselves say until when
they hold, and the inductive invariant is

    IInv == TypeInv /\ (tame => Walk)

so that each step that stays tame has to keep `Walk`, and each that is not has to be
recorded as such. `Walk` says that nothing is broken, that the iterator is at the head
of the list (`IteratorFirst`), that each armed timer is in it once besides the entry
being fired (`OneEntryEach`), that it is sorted but for a first entry whose timer has
been armed again (`Ordered`), whose old time is no longer known, that an entry being
fired was due (`FiredWasDue`), and that the timers `timeout` was computed for are due
no earlier than it ends (`Timely`). `NoneDueIsLeft` proves `LeavesNoneDue`,
`WaitsAreShort` proves `WakesInTime`.

`ClientServiceProofs` proves `OneClient`, `TimerFollowsConnection` and
`DanglingHasCause` for any number of objects, messages and network failures,
with the type invariant. Its inductive invariant adds to them which objects an
event of the batch in hand may still point to: that is what separates an object
deleted by `StopClient` in this batch from any other deleted object, and leaves the
count of `Listener::Handle` as the only other way to a deleted one.

`EchoServerProofs` proves `OneOwner`, `OneCopy`, `StoppedIsClosed`,
`DanglingHasCause` and the type invariant for any number of descriptors,
sockets, connections and messages. Its invariant adds that objects are numbered
in the order in which they are made (`Numbered`, a new one has no copy yet), that
the one socket that listens is the server and nothing lives without it
(`ServerListens`, which is what makes `StoppedIsClosed` inductive), and, as in the
client, which objects the events of the batch may point to (`EventsLive`).
`NewFdIsFree` uses that the naturals are well-founded: the kernel gives the least
free number.

`ProcessesProofs` proves the type invariant, `OneOwner` and the refinement of
`Mailbox` for any processes, routes, pipe capacity and number of messages.
`OneOwner` counts holders, which no prover does well, so the invariant says the
same without counting: `Owners`, a message in a pipe, in a handler or being
written is in no other of these places, was sent to that process and is not gone;
`Known`, a message that was made is in one of them or gone. `OwnerCounted` leads
back to the number. The refinement needs of `Owners` that what was executed is
deleted (`DoneFreed`) and that a thread that writes a message has made it last,
so that messages are accepted in the order of their sender.

`ShellCommandsProofs` proves the type invariant, `MissedOnlyEarly` and
`CrashHasCause` for any processes, commands and number of lines. Its invariant is
about the table (`TableInv`: what was registered stays, only starting threads
insert, a running thread has registered everything, so that a line typed once
all are running meets a table at rest) and about the lists (`ListsInv`: services
get their context before their process runs, a listener is in its list once and
a socket only while it lives, a walk holds the mutex of its list and stands on an
element of it). `ContextInOrder` and `RunningIsReady` are why a `ListService` or
`ListListener` typed late enough meets nothing half made.

Model-checked only: liveness (`CacheIsSent`, `ArmedFires`, `QueuedIsExecuted`,
`SendReturns`, `EndedIsDeleted`, `WaitingIsTaken`, `ServerKeepsUp`,
`PromptReturns`), which the prover does not reach. Every other property of a
passing run is the statement of a theorem.

## Not modelled

- statistics, addresses, names and display, what they miscount included: no
  decision reads them (that `Listener::Handle` writes counters into deleted sockets
  is in `ClientService` and `EchoServer`); `ListThread` and `Version`, which only print
- `Worker` threads, of which no program has one, and affinity; message fields
- the exception of `Epoll::Add` in `OpenClient`, which ends the client as it ends
  the others in `Processes` and `EchoServer`; that of `Remove`, which only the
  destructor of `ProcessService` reaches and which `Destruct` stands for; hence
  the order of the destructors behind it
- `Shell::ExecFile`, which nothing calls
- `TCP_NODELAY` that fails: its result is compared with the wrong value and so
  ignored
- `Fifo`, `Mailbox` and `Object` of the sources: no program includes them
- several connections at once with their bytes: `EchoServer` has the first,
  `EchoPair` the second

## Plan

The order in which the modules were written is that of the table of modules
above: sockets first, since everything the programs exchange passes through
them, then timers, processes, the two programs, the shell and the lists, and the
client and the server together. All safety properties of the runs are proved.
What is left would widen the model: several connections with their bytes at
once, that is `EchoServer` with the sockets of `EchoPair`, and the proof that
`EchoServer` and `ClientService` abstract `StreamSocket` rightly.
