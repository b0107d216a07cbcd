# micserver: specifications, checks and proofs

micserver (`src/`) is a Go framework for distributed game servers. A process
runs one or more *modules*; the modules form a *subnet*, in which each is
connected to every other, over TCP or, inside a process, over Go channels.
Some modules are *gateways* and hold connections of clients. Objects that can
be called from any module (ROC, remote object call) are found through a cache
that the modules keep up to date by notices. This directory specifies those
protocols in TLA+, checks them with TLC on small instances and proves the most
important facts with TLAPS for all values of the constants.

## Inventory

Line numbers are those of `src/`.

| Component | State | Operations | What is hard, what makes it correct |
|---|---|---|---|
| TCP connection (`network/tcpconn`, `network/baseio`) | `state`, `shutdownChan`, `sendmsgchan`, `sendBuffer`, `recvmsgchan` | `Shutdown`, `SendMessageBinary`, `sendThread`, `recvThread` | senders, several callers of Shutdown, two threads and a peer interleave; panics restart the sender. One close of `shutdownChan`; a drain before the socket is closed; in order, no gap, no repetition |
| Subnet (`server/subnet`, `connect/server_pool.go`, `connect/server.go`) | pool of connections by TmpID, `connectMutex`, daemons and their tokens, the flags of a connection | dial, accept, handshake over channels, `OnServerLogin`, `ChangeServerTempid`, `RemoveServer` | two modules dial each other at once; a pool that only a part of the code protects; restarts. Both keep the same connection, and keep one |
| ROC locations (`server/rocserver.go`, `roc`) | `objPool`, `localObj`, the cache, two channels of notices | `RegObj`, `DelObj`, `OnROCObjAdd/Del`, `onServerJoinSubnet`, `onMsgROCBind` | three copies of one fact updated one after another, beside modules that join. What a module believes agrees with the host |
| ROC calls (`server/rocserver.go`, `roc/path.go`, `rocutil`) | `lastSeq`, `rocBlockChanMap`, request and response channels | `ROCCallNR`, `ROCCallBlock`, `rocRequestProcess`, `rocResponseProcess` | answers that come twice, late or never. A caller gets its own answer, and gets one |
| Unique IDs (`util/uid`) | last second, counter, last value | `GenUniqueID` | clocks that stand, jump or go back; widths of fields. No ID twice |
| Channel connection (`network/chanconn`, `process`) | two channels, state | as TCP | a full channel, a reader that does not see Shutdown |
| Messages (`msg`, `util/buffer`, `util/pool`) | ring of bytes, size classes | encode, decode, grow, move | limits, partial messages, reuse of memory |
| Sessions (`session`, `server/servercmd_handler.go`) | sessions by UUID and their values, copied to modules | bind, update, merge | re-keying beside lookups; updates of several modules |
| Gateway (`server/gate`, `connect/client*.go`, `server/server.go`) | clients' connections, their sessions | accept, verify, forward, close | requests for connections that ended; flags nobody looks at |
| Command encoding (`servercomm`) | none | `GetSize`, `WriteBinary`, `ReadBinary` of 21 messages | builds that differ in a field, absent and empty values, lists. What is written is read |
| Timers (`util/timer`, `module`) | timers, `timeTriggerChan`, `hasKilled` | `RegTimer`, `Select`, `KillTimer`, `KillModule` | a mutex held while waiting; a full channel whose reader ends. A tick is one call, callbacks do not overlap, a module stops |
| Log (`log`) | channel of records, stop channel | write, close | records at Close; a Close that waits for a record |
| Application, modules (`app`, `module`) | modules, stop channels | start, run, stop | order of stopping |

What is not modelled is listed, with the reasons, at the end (see also
`components` in PROJECT.json).

The components meet like this. An application calls a module's ROC; ROC tells
every connection of the subnet's pool; the connection's send thread writes it
to the wire; the peer's receiving goroutine puts it into one of the message
queues, chosen by the connection's name, which the login of the subnet gives
it; the queue's goroutine updates the cache. The models follow these borders:
`TCPConn` and `ChanConn` show that one connection is a FIFO (`MsgLink`), which
`Subnet`, `ROCBind`, `ROCCall` and `Gate` then assume of their links; `Wire`
shows that a stream of bytes, however cut, gives the messages back that were
written, which `TCPConn` takes as whole messages. Clients reach a gateway, which
forwards what they send with a copy of their session; the other modules change
their copies and send them round (`Gate`).

## Modules

### MsgLink, TCPConn

`MsgLink` is the promise of one connection: what an end handles is a prefix of
what the other end accepted. `TCPConn` is the code: two ends, each with its
state, the compare-and-swap of `Shutdown` in three steps (two callers: the
application, and the receiving goroutine's `onClose`), senders in the two steps
between which a shutdown may fall, the send thread (`take`, `join`, `write`;
drain after shutdown), the wire with a capacity, `recvThread`, and the
goroutine of `connect.Server` that handles messages. `NetFails` loses the
connection and any part of what was on the way. A callback may panic, after
which `sendThread` starts `asyncSendCmd` again. A message is a model value with
a size; the send buffer grows as `IOBuffer.Write` does.

`LinkSpec` is the refinement: `TCPConn` implements `MsgLink!Spec`, with
`accepted` and `handled` as history variables.

### Subnet

Two ends per connection, each with the program counter of its goroutine; the
pool of each module as a map from TmpID to connection; `connectMutex` is held by
logins and dials and not by the removal or the accepting of a connection, so
the two steps of `ChangeServerTempid`, `RemoveServer` and `AddServerAuto`
interleave with everything. Modules of one process (`local`) meet by the
handshake over channels. A login is answered (`LoginReply`) before the module dialled
tells its hooks that the dialler joined: between the two it broadcasts (`LoginJoin`),
which may wait, so that the dialler may have joined first. A dial may fail, a connection
may be lost, a process may restart, `MaxFaults` times in all. `rand.Int63` priorities are drawn from
`ClientPrio` and `TaskPrio`.

### ROCBind

A registration or deletion takes the four steps of the code (pool, cache,
notice or channel, record), interleaved with other objects, other modules,
connections that enter the pool and modules that join. `link` is a FIFO, as
`TCPConn` shows; `queue` has queue 0 (a connection without a name) and the queue
of its name. `disordered` is history only: the code gives the order of notices
up in three places (a join between the notice and the record of a change;
registration and deletion of one object waiting for the two notice threads; the
change of queue at the login), and the invariants are stated for everything
else. Connections do not end in this model.

### ROCCall

A call is the program counter of its goroutine and its local variables: the
module that `Cache.Get` named (read once, used later), the sequence number of
`newSeq`. It goes to the own request channel, over the link to the module named,
or, if it wants an answer and none is named, over everything in the pool. A module may
have a second connection to a peer there (`Second`): the one that lost the login when two
modules dialled each other, which stays open (`subnet_server.go:33`,
`MCSubnetTerminated`). Only a broadcast goes over it, so that the peer gets two copies of
the call (`Copy`: the call and its connection). `executed`, a history
variable, is what each module ran. Every module is a process: `down` is a panic,
which is what the code does when a call with an answer succeeds for another
module (`err.Error()` on a nil error, `rocserver.go:267`). A call that wants an
answer from its own module is executed and waits for good (`rocserver.go:254`).
The cache's changes are those that `ROCBind` allows for an object with one host:
the host, or nothing. `catchType` has only the entries that calls read.
The connections are there before the calls; they neither begin nor end.

The notices that `ROCBind` sends carry what arrives, not what was meant: of the
object IDs in one list only the last is read, once for each (`Command` has the
encoding).

### UniqueID

`GenUniqueID` with the widths of its fields as constants, and a clock that
`SetClock` sets to anything. A call holds the mutex and is one step.

### ChanConn

The connection inside a process, under the interface of `TCPConn` and with other
rules: the sender's goroutine puts its message into the other end's channel and
waits there if it is full; `recvThread` waits for a message and looks at the state
between two of them; `recvmsgchan` gets the capacity that the channel has when the
end is made, zero included, where a send is a rendezvous with the handler
(`HandOver`); nothing closes the channels. Both ends send. `LinkSpec` shows that it
implements the same `MsgLink`.

### Command, Wire

`Command` is the generated code of `servercomm/command_binary.go` read once per
kind of field instead of once per message: a schema lists the fields of each of
the 21 messages, and `GetSize`, `WriteBinary` and `ReadBinary` are operators on
schemas, byte by byte, with the early returns of the readers on short data and the
offset that does not move between the strings of a list. `Wire` sends their bytes:
`DefaultEncodeObj` with its refusal of long messages, the stream, reads of any
length, `IOBuffer` with its growth and its shrinking, and `DefaultCodec`, which
keeps a header between two calls. Sender and receiver may be builds of which one
knows a field less.

### Session, Gate, SessionManager

`Session` holds the operators on sessions: a table of keys and values, `FromMap`
(theirs wins), `OnlyAddKeyFromSession` (ours wins), and the two operations of a
manager in one step.

`Gate` composes a gateway's clients with the managers of all modules. A client's
connection is `phase` (its receiver, then its handler, ends), what it sent and the
flag `terminate_force`; the pool is by TmpID. At the gateway sessions are objects,
since `Client.Session` and the manager's entry may be the same one; at a worker
they are values. Workers log users in, answer, have connections closed and sync the
session to the modules it is bound to; `queue` is in order from one module to
another. The model is of modules that leave `MsgThreadNum` unset, as nothing in the
repository sets it: a module then has one message queue (`InitMsgQueue`,
`subnet_handler.go:172`) and handles one message after another; several
queues are the subject of `SessionManager`. Beside a module's handler run the goroutines
of the clients, which read the clients' sessions and the pool. So the gateway's
`onUpdateSession` is taken apart where it writes what they read: `OnUpdateClient` (the
client's session), `FindSession` (the look in the manager), `LoadOrStore`, `WriteData` (the
copy into the session that was found), with `handler` for what it remembers between them. At
a worker nobody sees the middle of a handler, and it is one step.

`SessionManager` takes the handlers of sessions apart, for one user at one module with
several message queues: each access
to the `sync.Map` of the manager and each copy between two Session objects is a
step of its goroutine. The copy itself, a loop over keys on another `sync.Map`, is
one step. `outdated` is history: who wrote into an object of which the replacement
was already read.

### Timer

`RegTimer` in three steps (the test of the channel without the mutex, the one with
it, the goroutine), `Select`, which holds the timer's mutex from its first step to its
last, `KillTimer`, `goSelectTimer`, and the two steps of `KillRegister` with a full
channel between them. Two facts of the code make the model smaller: `killChan` is
written only when the loop ends anyway, and `timerList` never gets a timer, since
`RegTimer` appends to a copy of the list (timer.go:111), so that `KillRegister` finds
none to kill.

## Runs

| Run | Shows |
|---|---|
| `tcpconn` | `ShutdownOnce`, `DrainComplete`, `LinkSpec` with two concurrent senders, lost connections and panics |
| `tcpconn_live` | under fairness: what was accepted in time is handled (`GracefulDelivery`); Shutdown of one end ends both (`ShutdownCloses`) when one end sends |
| `chanconn` | the same link (`LinkSpec`); one message at most is taken after a Shutdown (`OneLate`); under fairness `Delivered` and `SendReturns` |
| `wire` | `Understood`: what is read is what was written, of any message, in any build, however the stream is cut; `ArrivesIfFits`, `GivenBack`: the limits of the receive buffer and its shrinking |
| `subnet` | `JoinedMeansAccepted`, `JoinAgreement`, `QuietMeansConnected` with one fault |
| `subnet_keeps` (violated) | `KeepsConnected`: a lost connection is not dialled again |
| `rocbind` | `NotStale` and `Found`: the caches agree with the hosts, in both modes, but for what lists lose |
| `roccall` | `OwnAnswer`: answers that come twice or late reach no other call; `AnswersAreTrue`: what they say of the module that gave them is so; `InOrder`: a goroutine's calls of an object that go over one connection are executed in order; `ExecutedOnce`: a call is executed by one module of the subnet, once, a broadcast at most once for each connection; under fairness `RemoteReturns`: a caller that knew a module gets its answer unless one of the two panics, or the caller waits behind a broadcast over more than two connections |
| `gate` | `OpenIsPooled`: a client that is connected stays in reach; `Keyed`: sessions stay under their UUID, at the gateway those of users whose connections have no other user; `OwnConnID`: a user's only connection keeps its ID in his session, and goes from the pool when it ends; under fairness `Removed`, `KickedLeaves`: clients that end, or are to end and send, go |
| `sessions` | `NoPanic`, `KeepsUpdates`: overlapping updates and logins of one user leave a session with its UUID and with what they wrote, unless its object was being replaced |
| `timer` | `OneAtATime`, `TicksAreCalls`, `OneLate`; under fairness `Served` and `Stops` |
| `uniqueid` | `Increasing`, `CheckIsRedundant`: no ID twice, whatever the clock does |

Further configurations, to be run by hand (`tlc -config X.cfg M`). Each violates its
one property and so shows a behaviour of the code that a reader may not expect:

| Configuration (module) | Shows |
|---|---|
| `MCTCPConnMutual` (`MCTCPConn`) | `ShutdownCloses` fails when both ends send and both are shut down: nobody reads any more (`tcp_conn.go:445`) |
| `MCTCPConnClient` (`MCTCPConn`) | `CallbackMeansSent` fails on a client's connection, whose buffer may refuse a message (`tcp_conn.go:419`) |
| `MCSubnetTerminated` (`MCSubnet`) | `TerminatedCloses`: the connection that lost the login stays open (`subnet_server.go:33`) |
| `MCSubnetRemove` (`MCSubnet`) | `RemovesItself`: a removal hits the connection's successor (`subnet_handler.go:23`) |
| `MCROCBindMigrate` (`MCROCBind`) | `Migrated`: an object that moved may be found nowhere (`roc/cache.go:66`) |
| `MCROCBindLists` (`MCROCBind`) | `ListsTold`: a module that joins hears of the last object of a list only (`command_binary.go:2388`, `:2419`) |
| `MCGateConnID` (`MCGate`) | `ConnIDIsTmpID`: a late update gives a client's session the ID of the user's former connection (`servercmd_handler.go:78`) |
| `MCGateRekey` (`MCGate`) | `UUIDIsKey`: when a client's session gets another UUID at the gateway, the manager goes on to keep it under the old one (`servercmd_handler.go:83`, `manager.go:87`) |
| `MCSessionManagerLost` (`MCSessionManager`) | `NothingLost`: an update beside a replacement of its session is lost (`manager.go:112`) |
| `MCTimerKill` (`MCTimer`) | `KillCloses`: `KillTimer` before `Select` has begun does nothing (`timer.go:71`); afterwards it waits until `Select` has ended |
| `MCTimerStop` (`MCTimer`) | `AllClosed`: timers with a goroutine of their own go on after `KillModule` (`timer.go:111`, `:122`) |

Bounds. Every channel of `tcpconn` has capacity one and the wire one message, so
that every "full" and "empty" happens with two messages; two messages are enough
for a batch, for a reordering and for a gap. With sizes in halves of
`MessageMaxSize` a batch is cut where the code cuts it; `MCTCPConnClient` has the
real ratio of a client's buffer. `subnet` has two modules because the login
compares exactly two connections; two priorities on the dialling side give less,
equal and greater; two runs of one process give a restart; faults beyond the
first are left out for the size of the state space (700 000 states with one).
`rocbind` makes three changes, with two message queues, on one object that only one module hosts and one
that two may host: enough for add, delete, add beside a join, and for batches of
two; further modules hear the same link by link, since what one module is told
does not depend on what another is. `MCROCBindMigrate` needs the third module, and
keeps the two hosts unconnected to each other (`Star`), which only narrows the
search for the counterexample. `roccall` has a caller with two peers and a second connection
to one of them, so that a broadcast has three answers for a channel of one place: one that the
caller takes, one that waits, and one for which `rocResponseProcess` blocks
(`rocserver.go:293`), which is the exception of `RemoteReturns`. One goroutine makes two calls
that wait and one of an own object, the least for an order and for an answer that comes late; one
change of the cache is enough for a location that is learnt or forgotten between two calls. `uniqueid` has four seconds, three counter values
and two low values, so that the counter overflows, the seconds wrap and the
clock passes both ends of the range within five IDs.
`chanconn` sends three messages, two of them one way, over channels of one place: an
end made later or earlier gets a `recvmsgchan` of no place or of one. `wire` sends each
kind of message, with its optional fields absent, empty and filled, before a second one,
over buffers of 16 bytes that grow to 64, with a limit of 89 bytes for a message: the
proportions of a client's connection, so that messages fit, fit after growth, never fit,
and are refused. `gate` has three connections (867 260 states): two of one user, so that his session moves
from one connection to the other while updates are under way, and a third whose messages go to
both workers, so that its session is bound to both. Two users on one connection, whose
session changes its UUID, are in `MCGateRekey`, and in the theorems, which allow any
sharing. There are two workers, the least for a sync from one to the other; and one message per connection, two for the one that is
removed. What an application decides (where messages go, whom it answers, whom it removes) is fixed by
`Route`, `Answered` and `Picked`. `sessions` has three commands, since one may read what a second
replaces while a third writes, and two connections; goroutines, and connections, are
interchangeable and are reduced by symmetry (its properties are invariants). `timer` has one
timer of each kind: without limit, with one, with a goroutine; and a channel of two, which
three ticks fill.

Fairness. `TCPConn`: weak fairness for each goroutine (the Go scheduler runs what
can run, a kernel with room takes what is written), for a call of Shutdown or a
send that has begun, and never for beginning one or for the network's failure.
`Subnet`: the same; strong fairness where a goroutine waits for `connectMutex`,
since a Go mutex does not starve a waiter, and for a dial, since a peer that
listens is reached by one of the attempts; that the broadcasts between `LoginReply` and `LoginJoin`
return is part of it. `ROCCall`: weak fairness for a call that
has begun and for the three goroutines of a module, none for beginning a call.

`ChanConn`: weak fairness for the threads, for a call that has begun, and for the
`onClose` call of Shutdown. `Gate`: only the goroutine of a client's connection; neither
clients nor other modules need do anything. `Timer`: weak fairness for every goroutine and for calls that
have begun; that time goes on and that callbacks return is part of it. `Wire`: the sender
and the receiver go on.

Deadlock is not checked where a finished instance has nothing to do: a closed
connection, a connected subnet, a bound used up, clients that are gone, commands that are
handled, timers that ended; nor in `roccall`, where a local call waits for good. It is in
`uniqueid` and `wire`.

## Proofs

The proofs about a component are in the module `<Component>_proofs`, which extends the
component's module; those about `UniqueID` are the last part of `Gate_proofs`, since the
IDs are the names of the connections there. Theorems are proved for every value of the constants that the named
assumptions allow, and from `Init /\ [][Next]_vars` alone: none needs fairness.

| Module | Theorem | Says |
|---|---|---|
| `TCPConn_proofs` | `TypeCorrect` | types |
| | `ShutdownOnceCorrect` | `Spec => []ShutdownOnce`, for any ends, messages, capacities |
| | `DrainCorrect` | if every message fits an empty send buffer, `Spec => []DrainComplete` |
| | `ImplementsLink` | under the same premise, `Spec => LinkSpec`: the connection implements `MsgLink`, lost connections and panics included |
| `ChanConn_proofs` | `TypeCorrect` | types, and the channels' capacities |
| | `TakesOneLate` | `Spec => []OneLate` |
| | `ImplementsLink` | `Spec => LinkSpec`, with no premise |
| `Subnet_proofs` | `SubnetTypes` | types |
| | `SubnetJoin` | `Spec => []JoinedMeansAccepted`, for any modules, priorities, faults and restarts |
| | `SubnetAgree` | `Spec => []JoinAgreement`, for any modules that dial each other |
| | `SubnetConnects` | `Spec => []QuietMeansConnected` |
| `ROCBind_proofs` | `TypeCorrect` | types |
| | `NoticesAreCurrent` | `Spec => []NotStale`, for any modules, hosts and changes, in both modes |
| | `JoinedFind` | `Spec => []Found` |
| `ROCCall_proofs` | `ROCCallTypes` | types; a channel holds one answer at most |
| | `ROCCallOwn` | `Spec => []OwnAnswer`, for any modules, objects, calls and goroutines |
| | `ROCCallOrder` | `Spec => []InOrder`, with any second connections |
| | `ROCCallOnce` | `Spec => []ExecutedOnce`: once, or once for each of two connections |
| | `ROCCallTrue` | `Spec => []AnswersAreTrue` |
| `Gate_proofs` | `TypeCorrect` | types: every session, wherever it is, is a table of the right values |
| | `OpenStaysPooled` | `Spec => []OpenIsPooled` |
| | `KeyedCorrect` | `Spec => []Keyed`, whoever shares connections |
| | `OwnID` | `Spec => []OwnConnID` |
| | `UniqueIDTypes`, `UniqueIDIncreasing`, `UniqueIDCheck` | the invariants of `UniqueID`, for any widths and any clock |
| `SessionManager_proofs` | `TypeCorrect` | types |
| | `NeverPanics` | `Spec => []NoPanic`, for any number of commands that overlap |
| | `UpdatesAreKept` | `Spec => []KeepsUpdates` |
| `Timer_proofs` | `TypeCorrect` | types |
| | `OneCallback` | `Spec => []OneAtATime`, however many timers are registered at once |
| | `EachTickIsCalled` | `Spec => []TicksAreCalls` |
| | `OneLateCallback` | `Spec => []OneLate` |

### TCPConn

`ShutdownOnce` says that at most one caller is about to close `shutdownChan`, and
that it is not closed yet. It is not inductive: the swap must know that nobody
swapped before, so `ShutdownInv` adds that a LINKED end has an open channel and
no caller at the close.

`DrainComplete` needs to know where a message is that was accepted before the
shutdown. `DrainInv` says that the send thread drains only after the shutdown,
and, until the connection is lost, that such a message is written, in the send
buffer, or in the channel while the thread has not closed (`PlaceInv`), and that
the buffer and its counters are empty between two batches (`BufferInv`), which is
why the next message fits. The premise is necessary: `MCTCPConnClient` has
a message that does not fit.

`LinkSpec` maps `accepted` and `handled` to those of `MsgLink`; every other step
must be a stutter, and handling must take the next message that the other end
accepted. `StreamInv` says where the others are: what was accepted is, in order,
what was handled, what waits in `recvmsgchan`, what `recvThread` has decoded, the wire,
the send buffer and `sendmsgchan`, without a gap between two of them. Once the
connection is lost, what follows the wire may be any sequence. Each action
moves the head of one part to the end of the next (`MoveHead`) or is a stutter.

### ChanConn

`StreamInv` is the same equation with other parts, and needs no premise, since nothing is
refused for its size and nothing is lost. `ThreadInv` says when `recvThread` has a message in its hand.
`OneLate` becomes inductive with `LateInv`: an end that took a late message has left
the state in which it waits for another.

### Subnet

`JoinedMeansAccepted` relates the two ends of a connection, of which one acts on a
message that the other sent some time before. `JoinInv` adds `LoginInv`: an answer
waits at a dialler only if the other end accepted (it joined, is at `LoginJoin`, or has ended),
logins wait at the module dialled only, and only there are they handled; and `RunInv`: an end
that was not made has no goroutine, and modules of one process do not fail. `joined` records that `OnServerJoinSubnet` was
called and is never taken back, by a restart neither, which empties inboxes and stops
goroutines. That a login about to be sent carries the priority that was drawn is
`PrioInv`, needed for the types alone. Most actions disturb neither part of `JoinInv`;
`Harmless` says so once for all of them.

`JoinAgreement` and `QuietMeansConnected` hold as long as nothing failed, and so does what they
rest on: `IInv` has `Faultless => AgreeInv`. Its parts follow a login through the pool.
`connectMutex` has one holder, a daemon or an end that handles a login (`MutexInv`). A
dialler logs in once, with the priority it drew (`OnceInv`). What is in the pool under the
name of another module is an end of a connection between the two (`EntryInv`), the end that was
preferred is there, and the name is free only while a step under the mutex is about to
take it (`NameInv`); a connection that was only accepted has another name, the number
drawn for it (`AutoInv`). So of two connections that cross, the one that logs in has
the higher priority (`WinsInv`), and two that both joined would each be above the other.
For `QuietMeansConnected` two parts say that nothing is forgotten: a daemon rests only
when one of the two sides has begun a connection (`BeginInv`), and a connection that was dialled
logs in, or loses against the other, and its answer is not lost (`EndInv`).

### ROCBind

What `n` believes of an object is its cache; what it will believe is decided by
the last notice about the object that is on its way from `m`. `Word(m, n, o, del)` is
this last word of `m` to `n`: the final notice in the link, or, if there is none, in a queue
of `n`, or, if there is none, the cache itself. `StaleInv` and `FoundInv` say that the last word is right, for objects
that are deleted and for those that are registered, unless it is still
to be given: the call stands between `objPool` and its notice (`Pending`), or the notice
waits in a channel of the notice threads. When everything has arrived, the last word is the
cache, and `NotStale` and `Found` follow (`LastWord`).

The other parts are what the steps need. `HostInv`: a module speaks of objects
that it may host, to modules in its pool. `CallInv`: `localObj` differs from `objPool`
during a call only, which is what makes a list told to a module that joins agree
with the notices beside it. `SelfInv`: a module's own cache follows its `objPool`. `WaitInv`: a change that waits for a notice
thread is the last one. `QueueInv`: notices about one object wait in one queue. The last four say
nothing of what `disordered` names, where the code gives the order up.

### ROCCall

`OwnAnswer` is about the last step of a call only; the invariant follows the number
of a call on its way. `NumberInv`: two calls of one module never have the same
number, none is above `lastSeq`. `CarryInv`: every request and answer on a link, in
a channel of a module, in the hand of `rocResponseProcess` or in the channel of a
caller carries the number that its call took at its caller. `WaitInv`: who waits
has a channel. `CountInv` counts the calls that took a number, which bounds the
numbers; it is the only place where the number of calls is finite.

`InOrder` compares two positions in `executed`; `WayInv` follows the copies of a call, each the call
and its connection, on the whole way: the link of that connection, `rocRequestChan`, and what
was executed. Of two copies that a goroutine sent over one connection the earlier is ahead, and a copy is at
one place, and there once (`QueueInv`). The step that sends needs that the earlier call
has ended (`BeforeInv`), that no copy of a call which was not sent is anywhere (`SentInv`),
and that a copy comes by a connection which is in its caller's pool, or, to the caller itself,
by none (`RouteInv`). The proof never uses that the two calls have one target: all copies that
a goroutine sends over one connection are executed in order. Between the two connections there is no order to prove.

`ExecutedOnce` then speaks of two modules: `HostInv` says that what a module executed is a call of
an object that it hosts, and an object has one host; so of the modules that a broadcast
reaches, one executes it, and there only the copies by different connections are two.

`AnswersAreTrue` follows an answer from the module that makes it to the caller that returns with it.
`TruthInv` has three parts for a module and a call. `SourceInv`: an error is around (on a link, in a channel,
in the hand of `rocResponseProcess`, returned) only if the module executed the call, an unknown
object only if it has none. The second copy of a call may find the object gone that the first was
executed on, and then this module makes both answers: `LateInv` says that its report of an unknown
object is not what the call returns with, since it comes behind the error in each of the places that keep their order, or
behind another answer, which the call took. `ReportInv`: who executed a call, and is up, has said
so, and the answer is still around or the call has taken one.

### Gate

`TypeCorrect` needs more than types, since a handler reads from a session what another module
put there: a session that is verified has a UUID which the gateway keeps, one that the gateway forwards
has a connection, and the object kept for a UUID exists. `KnownInv` says so of the gateway's objects, of
the workers' copies and of the sessions in `queue`; it needs only the shape of a session, not
whose it is. `OpenIsPooled` is inductive with `TypeInv`.

The other two are about whose a session is. Connections may be shared by users who log in one after
the other, so a session has no one owner; but there are groups that no session
crosses. Let `K` be connections and `U` users such that the users of `K` are in `U` and those of the
other connections are not (`Closed`). Then a session that has a connection and a UUID has
both from the group, or neither (`Fits`). `GroupInv` says so for each place of a session: `ClientInv`, `KeptInv`,
`WorkerInv`, `CommandInv`, and `HandlerInv` for what the gateway's `onUpdateSession` has in its hand
between two steps. The step that matters is `OnUpdateClient`, in which
the gateway takes over a client's object for a user: what it merges comes from another module, and may
be older than what the gateway has. `IInv` has `GroupInv` for every group, so that each of the two
theorems takes the group it needs: `KeyedCorrect`, for a user whose connections have no other
user, these connections and him; `OwnID`, for a connection that shares no user with another, this
connection and its users. `OwnID` adds `ClosedLeft`, that a connection which is closed has left the
pool: a merge keeps the connection ID, as this is the only one that these sessions can name.

What `Keyed` says of the workers needs no group (`KnownInv`). What it says of the gateway
is limited to users whose connections are theirs alone, and must be: `MCGateRekey` has a connection
with two users, whose session the manager goes on to keep under the first one's UUID.

### UniqueID, SessionManager, Timer

`UniqueID`: `MadeInv` ties the last value to the fields and says that all IDs made
are below the next value's. The step needs that a later second outweighs every
counter, which is a fact about products (`NextValue`), proved from
`TimesMonotone`.

`SessionManager`: an object that a goroutine makes is nobody's before (`FreshInv`), so that
two goroutines never build one. Whatever is kept, or about to be stored, has the
UUID (`NamedInv`, from `UserInv` and `PlaceInv`), which is all that `MustUpdateFromMap` asks for. For
`KeepsUpdates`, `SafeInv` follows the key of a command that is done: it is in what is
kept, in the object that is about to replace it, or in the one from which this is still to
be completed; the exception, `outdated`, is that of the property.

`Timer`: at most one `goSelectTimer` begins, and only when the channel was made (`OneLoop`), so that
callbacks do not overlap. `CountInv` has one place for each tick: called, in the channel,
or in the hand of its `Select`. `LateInv`: the loop that began a late callback looks at
`hasKilled` before it waits again.

### Assumptions, and what is only model-checked

Assumptions are the named ones of each module, which TLC evaluates on the runs: two ends, positive
capacities and widths, bounds that are numbers, finitely many calls, model values that differ (`None`,
`Nil`, the keys of a session and the objects of `SessionManager`, the connections and
users of `Gate`, the names drawn for accepted connections and those of modules, priorities and `None`), and `BeforeAssumption` of
`ROCCall`: a goroutine makes its calls in one module. Two theorems of `TCPConn` have a
premise, named in the table, that is no assumption of the module: the code does
not see to it.

Only model-checked are `Understood` of `Wire`, which is recursive over data, where the
prover has no induction, and all liveness (`GracefulDelivery`, `ShutdownCloses`, `Delivered`,
`SendReturns`, `ArrivesIfFits`, `GivenBack`, `RemoteReturns`, `Removed`, `KickedLeaves`,
`Served`, `Stops`), which is out of the prover's reach. Every other property of a
passing run is a theorem. The type invariants of the other modules (`TCPConn`, `ChanConn`, `Subnet`,
`ROCBind`, `SessionManager`, `Timer`) are theorems for all values of the constants, and no run repeats
them.

## Disagreements between the code and what it says

`subnet_keeps` is listed in `findings` of PROJECT.json, with the lines: comments of
`subnet_connecter.go` (26, 168) promise that a connection is kept. The further
configurations above are of the same kind; what their sources say:

- `roc/roc.go:11-14` promises a strongly consistent network in which objects can be moved
  (`Migrated`, `ListsTold`).
- `connect/client.go:37` says that the connection ID of a client is its TmpID
  (`ConnIDIsTmpID`).
- `manager.go:87-88` and `session.go:121` say that a UUID which changes changes the
  manager's key as well (`UUIDIsKey`).
- `timer.go:63` and `:122` say that KillTimer closes the timer and KillRegister all of them
  (`KillCloses`, `AllClosed`). `timer.go:11` says that a callback returns whether to go on,
  which `goSelectTimer` (143) does not look at.
- `connect/base.go:73` says that a connection which is past its time is closed at its next
  send or receipt; only receipts look at it (`client.go:97`, `subnet_handler.go:70`), and only
  an application sets it for clients, so that `Gate` has no timeout.

Findings of the models where the code says nothing: a call that succeeds panics
(`rocserver.go:267`), a local blocking call never returns (`rocserver.go:254`); both are
steps of `ROCCall` and exceptions of its properties.

## Not modelled

- Log: records and their writers are output. The channel to the writer's goroutine has a
  `Close` that waits for a first record (`log_writer.go:99`), which is listed as a hazard.
- Application: start and stop of the modules, once, one after another; a module's stop is in
  `Timer`.
- Configuration: read once. `serconfs`: never filled. HTTP connection: a wrapper of
  `net/http`. Utilities: conversions and statistics.
- In modelled components: ping statistics, `ClientPool.linkSum` and the random choice of a
  client, the choice of a server by load, the reuse of memory by the pools, ends of connections in
  `ROCBind` and `ROCCall`, several modules of one process that share a ROC cache, sessions that
  change their user in `SessionManager`, modules with several message queues in `Gate`,
  `SForwardToModule`, which is passed on to the application as it is.

## Plan

Every safety property that a run checks is proved, but for that of `Wire`. What could follow:

1. In `ROCCall`, connections that end, as `TCPConn` and `Subnet` have them: a caller whose
   request or answer is lost waits for good, which would bound `RemoteReturns` further.
2. `Gate` with several message queues for a module, whose handlers overlap as in
   `SessionManager`.
3. For `Wire`, the encoding of one field at a time as recursive functions, when the prover can use
   the library's induction.

Composition: `ROCBind` and `ROCCall` stand on `MsgLink`'s promise; `Gate` and `SessionManager`
share the sessions' operators; `ChanConn` and `TCPConn` implement the same abstract link.
