# DirectPlay Lite in TLA+

DirectPlay Lite is a free reimplementation of Microsoft's DirectPlay8 peer-to-peer
API (`dpnet.dll`). This directory holds TLA+ models of its core, the TLC
configurations that check them, and TLAPS proofs. Every definition is a translation
of code under `src/src/`; `PROJECT.json` (`map`) gives the lines. In this file
*P:n* is `src/src/DirectPlay8Peer.cpp` line n, *PH:n* `DirectPlay8Peer.hpp`,
*HP:n* `HandleHandlingPool.cpp`, *HE:n* `HostEnumerator.cpp`.

## 1. The system

| Component | State | Operations | Met by |
|---|---|---|---|
| `DirectPlay8Peer`, session part | `state`, `peers`, `player_to_peer_id`, ids of host and local player, listener and UDP sockets, `connect_cv`, `peer_destroyed` | `Initialize`, `Host`, `Connect`, `Close`, `TerminateSession`, `DestroyPeer`, `CancelAsyncOperation`; `io_peer_*`; a `handle_*` per message | application threads, pool workers |
| `DirectPlay8Peer`, sends | `Peer::sq`, `work_queue`, the counter and result captured by the callbacks of one `SendTo()` | `SendTo`, `io_peer_send`, `handle_work`, three kinds of cancel, flush in `peer_destroy` | both |
| `SendQueue` | three lists and `current` | `send`, `get_pending`, `pop_pending`, `remove_queued*`, `handle_is_pending` | the above, under `lock` |
| `HandleHandlingPool` | `handles`, `callbacks`, `spin_workers`, `pending_writer`, three locks, the workers | `add_handle`, `remove_handle`, `worker_main`, `worker_exit`, destructor | every thread |
| `AsyncHandleAllocator` | a serial number per kind of operation | `new_enum` ... `new_rpgroup` | callers of asynchronous operations |
| `DirectPlay8Peer`, receiving | `Peer::recv_buf`, `recv_busy`, `events` | `io_peer_triggered`, `io_peer_recv`, `enable_events`, `disable_events` | pool workers |
| Groups | `groups`, `destroyed_groups`, `Group::player_ids` at every member | `CreateGroup`, `DestroyGroup`, `AddPlayerToGroup`, `RemovePlayerFromGroup`, `handle_group_*`, `group_destroy_all` | both, and a detached thread per call |
| Acknowledged updates | `Peer::pending_acks`, `next_ack_id` | `SetPeerInfo`, `SetApplicationDesc`, `register_ack`, `handle_ack` | both |
| `HostEnumerator`, `EnumHosts` | timers, counters, a thread per enumeration | `main`, `handle_packet`, `cancel`, `wait`; `handle_host_enum_request` at the host | its own thread, callers, workers |
| Packets | the buffer of a message | `PacketSerialiser`, `PacketDeserialiser` | message senders and handlers |
| `DirectPlay8Address`, COM plumbing, logging, hook DLLs | see `PROJECT.json` | | |

**How they interact.** One mutex, `DirectPlay8Peer::lock`, protects the instance. It is
released around every call of the application's `message_handler`, so each handler is
cut into pieces at its callbacks; everything may change in between, including the very
`Peer` the handler works on (`RENEW_PEER_OR_RETURN`, P:45, looks it up again). Each
peer has an auto-reset event, set by Winsock and by `SendQueue::send()`; the pool
runs `io_peer_triggered()` for it on any worker, and several workers may be in the
code of one peer at a time. `add_handle()` is called with `lock` held and must get
past workers that wait; the workers' callbacks want `lock`.

**What is hard.** Interleavings at the callbacks; asynchronous completions that must
come exactly once; a connection that fails on several paths at once; waiting in
`Close()` and in synchronous `Connect()` and `SendTo()`; wakeups through auto-reset
events; the writer-preference protocol of the pool; counters and clocks that go round;
tables that every member of a session keeps for itself and that must agree although
each pair of members has its own stream and each stream its own priorities. Nothing
is persisted, and transport is TCP within a session, so there is no crash recovery and
no reordering within one connection and priority. `hazards` in `PROJECT.json` lists each at its line.

**What makes each part correct.**

* Sends: a message goes out whole, in order within its priority, or not at all (a flush may cut
  one short: section 5); each accepted send completes exactly once, but for what is deleted with a
  `Peer`, and S_OK means it was written to all targets.
* Pool: each registered event is waited for by `threads_per_pool` workers and gets its
  own callback; writers have the vectors to themselves and are not starved; threads are joined.
* Handles: never 0, carry the bits of their kind, do not collide within 2^29 of a kind.
* Session: no assertion fails and no deleted `Peer` is used; arrivals and departures are
  indicated once each; a closing peer never comes back; players are unique and can be
  addressed; a connect completes once; every call returns.
* Receiving: however TCP cuts the stream into pieces and whichever workers read it, the
  handlers get the packets that were sent, once and in order; only a broken stream ends a connection;
  the end is noticed. The deserialiser accepts what the serialiser makes and nothing else.
* Groups and updates: every call completes once, S_OK means it was done and is seen by the caller,
  members that stay agree on groups and memberships, a destroyed group stays destroyed.
* Enumeration: as many requests as asked for, a full timeout after the last, and an end.

## 2. Modules

| Module | What it is |
|---|---|
| `SendQueue` | the queue as operators on a record: three sequences and `current` |
| `Sends` | `SendQueue` under the threads that use it, with sockets, events and the work queue |
| `SendCompletion` | the abstract promise of `SendTo()`: new, outstanding, completed once |
| `HandlePool` | the pool, one step per lock operation |
| `AsyncHandles` | the allocator with a serial number of `IdSpan` values |
| `Session` | one instance as host or joining peer, the rest of the session as environment |
| `Groups` | the group tables, send queues, wires and acks of all members of a session |
| `HostEnum` | enumerations with a clock that goes round, the host that answers, `Close()` |
| `Packet` | serialiser and deserialiser as operators on sequences of units |
| `Receive` | one connection's stream, `recv_buf` and the workers that read it; uses `Packet` |
| `SendsProofs`, `HandlePoolProofs`, `AsyncHandlesProofs`, `ReceiveProofs`, `HostEnumProofs`, `SessionProofs`, `GroupsProofs` | theorems (section 4) |
| `SessionHostProofs` | theorems about a host, on top of those of `SessionProofs` |
| `MCSends`, `MCHandlePool`, `MCSession` | symmetry sets for TLC |
| `MCGroups`, `MCHostEnum`, `MCReceive` | scenarios, requests and streams for TLC |

Names of the source are kept: variables are its members, actions its functions. In each
module the definitions marked *Fault* are plausible mistakes; `PROJECT.json` (`mutants`)
says which definition each replaces and which property then fails.

### Sends

`lock` is the owner of `DirectPlay8Peer::lock`; `thread[t]` says where a thread is. A
place ending in `cb` is the application's handler, without the lock. An action is the
code from one such point, or one turn of a loop, to the next: `SendWhole` is a turn of
`io_peer_send()` in which `send()` wrote the rest of the op, including `pop_pending()`,
the `SetEvent()` for the next one and the callback. The callback's effect on the counters
is `Settled`; it counts as indicated when the lock is released for it. Payloads are
numbers of units; a socket's send side is ready, full, shut or broken. A synchronous
`SendTo()` is a record in `send` with `returned`; its waiting caller is not one of
`Callers`, which only limits who may cancel and destroy. `CancelHandle` includes the
branch DPNERR_CANNOTCANCEL, which drops an op without callback only if the same handle
is pending in the same queue. `PeersOf` covers groups: a group is a set of targets.
`peer_destroy()` is four places with the lock released in between: the flush (`FlushOp`, `FlushReturn`, `FlushDone`), the loop
over `pending_acks` (`FlushAck`, `FlushAckReturn`), DESTROY_PLAYER (`AcksDone`) and the deletion
(`DestroyReturn`, `Delete`), and any number of threads may be in it for one peer. Of the acks there is only their
number, at most `MaxAcks` per connection: each is a callback that may release the lock. `Delete` empties the queue without callbacks, as `delete peer`
does. `flushed`, `late` and `orphans` are history: queues that were emptied, ops queued after that, and ops deleted with their `Peer`.

### HandlePool

`wait_lock` is `readers` and `writer`; `pending_writer` starts undefined, as in the
constructor. A callback may itself call `add_handle()` or `remove_handle()`. Failures
are `std::bad_alloc`, a `std::thread` that does not start, and WAIT_FAILED. Worker
identities are reused after a join.

### AsyncHandles

`Advance` and `Handle` are `new_XXX()` (`AsyncHandleAllocator.cpp:33`). The serial number
is 29 bits in the code; `IdSpan` is its range and `8` in the run, so that the counters go
round several times.

### Session

`stack[t]` holds the functions thread t is in, innermost first, since one handler calls
another that releases the lock (`peer_destroy` calls `connect_fail`, which calls
`peer_destroy_all`). `told`, `completes` and `host_ok` are history: what the application
was told of each player, the CONNECT_COMPLETE indications, and the last CONNECT_HOST_OK.
An `assert()` that fails, or the use of a deleted `Peer`, sets `fault` and ends the
behaviour. A remote sends only what a correct one may send in the state of its
connection, and may refuse, close or break.

Abstractions: an indication counts from the moment the lock is released for it;
`io_peer_recv()` reads one message per turn (`Receive` has its buffer, and that what is already
in it is still handled when the peer begins to close); player ids
are those the host assigns in order; the queues of outgoing data and the acks are left
to `Sends` and `Groups`, except that `peer_destroy()` may make a callback for them
(`DestroyFlush`); `getsockopt()` in `io_peer_connected()` may fail (`ConnectionUnknown`), after which the
function reads the state of a `Peer` that `connect_fail()` has deleted (`ConnectionUsed`); `Close()` from a worker's own callback is not modelled (the destructor
of the pool would wait for its own thread). `ConnectIn` is the set of states in which
the application calls `Host()` or `Connect()` again: the runs use STATE_INITIALISED only,
although the switches of both (P:404, P:919) also let STATE_CONNECT_FAILED,
STATE_CLOSING and STATE_TERMINATED pass. `CloseIn` is that in which it calls `Close()`: all of them, but for `session_live` (below).

### Groups

The state is that of all nodes at once, since the properties are about their agreement.
`op[o]` is a call with the counter `pending` its callbacks share (P:1319), `threads` are the
detached threads that tell the application, `high`, `medium` and `wire` are a connection's two
queues and its stream, `acks` the ops registered at `Peer::pending_acks`, and `reading` a handler that has
released the lock for an indication and goes on afterwards, during which its connection is not read. A handler is one action
otherwise: `HandleGroupJoin` is `handle_group_join()` with the refusals, the GROUP_JOINED to all peers and the ack.
`Break` loses a connection; each side then runs `peer_destroy()` (flush, acks, DESTROY_PLAYER), and not only once: any worker that meets
the broken socket calls it (P:3448), so one that was not the first flushes what was queued since (`PeerDestroy`, `PeerDestroyAgain`) and may erase the `Peer` while
the first is still in DESTROY_PLAYER (`PeerEraseEarly`). The link is then "gone": there is no `Peer`, but `player_to_peer_id` and the state of the session are as before
until the first goes on (`PeerErased`). `Connect`
brings in a node: CONNECT_HOST_OK with the groups, then CONNECT_PEER to the other members. `told`, `performed`,
`dropped` and `early` are history.

Abstractions: ids of acks are ids of ops, payloads of updates are their op ids; the flush of a lost
connection is one step; `Close()` and the waiting of synchronous calls are in `Session`
and `Sends`, not here; the scenarios do not mix nodes that join with connections that break (`UnmixedAssumption`). There is no
fairness: that calls complete is `QuietMeansDone` (when nothing is left to happen, they have) with the
check for deadlock, which is stronger here since every behaviour is finite.

### HostEnum

`en[e]` has the members of a `HostEnumerator` and `at`, the place of its thread in `main()` (HE:205). A DWORD is a
number modulo `Ticks` and INFINITE is `Ticks - 1`. A thread that can run does so before the next tick; in the
application's callbacks time passes freely. `EnumHosts` takes the initial value of `stop_at` from memory
(`garbage`), which matters only with an INFINITE timeout. `Query` and `Answer` are the host's
`handle_host_enum_request()` up to and after ENUM_HOSTS_QUERY. Datagrams may be lost: `Query` need not happen, and
`main()` reads one datagram per turn of its loop, as the code does.

### Packet and Receive

A `TLVChunk` header is two units, the sizes of a DWORD, a wide character and a GUID are parameters.
`Serialise` and `Deserialise` are the two classes; `Get` is the `get_xxx()`. A stream of `Receive` is a sequence of units with
the packets it consists of: where each ends (`upto`), what a handler should get from it (`means`, empty for a type nobody handles) and whether it
is `bad` (too long, or not a packet). The receiver sees the units only. `Receive` runs
`io_peer_triggered()` and `io_peer_recv()` on several workers: `Read` is the `recv()`, `Parse...` a turn of the
loop over whole packets in `recv_buf`, `ParseHandled` calls the handler, which releases the lock or not,
`Enable` is the path that enables FD_READ and FD_CLOSE again. `PeerShutdown`, `OtherIndicates` and
`DestroyedByOther` are what other threads do to the peer meanwhile. The peer is one in PS_CONNECTED. Winsock is external:
an event is recorded for data that arrives at an empty socket, for what a `recv()` leaves, for the end, and for
what is there when events are selected again. A handler that keeps the lock is one that returns at once.

## 3. Runs

| Run (cfg) | Bounds | Shows |
|---|---|---|
| `sends_one` (MCSendsOne) | 1 peer with up to 1 ack, 3 sends of 1-2 units, 2 priorities, 2 workers, 1 caller; 1135897 states | with a break, a shutdown, a `peer_destroy()` and `CancelAsyncOperation` by priority at any time: `StreamIntegrity`, `WireOrder`, `ResultIsTruthful` |
| `sends_all` (MCSendsAll) | 2 peers, 2 sends to one or all with loopback, 2 workers; 1050920 states | with cancels by handle and breaks: `Accounting` |
| `sends_live` (MCSendsLive) | 1 peer with up to 1 ack, 2 sends, synchronous or not, to one or all with loopback, 2 workers; 113038 states | with a shutdown and the remote's close: `PromiseKept` (refinement of `SendCompletion`), `EverySendCompletes` |
| `pool` (MCPool) | 3 handles, blocks of 2, 3 workers, 1 outside caller, no failures | `Coverage`, `RightCallback` |
| `pool_live` (MCPoolLive) | 1 handle, 2 workers per block, 3 workers, all failures | `NeverParked`, `WriterAlone`, `AllJoined`, `WriterGetsIn`, `DestructorReturns` |
| `handles` (MCHandles) | kinds 0, 2, 7; 8 serial numbers | `RightKind`, `NoConflict` |
| `session_host` (MCSessionHost) | 2 connections whose ids begin at 1 or 10, 3 players, 2 sessions, 2 workers, 2 callers, every fault of a remote; 925311 states | `NoFault`, `IndicatedOnce`, `NobodyLeft`, `Reachable`, `NoResurrection` |
| `session_join` (MCSessionJoin) | 3 connections (host, member, newcomer), every fault, cancel, Close, or a host with `TerminateSession()`; 2020264 states | `UniquePlayers`, `OneComplete`, `LocalGone` |
| `session_live` (MCSessionLive) | 2 connections, 2 sessions, 2 workers, 2 callers, every remote but a broken connection; 90012 states | `CallsReturn` of `Host`, `DestroyPeer`, `Close` and a synchronous `Connect` |
| `groups` (MCGroups) | 12 scenarios: 1-3 members, 1 group, 2 overlapping calls, a node that joins or a connection that breaks; 233828 states | `Accounting`, `QuietMeansDone`, `Agreement`, `IndicatedOnce`, `PairsAreSafe`, `NoRevival`, `SeenBeforeDone` |
| `enum` (MCEnum) | a clock of 6 values started at 1 and 4, 4 kinds of request, 2 answers; 299939 states | `Patience`, `EnumEnds`, `CloseEnds` |
| `receive` (MCReceive) | 2 workers, 5 streams of up to 3 packets, `MAX_PACKET_SIZE` 11; 281276 states | `InOrder`, `DropsDeserved`, `LateDiscarded`, `EverythingHandled`, `EndNoticed`; and `DeserialiserExact` on all buffers of up to 6 units |

`TypeOK` of every module holds in its runs as well (add it to a cfg to see so); it is proved for all modules but `Groups`.

**Why the bounds are enough.** Every defect that a step of two actors can cause needs two
workers in one peer, or a worker and a caller. Three sends in two priorities give a
current op, one behind it and one that could overtake; two units give a partly written
packet. Three handles with blocks of two give a full block, a second one, and the move of
a last handle from one block to another; one handle with three workers gives a block that
is dropped and made again with a worker of the old one still in its callback. In a session two
connections let one be lost while the other's handler is in a callback; the third lets a
joining peer accept a newcomer; two callers let a `DestroyPeer()` be in its callback when a `Close()` begins, or ends. A first peer id of 1 lets a peer have the id of a player,
10 keeps them apart, as in the runs of a joining peer (`next_peer_id` is not initialised: defect 8). `session_live` has two members, so that the host is the only peer
of one that joins, and neither lost connections nor `Close()` in the states of a failing `Connect()`: with any of these a call may not return (defects 3, 4, 5).
`TerminateSession()` is in `session_join` only (defect 2). Two calls on one group let any two of create, destroy, add, remove and the updates
overlap, made by one member or two; three members let what one sends overtake what another sent, which two
cannot; one broken connection has two ends, each with any number of workers in `peer_destroy()`. Six ticks let a clock started at 4 go round before or after the last request and one started at 1 not,
and each of the defaults, INFINITE, and a timeout shorter than the interval is among the requests. The streams have packets of the largest
size, one unit more, two in one read, half a packet and every way the deserialiser fails.
A send with DPNSEND_NOCOMPLETE and one to the local player alone are left to the proofs of `Sends`, which hold for any mixture; loopback deliveries are in `sends_all` and `sends_live`.
Deadlock is checked in every run.

**Fairness.** A thread that can go on does, and one that keeps finding a mutex free gets
it in the end (strong fairness per thread): Win32 critical sections and slim locks hand
over to waiters. The application returns from its handlers, as the API requires. A pool
callback is only required to return while no writer is in progress, since it may need
`DirectPlay8Peer::lock`, which the writer's caller holds; `WriterGetsIn` is shown without more.
A full socket drains or breaks (TCP). A remote answers a request, refuses it or closes, and
ends its stream once ours has ended; a connection attempt succeeds or fails (TCP timeouts). Data that was
sent arrives unless the connection breaks. For `HostEnum`, time passes (strongly fair, since threads that run
disable `Tick` for a while), and the threads, callbacks and `Close()` go on (weak fairness).
Nothing is assumed of what the application calls.

## 4. Proofs

The theorems hold for every value of the constants that the named assumptions allow; TLC evaluates
the assumptions in the runs. Each inductive invariant was checked with TLC on the instance of a run before it was proved.

| Module | Theorems about properties of the runs | Others |
|---|---|---|
| `SendsProofs` | `AccountingHolds`, `WireOrderHolds`, `ResultsAreTruthful`, `StreamsAreWhole`, `PromiseIsKept` | `SendsInvariant`, `SendsTypeOK`, `NothingIsOrphaned` |
| `HandlePoolProofs` | `WorkersNeverPark`, `WritersExclude`, `DestructorJoinsAll`, `CallbacksAreRight`, `BlocksAreServed` | `PoolInvariant`, `TypeCorrect`, `AtMostOneZombie` |
| `AsyncHandlesProofs` | `KindsAreRight`, `HandlesDiffer` | `HandlesInvariant`, `NoZeroHandle` |
| `ReceiveProofs` | `HandledInOrder`, `DropsAreDeserved`, `LateIsDiscarded` | `ReadInvariant`, `FrameInvariant`, `ReceiveTypeOK` |
| `HostEnumProofs` | `EnumsArePatient` | `HostEnumInvariant`, `HostEnumTypeOK` |
| `SessionProofs` | `ClosedPeersStayClosed`, `ConnectsCompleteOnce` | `SessionInvariant`, `SessionTypeOK`, `JoinInvariant` |
| `SessionHostProofs` | `HostsFindTheirPlayers`, `HostsIndicateOnce`, `HostsLeaveNobody`, `HostsThatOnlyCloseNeverFail`, `HostsGiveUniqueIds` | `HostInvariant` |
| `GroupsProofs` | `CountersAreRight`, `QuietIsDone`, `DestroyedStaysDestroyed`, `ToldOnce` | `GroupsInvariant`, `AcksInvariant` |

**Sends.** For any number of peers, threads, messages and priorities, and any cancels and faults.
`SendsInv` == `Records` /\ `Positions` /\ `Issuing` /\ `Local` /\ `Counting` /\ `Delivery` /\ `WireOrder` /\ `Behind` /\ `Told` /\ `Graves`:

* `Records` and `Positions` are types: what a queue, a wire and a send's counters are made of, where a thread can be and what it
  then knows. `Issuing`: nothing exists of a send that was not issued, and they are issued in order. `Local`: a loopback
  delivery is in one place only, the work queue, one thread's callback or the detached thread.
* `Counting`: the counter of a send is the number of what it holds (`Owed`), the peers that have its op queued or took it with them (`HeldAt`), and its loopback delivery.
  It needs `Local` (else a delivery would be counted once and completed twice) and that an op is in a
  queue once. `Graves`: a deleted peer has an empty queue, and only such a peer took ops with it. `Delivery`: each target of a send has its op held or written, never both, exactly as long as the result is S_OK;
  with `Counting` this gives `ResultIsTruthful`. `Behind`: what is queued was sent after whatever of its priority is on the wire; it makes `WireOrder` inductive.
  `Told`: the completion is indicated with the last callback; it makes the refinement work.

Every action is shown to be one of a few kinds of step, by what it does to queues, deliveries, counters and wire: `Silent`,
`Completed` (an op leaves a queue, written or not), `LocallyCompleted`, `Returned`, `Accepted`, and the deletion of a peer, which moves its ops from the queue to `orphans`. Each part of the invariant is
then proved once per kind. The facts about the queue (what the operators of `SendQueue` do to the set of queued ops, their order and `current`) are the first lemmas.
`PromiseIsKept` is the refinement: the status of each send under the mapping of `Sends` is that of `SendCompletion`,
initially and step by step. `StreamsAreWhole` is an action property: a partly written op stays `current`
until it is written whole, flushed, or deleted with its peer; only a flush lets another packet follow a piece of one (defect 17).
`NothingIsOrphaned` is the positive half of defect 1 of section 5, with no hypothesis: whatever is deleted with a `Peer` was queued after a `peer_destroy()` had emptied the queue. Its invariant says that
a queue that was flushed holds nothing but late ops, and that whoever is past the flush has it behind him. With it `AccountingHolds` follows from `Counting`: what the counter of a send has beyond the
callbacks still to come is the number of its late ops that were deleted. Assumption: `SendsAssumption` (threads, ops and `Null` are distinct).

**HandlePool.** For any number of handles, workers and callers, any block size and any failures, `Spec` keeps
`PoolInv` == `TypeOK` /\ `Roles` /\ `Announcing` /\ `WaitLock` /\ `Lifecycle`:
where workers, callers and writers can be, and that `callbacks` is never the shorter vector
(`Roles`); that `pending_writer_lock` is held exactly by a writer that has announced itself and not entered, and
that a raised `pending_writer` with that lock free is the constructor's leftover, before any worker exists
(`Announcing`); who holds `wait_lock` shared and exclusively (`WaitLock`); which workers are active, zombie or free,
and that the destructor comes after the last writer (`Lifecycle`).
`NeverParked`, `WriterAlone`, `OneZombie` (at most one thread that has left and is not joined) and `AllJoined` follow from it. None is
inductive alone: that a worker never sleeps on `pending_writer_cv` needs that whoever finds
`pending_writer_lock` free also finds the flag false, which holds only once the undefined initial flag has been
overwritten by the first writer, before the first worker is born. So no missing notification can hurt.

Two more need hypotheses about failures, because the code does not keep them otherwise. `CallbacksAreRight` assumes
that the vectors can grow (defect 9): then `Layout` is kept, that is `callbacks` = `handles`, `spin_workers` is the first
handle of every block and of nothing else, and every worker's base is the start of a block. `BlocksAreServed` assumes that only
`std::thread` may fail: then `Staffed` is kept, that is a worker leaves only after its block has gone, every block has its workers, and no place, also one where a block was
and may be again, more than `ThreadsPerPool`. The last conjunct is what a new block relies on when workers of an old one at the same place are still in their callbacks.
Assumptions: `PoolAssumption` (non-empty blocks, distinct identities), `WorkersAssumption` (finitely many threads).

**AsyncHandles.** For every width of the serial number: each lies in 1..IdSpan - 1 (`HandlesInv`), so a handle is
never 0 and has the bits of its kind. `HandlesDiffer` (`NoConflict`) needs `Spaced`: the last `IdSpan - 1` handles are the serial numbers before the
counter, in the order in which it went through them, across the wrap. Assumption
(`HandlesAssumption`): more than two serial numbers and kinds in 0..7.

**Receive.** For any number of workers, any streams, any largest packet and any way TCP cuts the stream.
`ReadInv` == `TypeOK` /\ `OneReader` /\ `Buffering` /\ `Reading`: a worker past its `recv()` has claimed the peer and is the only
one (`OneReader`); between packets `recv_buf` holds less than one, so `recv()` never gets an empty space, and a handler that
released the lock finds its packet where it was (`Buffering`); nothing is handled beyond what was read, and nothing parsed that was
read after PS_CLOSING (`Reading`). `FrameInv` adds `Framing`: until something is thrown away, `recv_buf` is the stream from the beginning of some packet k on, as far as it was read,
and what was handled is what the packets before k mean. `InOrder` and `DropsDeserved` follow. These three theorems have the hypothesis
`PacketsRead`: the deserialiser makes of each whole packet of the stream what it means. That is what `Deserialise` computes,
which needs induction over data; TLC checks it as a part of `DeserialiserExact`. Assumptions: `ReceiveAssumption`, and `StreamsAssumption` (the packets of a stream
tile it and are as long as their headers say).

**HostEnum.** For any number of enumerations, any width of the clock, any start and any arguments. `Patience` speaks of the
moment of completion only. `HostEnumInv` adds what holds before: requests left and sent add up (`Counted`); `stop_at` less the timeout is the time of the last
request, unless it went round, and the clock has not gone round before the answers are overdue (`Punctual`); the time that `main()` read at the top of its loop, which is old
when ENUM_HOSTS_RESPONSE returns, was beyond `stop_at` only if they were overdue (`ReadInTime`); only the end of the loop sets the result (`Ended`);
packets in a socket answer queries (`Answered`). Assumption: `HostEnumAssumption` (arguments and times are DWORDs).

**Session.** For any number of threads, connections, players and calls, host or not, and whatever the remotes do.
`SessionInv` == `LockOK` /\ `Values` /\ `Stacks` /\ `Fresh` /\ `Indicating` /\ `Handling` /\ `Waiting`: who holds the lock is in a function (`LockOK`);
types (`Values`), and the functions threads can be in, with their peers and arguments, and those that can wait below another
(`Stacks`); a new peer gets an id never used before (`Fresh`); a handler begins with the lock and with its peer in the table
(`Handling`); only `Close()` waits on `peer_destroyed` (`Waiting`). `NoResurrection` needs `Indicating`: of the handlers that go on
with their peer after a callback, that of INDICATE_CONNECT sets its state without testing it, only that it is still in the table. It is safe because
such a peer is in PS_INDICATING, which nobody else leaves but by erasing the peer, because no id is used twice, and because one
thread asks about it. Lemmas about `stack` say what `Goto`, `Call`, `Return` and waking others do to the innermost place and to those below;
`MoveKeeps` proves the invariant for all steps at once from what a step does to one thread (`Moves`) and to peers (`PeerMoves`), and then each action is
shown to be such a step. Assumption: `SessionAssumption`.

**A host.** For any number of connections, players, sessions, workers and threads of the application, whatever the remotes do, under the hypothesis
`HostOnly`: the application calls `Host()`, `DestroyPeer()` and `Close()`, also at once from several threads, and does not call `Host()` while the state is
STATE_CLOSING. `TerminateSession()` and joining are left out because `NoFault` fails with them (defects 2 and 4), so `HostsThatOnlyCloseNeverFail` says nothing of the former. Peer ids and player ids may overlap.
The parts of `HostInv`: where a host's threads can be (`HostStacks`) and the states of the session and of its peers (`Modes`, `Before`);
whoever is about to use a peer has had the lock since it looked it up (`HaveLock`), hence `NoFault`; one thread at a time is in `Close()`, and the state tells the
others (`OneCloses`); the listener is closed while a thread is in `Close()` (`Quiet`), so once the table is empty it stays so (`Emptied`); each entry of
`player_to_peer_id` leads to one that is or was a player (`Entries`), so that `DestroyPeer()` only marks and indicates (`Asked`), and a thread that is still in it
when `Close()` has returned has nothing left to do but return; each player has an id that was given to it and is found by it, or its entry was erased by the `peer_shutdown()` of a
peer with this id, which is going or gone (`Members`, `Filed`, `Gone`); a player in its
DESTROY_PLAYER is none of the others and is filed in the same way, and its peer, unless another `peer_destroy()` has deleted it, stays in PS_CLOSING (`Leaving`); the application has been told of exactly the
players there are, and of itself while the state is STATE_HOSTING (`Telling`). The last three need each other: that a player is not indicated
twice is because its peer left PS_CONNECTED before the lock was released, and that `Close()` leaves nobody because the peers it waits for are the last.
`HostsFindTheirPlayers` follows from them: `Reachable` asks for the entry and the `Peer` it leads to, of every player the application has been told of.

**A Connect().** For any number of workers, connections, players and calls, whatever the remotes do, under `JoinsInTurn`: one thread of the
application hosts, joins and closes, and it does so in STATE_INITIALISED only. `OneComplete` says that a `Connect()` is completed at most once, although
`connect_check()` and `connect_fail()` are reached from every handler and every lost connection, and `Close()` meets them on the way. `JoinInv`
has three parts. `JoinStacks`: `connect_fail()` is not called from within itself, and `Close()` is outermost in its thread, and only in one of the application's.
`OneFails`: one thread at a time is in `connect_fail()`, and until it leaves the state is one in which nobody else begins to fail, check or join.
`Completed`: a `Connect()` that goes on, or a `connect_fail()` that has not got to its indication, has not been completed. The state is what makes the
three hold together: `connect_fail()` sets STATE_CONNECT_FAILED before it releases the lock, and `Close()` and the end of a session leave it only for
states that do not begin a `Connect()`. A worker may still be in `connect_fail()` while `Close()` goes on, and sets STATE_INITIALISED (defect 5), but `Close()` joins
every worker before it returns, so the CONNECT_COMPLETE it owes is indicated before the next `Connect()` begins. A second thread of the application would not be
joined: hence the hypothesis.

**Groups.** For any number of members, groups and calls, and any scenarios, also with nodes that join and connections that break.
`GroupsInv` == `Typed` /\ `Asking` /\ `Ids` /\ `Telling` /\ `Stays` /\ `Claims`. `Typed` gives each packet its type and, more to the point, says that a
packet with a callback, a request and an ack belong to a call that was made and is of the right kind; `Asking` says the same of acks that are awaited or put off.
`Ids` is what makes `NoRevival` inductive: an id that the host has handed out and that is still on its way, in an ack, is offered in one
place only, and nobody has it, has had it, or is being told of it; all ids that anybody has heard of are below `next_id`. So the only step at which a
table grows by an id that its member has destroyed, the ack of GROUP_ALLOCATE, cannot meet one; GROUP_CREATE, GROUP_JOIN and GROUP_JOINED
test `destroyed_groups`. `Known` collects what members have heard of in tables, queues, wires, suspended handlers and detached
threads; each handler passes on only ids that are in `Known`. `Telling` says, per member and group, which
indications have been made, and which a detached thread or a suspended handler has yet to make or has just made: no more than one thread indicates a group's creation and one its
destruction (`Single`), and in a session that has not ended a group in the table has been indicated or has such a thread. It rests on `Ids`, since a group
that came back would be indicated again. Each action is shown to be one of a few kinds of step (`Steps`): hearsay (packets that offer nothing), an issued call, a write,
a take from a wire, an ack, an allocation, a loss (any step of a `peer_destroy()`, by whichever worker: `LoseStep`); each part is then proved per kind. `Stays` says that whoever has a request out is connecting. `Claims` is
`Accounting` made inductive: per connection, an op is in one place only, in one packet with a callback in one of the queues or among the acks (`Tidy`), so that
an op claims a set of connections and its counter is the size of that set, its threads and what was lost (`ClaimsOf`); only SetPeerInfo(), CreateGroup()
and the like broadcast, and an id request becomes a broadcast when its ack arrives. A write that registers an ack moves a claim, one that counts down removes it; `peer_destroy()` removes those
of a queue by its callbacks, whose order does not matter since they are different ops.
Assumption: `GroupsAssumption` (finitely many nodes; a session starts with the ids that the host has handed out, 1 to some k).

`QuietMeansDone` needs the other half: whatever still counts towards a counter does happen. Callbacks and threads are there to see; an awaited ack is
not. `AcksInv` == `Answers` /\ `Awaiting` /\ `Apart`. `Answers`: a member that awaits the ack of an op on a link has its request on the wire to the
other, or with the other's `handle_group_join()`, which indicates a new group before it answers, or the answer in the other's queue, or on the wire back
(`Travels`); else it is over (`Over`): the handler refused the request without an answer (`dropped`), or the connection is cut, or the other side is
taking it down. None of it is claimed after a fault (defect 11). `Awaiting`: acks are awaited on links in use only, which is why `peer_destroy()`, which fails them, leaves none. The
proof follows an ack from place to place, with one lemma for each way a step touches the four places: a request written (`AnswersWritten`), a queue lengthened (`KeepsQueued`), an ack
sent in answer (`AnswersTaken`, `AckQueued`), an answer put off while other connections are read (`PutOffTaken`), a loss (`AnswersLost`). So a handler that
returned without an ack and without entering `dropped` would fail it. `Apart`: a scenario has nodes left to join or
connections left to break, but never both; it rests on `UnmixedAssumption`, which says this of the scenarios, and which only
these two theorems use. It bounds what is modelled: `Groups` does not have what a joining node does when a connection breaks.

**Only model-checked.** Liveness, which is out of the prover's reach: `EverySendCompletes`, `WriterGetsIn`, `DestructorReturns`, `CallsReturn`,
`EnumEnds`, `CloseEnds`, `EverythingHandled`, `EndNoticed`. `DeserialiserExact`: induction over data. `UniquePlayers` and `LocalGone` of a joining peer. Of `Groups`:
`Agreement`, `PairsAreSafe`, `SeenBeforeDone`.


## 5. What the code does not keep

All were met while modelling. The properties named are definitions of the modules; they fail in the
configurations given, and the runs of section 3 leave these cases out.

1. **Orphaned sends** (P:3908, P:3931). `peer_destroy()` empties the queue and then releases the lock for the callbacks of acks and for
   DESTROY_PLAYER, while `SendTo()` still finds the peer: it queues an op that is deleted with the `Peer` (P:3988). No
   SEND_COMPLETE; a synchronous send waits for ever. `orphans = {}` fails in every run of `Sends`. `Accounting` counts these ops apart,
   `EverySendCompletes` excepts sends that have one, and `NothingIsOrphaned` proves that there are no others. The comment at P:3894 says "Cancel any outstanding sends and notify the callbacks."
2. **TerminateSession() with a peer that has not joined** (P:3081). The loop over `destroy_peers` does not
   advance and destroys the same peer again; `assert(peer != NULL)` (P:3892) fails. `NoFault` of `Session` fails with
   `Calls = {"Host", "TerminateSession"}`, `Remote = {"connect"}`, `MaxPeers = 2`, `MaxPlayers = 3`, `MaxStarts = 1`.
3. **Connect() of a player the host destroys** (P:5197). STATE_TERMINATED is set without completing the
   connect: no CONNECT_COMPLETE, `connect_cv` not notified. `CallsReturn` of `Session` fails with `Calls = {"ConnectSync"}`,
   `Remote = {"kick"}`, `MaxPlayers = 3` and `CHECK_DEADLOCK FALSE`. The same when the connection to the host is lost while
   `handle_host_connect_ok()` is in its CREATE_PLAYER (P:4587): the handler returns at RENEW_PEER_OR_RETURN (`Remote = {"reset"}`).
4. `NoFault` fails with `Calls = {"Connect"}`, `MaxPeers = 3`, `MaxPlayers = 4` and no faults: two
   CONNECT_PEER_OK on two workers overlap in CREATE_PLAYER, and the second to return runs
   `connect_check()` in STATE_CONNECTED (P:5794). Under faults also: `handle_host_connect_ok()` uses its
   `Peer` after the first callback without looking it up (P:4574), and messages that arrive during the
   callbacks of `connect_fail()` meet the assertions at P:3272, P:3277 and P:4851. When `getsockopt()` fails (P:3335),
   `io_peer_connected()` goes on after `connect_fail()` with an uninitialised `error` and a `Peer` that is deleted. This is why
   `session_join` does not check `NoFault` and its properties hold on all these paths up to the fault.
5. `ClosingStaysClosing` fails with `Calls = {"Connect", "Close"}` and an unreachable host:
   `connect_fail()` on a worker sets STATE_INITIALISED (P:5884) after `Close()` has set STATE_CLOSING, while
   P:2614 says "No other thread should mess with it while we are in STATE_CLOSING".
6. `ConnectedToHost` fails when the host closes in STATE_CONNECTING_TO_PEERS: `peer_destroy()` ends the
   session for a lost host only in STATE_CONNECTED (P:3935), and the last CONNECT_PEER_OK then completes the connect.
7. `HostOkCount` fails on a host with `DestroyPeer`: CONNECT_HOST_OK counts `player_to_peer_id` (P:4400) but lists
   peers in PS_CONNECTED; `Messages.hpp:66` defines the count as the length of the list.
8. `peer_shutdown()` erases `player_to_peer_id` by *peer* id (P:4018), and
   `next_peer_id` is never initialised, so with small peer ids another player becomes unreachable. `Reachable` excepts just this (`Misfiled`) and
   fails without the exception with `FirstPeerIds = {1}`. A player also becomes unreachable during its DESTROY_PLAYER when a second `peer_destroy()` deletes the `Peer`
   (P:3987), although `DirectPlay8Peer.hpp:123` says of PS_CLOSING that the peer is kept for the application's handler; `Reachable` asks for a player in its DESTROY_PLAYER only while its `Peer` is there.
9. `RightCallback` fails with `Failures = {"alloc"}`: an allocation that fails in `add_handle()` after `callbacks` has
   grown (HP:99) leaves it one longer, and later callbacks are shifted.
10. `NeverAllOnes` of `AsyncHandles` fails: the last serial number of TYPE_RPGROUP gives 0xFFFFFFFF, which
    `AsyncHandleAllocator.hpp:33` calls impossible.
11. `NoFault` of `Groups` fails with `Scenarios = {TrioNew}`: the inner `group` of `handle_group_join()` and
    `handle_group_joined()` hides the one used afterwards (P:5492, P:5603), so a group the handler had to make itself is used through a
    null pointer. With three members GROUP_JOINED of one can overtake GROUP_CREATE of another; with two it cannot
    (`PairsAreSafe`, which is about the handlers). `CreateGroup()` meets `assert(host != NULL)` (P:1430) with two members as well: when two workers run `peer_destroy()` for
    the host and one erases the `Peer` while the other is in DESTROY_PLAYER, the state is still STATE_CONNECTED. `NoFault` fails with `Scenarios = {PairLossNew}`.
12. CONNECT_HOST_OK is queued with medium priority (P:4437) and group packets behind it with high: they overtake it and the
    newcomer refuses them (`dropped`). Its view of the host's memberships may stay wrong, and an `AddPlayerToGroup()` for it
    never completes. CONNECT_PEER_OK has high priority and is not overtaken; `Agreement` makes just this exception for the host, and
    one for a newcomer that enters a group while it is connecting, of which peers it connects to later never learn (P:3385, P:5517).
13. A GROUP_LEAVE for a group the target does not know gets no ack (P:5667): the call waits until the connection ends. The callbacks
    of packets queued while `peer_destroy()` is in its callbacks are never called (`lost`). `QuietMeansDone` excepts what was
    `dropped` or `lost`.
14. `DestroyGroup()` whose thread runs only after `group_destroy_all()` indicates no DESTROY_GROUP (P:4069); `IndicatedOnce`
    asks it only of members whose session has not ended.
15. Enumeration. `stop_at` is not initialised with an INFINITE timeout, and 0 means none, so an enumeration whose last request goes
    out at the wrong tick has no end (`Endless`); a `stop_at` or `next_tx_at` past the clock's wrap is reached early; one missed
    by a tick just before the wrap gives a wait of INFINITE. `tx_remain` is counted down also when it is INFINITE. `Close()` does
    not cancel synchronous enumerations, and `EnumHosts()` is accepted while it waits (P:2611).
16. Packets that are in `recv_buf` when a peer enters PS_CLOSING are still handled, while the comment of the state in
    `DirectPlay8Peer.hpp` says to discard any future messages; `LateDiscarded` is about those not yet read.

17. **A flush cuts a packet short.** The flush loop of `peer_destroy()` pops a `current` that may be partly written, and releases the lock for
    the callback (P:3897). The peer is still there and its socket open, so another worker may write the next op behind the piece, and the receiver
    reads the wrong bytes as a packet. `StreamIntegrity` excepts the flush and says what holds outside of it.

Seen, and in the models without a property of its own: a failing `Connect()` leaves STATE_CONNECTING_TO_HOST (P:597; `ConnectFails`);
a failing `Host()` leaves its listener open (P:1077; `HostFails`); cancel by handle reaches only the first peer of a
send (P:369; `CancelHandle`); replies that are queued when an enumeration ends are dropped.

Seen, not modelled: `AddPlayerToGroup()` and `RemovePlayerFromGroup()` leak `pending` when the target is unknown; a synchronous
`CreateGroup()` may return between the unlock and the `notify_one()` of its completion (P:1324); the completion of an asynchronous
enumeration erases the `HostEnumerator` whose function runs (P:2694); `~HostEnumerator()` does not close its socket;
`sizeof(TLVChunk) + value_length` can wrap where `size_t` has 32 bits (`packet.cpp:127`);
`StringComponentW::clone()` passes a length in characters where bytes are expected, so that copies of an address
have half of each string (`DirectPlay8Address.cpp:448`), and `SetEqual()` with itself uses what it has just deleted.

## 6. Not modelled, and plan

The models cover about 5900 of the 10122 lines of `src/src`, which is the program; the rest of the repository is
vendored (googletest, the DirectX headers), tests, tools and hook DLLs. Of `DirectPlay8Peer.cpp`, what is left is read-only getters
(`EnumPeers`, `GetPeerInfo`, `GetGroupInfo`, ...), functions that return E_NOTIMPL, argument checks and logging.

Left out for good: `network.cpp` (calls into Winsock; their failures are inputs of the models), `DirectPlay8Address` (a
table used by one thread at a time, without state that the session shares), COM plumbing, logging, the hook DLLs and third-party
code. `io_udp_send()` has one queue without callbacks; datagrams may be lost anyhow.

Next, most important first: a proof of `UniquePlayers` of a joining peer; then of `Agreement` and `SeenBeforeDone` of `Groups`. Then a composition of
`Session` with `Groups` in which nodes join and connections break at once.
