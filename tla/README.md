# A TLA+ model of the Morpheus Runtime Core

MRC runs user-defined pipelines: graphs of sources, nodes and sinks, split into
segments, run by fibers and threads, and joined across processes by a control
plane (gRPC) and a data plane (UCX). This directory holds TLA+ models of its
concurrent parts, TLC configurations that check them on small instances, and
proofs checked by TLAPS.

- [1. The system](#1-the-system): its parts, their state, what is hard about them
- [2. The modules](#2-the-modules): how state and actions correspond to the code
- [3. The runs](#3-the-runs): what TLC checks, with which bounds and which fairness
- [4. The proofs](#4-the-proofs): what holds for every size, and why
- [5. Where code and documentation disagree](#5-where-code-and-documentation-disagree)
- [6. What is not modelled](#6-what-is-not-modelled)
- [7. Plan](#7-plan)

Run TLC with `tlc -config X.cfg M` for a row of section 3, and check the proofs
of a module with `tlapm M.tla`. `PROJECT.json` lists for every definition the
source lines it models, for every property a mutation of the model that it
detects, and the hazards of the code with the properties that cover them.

## 1. The system

Paths are relative to `src/cpp/mrc/`.

| part | state | operations | what is hard |
|---|---|---|---|
| `ClosableRingBuffer` (`include/mrc/coroutines`) | slots, `m_front`, `m_back`, `m_used`, three LIFO waiter lists, `m_stopped` | `write`, `read`, `completed`, `close`, `notify_waiters` | waiters are resumed outside the mutex, one by one; elements are handed over past the queue |
| `Service` (`src/internal/service.cpp`) | `m_state`, two shared futures and their "called" flags | start, stop, kill, await_live, await_join, destruction | any thread may call any of them; hooks run outside the mutex and may throw |
| `Runner`, `Context`, `Runnable` (`src/public/runnable`) | state per instance, `m_status`, `m_remaining_instances`, promises | enqueue, stop, kill, await_live, await_join, destruction | instances meet at barriers; one fails while the others wait there |
| `SegmentInstance` (`src/internal/segment`) and the rx nodes (`include/mrc/node`) | a runner and a launcher per node, the channel of each edge | launch, stop, kill, join; emit, read, write, fail | back pressure; the end of data; a failure kills the segment from inside |
| `Manager`, `Controller`, `PipelineInstance` (`src/internal/pipeline`) | control messages, segments, manifolds, a joinable promise | update, stop, kill, join | a failing update kills the pipeline; stop and kill race with the join |
| `Executor` (`src/internal/executor`) | its pipeline manager | register, start, stop, join | composes resources and pipeline |
| Manifolds and ports (`include/mrc/manifold`) | upstream and downstream edges | add, update, push round-robin | shared by segments that come and go |
| Control plane server (`src/internal/control_plane/server`) | streams, instances, tagged and versioned roles, nonces, latches | register, activate, drop, issue updates | updates are cumulative and asynchronous; members are latched until all subscribers caught up |
| Control plane client | connection state, subscription services | register, activate, apply updates, drop | server messages interleave with local stop and kill |
| Publishers and subscribers (`src/internal/pubsub`) | tagged endpoints, policy state | publish, update endpoints | endpoints change under a running publisher |
| Data plane, remote descriptors, pools (`src/internal/{data_plane,remote_descriptor,memory}`) | tokens, requests, buffers | store, send, receive, release, await | tokens across processes; pools at their limit |
| Coroutine scheduling (`src/public/coroutines`) | task queue, task container | schedule, shutdown, garbage collection | a task scheduled while the pool shuts down |
| Definitions, builders, topology, memory resources, codecs, bindings | construction-time data | sequential | no protocol; see section 6 |

How they interact: the executor starts a pipeline manager; its controller
receives control messages in order and creates, starts, stops and kills segment
instances; a segment launches one runner per node; a runner drives its instances,
which exchange data through channels. All of the long-lived parts are a
`Service`, so its life cycle is underneath everything else. Partitions find each
other through the control plane: a publisher is told which subscribers there are
by versions of the role "subscriber" and sends them remote descriptors over the
data plane. The coroutine ring buffer is the queue that new, coroutine-based
parts use in place of fiber channels.

## 2. The modules

| module | models |
|---|---|
| `ClosableChannel` | what a ring buffer promises: a bounded FIFO with a stop |
| `ClosableRingBuffer` | `closable_ring_buffer.hpp`; implements `ClosableChannel` |
| `Service` | `service.cpp`, `service.hpp` |
| `Runner` | `runner.cpp`, `context.cpp`, `runnable.cpp`, `rx_runnable.hpp` |
| `Segment` | `segment_instance.cpp`, `rx_source*.hpp`, `rx_node.hpp`, `rx_sink*.hpp`, `rx_runnable.hpp`, channels and edges |
| `Pipeline` | `executor_definition.cpp`, `manager.cpp`, `controller.cpp`, `pipeline_instance.cpp`; segments are abstract |
| `RoleSync` | what a role of a subscription service promises: numbered versions, reports, latches |
| `ControlPlane` | `server.cpp`, `connection_manager.cpp`, `subscription_manager.cpp`, `tagged_issuer.cpp` of the server, `client.cpp`, `connections_manager.cpp`, `instance.cpp`, `subscription_service.cpp` of the client; implements `RoleSync` |
| `DataPath` | `remote_descriptor/*.cpp`, `publisher_round_robin.cpp`, `publisher_service.cpp`, `subscriber_service.cpp`, the data plane's `client.cpp` and `server.cpp`, `transient_pool.*`, `reusable_pool.hpp` |
| `*Proofs` | theorems about the module of that name |
| `MC*` | constants for TLC |

**ClosableRingBuffer.** `await_ready` takes `m_mutex` and, when the operation
has to suspend, the lock is released only at the end of `await_suspend`; so the
locked part of an operation is one action: `WriteSuspend`, `WriteStore`,
`WriteHandOff`, `ReadTake`, `ReadRefill`, `ReadEmpty`, `Completed`, `CloseLock`,
`NotifyLock`. What the code does without the lock is a step of its own: the
test of `m_stopped` (`WriteBegin`, `WakeCheck`), the resumption of a waiter that
was taken off a list (`Resume`), the walk along the chain of completed waiters
(`ChainNext`), re-locking (`WakeMore`). The lists are sequences with the most
recent waiter first, as in the code. `ChainNext` reads `m_next` of an operation
after it was resumed; once the coroutine has gone on, that object is gone, so
the model lets the link read either as it was or as null. The histories
`accepted` and `delivered` record the elements in the order in which they enter
and leave. The unsigned test `m_used >= 0` of `try_completed_locked` is kept as
it is written.

**Service.** A caller is at the entry of an operation, has locked `m_mutex`, is in
a hook, waits for a future, or is in one of the small steps between (`unwind`,
`catch`, `escape`) whose order matters. `m_mutex` is recursive and is held from
`Acquire` until an operation unlocks it before its hook or its wait; `advance_state`
after a hook needs it again. Hooks are external: they return or throw, a start hook
that throws may leave what it launched behind, and the join hook
returns after the work has ended, by itself or by a stop or a kill. An exception of
the join hook that is no `std::exception` leaves the promise unkept (`JoinEscapes`):
the caller that ran the hook is told of it, those that wait of a broken promise.
`StopKills` is the hook of the servers whose stop calls `service_kill()`.
`call_in_destructor` reads the state once and then kills and joins, or joins.

**Runner.** Instances run `RxRunnable::run`: three barriers of the context
around `subscribe()` and a critical section of rank 0, then the two state
updates, the load and the store of `m_status`, the decrement, the callback and
`Context::finish`. Exceptions derived from `std::exception` and others take
different ways (`RunThrows`, `RunThrowsOther`) because `set_exception` catches
only the former. The owner enqueues, launches one task after the other, awaits
and destroys; `Halt` is `stop()` or `kill()` by any thread at any time.

**Segment.** A graph given by `Upstream` and `LaunchOrder`, with one instance
per node (`Runner` models several), one edge in and one out. A source emits
while subscribed; a write blocks on a full channel; a reader tests its
subscription and then blocks in `await_read`. The end of a node releases its
outgoing edge and so closes the channel downstream; its own input channel stays
as it is, as `on_shutdown_critical_section` of the sink and node classes leaves
it. `Callback` is the completion callback that calls `service_kill()` of the
segment when a node failed, also while the start still launches runners. An
exception out of `do_service_start` is part of `Service` and not repeated here.

**Pipeline.** Four threads: main starts the executor (which pushes the one
update of its definition), joins and destroys it; one stops it; one pushes
further updates to the manager; the controller reads the update channel. The
controller's place `ctl.at` and what is left of the loop it is in (`ctl.todo`)
make each loop over segments interleave with everything else: create, remove,
start, stop, kill. An exception in an update takes the controller to the kill
(`failing`), one in the kill or stop ends it. Segments are created, started,
told and joined in the order of their addresses, as `std::map` iterates. A
segment is a service whose work ends or fails by itself or when told; one whose
start threw is completed, and what its start had launched may still run
(`StartThrows`).
`wired` says when the manifolds' connections to it were made. The dereference
of a channel that the join has reset, and a failing CHECK, end the process
(`crashed`). History variables: `overtaken` (an update was handled after a stop
or a kill) and `missed` (what a kill did not get to because
`stop_segment` threw).

**ControlPlane.** One server, any number of clients with one instance each. The
server handles events one at a time under its mutex, so each handler is an
action named after it; for the two requests whose response is written after the
mutex was released, the response is a second step (`reply`). A stream is two
FIFO queues (`up`, `down`). A client is four fibers: event handler
(`HandleResponse`, `ForwardConnections`, `route_state_update`), connections
manager (`do_connections_update`, and `RegisterAddresses` after the answer of the
server), the instance's update handler (`do_update_subscription_state`,
`FailUpdate`, `do_drop_subscription_service`), and the users of its services. A
client may crash between any two steps: the server reads a prefix of what it
wrote, then an event that is not ok. What the server writes to it is lost, and
the first write that fails closes the writer (`m_can_write`). An exception in a
handler of the server is fatal, as `on_fatal_exception` makes it. The role
"subscriber" is `m_role`; that of the publishers has no subscribers itself, and
only its drop requests are seen. `drop_tags` drops tags one after the other, each
with a version of its own, in the order in which the hash tables of the server list
them; that order is a constant (`Order`). Two comparisons of the code are kept as written: `TornDown`
ignores its tag, and `add_subscriber` starts with the nonce 0.

**DataPath.** A descriptor is its owner and the address of the object; nothing
in the code splits tokens, so the descriptor carries them all. A partition's
progress engine is an action per callback with a program point where it waits:
`pop` for a block of the transient pool, `write` for room in a network handler's
channel, `decrement` for room in the decrement channel. While it waits, no
callback of that partition runs. A block is free when neither the pool, a
receive, a sender nor a buffer in a channel has a part of it. The policy engine
of the publisher blocks in a full channel of `rd_writer`, whose fibers send. The
control plane is reduced to what it does to these services. It lists subscribers
that were set up (`update_tagged_instances`), never one again that it left out once
(`gone`), and it issues a drop request for a subscriber that no publisher lists as
far as publishers reported (`Released`; `RoleSyncProofs` proves it of the role), or
for the publisher. The request reaches a partition, and
`do_subscription_service_teardown(i, r)` tears down all services there, as
`instance.cpp:145` compares role and tag with themselves: a subscriber that is still
listed loses its edge (`edge` is "torn"), and a publisher gets no further updates and
has no edge to read from (`updates` is "torn", or "dropped" if the request was its
own). An update may throw half way, at a partition whose worker address is not known
(`UpdateThrows`): the removed tags are erased, `on_update` is not called, `m_next` may
point to an erased element (`Dangling`), and the update handler of the instance has
ended (`updates` is "failed"). `late` records the tags torn down while they were
listed, about to be, or on a message under way. What is undefined in the code is a
choice: `m_next` at the end ends the process (`fatal`), an `m_next` that dangles ends
it or still reads the element. A publisher that reads on without an edge, and a
message for which the router has none, end the process too.

## 3. The runs

| run | module, cfg | constants | distinct states |
|---|---|---|---|
| `ring_safety` | `MCClosableRingBuffer`, `_safety` | 2 slots; 2 writers with 2 writes, 2 readers, 1 completer, 1 close, 1 notify | 663,570 |
| `ring_liveness` | `MCClosableRingBuffer`, `_liveness` | 1 slot; the same tasks with 1 write each | 59,688 |
| `service` | `MCService` | 3 threads, 4 calls | 193,862 |
| `runner` | `MCRunner` | 3 instances of a source | 41,444 |
| `segment` | `MCSegment` | source, node, sink; channels of 1; 3 elements | 45,354 |
| `pipeline` | `MCPipeline` | 3 segments, of which 3 feeds 1; updates {2}, {1,3}, {1,2,3}; 2 of them | 385,847 |
| `control_plane` | `MCControlPlane` | client a present with publisher p1, client b joins with p2 and subscriber s1, may crash or leave; s1 stopped up to twice | 281,244 |
| `data_path` | `MCDataPath` | 2 partitions, a subscriber on each, the publisher on the first; 2 objects at a time, 2 publications, 2 writer fibers; 2 blocks of 3 buffers, 2 receives, channels of 1 | 92,066 |
| `ring_completed`, `service_join`, `runner_status`, `segment_failure` | | the smallest instance that shows the disagreement of section 5 | |

Deadlock is not checked: each of these systems may come to rest, with all calls
made and all tasks ended or waiting for a caller that need not come. That nobody
waits who should not is stated as liveness.

**ring_safety.** `WaitersMatchOccupancy`: writers are suspended only on a full
buffer and readers only on an empty one; the `CHECK` of `close()` and the
`DCHECK` of `try_write_locked` rest on it. `ContentsInOrder`: the slots hold, in
order, what was accepted and not delivered, and what was delivered is what was
accepted first. `StoppedReadersReleased`: on a stopped buffer a suspended reader
is in the care of a closing thread. `OutcomeMatchesEffect`: a write reports
Stopped exactly if its element did not enter, a read that has an element never
reports Stopped. `ImplementsChannel`: all of it refines `ClosableChannel`, so a
reader is told Stopped only when everything accepted was delivered. Two slots
and four elements let the indices wrap, and two tasks per role let a list hold
two waiters while one hand-off is in progress.

**ring_liveness.** `StoppedReadsEnd` and `OpenWritesEnd`: no wake-up is lost.
Writers suspended when the buffer stops are outside the second property: readers
still refill from them while the buffer drains, but a write that passed its
unlocked test of `m_stopped` before the stop may suspend after the last of them
has gone.

**service.** `StateOnlyAdvances` (the `CHECK_GE` of `advance_state`),
`HooksRunOnce`, `OutcomesAgree` (nobody is told of a success that another is told
failed, and a broken promise is reported only by `service_await_join` and beside the
exception it hides), `DestroyedWhenCompleted` (the `CHECK` of
`~Service`), and `CallsReturn`: halts get `m_mutex` and return while others are in
hooks or wait, and joins return once the work has ended. Four
calls of three threads are a start and any three operations that race on the
started service, with two waiters and a halt at once; the destructor adds a kill
and a join to them.

**runner.** `InstancesOutliveTasks` (the `CHECK_LT` in `update_state`),
`CallbackAfterAll`, `JoinReportsFailure`, `FailureEndsJoin`,
`KillEndsInstances`. The two liveness properties assume that no exception leaves
`run()`: one that does keeps its instance from the next barrier, where the
others then wait. With three instances, one can have ended, one fail and one be
not yet launched.

**segment.** `JoinedMeansDelivered`: a join without a kill means that every
reader took all that was written to its edge and passed it on; a stop
therefore drains. `JoinReportsFailure`; `StoppedSegmentJoins`; `KillEndsJoin`
under two stated conditions: no writer stays blocked on the channel of a
reader that has gone, and the kill found all runners launched. With channels of one
element and three elements per source, both edges are full at once and the source
still blocked.

**pipeline.** `JoinAfterSegments`, `JoinReportsFailure`, `KillReachesRunning`,
`RunningIsConnected`, and the liveness `HaltEndsJoin`. The exceptions these
properties name are what the code does: an update handled after a stop or kill
starts its segments all the same; a second update starts segments again, which
throws (`pipeline_instance.hpp:61` calls the operation idempotent), and the kill
that follows throws at a segment that was never started and leaves those behind
it; a segment whose start threw is completed, and a kill does not reach what its start
launched. Two updates over three segments reach all of these; 3 feeds 1, so the order
of addresses is not that of the data. `PipelineAssumption` and `UpdatesComplete`
state what an update is: not empty, and with a segment it has those it feeds. The
update of the executor, with all segments, is one. With an empty first update
a join could return before the segments of a second.

**control_plane.** `ImplementsRoleSync`: over streams, fibers and crashes the
role does what `RoleSync` says, so a former member is told to tear down only when
no publisher knows it. `TagsOfConnected`: whatever order registrations, drops and
ends of streams come in, tags, members and subscribers are of connected
instances. `ServerSurvives`: a handler throws in two cases only, a failed write
to a dead client and a second `request_stop`. Liveness: `LatchesReleased` and
`DroppedInstanceEnds`. A second client that joins, leaves and crashes next to a
stable one reaches the cases that matter: an update of the connections between
registration and activation that leaves the client itself out; a subscriber that
is not yet looked up when its role update comes (`endpoint_shared` throws and the
update handler ends); a publisher that subscribes after the last update was
issued and so never reports; a drop request that tears down all services of an
instance, as `instance.cpp:145` compares names with themselves, where
`subscription_manager.hpp:60-63` has a subscriber kept until all publishers
have removed it.

**data_path.** `OneCarrier`: the tokens of a stored object are in exactly one
place. `QuietAfterStop`: when a manager has stopped, nothing that could send it a
decrement message exists. `FailsOnlyThere`: the processes end in four situations only:
a publisher without a subscriber, or whose last update threw, is given an object or
waits with one; a publisher that was torn down reads on; and a message meets a
router without its edge, which is always a message for a tag in `late`.
`StarvedForGood`: a transient pool whose blocks are all in use while the
progress engine waits for one stays so (the callback at `server.cpp:89` needs
a block while it keeps its own; `transient_pool.hpp:165` warns of differing life
cycles). Liveness: `MessagesArrive` and `StopEnds`, unless a process ended or a pool
is short of blocks. Two blocks, of which the receives need one, are the fewest with
which the server starts and can starve; channels of one element block every writer;
two objects, published or of users, are enough to fill each of them, and the address
of a released one is used again; two fibers of `rd_writer` let one descriptor overtake
another. The publisher and the subscriber on its
partition tear down each other, so that a listed edge and a readable one get lost; that
two subscribers on a partition do the same is left to `EndsOnlyThere`. A destroyed
descriptor keeps its tokens (`remote_descriptor.cpp:39`), the object stays
stored, and the manager cannot stop: `StopEnds` names it.

**Fairness** is weak and only on what the runtime itself schedules: a started
operation goes on, a thread pool, engine or fiber scheduler runs what it was
given, a hook returns, a stream that is unsubscribed returns, readers of the ring
buffer read until they are told to stop, gRPC and UCX deliver, the updater wakes
up by its period. Nothing obliges a user to write, start, stop, kill, join or
destroy, a source to emit or end, or a node to fail. Weak fairness is enough
because these steps stay enabled until they are taken; a thread in the ring
buffer never has to win the mutex against another in order to stay enabled, since
no one keeps it between two steps. In the control plane it is enough to ask that
some step of the system is taken when one can be, since none can be repeated for
ever. In the data path every fiber and every kind of callback has a condition of
its own.

## 4. The proofs

Every theorem holds for all values of the constants that the named assumptions
allow; the bounds that make the instances of section 3 finite are among the
constants and may be any number. Each proof has the same form: an inductive
invariant `IInv`, a lemma per action that the action keeps it (with a lemma or a
step for every conjunct the action can disturb), `Invariance`, and the properties
as consequences. The conjuncts were checked by TLC on the instances of section 3
before they were proved.

| module | theorem | states |
|---|---|---|
| `ClosableRingBufferProofs` | `TypeCorrect`, `WaiterListsCorrect`, `Fifo`, `ReadersReleased` | `TypeOK`, `WaitersMatchOccupancy`, `ContentsInOrder`, `StoppedReadersReleased` |
| | `OutcomeReported` | `OutcomeMatchesEffect` |
| | `Refinement` | `Spec => ImplementsChannel` |
| `ServiceProofs` | `HooksEnteredOnce`, `SameOutcome`, `DestroyedCompleted` | `HooksRunOnce`, `OutcomesAgree`, `DestroyedWhenCompleted` |
| | `StateAdvances` | `StateOnlyAdvances`, an action property |
| `RunnerProofs` | `TypeCorrect`, `InstancesKept`, `CallbackOnce`, `JoinReports` | `TypeOK`, `InstancesOutliveTasks`, `CallbackAfterAll`, `JoinReportsFailure` |
| `SegmentProofs` | `TypeCorrect`, `JoinReports` | `TypeOK`, `JoinReportsFailure` |
| | `JoinDelivers` | `JoinedMeansDelivered`, an action property |
| `PipelineProofs` | `JoinIsLast`, `JoinReports`, `KillReaches`, `RunsConnected` | `JoinAfterSegments`, `JoinReportsFailure`, `KillReachesRunning`, `RunningIsConnected` |
| `RoleSyncProofs` | `ReleasedForgotten`, `CurrentSame` | `ReleasedIsForgotten`, `CurrentMeansSame` |
| `DataPathProofs` | `TokensInOnePlace`, `StoppedIsLeftAlone`, `EndsOnlyThere` | `OneCarrier`, `QuietAfterStop`, `FailsOnlyThere` |
| | `StarvationLasts` | `StarvedForGood`, an action property |

**ClosableRingBufferProofs**, for every capacity `N > 0`, any number of writes
and any disjoint sets of tasks (`BufferAssumption`, `RolesAssumption`). `IInv` is
the conjunction of `TypeOK`, `WaitersMatchOccupancy`, `ContentsInOrder` and two
facts about operations: a write that is past its test or suspended carries an
element (`OperationsCarryElements`), and a task about to resume a waiter has one
in hand (`ResumersHoldWaiters`). None of the conjuncts is inductive alone. What a
read takes is an `Element` only because the slots from `m_back` on hold accepted
elements. A hand-off keeps the order only because a suspended reader means an
empty buffer, and a refill only because a suspended writer means a full one, where
`m_front = m_back`: the slot has to be read before it is stored to. The contents
are stated as a relation `InOrder` on values, and `StoreKeepsOrder` and
`TakeKeepsOrder` say what storing and taking do to it; an action that does both is
the two lemmas one after the other. `ReadersReleased` adds that a stopped buffer
gets no new suspended reader, because `await_suspend` looks at `m_stopped` under
the mutex, and that a thread leaves the list of readers only when it is empty.
`OutcomeReported` needs a second invariant, `Outcomes`: an operation waits in one
place, a list or the hand of one resumer, and its task is suspended meanwhile
(`Waits`); the element of a write is `<<w, sent[w]>>`, so that no other write enters it,
and it has entered exactly when the operation is done with success or waits to be
told so (`Fates`). `Refinement` maps every action to a step of `ClosableChannel` or to a
stutter, with the invariant that a thread which walks the lists has stopped the
buffer.

**ServiceProofs**, for any set of callers and any number of calls
(`ServiceAssumption`). A hook leaves its trace in the state or in its flag before it
is entered (`EntriesRecorded`); the promise of a future is made by the first
caller and kept or broken once, by that caller (`PromisesKept`); what callers were told
is what the future holds, and a broken one was first an exception of its hook
(`ReportsMatch`); a destructor runs alone
(`DestructorAlone`), and whoever has joined as the first left the state Completed
(`JoinCompletes`).

**RunnerProofs**, for any number of instances and both kinds of runnable. The
heart is `Counting`: `m_remaining_instances` is the cardinality of the set of
instances that have not counted down, where one that ended by an exception other
than `std::exception` never does. The instances stay until the owner has seen
the future of each (`OwnerMatches`, `TaskMatches`).

**SegmentProofs**, for every graph with at most one edge out of a node, any launch
order, capacity and number of elements (`SegmentAssumption`). While nobody was
killed and no node failed (`Undisturbed`), what was written to an edge is what was
taken followed by what is in the channel (`Carried`), a node has passed on what it
took but for the element in its hands (`PassedOn`), and it ends only behind the
end of its data (`Drained`). A failed node, or a kill, shows in the state before
it disturbs this (`KillsAnnounced`).

**PipelineProofs**, for any segments, any connections among them, any updates and
any number of them (`PipelineAssumption`, `UpdatesComplete`). Once the pipeline is
joinable, an update that was not overtaken is bound to fail, at a segment that was
started before (`SecondFails`), so that a join without an exception met every
segment that ran (`JoinedSegments`, `Outcome`). With a single update, segments are
started in the order of their addresses and before the join looks at them
(`SingleStarts`, `SingleJoins`), so that a kill which stops at a segment never
started misses none that runs (`Kills`); a kill has reached a segment when it told it or
when the segment is completed (`Reached`). Connections are made for all segments of an
update before any is started, and the set of those connected is closed under
"feeds" (`Wires`).

**RoleSyncProofs**, for any set of tags. A latched member is in no version from
its latch on (`AbsentSince`), so a released one is in no version a subscriber may
still take over (`ReleasedIsPast`); what a subscriber knows is part of a version
not older than the one it applied last (`KnowsVersion`); no report runs ahead of
what was applied (`ReportsApplied`).

**DataPathProofs**, for any partitions, subscribers, fibers, blocks, receives,
addresses and sizes of channels (`DataPathAssumption`). The places a descriptor can
be in are sets of descriptors (`At`); they are disjoint (`Apart`), nothing is in a
channel twice (`NoRepeats`), everything is stored (`Backed`) and nothing stored is
nowhere (`Somewhere`). A step moves one descriptor from a place to another, or stores
or erases one; six lemmas about such moves carry the steps of all actions.
`EndsOnlyThere` needs what holds of tags: one that is listed, that `m_next` points to,
or that an update may still list is `Known`, it has its edge or is in `late`, and
`m_next` is an endpoint if there is one, unless an update failed (`Members`). Messages
are then sent to tags that are known and, as a teardown puts the tags of messages
under way into `late`, stay so until they arrive (`Routes`); the four situations follow
(`Ends`). Updates, set-ups and teardowns touch nothing else, and share a lemma
(`ControlStep`). `StarvationLasts` is proved
from the definition of the steps and the types alone: what pins the blocks of a
starved pool is in the hands of the progress engine that waits.

Not proved, only model-checked: the safety of `ControlPlane` (`TagsOfConnected`,
`ServerSurvives`) and that it implements `RoleSync`; every liveness property. Liveness under
fairness is outside the prover's reach, and so is what recursive definitions
compute for every input.

From nothing, the proofs of the data path take about fifteen minutes, those of the
pipeline eight, those of the ring buffer six, the others up to three.
Leaves that need no arithmetic name Zenon: for large states its obligations
are much cheaper to prepare than those of the SMT solver.

## 5. Where code and documentation disagree

Each of these is a run in which TLC finds the documented property violated.

1. `ring_completed`. `completed()` "Blocks until `close()` has been called and
   all elements have been returned" (`closable_ring_buffer.hpp:437`). Its test
   at line 689 is `m_used >= 0`, which holds of every buffer, so a call after the
   buffer was closed and emptied suspends and nothing resumes it.
2. `service_join`. "Always set the state to completed before releasing the
   future" (`service.cpp:212`). `completed_promise.set_value()` (line 220) comes
   before the unwinder, and a second caller returns while the state is not yet
   Completed.
3. `runner_status`. The callback's argument: "a true value indicated that all
   contexts/instances finished without error" (`runner.hpp:105`). `m_status` is
   loaded and stored in two steps (`runner.cpp:142`), and a failure can be lost
   between those of another instance.
4. `segment_failure`. `LifeCycleWithExceptionAndInfiniteSource`
   (`test_pipeline.cpp:180`) expects that a join throws when a sink throws while its
   source never ends. A sink that failed neither reads nor closes its channel
   (`rx_sink.hpp:163`); when the source is blocked on that channel, it never sees
   the kill and the join never ends.

Others are part of the models and named by the properties that make an exception
for them: the second update of a pipeline, the teardown of all services of an
instance, the second `request_stop`, the starved pool, the descriptor destroyed
with its tokens (`remote_descriptor.hpp:41` calls it a "RAII object"), the message
that comes after its subscriber's edge was dropped, the publication without a
subscriber (`publisher_round_robin.cpp` logs that it drops the object), the publisher
that reads from an edge its teardown released, and the broken promise: the comment
at `service.cpp:231` says that `future.get()` "will rethrow any exception thrown in
do_service_await_join", which is so for every `std::exception` only.

## 6. What is not modelled

Most of the repository's lines are construction, typed templates, bindings, codecs
and tests; the models cover the state machines and the protocols, which are a small
part of the text.

- Coroutine scheduling (`thread_pool.cpp`, the task container): next in the plan.
- Manifold transport (muxers, load balancers), nodes with several edges, broadcast
  and `combine_latest`. `Pipeline` has when manifolds are connected, `Segment` the
  edge between two nodes.
- In the control plane: how a stream is accepted (`server.cpp:624` registers it
  while it may already end), the shutdown of the server, a client that comes back
  (its worker addresses are not released, `connection_manager.cpp:64`), the
  overflow of 16-bit tags (`tagged_issuer.cpp:51`), several publishers on a client.
- In the data path: the stop of the data plane server, where a receive that
  completes while it is cancelled keeps the loop of `do_service_stop` spinning;
  remote reads; an exception of `endpoint_shared` in `release_handle` (the one in an
  update is modelled); the teardown of a publisher that follows a failed update of its
  own partition, which has no update handler any more; the unlocked read of the router's edges; the persistent channel that
  `Publisher::request_stop` resets. UCX itself is eager sends that arrive in order.
- Memory registration: its state is in UCX.
- Codecs and memory resources: sequential code about bytes and allocators.
- Pipeline and segment definitions, builders, modules, metrics, topology,
  resource set-up: built in a fixed order before anything runs.
- Python bindings: adapters around the C++ interface and the interpreter lock.
- `RingBuffer` (`ring_buffer.hpp`): the algorithm of `ClosableRingBuffer` with
  no close.
- The memory model of C++: steps outside a lock interleave, and an atomic
  variable is read and written in single steps. The one read of an object that
  may be destroyed is a choice (`ChainNext`).

## 7. Plan

1. `ThreadPool`, with the task container: tasks scheduled prior to a shutdown are
   completed (`thread_pool.hpp:64`). Instance: 2 workers, 3 tasks.
2. Manifolds and ports in `Segment`; more than one edge into a node; the
   deferred kill of a segment that is still launching.
3. A client of the control plane that comes back, and several publishers on one.
4. Theorems: `TagsOfConnected` and `ServerSurvives` of `ControlPlane` for any clients and
   services, and its refinement of `RoleSync`, step by step.
