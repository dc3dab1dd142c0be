------------------------------ MODULE Pipeline ------------------------------
(***************************************************************************)
(* A pipeline under its executor: executor::ExecutorDefinition, the        *)
(* pipeline::Manager it owns, the Controller that reads the manager's      *)
(* update channel, and the PipelineInstance with its segments.             *)
(*                                                                         *)
(* Four threads of control: main starts, joins and destroys the executor;  *)
(* a second thread stops it; a third pushes further updates to the         *)
(* manager; the controller handles control messages in order.  A segment   *)
(* is a service with work that ends or fails (Segment.tla has the detail). *)
(* At most MaxUpdates + 2 messages are ever written, fewer than the update *)
(* channel holds, so a write does not block.                               *)
(***************************************************************************)
EXTENDS Naturals, Sequences, FiniteSets, FiniteSetsExt

CONSTANTS
  Segment,     \* segment addresses, in the order of std::map: a set of naturals
  Upstream,    \* Upstream[s]: the segments whose egress ports feed s through a manifold
  Updates,     \* the address sets that push_updates is called with
  MaxUpdates   \* bound: updates pushed, the one of the executor included

ASSUME PipelineAssumption ==
  /\ Segment \subseteq Nat \ {0} /\ IsFiniteSet(Segment)
  /\ Upstream \in [Segment -> SUBSET Segment]
  /\ Updates \subseteq (SUBSET Segment) \ {{}}
  /\ MaxUpdates \in Nat \ {0}

\* A segment is deployed together with those it feeds: the executor's update has all
\* segments of the definition.
ASSUME UpdatesComplete ==
  \A A \in Updates, s, d \in Segment : s \in A /\ s \in Upstream[d] => d \in A

\* enum ServiceState, in the order in which its values are compared.
Initialized == 0
Starting == 1
Running == 2
Stopping == 3
Killing == 4
Completed == 5

VARIABLES
  exec, manager, pipe,  \* m_state of the executor, the manager, the pipeline instance
  channel,              \* m_update_channel: the messages written and not yet read
  reset,                \* m_update_channel.reset() was called
  ctl,                  \* the controller: where it is, and the segments still to do there
  target,               \* the addresses of the update at hand
  failing,              \* the controller is in the catch clause of on_data
  ctlFailed,            \* an exception is set in the controller's context
  m_current_segments,
  m_segments,           \* the segments created and not destroyed
  seg,                  \* m_state of each segment
  work,                 \* what each segment runs: none, active or ended
  told,                 \* whether the segment was told to stop or to be killed
  failed,               \* a node of the segment threw
  wired,                \* segments whose manifold connections have been made
  joinable,             \* m_joinable
  main, cursor, thrown, \* main: where it is, the last segment joined, an exception caught
  stopper, pusher,      \* where the other two threads are
  pushed,               \* updates pushed so far
  crashed,              \* a null m_update_channel was dereferenced, or a CHECK failed
  overtaken,            \* history: an update was handled after a stop or a kill
  missed                \* history: segments a kill did not get to because it threw

services == <<exec, manager, pipe>>
control == <<ctl, target, failing, ctlFailed, m_current_segments>>
segments == <<m_segments, seg, work, told, failed, wired>>
users == <<main, cursor, thrown, stopper, pusher, pushed>>
history == <<overtaken, missed>>
vars == <<services, channel, reset, control, segments, joinable, users, crashed, history>>

Nothing == [at |-> "idle", todo |-> {}]

\* ExecutorDefinition after register_pipeline: the constructor of Manager started
\* the manager, and that of Controller the pipeline instance.
Init ==
  /\ exec = Initialized /\ manager = Running /\ pipe = Running
  /\ channel = << >> /\ reset = FALSE
  /\ ctl = Nothing /\ target = {} /\ failing = FALSE /\ ctlFailed = FALSE
  /\ m_current_segments = {} /\ m_segments = {}
  /\ seg = [s \in Segment |-> Initialized]
  /\ work = [s \in Segment |-> "none"]
  /\ told = [s \in Segment |-> "no"]
  /\ failed = [s \in Segment |-> FALSE]
  /\ wired = {} /\ joinable = FALSE
  /\ main = "new" /\ cursor = 0 /\ thrown = FALSE
  /\ stopper = "idle" /\ pusher = "idle" /\ pushed = 0
  /\ crashed = FALSE /\ overtaken = FALSE /\ missed = {}

\* Service::ensure_state.
EnsureState(s, state) == IF state > s THEN state ELSE s

Message(type, addresses) == [type |-> type, addresses |-> addresses]

\* m_update_channel->await_write: through a null pointer once it was reset.
AwaitWrite(m) ==
  /\ crashed' = reset
  /\ channel' = IF reset THEN channel ELSE Append(channel, m)

-----------------------------------------------------------------------------
(* The executor and the manager, called by main *)

\* ExecutorDefinition::start up to the hook.
start ==
  /\ ~crashed /\ main = "new" /\ exec = Initialized
  /\ exec' = Starting
  /\ main' = "push"
  /\ UNCHANGED <<manager, pipe, channel, reset, control, segments, joinable, cursor, thrown,
                 stopper, pusher, pushed, crashed, history>>

\* do_service_start pushes one update, with the segments of the pipeline's
\* definition; service_start returns.
do_service_start(A) ==
  /\ ~crashed /\ main = "push"
  /\ AwaitWrite(Message("Update", A))
  /\ pushed' = pushed + 1
  /\ exec' = EnsureState(exec, Running)
  /\ main' = "started"
  /\ UNCHANGED <<manager, pipe, reset, control, segments, joinable, cursor, thrown,
                 stopper, pusher, history>>

\* join(), or the join in the destructor: Manager::do_service_await_join waits
\* for the pipeline to be joinable.
Join(from) ==
  /\ main \in from
  /\ main' = "await_joinable"

join ==
  /\ ~crashed /\ Join({"started"})
  /\ UNCHANGED <<services, channel, reset, control, segments, joinable, cursor, thrown,
                 stopper, pusher, pushed, crashed, history>>

\* The destructor, when no other thread is in a call: a running executor is killed,
\* through the manager's service_kill, and any that is not completed is joined.
destroy ==
  /\ ~crashed /\ main = "started"
  /\ stopper = "idle" /\ pusher = "idle"
  /\ stopper' = "gone" /\ pusher' = "gone"
  /\ exec' = IF exec = Running THEN Killing ELSE exec
  /\ main' = IF exec = Running THEN "kill" ELSE "await_joinable"
  /\ UNCHANGED <<manager, pipe, channel, reset, control, segments, joinable, cursor, thrown,
                 pushed, crashed, history>>

\* Manager::do_service_kill.
do_service_kill ==
  /\ ~crashed /\ main = "kill"
  /\ IF manager < Killing
       THEN AwaitWrite(Message("Kill", {})) /\ manager' = Killing
       ELSE UNCHANGED <<channel, crashed, manager>>
  /\ main' = "await_joinable"
  /\ UNCHANGED <<exec, pipe, reset, control, segments, joinable, cursor, thrown,
                 stopper, pusher, pushed, history>>

\* m_joinable_future.get() in PipelineInstance::do_service_await_join.
AwaitJoinable ==
  /\ ~crashed /\ main = "await_joinable" /\ joinable
  /\ main' = "join_segments"
  /\ UNCHANGED <<services, channel, reset, control, segments, joinable, cursor, thrown,
                 stopper, pusher, pushed, crashed, history>>

Unjoined == {s \in m_segments : s > cursor}

\* Mutant of SegmentJoined: the loop does not wait for a segment that was told to stop.
SegmentJoinedEarly(s) == seg[s] = Initialized \/ work[s] = "ended" \/ told[s] # "no"

\* service_await_join of a segment comes back: at once, by an exception, if it was
\* never started; else when its work has ended.
SegmentJoined(s) == seg[s] = Initialized \/ work[s] = "ended"

SegmentThrows(s) == seg[s] = Initialized \/ failed[s]

JoinSegment ==
  /\ ~crashed /\ main = "join_segments" /\ Unjoined # {}
  /\ LET s == Min(Unjoined) IN
       /\ SegmentJoined(s)
       /\ thrown' = (thrown \/ SegmentThrows(s))
       /\ seg' = [seg EXCEPT ![s] = IF @ = Initialized THEN @ ELSE Completed]
       /\ cursor' = s
  /\ UNCHANGED <<services, channel, reset, control, m_segments, work, told, failed, wired,
                 joinable, main, stopper, pusher, pushed, crashed, history>>

\* All segments are joined: the pipeline instance is completed, and the update
\* channel is reset, which closes it for the controller.
ResetChannel ==
  /\ ~crashed /\ main = "join_segments" /\ Unjoined = {}
  /\ pipe' = Completed
  /\ reset' = TRUE
  /\ main' = "join_controller"
  /\ UNCHANGED <<exec, manager, channel, control, segments, joinable, cursor, thrown,
                 stopper, pusher, pushed, crashed, history>>

\* Mutant of JoinThrows: the join of the controller does not throw.
JoinThrowsPipeline == thrown

\* m_controller->await_join() throws what the controller's context holds; after it
\* the exception of the pipeline is rethrown.
JoinThrows == ctlFailed \/ thrown

JoinController ==
  /\ ~crashed /\ main = "join_controller" /\ ctl.at = "ended"
  /\ manager' = Completed /\ exec' = Completed
  /\ main' = IF JoinThrows THEN "threw" ELSE "joined"
  /\ UNCHANGED <<pipe, channel, reset, control, segments, joinable, cursor, thrown,
                 stopper, pusher, pushed, crashed, history>>

-----------------------------------------------------------------------------
(* The other two callers *)

\* stop() by another thread; refused before start().
stop ==
  /\ ~crashed /\ stopper = "idle" /\ exec # Initialized
  /\ exec' = EnsureState(exec, Stopping)
  /\ stopper' = IF exec < Stopping THEN "manager" ELSE "idle"
  /\ UNCHANGED <<manager, pipe, channel, reset, control, segments, joinable, main, cursor,
                 thrown, pusher, pushed, crashed, history>>

\* The executor's hook calls the manager's service_stop.
ManagerStop ==
  /\ ~crashed /\ stopper = "manager"
  /\ manager' = EnsureState(manager, Stopping)
  /\ stopper' = IF manager < Stopping THEN "write" ELSE "idle"
  /\ UNCHANGED <<exec, pipe, channel, reset, control, segments, joinable, main, cursor,
                 thrown, pusher, pushed, crashed, history>>

\* Manager::do_service_stop.
do_service_stop ==
  /\ ~crashed /\ stopper = "write"
  /\ AwaitWrite(Message("Stop", {}))
  /\ stopper' = "idle"
  /\ UNCHANGED <<services, reset, control, segments, joinable, main, cursor, thrown,
                 pusher, pushed, history>>

\* Manager::push_updates by a direct user of the manager: the CHECK, then the write.
push_updates ==
  /\ ~crashed /\ pusher = "idle" /\ pushed > 0 /\ pushed < MaxUpdates
  /\ pusher' = IF reset THEN "idle" ELSE "write"
  /\ crashed' = reset
  /\ UNCHANGED <<services, channel, reset, control, segments, joinable, main, cursor, thrown,
                 stopper, pushed, history>>

PushWrite(A) ==
  /\ ~crashed /\ pusher = "write"
  /\ AwaitWrite(Message("Update", A))
  /\ pushed' = pushed + 1
  /\ pusher' = "idle"
  /\ UNCHANGED <<services, reset, control, segments, joinable, main, cursor, thrown,
                 stopper, history>>

-----------------------------------------------------------------------------
(* The controller *)

At(p) == ~crashed /\ ctl.at = p /\ ctl.todo # {}
Through(p) == ~crashed /\ ctl.at = p /\ ctl.todo = {}
GoTo(p, S) == ctl' = [at |-> p, todo |-> S]
Next1 == Min(ctl.todo)
Rest == GoTo(ctl.at, ctl.todo \ {Next1})

\* An exception leaves on_data, or is set in the context: the runner of the
\* controller is killed and reads no further message.
ControllerFails == GoTo("ended", {}) /\ ctlFailed' = TRUE

\* Mutant of mark_joinable: the promise is not set.
mark_joinable_never == UNCHANGED joinable

mark_joinable == joinable' = TRUE

\* service_stop and service_kill of the pipeline instance up to the loop over the
\* segments: mark_joinable comes first.
Halt(state, at) ==
  IF pipe < state
    THEN /\ pipe' = state /\ mark_joinable
         /\ GoTo(at, m_segments)
         /\ UNCHANGED ctlFailed
    ELSE /\ IF failing' THEN ControllerFails ELSE GoTo("idle", {}) /\ UNCHANGED ctlFailed
         /\ UNCHANGED <<pipe, joinable>>

\* Controller::update begins with the segments to create.
OnUpdate(A) ==
  /\ target' = A
  /\ overtaken' = (overtaken \/ pipe >= Stopping)
  /\ GoTo("create", A \ m_current_segments)
  /\ UNCHANGED <<pipe, joinable, failing, ctlFailed, missed>>

\* Controller::on_data.
on_data ==
  /\ Through("idle") /\ channel # << >>
  /\ channel' = Tail(channel)
  /\ LET m == Head(channel) IN
       \/ m.type = "Update" /\ OnUpdate(m.addresses)
       \/ m.type = "Stop" /\ UNCHANGED <<failing, target, history>> /\ Halt(Stopping, "stop")
       \/ m.type = "Kill" /\ UNCHANGED <<failing, target, history>> /\ Halt(Killing, "kill")
  /\ UNCHANGED <<exec, manager, reset, m_current_segments, segments, users, crashed>>

\* The closed channel is drained: the controller completes.
ControllerEnds ==
  /\ Through("idle") /\ channel = << >> /\ reset
  /\ GoTo("ended", {})
  /\ UNCHANGED <<services, channel, reset, target, failing, ctlFailed, m_current_segments,
                 segments, joinable, users, crashed, history>>

\* The catch clause of on_data: kill().
Throws ==
  /\ failing' = TRUE
  /\ Halt(Killing, "kill")

\* PipelineInstance::create_segment; the CHECK that the address is new.
create_segment ==
  /\ At("create")
  /\ crashed' = (Next1 \in m_segments)
  /\ m_segments' = m_segments \cup {Next1}
  /\ Rest
  /\ UNCHANGED <<services, channel, reset, target, failing, ctlFailed, m_current_segments,
                 seg, work, told, failed, wired, joinable, users, history>>

\* The initializer of the segment throws in the constructor of SegmentInstance.
CreateThrows ==
  /\ At("create")
  /\ Throws
  /\ UNCHANGED <<exec, manager, channel, reset, target, m_current_segments, segments,
                 users, crashed, history>>

CreateDone ==
  /\ Through("create")
  /\ GoTo("remove", m_current_segments \ target)
  /\ UNCHANGED <<services, channel, reset, target, failing, ctlFailed, m_current_segments,
                 segments, joinable, users, crashed, history>>

\* Mutant of Tell: a segment that is stopping is not killed.
TellOnce(s, state, what) ==
  /\ seg' = [seg EXCEPT ![s] = EnsureState(@, state)]
  /\ told' = [told EXCEPT ![s] = IF seg[s] < Stopping THEN what ELSE @]

\* service_stop or service_kill of a segment that was started: the hook is called if
\* the state advances.
Tell(s, state, what) ==
  /\ seg' = [seg EXCEPT ![s] = EnsureState(@, state)]
  /\ told' = [told EXCEPT ![s] = IF seg[s] < state THEN what ELSE @]

\* stop_segment for the segments the update removes; they stay in m_segments.
stop_segment ==
  /\ At("remove")
  /\ Tell(Next1, Stopping, "stop")
  /\ Rest
  /\ UNCHANGED <<services, channel, reset, target, failing, ctlFailed, m_current_segments,
                 m_segments, work, failed, wired, joinable, users, crashed, history>>

\* Mutant of UpdateManifolds: the connections are made after the segments start.
UpdateManifoldsLate == wired

\* update_inputs, update_outputs and start of every manifold: the connections that
\* create_segment enqueued are made.
UpdateManifolds == m_segments

update ==
  /\ Through("remove")
  /\ wired' = UpdateManifolds
  /\ GoTo("start", m_segments)
  /\ UNCHANGED <<services, channel, reset, target, failing, ctlFailed, m_current_segments,
                 m_segments, seg, work, told, failed, joinable, users, crashed, history>>

\* service_start and service_await_live of the next segment in the map.
StartSegment ==
  /\ At("start") /\ seg[Next1] = Initialized
  /\ seg' = [seg EXCEPT ![Next1] = Running]
  /\ work' = [work EXCEPT ![Next1] = "active"]
  /\ Rest
  /\ UNCHANGED <<services, channel, reset, target, failing, ctlFailed, m_current_segments,
                 m_segments, told, failed, wired, joinable, users, crashed, history>>

\* service_start throws: the segment was started by an earlier update, or its
\* hook threw, which completes it.  The runners launched before the hook threw, if
\* any, go on, and a completed segment can be neither stopped nor killed.
StartThrows ==
  /\ At("start")
  /\ IF seg[Next1] = Initialized
       THEN /\ seg' = [seg EXCEPT ![Next1] = Completed]
            /\ \E w \in {"active", "ended"} : work' = [work EXCEPT ![Next1] = w]
       ELSE UNCHANGED <<seg, work>>
  /\ Throws
  /\ UNCHANGED <<exec, manager, channel, reset, target, m_current_segments, m_segments,
                 told, failed, wired, users, crashed, history>>

\* mark_joinable, and the update is done.
UpdateDone ==
  /\ Through("start")
  /\ mark_joinable
  /\ m_current_segments' = target
  /\ GoTo("idle", {})
  /\ UNCHANGED <<services, channel, reset, target, failing, ctlFailed, segments,
                 users, crashed, history>>

\* The loops of PipelineInstance::do_service_stop and do_service_kill.
HaltSegment(p, state) ==
  /\ At(p) /\ seg[Next1] # Initialized
  /\ Tell(Next1, state, p)
  /\ Rest
  /\ UNCHANGED <<services, channel, reset, target, failing, ctlFailed, m_current_segments,
                 m_segments, work, failed, wired, joinable, users, crashed, history>>

\* stop_segment throws at a segment that was never started, and the loop is left.
HaltThrows ==
  /\ At("stop") \/ At("kill")
  /\ seg[Next1] = Initialized
  /\ ControllerFails
  /\ missed' = missed \cup ctl.todo
  /\ UNCHANGED <<services, channel, reset, target, failing, m_current_segments, segments,
                 joinable, users, crashed, overtaken>>

\* The loop is through: on_data returns, in the catch clause after set_exception.
HaltDone ==
  /\ Through("stop") \/ Through("kill")
  /\ IF failing THEN ControllerFails ELSE GoTo("idle", {}) /\ UNCHANGED ctlFailed
  /\ UNCHANGED <<services, channel, reset, target, failing, m_current_segments, segments,
                 joinable, users, crashed, history>>

-----------------------------------------------------------------------------
(* The segments *)

\* A segment that reads from a manifold ends after the segments that feed it, when
\* the router of the manifold releases its edge; a source segment when it is told to
\* or by itself; any segment when it is killed.
MayEnd(s) == told[s] = "kill" \/ \A u \in Upstream[s] : work[u] # "active"

WorkEnds(s) ==
  /\ ~crashed /\ work[s] = "active" /\ MayEnd(s)
  /\ work' = [work EXCEPT ![s] = "ended"]
  /\ UNCHANGED <<services, channel, reset, control, m_segments, seg, told, failed, wired,
                 joinable, users, crashed, history>>

\* A node throws; its completion callback kills the segment.
NodeFails(s) ==
  /\ ~crashed /\ work[s] = "active" /\ ~failed[s]
  /\ failed' = [failed EXCEPT ![s] = TRUE]
  /\ Tell(s, Killing, "kill")
  /\ UNCHANGED <<services, channel, reset, control, m_segments, work, wired,
                 joinable, users, crashed, history>>

-----------------------------------------------------------------------------
Main == start \/ (\E A \in Updates : do_service_start(A)) \/ join \/ destroy \/ do_service_kill
        \/ AwaitJoinable \/ JoinSegment \/ ResetChannel \/ JoinController

Callers == stop \/ ManagerStop \/ do_service_stop \/ push_updates
           \/ \E A \in Updates : PushWrite(A)

Controller ==
  \/ on_data \/ ControllerEnds
  \/ create_segment \/ CreateThrows \/ CreateDone \/ stop_segment \/ update
  \/ StartSegment \/ StartThrows \/ UpdateDone
  \/ HaltSegment("stop", Stopping) \/ HaltSegment("kill", Killing) \/ HaltThrows \/ HaltDone

Segments == \E s \in Segment : WorkEnds(s) \/ NodeFails(s)

Next == Main \/ Callers \/ Controller \/ Segments

Spec == Init /\ [][Next]_vars

\* A segment that was told to end, or whose upstream has ended, ends; one with a
\* failed node may hang (Segment.tla), as may one that was started by halves, and a
\* source may run for ever.
WorkMustEnd(s) == /\ told[s] # "no" \/ Upstream[s] # {}
                  /\ ~failed[s] /\ seg[s] # Completed
                  /\ WorkEnds(s)

\* A call that was entered goes on, and so do the controller's fiber and the work
\* of the segments.  Nothing makes a user start, join, stop, push or destroy.
Fairness ==
  /\ WF_vars((\E A \in Updates : do_service_start(A)) \/ do_service_kill)
  /\ WF_vars(AwaitJoinable \/ JoinSegment \/ ResetChannel \/ JoinController)
  /\ WF_vars(ManagerStop \/ do_service_stop)
  /\ WF_vars(\E A \in Updates : PushWrite(A))
  /\ WF_vars(Controller)
  /\ \A s \in Segment : WF_vars(WorkMustEnd(s))

FairSpec == Spec /\ Fairness

-----------------------------------------------------------------------------
(* Properties *)

Joining == main \in {"await_joinable", "join_segments", "join_controller"}

\* When join() of the executor returns, no segment runs any more.  When it throws,
\* the same holds with a single update; the exceptions are an update that was
\* handled after a stop or a kill (its segments are started all the same), and a
\* second update that starts a segment behind the loop of the join and then fails.
JoinAfterSegments ==
  /\ ~overtaken
  /\ main = "joined" \/ (main = "threw" /\ pushed = 1)
  => \A s \in Segment : work[s] # "active"

\* join() returns without an exception only if every update succeeded and no node
\* of any segment failed: the catch clauses of the controller, of
\* PipelineInstance::do_service_await_join and of Manager::do_service_await_join
\* lose no failure between them.
JoinReportsFailure ==
  main = "joined" /\ ~overtaken => ~failing /\ \A s \in Segment : ~failed[s]

\* The kill of a pipeline gets to every running segment, except to one whose start
\* threw after it had launched some runners, and to those behind a segment that was
\* never started: stop_segment throws there and do_service_kill is left.  With a
\* single update, segments are started in the order of the loop, and so the ones it
\* does not get to are not running.
KillReachesRunning ==
  pipe = Killing /\ ~overtaken /\ ctl.at \in {"idle", "ended"}
  => \A s \in m_segments : work[s] = "active" =>
       \/ told[s] = "kill" \/ seg[s] = Completed
       \/ s \in missed /\ pushed > 1 /\ \E t \in missed : t < s /\ seg[t] = Initialized

\* A segment that runs finds the manifold outputs to the segments it feeds connected:
\* with none, RoundRobinEgress would fail its CHECK on the first element.
RunningIsConnected ==
  \A s, d \in Segment : work[s] = "active" /\ s \in Upstream[d] => d \in wired

\* Once the manager was told to stop or to kill, a join comes back, unless a node
\* failed, the message came before the update it should undo, the kill missed a
\* running segment or found one that was started by halves, or the message was
\* written to the channel the join had reset.
HaltEndsJoin ==
  (Joining /\ manager >= Stopping) ~>
    \/ main \in {"joined", "threw"}
    \/ crashed \/ overtaken
    \/ \E s \in Segment : \/ failed[s]
                          \/ work[s] = "active" /\ (s \in missed \/ seg[s] = Completed)
=============================================================================
