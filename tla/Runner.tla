------------------------------- MODULE Runner -------------------------------
(***************************************************************************)
(* mrc::runnable::Runner running the instances of an RxRunnable: how an    *)
(* instance goes through its states, how the failure of one instance stops *)
(* the others, how the instances meet at the barriers of their Context,    *)
(* and what await_join, the destructor and the completion callback report. *)
(*                                                                         *)
(* Instances are ranked 0 .. Size - 1.  One thread owns the runner; stop() *)
(* and kill() may come from any thread, a failing instance included.       *)
(***************************************************************************)
EXTENDS Naturals, Sequences

CONSTANTS
  Size,              \* number of contexts
  StopUnsubscribes   \* TRUE for RxSource, FALSE for RxNode and RxSink

ASSUME RunnerAssumption == Size \in Nat \ {0} /\ StopUnsubscribes \in BOOLEAN

Instance == 0 .. Size - 1

\* enum Runner::State and enum Runnable::State, as they are compared.
Unqueued == 0
Queued == 1
Running == 2
Error == 3
Completed == 4

Owned == 1
Run == 2
Stop == 3
Kill == 4

VARIABLES
  m_instances,  \* the vector of instances is filled (FALSE before enqueue and after a join)
  m_state,      \* Instance::m_state
  runnable,     \* m_runnable->m_state
  subscribed,   \* m_subscription of the RxRunnable
  m_status, m_remaining_instances,
  failed,       \* m_exception_ptr of each context is set
  thrown,       \* what left run(): "no", a "std" exception or an "other" one
  pc,           \* where each instance is
  seen,         \* m_status as each instance read it
  live,         \* m_live_promise is set
  join_future,  \* none, value or exception
  callback,     \* history: the arguments of m_completion_callback
  owner,        \* where the owner is
  joined        \* how many futures await_join has waited for

instance_vars == <<m_state, failed, thrown, pc, seen, live, join_future>>
vars == <<m_instances, runnable, subscribed, m_status, m_remaining_instances, callback,
          owner, joined, instance_vars>>

Init ==
  /\ m_instances = FALSE
  /\ m_state = [i \in Instance |-> Unqueued]
  /\ runnable = Owned
  /\ subscribed = TRUE
  /\ m_status = TRUE
  /\ m_remaining_instances = 0
  /\ failed = [i \in Instance |-> FALSE]
  /\ thrown = [i \in Instance |-> "no"]
  /\ pc = [i \in Instance |-> "none"]
  /\ seen = [i \in Instance |-> TRUE]
  /\ live = [i \in Instance |-> FALSE]
  /\ join_future = [i \in Instance |-> "none"]
  /\ callback = << >>
  /\ owner = "new"
  /\ joined = 0

\* Mutant of update_runnable: a stop or kill that comes before the run is forgotten.
update_when_run(s) ==
  /\ runnable' = IF runnable < s THEN s ELSE runnable
  /\ subscribed' = (subscribed /\ ~(runnable = Run /\ (s = Kill \/ (s = Stop /\ StopUnsubscribes))))

\* Runnable::update_state with RxRunnable::on_state_update: forward only, and
\* a stop of a source or any kill unsubscribes.
update_runnable(s) ==
  /\ runnable' = IF runnable < s THEN s ELSE runnable
  /\ subscribed' = (subscribed /\ ~(runnable < s /\ (s = Kill \/ (s = Stop /\ StopUnsubscribes))))

GoTo(i, p) == pc' = [pc EXCEPT ![i] = p]

-----------------------------------------------------------------------------
(* The owner *)

\* Mutant of RemainingInstances: one too few.
RemainingOthers == Size - 1

\* m_remaining_instances = launcher->size()
RemainingInstances == Size

\* enqueue up to the launch of the tasks.
Enqueue ==
  /\ owner = "new"
  /\ m_instances' = TRUE
  /\ m_state' = [i \in Instance |-> Queued]
  /\ update_runnable(Run)
  /\ m_remaining_instances' = RemainingInstances
  /\ owner' = "launching"
  /\ UNCHANGED <<m_status, callback, joined, failed, thrown, pc, seen, live, join_future>>

\* engine->launch_task for each instance in turn; the earlier ones already run.
Launch(i) ==
  /\ owner = "launching" /\ pc[i] = "none"
  /\ \A j \in Instance : j < i => pc[j] # "none"
  /\ GoTo(i, "launched")
  /\ owner' = IF i = Size - 1 THEN "up" ELSE owner
  /\ UNCHANGED <<m_instances, runnable, subscribed, m_status, m_remaining_instances,
                 callback, joined, m_state, failed, thrown, seen, live, join_future>>

\* stop() and kill(), from any thread, also before the runner is enqueued.
Halt(s) ==
  /\ owner \notin {"destroyed", "terminated"}
  /\ runnable < s
  /\ update_runnable(s)
  /\ UNCHANGED <<m_instances, m_status, m_remaining_instances, callback, owner, joined,
                 instance_vars>>

\* await_live: the live future of every instance.
AwaitLive ==
  /\ owner = "up" /\ m_instances
  /\ \A i \in Instance : live[i]
  /\ owner' = "live"
  /\ UNCHANGED <<m_instances, runnable, subscribed, m_status, m_remaining_instances,
                 callback, joined, instance_vars>>

\* await_join, called by the owner or by the destructor.
JoinBegin ==
  /\ owner \in {"up", "live"}
  /\ owner' = "joining"
  /\ joined' = 0
  /\ UNCHANGED <<m_instances, runnable, subscribed, m_status, m_remaining_instances,
                 callback, instance_vars>>

\* Mutant of JoinContinues: the first exception is rethrown at once.
JoinContinuesOnSuccess(i) == join_future[i] = "value"

\* An exception of one instance does not end the wait for the others.
JoinContinues(i) == join_future[i] # "none"

\* The next future is ready.
JoinNext ==
  /\ owner \in {"joining", "destroying"} /\ joined < Size
  /\ join_future[joined] # "none"
  /\ joined' = IF JoinContinues(joined) THEN joined + 1 ELSE Size
  /\ UNCHANGED <<m_instances, runnable, subscribed, m_status, m_remaining_instances,
                 callback, owner, instance_vars>>

\* Mutant of JoinFails: a failure is reported only by the context of rank 0.
FirstFails == join_future[0] = "exception"

\* The first exception caught is rethrown at the end.
JoinFails == \E i \in Instance : join_future[i] = "exception"

\* m_instances is cleared, then the first exception is rethrown: to the caller,
\* or out of the destructor, which ends the process.
JoinEnd ==
  /\ owner \in {"joining", "destroying"} /\ joined = Size
  /\ m_instances' = FALSE
  /\ owner' = IF JoinFails THEN (IF owner = "joining" THEN "join threw" ELSE "terminated")
              ELSE IF owner = "joining" THEN "joined" ELSE "destroyed"
  /\ UNCHANGED <<runnable, subscribed, m_status, m_remaining_instances, callback, joined,
                 instance_vars>>

\* ~Runner: a runner that was not joined is killed and joined.
Destroy ==
  /\ owner \in {"new", "up", "live", "joined", "join threw"}
  /\ IF m_instances
       THEN update_runnable(Kill) /\ owner' = "destroying" /\ joined' = 0
       ELSE owner' = "destroyed" /\ UNCHANGED <<runnable, subscribed, joined>>
  /\ UNCHANGED <<m_instances, m_status, m_remaining_instances, callback, instance_vars>>

-----------------------------------------------------------------------------
(* The task of an instance: RxRunnable::run inside the lambda of enqueue *)

\* Context::init, update_state(Running) and the live promise, then main().
TaskBegin(i) ==
  /\ pc[i] = "launched"
  /\ m_state' = [m_state EXCEPT ![i] = Running]
  /\ live' = [live EXCEPT ![i] = TRUE]
  /\ GoTo(i, "barrier 1")
  /\ UNCHANGED <<m_instances, runnable, subscribed, m_status, m_remaining_instances,
                 callback, owner, joined, failed, thrown, seen, join_future>>

\* Context::barrier: all instances or none.  Behind the second one rank 0 alone
\* runs the critical section, and the others wait for it at the third.
Barrier(b, next) ==
  /\ \A i \in Instance : pc[i] = b
  /\ pc' = next
  /\ UNCHANGED <<m_instances, runnable, subscribed, m_status, m_remaining_instances,
                 callback, owner, joined, m_state, failed, thrown, seen, live, join_future>>

Barriers ==
  \/ Barrier("barrier 1", [i \in Instance |-> "subscribed"])
  \/ Barrier("barrier 2", [i \in Instance |-> IF i = 0 THEN "critical" ELSE "barrier 3"])
  \/ Barrier("barrier 3", [i \in Instance |-> "returned"])

\* Mutant of KillOnFailure: the runner is not killed.
NoKillOnFailure == UNCHANGED <<runnable, subscribed>>

\* Context::set_exception kills the runner, and so all other instances.
KillOnFailure == update_runnable(Kill)

\* The observer of the stream reports an error, the first of this context.
SetException(i) ==
  /\ pc[i] = "subscribed" /\ ~failed[i]
  /\ failed' = [failed EXCEPT ![i] = TRUE]
  /\ KillOnFailure
  /\ UNCHANGED <<m_instances, m_status, m_remaining_instances, callback, owner, joined,
                 m_state, thrown, pc, seen, live, join_future>>

\* subscribe() returns: the stream completed or was unsubscribed.
SubscribeReturns(i) ==
  /\ pc[i] = "subscribed"
  /\ GoTo(i, "barrier 2")
  /\ UNCHANGED <<m_instances, runnable, subscribed, m_status, m_remaining_instances,
                 callback, owner, joined, m_state, failed, thrown, seen, live, join_future>>

\* will_complete, on_shutdown_critical_section and did_complete, by rank 0.
CriticalSection ==
  /\ pc[0] = "critical"
  /\ GoTo(0, "barrier 3")
  /\ UNCHANGED <<m_instances, runnable, subscribed, m_status, m_remaining_instances,
                 callback, owner, joined, m_state, failed, thrown, seen, live, join_future>>

\* A std::exception leaves subscribe() or the critical section: main() catches
\* it, and the instance never comes to the barriers ahead of it.
RunThrows(i) ==
  /\ pc[i] \in {"subscribed", "critical"}
  /\ failed' = [failed EXCEPT ![i] = TRUE]
  /\ thrown' = [thrown EXCEPT ![i] = "std"]
  /\ IF failed[i] THEN UNCHANGED <<runnable, subscribed>> ELSE KillOnFailure
  /\ GoTo(i, "returned")
  /\ UNCHANGED <<m_instances, m_status, m_remaining_instances, callback, owner, joined,
                 m_state, seen, live, join_future>>

\* Anything else passes set_exception, which catches only std::exception: it
\* ends the task at once, with no kill, no further state and no callback.
RunThrowsOther(i) ==
  /\ pc[i] \in {"subscribed", "critical"}
  /\ thrown' = [thrown EXCEPT ![i] = "other"]
  /\ join_future' = [join_future EXCEPT ![i] = "exception"]
  /\ GoTo(i, "done")
  /\ UNCHANGED <<m_instances, runnable, subscribed, m_status, m_remaining_instances,
                 callback, owner, joined, m_state, failed, seen, live>>

\* update_state(Error) if the context failed, then update_state(Completed).
UpdateError(i) ==
  /\ pc[i] = "returned" /\ failed[i]
  /\ m_state' = [m_state EXCEPT ![i] = Error]
  /\ GoTo(i, "error")
  /\ UNCHANGED <<m_instances, runnable, subscribed, m_status, m_remaining_instances,
                 callback, owner, joined, failed, thrown, seen, live, join_future>>

UpdateCompleted(i) ==
  /\ pc[i] = "error" \/ (pc[i] = "returned" /\ ~failed[i])
  /\ m_state' = [m_state EXCEPT ![i] = Completed]
  /\ GoTo(i, "read status")
  /\ UNCHANGED <<m_instances, runnable, subscribed, m_status, m_remaining_instances,
                 callback, owner, joined, failed, thrown, seen, live, join_future>>

\* m_status = m_status && context->status(): a load, then a store.
ReadStatus(i) ==
  /\ pc[i] = "read status"
  /\ seen' = [seen EXCEPT ![i] = m_status]
  /\ GoTo(i, "write status")
  /\ UNCHANGED <<m_instances, runnable, subscribed, m_status, m_remaining_instances,
                 callback, owner, joined, m_state, failed, thrown, live, join_future>>

WriteStatus(i) ==
  /\ pc[i] = "write status"
  /\ m_status' = (seen[i] /\ ~failed[i])
  /\ GoTo(i, "decrement")
  /\ UNCHANGED <<m_instances, runnable, subscribed, m_remaining_instances,
                 callback, owner, joined, m_state, failed, thrown, seen, live, join_future>>

\* Mutant of LastInstance: the new value is compared with one.
LastTwoInstances == m_remaining_instances <= 2

\* --m_remaining_instances == 0
LastInstance == m_remaining_instances = 1

\* The last instance calls the completion callback.
Decrement(i) ==
  /\ pc[i] = "decrement"
  /\ m_remaining_instances' = m_remaining_instances - 1
  /\ callback' = IF LastInstance THEN Append(callback, m_status) ELSE callback
  /\ GoTo(i, "finish")
  /\ UNCHANGED <<m_instances, runnable, subscribed, m_status, owner, joined, m_state,
                 failed, thrown, seen, live, join_future>>

\* Context::finish rethrows the exception into the future of the task.
Finish(i) ==
  /\ pc[i] = "finish"
  /\ join_future' = [join_future EXCEPT ![i] = IF failed[i] THEN "exception" ELSE "value"]
  /\ GoTo(i, "done")
  /\ UNCHANGED <<m_instances, runnable, subscribed, m_status, m_remaining_instances,
                 callback, owner, joined, m_state, failed, thrown, seen, live>>

-----------------------------------------------------------------------------
OwnerStep == \/ Enqueue \/ AwaitLive \/ JoinBegin \/ JoinNext \/ JoinEnd \/ Destroy
             \/ \E i \in Instance : Launch(i)

TaskEnd(i) == \/ TaskBegin(i) \/ UpdateError(i) \/ UpdateCompleted(i) \/ ReadStatus(i)
              \/ WriteStatus(i) \/ Decrement(i) \/ Finish(i)

Next ==
  \/ OwnerStep
  \/ \E s \in {Stop, Kill} : Halt(s)
  \/ \E i \in Instance : TaskEnd(i) \/ SetException(i) \/ SubscribeReturns(i)
                         \/ RunThrows(i) \/ RunThrowsOther(i)
  \/ Barriers
  \/ CriticalSection

Spec == Init /\ [][Next]_vars

\* Engines run their tasks, and a stream that is unsubscribed returns.  A stream
\* need not end by itself, and nobody need call stop, kill or await_join.
Fairness ==
  /\ \A i \in Instance : WF_vars(Launch(i)) /\ WF_vars(TaskEnd(i))
                         /\ WF_vars(SubscribeReturns(i) /\ ~subscribed)
  /\ WF_vars(Barriers) /\ WF_vars(CriticalSection)
  /\ WF_vars(JoinNext) /\ WF_vars(JoinEnd)

FairSpec == Spec /\ Fairness

-----------------------------------------------------------------------------
(* Properties *)

\* Type invariant: m_remaining_instances, a size_t, never goes below zero and an
\* instance is in one of its states.
TypeOK ==
  /\ m_state \in [Instance -> Unqueued .. Completed]
  /\ runnable \in Owned .. Kill
  /\ m_remaining_instances \in 0 .. Size
  /\ callback \in Seq(BOOLEAN)
  /\ joined \in 0 .. Size
  /\ {m_instances, subscribed, m_status} \subseteq BOOLEAN
  /\ failed \in [Instance -> BOOLEAN]

\* update_state finds the instance it updates (CHECK_LT on m_instances.size()):
\* await_join never clears the vector under an instance that is still running.
InstancesOutliveTasks ==
  \A i \in Instance : pc[i] \notin {"none", "done"} => m_instances

\* The completion callback is called once, when every instance has completed, and
\* it is called unless an exception not derived from std::exception ended a task.
CallbackAfterAll ==
  /\ Len(callback) <= 1
  /\ callback # << >> => \A i \in Instance : m_state[i] = Completed
  /\ (\A i \in Instance : pc[i] = "done" /\ thrown[i] # "other") => callback # << >>

\* await_join returns normally only if no instance failed, whichever it was.
JoinReportsFailure ==
  owner = "joined" => \A i \in Instance : ~failed[i] /\ thrown[i] = "no"

\* No exception leaves run(): when one does, the instance does not come to the
\* next barrier and the others wait there for ever.
NothingThrown == \A i \in Instance : thrown[i] = "no"

\* The failure of one instance ends await_join: set_exception kills the runner,
\* and the kill reaches instances that would run for ever.
FailureEndsJoin ==
  []NothingThrown =>
    ((owner = "joining" /\ \E i \in Instance : failed[i]) ~> owner # "joining")

\* A kill ends every instance, also when it comes before enqueue or between the
\* launches of two instances.
KillEndsInstances ==
  []NothingThrown =>
    ((runnable = Kill /\ owner # "new") ~>
      (owner = "destroyed" \/ \A i \in Instance : pc[i] = "done"))

\* The completion callback is given true exactly when all instances finished
\* without error.
CallbackTellsFailure ==
  callback # << >> => callback[1] = \A i \in Instance : ~failed[i]
=============================================================================
