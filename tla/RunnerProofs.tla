---------------------------- MODULE RunnerProofs ----------------------------
(***************************************************************************)
(* The safety of Runner, for any number of instances and either kind of    *)
(* runnable.                                                               *)
(***************************************************************************)
EXTENDS Runner, FiniteSetTheorems, TLAPS

\* The program points of an instance in run(), and behind it.
InRun == {"barrier 1", "subscribed", "barrier 2", "critical", "barrier 3", "returned"}
Status == {"read status", "write status", "decrement", "finish"}

Types ==
  /\ m_state \in [Instance -> Nat] /\ joined \in Nat
  /\ thrown \in [Instance -> {"no", "std", "other"}]
  /\ pc \in [Instance -> {"none", "launched", "error", "done"} \cup InRun \cup Status]
  /\ join_future \in [Instance -> {"none", "value", "exception"}]

Flags == m_instances \in BOOLEAN /\ failed \in [Instance -> BOOLEAN]

\* What the owner knows of the tasks.
OwnerMatches ==
  /\ m_instances <=> (owner \in {"launching", "up", "live", "joining", "destroying"})
  /\ ~m_instances => \A i \in Instance : pc[i] \in {"none", "done"}
  /\ owner \in {"joining", "destroying"} =>
       \A i \in Instance : i < joined => join_future[i] # "none"
  /\ owner = "joined" => \A i \in Instance : join_future[i] = "value"

\* What a task has recorded where it is.
TaskMatchesAt(i) ==
  /\ join_future[i] # "none" <=> pc[i] = "done"
  /\ thrown[i] = "other" => join_future[i] = "exception"
  /\ thrown[i] = "std" => failed[i]
  /\ join_future[i] = "value" => ~failed[i]
  /\ pc[i] \in Status \/ (pc[i] = "done" /\ thrown[i] # "other") => m_state[i] = Completed

TaskMatches == \A i \in Instance : TaskMatchesAt(i)

\* The instances that have not counted down.
Counted == {i \in Instance : pc[i] \notin {"finish", "done"} \/ thrown[i] = "other"}

\* The runner was not enqueued.
Fresh ==
  /\ \A i \in Instance : pc[i] = "none"
  /\ m_remaining_instances = 0 /\ callback = << >>

\* m_remaining_instances is the number of instances still to count down, and the
\* callback was called when it became zero.
Counting ==
  /\ m_remaining_instances = Cardinality(Counted)
  /\ Len(callback) <= 1
  /\ callback = << >> <=> m_remaining_instances # 0

CountMatches ==
  /\ Fresh \/ Counting
  /\ owner = "new" => Fresh
  /\ owner = "launching" => Counting

IInv == Types /\ Flags /\ OwnerMatches /\ TaskMatches /\ CountMatches

-----------------------------------------------------------------------------
(* Counting down *)

\* The instances that count down are finitely many, at most Size.
LEMMA CountedFinite ==
  /\ IsFiniteSet(Counted) /\ Cardinality(Counted) \in 0 .. Size
  /\ Cardinality(Instance) = Size
  <1>1. IsFiniteSet(Instance) /\ Cardinality(Instance) = Size
    BY FS_Interval, RunnerAssumption DEF Instance
  <1>2. Counted \subseteq Instance
    BY Zenon DEF Counted
  <1> QED
    BY <1>1, <1>2, FS_Subset, FS_CardinalityType, RunnerAssumption

\* An instance that counts down is one fewer to go, and none is left if it was the last.
LEMMA CountDown ==
  ASSUME NEW i \in Counted
  PROVE  /\ Cardinality(Counted \ {i}) = Cardinality(Counted) - 1
         /\ Cardinality(Counted) \in Nat \ {0}
  <1>1. Cardinality(Counted \ {i}) = Cardinality(Counted) - 1
    BY CountedFinite, FS_RemoveElement, Zenon
  <1>2. Cardinality(Counted) # 0
    BY CountedFinite, FS_EmptySet, Zenon
  <1> QED
    BY <1>1, <1>2, CountedFinite, RunnerAssumption

\* The arguments of the callback when it was called once.
LEMMA OneCall == ASSUME NEW x PROVE Len(<<x>>) = 1 /\ <<x>> # << >>
  BY Zenon

\* There is an instance of rank 0.
LEMMA RankZero == 0 \in Instance
  BY RunnerAssumption DEF Instance

-----------------------------------------------------------------------------
(* One lemma per action: the invariant is kept. *)

\* The owner enqueues: all instances are to count down.
LEMMA EnqueueKeepsInv == ASSUME IInv, Enqueue PROVE IInv'
  <1> USE DEF IInv, InRun, Status, TaskMatchesAt, Enqueue, update_runnable, RemainingInstances
  <1>1. Types'
    BY RunnerAssumption, Zenon DEF Types, Unqueued, Queued, Running, Error, Completed
  <1>2. Flags'
    BY Zenon DEF Flags, CountMatches, Fresh
  <1>3. OwnerMatches'
    BY Zenon DEF Types, Flags, OwnerMatches, TaskMatches, CountMatches, Fresh
  <1>4. TaskMatches'
    BY Zenon DEF Types, Flags, TaskMatches, CountMatches, Fresh
  <1>5. CountMatches'
    <2>1. Fresh /\ Counted' = Instance
      BY Zenon DEF CountMatches, Fresh, Counted
    <2>2. Counting'
      BY <2>1, CountedFinite, RunnerAssumption DEF Counting, Fresh
    <2> QED
      BY <2>2, Zenon DEF CountMatches
  <1> QED
    BY <1>1, <1>2, <1>3, <1>4, <1>5, Zenon

\* The owner launches the task of an instance.
LEMMA LaunchKeepsInv == ASSUME IInv, NEW i \in Instance, Launch(i) PROVE IInv'
  <1> USE DEF IInv, InRun, Status, TaskMatchesAt, Launch, GoTo
  <1>1. Types'
    BY RunnerAssumption, Zenon DEF Types, Unqueued, Queued, Running, Error, Completed
  <1>2. OwnerMatches'
    BY Zenon DEF Types, Flags, OwnerMatches, TaskMatches
  <1>3. TaskMatches'
    BY Zenon DEF Types, Flags, TaskMatches
  <1>4. CountMatches'
    <2>1. Counted' = Counted
      BY Zenon DEF Types, Counted
    <2> QED
      BY <2>1, Zenon DEF CountMatches, Counting, Fresh
  <1>5. Flags'
    BY Zenon DEF Flags
  <1> QED
    BY <1>1, <1>2, <1>3, <1>4, <1>5, Zenon

\* A stop or a kill from any thread.
LEMMA HaltKeepsInv == ASSUME IInv, NEW s \in {Stop, Kill}, Halt(s) PROVE IInv'
  <1> USE DEF IInv, InRun, Status, TaskMatchesAt, Halt, update_runnable, instance_vars
  <1>1. (Types /\ Flags /\ OwnerMatches /\ TaskMatches /\ CountMatches)'
    BY ZenonT(30) DEF Types, Flags, OwnerMatches, TaskMatches, CountMatches, Counting, Counted, Fresh
  <1> QED
    BY <1>1, Zenon

\* The owner has waited for all instances to be live.
LEMMA AwaitLiveKeepsInv == ASSUME IInv, AwaitLive PROVE IInv'
  <1> USE DEF IInv, InRun, Status, TaskMatchesAt, AwaitLive, instance_vars
  <1>1. OwnerMatches'
    BY Zenon DEF Types, Flags, OwnerMatches, TaskMatches
  <1>2. CountMatches'
    <2>1. Counted' = Counted
      BY Zenon DEF Types, Counted
    <2> QED
      BY <2>1, Zenon DEF CountMatches, Counting, Fresh
  <1>3. (Types /\ Flags /\ TaskMatches)'
    BY Zenon DEF Types, Flags, TaskMatches
  <1> QED
    BY <1>1, <1>2, <1>3, Zenon

\* The join begins.
LEMMA JoinBeginKeepsInv == ASSUME IInv, JoinBegin PROVE IInv'
  <1> USE DEF IInv, InRun, Status, TaskMatchesAt, JoinBegin, instance_vars
  <1>1. Types'
    BY RunnerAssumption, Zenon DEF Types, Unqueued, Queued, Running, Error, Completed
  <1>2. OwnerMatches'
    <2>1. \A i \in Instance : ~(i < joined')
      BY DEF Instance
    <2> QED
      BY <2>1, Zenon DEF Flags, OwnerMatches
  <1>3. CountMatches'
    <2>1. Counted' = Counted
      BY Zenon DEF Types, Counted
    <2> QED
      BY <2>1, Zenon DEF CountMatches, Counting, Fresh
  <1>4. (Flags /\ TaskMatches)'
    BY Zenon DEF Flags, TaskMatches
  <1> QED
    BY <1>1, <1>2, <1>3, <1>4, Zenon

\* The join has waited for one more instance.
LEMMA JoinNextKeepsInv == ASSUME IInv, JoinNext PROVE IInv'
  <1> USE DEF IInv, InRun, Status, TaskMatchesAt, JoinNext, JoinContinues, instance_vars
  <1>1. Types'
    <2>1. joined' \in Nat
      <3>1. joined' = joined + 1 /\ joined \in Nat
        BY Zenon DEF Types
      <3> HIDE DEF JoinNext
      <3> QED
        BY <3>1
    <2>2. UNCHANGED instance_vars
      BY Zenon
    <2> HIDE DEF JoinNext
    <2> QED
      BY <2>1, <2>2, Zenon DEF Types
  <1>2. OwnerMatches'
    <2>1. joined' = joined + 1 /\ joined \in Nat
      BY Zenon DEF Types
    <2>2. \A i \in Instance : i < joined' => i < joined \/ i = joined
      <3> HIDE DEF JoinNext
      <3> QED
        BY <2>1, RunnerAssumption DEF Instance
    <2>3. \A i \in Instance : i < joined' => join_future[i] # "none"
      BY <2>2, Zenon DEF OwnerMatches
    <2> QED
      BY <2>3, Zenon DEF Flags, OwnerMatches
  <1>3. (Flags /\ TaskMatches /\ CountMatches)'
    BY Zenon DEF Flags, TaskMatches, CountMatches, Counting, Counted, Fresh
  <1> QED
    BY <1>1, <1>2, <1>3, Zenon

\* The join returns or throws: it has waited for all instances.
LEMMA JoinEndKeepsInv == ASSUME IInv, JoinEnd PROVE IInv'
  <1> USE DEF IInv, InRun, Status, TaskMatchesAt, JoinEnd, JoinFails, instance_vars
  <1>1. Flags'
    BY RunnerAssumption, Zenon DEF Flags
  <1>2. OwnerMatches'
    <2>1. \A i \in Instance : i < joined
      <3>1. joined = Size
        BY Zenon
      <3> HIDE DEF JoinEnd
      <3> QED
        BY <3>1, RunnerAssumption DEF Instance
    <2>2. \A i \in Instance : join_future[i] # "none" /\ pc[i] = "done"
      BY <2>1, Zenon DEF OwnerMatches, TaskMatches
    <2>3. owner' = "joined" => \A i \in Instance : join_future[i] = "value"
      BY <2>2, Zenon DEF Types
    <2>4. /\ owner' \in {"joined", "join threw", "destroyed", "terminated"}
          /\ m_instances' = FALSE /\ UNCHANGED instance_vars
      BY Zenon
    <2> HIDE DEF JoinEnd
    <2>5. (m_instances <=> (owner \in {"launching", "up", "live", "joining", "destroying"}))'
      <3>1. ~(owner \in {"launching", "up", "live", "joining", "destroying"})'
        BY <2>4, Zenon
      <3>2. m_instances' = FALSE
        BY <2>4, Zenon
      <3> QED
        BY <3>1, <3>2, Zenon
    <2>6. (\A i \in Instance : pc[i] \in {"none", "done"})'
      BY <2>2, <2>4, Zenon
    <2>7. (owner = "joined" => \A i \in Instance : join_future[i] = "value")'
      BY <2>3, <2>4, Zenon
    <2> QED
      BY <2>4, <2>5, <2>6, <2>7, Zenon DEF OwnerMatches
  <1>3. CountMatches'
    <2>1. Counted' = Counted
      BY Zenon DEF Types, Counted
    <2> QED
      BY <2>1, Zenon DEF CountMatches, Counting, Fresh
  <1>4. (Types /\ TaskMatches)'
    BY Zenon DEF Types, TaskMatches
  <1> QED
    BY <1>1, <1>2, <1>3, <1>4, Zenon

\* The destructor begins.
LEMMA DestroyKeepsInv == ASSUME IInv, Destroy PROVE IInv'
  <1> USE DEF IInv, InRun, Status, TaskMatchesAt, Destroy, instance_vars
  <1>1. \/ m_instances /\ owner' = "destroying" /\ joined' = 0
        \/ ~m_instances /\ owner' = "destroyed" /\ joined' = joined
    BY Zenon
  <1>2. UNCHANGED <<m_instances, m_remaining_instances, callback, instance_vars>>
    BY Zenon
  <1> HIDE DEF Destroy
  <1>3. Types'
    <2>1. joined' \in Nat
      <3>1. joined' = 0 \/ joined' = joined
        BY <1>1, Zenon
      <3>2. joined \in Nat
        BY Zenon DEF Types
      <3> QED
        BY <3>1, <3>2
    <2> QED
      BY <1>2, <2>1, Zenon DEF Types
  <1>4. OwnerMatches'
    <2>1. CASE m_instances
      <3>1. \A i \in Instance : ~(i < joined')
        BY <1>1, <2>1 DEF Instance
      <3> QED
        BY <1>1, <1>2, <2>1, <3>1, Zenon DEF Flags, OwnerMatches
    <2>2. CASE ~m_instances
      <3>1. ~(owner \in {"launching", "up", "live", "joining", "destroying"})'
        BY <1>1, <2>2, Zenon
      <3>2. (m_instances <=> (owner \in {"launching", "up", "live", "joining", "destroying"}))'
        BY <1>2, <2>2, <3>1, Zenon DEF Flags
      <3>3. owner' = "destroyed"
        BY <1>1, <2>2, Zenon
      <3>4. (\A i \in Instance : pc[i] \in {"none", "done"})'
        BY <1>2, <2>2, Zenon DEF OwnerMatches
      <3> QED
        BY <3>2, <3>3, <3>4, Zenon DEF OwnerMatches
    <2> QED
      BY <2>1, <2>2, Zenon
  <1>5. CountMatches'
    <2>1. Counted' = Counted
      BY <1>2, Zenon DEF Types, Counted
    <2> QED
      BY <1>1, <1>2, <2>1, Zenon DEF CountMatches, Counting, Fresh
  <1>6. (Flags /\ TaskMatches)'
    BY <1>2, Zenon DEF Flags, TaskMatches
  <1> QED
    BY <1>3, <1>4, <1>5, <1>6, Zenon

\* A task begins.
LEMMA TaskBeginKeepsInv == ASSUME IInv, NEW i \in Instance, TaskBegin(i) PROVE IInv'
  <1> USE DEF IInv, InRun, Status, TaskMatchesAt, TaskBegin, GoTo
  <1>1. Types'
    BY RunnerAssumption, Zenon DEF Types, Unqueued, Queued, Running, Error, Completed
  <1>2. OwnerMatches'
    BY Zenon DEF Types, Flags, OwnerMatches, TaskMatches
  <1>3. TaskMatches'
    BY Zenon DEF Types, Flags, TaskMatches
  <1>4. CountMatches'
    <2>1. Counting /\ owner # "new"
      BY Zenon DEF CountMatches, Fresh
    <2>2. Counted' = Counted
      BY Zenon DEF Types, TaskMatches, Counted
    <2> QED
      BY <2>1, <2>2, Zenon DEF CountMatches, Counting
  <1>5. Flags'
    BY Zenon DEF Flags
  <1> QED
    BY <1>1, <1>2, <1>3, <1>4, <1>5, Zenon

\* All instances pass a barrier.
LEMMA BarriersKeepsInv == ASSUME IInv, Barriers PROVE IInv'
  <1> USE DEF IInv, InRun, Status, TaskMatchesAt, Barriers, Barrier
  <1>1. /\ \A i \in Instance : pc[i] \in InRun
        /\ pc' \in [Instance -> InRun]
    <2>1. CASE Barrier("barrier 1", [i \in Instance |-> "subscribed"])
      BY <2>1, Zenon
    <2>2. CASE Barrier("barrier 2", [i \in Instance |-> IF i = 0 THEN "critical" ELSE "barrier 3"])
      BY <2>2, Zenon
    <2>3. CASE Barrier("barrier 3", [i \in Instance |-> "returned"])
      BY <2>3, Zenon
    <2> QED
      BY <2>1, <2>2, <2>3, Zenon
  <1>2. UNCHANGED <<m_instances, m_remaining_instances, callback, owner, joined, m_state,
                    failed, thrown, join_future>>
    BY Zenon
  <1> HIDE DEF Barriers, Barrier
  <1>3. Types'
    BY <1>1, <1>2, Zenon DEF Types
  <1>4. OwnerMatches'
    BY <1>1, <1>2, RankZero, Zenon DEF Flags, OwnerMatches
  <1>5. TaskMatches'
    BY <1>1, <1>2, Zenon DEF TaskMatches
  <1>6. CountMatches'
    <2>1. Counting /\ owner # "new"
      BY <1>1, RankZero, Zenon DEF CountMatches, Fresh
    <2>2. Counted' = Counted
      BY <1>1, <1>2, Zenon DEF TaskMatches, Counted
    <2> QED
      BY <1>2, <2>1, <2>2, Zenon DEF CountMatches, Counting
  <1>7. Flags'
    BY <1>2, Zenon DEF Flags
  <1> QED
    BY <1>3, <1>4, <1>5, <1>6, <1>7, Zenon

\* An observer reports an error.
LEMMA SetExceptionKeepsInv == ASSUME IInv, NEW i \in Instance, SetException(i) PROVE IInv'
  <1> USE DEF IInv, InRun, Status, TaskMatchesAt, SetException, KillOnFailure, update_runnable
  <1>1. Flags'
    BY Zenon DEF Flags
  <1>2. TaskMatches'
    BY ZenonT(30) DEF Types, Flags, TaskMatches
  <1>3. (Types /\ OwnerMatches /\ CountMatches)'
    BY Zenon DEF Types, OwnerMatches, CountMatches, Counting, Counted, Fresh
  <1> QED
    BY <1>1, <1>2, <1>3, Zenon

\* subscribe() returns.
LEMMA SubscribeReturnsKeepsInv == ASSUME IInv, NEW i \in Instance, SubscribeReturns(i) PROVE IInv'
  <1> USE DEF IInv, InRun, Status, TaskMatchesAt, SubscribeReturns, GoTo
  <1>1. Types'
    BY RunnerAssumption, Zenon DEF Types, Unqueued, Queued, Running, Error, Completed
  <1>2. OwnerMatches'
    BY Zenon DEF Types, Flags, OwnerMatches, TaskMatches
  <1>3. TaskMatches'
    BY Zenon DEF Types, Flags, TaskMatches
  <1>4. CountMatches'
    <2>1. Counting /\ owner # "new"
      BY Zenon DEF CountMatches, Fresh
    <2>2. Counted' = Counted
      BY Zenon DEF Types, TaskMatches, Counted
    <2> QED
      BY <2>1, <2>2, Zenon DEF CountMatches, Counting
  <1>5. Flags'
    BY Zenon DEF Flags
  <1> QED
    BY <1>1, <1>2, <1>3, <1>4, <1>5, Zenon

\* Rank 0 leaves the critical section.
LEMMA CriticalSectionKeepsInv == ASSUME IInv, CriticalSection PROVE IInv'
  <1> USE DEF IInv, InRun, Status, TaskMatchesAt, CriticalSection, GoTo
  <1>1. Types'
    BY RunnerAssumption, Zenon DEF Types, Unqueued, Queued, Running, Error, Completed
  <1>2. OwnerMatches'
    BY RunnerAssumption, Zenon DEF Types, Flags, OwnerMatches, TaskMatches, Instance
  <1>3. TaskMatches'
    BY RunnerAssumption, Zenon DEF Types, Flags, TaskMatches, Instance
  <1>4. CountMatches'
    <2>1. Counting /\ owner # "new"
      BY RankZero, Zenon DEF CountMatches, Fresh
    <2>2. Counted' = Counted
      BY Zenon DEF Types, TaskMatches, Counted
    <2> QED
      BY <2>1, <2>2, Zenon DEF CountMatches, Counting
  <1>5. Flags'
    BY Zenon DEF Flags
  <1> QED
    BY <1>1, <1>2, <1>3, <1>4, <1>5, Zenon

\* A std::exception leaves run().
LEMMA RunThrowsKeepsInv == ASSUME IInv, NEW i \in Instance, RunThrows(i) PROVE IInv'
  <1> USE DEF IInv, InRun, Status, TaskMatchesAt, RunThrows, KillOnFailure, update_runnable, GoTo
  <1>1. Types'
    BY RunnerAssumption, Zenon DEF Types, Unqueued, Queued, Running, Error, Completed
  <1>2. Flags'
    BY Zenon DEF Flags
  <1>3. OwnerMatches'
    BY Zenon DEF Types, Flags, OwnerMatches, TaskMatches
  <1>4. TaskMatches'
    BY ZenonT(30) DEF Types, Flags, TaskMatches
  <1>5. CountMatches'
    <2>1. Counting /\ owner # "new"
      BY Zenon DEF CountMatches, Fresh
    <2>2. Counted' = Counted
      BY Zenon DEF Types, TaskMatches, Counted
    <2> QED
      BY <2>1, <2>2, Zenon DEF CountMatches, Counting
  <1> QED
    BY <1>1, <1>2, <1>3, <1>4, <1>5, Zenon

\* Another exception leaves run() and ends the task: it will not count down.
LEMMA RunThrowsOtherKeepsInv == ASSUME IInv, NEW i \in Instance, RunThrowsOther(i) PROVE IInv'
  <1> USE DEF IInv, InRun, Status, TaskMatchesAt, RunThrowsOther, GoTo
  <1>1. Types'
    BY RunnerAssumption, Zenon DEF Types, Unqueued, Queued, Running, Error, Completed
  <1>2. OwnerMatches'
    BY Zenon DEF Types, Flags, OwnerMatches, TaskMatches
  <1>3. TaskMatches'
    BY ZenonT(30) DEF Types, Flags, TaskMatches
  <1>4. CountMatches'
    <2>1. Counting /\ owner # "new"
      BY Zenon DEF CountMatches, Fresh
    <2>2. Counted' = Counted
      BY Zenon DEF Types, TaskMatches, Counted
    <2> QED
      BY <2>1, <2>2, Zenon DEF CountMatches, Counting
  <1>5. Flags'
    BY Zenon DEF Flags
  <1> QED
    BY <1>1, <1>2, <1>3, <1>4, <1>5, Zenon

\* The state of a failed instance is set to Error.
LEMMA UpdateErrorKeepsInv == ASSUME IInv, NEW i \in Instance, UpdateError(i) PROVE IInv'
  <1> USE DEF IInv, InRun, Status, TaskMatchesAt, UpdateError, GoTo
  <1>1. Types'
    BY RunnerAssumption, Zenon DEF Types, Unqueued, Queued, Running, Error, Completed
  <1>2. OwnerMatches'
    BY Zenon DEF Types, Flags, OwnerMatches, TaskMatches
  <1>3. TaskMatches'
    BY Zenon DEF Types, Flags, TaskMatches
  <1>4. CountMatches'
    <2>1. Counting /\ owner # "new"
      BY Zenon DEF CountMatches, Fresh
    <2>2. Counted' = Counted
      BY Zenon DEF Types, TaskMatches, Counted
    <2> QED
      BY <2>1, <2>2, Zenon DEF CountMatches, Counting
  <1>5. Flags'
    BY Zenon DEF Flags
  <1> QED
    BY <1>1, <1>2, <1>3, <1>4, <1>5, Zenon

\* The state of an instance is set to Completed.
LEMMA UpdateCompletedKeepsInv == ASSUME IInv, NEW i \in Instance, UpdateCompleted(i) PROVE IInv'
  <1> USE DEF IInv, InRun, Status, TaskMatchesAt, UpdateCompleted, GoTo
  <1>1. Types'
    BY RunnerAssumption, Zenon DEF Types, Unqueued, Queued, Running, Error, Completed
  <1>2. OwnerMatches'
    BY Zenon DEF Types, Flags, OwnerMatches, TaskMatches
  <1>3. TaskMatches'
    BY Zenon DEF Types, Flags, TaskMatches
  <1>4. CountMatches'
    <2>1. Counting /\ owner # "new"
      BY Zenon DEF CountMatches, Fresh
    <2>2. Counted' = Counted
      BY Zenon DEF Types, TaskMatches, Counted
    <2> QED
      BY <2>1, <2>2, Zenon DEF CountMatches, Counting
  <1>5. Flags'
    BY Zenon DEF Flags
  <1> QED
    BY <1>1, <1>2, <1>3, <1>4, <1>5, Zenon

\* m_status is loaded.
LEMMA ReadStatusKeepsInv == ASSUME IInv, NEW i \in Instance, ReadStatus(i) PROVE IInv'
  <1> USE DEF IInv, InRun, Status, TaskMatchesAt, ReadStatus, GoTo
  <1>1. Types'
    BY RunnerAssumption, Zenon DEF Types, Unqueued, Queued, Running, Error, Completed
  <1>2. OwnerMatches'
    BY Zenon DEF Types, Flags, OwnerMatches, TaskMatches
  <1>3. TaskMatches'
    BY Zenon DEF Types, Flags, TaskMatches
  <1>4. CountMatches'
    <2>1. Counting /\ owner # "new"
      BY Zenon DEF CountMatches, Fresh
    <2>2. Counted' = Counted
      BY Zenon DEF Types, TaskMatches, Counted
    <2> QED
      BY <2>1, <2>2, Zenon DEF CountMatches, Counting
  <1>5. Flags'
    BY Zenon DEF Flags
  <1> QED
    BY <1>1, <1>2, <1>3, <1>4, <1>5, Zenon

\* m_status is stored.
LEMMA WriteStatusKeepsInv == ASSUME IInv, NEW i \in Instance, WriteStatus(i) PROVE IInv'
  <1> USE DEF IInv, InRun, Status, TaskMatchesAt, WriteStatus, GoTo
  <1>1. Types'
    BY RunnerAssumption, Zenon DEF Types, Unqueued, Queued, Running, Error, Completed
  <1>2. OwnerMatches'
    BY Zenon DEF Types, Flags, OwnerMatches, TaskMatches
  <1>3. TaskMatches'
    BY ZenonT(30) DEF Types, Flags, TaskMatches
  <1>4. CountMatches'
    <2>1. Counting /\ owner # "new"
      BY Zenon DEF CountMatches, Fresh
    <2>2. Counted' = Counted
      BY Zenon DEF Types, TaskMatches, Counted
    <2> QED
      BY <2>1, <2>2, ZenonT(30) DEF CountMatches, Counting
  <1>5. Flags'
    BY Zenon DEF Flags
  <1> QED
    BY <1>1, <1>2, <1>3, <1>4, <1>5, Zenon

\* An instance counts down, and the last one calls the callback.
LEMMA DecrementKeepsInv == ASSUME IInv, NEW i \in Instance, Decrement(i) PROVE IInv'
  <1> USE DEF IInv, InRun, Status, TaskMatchesAt, Decrement, LastInstance, GoTo
  <1>1. Types'
    BY RunnerAssumption, Zenon DEF Types, Unqueued, Queued, Running, Error, Completed
  <1>2. OwnerMatches'
    BY Zenon DEF Types, Flags, OwnerMatches, TaskMatches
  <1>3. TaskMatches'
    BY Zenon DEF Types, Flags, TaskMatches
  <1>4. CountMatches'
    <2>1. Counting /\ owner # "new"
      BY Zenon DEF CountMatches, Fresh
    <2>2. i \in Counted /\ Counted' = Counted \ {i}
      BY Zenon DEF Types, TaskMatches, Counted
    <2>3. m_remaining_instances' = Cardinality(Counted')
      BY <2>1, <2>2, CountDown, Zenon DEF Counting
    <2>4. Len(callback') <= 1 /\ (callback' = << >> <=> m_remaining_instances' # 0)
      <3>1. callback = << >> /\ Cardinality(Counted) \in Nat \ {0}
        BY <2>1, <2>2, CountDown, Zenon DEF Counting
      <3>2. CASE m_remaining_instances = 1
        <4>1. callback' = << m_status >>
          BY <3>1, <3>2
        <4>2. Len(callback') = 1 /\ callback' # << >>
          BY <4>1, OneCall, Zenon
        <4> QED
          BY <3>2, <4>2, <2>1 DEF Counting
      <3>3. CASE m_remaining_instances # 1
        BY <3>1, <3>3, <2>1 DEF Counting
      <3> QED
        BY <3>2, <3>3, Zenon
    <2> QED
      BY <2>1, <2>3, <2>4, Zenon DEF CountMatches, Counting
  <1>5. Flags'
    BY Zenon DEF Flags
  <1> QED
    BY <1>1, <1>2, <1>3, <1>4, <1>5, Zenon

\* The future of the task is set.
LEMMA FinishKeepsInv == ASSUME IInv, NEW i \in Instance, Finish(i) PROVE IInv'
  <1> USE DEF IInv, InRun, Status, TaskMatchesAt, Finish, GoTo
  <1>1. Types'
    BY RunnerAssumption, Zenon DEF Types, Unqueued, Queued, Running, Error, Completed
  <1>2. OwnerMatches'
    BY Zenon DEF Types, Flags, OwnerMatches, TaskMatches
  <1>3. TaskMatches'
    <2> SUFFICES ASSUME NEW j \in Instance PROVE TaskMatchesAt(j)'
      BY Zenon DEF TaskMatches
    <2>1. CASE j # i
      BY <2>1, Zenon DEF Types, TaskMatches
    <2>2. CASE j = i
      BY <2>2, ZenonT(30) DEF Types, TaskMatches
    <2> QED
      BY <2>1, <2>2, Zenon
  <1>4. CountMatches'
    <2>1. Counting /\ owner # "new"
      BY Zenon DEF CountMatches, Fresh
    <2>2. Counted' = Counted
      BY Zenon DEF Types, TaskMatches, Counted
    <2> QED
      BY <2>1, <2>2, Zenon DEF CountMatches, Counting
  <1>5. Flags'
    BY Zenon DEF Flags
  <1> QED
    BY <1>1, <1>2, <1>3, <1>4, <1>5, Zenon

-----------------------------------------------------------------------------
(* The invariant *)

\* A runner that was not enqueued satisfies it.
LEMMA InitIInv == ASSUME Init PROVE IInv
  <1> USE DEF Init, InRun, Status, TaskMatchesAt
  <1>1. Types
    BY Zenon DEF Types, Unqueued
  <1>2. Flags
    BY Zenon DEF Flags
  <1>3. OwnerMatches
    BY Zenon DEF OwnerMatches
  <1>4. TaskMatches
    BY Zenon DEF TaskMatches
  <1>5. CountMatches
    BY Zenon DEF CountMatches, Fresh
  <1> QED
    BY <1>1, <1>2, <1>3, <1>4, <1>5, Zenon DEF IInv

\* Every step of the owner, of a task or of a thread that stops the runner keeps it.
LEMMA StepKeepsInv == ASSUME IInv, [Next]_vars PROVE IInv'
  <1>1. CASE OwnerStep
    BY <1>1, EnqueueKeepsInv, AwaitLiveKeepsInv, JoinBeginKeepsInv, JoinNextKeepsInv,
       JoinEndKeepsInv, DestroyKeepsInv, LaunchKeepsInv, Zenon DEF OwnerStep
  <1>2. CASE \E s \in {Stop, Kill} : Halt(s)
    BY <1>2, HaltKeepsInv, Zenon
  <1>3. CASE \E i \in Instance : TaskEnd(i)
    BY <1>3, TaskBeginKeepsInv, UpdateErrorKeepsInv, UpdateCompletedKeepsInv,
       ReadStatusKeepsInv, WriteStatusKeepsInv, DecrementKeepsInv, FinishKeepsInv, Zenon DEF TaskEnd
  <1>4. CASE \E i \in Instance : SetException(i) \/ SubscribeReturns(i) \/ RunThrows(i)
                                 \/ RunThrowsOther(i)
    BY <1>4, SetExceptionKeepsInv, SubscribeReturnsKeepsInv, RunThrowsKeepsInv,
       RunThrowsOtherKeepsInv, Zenon
  <1>5. CASE Barriers
    BY <1>5, BarriersKeepsInv, Zenon
  <1>6. CASE CriticalSection
    BY <1>6, CriticalSectionKeepsInv, Zenon
  <1>7. CASE UNCHANGED vars
    BY <1>7 DEF vars, instance_vars, IInv, Types, Flags, OwnerMatches, TaskMatches,
       TaskMatchesAt, CountMatches, Counting, Counted, Fresh
  <1> QED
    BY <1>1, <1>2, <1>3, <1>4, <1>5, <1>6, <1>7, Zenon DEF Next

\* The invariant holds for any number of instances, whatever they throw and
\* whoever stops, joins or destroys the runner meanwhile.
THEOREM Invariance == Spec => []IInv
  <1>1. Init => IInv
    BY InitIInv, Zenon
  <1>2. IInv /\ [Next]_vars => IInv'
    BY StepKeepsInv, Zenon
  <1> QED
    BY <1>1, <1>2, PTL DEF Spec

-----------------------------------------------------------------------------
(* The properties *)

\* await_join and the destructor never clear m_instances under a task that will
\* still call update_state on it.
THEOREM InstancesKept == Spec => []InstancesOutliveTasks
  <1>1. IInv => InstancesOutliveTasks
    BY Zenon DEF IInv, OwnerMatches, InstancesOutliveTasks
  <1> QED
    BY <1>1, Invariance, PTL

\* The completion callback is called at most once, not before every instance has
\* completed, and at the latest with the last one that counts down.
THEOREM CallbackOnce == Spec => []CallbackAfterAll
  <1>1. IInv => CallbackAfterAll
    <2> SUFFICES ASSUME IInv PROVE CallbackAfterAll
      BY Zenon
    <2>1. CASE Fresh
      <3>1. callback = << >> /\ Len(callback) <= 1
        BY <2>1 DEF Fresh
      <3>2. ~(\A i \in Instance : pc[i] = "done" /\ thrown[i] # "other")
        BY <2>1, RankZero, Zenon DEF Fresh
      <3> QED
        BY <3>1, <3>2, Zenon DEF CallbackAfterAll
    <2>2. CASE Counting
      <3>1. Len(callback) <= 1 /\ (callback = << >> <=> Counted # {})
        BY <2>2, CountedFinite, FS_EmptySet, Zenon DEF Counting
      <3>2. Counted = {} => \A i \in Instance : m_state[i] = Completed
        BY Zenon DEF IInv, TaskMatches, TaskMatchesAt, Counted, Status
      <3>3. (\A i \in Instance : pc[i] = "done" /\ thrown[i] # "other") => Counted = {}
        BY Zenon DEF Counted
      <3> QED
        BY <3>1, <3>2, <3>3, Zenon DEF CallbackAfterAll
    <2> QED
      BY <2>1, <2>2, Zenon DEF IInv, CountMatches
  <1> QED
    BY <1>1, Invariance, PTL

\* await_join returns normally only if no instance failed or threw.
THEOREM JoinReports == Spec => []JoinReportsFailure
  <1>1. IInv => JoinReportsFailure
    <2> SUFFICES ASSUME IInv, owner = "joined", NEW i \in Instance
                 PROVE  ~failed[i] /\ thrown[i] = "no"
      BY Zenon DEF JoinReportsFailure
    <2>1. join_future[i] = "value" /\ ~failed[i]
      BY Zenon DEF IInv, OwnerMatches, TaskMatches, TaskMatchesAt
    <2>2. thrown[i] \in {"no", "std", "other"}
      BY Zenon DEF IInv, Types
    <2>3. thrown[i] # "std" /\ thrown[i] # "other"
      BY <2>1, Zenon DEF IInv, TaskMatches, TaskMatchesAt
    <2> QED
      BY <2>1, <2>2, <2>3, Zenon
  <1> QED
    BY <1>1, Invariance, PTL
-----------------------------------------------------------------------------
(* The type invariant *)

\* What a step leaves typed, beside what IInv says: the futures that await_join has
\* waited for are counted to Size, and only an instance that is the last calls back.
Typed ==
  /\ m_state \in [Instance -> Unqueued .. Completed] /\ runnable \in Owned .. Kill
  /\ joined \in 0 .. Size /\ callback \in Seq(BOOLEAN)
  /\ subscribed \in BOOLEAN /\ m_status \in BOOLEAN /\ seen \in [Instance -> BOOLEAN]

\* Runnable::update_state keeps to the states of a runnable.
LEMMA UpdateTyped ==
  ASSUME Typed, NEW s \in {Run, Stop, Kill}, update_runnable(s)
  PROVE  runnable' \in Owned .. Kill /\ subscribed' \in BOOLEAN
  <1>1. runnable' \in Owned .. Kill
    BY DEF Typed, update_runnable, Owned, Run, Stop, Kill
  <1>2. subscribed' \in BOOLEAN
    BY Zenon DEF update_runnable
  <1> QED
    BY <1>1, <1>2, Zenon

\* A step of the owner, or a stop or kill.
LEMMA OwnerTyped ==
  ASSUME Typed, OwnerStep \/ \E s \in {Stop, Kill} : Halt(s)
  PROVE  Typed'
  <1>1. /\ UNCHANGED <<callback, m_status, seen>>
        /\ UNCHANGED m_state \/ m_state' = [i \in Instance |-> Queued]
    BY Zenon DEF OwnerStep, Enqueue, Launch, AwaitLive, JoinBegin, JoinNext, JoinEnd, Destroy, Halt,
           instance_vars
  <1>2. m_state' \in [Instance -> Unqueued .. Completed]
    BY <1>1 DEF Typed, Unqueued, Queued, Completed
  <1>3. UNCHANGED <<runnable, subscribed>> \/ \E s \in {Run, Stop, Kill} : update_runnable(s)
    BY Zenon DEF OwnerStep, Enqueue, Launch, AwaitLive, JoinBegin, JoinNext, JoinEnd, Destroy, Halt
  <1>4. runnable' \in Owned .. Kill /\ subscribed' \in BOOLEAN
    BY <1>3, UpdateTyped, Zenon DEF Typed
  <1>5. \/ UNCHANGED joined \/ joined' = 0 \/ joined' = Size
        \/ joined < Size /\ joined' = joined + 1
    BY Zenon DEF OwnerStep, Enqueue, Launch, AwaitLive, JoinBegin, JoinNext, JoinEnd, Destroy, Halt
  <1>6. joined' \in 0 .. Size
    BY <1>5, RunnerAssumption DEF Typed
  <1> QED
    BY <1>1, <1>2, <1>4, <1>6, Zenon DEF Typed

\* A step of an instance that fails.
LEMMA FailureTyped ==
  ASSUME Typed, NEW i \in Instance, SetException(i) \/ RunThrows(i)
  PROVE  Typed'
  <1>1. UNCHANGED <<m_state, joined, callback, m_status, seen>>
    BY Zenon DEF SetException, RunThrows
  <1>2. UNCHANGED <<runnable, subscribed>> \/ update_runnable(Kill)
    BY Zenon DEF SetException, RunThrows, KillOnFailure
  <1>3. runnable' \in Owned .. Kill /\ subscribed' \in BOOLEAN
    BY <1>2, UpdateTyped, Zenon DEF Typed
  <1> QED
    BY <1>1, <1>3, Zenon DEF Typed

\* Another step of an instance.
LEMMA TaskTyped ==
  ASSUME Typed, NEW i \in Instance,
         TaskEnd(i) \/ SubscribeReturns(i) \/ RunThrowsOther(i) \/ Barriers \/ CriticalSection
  PROVE  Typed'
  <1> USE DEF TaskEnd, TaskBegin, UpdateError, UpdateCompleted, ReadStatus, WriteStatus, Decrement,
              Finish, SubscribeReturns, RunThrowsOther, Barriers, Barrier, CriticalSection
  <1>1. UNCHANGED <<runnable, subscribed, joined>>
    BY Zenon
  <1>2. \/ UNCHANGED m_state
        \/ \E s \in {Running, Error, Completed} : m_state' = [m_state EXCEPT ![i] = s]
    BY Zenon
  <1>3. UNCHANGED m_status \/ m_status' = (seen[i] /\ ~failed[i])
    BY Zenon
  <1>4. UNCHANGED seen \/ seen' = [seen EXCEPT ![i] = m_status]
    BY Zenon
  <1>5. UNCHANGED callback \/ callback' = Append(callback, m_status)
    BY Zenon
  <1> HIDE DEF TaskEnd, SubscribeReturns, RunThrowsOther, Barriers, CriticalSection
  <1>6. m_state' \in [Instance -> Unqueued .. Completed]
    BY <1>2 DEF Typed, Unqueued, Running, Error, Completed
  <1>7. m_status' \in BOOLEAN
    BY <1>3, Zenon DEF Typed
  <1>8. seen' \in [Instance -> BOOLEAN]
    BY <1>4, Zenon DEF Typed
  <1>9. callback' \in Seq(BOOLEAN)
    BY <1>5 DEF Typed
  <1> QED
    BY <1>1, <1>6, <1>7, <1>8, <1>9, Zenon DEF Typed

\* The type invariant: the count of the remaining instances, a size_t, never goes below
\* zero, the callback is given a status, and await_join waits for no more than Size futures.
THEOREM TypeCorrect == Spec => []TypeOK
  <1>1. Init => Typed
    BY RunnerAssumption
       DEF Init, Typed, Unqueued, Completed, Owned, Kill
  <1>2. ASSUME Typed, [Next]_vars PROVE Typed'
    <2>1. CASE OwnerStep \/ \E s \in {Stop, Kill} : Halt(s)
      BY <1>2, <2>1, OwnerTyped, Zenon
    <2>2. CASE \E i \in Instance : SetException(i) \/ RunThrows(i)
      BY <1>2, <2>2, FailureTyped, Zenon
    <2>3. CASE \E i \in Instance : TaskEnd(i) \/ SubscribeReturns(i) \/ RunThrowsOther(i)
      BY <1>2, <2>3, TaskTyped, Zenon
    <2>4. CASE Barriers \/ CriticalSection
      BY <1>2, <2>4, RankZero, TaskTyped, Zenon
    <2>5. CASE UNCHANGED vars
      BY <1>2, <2>5, Zenon DEF Typed, vars, instance_vars
    <2> QED
      BY <1>2, <2>1, <2>2, <2>3, <2>4, <2>5, Zenon DEF Next
  <1>3. IInv /\ Typed => TypeOK
    <2> SUFFICES ASSUME IInv, Typed PROVE TypeOK
      BY Zenon
    <2>1. m_remaining_instances \in 0 .. Size
      BY CountedFinite, RunnerAssumption DEF IInv, CountMatches, Fresh, Counting
    <2>2. m_instances \in BOOLEAN /\ failed \in [Instance -> BOOLEAN]
      BY Zenon DEF IInv, Flags
    <2> QED
      BY <2>1, <2>2, Zenon DEF Typed, TypeOK
  <1> QED
    BY <1>1, <1>2, <1>3, Invariance, PTL DEF Spec
=============================================================================
