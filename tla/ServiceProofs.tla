--------------------------- MODULE ServiceProofs ---------------------------
(***************************************************************************)
(* The safety of Service, for any number of threads and of calls.          *)
(***************************************************************************)
EXTENDS Service, TLAPS

\* The program points of a caller that has left the hook of await_join and not
\* finished its try block.
Unwinding == {"unwind", "catch", "escape"}

TypeOK ==
  /\ m_state \in ServiceState
  /\ m_mutex \in Caller \cup {"none"}
  /\ called \in [Awaited -> BOOLEAN]
  /\ future \in [Awaited -> {"none", "pending", "value", "exception", "broken"}]
  /\ pc \in [Caller -> {"idle", "entry", "locked", "hook", "get", "destroyed", "terminated"} \cup Unwinding]
  /\ op \in [Caller -> Hook]
  /\ runs \in [Hook -> Nat]
  /\ outcomes \in [Awaited -> SUBSET {"value", "exception", "broken"}]
  /\ owner \in Caller \cup {"none"}

\* Which operation a caller is in, by its program point.
PointsMatch ==
  \A c \in Caller :
    /\ pc[c] = "get" => op[c] \in Awaited
    /\ pc[c] \in Unwinding => op[c] = "await_join"

\* A hook that was entered has left its trace in the state or in its flag.
EntriesRecorded ==
  /\ m_state = Initialized => runs["start"] = 0
  /\ m_state < Stopping => runs["stop"] = 0
  /\ m_state < Killing => runs["kill"] = 0
  /\ \A a \in Awaited : ~called[a] => runs[a] = 0

\* The caller that is to keep the promise of a.
Keeps(c, a) == op[c] = a /\ pc[c] \in {"hook", "catch", "escape"}

\* The promise is made by the first call, and kept once, by that caller.
PromisesKept ==
  \A a \in Awaited :
    /\ called[a] <=> future[a] # "none"
    /\ \A c \in Caller : Keeps(c, a) => future[a] = "pending"
    /\ \A c, d \in Caller : Keeps(c, a) /\ Keeps(d, a) => c = d

\* What was reported is what the promise was kept with; when it was broken, the caller
\* that broke it was told first.
ReportsMatch ==
  \A a \in Awaited :
    /\ future[a] # "broken" => outcomes[a] \subseteq {r \in {"value", "exception"} : future[a] = r}
    /\ future[a] = "broken" => /\ a = "await_join"
                               /\ outcomes[a] \in {{"exception"}, {"exception", "broken"}}

\* A caller that waits for a future, or has kept its promise, was preceded by a first call.
WaitersCalled == \A c \in Caller : pc[c] \in {"get", "unwind"} => called[op[c]]

\* When the join was called, the state is Completed or somebody will set it so.
JoinCompletes ==
  called["await_join"] =>
    \/ m_state = Completed
    \/ \E c \in Caller : op[c] = "await_join" /\ pc[c] \in {"hook", "unwind"}

\* The destructor runs alone, kills and joins.
DestructorAlone ==
  /\ \A c \in Caller : c # owner /\ owner # "none" => pc[c] = "idle"
  /\ \A c \in Caller : pc[c] \in {"destroyed", "terminated"} => c = owner
  /\ owner \in Caller /\ pc[owner] \notin {"destroyed", "terminated"}
       => op[owner] \in {"kill", "await_join"}

IInv ==
  /\ TypeOK /\ PointsMatch /\ EntriesRecorded /\ HooksRunOnce /\ PromisesKept /\ ReportsMatch
  /\ WaitersCalled /\ JoinCompletes /\ DestructorAlone /\ DestroyedWhenCompleted

-----------------------------------------------------------------------------
(* One lemma per action: the invariant is kept. *)

\* A call begins.
LEMMA CallKeepsInv == ASSUME IInv, NEW c \in Caller, NEW o \in Hook, Call(c, o) PROVE IInv'
  <1> USE DEF Initialized, Starting, Running, Stopping, Killing, Completed, ServiceState, Hook,
              Awaited, Unwinding, IInv, Call
  <1>1. TypeOK'
    BY DEF TypeOK, PointsMatch
  <1>2. PointsMatch'
    BY DEF TypeOK, PointsMatch
  <1>3. PromisesKept'
    BY DEF TypeOK, PointsMatch, PromisesKept, Keeps
  <1>4. WaitersCalled'
    BY DEF TypeOK, PointsMatch, WaitersCalled, PromisesKept, Keeps
  <1>5. JoinCompletes'
    BY DEF TypeOK, PointsMatch, JoinCompletes
  <1>6. DestructorAlone'
    BY ServiceAssumption DEF TypeOK, PointsMatch, DestructorAlone
  <1>7. DestroyedWhenCompleted'
    BY ServiceAssumption DEF TypeOK, DestructorAlone, DestroyedWhenCompleted, PointsMatch, WaitersCalled, JoinCompletes
  <1>8. (EntriesRecorded /\ HooksRunOnce /\ ReportsMatch)'
    BY DEF EntriesRecorded, HooksRunOnce, ReportsMatch
  <1> QED
    BY <1>1, <1>2, <1>3, <1>4, <1>5, <1>6, <1>7, <1>8

\* An operation locks the mutex.
LEMMA AcquireKeepsInv == ASSUME IInv, NEW c \in Caller, Acquire(c) PROVE IInv'
  <1> USE DEF Initialized, Starting, Running, Stopping, Killing, Completed, ServiceState, Hook,
              Awaited, Unwinding, IInv, Acquire
  <1>1. TypeOK'
    BY DEF TypeOK, PointsMatch
  <1>2. PointsMatch'
    BY DEF TypeOK, PointsMatch
  <1>3. PromisesKept'
    BY DEF TypeOK, PointsMatch, PromisesKept, Keeps
  <1>4. WaitersCalled'
    BY DEF TypeOK, PointsMatch, WaitersCalled, PromisesKept, Keeps
  <1>5. JoinCompletes'
    BY DEF TypeOK, PointsMatch, JoinCompletes
  <1>6. DestructorAlone'
    BY ServiceAssumption DEF TypeOK, PointsMatch, DestructorAlone
  <1>7. DestroyedWhenCompleted'
    BY ServiceAssumption DEF TypeOK, DestructorAlone, DestroyedWhenCompleted, PointsMatch, WaitersCalled, JoinCompletes
  <1>8. (EntriesRecorded /\ HooksRunOnce /\ ReportsMatch)'
    BY DEF EntriesRecorded, HooksRunOnce, ReportsMatch
  <1> QED
    BY <1>1, <1>2, <1>3, <1>4, <1>5, <1>6, <1>7, <1>8

\* An operation is refused.
LEMMA RefusedKeepsInv == ASSUME IInv, NEW c \in Caller, Refused(c) PROVE IInv'
  <1> USE DEF Initialized, Starting, Running, Stopping, Killing, Completed, ServiceState, Hook,
              Awaited, Unwinding, IInv, Refused, Locked, Unlock, Throw
  <1>1. TypeOK'
    BY DEF TypeOK, PointsMatch
  <1>2. PointsMatch'
    BY DEF TypeOK, PointsMatch
  <1>3. PromisesKept'
    BY DEF TypeOK, PointsMatch, PromisesKept, Keeps
  <1>4. WaitersCalled'
    BY DEF TypeOK, PointsMatch, WaitersCalled, PromisesKept, Keeps
  <1>5. JoinCompletes'
    BY DEF TypeOK, PointsMatch, JoinCompletes
  <1>6. DestructorAlone'
    BY ServiceAssumption DEF TypeOK, PointsMatch, DestructorAlone
  <1>7. DestroyedWhenCompleted'
    BY ServiceAssumption DEF TypeOK, DestructorAlone, DestroyedWhenCompleted, PointsMatch, WaitersCalled, JoinCompletes
  <1>8. (EntriesRecorded /\ HooksRunOnce /\ ReportsMatch)'
    BY DEF EntriesRecorded, HooksRunOnce, ReportsMatch
  <1> QED
    BY <1>1, <1>2, <1>3, <1>4, <1>5, <1>6, <1>7, <1>8

\* service_start enters its hook.
LEMMA StartKeepsInv == ASSUME IInv, NEW c \in Caller, service_start(c) PROVE IInv'
  <1> USE DEF Initialized, Starting, Running, Stopping, Killing, Completed, ServiceState, Hook,
              Awaited, Unwinding, IInv, service_start, Locked, Unlock, EnterHook
  <1>1. TypeOK'
    BY DEF TypeOK, PointsMatch
  <1>2. PointsMatch'
    BY DEF TypeOK, PointsMatch
  <1>3. EntriesRecorded'
    BY DEF TypeOK, EntriesRecorded
  <1>4. HooksRunOnce'
    BY DEF TypeOK, EntriesRecorded, HooksRunOnce
  <1>5. PromisesKept'
    BY DEF TypeOK, PointsMatch, PromisesKept, Keeps
  <1>6. WaitersCalled'
    BY DEF TypeOK, PointsMatch, WaitersCalled, PromisesKept, Keeps
  <1>7. JoinCompletes'
    BY DEF TypeOK, PointsMatch, JoinCompletes
  <1>8. DestructorAlone'
    BY ServiceAssumption DEF TypeOK, PointsMatch, DestructorAlone
  <1>9. DestroyedWhenCompleted'
    BY ServiceAssumption DEF TypeOK, DestructorAlone, DestroyedWhenCompleted, PointsMatch, WaitersCalled, JoinCompletes
  <1>10. ReportsMatch'
    BY DEF ReportsMatch
  <1> QED
    BY <1>1, <1>2, <1>3, <1>4, <1>5, <1>6, <1>7, <1>8, <1>9, <1>10

\* do_service_start returns.
LEMMA StartReturnsKeepsInv == ASSUME IInv, NEW c \in Caller, StartReturns(c) PROVE IInv'
  <1> USE DEF Initialized, Starting, Running, Stopping, Killing, Completed, ServiceState, Hook,
              Awaited, Unwinding, IInv, StartReturns, InHook, EnsureState, Return
  <1>1. TypeOK'
    BY DEF TypeOK, PointsMatch
  <1>2. PointsMatch'
    BY DEF TypeOK, PointsMatch
  <1>3. EntriesRecorded'
    BY DEF TypeOK, EntriesRecorded
  <1>4. PromisesKept'
    BY DEF TypeOK, PointsMatch, PromisesKept, Keeps
  <1>5. WaitersCalled'
    BY DEF TypeOK, PointsMatch, WaitersCalled, PromisesKept, Keeps
  <1>6. JoinCompletes'
    BY DEF TypeOK, PointsMatch, JoinCompletes
  <1>7. DestructorAlone'
    BY ServiceAssumption DEF TypeOK, PointsMatch, DestructorAlone
  <1>8. DestroyedWhenCompleted'
    BY ServiceAssumption DEF TypeOK, DestructorAlone, DestroyedWhenCompleted, PointsMatch, WaitersCalled, JoinCompletes
  <1>9. (HooksRunOnce /\ ReportsMatch)'
    BY DEF HooksRunOnce, ReportsMatch
  <1> QED
    BY <1>1, <1>2, <1>3, <1>4, <1>5, <1>6, <1>7, <1>8, <1>9

\* do_service_start throws.
LEMMA StartThrowsKeepsInv == ASSUME IInv, NEW c \in Caller, StartThrows(c) PROVE IInv'
  <1> USE DEF Initialized, Starting, Running, Stopping, Killing, Completed, ServiceState, Hook,
              Awaited, Unwinding, IInv, StartThrows, InHook, Throw
  <1>1. TypeOK'
    BY DEF TypeOK, PointsMatch
  <1>2. PointsMatch'
    BY DEF TypeOK, PointsMatch
  <1>3. EntriesRecorded'
    BY DEF TypeOK, EntriesRecorded
  <1>4. PromisesKept'
    BY DEF TypeOK, PointsMatch, PromisesKept, Keeps
  <1>5. WaitersCalled'
    BY DEF TypeOK, PointsMatch, WaitersCalled, PromisesKept, Keeps
  <1>6. JoinCompletes'
    BY DEF TypeOK, PointsMatch, JoinCompletes
  <1>7. DestructorAlone'
    BY ServiceAssumption DEF TypeOK, PointsMatch, DestructorAlone
  <1>8. DestroyedWhenCompleted'
    BY ServiceAssumption DEF TypeOK, DestructorAlone, DestroyedWhenCompleted, PointsMatch, WaitersCalled, JoinCompletes
  <1>9. (HooksRunOnce /\ ReportsMatch)'
    BY DEF HooksRunOnce, ReportsMatch
  <1> QED
    BY <1>1, <1>2, <1>3, <1>4, <1>5, <1>6, <1>7, <1>8, <1>9

\* service_stop enters its hook or returns.
LEMMA StopKeepsInv == ASSUME IInv, NEW c \in Caller, service_stop(c) PROVE IInv'
  <1> USE DEF Initialized, Starting, Running, Stopping, Killing, Completed, ServiceState, Hook,
              Awaited, Unwinding, IInv, service_stop, Halt, Halts, Locked, Unlock, EnsureState, EnterHook, Return
  <1>1. TypeOK'
    BY DEF TypeOK, PointsMatch
  <1>2. PointsMatch'
    BY DEF TypeOK, PointsMatch
  <1>3. EntriesRecorded'
    BY DEF TypeOK, EntriesRecorded
  <1>4. HooksRunOnce'
    BY DEF TypeOK, EntriesRecorded, HooksRunOnce
  <1>5. PromisesKept'
    BY DEF TypeOK, PointsMatch, PromisesKept, Keeps
  <1>6. WaitersCalled'
    BY DEF TypeOK, PointsMatch, WaitersCalled, PromisesKept, Keeps
  <1>7. JoinCompletes'
    BY DEF TypeOK, PointsMatch, JoinCompletes
  <1>8. DestructorAlone'
    BY ServiceAssumption DEF TypeOK, PointsMatch, DestructorAlone
  <1>9. DestroyedWhenCompleted'
    BY ServiceAssumption DEF TypeOK, DestructorAlone, DestroyedWhenCompleted, PointsMatch, WaitersCalled, JoinCompletes
  <1>10. ReportsMatch'
    BY DEF ReportsMatch
  <1> QED
    BY <1>1, <1>2, <1>3, <1>4, <1>5, <1>6, <1>7, <1>8, <1>9, <1>10

\* service_kill enters its hook or returns.
LEMMA KillKeepsInv == ASSUME IInv, NEW c \in Caller, service_kill(c) PROVE IInv'
  <1> USE DEF Initialized, Starting, Running, Stopping, Killing, Completed, ServiceState, Hook,
              Awaited, Unwinding, IInv, service_kill, Halt, Halts, Locked, Unlock, EnsureState, EnterHook, Return
  <1>1. TypeOK'
    BY DEF TypeOK, PointsMatch
  <1>2. PointsMatch'
    BY DEF TypeOK, PointsMatch
  <1>3. EntriesRecorded'
    BY DEF TypeOK, EntriesRecorded
  <1>4. HooksRunOnce'
    BY DEF TypeOK, EntriesRecorded, HooksRunOnce
  <1>5. PromisesKept'
    BY DEF TypeOK, PointsMatch, PromisesKept, Keeps
  <1>6. WaitersCalled'
    BY DEF TypeOK, PointsMatch, WaitersCalled, PromisesKept, Keeps
  <1>7. JoinCompletes'
    BY DEF TypeOK, PointsMatch, JoinCompletes
  <1>8. DestructorAlone'
    BY ServiceAssumption DEF TypeOK, PointsMatch, DestructorAlone
  <1>9. DestroyedWhenCompleted'
    BY ServiceAssumption DEF TypeOK, DestructorAlone, DestroyedWhenCompleted, PointsMatch, WaitersCalled, JoinCompletes
  <1>10. ReportsMatch'
    BY DEF ReportsMatch
  <1> QED
    BY <1>1, <1>2, <1>3, <1>4, <1>5, <1>6, <1>7, <1>8, <1>9, <1>10

\* do_service_stop or do_service_kill returns.
LEMMA HaltReturnsKeepsInv == ASSUME IInv, NEW c \in Caller, HaltReturns(c) PROVE IInv'
  <1> USE DEF Initialized, Starting, Running, Stopping, Killing, Completed, ServiceState, Hook,
              Awaited, Unwinding, IInv, HaltReturns, InHook, Return
  <1>1. TypeOK'
    BY DEF TypeOK, PointsMatch
  <1>2. PointsMatch'
    BY DEF TypeOK, PointsMatch
  <1>3. PromisesKept'
    BY DEF TypeOK, PointsMatch, PromisesKept, Keeps
  <1>4. WaitersCalled'
    BY DEF TypeOK, PointsMatch, WaitersCalled, PromisesKept, Keeps
  <1>5. JoinCompletes'
    BY DEF TypeOK, PointsMatch, JoinCompletes
  <1>6. DestructorAlone'
    BY ServiceAssumption DEF TypeOK, PointsMatch, DestructorAlone
  <1>7. DestroyedWhenCompleted'
    BY ServiceAssumption DEF TypeOK, DestructorAlone, DestroyedWhenCompleted, PointsMatch, WaitersCalled, JoinCompletes
  <1>8. (EntriesRecorded /\ HooksRunOnce /\ ReportsMatch)'
    BY DEF EntriesRecorded, HooksRunOnce, ReportsMatch
  <1> QED
    BY <1>1, <1>2, <1>3, <1>4, <1>5, <1>6, <1>7, <1>8

\* do_service_stop or do_service_kill throws.
LEMMA HaltThrowsKeepsInv == ASSUME IInv, NEW c \in Caller, HaltThrows(c) PROVE IInv'
  <1> USE DEF Initialized, Starting, Running, Stopping, Killing, Completed, ServiceState, Hook,
              Awaited, Unwinding, IInv, HaltThrows, InHook, Throw
  <1>1. TypeOK'
    BY DEF TypeOK, PointsMatch
  <1>2. PointsMatch'
    BY DEF TypeOK, PointsMatch
  <1>3. PromisesKept'
    BY DEF TypeOK, PointsMatch, PromisesKept, Keeps
  <1>4. WaitersCalled'
    BY DEF TypeOK, PointsMatch, WaitersCalled, PromisesKept, Keeps
  <1>5. JoinCompletes'
    BY DEF TypeOK, PointsMatch, JoinCompletes
  <1>6. DestructorAlone'
    BY ServiceAssumption DEF TypeOK, PointsMatch, DestructorAlone
  <1>7. DestroyedWhenCompleted'
    BY ServiceAssumption DEF TypeOK, DestructorAlone, DestroyedWhenCompleted, PointsMatch, WaitersCalled, JoinCompletes
  <1>8. (EntriesRecorded /\ HooksRunOnce /\ ReportsMatch)'
    BY DEF EntriesRecorded, HooksRunOnce, ReportsMatch
  <1> QED
    BY <1>1, <1>2, <1>3, <1>4, <1>5, <1>6, <1>7, <1>8

\* do_service_stop calls service_kill.
LEMMA StopKillsKeepsInv == ASSUME IInv, NEW c \in Caller, StopKills(c) PROVE IInv'
  <1> USE DEF Initialized, Starting, Running, Stopping, Killing, Completed, ServiceState, Hook,
              Awaited, Unwinding, IInv, StopKills, InHook
  <1>1. TypeOK'
    BY DEF TypeOK, PointsMatch
  <1>2. PointsMatch'
    BY DEF TypeOK, PointsMatch
  <1>3. PromisesKept'
    BY DEF TypeOK, PointsMatch, PromisesKept, Keeps
  <1>4. WaitersCalled'
    BY DEF TypeOK, PointsMatch, WaitersCalled, PromisesKept, Keeps
  <1>5. JoinCompletes'
    BY DEF TypeOK, PointsMatch, JoinCompletes
  <1>6. DestructorAlone'
    BY ServiceAssumption DEF TypeOK, PointsMatch, DestructorAlone
  <1>7. DestroyedWhenCompleted'
    BY ServiceAssumption DEF TypeOK, DestructorAlone, DestroyedWhenCompleted, PointsMatch, WaitersCalled, JoinCompletes
  <1>8. (EntriesRecorded /\ HooksRunOnce /\ ReportsMatch)'
    BY DEF EntriesRecorded, HooksRunOnce, ReportsMatch
  <1> QED
    BY <1>1, <1>2, <1>3, <1>4, <1>5, <1>6, <1>7, <1>8

\* service_await_live or service_await_join enters its hook or waits.
LEMMA AwaitKeepsInv == ASSUME IInv, NEW c \in Caller, NEW a \in Awaited, Await(c, a) PROVE IInv'
  <1> USE DEF Initialized, Starting, Running, Stopping, Killing, Completed, ServiceState, Hook,
              Awaited, Unwinding, IInv, Await, Locked, Unlock, FirstCall, EnterHook
  <1>1. TypeOK'
    <2>1. CASE FirstCall(a)
      <3> HIDE DEF Awaited
      <3>1. called' \in [Awaited -> BOOLEAN]
        BY <2>1, Zenon DEF TypeOK
      <3>2. future' \in [Awaited -> {"none", "pending", "value", "exception", "broken"}]
        BY <2>1 DEF TypeOK
      <3>3. runs' \in [Hook -> Nat]
        BY <2>1 DEF TypeOK
      <3> QED
        BY <2>1, <3>1, <3>2, <3>3 DEF TypeOK
    <2>2. CASE ~FirstCall(a)
      BY <2>2 DEF TypeOK
    <2> QED
      BY <2>1, <2>2
  <1>2. PointsMatch'
    BY DEF TypeOK, PointsMatch
  <1>3. EntriesRecorded'
    BY DEF TypeOK, EntriesRecorded
  <1>4. HooksRunOnce'
    BY DEF TypeOK, EntriesRecorded, HooksRunOnce
  <1>5. PromisesKept'
    BY DEF TypeOK, PointsMatch, PromisesKept, Keeps
  <1>6. ReportsMatch'
    BY DEF TypeOK, PointsMatch, PromisesKept, ReportsMatch, Keeps
  <1>7. WaitersCalled'
    BY DEF TypeOK, PointsMatch, WaitersCalled, PromisesKept, Keeps
  <1>8. JoinCompletes'
    BY DEF TypeOK, PointsMatch, JoinCompletes
  <1>9. DestructorAlone'
    BY ServiceAssumption DEF TypeOK, PointsMatch, DestructorAlone
  <1>10. DestroyedWhenCompleted'
    BY ServiceAssumption DEF TypeOK, DestructorAlone, DestroyedWhenCompleted, PointsMatch, WaitersCalled, JoinCompletes
  <1> QED
    BY <1>1, <1>2, <1>3, <1>4, <1>5, <1>6, <1>7, <1>8, <1>9, <1>10, SMTT(30)

\* do_service_await_live ends and the promise is kept.
LEMMA LiveReturnsKeepsInv == ASSUME IInv, NEW c \in Caller, NEW r \in {"value", "exception"}, LiveReturns(c, r) PROVE IInv'
  <1> USE DEF Initialized, Starting, Running, Stopping, Killing, Completed, ServiceState, Hook,
              Awaited, Unwinding, IInv, LiveReturns, InHook
  <1>1. TypeOK'
    BY DEF TypeOK, PointsMatch
  <1>2. PointsMatch'
    BY DEF TypeOK, PointsMatch
  <1>3. PromisesKept'
    BY DEF TypeOK, PointsMatch, PromisesKept, Keeps
  <1>4. ReportsMatch'
    BY DEF TypeOK, PointsMatch, PromisesKept, ReportsMatch, Keeps
  <1>5. WaitersCalled'
    BY DEF TypeOK, PointsMatch, WaitersCalled, PromisesKept, Keeps
  <1>6. JoinCompletes'
    BY DEF TypeOK, PointsMatch, JoinCompletes
  <1>7. DestructorAlone'
    BY ServiceAssumption DEF TypeOK, PointsMatch, DestructorAlone
  <1>8. DestroyedWhenCompleted'
    BY ServiceAssumption DEF TypeOK, DestructorAlone, DestroyedWhenCompleted, PointsMatch, WaitersCalled, JoinCompletes
  <1>9. (EntriesRecorded /\ HooksRunOnce)'
    BY DEF EntriesRecorded, HooksRunOnce
  <1> QED
    BY <1>1, <1>2, <1>3, <1>4, <1>5, <1>6, <1>7, <1>8, <1>9

\* do_service_await_join returns and the promise is kept.
LEMMA JoinReturnsKeepsInv == ASSUME IInv, NEW c \in Caller, JoinReturns(c) PROVE IInv'
  <1> USE DEF Initialized, Starting, Running, Stopping, Killing, Completed, ServiceState, Hook,
              Awaited, Unwinding, IInv, JoinReturns, InHook
  <1>1. TypeOK'
    BY DEF TypeOK, PointsMatch
  <1>2. PointsMatch'
    BY DEF TypeOK, PointsMatch
  <1>3. PromisesKept'
    BY DEF TypeOK, PointsMatch, PromisesKept, Keeps
  <1>4. ReportsMatch'
    BY DEF TypeOK, PointsMatch, PromisesKept, ReportsMatch, Keeps
  <1>5. WaitersCalled'
    BY DEF TypeOK, PointsMatch, WaitersCalled, PromisesKept, Keeps
  <1>6. JoinCompletes'
    BY DEF TypeOK, PointsMatch, JoinCompletes
  <1>7. DestructorAlone'
    BY ServiceAssumption DEF TypeOK, PointsMatch, DestructorAlone
  <1>8. DestroyedWhenCompleted'
    BY ServiceAssumption DEF TypeOK, DestructorAlone, DestroyedWhenCompleted, PointsMatch, WaitersCalled, JoinCompletes
  <1>9. (EntriesRecorded /\ HooksRunOnce)'
    BY DEF EntriesRecorded, HooksRunOnce
  <1> QED
    BY <1>1, <1>2, <1>3, <1>4, <1>5, <1>6, <1>7, <1>8, <1>9

\* The Unwinder advances the state.
LEMMA JoinUnwindsKeepsInv == ASSUME IInv, NEW c \in Caller, JoinUnwinds(c) PROVE IInv'
  <1> USE DEF Initialized, Starting, Running, Stopping, Killing, Completed, ServiceState, Hook,
              Awaited, Unwinding, IInv, JoinUnwinds
  <1>1. TypeOK'
    BY DEF TypeOK, PointsMatch
  <1>2. PointsMatch'
    BY DEF TypeOK, PointsMatch
  <1>3. EntriesRecorded'
    BY DEF TypeOK, EntriesRecorded
  <1>4. PromisesKept'
    BY DEF TypeOK, PointsMatch, PromisesKept, Keeps
  <1>5. WaitersCalled'
    BY DEF TypeOK, PointsMatch, WaitersCalled, PromisesKept, Keeps
  <1>6. JoinCompletes'
    <2>1. m_state' = Completed
      OBVIOUS
    <2> QED
      BY <2>1, Zenon DEF JoinCompletes
  <1>7. DestructorAlone'
    BY ServiceAssumption DEF TypeOK, PointsMatch, DestructorAlone
  <1>8. DestroyedWhenCompleted'
    BY ServiceAssumption DEF TypeOK, DestructorAlone, DestroyedWhenCompleted, PointsMatch, WaitersCalled, JoinCompletes
  <1>9. (HooksRunOnce /\ ReportsMatch)'
    BY DEF HooksRunOnce, ReportsMatch
  <1> QED
    BY <1>1, <1>2, <1>3, <1>4, <1>5, <1>6, <1>7, <1>8, <1>9

\* do_service_await_join throws.
LEMMA JoinThrowsKeepsInv == ASSUME IInv, NEW c \in Caller, NEW h \in {"catch", "escape"}, JoinThrows(c, h) PROVE IInv'
  <1> USE DEF Initialized, Starting, Running, Stopping, Killing, Completed, ServiceState, Hook,
              Awaited, Unwinding, IInv, JoinThrows, InHook
  <1>1. TypeOK'
    BY DEF TypeOK, PointsMatch
  <1>2. PointsMatch'
    BY DEF TypeOK, PointsMatch
  <1>3. EntriesRecorded'
    BY DEF TypeOK, EntriesRecorded
  <1>4. PromisesKept'
    BY DEF TypeOK, PointsMatch, PromisesKept, Keeps
  <1>5. WaitersCalled'
    BY DEF TypeOK, PointsMatch, WaitersCalled, PromisesKept, Keeps
  <1>6. JoinCompletes'
    BY DEF TypeOK, PointsMatch, JoinCompletes
  <1>7. DestructorAlone'
    BY ServiceAssumption DEF TypeOK, PointsMatch, DestructorAlone
  <1>8. DestroyedWhenCompleted'
    BY ServiceAssumption DEF TypeOK, DestructorAlone, DestroyedWhenCompleted, PointsMatch, WaitersCalled, JoinCompletes
  <1>9. (HooksRunOnce /\ ReportsMatch)'
    BY DEF HooksRunOnce, ReportsMatch
  <1> QED
    BY <1>1, <1>2, <1>3, <1>4, <1>5, <1>6, <1>7, <1>8, <1>9

\* The exception is put into the promise.
LEMMA JoinCaughtKeepsInv == ASSUME IInv, NEW c \in Caller, JoinCaught(c) PROVE IInv'
  <1> USE DEF Initialized, Starting, Running, Stopping, Killing, Completed, ServiceState, Hook,
              Awaited, Unwinding, IInv, JoinCaught
  <1>1. TypeOK'
    BY DEF TypeOK, PointsMatch
  <1>2. PointsMatch'
    BY DEF TypeOK, PointsMatch
  <1>3. PromisesKept'
    BY DEF TypeOK, PointsMatch, PromisesKept, Keeps
  <1>4. ReportsMatch'
    BY DEF TypeOK, PointsMatch, PromisesKept, ReportsMatch, Keeps
  <1>5. WaitersCalled'
    BY DEF TypeOK, PointsMatch, WaitersCalled, PromisesKept, Keeps
  <1>6. JoinCompletes'
    BY DEF TypeOK, PointsMatch, JoinCompletes
  <1>7. DestructorAlone'
    BY ServiceAssumption DEF TypeOK, PointsMatch, DestructorAlone
  <1>8. DestroyedWhenCompleted'
    BY ServiceAssumption DEF TypeOK, DestructorAlone, DestroyedWhenCompleted, PointsMatch, WaitersCalled, JoinCompletes
  <1>9. (EntriesRecorded /\ HooksRunOnce)'
    BY DEF EntriesRecorded, HooksRunOnce
  <1> QED
    BY <1>1, <1>2, <1>3, <1>4, <1>5, <1>6, <1>7, <1>8, <1>9

\* The exception leaves service_await_join and breaks the promise.
LEMMA JoinEscapesKeepsInv == ASSUME IInv, NEW c \in Caller, JoinEscapes(c) PROVE IInv'
  <1> USE DEF Initialized, Starting, Running, Stopping, Killing, Completed, ServiceState, Hook,
              Awaited, Unwinding, IInv, JoinEscapes, Throw
  <1>1. TypeOK'
    BY DEF TypeOK, PointsMatch
  <1>2. PointsMatch'
    BY DEF TypeOK, PointsMatch
  <1>3. PromisesKept'
    BY DEF TypeOK, PointsMatch, PromisesKept, Keeps
  <1>4. ReportsMatch'
    BY DEF TypeOK, PointsMatch, PromisesKept, ReportsMatch, Keeps
  <1>5. WaitersCalled'
    BY DEF TypeOK, PointsMatch, WaitersCalled, PromisesKept, Keeps
  <1>6. JoinCompletes'
    BY DEF TypeOK, PointsMatch, JoinCompletes
  <1>7. DestructorAlone'
    BY ServiceAssumption DEF TypeOK, PointsMatch, DestructorAlone
  <1>8. DestroyedWhenCompleted'
    BY ServiceAssumption DEF TypeOK, DestructorAlone, DestroyedWhenCompleted, PointsMatch, WaitersCalled, JoinCompletes
  <1>9. (EntriesRecorded /\ HooksRunOnce)'
    BY DEF EntriesRecorded, HooksRunOnce
  <1> QED
    BY <1>1, <1>2, <1>3, <1>4, <1>5, <1>6, <1>7, <1>8, <1>9, SMTT(30)

\* A caller is told the outcome.
LEMMA FutureGetKeepsInv == ASSUME IInv, NEW c \in Caller, FutureGet(c) PROVE IInv'
  <1> USE DEF Initialized, Starting, Running, Stopping, Killing, Completed, ServiceState, Hook,
              Awaited, Unwinding, IInv, FutureGet, Reported, Return, Throw
  <1>1. TypeOK'
    BY DEF TypeOK, PointsMatch
  <1>2. PointsMatch'
    BY DEF TypeOK, PointsMatch
  <1>3. PromisesKept'
    BY DEF TypeOK, PointsMatch, PromisesKept, Keeps
  <1>4. ReportsMatch'
    BY DEF TypeOK, PointsMatch, PromisesKept, ReportsMatch, Keeps
  <1>5. WaitersCalled'
    BY DEF TypeOK, PointsMatch, WaitersCalled, PromisesKept, Keeps
  <1>6. JoinCompletes'
    BY DEF TypeOK, PointsMatch, JoinCompletes
  <1>7. DestructorAlone'
    BY ServiceAssumption DEF TypeOK, PointsMatch, DestructorAlone
  <1>8. DestroyedWhenCompleted'
    BY ServiceAssumption DEF TypeOK, DestructorAlone, DestroyedWhenCompleted, PointsMatch, WaitersCalled, JoinCompletes
  <1>9. (EntriesRecorded /\ HooksRunOnce)'
    BY DEF EntriesRecorded, HooksRunOnce
  <1> QED
    BY <1>1, <1>2, <1>3, <1>4, <1>5, <1>6, <1>7, <1>8, <1>9, SMTT(30)

\* The destructor begins.
LEMMA DestructorKeepsInv == ASSUME IInv, NEW c \in Caller, call_in_destructor(c) PROVE IInv'
  <1> USE DEF Initialized, Starting, Running, Stopping, Killing, Completed, ServiceState, Hook,
              Awaited, Unwinding, IInv, call_in_destructor, DestructorNext
  <1>1. TypeOK'
    BY DEF TypeOK, PointsMatch
  <1>2. PointsMatch'
    BY DEF TypeOK, PointsMatch
  <1>3. PromisesKept'
    BY DEF TypeOK, PointsMatch, PromisesKept, Keeps
  <1>4. WaitersCalled'
    BY DEF TypeOK, PointsMatch, WaitersCalled, PromisesKept, Keeps
  <1>5. JoinCompletes'
    BY DEF TypeOK, PointsMatch, JoinCompletes
  <1>6. DestructorAlone'
    BY ServiceAssumption DEF TypeOK, PointsMatch, DestructorAlone
  <1>7. DestroyedWhenCompleted'
    BY ServiceAssumption DEF TypeOK, DestructorAlone, DestroyedWhenCompleted, PointsMatch, WaitersCalled, JoinCompletes
  <1>8. (EntriesRecorded /\ HooksRunOnce /\ ReportsMatch)'
    BY DEF EntriesRecorded, HooksRunOnce, ReportsMatch
  <1> QED
    BY <1>1, <1>2, <1>3, <1>4, <1>5, <1>6, <1>7, <1>8

-----------------------------------------------------------------------------
\* The invariant holds when nothing was called yet.
LEMMA InitIInv == Init => IInv
  BY ServiceAssumption
  DEF Init, IInv, TypeOK, PointsMatch, EntriesRecorded, HooksRunOnce, PromisesKept, Keeps,
      ReportsMatch, WaitersCalled, JoinCompletes, DestructorAlone, DestroyedWhenCompleted,
      ServiceState, Initialized, Stopping, Killing, Completed, Hook, Awaited, Unwinding

\* It does not depend on the work, the number of calls, or the order of threads.
LEMMA StepKeepsInv == IInv /\ [Next]_vars => IInv'
  <1> SUFFICES ASSUME IInv, [Next]_vars PROVE IInv'
    BY SMTT(30)
  <1>1. CASE WorkEnds \/ UNCHANGED vars
    BY <1>1
    DEF WorkEnds, vars, IInv, TypeOK, PointsMatch, EntriesRecorded, HooksRunOnce, PromisesKept,
        Keeps, ReportsMatch, WaitersCalled, JoinCompletes, DestructorAlone, DestroyedWhenCompleted
  <1>2. ASSUME NEW c \in Caller, NEW o \in Hook, Call(c, o) PROVE IInv'
    BY <1>2, CallKeepsInv
  <1>3. ASSUME NEW c \in Caller, Operation(c) PROVE IInv'
    <2>1. CASE service_await_live(c) \/ service_await_join(c)
      BY <2>1, AwaitKeepsInv DEF service_await_live, service_await_join, Awaited
    <2> QED
      BY <1>3, <2>1, AcquireKeepsInv, StartKeepsInv, StopKeepsInv, KillKeepsInv, RefusedKeepsInv DEF Operation
  <1>4. ASSUME NEW c \in Caller, HookStep(c) PROVE IInv'
    BY <1>4, StartReturnsKeepsInv, StartThrowsKeepsInv, StopKillsKeepsInv, HaltReturnsKeepsInv,
       HaltThrowsKeepsInv, LiveReturnsKeepsInv, JoinReturnsKeepsInv, JoinUnwindsKeepsInv,
       JoinCaughtKeepsInv, JoinEscapesKeepsInv, JoinThrowsKeepsInv, FutureGetKeepsInv, SMTT(30)
    DEF HookStep
  <1>5. ASSUME NEW c \in Caller, call_in_destructor(c) PROVE IInv'
    BY <1>5, DestructorKeepsInv
  <1> QED
    BY <1>1, <1>2, <1>3, <1>4, <1>5 DEF Next

\* The invariant holds in every state, whatever threads call in whatever order.
THEOREM Invariance == Spec => []IInv
  BY InitIInv, StepKeepsInv, PTL DEF Spec

\* Every hook of a derived class is entered at most once (service.cpp: the tests under
\* m_mutex of service_start, service_stop, service_kill and the two awaits).
THEOREM HooksEnteredOnce == Spec => []HooksRunOnce
  <1>1. IInv => HooksRunOnce
    BY DEF IInv
  <1> QED
    BY Invariance, <1>1, PTL

\* The callers of service_await_live are told the same, and so are those of
\* service_await_join, except that a broken promise stands for an exception that one of
\* them was told (service.cpp: the promises and the catch clauses of the two awaits).
THEOREM SameOutcome == Spec => []OutcomesAgree
  <1>1. IInv => OutcomesAgree
    BY DEF IInv, ReportsMatch, OutcomesAgree
  <1> QED
    BY Invariance, <1>1, PTL

\* The CHECK of ~Service holds: the destructor finds the service never started, or
\* leaves it completed.
THEOREM DestroyedCompleted == Spec => []DestroyedWhenCompleted
  <1>1. IInv => DestroyedWhenCompleted
    BY DEF IInv
  <1> QED
    BY Invariance, <1>1, PTL

\* The CHECK_GE of advance_state holds: no step of any thread moves the state back.
THEOREM StateAdvances == Spec => StateOnlyAdvances
  <1>1. IInv /\ [Next]_vars => [m_state' >= m_state]_vars
    <2> SUFFICES ASSUME TypeOK, Next PROVE m_state' >= m_state
      BY DEF IInv
    <2> USE DEF TypeOK, ServiceState, Initialized, Starting, Running, Stopping, Killing, Completed
    <2>1. ASSUME NEW c \in Caller, Operation(c) PROVE m_state' >= m_state
      BY <2>1 DEF Operation, Acquire, service_start, service_stop, service_kill, Halt, EnsureState,
                  service_await_live, service_await_join, Await, Refused
    <2>2. ASSUME NEW c \in Caller, HookStep(c) PROVE m_state' >= m_state
      BY <2>2 DEF HookStep, StartReturns, StartThrows, StopKills, HaltReturns, HaltThrows,
                  EnsureState, LiveReturns, JoinReturns, JoinUnwinds, JoinCaught, JoinEscapes,
                  JoinThrows, FutureGet
    <2> QED
      BY <2>1, <2>2 DEF Next, Call, call_in_destructor, WorkEnds
  <1> QED
    BY Invariance, <1>1, PTL DEF Spec, StateOnlyAdvances
=============================================================================
