------------------------------ MODULE Service ------------------------------
(***************************************************************************)
(* mrc::Service: the life cycle that every long-lived part of the runtime  *)
(* inherits (executor, pipeline manager, pipeline and segment instances,   *)
(* control plane, data plane, gRPC streams, publishers and subscribers).   *)
(*                                                                         *)
(* Any number of threads call the five public operations.  Each takes      *)
(* m_mutex, decides under it what to do, and unlocks it before it calls    *)
(* the do_service_* hook of the derived class or waits for a future; a     *)
(* hook is a program point at which a caller stays.                        *)
(* The hooks are external: what is assumed of them is that they return or  *)
(* throw, and that do_service_await_join returns once the work has ended,  *)
(* which a stop or a kill brings about.                                    *)
(***************************************************************************)
EXTENDS Naturals

CONSTANTS
  Caller,    \* threads that call the service
  MaxCalls   \* bound: calls made in all

ASSUME ServiceAssumption == MaxCalls \in Nat /\ "none" \notin Caller

\* enum ServiceState, in the order in which its values are compared.
Initialized == 0
Starting == 1
Running == 2
Stopping == 3
Killing == 4
Completed == 5
ServiceState == Initialized .. Completed

Hook == {"start", "await_live", "stop", "kill", "await_join"}

VARIABLES
  m_state,
  m_mutex,   \* the caller that holds the mutex, or "none"
  called,    \* m_service_await_live_called and m_service_await_join_called
  future,    \* m_live_future and m_completed_future
  pc,        \* where each caller is: at the entry of its operation, in its hook...
  op,        \* the operation each caller is in
  calls,     \* calls made so far
  work,      \* what the hooks started: none, active or ended
  runs,      \* history: how often each hook was entered
  outcomes,  \* history: the outcomes reported by await_live and by await_join
  owner      \* the thread that destroys the service, or "none"

vars == <<m_state, m_mutex, called, future, pc, op, calls, work, runs, outcomes, owner>>

Awaited == {"await_live", "await_join"}

Init ==
  /\ m_state = Initialized
  /\ m_mutex = "none"
  /\ called = [a \in Awaited |-> FALSE]
  /\ future = [a \in Awaited |-> "none"]
  /\ pc = [c \in Caller |-> "idle"]
  /\ op = [c \in Caller |-> "start"]
  /\ calls = 0
  /\ work = "none"
  /\ runs = [h \in Hook |-> 0]
  /\ outcomes = [a \in Awaited |-> {}]
  /\ owner = "none"

\* Free for c to lock: m_mutex is recursive.
Free(c) == m_mutex \in {"none", c}

\* std::unique_lock at the beginning of an operation.
Acquire(c) ==
  /\ pc[c] = "entry" /\ Free(c)
  /\ m_mutex' = c
  /\ pc' = [pc EXCEPT ![c] = "locked"]
  /\ UNCHANGED <<m_state, called, future, op, calls, work, runs, outcomes, owner>>

Locked(c, o) == pc[c] = "locked" /\ op[c] = o

\* Mutant of Unlock: await_join calls its hook without unlocking first.
UnlockButInJoin(c) == m_mutex' = IF op[c] = "await_join" THEN c ELSE "none"

\* lock.unlock() before a hook is called, or the end of the scope of the lock.
Unlock(c) == m_mutex' = "none"

InHook(c, o) == pc[c] = "hook" /\ op[c] = o

\* Mutant of EnsureState: the state is set whatever it is.
EnsureStateAlways(s) == s

\* ensure_state: move forward to s, or stay where another thread has moved to.
EnsureState(s) == IF s > m_state THEN s ELSE m_state

\* Where a caller goes when its operation returns.  The destructor goes on from
\* service_kill to service_await_join, and from there to ~Service.
Return(c) ==
  IF c = owner /\ op[c] = "kill"
    THEN /\ pc' = [pc EXCEPT ![c] = "entry"]
         /\ op' = [op EXCEPT ![c] = "await_join"]
    ELSE /\ pc' = [pc EXCEPT ![c] = IF c = owner THEN "destroyed" ELSE "idle"]
         /\ UNCHANGED op

\* An exception leaves the operation; out of the destructor it ends the process.
Throw(c) == /\ pc' = [pc EXCEPT ![c] = IF c = owner THEN "terminated" ELSE "idle"]
            /\ UNCHANGED op

EnterHook(c) == /\ pc' = [pc EXCEPT ![c] = "hook"]
                /\ runs' = [runs EXCEPT ![op[c]] = @ + 1]

-----------------------------------------------------------------------------
\* A thread calls one of the public operations.
Call(c, o) ==
  /\ pc[c] = "idle" /\ calls < MaxCalls /\ owner = "none"
  /\ calls' = calls + 1
  /\ pc' = [pc EXCEPT ![c] = "entry"]
  /\ op' = [op EXCEPT ![c] = o]
  /\ UNCHANGED <<m_state, m_mutex, called, future, work, runs, outcomes, owner>>

\* Every operation but service_start throws on a service that was not started,
\* and service_start on one that was.
Refused(c) ==
  /\ Locked(c, op[c])
  /\ (m_state = Initialized) # (op[c] = "start")
  /\ Unlock(c) /\ Throw(c)
  /\ UNCHANGED <<m_state, called, future, calls, work, runs, outcomes, owner>>

service_start(c) ==
  /\ Locked(c, "start")
  /\ m_state = Initialized
  /\ m_state' = Starting
  /\ Unlock(c) /\ EnterHook(c)
  /\ UNCHANGED <<called, future, op, calls, work, outcomes, owner>>

\* do_service_start returned.  The work runs unless it was stopped meanwhile.
StartReturns(c) ==
  /\ InHook(c, "start") /\ Free(c)
  /\ m_state' = EnsureState(Running)
  /\ work' = IF work = "none" THEN "active" ELSE work
  /\ Return(c)
  /\ UNCHANGED <<m_mutex, called, future, calls, runs, outcomes, owner>>

\* do_service_start threw: the catch clause completes the service.  What the hook
\* had launched by then goes on.
StartThrows(c) ==
  /\ InHook(c, "start") /\ Free(c)
  /\ m_state' = Completed
  /\ work' \in IF work = "none" THEN {"active", "ended"} ELSE {work}
  /\ Throw(c)
  /\ UNCHANGED <<m_mutex, called, future, calls, runs, outcomes, owner>>

\* Mutant of Halts: the hook is called again when the state is already reached.
HaltsAgain(s) == m_state # Initialized

\* service_stop and service_kill call their hook only if they advanced the state.
Halts(s) == m_state # Initialized /\ m_state < s

Halt(c, o, s) ==
  /\ Locked(c, o)
  /\ m_state # Initialized
  /\ m_state' = EnsureState(s)
  /\ Unlock(c)
  /\ IF Halts(s) THEN EnterHook(c) /\ UNCHANGED op ELSE Return(c) /\ UNCHANGED runs
  /\ UNCHANGED <<called, future, calls, work, outcomes, owner>>

service_stop(c) == Halt(c, "stop", Stopping)

service_kill(c) == Halt(c, "kill", Killing)

\* do_service_stop or do_service_kill returned: the work will end.
HaltReturns(c) ==
  /\ InHook(c, "stop") \/ InHook(c, "kill")
  /\ work' = "ended"
  /\ Return(c)
  /\ UNCHANGED <<m_state, m_mutex, called, future, calls, runs, outcomes, owner>>

\* do_service_stop or do_service_kill threw, and the work goes on.
HaltThrows(c) ==
  /\ InHook(c, "stop") \/ InHook(c, "kill")
  /\ Throw(c)
  /\ UNCHANGED <<m_state, m_mutex, called, future, calls, work, runs, outcomes, owner>>

\* A do_service_stop that calls service_kill (control plane and gRPC servers).
StopKills(c) ==
  /\ InHook(c, "stop")
  /\ pc' = [pc EXCEPT ![c] = "entry"]
  /\ op' = [op EXCEPT ![c] = "kill"]
  /\ UNCHANGED <<m_state, m_mutex, called, future, calls, work, runs, outcomes, owner>>

\* The work of the service comes to its end by itself.
WorkEnds ==
  /\ work = "active"
  /\ work' = "ended"
  /\ UNCHANGED <<m_state, m_mutex, called, future, pc, op, calls, runs, outcomes, owner>>

-----------------------------------------------------------------------------
\* Mutant of FirstCall: reentry is not prevented.
EveryCall(a) == TRUE

FirstCall(a) == ~called[a]

\* service_await_live and service_await_join: the first caller runs the hook and
\* keeps the promise, the others wait for the future.
Await(c, a) ==
  /\ Locked(c, a)
  /\ m_state # Initialized
  /\ Unlock(c)
  /\ IF FirstCall(a)
       THEN /\ called' = [called EXCEPT ![a] = TRUE]
            /\ future' = [future EXCEPT ![a] = "pending"]
            /\ EnterHook(c)
       ELSE /\ pc' = [pc EXCEPT ![c] = "get"]
            /\ UNCHANGED <<called, future, runs>>
  /\ UNCHANGED <<m_state, op, calls, work, outcomes, owner>>

service_await_live(c) == Await(c, "await_live")

service_await_join(c) == Await(c, "await_join")

\* do_service_await_live returned or threw; either is put into the promise.
LiveReturns(c, r) ==
  /\ InHook(c, "await_live")
  /\ future' = [future EXCEPT !["await_live"] = r]
  /\ pc' = [pc EXCEPT ![c] = "get"]
  /\ UNCHANGED <<m_state, m_mutex, called, op, calls, work, runs, outcomes, owner>>

\* do_service_await_join returned: the promise is set, and after that, at the end
\* of the try block, the Unwinder advances the state.
JoinReturns(c) ==
  /\ InHook(c, "await_join") /\ work = "ended"
  /\ future' = [future EXCEPT !["await_join"] = "value"]
  /\ pc' = [pc EXCEPT ![c] = "unwind"]
  /\ UNCHANGED <<m_state, m_mutex, called, op, calls, work, runs, outcomes, owner>>

JoinUnwinds(c) ==
  /\ pc[c] = "unwind" /\ Free(c)
  /\ m_state' = Completed
  /\ pc' = [pc EXCEPT ![c] = "get"]
  /\ UNCHANGED <<m_mutex, called, future, op, calls, work, runs, outcomes, owner>>

\* do_service_await_join threw: the Unwinder comes first.  A std::exception is
\* caught and put into the promise; any other leaves the function, and the
\* promise is broken.
JoinThrows(c, handler) ==
  /\ InHook(c, "await_join") /\ work = "ended" /\ Free(c)
  /\ m_state' = Completed
  /\ pc' = [pc EXCEPT ![c] = handler]
  /\ UNCHANGED <<m_mutex, called, future, op, calls, work, runs, outcomes, owner>>

JoinCaught(c) ==
  /\ pc[c] = "catch"
  /\ future' = [future EXCEPT !["await_join"] = "exception"]
  /\ pc' = [pc EXCEPT ![c] = "get"]
  /\ UNCHANGED <<m_state, m_mutex, called, op, calls, work, runs, outcomes, owner>>

JoinEscapes(c) ==
  /\ pc[c] = "escape"
  /\ future' = [future EXCEPT !["await_join"] = "broken"]
  /\ outcomes' = [outcomes EXCEPT !["await_join"] = @ \cup {"exception"}]
  /\ Throw(c)
  /\ UNCHANGED <<m_state, m_mutex, called, calls, work, runs, owner>>

\* Mutant of Reported: only the caller that ran the hook is told of its exception.
ReportedOnce(a) == IF outcomes[a] = {} THEN future[a] ELSE "value"

\* future.get() of a shared future: it returns, rethrows what the promise was given,
\* or throws broken_promise.
Reported(a) == future[a]

FutureGet(c) ==
  /\ pc[c] = "get"
  /\ future[op[c]] \in {"value", "exception", "broken"}
  /\ outcomes' = [outcomes EXCEPT ![op[c]] = @ \cup {Reported(op[c])}]
  /\ IF Reported(op[c]) = "value" THEN Return(c) ELSE Throw(c)
  /\ UNCHANGED <<m_state, m_mutex, called, future, calls, work, runs, owner>>

-----------------------------------------------------------------------------
\* Mutant of DestructorNext: a service that was stopped is not joined.
DestructorKillsOnly == IF m_state = Running THEN "kill" ELSE "destroyed"

\* call_in_destructor: what the destructor does with the state it read.
DestructorNext ==
  IF m_state = Running THEN "kill"
  ELSE IF m_state \notin {Initialized, Completed} THEN "await_join" ELSE "destroyed"

\* The service is destroyed when no other thread is inside a call; nobody holds the
\* mutex that state() locks.
call_in_destructor(c) ==
  /\ owner = "none"
  /\ \A d \in Caller : pc[d] = "idle"
  /\ owner' = c
  /\ pc' = [pc EXCEPT ![c] = IF DestructorNext = "destroyed" THEN "destroyed" ELSE "entry"]
  /\ op' = [op EXCEPT ![c] = IF DestructorNext = "destroyed" THEN @ ELSE DestructorNext]
  /\ UNCHANGED <<m_state, m_mutex, called, future, calls, work, runs, outcomes>>

Operation(c) ==
  \/ Acquire(c)
  \/ service_start(c) \/ service_stop(c) \/ service_kill(c)
  \/ service_await_live(c) \/ service_await_join(c)
  \/ Refused(c)

HookStep(c) ==
  \/ StartReturns(c) \/ StartThrows(c) \/ StopKills(c)
  \/ HaltReturns(c) \/ HaltThrows(c)
  \/ \E r \in {"value", "exception"} : LiveReturns(c, r)
  \/ JoinReturns(c) \/ JoinUnwinds(c) \/ JoinCaught(c) \/ JoinEscapes(c)
  \/ \E handler \in {"catch", "escape"} : JoinThrows(c, handler)
  \/ FutureGet(c)

Next ==
  \/ \E c \in Caller : Operation(c) \/ HookStep(c) \/ call_in_destructor(c)
  \/ \E c \in Caller, o \in Hook : Call(c, o)
  \/ WorkEnds

Spec == Init /\ [][Next]_vars

\* A thread inside an operation goes on, and hooks return.  Nobody need call
\* anything, and the work need not end unless it is stopped.
Fairness == \A c \in Caller : WF_vars(Operation(c)) /\ WF_vars(HookStep(c))

FairSpec == Spec /\ Fairness

-----------------------------------------------------------------------------
(* Properties *)

\* advance_state only moves forward: its CHECK_GE never fails, whichever of the
\* racing start, stop, kill and join gets to the mutex first.
StateOnlyAdvances == [][m_state' >= m_state]_vars

\* Each hook of the derived class is entered at most once, however many threads
\* start, stop, kill or await at the same time: hooks launch and release resources.
HooksRunOnce == \A h \in Hook : runs[h] <= 1

\* Nobody is told that service_await_live or service_await_join succeeded when another
\* is told that it threw.  A broken promise, which hides the exception, is reported
\* by service_await_join alone, for an exception of the hook that is no
\* std::exception (its catch clause, unlike that of await_live, lets it through), and
\* even then the caller that ran the hook is told of the exception itself.
OutcomesAgree ==
  \A a \in Awaited :
    /\ "value" \in outcomes[a] => outcomes[a] = {"value"}
    /\ "broken" \in outcomes[a] => a = "await_join" /\ "exception" \in outcomes[a]

\* ~Service finds the service never started or completed (its CHECK): the
\* destructor kills and joins whatever state the callers left behind.
DestroyedWhenCompleted ==
  \A c \in Caller : pc[c] = "destroyed" => m_state \in {Initialized, Completed}

Halting(c) == op[c] \in {"stop", "kill"} /\ pc[c] \in {"entry", "locked", "hook"}

Joining(c) == op[c] = "await_join" /\ pc[c] \notin {"idle", "destroyed", "terminated"}

\* service_stop and service_kill get the mutex and return, also while other threads
\* are in hooks or wait in service_await_join for the end that only they can bring
\* about, and also when do_service_stop calls service_kill.  Once the work has ended,
\* every caller of service_await_join comes back, whatever its hook threw.
CallsReturn ==
  \A c \in Caller :
    /\ Halting(c) ~> ~Halting(c)
    /\ (Joining(c) /\ work = "ended") ~> ~Joining(c)

\* A call of service_await_join returns when the service is completed: the state
\* is set to Completed before the future is released.
JoinedWhenCompleted ==
  [][\A c \in Caller : op[c] = "await_join" /\ pc[c] = "get" /\ pc'[c] # "get" => m_state = Completed]_vars
=============================================================================
