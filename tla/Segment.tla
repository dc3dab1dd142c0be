------------------------------ MODULE Segment ------------------------------
(***************************************************************************)
(* mrc::segment::SegmentInstance running a graph of RxSource, RxNode and   *)
(* RxSink over BufferedChannel edges: the order in which runners are       *)
(* launched, how stop and kill reach them, how data and the end of data    *)
(* flow along an edge, how the failure of a node kills the segment, and    *)
(* what service_await_join reports.                                        *)
(*                                                                         *)
(* Every node is run by one instance (Runner.tla models several), has at   *)
(* most one edge in and one edge out, and reads the channel of its edge.   *)
(***************************************************************************)
EXTENDS Naturals, Sequences, FiniteSets

CONSTANTS
  Node,         \* the nodes of the segment
  Upstream,     \* Upstream[n] is the node that writes to n; its domain is not the sources
  LaunchOrder,  \* the nodes in the order in which their runners are launched
  Capacity,     \* elements a channel holds
  MaxItems      \* bound: elements each source emits

Reader == DOMAIN Upstream
Source == Node \ Reader
Downstream(n) == {r \in Reader : Upstream[r] = n}

ASSUME SegmentAssumption ==
  /\ Reader \subseteq Node /\ Upstream \in [Reader -> Node]
  /\ \A n \in Node : Cardinality(Downstream(n)) <= 1
  /\ LaunchOrder \in Seq(Node)
  /\ \A n \in Node : \E i \in 1 .. Len(LaunchOrder) : LaunchOrder[i] = n
  /\ \A i, j \in 1 .. Len(LaunchOrder) : LaunchOrder[i] = LaunchOrder[j] => i = j
  /\ Capacity \in Nat \ {0} /\ MaxItems \in Nat

\* enum ServiceState, as far as a segment that starts without error uses it.
Starting == 1
Running == 2
Stopping == 3
Killing == 4
Completed == 5

VARIABLES
  m_state,     \* of the segment service
  launched,    \* how many runners do_service_start has launched
  started,     \* service_start has returned
  pc,          \* where the instance of each node is
  subscribed,  \* the subscription of each node
  failed,      \* m_exception_ptr of each node's context
  item,        \* the element each node is writing
  chan,        \* the channel each reader reads
  closed,      \* that channel is closed
  sent,        \* history: what each node wrote to its edge, or discarded for want of one
  taken,       \* history: what each reader gave to its observer
  user,        \* the controller: idle or inside a stop or kill hook
  join         \* service_await_join

edges == <<item, chan, closed, sent, taken>>
vars == <<m_state, launched, started, pc, subscribed, failed, user, join, edges>>

Init ==
  /\ m_state = Starting
  /\ launched = 0
  /\ started = FALSE
  /\ pc = [n \in Node |-> "none"]
  /\ subscribed = [n \in Node |-> TRUE]
  /\ failed = [n \in Node |-> FALSE]
  /\ item = [n \in Node |-> 0]
  /\ chan = [r \in Reader |-> << >>]
  /\ closed = [r \in Reader |-> FALSE]
  /\ sent = [n \in Node |-> << >>]
  /\ taken = [r \in Reader |-> << >>]
  /\ user = "idle"
  /\ join = "none"

GoTo(n, p) == pc' = [pc EXCEPT ![n] = p]

Launched == {LaunchOrder[i] : i \in 1 .. launched}

-----------------------------------------------------------------------------
(* The segment service *)

\* do_service_start: launcher->ignition() for each runner in turn.
Launch ==
  /\ ~started /\ launched < Len(LaunchOrder)
  /\ launched' = launched + 1
  /\ GoTo(LaunchOrder[launched + 1], "loop")
  /\ UNCHANGED <<m_state, started, subscribed, failed, user, join, edges>>

\* ensure_state(Running) at the end of service_start.
StartReturns ==
  /\ ~started /\ launched = Len(LaunchOrder)
  /\ started' = TRUE
  /\ m_state' = IF m_state < Running THEN Running ELSE m_state
  /\ UNCHANGED <<launched, pc, subscribed, failed, user, join, edges>>

\* service_stop or service_kill by the controller, which started the segment.
service_halt(s, hook) ==
  /\ started /\ user = "idle" /\ m_state < s
  /\ m_state' = s
  /\ user' = hook
  /\ UNCHANGED <<launched, started, pc, subscribed, failed, join, edges>>

\* Mutant of OnStop: nodes and sinks unsubscribe as well.
OnStopAll == Launched

\* The nodes that Runner::stop unsubscribes: on_stop of RxNode and RxSink is empty.
OnStop == Launched \cap Source

\* Mutant of OnKill: the runners of m_runners are forgotten.
OnKillPorts == {}

\* The nodes that do_service_kill unsubscribes: those of the runners launched so far.
OnKill == Launched

Unsubscribe(S) == subscribed' = [n \in Node |-> subscribed[n] /\ n \notin S]

do_service_stop ==
  /\ user = "stop"
  /\ Unsubscribe(OnStop)
  /\ user' = "idle"
  /\ UNCHANGED <<m_state, launched, started, pc, failed, join, edges>>

do_service_kill ==
  /\ user = "kill"
  /\ Unsubscribe(OnKill)
  /\ user' = "idle"
  /\ UNCHANGED <<m_state, launched, started, pc, failed, join, edges>>

\* service_await_join is called once the pipeline is joinable.
JoinBegin ==
  /\ started /\ join = "none"
  /\ join' = "joining"
  /\ UNCHANGED <<m_state, launched, started, pc, subscribed, failed, user, edges>>

\* Mutant of JoinThrows: only an exception of the last runner joined is kept.
JoinThrowsLast == failed[LaunchOrder[Len(LaunchOrder)]]

\* The first exception of the runners is rethrown after all are joined.
JoinThrows == \E n \in Launched : failed[n]

do_service_await_join ==
  /\ join = "joining"
  /\ \A n \in Launched : pc[n] = "done"
  /\ join' = IF JoinThrows THEN "threw" ELSE "joined"
  /\ m_state' = Completed
  /\ UNCHANGED <<launched, started, pc, subscribed, failed, user, edges>>

-----------------------------------------------------------------------------
(* The nodes *)

\* The observable of a source calls on_next, while it is subscribed.
Emit(n) ==
  /\ n \in Source /\ pc[n] = "loop" /\ subscribed[n]
  /\ Len(sent[n]) < MaxItems
  /\ item' = [item EXCEPT ![n] = Len(sent[n]) + 1]
  /\ GoTo(n, "writing")
  /\ UNCHANGED <<m_state, launched, started, subscribed, failed, user, join,
                 chan, closed, sent, taken>>

\* Mutant of Full: one element too many.
OverFull(r) == Len(chan[r]) > Capacity

\* A push to the channel of r blocks.
Full(r) == Len(chan[r]) >= Capacity

\* await_write returns; with no edge the element is dropped (NullWritableEdge).
AwaitWrite(n) ==
  /\ pc[n] = "writing"
  /\ \A r \in Downstream(n) : ~Full(r)
  /\ chan' = [r \in Reader |-> IF r \in Downstream(n) THEN Append(chan[r], item[n]) ELSE chan[r]]
  /\ sent' = [sent EXCEPT ![n] = Append(@, item[n])]
  /\ GoTo(n, "loop")
  /\ UNCHANGED <<m_state, launched, started, subscribed, failed, user, join,
                 item, closed, taken>>

\* progress_engine tests is_subscribed(), then blocks in await_read.
LoopTest(n) ==
  /\ n \in Reader /\ pc[n] = "loop" /\ subscribed[n]
  /\ GoTo(n, "reading")
  /\ UNCHANGED <<m_state, launched, started, subscribed, failed, user, join, edges>>

\* await_read succeeds and the element goes to the observer, which passes it on to
\* the edge out, if there is one; an unsubscribed observer drops it.
AwaitRead(n) ==
  /\ pc[n] = "reading" /\ chan[n] # << >>
  /\ chan' = [chan EXCEPT ![n] = Tail(@)]
  /\ IF subscribed[n]
       THEN /\ taken' = [taken EXCEPT ![n] = Append(@, Head(chan[n]))]
            /\ item' = [item EXCEPT ![n] = Head(chan[n])]
            /\ GoTo(n, IF Downstream(n) = {} THEN "loop" ELSE "writing")
       ELSE GoTo(n, "loop") /\ UNCHANGED <<taken, item>>
  /\ UNCHANGED <<m_state, launched, started, subscribed, failed, user, join, closed, sent>>

\* The observable or the observer throws: Context::set_exception kills the
\* runner of this node, and subscribe() returns.
Fail(n) ==
  /\ \/ n \in Source /\ pc[n] = "loop"
     \/ n \in Reader /\ pc[n] = "reading" /\ chan[n] # << >>
  /\ subscribed[n]
  /\ failed' = [failed EXCEPT ![n] = TRUE]
  /\ Unsubscribe({n})
  /\ chan' = IF n \in Reader THEN [chan EXCEPT ![n] = Tail(@)] ELSE chan
  /\ GoTo(n, "shutdown")
  /\ UNCHANGED <<m_state, launched, started, user, join, item, closed, sent, taken>>

\* A source completes by itself, or stops when it is unsubscribed; a reader ends
\* when it is unsubscribed or its channel is closed and empty.
MustEnd(n) ==
  \/ pc[n] = "loop" /\ ~subscribed[n]
  \/ pc[n] = "reading" /\ chan[n] = << >> /\ closed[n]

SubscribeReturns(n) ==
  /\ MustEnd(n) \/ (n \in Source /\ pc[n] = "loop")
  /\ GoTo(n, "shutdown")
  /\ UNCHANGED <<m_state, launched, started, subscribed, failed, user, join, edges>>

\* Mutant of ReleasesEdge: the critical section keeps the edge.
KeepsEdge(n) == {}

\* The channels that release_edge_connection closes.  A node that ends keeps its
\* own input channel as it is, open for its writer.
ReleasesEdge(n) == Downstream(n)

\* on_shutdown_critical_section; the runner then completes.
Shutdown(n) ==
  /\ pc[n] = "shutdown"
  /\ closed' = [r \in Reader |-> closed[r] \/ r \in ReleasesEdge(n)]
  /\ GoTo(n, "callback")
  /\ UNCHANGED <<m_state, launched, started, subscribed, failed, user, join,
                 item, chan, sent, taken>>

\* on_completion_callback: service_kill() of the segment if the node failed.
Callback(n) ==
  /\ pc[n] = "callback"
  /\ IF failed[n] /\ m_state < Killing
       THEN m_state' = Killing /\ GoTo(n, "kill hook")
       ELSE GoTo(n, "done") /\ UNCHANGED m_state
  /\ UNCHANGED <<launched, started, subscribed, failed, user, join, edges>>

CallbackKills(n) ==
  /\ pc[n] = "kill hook"
  /\ Unsubscribe(OnKill)
  /\ GoTo(n, "done")
  /\ UNCHANGED <<m_state, launched, started, failed, user, join, edges>>

-----------------------------------------------------------------------------
ServiceStep == Launch \/ StartReturns \/ do_service_stop \/ do_service_kill

NodeStep(n) == AwaitWrite(n) \/ LoopTest(n) \/ AwaitRead(n) \/ Shutdown(n)
               \/ Callback(n) \/ CallbackKills(n)

Next ==
  \/ ServiceStep
  \/ service_halt(Stopping, "stop") \/ service_halt(Killing, "kill")
  \/ JoinBegin \/ do_service_await_join
  \/ \E n \in Node : NodeStep(n) \/ Emit(n) \/ Fail(n) \/ SubscribeReturns(n)

Spec == Init /\ [][Next]_vars

\* Threads and fibers that can run do run.  A source need not emit or end by
\* itself, no node need fail, and nobody need stop, kill or join the segment.
Fairness ==
  /\ WF_vars(ServiceStep) /\ WF_vars(do_service_await_join)
  /\ \A n \in Node : WF_vars(NodeStep(n)) /\ WF_vars(SubscribeReturns(n) /\ MustEnd(n))

FairSpec == Spec /\ Fairness

-----------------------------------------------------------------------------
(* Properties *)

\* Type invariant: a channel never holds more than its capacity.
TypeOK ==
  /\ m_state \in Starting .. Completed
  /\ launched \in 0 .. Len(LaunchOrder)
  /\ subscribed \in [Node -> BOOLEAN] /\ failed \in [Node -> BOOLEAN]
  /\ \A r \in Reader : Len(chan[r]) <= Capacity
  /\ closed \in [Reader -> BOOLEAN]
  /\ join \in {"none", "joining", "joined", "threw"}

Delivered ==
  \A r \in Reader : /\ taken[r] = sent[Upstream[r]]
                    /\ Downstream(r) # {} => sent[r] = taken[r]

\* service_await_join of a segment that was not killed returns when everything is
\* delivered: each reader took all that was written to its edge, in order, and
\* passed it on.  A stop therefore drains the segment.
JoinedMeansDelivered ==
  [][join' = "joined" /\ m_state # Killing => join = "joined" \/ Delivered]_vars

\* service_await_join throws exactly when a node failed, whichever it was.
JoinReportsFailure ==
  /\ join = "joined" => \A n \in Node : ~failed[n]
  /\ join = "threw" => \E n \in Node : failed[n]

NoFailure == (\A n \in Node : ~failed[n]) /\ m_state # Killing

\* Once every source was stopped or has ended, the segment drains and can be
\* joined: the end of data goes along the edges, past writers that are blocked.
StoppedSegmentJoins ==
  []NoFailure =>
    ((join = "joining" /\ \A n \in Source : ~subscribed[n] \/ pc[n] = "done")
       ~> join = "joined")

Blocked == \E n \in Node : pc[n] = "writing" /\ \E r \in Downstream(n) : Full(r)

\* A kill ends the segment, provided that it finds all runners launched and that
\* no writer stays blocked on the channel of a reader that is gone.
KillEndsJoin ==
  (<>[]~Blocked /\ [](started \/ m_state # Killing)) =>
    ((m_state = Killing /\ join = "joining") ~> join \in {"joined", "threw"})

\* When a node throws, service_await_join of the segment throws, also if the
\* source is infinite.
FailureEndsJoin ==
  (join = "joining" /\ \E n \in Node : failed[n]) ~> join = "threw"
=============================================================================
