--------------------------- MODULE PipelineProofs ---------------------------
(***************************************************************************)
(* The safety of Pipeline, for any segments, any updates and any number of *)
(* them.                                                                   *)
(***************************************************************************)
EXTENDS Pipeline, WellFoundedInduction, TLAPS

Place == {"idle", "create", "remove", "start", "stop", "kill", "ended"}

MainPlace == {"new", "push", "started", "kill", "await_joinable", "join_segments",
              "join_controller", "joined", "threw"}

Control == [type : {"Update", "Stop", "Kill"}, addresses : SUBSET Segment]

\* The controller is in Controller::update.
Updating == ctl.at \in {"create", "remove", "start"}

Started(s) == seg[s] # Initialized

\* The join of the pipeline instance has dealt with segment s.
Passed(s) == \/ main = "join_segments" /\ s <= cursor
             \/ main \in {"join_controller", "joined", "threw"}

\* With a segment of S, all that it feeds are in S.
Closed(S) == \A s \in S, d \in Segment : s \in Upstream[d] => d \in S

Places ==
  /\ ctl \in [at : Place, todo : SUBSET Segment] /\ main \in MainPlace
  /\ target \in SUBSET Segment /\ m_segments \in SUBSET Segment /\ missed \in SUBSET Segment

Numbers ==
  /\ pipe \in Initialized .. Completed /\ seg \in [Segment -> Initialized .. Completed]
  /\ cursor \in Nat /\ pushed \in Nat

Marks ==
  /\ work \in [Segment -> {"none", "active", "ended"}]
  /\ told \in [Segment -> {"no", "stop", "kill"}]

Flags == failed \in [Segment -> BOOLEAN]

\* Messages to the controller.
Proper(q) ==
  /\ q \in Seq(Control)
  /\ \A i \in 1 .. Len(q) : q[i].type = "Update" => q[i].addresses \in Updates

NoUpdate(q) == \A i \in 1 .. Len(q) : q[i].type # "Update"
OneUpdate(q) == \A i, j \in 1 .. Len(q) : q[i].type = "Update" /\ q[j].type = "Update" => i = j

\* An exception of an update is rethrown at the end of the kill it brings about.
Failures ==
  /\ failing => ctl.at = "kill" \/ (ctl.at = "ended" /\ ctlFailed)
  /\ ctlFailed => ctl.at = "ended"

\* What an update has done, and what is left to do.
Progress ==
  /\ Updating => target \in Updates
  /\ ctl.at = "create" => target \subseteq m_segments \cup ctl.todo
  /\ ctl.at \in {"remove", "start"} => target \subseteq m_segments
  /\ ctl.at = "remove" => ctl.todo \subseteq m_current_segments
  /\ ctl.at \in {"start", "stop", "kill"} => ctl.todo \subseteq m_segments
  /\ ctl.at = "start" => \A s \in m_segments \ ctl.todo : Started(s)

\* A segment runs from its start on.
Lives ==
  /\ m_current_segments \subseteq m_segments /\ \A s \in m_current_segments : Started(s)
  /\ \A s \in Segment : /\ Started(s) => s \in m_segments
                        /\ Started(s) <=> work[s] # "none"
                        /\ failed[s] => Started(s)

\* Once the pipeline is joinable, an update that is not overtaken is bound to
\* fail, at a segment that was started before.
SecondFails ==
  /\ joinable /\ ~overtaken /\ ~failing =>
       IF Updating
         THEN \E s \in m_segments : Started(s) /\ (ctl.at = "start" => s \in ctl.todo)
         ELSE \A s \in m_segments : Started(s)
  /\ joinable /\ pipe < Stopping => m_segments # {} /\ target # {}
  /\ ~joinable => pipe < Stopping
  /\ ~joinable /\ ~Updating => m_segments = {}

\* What the join of the pipeline instance has found, unless an update goes on.
JoinedSegments ==
  /\ main \in {"join_segments", "join_controller", "joined", "threw"} => joinable
  /\ main \in {"new", "push", "started", "kill", "await_joinable"} => cursor = 0
  /\ ~overtaken /\ ~failing /\ ~Updating =>
       \A s \in m_segments : Passed(s) => work[s] = "ended" /\ (failed[s] => thrown)

Outcome ==
  /\ main \in {"joined", "threw"} => ctl.at = "ended"
  /\ main = "joined" => ~ctlFailed /\ ~thrown

\* The messages of a single update.
Single ==
  /\ main \in {"new", "push"} => pushed = 0
  /\ pushed = 0 => pusher # "write" /\ NoUpdate(channel) /\ target = {}
  /\ pushed = 1 => OneUpdate(channel)
  /\ pushed = 1 /\ target # {} => NoUpdate(channel)

\* Its segments are started in order, and before the join looks at them.
SingleStarts ==
  /\ pushed <= 1 /\ target = {} => m_segments = {}
  /\ pushed <= 1 /\ ctl.at \in {"create", "remove"} => \A s \in Segment : ~Started(s)
  /\ pushed <= 1 => \A s, t \in m_segments : t < s /\ ~Started(t) => ~Started(s)

SingleJoins ==
  pushed = 1 /\ ~overtaken =>
    /\ joinable => ~Updating
    /\ \A s \in m_segments : Passed(s) => work[s] # "active"

\* A kill of s has been called, or can do nothing: its start threw halfway.
Reached(s) == told[s] = "kill" \/ seg[s] = Completed

\* Who was killed was told so, unless its start threw.
Told ==
  \A s \in Segment : /\ told[s] = "kill" => Killing <= seg[s]
                     /\ work[s] = "active" /\ Killing <= seg[s] => Reached(s)

\* A segment the kill did not get to.
Spared(s) == s \in missed /\ pushed > 1 /\ \E t \in missed : t < s /\ ~Started(t)

Kills ==
  /\ ctl.at = "stop" => pipe # Killing
  /\ Updating /\ ~overtaken => pipe # Stopping /\ pipe # Killing
  /\ pipe = Killing /\ ~overtaken =>
       /\ ctl.at = "kill" =>
            \A s \in m_segments \ ctl.todo : work[s] = "active" => Reached(s)
       /\ ctl.at \in {"idle", "ended"} =>
            \A s \in m_segments : work[s] = "active" => Reached(s) \/ Spared(s)

Wires ==
  /\ wired \subseteq m_segments /\ Closed(wired)
  /\ \A s \in Segment : work[s] = "active" => s \in wired
  /\ ctl.at = "start" => wired = m_segments
  /\ ctl.at = "create" => Closed(m_segments \cup ctl.todo)
  /\ ctl.at # "create" /\ ~failing => Closed(m_segments)

IInv ==
  /\ Places /\ Numbers /\ Marks /\ Flags /\ Proper(channel) /\ Failures /\ Progress /\ Lives
  /\ SecondFails /\ JoinedSegments /\ Outcome /\ Single /\ SingleStarts /\ SingleJoins
  /\ Told /\ Kills /\ Wires

-----------------------------------------------------------------------------
(* Minima and messages *)

\* std::map is walked in the order of addresses.
LEMMA MinIsFirst ==
  ASSUME NEW S, S \subseteq Segment, S # {}
  PROVE  Min(S) \in S /\ \A y \in S : Min(S) <= y
  <1>1. S \subseteq Nat
    BY PipelineAssumption, Zenon
  <1>2. PICK x \in S : \A y \in S : ~(<<y, x>> \in OpToRel(<, Nat))
    BY <1>1, NatLessThanWellFounded, WFMin, Zenon
  <1>3. \A y \in S : x <= y
    <2> SUFFICES ASSUME NEW y \in S PROVE x <= y
      BY Zenon
    <2>1. ~(<<y, x>> \in OpToRel(<, Nat))
      BY <1>2, Zenon
    <2>2. x \in Nat /\ y \in Nat
      BY <1>1, Zenon
    <2> QED
      BY <2>1, <2>2 DEF OpToRel
  <1> QED
    BY <1>3, Zenon DEF Min

\* A message that is no update is written.
LEMMA WriteOther ==
  ASSUME NEW q, Proper(q), NEW m \in Control, m.type # "Update"
  PROVE  /\ Proper(Append(q, m))
         /\ NoUpdate(q) => NoUpdate(Append(q, m))
         /\ OneUpdate(q) => OneUpdate(Append(q, m))
  <1>1. /\ q \in Seq(Control) /\ Append(q, m) \in Seq(Control) /\ Len(q) \in Nat
        /\ Len(Append(q, m)) = Len(q) + 1
        /\ \A i \in 1 .. Len(q) : Append(q, m)[i] = q[i]
        /\ Append(q, m)[Len(q) + 1] = m
    BY DEF Proper
  <1> DEFINE r == Append(q, m)
  <1> HIDE DEF r
  <1>2. \A i \in 1 .. Len(r) : r[i].type = "Update" => i \in 1 .. Len(q) /\ r[i] = q[i]
    BY <1>1 DEF r
  <1>3. Proper(r)
    BY <1>1, <1>2, Zenon DEF Proper, r
  <1>4. (NoUpdate(q) => NoUpdate(r)) /\ (OneUpdate(q) => OneUpdate(r))
    BY <1>2, Zenon DEF NoUpdate, OneUpdate
  <1> QED
    BY <1>3, <1>4, Zenon DEF r

\* An update is written.
LEMMA WriteUpdate ==
  ASSUME NEW q, Proper(q), NEW m \in Control, m.addresses \in Updates
  PROVE  Proper(Append(q, m)) /\ (NoUpdate(q) => OneUpdate(Append(q, m)))
  <1>1. /\ q \in Seq(Control) /\ Append(q, m) \in Seq(Control) /\ Len(q) \in Nat
        /\ Len(Append(q, m)) = Len(q) + 1
        /\ \A i \in 1 .. Len(q) : Append(q, m)[i] = q[i]
        /\ Append(q, m)[Len(q) + 1] = m
    BY DEF Proper
  <1> DEFINE r == Append(q, m)
  <1> HIDE DEF r
  <1>2. \A i \in 1 .. Len(r) : \/ i \in 1 .. Len(q) /\ r[i] = q[i]
                               \/ i = Len(q) + 1 /\ r[i] = m
    BY <1>1 DEF r
  <1>3. Proper(r)
    BY <1>1, <1>2, Zenon DEF Proper, r
  <1>4. NoUpdate(q) => OneUpdate(r)
    BY <1>2, Zenon DEF NoUpdate, OneUpdate
  <1> QED
    BY <1>3, <1>4, Zenon DEF r

\* The oldest message is read.
LEMMA ReadMessage ==
  ASSUME NEW q, Proper(q), q # << >>
  PROVE  /\ Proper(Tail(q)) /\ Head(q) \in Control
         /\ Head(q).type = "Update" => Head(q).addresses \in Updates
         /\ NoUpdate(q) => NoUpdate(Tail(q)) /\ Head(q).type # "Update"
         /\ OneUpdate(q) => OneUpdate(Tail(q))
         /\ OneUpdate(q) /\ Head(q).type = "Update" => NoUpdate(Tail(q))
  <1>1. /\ q \in Seq(Control) /\ Tail(q) \in Seq(Control) /\ Len(q) \in Nat \ {0}
        /\ Len(Tail(q)) = Len(q) - 1 /\ Head(q) = q[1] /\ Head(q) \in Control
        /\ \A i \in 1 .. Len(q) - 1 : Tail(q)[i] = q[i + 1]
    BY DEF Proper
  <1> DEFINE r == Tail(q)
  <1> HIDE DEF r
  <1>2. 1 \in 1 .. Len(q)
    BY <1>1
  <1>3. \A i \in 1 .. Len(r) : i + 1 \in 1 .. Len(q) /\ r[i] = q[i + 1] /\ i + 1 # 1
    BY <1>1 DEF r
  <1>4. \A i, j \in 1 .. Len(r) : i + 1 = j + 1 => i = j
    BY <1>1 DEF r
  <1>5. Proper(r)
    BY <1>1, <1>3, Zenon DEF Proper, r
  <1>6. /\ NoUpdate(q) => NoUpdate(r) /\ q[1].type # "Update"
        /\ q[1].type = "Update" => q[1].addresses \in Updates
    BY <1>2, <1>3, Zenon DEF NoUpdate, Proper
  <1>7. OneUpdate(q) => OneUpdate(r)
    BY <1>3, <1>4, Zenon DEF OneUpdate
  <1>8. OneUpdate(q) /\ q[1].type = "Update" => NoUpdate(r)
    BY <1>2, <1>3, Zenon DEF OneUpdate, NoUpdate
  <1> QED
    BY <1>1, <1>5, <1>6, <1>7, <1>8, Zenon DEF r

-----------------------------------------------------------------------------
(* What a step leaves alone, it keeps. *)

\* Nobody moves.
LEMMA PlacesKept ==
  ASSUME Places, UNCHANGED <<ctl, main, target, m_segments, missed>>
  PROVE  Places'
  BY Zenon DEF Places

\* No state and no count changes.
LEMMA NumbersKept ==
  ASSUME Numbers, UNCHANGED <<pipe, seg, cursor, pushed>>
  PROVE  Numbers'
  BY Zenon DEF Numbers

\* No segment ends or is told to.
LEMMA MarksKept ==
  ASSUME Marks, UNCHANGED <<work, told>>
  PROVE  Marks'
  BY Zenon DEF Marks

\* No node fails.
LEMMA FlagsKept ==
  ASSUME Flags, UNCHANGED <<failed>>
  PROVE  Flags'
  BY Zenon DEF Flags

\* The controller stays where it is.
LEMMA FailuresKept ==
  ASSUME Failures, UNCHANGED <<failing, ctl, ctlFailed>>
  PROVE  Failures'
  BY Zenon DEF Failures

\* No update goes on.
LEMMA ProgressKept ==
  ASSUME Progress, UNCHANGED <<ctl, target, m_segments, m_current_segments, seg>>
  PROVE  Progress'
  BY Zenon DEF Progress, Updating, Started

\* No segment is created, started or ended.
LEMMA LivesKept ==
  ASSUME Lives, UNCHANGED <<m_current_segments, m_segments, seg, work, failed>>
  PROVE  Lives'
  BY Zenon DEF Lives, Started

\* No update goes on, and the pipeline does not become joinable.
LEMMA SecondFailsKept ==
  ASSUME SecondFails, UNCHANGED <<joinable, overtaken, failing, ctl, m_segments, seg,
         pipe, target>>
  PROVE  SecondFails'
  BY Zenon DEF SecondFails, Updating, Started

\* No segment is joined.
LEMMA JoinedSegmentsKept ==
  ASSUME JoinedSegments, UNCHANGED <<main, cursor, joinable, overtaken, failing, ctl,
         m_segments, work, failed, thrown>>
  PROVE  JoinedSegments'
  BY Zenon DEF JoinedSegments, Updating, Passed

\* No join comes back.
LEMMA OutcomeKept ==
  ASSUME Outcome, UNCHANGED <<main, ctl, ctlFailed, thrown>>
  PROVE  Outcome'
  BY Zenon DEF Outcome

\* Nothing is pushed or read.
LEMMA SingleKept ==
  ASSUME Single, UNCHANGED <<main, pushed, pusher, channel, target>>
  PROVE  Single'
  BY Zenon DEF Single

\* No segment is started.
LEMMA SingleStartsKept ==
  ASSUME SingleStarts, UNCHANGED <<pushed, target, m_segments, ctl, seg>>
  PROVE  SingleStarts'
  BY Zenon DEF SingleStarts, Started

\* No segment is joined or started.
LEMMA SingleJoinsKept ==
  ASSUME SingleJoins, UNCHANGED <<pushed, overtaken, joinable, ctl, m_segments, main,
         cursor, work>>
  PROVE  SingleJoins'
  BY Zenon DEF SingleJoins, Updating, Passed

\* No segment is told anything.
LEMMA ToldKept ==
  ASSUME Told, UNCHANGED <<told, seg, work>>
  PROVE  Told'
  BY Zenon DEF Told, Reached

\* No kill goes on.
LEMMA KillsKept ==
  ASSUME Kills, UNCHANGED <<ctl, pipe, overtaken, m_segments, work, told, missed,
         pushed, seg>>
  PROVE  Kills'
  BY Zenon DEF Kills, Reached, Updating, Started, Spared

\* No segment is connected.
LEMMA WiresKept ==
  ASSUME Wires, UNCHANGED <<wired, m_segments, work, ctl, failing>>
  PROVE  Wires'
  BY Zenon DEF Wires

\* Steps that start no segment.
LEMMA SameStarts ==
  ASSUME Places, \A x \in Segment : (Started(x)' <=> Started(x)),
         UNCHANGED <<ctl, target, m_segments, m_current_segments, joinable, overtaken, failing,
                     pipe, pushed>>
  PROVE  /\ Progress => Progress'
         /\ SecondFails => SecondFails'
         /\ SingleStarts => SingleStarts'
  <1>1. m_segments \subseteq Segment
    BY Zenon DEF Places
  <1>2. Updating' <=> Updating
    BY Zenon DEF Updating
  <1>3. Progress => Progress'
    BY <1>1, <1>2, Zenon DEF Progress
  <1>4. SecondFails => SecondFails'
    BY <1>1, <1>2, Zenon DEF SecondFails
  <1>5. SingleStarts => SingleStarts'
    BY <1>1, Zenon DEF SingleStarts
  <1> QED
    BY <1>3, <1>4, <1>5, Zenon

\* ... and spare the same ones.
LEMMA SameSpared ==
  ASSUME Places, \A x \in Segment : (Started(x)' <=> Started(x)), UNCHANGED <<missed, pushed>>
  PROVE  \A s : Spared(s)' <=> Spared(s)
  <1>1. missed \subseteq Segment
    BY Zenon DEF Places
  <1> QED
    BY <1>1, Zenon DEF Spared

-----------------------------------------------------------------------------
(* One lemma per action: the invariant is kept. *)

\* The executor is started.
LEMMA StartKeepsInv == ASSUME IInv, start PROVE IInv'
  <1>0. Places /\ Numbers /\ Marks /\ Flags /\ Proper(channel) /\ Failures /\ Progress
        /\ Lives /\ SecondFails /\ JoinedSegments /\ Outcome /\ Single /\ SingleStarts /\
        SingleJoins /\ Told /\ Kills /\ Wires
    BY Zenon DEF IInv
  <1>1. main = "new" /\ main' = "push"
    BY Zenon DEF start
  <1>2. UNCHANGED <<pipe, channel, target, failing, ctlFailed, m_current_segments,
                  ctl, m_segments, seg, work, told, failed, wired, joinable, cursor, thrown,
                  pusher, pushed, overtaken, missed>>
    BY Zenon DEF start, services, control, segments, users, history
  <1>3. Places'
    BY <1>0, <1>1, <1>2, Zenon DEF Places, Place, MainPlace
  <1>4. JoinedSegments'
    BY <1>0, <1>1, <1>2, Zenon DEF JoinedSegments, Updating, Passed
  <1>5. Outcome'
    BY <1>0, <1>1, <1>2, Zenon DEF Outcome
  <1>6. Single'
    BY <1>0, <1>1, <1>2, Zenon DEF Single
  <1>7. SingleJoins'
    BY <1>0, <1>1, <1>2, Zenon DEF SingleJoins, Updating, Passed
  <1>8. Numbers' /\ Marks' /\ Flags' /\ Proper(channel') /\ Failures' /\ Progress' /\ Lives'
        /\ SecondFails' /\ SingleStarts' /\ Told' /\ Kills' /\ Wires'
    BY <1>0, <1>2, NumbersKept, MarksKept, FlagsKept, FailuresKept, ProgressKept,
       LivesKept, SecondFailsKept, SingleStartsKept, ToldKept, KillsKept, WiresKept, Zenon
  <1> QED
    BY <1>3, <1>4, <1>5, <1>6, <1>7, <1>8, Zenon DEF IInv

\* The executor pushes its update.
LEMMA ServiceStartKeepsInv == ASSUME IInv, NEW A \in Updates, do_service_start(A) PROVE IInv'
  <1>0. Places /\ Numbers /\ Marks /\ Flags /\ Proper(channel) /\ Failures /\ Progress
        /\ Lives /\ SecondFails /\ JoinedSegments /\ Outcome /\ Single /\ SingleStarts /\
        SingleJoins /\ Told /\ Kills /\ Wires
    BY Zenon DEF IInv
  <1>1. main = "push" /\ main' = "started" /\ pushed' = pushed + 1
    BY Zenon DEF do_service_start
  <1>2. channel' = channel \/ channel' = Append(channel, Message("Update", A))
    BY Zenon DEF do_service_start, AwaitWrite
  <1>3. Message("Update", A) \in Control /\ Message("Update", A).addresses \in Updates
    BY PipelineAssumption, Zenon DEF Control, Message
  <1>4. /\ pushed = 0 /\ pushed <= 1 /\ ~(pushed > 1)
        /\ pushed' = 1 /\ pushed' # 0 /\ pushed' \in Nat
    <2>1. pushed = 0
      BY <1>0, <1>1, Zenon DEF Single
    <2> QED
      BY <1>1, <2>1
  <1>5. Proper(channel') /\ OneUpdate(channel') /\ target = {}
    <2>1. NoUpdate(channel) /\ target = {}
      BY <1>0, <1>4, Zenon DEF Single
    <2>2. NoUpdate(channel) => OneUpdate(channel)
      BY Zenon DEF NoUpdate, OneUpdate
    <2> QED
      BY <1>0, <1>2, <1>3, <2>1, <2>2, WriteUpdate, Zenon
  <1>6. ~Updating
    BY <1>0, <1>5, PipelineAssumption, Zenon DEF Progress
  <1>7. UNCHANGED <<pipe, target, failing, ctlFailed, m_current_segments, ctl,
                  m_segments, seg, work, told, failed, wired, joinable, cursor, thrown,
                  pusher, overtaken, missed>>
    BY Zenon DEF do_service_start, AwaitWrite, Message, services, control, segments, users,
       history
  <1>8. Places'
    BY <1>0, <1>1, <1>3, <1>7, Zenon DEF Places, Place, MainPlace
  <1>9. Numbers'
    BY <1>0, <1>1, <1>4, <1>7, Zenon DEF Numbers
  <1>10. JoinedSegments'
    BY <1>0, <1>1, <1>6, <1>7, Zenon DEF JoinedSegments, Updating, Passed
  <1>11. Outcome'
    BY <1>0, <1>1, <1>6, <1>7, Zenon DEF Outcome
  <1>12. Single'
    BY <1>0, <1>1, <1>2, <1>4, <1>5, <1>7, Zenon DEF Single
  <1>13. SingleStarts'
    BY <1>0, <1>1, <1>4, <1>5, <1>6, <1>7, Zenon DEF SingleStarts, Started
  <1>14. SingleJoins'
    BY <1>0, <1>1, <1>4, <1>6, <1>7, Zenon DEF SingleJoins, Updating, Passed
  <1>15. Kills'
    BY <1>0, <1>1, <1>4, <1>6, <1>7, Zenon DEF Kills, Reached, Updating, Started, Spared
  <1>16. Marks' /\ Flags' /\ Failures' /\ Progress' /\ Lives' /\ SecondFails' /\ Told' /\
        Wires'
    BY <1>0, <1>7, MarksKept, FlagsKept, FailuresKept, ProgressKept, LivesKept,
       SecondFailsKept, ToldKept, WiresKept, Zenon
  <1> QED
    BY <1>8, <1>9, <1>10, <1>11, <1>12, <1>13, <1>14, <1>15, <1>16, <1>5, Zenon DEF IInv

\* join() is called.
LEMMA JoinKeepsInv == ASSUME IInv, join PROVE IInv'
  <1>0. Places /\ Numbers /\ Marks /\ Flags /\ Proper(channel) /\ Failures /\ Progress
        /\ Lives /\ SecondFails /\ JoinedSegments /\ Outcome /\ Single /\ SingleStarts /\
        SingleJoins /\ Told /\ Kills /\ Wires
    BY Zenon DEF IInv
  <1>1. main = "started" /\ main' = "await_joinable"
    BY Zenon DEF join, Join
  <1>2. UNCHANGED <<pipe, channel, target, failing, ctlFailed, m_current_segments,
                  ctl, m_segments, seg, work, told, failed, wired, joinable, cursor, thrown,
                  pusher, pushed, overtaken, missed>>
    BY Zenon DEF join, Join, services, control, segments, users, history
  <1>3. Places'
    BY <1>0, <1>1, <1>2, Zenon DEF Places, Place, MainPlace
  <1>4. JoinedSegments'
    BY <1>0, <1>1, <1>2, Zenon DEF JoinedSegments, Updating, Passed
  <1>5. Outcome'
    BY <1>0, <1>1, <1>2, Zenon DEF Outcome
  <1>6. Single'
    BY <1>0, <1>1, <1>2, Zenon DEF Single
  <1>7. SingleJoins'
    BY <1>0, <1>1, <1>2, Zenon DEF SingleJoins, Updating, Passed
  <1>8. Numbers' /\ Marks' /\ Flags' /\ Proper(channel') /\ Failures' /\ Progress' /\ Lives'
        /\ SecondFails' /\ SingleStarts' /\ Told' /\ Kills' /\ Wires'
    BY <1>0, <1>2, NumbersKept, MarksKept, FlagsKept, FailuresKept, ProgressKept,
       LivesKept, SecondFailsKept, SingleStartsKept, ToldKept, KillsKept, WiresKept, Zenon
  <1> QED
    BY <1>3, <1>4, <1>5, <1>6, <1>7, <1>8, Zenon DEF IInv

\* The executor is destroyed.
LEMMA DestroyKeepsInv == ASSUME IInv, destroy PROVE IInv'
  <1>0. Places /\ Numbers /\ Marks /\ Flags /\ Proper(channel) /\ Failures /\ Progress
        /\ Lives /\ SecondFails /\ JoinedSegments /\ Outcome /\ Single /\ SingleStarts /\
        SingleJoins /\ Told /\ Kills /\ Wires
    BY Zenon DEF IInv
  <1>1. main = "started" /\ main' \in {"kill", "await_joinable"} /\ pusher' = "gone"
    BY Zenon DEF destroy
  <1>2. UNCHANGED <<pipe, channel, target, failing, ctlFailed, m_current_segments,
                  ctl, m_segments, seg, work, told, failed, wired, joinable, cursor, thrown,
                  pushed, overtaken, missed>>
    BY Zenon DEF destroy, services, control, segments, users, history
  <1>3. Places'
    BY <1>0, <1>1, <1>2, Zenon DEF Places, Place, MainPlace
  <1>4. JoinedSegments'
    BY <1>0, <1>1, <1>2, Zenon DEF JoinedSegments, Updating, Passed
  <1>5. Outcome'
    BY <1>0, <1>1, <1>2, Zenon DEF Outcome
  <1>6. Single'
    BY <1>0, <1>1, <1>2, Zenon DEF Single
  <1>7. SingleJoins'
    BY <1>0, <1>1, <1>2, Zenon DEF SingleJoins, Updating, Passed
  <1>8. Numbers' /\ Marks' /\ Flags' /\ Proper(channel') /\ Failures' /\ Progress' /\ Lives'
        /\ SecondFails' /\ SingleStarts' /\ Told' /\ Kills' /\ Wires'
    BY <1>0, <1>2, NumbersKept, MarksKept, FlagsKept, FailuresKept, ProgressKept,
       LivesKept, SecondFailsKept, SingleStartsKept, ToldKept, KillsKept, WiresKept, Zenon
  <1> QED
    BY <1>3, <1>4, <1>5, <1>6, <1>7, <1>8, Zenon DEF IInv

\* The manager writes a kill.
LEMMA KillHookKeepsInv == ASSUME IInv, do_service_kill PROVE IInv'
  <1>0. Places /\ Numbers /\ Marks /\ Flags /\ Proper(channel) /\ Failures /\ Progress
        /\ Lives /\ SecondFails /\ JoinedSegments /\ Outcome /\ Single /\ SingleStarts /\
        SingleJoins /\ Told /\ Kills /\ Wires
    BY Zenon DEF IInv
  <1>1. main = "kill" /\ main' = "await_joinable"
    BY Zenon DEF do_service_kill
  <1>2. channel' = channel \/ channel' = Append(channel, Message("Kill", {}))
    BY Zenon DEF do_service_kill, AwaitWrite
  <1>3. Message("Kill", {}) \in Control /\ Message("Kill", {}).type # "Update"
    BY Zenon DEF Control, Message
  <1>4. Proper(channel') /\ (NoUpdate(channel) => NoUpdate(channel'))
        /\ (OneUpdate(channel) => OneUpdate(channel'))
    BY <1>0, <1>2, <1>3, WriteOther, Zenon
  <1>5. UNCHANGED <<pipe, target, failing, ctlFailed, m_current_segments, ctl,
                  m_segments, seg, work, told, failed, wired, joinable, cursor, thrown,
                  pusher, pushed, overtaken, missed>>
    BY Zenon DEF do_service_kill, AwaitWrite, services, control, segments, users, history
  <1>6. Places'
    BY <1>0, <1>1, <1>5, Zenon DEF Places, Place, MainPlace
  <1>7. JoinedSegments'
    BY <1>0, <1>1, <1>5, Zenon DEF JoinedSegments, Updating, Passed
  <1>8. Outcome'
    BY <1>0, <1>1, <1>5, Zenon DEF Outcome
  <1>9. Single'
    BY <1>0, <1>1, <1>2, <1>4, <1>5, Zenon DEF Single
  <1>10. SingleJoins'
    BY <1>0, <1>1, <1>5, Zenon DEF SingleJoins, Updating, Passed
  <1>11. Numbers' /\ Marks' /\ Flags' /\ Failures' /\ Progress' /\ Lives' /\ SecondFails' /\
        SingleStarts' /\ Told' /\ Kills' /\ Wires'
    BY <1>0, <1>5, NumbersKept, MarksKept, FlagsKept, FailuresKept, ProgressKept,
       LivesKept, SecondFailsKept, SingleStartsKept, ToldKept, KillsKept, WiresKept, Zenon
  <1> QED
    BY <1>6, <1>7, <1>8, <1>9, <1>10, <1>11, <1>4, Zenon DEF IInv

\* The pipeline is joinable.
LEMMA AwaitJoinableKeepsInv == ASSUME IInv, AwaitJoinable PROVE IInv'
  <1>0. Places /\ Numbers /\ Marks /\ Flags /\ Proper(channel) /\ Failures /\ Progress
        /\ Lives /\ SecondFails /\ JoinedSegments /\ Outcome /\ Single /\ SingleStarts /\
        SingleJoins /\ Told /\ Kills /\ Wires
    BY Zenon DEF IInv
  <1>1. main = "await_joinable" /\ joinable /\ main' = "join_segments"
    BY Zenon DEF AwaitJoinable
  <1>2. \A s \in Segment : ~(s <= cursor)
    <2>1. cursor = 0
      BY <1>0, <1>1, Zenon DEF JoinedSegments
    <2> QED
      BY <2>1, PipelineAssumption
  <1>3. m_segments \subseteq Segment
    BY <1>0, Zenon DEF Places
  <1>4. UNCHANGED <<pipe, channel, target, failing, ctlFailed, m_current_segments,
                  ctl, m_segments, seg, work, told, failed, wired, joinable, cursor, thrown,
                  pusher, pushed, overtaken, missed>>
    BY Zenon DEF AwaitJoinable, services, control, segments, users, history
  <1>5. Places'
    BY <1>0, <1>1, <1>2, <1>4, Zenon DEF Places, Place, MainPlace
  <1>6. JoinedSegments'
    BY <1>0, <1>1, <1>2, <1>3, <1>4, Zenon DEF JoinedSegments, Updating, Passed
  <1>7. Outcome'
    BY <1>0, <1>1, <1>4, Zenon DEF Outcome
  <1>8. Single'
    BY <1>0, <1>1, <1>4, Zenon DEF Single
  <1>9. SingleJoins'
    BY <1>0, <1>1, <1>2, <1>3, <1>4, Zenon DEF SingleJoins, Updating, Passed
  <1>10. Numbers' /\ Marks' /\ Flags' /\ Proper(channel') /\ Failures' /\ Progress' /\ Lives'
        /\ SecondFails' /\ SingleStarts' /\ Told' /\ Kills' /\ Wires'
    BY <1>0, <1>4, NumbersKept, MarksKept, FlagsKept, FailuresKept, ProgressKept,
       LivesKept, SecondFailsKept, SingleStartsKept, ToldKept, KillsKept, WiresKept, Zenon
  <1> QED
    BY <1>5, <1>6, <1>7, <1>8, <1>9, <1>10, Zenon DEF IInv

\* The join of a segment comes back.
LEMMA JoinSegmentKeepsInv == ASSUME IInv, JoinSegment PROVE IInv'
  <1>0. Places /\ Numbers /\ Marks /\ Flags /\ Proper(channel) /\ Failures /\ Progress
        /\ Lives /\ SecondFails /\ JoinedSegments /\ Outcome /\ Single /\ SingleStarts /\
        SingleJoins /\ Told /\ Kills /\ Wires
    BY Zenon DEF IInv
  <1>1. main = "join_segments" /\ Unjoined # {}
    BY Zenon DEF JoinSegment
  <1>2. PICK s : s = Min(Unjoined)
    BY Zenon
  <1>3. s \in m_segments /\ s \in Segment /\ \A y \in m_segments : y > cursor => s <= y
    <2>1. Unjoined \subseteq Segment /\ Unjoined # {}
      BY <1>0, <1>1, Zenon DEF Unjoined, Places
    <2>2. s \in Unjoined /\ \A y \in Unjoined : s <= y
      BY <1>2, <2>1, MinIsFirst, Zenon
    <2> QED
      BY <2>1, <2>2, Zenon DEF Unjoined
  <1>4. /\ ~Started(s) \/ work[s] = "ended"
        /\ thrown' = (thrown \/ SegmentThrows(s)) /\ cursor' = s
        /\ seg' = [seg EXCEPT ![s] = IF seg[s] = Initialized THEN seg[s] ELSE Completed]
    BY <1>2, Zenon DEF JoinSegment, SegmentJoined, Started
  <1>5. /\ seg' \in [Segment -> Initialized .. Completed]
        /\ \A x \in Segment \ {s} : seg'[x] = seg[x]
        /\ seg[s] = Initialized => seg'[s] = seg[s]
        /\ seg[s] # Initialized => seg'[s] = Completed
    BY <1>0, <1>3, <1>4 DEF Numbers, Initialized, Starting, Running, Stopping, Killing,
       Completed
  <1>6. /\ \A x \in Segment : (Started(x)' <=> Started(x))
        /\ Killing <= seg'[s] => Started(s)
        /\ Killing <= seg[s] => Killing <= seg'[s]
    <2>1. Completed # Initialized /\ ~(Killing <= Initialized) /\ Killing <= Completed
      BY DEF Initialized, Killing, Completed
    <2> QED
      BY <1>5, <2>1, Zenon DEF Started
  <1>7. \A y \in m_segments : y <= cursor' => y <= cursor \/ y = s
    BY <1>0, <1>3, <1>4, PipelineAssumption DEF Numbers, Places
  <1>8. thrown => thrown'
    BY <1>4, Zenon
  <1>9. failed[s] => thrown'
    BY <1>4, Zenon DEF SegmentThrows
  <1>10. \A x \in m_segments : Passed(x)' => Passed(x) \/ x = s
    <2>1. main' = main
      BY Zenon DEF JoinSegment, users
    <2> QED
      BY <1>1, <1>7, <2>1, Zenon DEF Passed
  <1>11. work[s] # "active"
    BY <1>0, <1>3, <1>4, Zenon DEF Lives
  <1>12. m_segments \subseteq Segment
    BY <1>0, Zenon DEF Places
  <1>13. UNCHANGED <<pipe, channel, target, failing, ctlFailed, m_current_segments,
                  ctl, m_segments, work, told, failed, wired, joinable, main, pusher,
                  pushed, overtaken, missed>>
    BY Zenon DEF JoinSegment, services, control, segments, users, history
  <1>14. Numbers'
    <2>1. cursor' = s
      BY <1>4, Zenon
    <2>2. pipe' = pipe /\ pushed' = pushed
      BY <1>13, Zenon
    <2> QED
      BY <1>0, <1>3, <1>5, <2>1, <2>2, PipelineAssumption, Zenon DEF Numbers
  <1>15. Progress'
    BY <1>0, <1>6, <1>13, SameStarts, Zenon
  <1>16. Lives'
    BY <1>0, <1>6, <1>12, <1>13, Zenon DEF Lives
  <1>17. SecondFails'
    BY <1>0, <1>6, <1>13, SameStarts, Zenon
  <1>18. JoinedSegments'
    <2>1. joinable /\ main' = "join_segments"
      BY <1>0, <1>1, <1>13, Zenon DEF JoinedSegments
    <2>2. ASSUME ~overtaken, ~failing, ~Updating, NEW x \in m_segments, Passed(x)'
          PROVE  work[x] = "ended" /\ (failed[x] => thrown')
      <3>1. CASE x = s
        BY <1>0, <1>3, <1>4, <1>9, <2>1, <2>2, <3>1, Zenon DEF SecondFails
      <3>2. CASE x # s
        BY <1>0, <1>8, <1>10, <2>2, <3>2, Zenon DEF JoinedSegments
      <3> QED
        BY <3>1, <3>2, Zenon
    <2> QED
      BY <2>1, <2>2, <1>13, Zenon DEF JoinedSegments, Updating
  <1>19. Outcome'
    BY <1>0, <1>1, <1>2, <1>4, <1>8, <1>9, <1>10, <1>13, Zenon DEF Outcome
  <1>20. SingleStarts'
    BY <1>0, <1>6, <1>13, SameStarts, Zenon
  <1>21. SingleJoins'
    BY <1>0, <1>10, <1>11, <1>13, Zenon DEF SingleJoins, Updating
  <1>22. Told'
    BY <1>0, <1>2, <1>4, <1>5, <1>6, <1>11, <1>13, Zenon DEF Told, Reached
  <1>23. Kills'
    <2>1. told' = told /\ work' = work /\ m_segments' = m_segments
      BY <1>13, Zenon
    <2>2. \A x \in m_segments : work[x] = "active" /\ Reached(x) => Reached(x)'
      BY <1>5, <1>11, <1>12, <2>1, Zenon DEF Reached
    <2> QED
      BY <1>0, <1>6, <1>13, <2>2, SameSpared, Zenon DEF Kills, Updating
  <1>24. Places' /\ Marks' /\ Flags' /\ Proper(channel') /\ Failures' /\ Single' /\ Wires'
    BY <1>0, <1>13, PlacesKept, MarksKept, FlagsKept, FailuresKept, SingleKept,
       WiresKept, Zenon
  <1> QED
    BY <1>14, <1>15, <1>16, <1>17, <1>18, <1>19, <1>20, <1>21, <1>22, <1>23, <1>24, Zenon
       DEF IInv

\* All segments are joined.
LEMMA ResetChannelKeepsInv == ASSUME IInv, ResetChannel PROVE IInv'
  <1>0. Places /\ Numbers /\ Marks /\ Flags /\ Proper(channel) /\ Failures /\ Progress
        /\ Lives /\ SecondFails /\ JoinedSegments /\ Outcome /\ Single /\ SingleStarts /\
        SingleJoins /\ Told /\ Kills /\ Wires
    BY Zenon DEF IInv
  <1>1. main = "join_segments" /\ main' = "join_controller" /\ Unjoined = {} /\ pipe' = Completed
    BY Zenon DEF ResetChannel
  <1>2. pipe' \in Initialized .. Completed /\ ~(pipe' < Stopping)
        /\ pipe' # Stopping /\ pipe' # Killing
    BY <1>1 DEF Initialized, Starting, Running, Stopping, Killing, Completed
  <1>3. \A s \in m_segments : s <= cursor
    BY <1>0, <1>1, PipelineAssumption DEF Unjoined, Places, Numbers
  <1>4. joinable
    BY <1>0, <1>1, Zenon DEF JoinedSegments
  <1>5. UNCHANGED <<channel, target, failing, ctlFailed, m_current_segments, ctl,
                  m_segments, seg, work, told, failed, wired, joinable, cursor, thrown,
                  pusher, pushed, overtaken, missed>>
    BY Zenon DEF ResetChannel, services, control, segments, users, history
  <1>6. Places'
    BY <1>0, <1>1, <1>3, <1>5, Zenon DEF Places, Place, MainPlace
  <1>7. Numbers'
    BY <1>0, <1>1, <1>2, <1>5, Zenon DEF Numbers
  <1>8. SecondFails'
    BY <1>0, <1>1, <1>2, <1>3, <1>4, <1>5, Zenon DEF SecondFails, Updating, Started
  <1>9. JoinedSegments'
    BY <1>0, <1>1, <1>3, <1>4, <1>5, Zenon DEF JoinedSegments, Updating, Passed
  <1>10. Outcome'
    BY <1>0, <1>1, <1>5, Zenon DEF Outcome
  <1>11. Single'
    BY <1>0, <1>1, <1>5, Zenon DEF Single
  <1>12. SingleJoins'
    BY <1>0, <1>1, <1>3, <1>4, <1>5, Zenon DEF SingleJoins, Updating, Passed
  <1>13. Kills'
    BY <1>0, <1>1, <1>2, <1>3, <1>5, Zenon DEF Kills, Reached, Updating, Started, Spared
  <1>14. Marks' /\ Flags' /\ Proper(channel') /\ Failures' /\ Progress' /\ Lives' /\
        SingleStarts' /\ Told' /\ Wires'
    BY <1>0, <1>5, MarksKept, FlagsKept, FailuresKept, ProgressKept, LivesKept,
       SingleStartsKept, ToldKept, WiresKept, Zenon
  <1> QED
    BY <1>6, <1>7, <1>8, <1>9, <1>10, <1>11, <1>12, <1>13, <1>14, Zenon DEF IInv

\* The join of the controller comes back.
LEMMA JoinControllerKeepsInv == ASSUME IInv, JoinController PROVE IInv'
  <1>0. Places /\ Numbers /\ Marks /\ Flags /\ Proper(channel) /\ Failures /\ Progress
        /\ Lives /\ SecondFails /\ JoinedSegments /\ Outcome /\ Single /\ SingleStarts /\
        SingleJoins /\ Told /\ Kills /\ Wires
    BY Zenon DEF IInv
  <1>1. /\ main = "join_controller" /\ ctl.at = "ended" /\ main' \in {"joined", "threw"}
        /\ main' = "joined" => ~ctlFailed /\ ~thrown
    BY Zenon DEF JoinController, JoinThrows
  <1>2. UNCHANGED <<pipe, channel, target, failing, ctlFailed, m_current_segments,
                  ctl, m_segments, seg, work, told, failed, wired, joinable, cursor, thrown,
                  pusher, pushed, overtaken, missed>>
    BY Zenon DEF JoinController, JoinThrows, services, control, segments, users, history
  <1>3. Places'
    BY <1>0, <1>1, <1>2, Zenon DEF Places, Place, MainPlace
  <1>4. JoinedSegments'
    BY <1>0, <1>1, <1>2, Zenon DEF JoinedSegments, Updating, Passed
  <1>5. Outcome'
    BY <1>0, <1>1, <1>2, Zenon DEF Outcome
  <1>6. Single'
    BY <1>0, <1>1, <1>2, Zenon DEF Single
  <1>7. SingleJoins'
    BY <1>0, <1>1, <1>2, Zenon DEF SingleJoins, Updating, Passed
  <1>8. Numbers' /\ Marks' /\ Flags' /\ Proper(channel') /\ Failures' /\ Progress' /\ Lives'
        /\ SecondFails' /\ SingleStarts' /\ Told' /\ Kills' /\ Wires'
    BY <1>0, <1>2, NumbersKept, MarksKept, FlagsKept, FailuresKept, ProgressKept,
       LivesKept, SecondFailsKept, SingleStartsKept, ToldKept, KillsKept, WiresKept, Zenon
  <1> QED
    BY <1>3, <1>4, <1>5, <1>6, <1>7, <1>8, Zenon DEF IInv

\* stop() is called.
LEMMA StopKeepsInv == ASSUME IInv, stop PROVE IInv'
  <1>0. Places /\ Numbers /\ Marks /\ Flags /\ Proper(channel) /\ Failures /\ Progress
        /\ Lives /\ SecondFails /\ JoinedSegments /\ Outcome /\ Single /\ SingleStarts /\
        SingleJoins /\ Told /\ Kills /\ Wires
    BY Zenon DEF IInv
  <1>1. UNCHANGED <<pipe, channel, target, failing, ctlFailed, m_current_segments,
                  ctl, m_segments, seg, work, told, failed, wired, joinable, main, cursor,
                  thrown, pusher, pushed, overtaken, missed>>
    BY Zenon DEF stop, services, control, segments, users, history
  <1>2. Places' /\ Numbers' /\ Marks' /\ Flags' /\ Proper(channel') /\ Failures' /\
        Progress' /\ Lives' /\ SecondFails' /\ JoinedSegments' /\ Outcome' /\ Single' /\
        SingleStarts' /\ SingleJoins' /\ Told' /\ Kills' /\ Wires'
    BY <1>0, <1>1, PlacesKept, NumbersKept, MarksKept, FlagsKept, FailuresKept,
       ProgressKept, LivesKept, SecondFailsKept, JoinedSegmentsKept, OutcomeKept,
       SingleKept, SingleStartsKept, SingleJoinsKept, ToldKept, KillsKept, WiresKept, Zenon
  <1> QED
    BY <1>2, Zenon DEF IInv

\* The manager is told to stop.
LEMMA ManagerStopKeepsInv == ASSUME IInv, ManagerStop PROVE IInv'
  <1>0. Places /\ Numbers /\ Marks /\ Flags /\ Proper(channel) /\ Failures /\ Progress
        /\ Lives /\ SecondFails /\ JoinedSegments /\ Outcome /\ Single /\ SingleStarts /\
        SingleJoins /\ Told /\ Kills /\ Wires
    BY Zenon DEF IInv
  <1>1. UNCHANGED <<pipe, channel, target, failing, ctlFailed, m_current_segments,
                  ctl, m_segments, seg, work, told, failed, wired, joinable, main, cursor,
                  thrown, pusher, pushed, overtaken, missed>>
    BY Zenon DEF ManagerStop, services, control, segments, users, history
  <1>2. Places' /\ Numbers' /\ Marks' /\ Flags' /\ Proper(channel') /\ Failures' /\
        Progress' /\ Lives' /\ SecondFails' /\ JoinedSegments' /\ Outcome' /\ Single' /\
        SingleStarts' /\ SingleJoins' /\ Told' /\ Kills' /\ Wires'
    BY <1>0, <1>1, PlacesKept, NumbersKept, MarksKept, FlagsKept, FailuresKept,
       ProgressKept, LivesKept, SecondFailsKept, JoinedSegmentsKept, OutcomeKept,
       SingleKept, SingleStartsKept, SingleJoinsKept, ToldKept, KillsKept, WiresKept, Zenon
  <1> QED
    BY <1>2, Zenon DEF IInv

\* The manager writes a stop.
LEMMA StopHookKeepsInv == ASSUME IInv, do_service_stop PROVE IInv'
  <1>0. Places /\ Numbers /\ Marks /\ Flags /\ Proper(channel) /\ Failures /\ Progress
        /\ Lives /\ SecondFails /\ JoinedSegments /\ Outcome /\ Single /\ SingleStarts /\
        SingleJoins /\ Told /\ Kills /\ Wires
    BY Zenon DEF IInv
  <1>1. channel' = channel \/ channel' = Append(channel, Message("Stop", {}))
    BY Zenon DEF do_service_stop, AwaitWrite
  <1>2. Message("Stop", {}) \in Control /\ Message("Stop", {}).type # "Update"
    BY Zenon DEF Control, Message
  <1>3. Proper(channel') /\ (NoUpdate(channel) => NoUpdate(channel'))
        /\ (OneUpdate(channel) => OneUpdate(channel'))
    BY <1>0, <1>1, <1>2, WriteOther, Zenon
  <1>4. UNCHANGED <<pipe, target, failing, ctlFailed, m_current_segments, ctl,
                  m_segments, seg, work, told, failed, wired, joinable, main, cursor,
                  thrown, pusher, pushed, overtaken, missed>>
    BY Zenon DEF do_service_stop, AwaitWrite, services, control, segments, users, history
  <1>5. Single'
    BY <1>0, <1>1, <1>3, <1>4, Zenon DEF Single
  <1>6. Places' /\ Numbers' /\ Marks' /\ Flags' /\ Failures' /\ Progress' /\ Lives' /\
        SecondFails' /\ JoinedSegments' /\ Outcome' /\ SingleStarts' /\ SingleJoins' /\
        Told' /\ Kills' /\ Wires'
    BY <1>0, <1>4, PlacesKept, NumbersKept, MarksKept, FlagsKept, FailuresKept,
       ProgressKept, LivesKept, SecondFailsKept, JoinedSegmentsKept, OutcomeKept,
       SingleStartsKept, SingleJoinsKept, ToldKept, KillsKept, WiresKept, Zenon
  <1> QED
    BY <1>5, <1>6, <1>3, Zenon DEF IInv

\* push_updates is called.
LEMMA PushCheckKeepsInv == ASSUME IInv, push_updates PROVE IInv'
  <1>0. Places /\ Numbers /\ Marks /\ Flags /\ Proper(channel) /\ Failures /\ Progress
        /\ Lives /\ SecondFails /\ JoinedSegments /\ Outcome /\ Single /\ SingleStarts /\
        SingleJoins /\ Told /\ Kills /\ Wires
    BY Zenon DEF IInv
  <1>1. pushed > 0
    BY Zenon DEF push_updates
  <1>2. pushed # 0
    BY <1>0, <1>1 DEF Numbers
  <1>3. UNCHANGED <<pipe, channel, target, failing, ctlFailed, m_current_segments,
                  ctl, m_segments, seg, work, told, failed, wired, joinable, main, cursor,
                  thrown, pushed, overtaken, missed>>
    BY Zenon DEF push_updates, services, control, segments, users, history
  <1>4. Single'
    BY <1>0, <1>1, <1>2, <1>3, Zenon DEF Single
  <1>5. Places' /\ Numbers' /\ Marks' /\ Flags' /\ Proper(channel') /\ Failures' /\
        Progress' /\ Lives' /\ SecondFails' /\ JoinedSegments' /\ Outcome' /\ SingleStarts'
        /\ SingleJoins' /\ Told' /\ Kills' /\ Wires'
    BY <1>0, <1>3, PlacesKept, NumbersKept, MarksKept, FlagsKept, FailuresKept,
       ProgressKept, LivesKept, SecondFailsKept, JoinedSegmentsKept, OutcomeKept,
       SingleStartsKept, SingleJoinsKept, ToldKept, KillsKept, WiresKept, Zenon
  <1> QED
    BY <1>4, <1>5, Zenon DEF IInv

\* push_updates writes an update.
LEMMA PushWriteKeepsInv == ASSUME IInv, NEW A \in Updates, PushWrite(A) PROVE IInv'
  <1>0. Places /\ Numbers /\ Marks /\ Flags /\ Proper(channel) /\ Failures /\ Progress
        /\ Lives /\ SecondFails /\ JoinedSegments /\ Outcome /\ Single /\ SingleStarts /\
        SingleJoins /\ Told /\ Kills /\ Wires
    BY Zenon DEF IInv
  <1>1. pusher = "write" /\ pusher' = "idle" /\ pushed' = pushed + 1
    BY Zenon DEF PushWrite
  <1>2. channel' = channel \/ channel' = Append(channel, Message("Update", A))
    BY Zenon DEF PushWrite, AwaitWrite
  <1>3. Message("Update", A) \in Control /\ Message("Update", A).addresses \in Updates
    BY PipelineAssumption, Zenon DEF Control, Message
  <1>4. pushed # 0
    BY <1>0, <1>1, Zenon DEF Single
  <1>5. pushed' \in Nat /\ pushed' # 0 /\ pushed' # 1 /\ ~(pushed' <= 1) /\ pushed' > 1
    BY <1>0, <1>1, <1>4 DEF Numbers
  <1>6. Proper(channel')
    BY <1>0, <1>2, <1>3, WriteUpdate, Zenon
  <1>7. main \notin {"new", "push"}
    BY <1>0, <1>4, Zenon DEF Single
  <1>8. UNCHANGED <<pipe, target, failing, ctlFailed, m_current_segments, ctl,
                  m_segments, seg, work, told, failed, wired, joinable, main, cursor,
                  thrown, overtaken, missed>>
    BY Zenon DEF PushWrite, AwaitWrite, Message, services, control, segments, users, history
  <1>9. Numbers'
    BY <1>0, <1>1, <1>5, <1>8, Zenon DEF Numbers
  <1>10. Single'
    BY <1>0, <1>1, <1>2, <1>4, <1>5, <1>6, <1>7, <1>8, Zenon DEF Single
  <1>11. SingleStarts'
    BY <1>0, <1>1, <1>4, <1>5, <1>8, Zenon DEF SingleStarts, Started
  <1>12. SingleJoins'
    BY <1>0, <1>1, <1>4, <1>5, <1>7, <1>8, Zenon DEF SingleJoins, Updating, Passed
  <1>13. Kills'
    BY <1>0, <1>1, <1>4, <1>5, <1>8, Zenon DEF Kills, Reached, Updating, Started, Spared
  <1>14. Places' /\ Marks' /\ Flags' /\ Failures' /\ Progress' /\ Lives' /\ SecondFails' /\
        JoinedSegments' /\ Outcome' /\ Told' /\ Wires'
    BY <1>0, <1>8, PlacesKept, MarksKept, FlagsKept, FailuresKept, ProgressKept,
       LivesKept, SecondFailsKept, JoinedSegmentsKept, OutcomeKept, ToldKept, WiresKept,
       Zenon
  <1> QED
    BY <1>9, <1>10, <1>11, <1>12, <1>13, <1>14, <1>6, Zenon DEF IInv

\* Controller::update begins.
LEMMA UpdateKeepsInv ==
  ASSUME IInv, Through("idle"), channel # << >>, channel' = Tail(channel),
         Head(channel).type = "Update", OnUpdate(Head(channel).addresses),
         UNCHANGED <<exec, manager, reset, m_current_segments, segments, users, crashed>>
  PROVE  IInv'
  <1>0. Places /\ Numbers /\ Marks /\ Flags /\ Proper(channel) /\ Failures /\ Progress
        /\ Lives /\ SecondFails /\ JoinedSegments /\ Outcome /\ Single /\ SingleStarts /\
        SingleJoins /\ Told /\ Kills /\ Wires
    BY Zenon DEF IInv
  <1>1. ctl.at = "idle"
    BY Zenon DEF Through
  <1>2. PICK A : A = Head(channel).addresses
    BY Zenon
  <1>3. A \in Updates /\ A # {} /\ A \subseteq Segment
    <2>1. A \in Updates
      BY <1>0, <1>2, ReadMessage, Zenon
    <2> QED
      BY <2>1, PipelineAssumption, Zenon
  <1>4. /\ Proper(channel') /\ ~NoUpdate(channel)
        /\ OneUpdate(channel) => NoUpdate(channel')
    BY <1>0, ReadMessage, Zenon
  <1>5. target' = A /\ overtaken' = (overtaken \/ pipe >= Stopping)
    BY <1>2, Zenon DEF OnUpdate
  <1>6. ctl' = [at |-> "create", todo |-> A \ m_current_segments]
    BY <1>2, Zenon DEF OnUpdate, GoTo
  <1>7. ctl'.at = "create" /\ ctl'.todo = A \ m_current_segments
    BY <1>6, Zenon
  <1>8. ~overtaken' => ~overtaken /\ pipe < Stopping /\ pipe # Stopping /\ pipe # Killing
    <2>1. ~(pipe >= Stopping) => pipe < Stopping /\ pipe # Stopping /\ pipe # Killing
      BY <1>0 DEF Numbers, Initialized, Stopping, Killing, Completed
    <2> QED
      BY <1>5, <2>1, Zenon
  <1>9. ~failing /\ ~Updating
    BY <1>0, <1>1, Zenon DEF Failures, Updating
  <1>10. m_segments \subseteq Segment
    BY <1>0, Zenon DEF Places
  <1>11. UNCHANGED <<pipe, failing, ctlFailed, m_current_segments, m_segments, seg,
                  work, told, failed, wired, joinable, main, cursor, thrown, pusher, pushed,
                  missed>>
    BY Zenon DEF OnUpdate, users, segments, services, history, control
  <1>12. Places'
    BY <1>0, <1>3, <1>5, <1>6, <1>7, <1>11, Zenon DEF Places, Place, MainPlace
  <1>13. Failures'
    BY <1>0, <1>1, <1>2, <1>7, <1>9, <1>11, Zenon DEF Failures
  <1>14. Progress'
    <2>1. m_current_segments \subseteq m_segments
      BY <1>0, Zenon DEF Lives
    <2> QED
      BY <1>3, <1>5, <1>7, <2>1, <1>11, Zenon DEF Progress
  <1>15. SecondFails'
    BY <1>0, <1>1, <1>2, <1>3, <1>4, <1>5, <1>6, <1>7, <1>8, <1>9, <1>10, <1>11, Zenon
       DEF SecondFails, Updating, Started
  <1>16. JoinedSegments'
    BY <1>0, <1>1, <1>2, <1>5, <1>7, <1>8, <1>9, <1>10, <1>11, Zenon DEF JoinedSegments,
       Updating, Passed
  <1>17. Outcome'
    BY <1>0, <1>1, <1>2, <1>7, <1>9, <1>11, Zenon DEF Outcome
  <1>18. Single'
    <2>1. pushed # 0 /\ main \notin {"new", "push"}
      BY <1>0, <1>4, Zenon DEF Single
    <2>2. pushed = 1 => NoUpdate(channel')
      BY <1>0, <1>4, Zenon DEF Single
    <2>3. NoUpdate(channel') => OneUpdate(channel')
      BY Zenon DEF NoUpdate, OneUpdate
    <2> QED
      BY <2>1, <2>2, <2>3, <1>11, Zenon DEF Single
  <1>19. SingleStarts'
    <2>1. pushed # 0
      BY <1>0, <1>4, Zenon DEF Single
    <2>2. pushed <= 1 => pushed = 1
      BY <1>0, <2>1 DEF Numbers
    <2>3. pushed <= 1 => m_segments = {}
      BY <1>0, <1>4, <2>2, Zenon DEF Single, SingleStarts
    <2>4. pushed <= 1 => \A s \in Segment : ~Started(s)
      BY <1>0, <2>3, Zenon DEF Lives
    <2>5. \A s : Started(s)' <=> Started(s)
      BY <1>11, Zenon DEF Started
    <2> QED
      BY <1>3, <1>5, <2>3, <2>4, <2>5, <1>11, Zenon DEF SingleStarts
  <1>20. SingleJoins'
    <2>1. pushed = 1 /\ ~overtaken' => ~joinable
      BY <1>0, <1>4, <1>8, Zenon DEF Single, SecondFails
    <2>2. \A s : Passed(s) => joinable
      BY <1>0, Zenon DEF JoinedSegments, Passed
    <2>3. \A s : Passed(s)' <=> Passed(s)
      BY <1>11, Zenon DEF Passed
    <2> QED
      BY <2>1, <2>2, <2>3, <1>11, Zenon DEF SingleJoins
  <1>21. Kills'
    BY <1>0, <1>1, <1>2, <1>5, <1>7, <1>8, <1>9, <1>10, <1>11, Zenon DEF Kills, Reached, Updating,
       Started, Spared
  <1>22. Wires'
    <2>1. Closed(m_segments)
      BY <1>0, <1>1, <1>9, Zenon DEF Wires
    <2>2. Closed(A)
      BY <1>3, UpdatesComplete, Zenon DEF Closed
    <2>3. m_current_segments \subseteq m_segments
      BY <1>0, Zenon DEF Lives
    <2>4. Closed(m_segments \cup ctl'.todo)
      BY <1>7, <2>1, <2>2, <2>3, Zenon DEF Closed
    <2> QED
      BY <1>0, <1>7, <2>4, <1>11, Zenon DEF Wires
  <1>23. Numbers' /\ Marks' /\ Flags' /\ Lives' /\ Told'
    BY <1>0, <1>11, NumbersKept, MarksKept, FlagsKept, LivesKept, ToldKept, Zenon
  <1> QED
    BY <1>12, <1>13, <1>14, <1>15, <1>16, <1>17, <1>18, <1>19, <1>20, <1>21, <1>22,
       <1>23, <1>4, Zenon DEF IInv

\* A stop or a kill begins, or comes too late.
LEMMA HaltKeepsInv ==
  ASSUME IInv, NEW state \in {Stopping, Killing}, NEW at \in {"stop", "kill"},
         at = "kill" <=> state = Killing, Through("idle"), channel # << >>,
         channel' = Tail(channel), Halt(state, at),
         UNCHANGED <<failing, target, history, exec, manager, reset, m_current_segments, segments,
                     users, crashed>>
  PROVE  IInv'
  <1>0. Places /\ Numbers /\ Marks /\ Flags /\ Proper(channel) /\ Failures /\ Progress
        /\ Lives /\ SecondFails /\ JoinedSegments /\ Outcome /\ Single /\ SingleStarts /\
        SingleJoins /\ Told /\ Kills /\ Wires
    BY Zenon DEF IInv
  <1>1. ctl.at = "idle" /\ ~failing /\ ~Updating /\ ~ctlFailed
    BY <1>0, Zenon DEF Failures, Updating, Through
  <1>2. /\ Proper(channel') /\ (NoUpdate(channel) => NoUpdate(channel'))
        /\ (OneUpdate(channel) => OneUpdate(channel'))
    BY <1>0, ReadMessage, Zenon
  <1>3. /\ ~ctlFailed'
        /\ \/ /\ pipe < state /\ pipe' = state /\ joinable'
              /\ ctl' = [at |-> at, todo |-> m_segments]
           \/ /\ pipe' = pipe /\ (joinable' <=> joinable)
              /\ ctl' = [at |-> "idle", todo |-> {}]
    <2>1. ~failing'
      BY <1>1, Zenon
    <2> QED
      BY <1>1, <2>1, Zenon DEF Halt, mark_joinable, GoTo, ControllerFails
  <1>4. \/ /\ pipe < state /\ pipe' = state /\ joinable'
           /\ ctl'.at = at /\ ctl'.todo = m_segments
        \/ /\ pipe' = pipe /\ (joinable' <=> joinable)
           /\ ctl'.at = "idle" /\ ctl'.todo = {}
    <2>1. CASE /\ pipe < state /\ pipe' = state /\ joinable'
               /\ ctl' = [at |-> at, todo |-> m_segments]
      <3>1. ctl'.at = at /\ ctl'.todo = m_segments
        BY <2>1, Zenon
      <3> QED
        BY <2>1, <3>1, Zenon
    <2>2. CASE /\ pipe' = pipe /\ (joinable' <=> joinable)
               /\ ctl' = [at |-> "idle", todo |-> {}]
      <3>1. ctl'.at = "idle" /\ ctl'.todo = {}
        BY <2>2, Zenon
      <3> QED
        BY <2>2, <3>1, Zenon
    <2> QED
      BY <1>3, <2>1, <2>2, Zenon
  <1>5. ctl' \in [at : Place, todo : SUBSET Segment]
    BY <1>0, <1>3 DEF Places, Place
  <1>6. Stopping # Killing /\ state \in Initialized .. Completed /\ ~(state < Stopping)
    BY DEF Initialized, Starting, Running, Stopping, Killing, Completed
  <1>7. ~Updating'
    BY <1>4, Zenon DEF Updating
  <1>8. UNCHANGED <<target, failing, m_current_segments, m_segments, seg, work,
                  told, failed, wired, main, cursor, thrown, pusher, pushed, overtaken,
                  missed>>
    BY Zenon DEF Halt, mark_joinable, users, segments, services, history, control
  <1>9. Places'
    BY <1>0, <1>3, <1>4, <1>5, <1>8, Zenon DEF Places, Place, MainPlace
  <1>10. Numbers'
    BY <1>0, <1>1, <1>2, <1>3, <1>4, <1>5, <1>6, <1>7, <1>8, Zenon DEF Numbers
  <1>11. Failures'
    <2>1. ~failing'
      BY <1>1, Zenon
    <2>2. ~ctlFailed'
      BY <1>3, Zenon
    <2> QED
      BY <2>1, <2>2, Zenon DEF Failures
  <1>12. Progress'
    BY <1>0, <1>1, <1>3, <1>4, <1>7, <1>8, Zenon DEF Progress, Updating, Started
  <1>13. SecondFails'
    BY <1>0, <1>1, <1>2, <1>3, <1>4, <1>5, <1>6, <1>7, <1>8, Zenon DEF SecondFails,
       Updating, Started
  <1>14. JoinedSegments'
    BY <1>0, <1>1, <1>3, <1>4, <1>7, <1>8, Zenon DEF JoinedSegments, Updating, Passed
  <1>15. Outcome'
    BY <1>0, <1>1, <1>3, <1>4, <1>7, <1>8, Zenon DEF Outcome
  <1>16. Single'
    BY <1>0, <1>2, <1>8, Zenon DEF Single
  <1>17. SingleStarts'
    BY <1>0, <1>1, <1>3, <1>4, <1>7, <1>8, Zenon DEF SingleStarts, Started
  <1>18. SingleJoins'
    BY <1>0, <1>1, <1>3, <1>4, <1>7, <1>8, Zenon DEF SingleJoins, Updating, Passed
  <1>19. Kills'
    BY <1>0, <1>1, <1>3, <1>4, <1>7, <1>8, Zenon DEF Kills, Reached, Updating, Started, Spared
  <1>20. Wires'
    BY <1>0, <1>1, <1>3, <1>4, <1>7, <1>8, Zenon DEF Wires, Closed
  <1>21. Marks' /\ Flags' /\ Lives' /\ Told'
    BY <1>0, <1>8, MarksKept, FlagsKept, LivesKept, ToldKept, Zenon
  <1> QED
    BY <1>9, <1>10, <1>11, <1>12, <1>13, <1>14, <1>15, <1>16, <1>17, <1>18, <1>19, <1>20,
       <1>21, <1>2, Zenon DEF IInv

\* The controller completes.
LEMMA ControllerEndsKeepsInv == ASSUME IInv, ControllerEnds PROVE IInv'
  <1>0. Places /\ Numbers /\ Marks /\ Flags /\ Proper(channel) /\ Failures /\ Progress
        /\ Lives /\ SecondFails /\ JoinedSegments /\ Outcome /\ Single /\ SingleStarts /\
        SingleJoins /\ Told /\ Kills /\ Wires
    BY Zenon DEF IInv
  <1>1. ctl.at = "idle"
    BY Zenon DEF ControllerEnds, Through
  <1>2. ctl' = [at |-> "ended", todo |-> {}]
    BY Zenon DEF ControllerEnds, GoTo
  <1>3. ctl'.at = "ended" /\ ctl'.todo = {}
    BY <1>2, Zenon
  <1>4. UNCHANGED <<pipe, channel, target, failing, ctlFailed, m_current_segments,
                  m_segments, seg, work, told, failed, wired, joinable, main, cursor,
                  thrown, pusher, pushed, overtaken, missed>>
    BY Zenon DEF ControllerEnds, Through, services, control, segments, users, history
  <1>5. Places'
    BY <1>0, <1>2, <1>3, <1>4, Zenon DEF Places, Place, MainPlace
  <1>6. Failures'
    BY <1>0, <1>1, <1>3, <1>4, Zenon DEF Failures
  <1>7. Progress'
    BY <1>0, <1>1, <1>3, <1>4, Zenon DEF Progress, Updating, Started
  <1>8. SecondFails'
    BY <1>0, <1>1, <1>3, <1>4, Zenon DEF SecondFails, Updating, Started
  <1>9. JoinedSegments'
    BY <1>0, <1>1, <1>3, <1>4, Zenon DEF JoinedSegments, Updating, Passed
  <1>10. Outcome'
    BY <1>0, <1>1, <1>3, <1>4, Zenon DEF Outcome
  <1>11. SingleStarts'
    BY <1>0, <1>1, <1>3, <1>4, Zenon DEF SingleStarts, Started
  <1>12. SingleJoins'
    BY <1>0, <1>1, <1>3, <1>4, Zenon DEF SingleJoins, Updating, Passed
  <1>13. Kills'
    BY <1>0, <1>1, <1>3, <1>4, Zenon DEF Kills, Reached, Updating, Started, Spared
  <1>14. Wires'
    BY <1>0, <1>1, <1>3, <1>4, Zenon DEF Wires, Closed
  <1>15. Numbers' /\ Marks' /\ Flags' /\ Proper(channel') /\ Lives' /\ Single' /\ Told'
    BY <1>0, <1>4, NumbersKept, MarksKept, FlagsKept, LivesKept, SingleKept, ToldKept,
       Zenon
  <1> QED
    BY <1>5, <1>6, <1>7, <1>8, <1>9, <1>10, <1>11, <1>12, <1>13, <1>14, <1>15, Zenon DEF
       IInv

\* A segment is created.
LEMMA CreateSegmentKeepsInv == ASSUME IInv, create_segment PROVE IInv'
  <1>0. Places /\ Numbers /\ Marks /\ Flags /\ Proper(channel) /\ Failures /\ Progress
        /\ Lives /\ SecondFails /\ JoinedSegments /\ Outcome /\ Single /\ SingleStarts /\
        SingleJoins /\ Told /\ Kills /\ Wires
    BY Zenon DEF IInv
  <1>1. ctl.at = "create" /\ ctl.todo # {}
    BY Zenon DEF create_segment, At
  <1>2. PICK n : n = Next1
    BY Zenon
  <1>3. n \in ctl.todo /\ n \in Segment
    <2>1. ctl.todo \subseteq Segment
      BY <1>0, Zenon DEF Places
    <2> QED
      BY <1>1, <1>2, <2>1, MinIsFirst, Zenon DEF Next1
  <1>4. m_segments' = m_segments \cup {n}
    BY <1>2, Zenon DEF create_segment
  <1>5. ctl' = [at |-> ctl.at, todo |-> ctl.todo \ {n}]
    BY <1>2, Zenon DEF create_segment, Rest, GoTo
  <1>6. ctl'.at = "create" /\ ctl'.todo = ctl.todo \ {n}
    BY <1>1, <1>5, Zenon
  <1>7. ~failing /\ Updating /\ Updating'
    BY <1>0, <1>1, <1>6, Zenon DEF Failures, Updating
  <1>8. m_segments \subseteq Segment
    BY <1>0, Zenon DEF Places
  <1>9. UNCHANGED <<pipe, channel, target, failing, ctlFailed, m_current_segments,
                  seg, work, told, failed, wired, joinable, main, cursor, thrown, pusher,
                  pushed, overtaken, missed>>
    BY Zenon DEF create_segment, services, control, segments, users, history
  <1>10. Places'
    BY <1>0, <1>3, <1>4, <1>5, <1>6, <1>9, Zenon DEF Places, Place, MainPlace
  <1>11. Failures'
    BY <1>0, <1>1, <1>2, <1>3, <1>6, <1>7, <1>9, Zenon DEF Failures
  <1>12. Progress'
    BY <1>0, <1>1, <1>2, <1>3, <1>4, <1>6, <1>7, <1>8, <1>9, Zenon DEF Progress,
       Updating, Started
  <1>13. Lives'
    BY <1>0, <1>2, <1>4, <1>8, <1>9, Zenon DEF Lives, Started
  <1>14. SecondFails'
    BY <1>0, <1>1, <1>2, <1>3, <1>4, <1>6, <1>7, <1>8, <1>9, Zenon DEF SecondFails,
       Updating, Started
  <1>15. JoinedSegments'
    BY <1>0, <1>1, <1>2, <1>3, <1>4, <1>6, <1>7, <1>8, <1>9, Zenon DEF JoinedSegments,
       Updating, Passed
  <1>16. Outcome'
    BY <1>0, <1>1, <1>2, <1>3, <1>6, <1>7, <1>9, Zenon DEF Outcome
  <1>17. SingleStarts'
    <2>1. target # {}
      BY <1>0, <1>7, PipelineAssumption, Zenon DEF Progress
    <2>2. \A s : Started(s)' <=> Started(s)
      BY <1>9, Zenon DEF Started
    <2> QED
      BY <1>0, <1>1, <1>3, <1>4, <1>8, <1>9, <2>1, <2>2, Zenon DEF SingleStarts
  <1>18. SingleJoins'
    <2>1. pushed = 1 /\ ~overtaken => ~joinable
      BY <1>0, <1>7, Zenon DEF SingleJoins
    <2>2. \A s : Passed(s) => joinable
      BY <1>0, Zenon DEF JoinedSegments, Passed
    <2>3. \A s : Passed(s)' <=> Passed(s)
      BY <1>9, Zenon DEF Passed
    <2> QED
      BY <1>7, <2>1, <2>2, <2>3, <1>9, Zenon DEF SingleJoins
  <1>19. Kills'
    BY <1>0, <1>1, <1>2, <1>3, <1>4, <1>6, <1>7, <1>8, <1>9, Zenon DEF Kills, Reached, Updating,
       Started, Spared
  <1>20. Wires'
    <2>1. m_segments' \cup ctl'.todo = m_segments \cup ctl.todo
      BY <1>3, <1>4, <1>6, Zenon
    <2> QED
      BY <1>0, <1>1, <1>4, <1>6, <1>9, <2>1, Zenon DEF Wires
  <1>21. Numbers' /\ Marks' /\ Flags' /\ Proper(channel') /\ Single' /\ Told'
    BY <1>0, <1>9, NumbersKept, MarksKept, FlagsKept, SingleKept, ToldKept, Zenon
  <1> QED
    BY <1>10, <1>11, <1>12, <1>13, <1>14, <1>15, <1>16, <1>17, <1>18, <1>19, <1>20,
       <1>21, Zenon DEF IInv

\* The initializer of a segment throws.
LEMMA CreateThrowsKeepsInv == ASSUME IInv, CreateThrows PROVE IInv'
  <1>0. Places /\ Numbers /\ Marks /\ Flags /\ Proper(channel) /\ Failures /\ Progress
        /\ Lives /\ SecondFails /\ JoinedSegments /\ Outcome /\ Single /\ SingleStarts /\
        SingleJoins /\ Told /\ Kills /\ Wires
    BY Zenon DEF IInv
  <1>1. ctl.at = "create" /\ ~ctlFailed
    BY <1>0, Zenon DEF CreateThrows, At, Failures
  <1>2. failing'
    BY Zenon DEF CreateThrows, Throws
  <1>3. /\ joinable => joinable'
        /\ \/ /\ pipe < Killing /\ pipe' = Killing /\ joinable' /\ ~ctlFailed'
              /\ ctl' = [at |-> "kill", todo |-> m_segments]
           \/ /\ ~(pipe < Killing) /\ pipe' = pipe /\ (joinable' <=> joinable) /\ ctlFailed'
              /\ ctl' = [at |-> "ended", todo |-> {}]
    BY <1>1, <1>2, Zenon DEF CreateThrows, Throws, Halt, mark_joinable, GoTo, ControllerFails
  <1>4. \/ /\ pipe < Killing /\ pipe' = Killing /\ joinable' /\ ~ctlFailed'
           /\ ctl'.at = "kill" /\ ctl'.todo = m_segments
        \/ /\ ~(pipe < Killing) /\ pipe' = pipe /\ (joinable' <=> joinable) /\ ctlFailed'
           /\ ctl'.at = "ended" /\ ctl'.todo = {}
    <2>1. CASE /\ pipe < Killing /\ pipe' = Killing /\ joinable' /\ ~ctlFailed'
               /\ ctl' = [at |-> "kill", todo |-> m_segments]
      <3>1. ctl'.at = "kill" /\ ctl'.todo = m_segments
        BY <2>1, Zenon
      <3> QED
        BY <2>1, <3>1, Zenon
    <2>2. CASE /\ ~(pipe < Killing) /\ pipe' = pipe /\ (joinable' <=> joinable) /\ ctlFailed'
               /\ ctl' = [at |-> "ended", todo |-> {}]
      <3>1. ctl'.at = "ended" /\ ctl'.todo = {}
        BY <2>2, Zenon
      <3> QED
        BY <2>2, <3>1, Zenon
    <2> QED
      BY <1>3, <2>1, <2>2, Zenon
  <1>5. ctl' \in [at : Place, todo : SUBSET Segment] /\ pipe' \in Initialized .. Completed
    <2>1. \/ ctl' = [at |-> "kill", todo |-> m_segments]
          \/ ctl' = [at |-> "ended", todo |-> {}]
      BY <1>3, Zenon
    <2>2. pipe' = Killing \/ pipe' = pipe
      BY <1>3, Zenon
    <2>3. ctl' \in [at : Place, todo : SUBSET Segment]
      BY <1>0, <2>1 DEF Places, Place
    <2>4. pipe' \in Initialized .. Completed
      BY <1>0, <2>2 DEF Numbers, Initialized, Killing, Completed
    <2> QED
      BY <2>3, <2>4, Zenon
  <1>6. ~(pipe' < Stopping) /\ (pipe' = Killing /\ ~overtaken => ctl'.at = "kill") /\ joinable'
    <2>1. Updating
      BY <1>1, Zenon DEF Updating
    <2>2. ~overtaken => pipe # Killing
      BY <1>0, <2>1, Zenon DEF Kills, Reached
    <2>3. ~(pipe < Killing) => ~(pipe < Stopping)
      BY <1>0 DEF Numbers, Initialized, Stopping, Killing, Completed
    <2>4. ~(Killing < Stopping)
      BY DEF Stopping, Killing
    <2>5. ~(pipe < Stopping) => joinable
      BY <1>0, Zenon DEF SecondFails
    <2> QED
      BY <1>4, <2>2, <2>3, <2>4, <2>5, Zenon
  <1>7. ~Updating' /\ Updating /\ ctl'.at \notin {"create", "start", "remove", "stop"}
    BY <1>0, <1>1, <1>4, Zenon DEF Updating, Failures
  <1>8. UNCHANGED <<channel, target, m_current_segments, m_segments, seg, work,
                  told, failed, wired, main, cursor, thrown, pusher, pushed, overtaken,
                  missed>>
    BY Zenon DEF CreateThrows, Throws, services, control, segments, users, history
  <1>9. Places'
    BY <1>0, <1>3, <1>4, <1>5, <1>6, <1>7, <1>8, Zenon DEF Places, Place, MainPlace
  <1>10. Numbers'
    BY <1>0, <1>3, <1>4, <1>5, <1>6, <1>8, Zenon DEF Numbers
  <1>11. Failures'
    BY <1>0, <1>1, <1>2, <1>3, <1>4, <1>6, <1>7, <1>8, Zenon DEF Failures
  <1>12. Progress'
    BY <1>0, <1>1, <1>3, <1>4, <1>6, <1>7, <1>8, Zenon DEF Progress, Updating, Started
  <1>13. SecondFails'
    BY <1>2, <1>6, <1>8, Zenon DEF SecondFails
  <1>14. JoinedSegments'
    BY <1>0, <1>1, <1>2, <1>3, <1>4, <1>6, <1>7, <1>8, Zenon DEF JoinedSegments,
       Updating, Passed
  <1>15. Outcome'
    BY <1>0, <1>1, <1>3, <1>4, <1>6, <1>7, <1>8, Zenon DEF Outcome
  <1>16. SingleStarts'
    BY <1>0, <1>1, <1>3, <1>4, <1>6, <1>7, <1>8, Zenon DEF SingleStarts, Started
  <1>17. SingleJoins'
    BY <1>0, <1>1, <1>3, <1>4, <1>6, <1>7, <1>8, Zenon DEF SingleJoins, Updating, Passed
  <1>18. Kills'
    BY <1>0, <1>1, <1>3, <1>4, <1>6, <1>7, <1>8, Zenon DEF Kills, Reached, Updating, Started,
       Spared
  <1>19. Wires'
    BY <1>0, <1>1, <1>2, <1>3, <1>4, <1>6, <1>7, <1>8, Zenon DEF Wires, Closed
  <1>20. Marks' /\ Flags' /\ Proper(channel') /\ Lives' /\ Single' /\ Told'
    BY <1>0, <1>8, MarksKept, FlagsKept, LivesKept, SingleKept, ToldKept, Zenon
  <1> QED
    BY <1>9, <1>10, <1>11, <1>12, <1>13, <1>14, <1>15, <1>16, <1>17, <1>18, <1>19, <1>20,
       Zenon DEF IInv

\* All segments are created.
LEMMA CreateDoneKeepsInv == ASSUME IInv, CreateDone PROVE IInv'
  <1>0. Places /\ Numbers /\ Marks /\ Flags /\ Proper(channel) /\ Failures /\ Progress
        /\ Lives /\ SecondFails /\ JoinedSegments /\ Outcome /\ Single /\ SingleStarts /\
        SingleJoins /\ Told /\ Kills /\ Wires
    BY Zenon DEF IInv
  <1>1. ctl.at = "create" /\ ctl.todo = {}
    BY Zenon DEF CreateDone, Through
  <1>2. ctl' = [at |-> "remove", todo |-> m_current_segments \ target]
    BY Zenon DEF CreateDone, GoTo
  <1>3. ctl'.at = "remove" /\ ctl'.todo = m_current_segments \ target
    BY <1>2, Zenon
  <1>4. ~failing /\ Updating /\ Updating'
    BY <1>0, <1>1, <1>3, Zenon DEF Failures, Updating
  <1>5. UNCHANGED <<pipe, channel, target, failing, ctlFailed, m_current_segments,
                  m_segments, seg, work, told, failed, wired, joinable, main, cursor,
                  thrown, pusher, pushed, overtaken, missed>>
    BY Zenon DEF CreateDone, services, control, segments, users, history
  <1>6. Places'
    <2>1. m_current_segments \subseteq m_segments
      BY <1>0, Zenon DEF Lives
    <2>2. UNCHANGED <<main, target, m_segments, missed>>
      BY <1>5, Zenon
    <2> QED
      BY <1>0, <1>2, <2>1, <2>2, Zenon DEF Places, Place
  <1>7. Failures'
    BY <1>0, <1>1, <1>3, <1>4, <1>5, Zenon DEF Failures
  <1>8. Progress'
    BY <1>0, <1>1, <1>3, <1>4, <1>5, Zenon DEF Progress, Updating, Started
  <1>9. SecondFails'
    BY <1>0, <1>1, <1>3, <1>4, <1>5, Zenon DEF SecondFails, Updating, Started
  <1>10. JoinedSegments'
    BY <1>0, <1>1, <1>3, <1>4, <1>5, Zenon DEF JoinedSegments, Updating, Passed
  <1>11. Outcome'
    BY <1>0, <1>1, <1>3, <1>4, <1>5, Zenon DEF Outcome
  <1>12. SingleStarts'
    BY <1>0, <1>1, <1>3, <1>4, <1>5, Zenon DEF SingleStarts, Started
  <1>13. SingleJoins'
    BY <1>0, <1>1, <1>3, <1>4, <1>5, Zenon DEF SingleJoins, Updating, Passed
  <1>14. Kills'
    BY <1>0, <1>1, <1>3, <1>4, <1>5, Zenon DEF Kills, Reached, Updating, Started, Spared
  <1>15. Wires'
    BY <1>0, <1>1, <1>3, <1>4, <1>5, Zenon DEF Wires, Closed
  <1>16. Numbers' /\ Marks' /\ Flags' /\ Proper(channel') /\ Lives' /\ Single' /\ Told'
    BY <1>0, <1>5, NumbersKept, MarksKept, FlagsKept, LivesKept, SingleKept, ToldKept,
       Zenon
  <1> QED
    BY <1>6, <1>7, <1>8, <1>9, <1>10, <1>11, <1>12, <1>13, <1>14, <1>15, <1>16, Zenon DEF
       IInv

\* A segment the update removes is stopped.
LEMMA StopSegmentKeepsInv == ASSUME IInv, stop_segment PROVE IInv'
  <1>0. Places /\ Numbers /\ Marks /\ Flags /\ Proper(channel) /\ Failures /\ Progress
        /\ Lives /\ SecondFails /\ JoinedSegments /\ Outcome /\ Single /\ SingleStarts /\
        SingleJoins /\ Told /\ Kills /\ Wires
    BY Zenon DEF IInv
  <1>1. ctl.at = "remove" /\ ctl.todo # {}
    BY Zenon DEF stop_segment, At
  <1>2. PICK n : n = Next1
    BY Zenon
  <1>3. n \in ctl.todo /\ n \in Segment
    <2>1. ctl.todo \subseteq Segment
      BY <1>0, Zenon DEF Places
    <2> QED
      BY <1>1, <1>2, <2>1, MinIsFirst, Zenon DEF Next1
  <1>4. ctl' = [at |-> ctl.at, todo |-> ctl.todo \ {n}]
    BY <1>2, Zenon DEF stop_segment, Rest, GoTo
  <1>5. ctl'.at = "remove" /\ ctl'.todo = ctl.todo \ {n}
    BY <1>1, <1>4, Zenon
  <1>6. /\ seg' = [seg EXCEPT ![n] = EnsureState(seg[n], Stopping)]
        /\ told' = [told EXCEPT ![n] = IF seg[n] < Stopping THEN "stop" ELSE told[n]]
    BY <1>2, Zenon DEF stop_segment, Tell
  <1>7. /\ seg' \in [Segment -> Initialized .. Completed]
        /\ told' \in [Segment -> {"no", "stop", "kill"}]
        /\ \A x \in Segment \ {n} : seg'[x] = seg[x] /\ told'[x] = told[x]
        /\ \/ seg[n] < Stopping /\ seg'[n] = Stopping /\ told'[n] = "stop"
           \/ ~(seg[n] < Stopping) /\ seg'[n] = seg[n] /\ told'[n] = told[n]
    BY <1>0, <1>3, <1>6 DEF Numbers, Marks, EnsureState, Initialized, Starting, Running,
       Stopping, Killing, Completed
  <1>8. Started(n)
    BY <1>0, <1>1, <1>3, Zenon DEF Progress, Lives
  <1>9. \A x \in Segment : (Started(x)' <=> Started(x))
    <2>1. Stopping # Initialized
      BY DEF Initialized, Stopping
    <2> QED
      BY <1>7, <1>8, <2>1, Zenon DEF Started
  <1>10. ~failing /\ Updating /\ Updating'
    BY <1>0, <1>1, <1>5, Zenon DEF Failures, Updating
  <1>11. m_segments \subseteq Segment
    BY <1>0, Zenon DEF Places
  <1>12. UNCHANGED <<pipe, channel, target, failing, ctlFailed, m_current_segments,
                  m_segments, work, failed, wired, joinable, main, cursor, thrown, pusher,
                  pushed, overtaken, missed>>
    BY Zenon DEF stop_segment, Tell, services, control, segments, users, history
  <1>13. Places'
    BY <1>0, <1>3, <1>4, <1>5, <1>7, <1>9, <1>12, Zenon DEF Places, Place, MainPlace
  <1>14. Numbers'
    BY <1>0, <1>6, <1>7, <1>12, Zenon DEF Numbers
  <1>15. Marks'
    BY <1>0, <1>6, <1>7, <1>12, Zenon DEF Marks
  <1>16. Failures'
    BY <1>0, <1>1, <1>2, <1>3, <1>5, <1>10, <1>12, Zenon DEF Failures
  <1>17. Progress'
    BY <1>0, <1>1, <1>3, <1>5, <1>10, <1>9, <1>11, <1>12, Zenon DEF Progress
  <1>18. Lives'
    BY <1>0, <1>9, <1>11, <1>12, Zenon DEF Lives
  <1>19. SecondFails'
    BY <1>0, <1>1, <1>5, <1>10, <1>9, <1>11, <1>12, Zenon DEF SecondFails
  <1>20. JoinedSegments'
    BY <1>0, <1>1, <1>2, <1>3, <1>5, <1>10, <1>11, <1>12, Zenon DEF JoinedSegments,
       Updating, Passed
  <1>21. Outcome'
    BY <1>0, <1>1, <1>2, <1>3, <1>5, <1>10, <1>12, Zenon DEF Outcome
  <1>22. SingleStarts'
    BY <1>0, <1>1, <1>5, <1>10, <1>9, <1>11, <1>12, Zenon DEF SingleStarts
  <1>23. SingleJoins'
    BY <1>0, <1>1, <1>2, <1>3, <1>5, <1>10, <1>11, <1>12, Zenon DEF SingleJoins,
       Updating, Passed
  <1>24. Told'
    <2>1. ~(Killing <= Stopping) /\ Killing <= Killing
      BY DEF Stopping, Killing
    <2> QED
      BY <1>0, <1>3, <1>7, <2>1, <1>12, Zenon DEF Told, Reached
  <1>25. Kills'
    BY <1>0, <1>1, <1>2, <1>3, <1>5, <1>6, <1>7, <1>8, <1>9, <1>10, <1>11, <1>12, Zenon
       DEF Kills, Reached, Updating, Started, Spared
  <1>26. Wires'
    BY <1>0, <1>1, <1>2, <1>3, <1>5, <1>10, <1>11, <1>12, Zenon DEF Wires, Closed
  <1>27. Flags' /\ Proper(channel') /\ Single'
    BY <1>0, <1>12, FlagsKept, SingleKept, Zenon
  <1> QED
    BY <1>13, <1>14, <1>15, <1>16, <1>17, <1>18, <1>19, <1>20, <1>21, <1>22, <1>23,
       <1>24, <1>25, <1>26, <1>27, Zenon DEF IInv

\* The manifolds are connected.
LEMMA UpdateWiresKeepsInv == ASSUME IInv, update PROVE IInv'
  <1>0. Places /\ Numbers /\ Marks /\ Flags /\ Proper(channel) /\ Failures /\ Progress
        /\ Lives /\ SecondFails /\ JoinedSegments /\ Outcome /\ Single /\ SingleStarts /\
        SingleJoins /\ Told /\ Kills /\ Wires
    BY Zenon DEF IInv
  <1>1. ctl.at = "remove" /\ ctl.todo = {} /\ wired' = m_segments
    BY Zenon DEF update, UpdateManifolds, Through
  <1>2. ctl' = [at |-> "start", todo |-> m_segments]
    BY Zenon DEF update, GoTo
  <1>3. ctl'.at = "start" /\ ctl'.todo = m_segments
    BY <1>2, Zenon
  <1>4. ~failing /\ Updating /\ Updating'
    BY <1>0, <1>1, <1>3, Zenon DEF Failures, Updating
  <1>5. UNCHANGED <<pipe, channel, target, failing, ctlFailed, m_current_segments,
                  m_segments, seg, work, told, failed, joinable, main, cursor, thrown,
                  pusher, pushed, overtaken, missed>>
    BY Zenon DEF update, UpdateManifolds, services, control, segments, users, history
  <1>6. Places'
    BY <1>0, <1>2, <1>3, <1>5, Zenon DEF Places, Place, MainPlace
  <1>7. Failures'
    BY <1>0, <1>1, <1>3, <1>4, <1>5, Zenon DEF Failures
  <1>8. Progress'
    BY <1>0, <1>1, <1>3, <1>4, <1>5, Zenon DEF Progress, Updating, Started
  <1>9. SecondFails'
    BY <1>0, <1>1, <1>3, <1>4, <1>5, Zenon DEF SecondFails, Updating, Started
  <1>10. JoinedSegments'
    BY <1>0, <1>1, <1>3, <1>4, <1>5, Zenon DEF JoinedSegments, Updating, Passed
  <1>11. Outcome'
    BY <1>0, <1>1, <1>3, <1>4, <1>5, Zenon DEF Outcome
  <1>12. SingleStarts'
    BY <1>0, <1>1, <1>3, <1>4, <1>5, Zenon DEF SingleStarts, Started
  <1>13. SingleJoins'
    BY <1>0, <1>1, <1>3, <1>4, <1>5, Zenon DEF SingleJoins, Updating, Passed
  <1>14. Kills'
    BY <1>0, <1>1, <1>3, <1>4, <1>5, Zenon DEF Kills, Reached, Updating, Started, Spared
  <1>15. Wires'
    BY <1>0, <1>1, <1>3, <1>4, <1>5, Zenon DEF Wires, Closed
  <1>16. Numbers' /\ Marks' /\ Flags' /\ Proper(channel') /\ Lives' /\ Single' /\ Told'
    BY <1>0, <1>5, NumbersKept, MarksKept, FlagsKept, LivesKept, SingleKept, ToldKept,
       Zenon
  <1> QED
    BY <1>6, <1>7, <1>8, <1>9, <1>10, <1>11, <1>12, <1>13, <1>14, <1>15, <1>16, Zenon DEF
       IInv

\* A segment is started.
LEMMA StartSegmentKeepsInv == ASSUME IInv, StartSegment PROVE IInv'
  <1>0. Places /\ Numbers /\ Marks /\ Flags /\ Proper(channel) /\ Failures /\ Progress
        /\ Lives /\ SecondFails /\ JoinedSegments /\ Outcome /\ Single /\ SingleStarts /\
        SingleJoins /\ Told /\ Kills /\ Wires
    BY Zenon DEF IInv
  <1>1. ctl.at = "start" /\ ctl.todo # {}
    BY Zenon DEF StartSegment, At
  <1>2. PICK n : n = Next1
    BY Zenon
  <1>3. n \in ctl.todo /\ n \in Segment /\ \A y \in ctl.todo : n <= y
    <2>1. ctl.todo \subseteq Segment
      BY <1>0, Zenon DEF Places
    <2> QED
      BY <1>1, <1>2, <2>1, MinIsFirst, Zenon DEF Next1
  <1>4. ctl' = [at |-> ctl.at, todo |-> ctl.todo \ {n}]
    BY <1>2, Zenon DEF StartSegment, Rest, GoTo
  <1>5. ctl'.at = "start" /\ ctl'.todo = ctl.todo \ {n}
    BY <1>1, <1>4, Zenon
  <1>6. /\ ~Started(n) /\ seg' = [seg EXCEPT ![n] = Running]
        /\ work' = [work EXCEPT ![n] = "active"]
    BY <1>2, Zenon DEF StartSegment, Started
  <1>7. /\ seg' \in [Segment -> Initialized .. Completed]
        /\ seg'[n] # Initialized /\ ~(Killing <= seg'[n])
        /\ \A x \in Segment \ {n} : seg'[x] = seg[x]
    BY <1>0, <1>3, <1>6 DEF Numbers, Initialized, Starting, Running, Stopping, Killing,
       Completed
  <1>8. /\ work' \in [Segment -> {"none", "active", "ended"}] /\ work'[n] = "active"
        /\ \A x \in Segment \ {n} : work'[x] = work[x]
    BY <1>0, <1>3, <1>6, Zenon DEF Marks
  <1>9. ~failing /\ Updating /\ Updating'
    BY <1>0, <1>1, <1>5, Zenon DEF Failures, Updating
  <1>10. ~(Killing <= seg[n])
    BY <1>6 DEF Started, Initialized, Starting, Running, Stopping, Killing, Completed
  <1>11. Started(n)' /\ \A x \in Segment : x # n => (Started(x)' <=> Started(x))
    BY <1>7, Zenon DEF Started
  <1>12. n \in m_segments /\ \A x \in m_segments : ~(n <= x) => Started(x)
    BY <1>0, <1>1, <1>3, Zenon DEF Progress
  <1>13. \A x, y \in Segment : x < y => ~(y <= x)
    BY PipelineAssumption
  <1>14. m_segments \subseteq Segment
    BY <1>0, Zenon DEF Places
  <1>15. UNCHANGED <<pipe, channel, target, failing, ctlFailed, m_current_segments,
                  m_segments, told, failed, wired, joinable, main, cursor, thrown, pusher,
                  pushed, overtaken, missed>>
    BY Zenon DEF StartSegment, services, control, segments, users, history
  <1>16. Places'
    BY <1>0, <1>3, <1>4, <1>5, <1>7, <1>8, <1>11, <1>12, <1>13, <1>15, Zenon DEF Places, Place,
       MainPlace
  <1>17. Numbers'
    BY <1>0, <1>6, <1>7, <1>15, Zenon DEF Numbers
  <1>18. Marks'
    BY <1>0, <1>6, <1>8, <1>15, Zenon DEF Marks
  <1>19. Failures'
    BY <1>0, <1>1, <1>2, <1>3, <1>5, <1>9, <1>15, Zenon DEF Failures
  <1>20. Progress'
    BY <1>0, <1>1, <1>3, <1>5, <1>11, <1>14, <1>15, Zenon DEF Progress, Updating
  <1>21. Lives'
    BY <1>0, <1>3, <1>8, <1>11, <1>12, <1>14, <1>15, Zenon DEF Lives
  <1>22. SecondFails'
    BY <1>0, <1>1, <1>5, <1>6, <1>9, <1>11, <1>14, <1>15, Zenon DEF SecondFails
  <1>23. JoinedSegments'
    BY <1>0, <1>1, <1>2, <1>3, <1>5, <1>6, <1>8, <1>9, <1>12, <1>14, <1>15, Zenon DEF
       JoinedSegments, Updating, Passed
  <1>24. Outcome'
    BY <1>0, <1>1, <1>2, <1>3, <1>5, <1>9, <1>15, Zenon DEF Outcome
  <1>25. SingleStarts'
    BY <1>0, <1>3, <1>5, <1>11, <1>12, <1>13, <1>14, <1>15, Zenon DEF SingleStarts
  <1>26. SingleJoins'
    <2>1. pushed = 1 /\ ~overtaken => ~joinable
      BY <1>0, <1>9, Zenon DEF SingleJoins
    <2>2. \A s : Passed(s) => joinable
      BY <1>0, Zenon DEF JoinedSegments, Passed
    <2>3. \A s : Passed(s)' <=> Passed(s)
      BY <1>15, Zenon DEF Passed
    <2> QED
      BY <1>9, <2>1, <2>2, <2>3, <1>15, Zenon DEF SingleJoins
  <1>27. Told'
    BY <1>0, <1>2, <1>6, <1>7, <1>8, <1>10, <1>11, <1>12, <1>15, Zenon DEF Told, Reached
  <1>28. Kills'
    BY <1>0, <1>1, <1>2, <1>3, <1>5, <1>6, <1>7, <1>8, <1>9, <1>10, <1>11, <1>12, <1>14,
       <1>15, Zenon DEF Kills, Reached, Updating, Started, Spared
  <1>29. Wires'
    BY <1>0, <1>1, <1>2, <1>3, <1>5, <1>6, <1>8, <1>9, <1>12, <1>14, <1>15, ZenonT(30) DEF
       Wires, Closed
  <1>30. Flags' /\ Proper(channel') /\ Single'
    BY <1>0, <1>15, FlagsKept, SingleKept, Zenon
  <1> QED
    BY <1>16, <1>17, <1>18, <1>19, <1>20, <1>21, <1>22, <1>23, <1>24, <1>25, <1>26,
       <1>27, <1>28, <1>29, <1>30, Zenon DEF IInv

\* service_start of a segment throws.
LEMMA StartThrowsKeepsInv == ASSUME IInv, StartThrows PROVE IInv'
  <1>0. Places /\ Numbers /\ Marks /\ Flags /\ Proper(channel) /\ Failures /\ Progress
        /\ Lives /\ SecondFails /\ JoinedSegments /\ Outcome /\ Single /\ SingleStarts /\
        SingleJoins /\ Told /\ Kills /\ Wires
    BY Zenon DEF IInv
  <1>1. ctl.at = "start" /\ ~ctlFailed
    BY <1>0, Zenon DEF StartThrows, At, Failures
  <1>2. failing'
    BY Zenon DEF StartThrows, Throws
  <1>3. /\ joinable => joinable'
        /\ \/ /\ pipe < Killing /\ pipe' = Killing /\ joinable' /\ ~ctlFailed'
              /\ ctl' = [at |-> "kill", todo |-> m_segments]
           \/ /\ ~(pipe < Killing) /\ pipe' = pipe /\ (joinable' <=> joinable) /\ ctlFailed'
              /\ ctl' = [at |-> "ended", todo |-> {}]
    BY <1>1, <1>2, Zenon DEF StartThrows, Throws, Halt, mark_joinable, GoTo, ControllerFails
  <1>4. \/ /\ pipe < Killing /\ pipe' = Killing /\ joinable' /\ ~ctlFailed'
           /\ ctl'.at = "kill" /\ ctl'.todo = m_segments
        \/ /\ ~(pipe < Killing) /\ pipe' = pipe /\ (joinable' <=> joinable) /\ ctlFailed'
           /\ ctl'.at = "ended" /\ ctl'.todo = {}
    <2>1. CASE /\ pipe < Killing /\ pipe' = Killing /\ joinable' /\ ~ctlFailed'
               /\ ctl' = [at |-> "kill", todo |-> m_segments]
      <3>1. ctl'.at = "kill" /\ ctl'.todo = m_segments
        BY <2>1, Zenon
      <3> QED
        BY <2>1, <3>1, Zenon
    <2>2. CASE /\ ~(pipe < Killing) /\ pipe' = pipe /\ (joinable' <=> joinable) /\ ctlFailed'
               /\ ctl' = [at |-> "ended", todo |-> {}]
      <3>1. ctl'.at = "ended" /\ ctl'.todo = {}
        BY <2>2, Zenon
      <3> QED
        BY <2>2, <3>1, Zenon
    <2> QED
      BY <1>3, <2>1, <2>2, Zenon
  <1>5. ctl' \in [at : Place, todo : SUBSET Segment] /\ pipe' \in Initialized .. Completed
    <2>1. \/ ctl' = [at |-> "kill", todo |-> m_segments]
          \/ ctl' = [at |-> "ended", todo |-> {}]
      BY <1>3, Zenon
    <2>2. pipe' = Killing \/ pipe' = pipe
      BY <1>3, Zenon
    <2>3. ctl' \in [at : Place, todo : SUBSET Segment]
      BY <1>0, <2>1 DEF Places, Place
    <2>4. pipe' \in Initialized .. Completed
      BY <1>0, <2>2 DEF Numbers, Initialized, Killing, Completed
    <2> QED
      BY <2>3, <2>4, Zenon
  <1>6. ~(pipe' < Stopping) /\ (pipe' = Killing /\ ~overtaken => ctl'.at = "kill") /\ joinable'
    <2>1. Updating
      BY <1>1, Zenon DEF Updating
    <2>2. ~overtaken => pipe # Killing
      BY <1>0, <2>1, Zenon DEF Kills, Reached
    <2>3. ~(pipe < Killing) => ~(pipe < Stopping)
      BY <1>0 DEF Numbers, Initialized, Stopping, Killing, Completed
    <2>4. ~(Killing < Stopping)
      BY DEF Stopping, Killing
    <2>5. ~(pipe < Stopping) => joinable
      BY <1>0, Zenon DEF SecondFails
    <2> QED
      BY <1>4, <2>2, <2>3, <2>4, <2>5, Zenon
  <1>7. ~Updating' /\ Updating /\ ctl'.at \notin {"create", "start", "remove", "stop"}
    BY <1>0, <1>1, <1>4, Zenon DEF Updating, Failures
  <1>8. PICK n : n = Next1
    BY Zenon
  <1>9. n \in ctl.todo /\ n \in Segment /\ \A y \in ctl.todo : n <= y
    <2>1. ctl.todo \subseteq Segment
      BY <1>0, Zenon DEF Places
    <2>2. ctl.todo # {}
      BY Zenon DEF StartThrows, At
    <2> QED
      BY <1>8, <2>1, <2>2, MinIsFirst, Zenon DEF Next1
  <1>10. /\ seg' = IF Started(n) THEN seg ELSE [seg EXCEPT ![n] = Completed]
        /\ \E w \in {"active", "ended"} :
             work' = IF Started(n) THEN work ELSE [work EXCEPT ![n] = w]
    BY <1>8, Zenon DEF StartThrows, Started
  <1>11. /\ seg' \in [Segment -> Initialized .. Completed]
        /\ seg'[n] # Initialized
        /\ \A x \in Segment : (x # n \/ Started(n)) => seg'[x] = seg[x]
    BY <1>0, <1>9, <1>10 DEF Numbers, Started, Initialized, Starting, Running, Stopping,
       Killing, Completed
  <1>12. /\ work' \in [Segment -> {"none", "active", "ended"}]
        /\ (work'[n] # "none" \/ Started(n))
        /\ \A x \in Segment : (x # n \/ Started(n)) => work'[x] = work[x]
    <2>1. PICK w \in {"active", "ended"} :
            work' = IF Started(n) THEN work ELSE [work EXCEPT ![n] = w]
      BY <1>10, Zenon
    <2>2. CASE Started(n)
      BY <1>0, <2>1, <2>2, Zenon DEF Marks
    <2>3. CASE ~Started(n)
      <3>1. work' = [work EXCEPT ![n] = w]
        BY <2>1, <2>3, Zenon
      <3> QED
        BY <1>0, <1>9, <2>3, <3>1 DEF Marks
    <2> QED
      BY <2>2, <2>3, Zenon
  <1>13. Started(n)' /\ \A x \in Segment : x # n => (Started(x)' <=> Started(x))
    BY <1>11, Zenon DEF Started
  <1>14. n \in m_segments /\ \A x \in m_segments : ~(n <= x) => Started(x)
    BY <1>0, <1>1, <1>9, Zenon DEF Progress
  <1>15. \A x, y \in Segment : x < y => ~(y <= x)
    BY PipelineAssumption
  <1>16. Started(n) \/ (~(Killing <= seg[n]) /\ Killing <= seg'[n] /\ seg'[n] = Completed)
    BY <1>0, <1>9, <1>10 DEF Numbers, Started, Initialized, Starting, Running, Stopping, Killing, Completed
  <1>17. m_segments \subseteq Segment
    BY <1>0, Zenon DEF Places
  <1>18. UNCHANGED <<channel, target, m_current_segments, m_segments, told, failed,
                  wired, main, cursor, thrown, pusher, pushed, overtaken, missed>>
    BY Zenon DEF StartThrows, Throws, services, control, segments, users, history
  <1>19. Places'
    BY <1>0, <1>3, <1>4, <1>5, <1>6, <1>7, <1>9, <1>11, <1>12, <1>13, <1>14, <1>15, <1>18, Zenon
       DEF Places, Place, MainPlace
  <1>20. Numbers'
    BY <1>0, <1>3, <1>4, <1>5, <1>6, <1>10, <1>11, <1>18, Zenon DEF Numbers
  <1>21. Marks'
    BY <1>0, <1>10, <1>12, <1>18, Zenon DEF Marks
  <1>22. Failures'
    BY <1>0, <1>1, <1>2, <1>3, <1>4, <1>6, <1>7, <1>8, <1>9, <1>18, Zenon DEF Failures
  <1>23. Progress'
    BY <1>0, <1>1, <1>3, <1>4, <1>6, <1>7, <1>8, <1>9, <1>10, <1>11, <1>12, <1>13, <1>14,
       <1>16, <1>17, <1>18, Zenon DEF Progress, Updating, Started
  <1>24. Lives'
    BY <1>0, <1>9, <1>12, <1>13, <1>14, <1>17, <1>18, Zenon DEF Lives
  <1>25. SecondFails'
    BY <1>2, <1>6, <1>18, Zenon DEF SecondFails
  <1>26. JoinedSegments'
    BY <1>0, <1>1, <1>2, <1>3, <1>4, <1>6, <1>7, <1>8, <1>9, <1>10, <1>12, <1>14, <1>17,
       <1>18, Zenon DEF JoinedSegments, Updating, Passed
  <1>27. Outcome'
    BY <1>0, <1>1, <1>3, <1>4, <1>6, <1>7, <1>8, <1>9, <1>18, Zenon DEF Outcome
  <1>28. SingleStarts'
    BY <1>0, <1>7, <1>9, <1>13, <1>14, <1>15, <1>17, <1>18, Zenon DEF SingleStarts
  <1>29. SingleJoins'
    <2>1. pushed = 1 /\ ~overtaken => ~joinable
      BY <1>0, <1>7, Zenon DEF SingleJoins
    <2>2. \A s : Passed(s) => joinable
      BY <1>0, Zenon DEF JoinedSegments, Passed
    <2>3. \A s : Passed(s)' <=> Passed(s)
      BY <1>18, Zenon DEF Passed
    <2> QED
      BY <1>7, <2>1, <2>2, <2>3, <1>18, Zenon DEF SingleJoins
  <1>30. Told'
    BY <1>0, <1>8, <1>10, <1>11, <1>12, <1>13, <1>14, <1>16, <1>18, Zenon DEF Told, Reached
  <1>31. Kills'
    BY <1>0, <1>1, <1>3, <1>4, <1>6, <1>7, <1>8, <1>9, <1>10, <1>11, <1>12, <1>13, <1>14,
       <1>16, <1>17, <1>18, Zenon DEF Kills, Reached, Updating, Started, Spared
  <1>32. Wires'
    BY <1>0, <1>1, <1>2, <1>3, <1>4, <1>6, <1>7, <1>8, <1>9, <1>10, <1>12, <1>14, <1>17,
       <1>18, Zenon DEF Wires, Closed
  <1>33. Flags' /\ Proper(channel') /\ Single'
    BY <1>0, <1>18, FlagsKept, SingleKept, Zenon
  <1> QED
    BY <1>19, <1>20, <1>21, <1>22, <1>23, <1>24, <1>25, <1>26, <1>27, <1>28, <1>29,
       <1>30, <1>31, <1>32, <1>33, Zenon DEF IInv

\* The update is done.
LEMMA UpdateDoneKeepsInv == ASSUME IInv, UpdateDone PROVE IInv'
  <1>0. Places /\ Numbers /\ Marks /\ Flags /\ Proper(channel) /\ Failures /\ Progress
        /\ Lives /\ SecondFails /\ JoinedSegments /\ Outcome /\ Single /\ SingleStarts /\
        SingleJoins /\ Told /\ Kills /\ Wires
    BY Zenon DEF IInv
  <1>1. ctl.at = "start" /\ ctl.todo = {} /\ m_current_segments' = target /\ joinable'
    BY Zenon DEF UpdateDone, Through, mark_joinable
  <1>2. ctl' = [at |-> "idle", todo |-> {}]
    BY Zenon DEF UpdateDone, GoTo
  <1>3. ctl'.at = "idle" /\ ctl'.todo = {}
    BY <1>2, Zenon
  <1>4. ~failing /\ Updating /\ ~Updating'
    BY <1>0, <1>1, <1>3, Zenon DEF Failures, Updating
  <1>5. target # {} /\ target \subseteq m_segments
    <2>1. target \in Updates /\ target \subseteq m_segments
      BY <1>0, <1>1, <1>4, Zenon DEF Progress
    <2> QED
      BY <2>1, PipelineAssumption, Zenon
  <1>6. \A s \in m_segments : Started(s)
    BY <1>0, <1>1, Zenon DEF Progress
  <1>7. joinable => overtaken
    BY <1>0, <1>1, <1>4, Zenon DEF SecondFails
  <1>8. m_segments \subseteq Segment
    BY <1>0, Zenon DEF Places
  <1>9. UNCHANGED <<pipe, channel, target, failing, ctlFailed, m_segments, seg,
                  work, told, failed, wired, main, cursor, thrown, pusher, pushed,
                  overtaken, missed>>
    BY Zenon DEF UpdateDone, mark_joinable, services, control, segments, users, history
  <1>10. Places'
    BY <1>0, <1>2, <1>3, <1>6, <1>9, Zenon DEF Places, Place, MainPlace
  <1>11. Failures'
    BY <1>0, <1>1, <1>3, <1>4, <1>9, Zenon DEF Failures
  <1>12. Progress'
    BY <1>0, <1>1, <1>3, <1>4, <1>5, <1>6, <1>8, <1>9, Zenon DEF Progress, Updating,
       Started
  <1>13. Lives'
    BY <1>0, <1>1, <1>5, <1>6, <1>8, <1>9, Zenon DEF Lives, Started
  <1>14. SecondFails'
    BY <1>0, <1>1, <1>3, <1>4, <1>5, <1>6, <1>7, <1>8, <1>9, Zenon DEF SecondFails,
       Updating, Started
  <1>15. JoinedSegments'
    <2>1. \A s : Passed(s) => joinable
      BY <1>0, Zenon DEF JoinedSegments, Passed
    <2>2. \A s : Passed(s)' <=> Passed(s)
      BY <1>9, Zenon DEF Passed
    <2> QED
      BY <1>0, <1>1, <1>7, <2>1, <2>2, <1>9, Zenon DEF JoinedSegments
  <1>16. Outcome'
    BY <1>0, <1>1, <1>3, <1>4, <1>9, Zenon DEF Outcome
  <1>17. SingleStarts'
    BY <1>0, <1>1, <1>3, <1>4, <1>5, <1>6, <1>8, <1>9, Zenon DEF SingleStarts, Started
  <1>18. SingleJoins'
    BY <1>0, <1>1, <1>3, <1>4, <1>5, <1>6, <1>7, <1>8, <1>9, Zenon DEF SingleJoins,
       Updating, Passed
  <1>19. Kills'
    BY <1>0, <1>1, <1>3, <1>4, <1>5, <1>6, <1>7, <1>8, <1>9, Zenon DEF Kills, Reached, Updating,
       Started, Spared
  <1>20. Wires'
    BY <1>0, <1>1, <1>3, <1>4, <1>5, <1>6, <1>8, <1>9, Zenon DEF Wires, Closed
  <1>21. Numbers' /\ Marks' /\ Flags' /\ Proper(channel') /\ Single' /\ Told'
    BY <1>0, <1>9, NumbersKept, MarksKept, FlagsKept, SingleKept, ToldKept, Zenon
  <1> QED
    BY <1>10, <1>11, <1>12, <1>13, <1>14, <1>15, <1>16, <1>17, <1>18, <1>19, <1>20,
       <1>21, Zenon DEF IInv

\* The loop of a stop gets to a segment.
LEMMA StopLoopKeepsInv == ASSUME IInv, HaltSegment("stop", Stopping) PROVE IInv'
  <1>0. Places /\ Numbers /\ Marks /\ Flags /\ Proper(channel) /\ Failures /\ Progress
        /\ Lives /\ SecondFails /\ JoinedSegments /\ Outcome /\ Single /\ SingleStarts /\
        SingleJoins /\ Told /\ Kills /\ Wires
    BY Zenon DEF IInv
  <1>1. ctl.at = "stop" /\ ctl.todo # {}
    BY Zenon DEF HaltSegment, At
  <1>2. PICK n : n = Next1
    BY Zenon
  <1>3. n \in ctl.todo /\ n \in Segment
    <2>1. ctl.todo \subseteq Segment
      BY <1>0, Zenon DEF Places
    <2> QED
      BY <1>1, <1>2, <2>1, MinIsFirst, Zenon DEF Next1
  <1>4. ctl' = [at |-> ctl.at, todo |-> ctl.todo \ {n}]
    BY <1>2, Zenon DEF HaltSegment, Rest, GoTo
  <1>5. ctl'.at = "stop" /\ ctl'.todo = ctl.todo \ {n}
    BY <1>1, <1>4, Zenon
  <1>6. /\ Started(n) /\ seg' = [seg EXCEPT ![n] = EnsureState(seg[n], Stopping)]
        /\ told' = [told EXCEPT ![n] = IF seg[n] < Stopping THEN "stop" ELSE told[n]]
    BY <1>2, Zenon DEF HaltSegment, Tell, Started
  <1>7. /\ seg' \in [Segment -> Initialized .. Completed]
        /\ told' \in [Segment -> {"no", "stop", "kill"}]
        /\ \A x \in Segment \ {n} : seg'[x] = seg[x] /\ told'[x] = told[x]
        /\ \/ seg[n] < Stopping /\ seg'[n] = Stopping /\ told'[n] = "stop"
           \/ ~(seg[n] < Stopping) /\ seg'[n] = seg[n] /\ told'[n] = told[n]
    BY <1>0, <1>3, <1>6 DEF Numbers, Marks, EnsureState, Initialized, Starting, Running,
       Stopping, Killing, Completed
  <1>8. \A x \in Segment : (Started(x)' <=> Started(x))
    <2>1. Stopping # Initialized
      BY DEF Initialized, Stopping
    <2> QED
      BY <1>7, <1>6, <2>1, Zenon DEF Started
  <1>9. ~Updating /\ ~Updating'
    BY <1>1, <1>5, Zenon DEF Updating
  <1>10. m_segments \subseteq Segment
    BY <1>0, Zenon DEF Places
  <1>11. UNCHANGED <<pipe, channel, target, failing, ctlFailed, m_current_segments,
                  m_segments, work, failed, wired, joinable, main, cursor, thrown, pusher,
                  pushed, overtaken, missed>>
    BY Zenon DEF HaltSegment, Tell, services, control, segments, users, history
  <1>12. Places'
    BY <1>0, <1>3, <1>4, <1>5, <1>7, <1>8, <1>11, Zenon DEF Places, Place, MainPlace
  <1>13. Numbers'
    BY <1>0, <1>6, <1>7, <1>11, Zenon DEF Numbers
  <1>14. Marks'
    BY <1>0, <1>6, <1>7, <1>11, Zenon DEF Marks
  <1>15. Failures'
    BY <1>0, <1>1, <1>2, <1>3, <1>5, <1>9, <1>11, Zenon DEF Failures
  <1>16. Progress'
    BY <1>0, <1>1, <1>3, <1>5, <1>9, <1>8, <1>10, <1>11, Zenon DEF Progress
  <1>17. Lives'
    BY <1>0, <1>8, <1>10, <1>11, Zenon DEF Lives
  <1>18. SecondFails'
    BY <1>0, <1>1, <1>5, <1>9, <1>8, <1>10, <1>11, Zenon DEF SecondFails
  <1>19. JoinedSegments'
    BY <1>0, <1>1, <1>2, <1>3, <1>5, <1>9, <1>10, <1>11, Zenon DEF JoinedSegments,
       Updating, Passed
  <1>20. Outcome'
    BY <1>0, <1>1, <1>2, <1>3, <1>5, <1>9, <1>11, Zenon DEF Outcome
  <1>21. SingleStarts'
    BY <1>0, <1>1, <1>5, <1>9, <1>8, <1>10, <1>11, Zenon DEF SingleStarts
  <1>22. SingleJoins'
    BY <1>0, <1>1, <1>2, <1>3, <1>5, <1>9, <1>10, <1>11, Zenon DEF SingleJoins, Updating,
       Passed
  <1>23. Told'
    <2>1. ~(Killing <= Stopping) /\ Killing <= Killing
      BY DEF Stopping, Killing
    <2> QED
      BY <1>0, <1>3, <1>7, <2>1, <1>11, Zenon DEF Told, Reached
  <1>24. Kills'
    BY <1>0, <1>1, <1>2, <1>3, <1>5, <1>6, <1>7, <1>8, <1>9, <1>10, <1>11, Zenon DEF
       Kills, Updating, Started, Spared
  <1>25. Wires'
    BY <1>0, <1>1, <1>2, <1>3, <1>5, <1>9, <1>10, <1>11, Zenon DEF Wires, Closed
  <1>26. Flags' /\ Proper(channel') /\ Single'
    BY <1>0, <1>11, FlagsKept, SingleKept, Zenon
  <1> QED
    BY <1>12, <1>13, <1>14, <1>15, <1>16, <1>17, <1>18, <1>19, <1>20, <1>21, <1>22,
       <1>23, <1>24, <1>25, <1>26, Zenon DEF IInv

\* The loop of a kill gets to a segment.
LEMMA KillLoopKeepsInv == ASSUME IInv, HaltSegment("kill", Killing) PROVE IInv'
  <1>0. Places /\ Numbers /\ Marks /\ Flags /\ Proper(channel) /\ Failures /\ Progress
        /\ Lives /\ SecondFails /\ JoinedSegments /\ Outcome /\ Single /\ SingleStarts /\
        SingleJoins /\ Told /\ Kills /\ Wires
    BY Zenon DEF IInv
  <1>1. ctl.at = "kill" /\ ctl.todo # {}
    BY Zenon DEF HaltSegment, At
  <1>2. PICK n : n = Next1
    BY Zenon
  <1>3. n \in ctl.todo /\ n \in Segment
    <2>1. ctl.todo \subseteq Segment
      BY <1>0, Zenon DEF Places
    <2> QED
      BY <1>1, <1>2, <2>1, MinIsFirst, Zenon DEF Next1
  <1>4. ctl' = [at |-> ctl.at, todo |-> ctl.todo \ {n}]
    BY <1>2, Zenon DEF HaltSegment, Rest, GoTo
  <1>5. ctl'.at = "kill" /\ ctl'.todo = ctl.todo \ {n}
    BY <1>1, <1>4, Zenon
  <1>6. /\ Started(n) /\ seg' = [seg EXCEPT ![n] = EnsureState(seg[n], Killing)]
        /\ told' = [told EXCEPT ![n] = IF seg[n] < Killing THEN "kill" ELSE told[n]]
    BY <1>2, Zenon DEF HaltSegment, Tell, Started
  <1>7. /\ seg' \in [Segment -> Initialized .. Completed]
        /\ told' \in [Segment -> {"no", "stop", "kill"}]
        /\ \A x \in Segment \ {n} : seg'[x] = seg[x] /\ told'[x] = told[x]
        /\ \/ seg[n] < Killing /\ seg'[n] = Killing /\ told'[n] = "kill"
           \/ ~(seg[n] < Killing) /\ seg'[n] = seg[n] /\ told'[n] = told[n]
    BY <1>0, <1>3, <1>6 DEF Numbers, Marks, EnsureState, Initialized, Starting, Running,
       Stopping, Killing, Completed
  <1>8. \A x \in Segment : (Started(x)' <=> Started(x))
    <2>1. Killing # Initialized
      BY DEF Initialized, Killing
    <2> QED
      BY <1>7, <1>6, <2>1, Zenon DEF Started
  <1>9. ~Updating /\ ~Updating'
    BY <1>1, <1>5, Zenon DEF Updating
  <1>10. m_segments \subseteq Segment
    BY <1>0, Zenon DEF Places
  <1>11. UNCHANGED <<pipe, channel, target, failing, ctlFailed, m_current_segments,
                  m_segments, work, failed, wired, joinable, main, cursor, thrown, pusher,
                  pushed, overtaken, missed>>
    BY Zenon DEF HaltSegment, Tell, services, control, segments, users, history
  <1>12. Places'
    BY <1>0, <1>3, <1>4, <1>5, <1>7, <1>8, <1>11, Zenon DEF Places, Place, MainPlace
  <1>13. Numbers'
    BY <1>0, <1>6, <1>7, <1>11, Zenon DEF Numbers
  <1>14. Marks'
    BY <1>0, <1>6, <1>7, <1>11, Zenon DEF Marks
  <1>15. Failures'
    BY <1>0, <1>1, <1>2, <1>3, <1>5, <1>9, <1>11, Zenon DEF Failures
  <1>16. Progress'
    BY <1>0, <1>1, <1>3, <1>5, <1>9, <1>8, <1>10, <1>11, Zenon DEF Progress
  <1>17. Lives'
    BY <1>0, <1>8, <1>10, <1>11, Zenon DEF Lives
  <1>18. SecondFails'
    BY <1>0, <1>1, <1>5, <1>9, <1>8, <1>10, <1>11, Zenon DEF SecondFails
  <1>19. JoinedSegments'
    BY <1>0, <1>1, <1>2, <1>3, <1>5, <1>9, <1>10, <1>11, Zenon DEF JoinedSegments,
       Updating, Passed
  <1>20. Outcome'
    BY <1>0, <1>1, <1>2, <1>3, <1>5, <1>9, <1>11, Zenon DEF Outcome
  <1>21. SingleStarts'
    BY <1>0, <1>1, <1>5, <1>9, <1>8, <1>10, <1>11, Zenon DEF SingleStarts
  <1>22. SingleJoins'
    BY <1>0, <1>1, <1>2, <1>3, <1>5, <1>9, <1>10, <1>11, Zenon DEF SingleJoins, Updating,
       Passed
  <1>23. Told'
    <2>1. ~(Killing <= Stopping) /\ Killing <= Killing
      BY DEF Stopping, Killing
    <2> QED
      BY <1>0, <1>3, <1>7, <2>1, <1>11, Zenon DEF Told, Reached
  <1>24. Kills'
    <2>1. ~(seg[n] < Killing) => Killing <= seg[n]
      BY <1>0, <1>3 DEF Numbers, Initialized, Killing, Completed
    <2>2. work[n] = "active" => Reached(n)'
      BY <1>0, <1>3, <1>7, <2>1, Zenon DEF Told, Reached
    <2> QED
      BY <1>0, <1>1, <1>5, <1>7, <1>9, <2>2, <1>10, <1>11, Zenon DEF Kills, Reached
  <1>25. Wires'
    BY <1>0, <1>1, <1>2, <1>3, <1>5, <1>9, <1>10, <1>11, Zenon DEF Wires, Closed
  <1>26. Flags' /\ Proper(channel') /\ Single'
    BY <1>0, <1>11, FlagsKept, SingleKept, Zenon
  <1> QED
    BY <1>12, <1>13, <1>14, <1>15, <1>16, <1>17, <1>18, <1>19, <1>20, <1>21, <1>22,
       <1>23, <1>24, <1>25, <1>26, Zenon DEF IInv

\* The loop of a stop or a kill meets a segment that was not started.
LEMMA HaltThrowsKeepsInv == ASSUME IInv, HaltThrows PROVE IInv'
  <1>0. Places /\ Numbers /\ Marks /\ Flags /\ Proper(channel) /\ Failures /\ Progress
        /\ Lives /\ SecondFails /\ JoinedSegments /\ Outcome /\ Single /\ SingleStarts /\
        SingleJoins /\ Told /\ Kills /\ Wires
    BY Zenon DEF IInv
  <1>1. ctl.at \in {"stop", "kill"} /\ ctl.todo # {} /\ ctlFailed' /\ missed' = missed \cup ctl.todo
    BY Zenon DEF HaltThrows, At, ControllerFails
  <1>2. PICK n : n = Next1
    BY Zenon
  <1>3. n \in ctl.todo /\ n \in Segment /\ \A y \in ctl.todo : n <= y
    <2>1. ctl.todo \subseteq Segment
      BY <1>0, Zenon DEF Places
    <2> QED
      BY <1>1, <1>2, <2>1, MinIsFirst, Zenon DEF Next1
  <1>4. ~Started(n)
    BY <1>2, Zenon DEF HaltThrows, Started
  <1>5. ctl' = [at |-> "ended", todo |-> {}]
    BY Zenon DEF HaltThrows, ControllerFails, GoTo
  <1>6. ctl'.at = "ended" /\ ctl'.todo = {}
    BY <1>5, Zenon
  <1>7. ~Updating /\ ~Updating'
    BY <1>1, <1>6, Zenon DEF Updating
  <1>8. \A y \in ctl.todo : y # n => n < y
    BY <1>0, <1>3, PipelineAssumption, SMTT(30) DEF Places
  <1>9. m_segments \subseteq Segment
    BY <1>0, Zenon DEF Places
  <1>10. UNCHANGED <<pipe, channel, target, failing, m_current_segments,
                  m_segments, seg, work, told, failed, wired, joinable, main, cursor,
                  thrown, pusher, pushed, overtaken>>
    BY Zenon DEF HaltThrows, ControllerFails, services, control, segments, users, history
  <1>11. Places'
    BY <1>0, <1>1, <1>3, <1>5, <1>6, <1>8, <1>10, Zenon DEF Places, Place, MainPlace
  <1>12. Failures'
    BY <1>0, <1>1, <1>2, <1>3, <1>6, <1>7, <1>8, <1>10, Zenon DEF Failures
  <1>13. Progress'
    BY <1>0, <1>1, <1>2, <1>3, <1>4, <1>6, <1>7, <1>8, <1>9, <1>10, Zenon DEF Progress,
       Updating, Started
  <1>14. SecondFails'
    BY <1>0, <1>1, <1>2, <1>3, <1>4, <1>6, <1>7, <1>8, <1>9, <1>10, Zenon DEF
       SecondFails, Updating, Started
  <1>15. JoinedSegments'
    BY <1>0, <1>1, <1>2, <1>3, <1>6, <1>7, <1>8, <1>9, <1>10, Zenon DEF JoinedSegments,
       Updating, Passed
  <1>16. Outcome'
    BY <1>0, <1>1, <1>2, <1>3, <1>6, <1>7, <1>8, <1>10, Zenon DEF Outcome
  <1>17. SingleStarts'
    BY <1>0, <1>1, <1>2, <1>3, <1>4, <1>6, <1>7, <1>8, <1>9, <1>10, Zenon DEF
       SingleStarts, Started
  <1>18. SingleJoins'
    BY <1>0, <1>1, <1>2, <1>3, <1>6, <1>7, <1>8, <1>9, <1>10, Zenon DEF SingleJoins,
       Updating, Passed
  <1>19. Kills'
    <2>1. ~(pushed <= 1) => pushed > 1
      BY <1>0 DEF Numbers
    <2>2. ASSUME pipe = Killing, ~overtaken, NEW s \in m_segments, work[s] = "active"
          PROVE  Reached(s) \/ Spared(s)'
      <3>1. CASE s \in ctl.todo
        <4>1. Started(s) /\ s # n
          BY <1>0, <1>4, <2>2, <1>9, Zenon DEF Lives
        <4>2. n < s /\ n \in m_segments
          BY <1>0, <1>1, <1>3, <1>8, <3>1, <4>1, Zenon DEF Progress
        <4>3. pushed > 1
          BY <1>0, <1>4, <2>1, <4>1, <4>2, Zenon DEF SingleStarts
        <4> QED
          BY <1>1, <1>3, <1>4, <3>1, <4>2, <4>3, <1>10, Zenon DEF Spared, Started
      <3>2. CASE s \notin ctl.todo
        BY <1>0, <1>1, <2>2, <3>2, Zenon DEF Kills, Reached
      <3> QED
        BY <3>1, <3>2, Zenon
    <2> QED
      BY <1>6, <1>7, <2>2, <1>10, Zenon DEF Kills, Reached
  <1>20. Wires'
    BY <1>0, <1>1, <1>2, <1>3, <1>6, <1>7, <1>8, <1>9, <1>10, Zenon DEF Wires, Closed
  <1>21. Numbers' /\ Marks' /\ Flags' /\ Proper(channel') /\ Lives' /\ Single' /\ Told'
    BY <1>0, <1>10, NumbersKept, MarksKept, FlagsKept, LivesKept, SingleKept, ToldKept,
       Zenon
  <1> QED
    BY <1>11, <1>12, <1>13, <1>14, <1>15, <1>16, <1>17, <1>18, <1>19, <1>20, <1>21, Zenon
       DEF IInv

\* The loop of a stop or a kill is through.
LEMMA HaltDoneKeepsInv == ASSUME IInv, HaltDone PROVE IInv'
  <1>0. Places /\ Numbers /\ Marks /\ Flags /\ Proper(channel) /\ Failures /\ Progress
        /\ Lives /\ SecondFails /\ JoinedSegments /\ Outcome /\ Single /\ SingleStarts /\
        SingleJoins /\ Told /\ Kills /\ Wires
    BY Zenon DEF IInv
  <1>1. ctl.at \in {"stop", "kill"} /\ ctl.todo = {} /\ ~ctlFailed
    BY <1>0, Zenon DEF HaltDone, Through, Failures
  <1>2. \/ failing /\ ctlFailed' /\ ctl' = [at |-> "ended", todo |-> {}]
        \/ ~failing /\ ~ctlFailed' /\ ctl' = [at |-> "idle", todo |-> {}]
    BY <1>1, Zenon DEF HaltDone, ControllerFails, GoTo
  <1>3. \/ failing /\ ctlFailed' /\ ctl'.at = "ended" /\ ctl'.todo = {}
        \/ ~failing /\ ~ctlFailed' /\ ctl'.at = "idle" /\ ctl'.todo = {}
    <2>1. CASE failing /\ ctlFailed' /\ ctl' = [at |-> "ended", todo |-> {}]
      <3>1. ctl'.at = "ended" /\ ctl'.todo = {}
        BY <2>1, Zenon
      <3> QED
        BY <2>1, <3>1, Zenon
    <2>2. CASE ~failing /\ ~ctlFailed' /\ ctl' = [at |-> "idle", todo |-> {}]
      <3>1. ctl'.at = "idle" /\ ctl'.todo = {}
        BY <2>2, Zenon
      <3> QED
        BY <2>2, <3>1, Zenon
    <2> QED
      BY <1>2, <2>1, <2>2, Zenon
  <1>4. ctl' \in [at : Place, todo : SUBSET Segment]
    <2>1. ctl' = [at |-> "ended", todo |-> {}] \/ ctl' = [at |-> "idle", todo |-> {}]
      BY <1>2, Zenon
    <2> QED
      BY <2>1 DEF Place
  <1>5. ~Updating /\ ~Updating'
    BY <1>1, <1>3, Zenon DEF Updating
  <1>6. UNCHANGED <<pipe, channel, target, failing, m_current_segments,
                  m_segments, seg, work, told, failed, wired, joinable, main, cursor,
                  thrown, pusher, pushed, overtaken, missed>>
    BY Zenon DEF HaltDone, ControllerFails, services, control, segments, users, history
  <1>7. Places'
    BY <1>0, <1>2, <1>3, <1>4, <1>6, Zenon DEF Places, Place, MainPlace
  <1>8. Failures'
    BY <1>0, <1>1, <1>2, <1>3, <1>5, <1>6, Zenon DEF Failures
  <1>9. Progress'
    BY <1>0, <1>1, <1>2, <1>3, <1>5, <1>6, Zenon DEF Progress, Updating, Started
  <1>10. SecondFails'
    BY <1>0, <1>1, <1>2, <1>3, <1>5, <1>6, Zenon DEF SecondFails, Updating, Started
  <1>11. JoinedSegments'
    BY <1>0, <1>1, <1>2, <1>3, <1>5, <1>6, Zenon DEF JoinedSegments, Updating, Passed
  <1>12. Outcome'
    BY <1>0, <1>1, <1>2, <1>3, <1>5, <1>6, Zenon DEF Outcome
  <1>13. SingleStarts'
    BY <1>0, <1>1, <1>2, <1>3, <1>5, <1>6, Zenon DEF SingleStarts, Started
  <1>14. SingleJoins'
    BY <1>0, <1>1, <1>2, <1>3, <1>5, <1>6, Zenon DEF SingleJoins, Updating, Passed
  <1>15. Kills'
    BY <1>0, <1>1, <1>2, <1>3, <1>5, <1>6, Zenon DEF Kills, Reached, Updating, Started, Spared
  <1>16. Wires'
    BY <1>0, <1>1, <1>2, <1>3, <1>5, <1>6, Zenon DEF Wires, Closed
  <1>17. Numbers' /\ Marks' /\ Flags' /\ Proper(channel') /\ Lives' /\ Single' /\ Told'
    BY <1>0, <1>6, NumbersKept, MarksKept, FlagsKept, LivesKept, SingleKept, ToldKept,
       Zenon
  <1> QED
    BY <1>7, <1>8, <1>9, <1>10, <1>11, <1>12, <1>13, <1>14, <1>15, <1>16, <1>17, Zenon
       DEF IInv

\* A segment ends.
LEMMA WorkEndsKeepsInv == ASSUME IInv, NEW s \in Segment, WorkEnds(s) PROVE IInv'
  <1>0. Places /\ Numbers /\ Marks /\ Flags /\ Proper(channel) /\ Failures /\ Progress
        /\ Lives /\ SecondFails /\ JoinedSegments /\ Outcome /\ Single /\ SingleStarts /\
        SingleJoins /\ Told /\ Kills /\ Wires
    BY Zenon DEF IInv
  <1>1. work[s] = "active" /\ work' = [work EXCEPT ![s] = "ended"]
    BY Zenon DEF WorkEnds
  <1>2. /\ work' \in [Segment -> {"none", "active", "ended"}] /\ work'[s] = "ended"
        /\ \A x \in Segment \ {s} : work'[x] = work[x]
    BY <1>0, <1>1, Zenon DEF Marks
  <1>3. m_segments \subseteq Segment
    BY <1>0, Zenon DEF Places
  <1>4. UNCHANGED <<pipe, channel, target, failing, ctlFailed, m_current_segments,
                  ctl, m_segments, seg, told, failed, wired, joinable, main, cursor, thrown,
                  pusher, pushed, overtaken, missed>>
    BY Zenon DEF WorkEnds, services, control, segments, users, history
  <1>5. Marks'
    BY <1>0, <1>1, <1>2, <1>4, Zenon DEF Marks
  <1>6. Lives'
    BY <1>0, <1>1, <1>2, <1>3, <1>4, Zenon DEF Lives, Started
  <1>7. JoinedSegments'
    BY <1>0, <1>1, <1>2, <1>3, <1>4, Zenon DEF JoinedSegments, Updating, Passed
  <1>8. SingleJoins'
    BY <1>0, <1>1, <1>2, <1>3, <1>4, Zenon DEF SingleJoins, Updating, Passed
  <1>9. Told'
    BY <1>0, <1>1, <1>2, <1>4, Zenon DEF Told, Reached
  <1>10. Kills'
    BY <1>0, <1>1, <1>2, <1>3, <1>4, Zenon DEF Kills, Reached, Updating, Started, Spared
  <1>11. Wires'
    BY <1>0, <1>1, <1>2, <1>3, <1>4, Zenon DEF Wires, Closed
  <1>12. Places' /\ Numbers' /\ Flags' /\ Proper(channel') /\ Failures' /\ Progress' /\
        SecondFails' /\ Outcome' /\ Single' /\ SingleStarts'
    BY <1>0, <1>4, PlacesKept, NumbersKept, FlagsKept, FailuresKept, ProgressKept,
       SecondFailsKept, OutcomeKept, SingleKept, SingleStartsKept, Zenon
  <1> QED
    BY <1>5, <1>6, <1>7, <1>8, <1>9, <1>10, <1>11, <1>12, Zenon DEF IInv

\* A node fails.
LEMMA NodeFailsKeepsInv == ASSUME IInv, NEW n \in Segment, NodeFails(n) PROVE IInv'
  <1>0. Places /\ Numbers /\ Marks /\ Flags /\ Proper(channel) /\ Failures /\ Progress
        /\ Lives /\ SecondFails /\ JoinedSegments /\ Outcome /\ Single /\ SingleStarts /\
        SingleJoins /\ Told /\ Kills /\ Wires
    BY Zenon DEF IInv
  <1>1. work[n] = "active" /\ failed' = [failed EXCEPT ![n] = TRUE]
    BY Zenon DEF NodeFails
  <1>2. Started(n)
    BY <1>0, <1>1, Zenon DEF Lives
  <1>3. /\ failed' \in [Segment -> BOOLEAN]
        /\ \A x \in Segment : x # n => failed'[x] = failed[x]
    BY <1>0, <1>1, Zenon DEF Flags
  <1>4. /\ seg' = [seg EXCEPT ![n] = EnsureState(seg[n], Killing)]
        /\ told' = [told EXCEPT ![n] = IF seg[n] < Killing THEN "kill" ELSE told[n]]
    BY Zenon DEF NodeFails, Tell
  <1>5. /\ seg' \in [Segment -> Initialized .. Completed]
        /\ told' \in [Segment -> {"no", "stop", "kill"}]
        /\ \A x \in Segment \ {n} : seg'[x] = seg[x] /\ told'[x] = told[x]
        /\ \/ seg[n] < Killing /\ seg'[n] = Killing /\ told'[n] = "kill"
           \/ ~(seg[n] < Killing) /\ seg'[n] = seg[n] /\ told'[n] = told[n]
    BY <1>0, <1>4 DEF Numbers, Marks, EnsureState, Initialized, Starting, Running,
       Stopping, Killing, Completed
  <1>6. \A x \in Segment : (Started(x)' <=> Started(x))
    <2>1. Killing # Initialized
      BY DEF Initialized, Killing
    <2> QED
      BY <1>5, <1>2, <2>1, Zenon DEF Started
  <1>7. m_segments \subseteq Segment
    BY <1>0, Zenon DEF Places
  <1>8. UNCHANGED <<pipe, channel, target, failing, ctlFailed, m_current_segments,
                  ctl, m_segments, work, wired, joinable, main, cursor, thrown, pusher,
                  pushed, overtaken, missed>>
    BY Zenon DEF NodeFails, Tell, services, control, segments, users, history
  <1>9. Numbers'
    BY <1>0, <1>4, <1>5, <1>8, Zenon DEF Numbers
  <1>10. Marks'
    BY <1>0, <1>4, <1>5, <1>8, Zenon DEF Marks
  <1>11. Flags'
    BY <1>0, <1>1, <1>3, <1>8, Zenon DEF Flags
  <1>12. Progress'
    BY <1>0, <1>6, <1>8, SameStarts, Zenon
  <1>13. Lives'
    BY <1>0, <1>1, <1>2, <1>3, <1>6, <1>7, <1>8, Zenon DEF Lives
  <1>14. SecondFails'
    BY <1>0, <1>6, <1>8, SameStarts, Zenon
  <1>15. JoinedSegments'
    BY <1>0, <1>1, <1>3, <1>7, <1>8, Zenon DEF JoinedSegments, Updating, Passed
  <1>16. SingleStarts'
    BY <1>0, <1>6, <1>8, SameStarts, Zenon
  <1>17. Told'
    <2>1. ~(Killing <= Stopping) /\ Killing <= Killing
      BY DEF Stopping, Killing
    <2> QED
      BY <1>0, <1>1, <1>5, <2>1, <1>8, Zenon DEF Told, Reached
  <1>18. Kills'
    <2>1. ~(seg[n] < Killing) => Killing <= seg[n]
      BY <1>0 DEF Numbers, Initialized, Killing, Completed
    <2>2. \A x \in Segment : Reached(x) => Reached(x)'
      <3>1. ~(Completed < Killing)
        BY DEF Killing, Completed
      <3> QED
        BY <1>5, <3>1, Zenon DEF Reached
    <2> QED
      BY <1>0, <1>6, <2>2, <1>7, <1>8, SameSpared, Zenon DEF Kills, Updating
  <1>19. Places' /\ Proper(channel') /\ Failures' /\ Outcome' /\ Single' /\ SingleJoins' /\
        Wires'
    BY <1>0, <1>8, PlacesKept, FailuresKept, OutcomeKept, SingleKept, SingleJoinsKept,
       WiresKept, Zenon
  <1> QED
    BY <1>9, <1>10, <1>11, <1>12, <1>13, <1>14, <1>15, <1>16, <1>17, <1>18, <1>19, Zenon
       DEF IInv

\* The controller handles a message.
LEMMA OnDataKeepsInv == ASSUME IInv, on_data PROVE IInv'
  <1>1. /\ Through("idle") /\ channel # << >> /\ channel' = Tail(channel)
        /\ UNCHANGED <<exec, manager, reset, m_current_segments, segments, users, crashed>>
    BY Zenon DEF on_data
  <1>2. \/ Head(channel).type = "Update" /\ OnUpdate(Head(channel).addresses)
        \/ UNCHANGED <<failing, target, history>> /\ Halt(Stopping, "stop")
        \/ UNCHANGED <<failing, target, history>> /\ Halt(Killing, "kill")
    BY Zenon DEF on_data
  <1>3. CASE Head(channel).type = "Update" /\ OnUpdate(Head(channel).addresses)
    BY <1>1, <1>3, UpdateKeepsInv, Zenon
  <1>4. Stopping # Killing
    BY DEF Stopping, Killing
  <1>5. CASE UNCHANGED <<failing, target, history>> /\ Halt(Stopping, "stop")
    BY <1>1, <1>4, <1>5, HaltKeepsInv, Zenon
  <1>6. CASE UNCHANGED <<failing, target, history>> /\ Halt(Killing, "kill")
    BY <1>1, <1>6, HaltKeepsInv, Zenon
  <1> QED
    BY <1>2, <1>3, <1>5, <1>6, Zenon

-----------------------------------------------------------------------------
(* The theorems *)

\* The executor before start().
LEMMA InitIInv == Init => IInv
  <1> SUFFICES ASSUME Init PROVE IInv
    BY Zenon
  <1>1. /\ ctl = [at |-> "idle", todo |-> {}] /\ main = "new" /\ target = {} /\ m_segments = {}
        /\ missed = {} /\ pipe = Running /\ cursor = 0 /\ pushed = 0 /\ channel = << >>
        /\ seg = [s \in Segment |-> Initialized] /\ work = [s \in Segment |-> "none"]
        /\ told = [s \in Segment |-> "no"] /\ m_current_segments = {} /\ wired = {}
        /\ pusher = "idle"
    BY Zenon DEF Init, Nothing
  <1>2. ~failing /\ ~ctlFailed /\ ~joinable /\ failed = [s \in Segment |-> FALSE]
    BY Zenon DEF Init
  <1>3. ctl.at = "idle" /\ ctl.todo = {}
    BY <1>1, Zenon
  <1>4. \A s \in Segment : ~Started(s) /\ work[s] = "none" /\ told[s] = "no"
    BY <1>1, Zenon DEF Started
  <1>5. ~Updating /\ \A s : ~Passed(s)
    BY <1>1, <1>3, Zenon DEF Updating, Passed
  <1>6. NoUpdate(channel) /\ Proper(channel)
    BY <1>1 DEF NoUpdate, Proper
  <1>7. pipe < Stopping /\ pipe # Killing /\ pipe # Stopping /\ 0 # 1
    BY <1>1 DEF Running, Stopping, Killing
  <1>8. Places
    BY <1>1, Zenon DEF Places, Place, MainPlace
  <1>9. Numbers /\ Marks
    BY <1>1 DEF Numbers, Marks, Initialized, Running, Completed
  <1>10. Flags /\ Failures
    BY <1>2, Zenon DEF Flags, Failures
  <1>11. Progress /\ Lives
    BY <1>1, <1>2, <1>3, <1>4, <1>5, Zenon DEF Progress, Lives
  <1>12. SecondFails /\ JoinedSegments /\ Outcome
    BY <1>1, <1>2, <1>5, <1>7, Zenon DEF SecondFails, JoinedSegments, Outcome
  <1>13. Single /\ SingleStarts /\ SingleJoins
    BY <1>1, <1>3, <1>6, <1>7, Zenon DEF Single, SingleStarts, SingleJoins
  <1>14. Told
    BY <1>4, Zenon DEF Told, Reached
  <1>15. Kills /\ Wires
    BY <1>1, <1>3, <1>4, <1>5, <1>7, Zenon DEF Kills, Reached, Wires, Closed
  <1> QED
    BY <1>6, <1>8, <1>9, <1>10, <1>11, <1>12, <1>13, <1>14, <1>15, Zenon DEF IInv

\* Nothing but the variables of Pipeline is looked at.
LEMMA StutterKeepsInv == ASSUME IInv, UNCHANGED vars PROVE IInv'
  <1>1. UNCHANGED <<pipe, channel, target, failing, ctlFailed, m_current_segments, ctl, m_segments,
                    seg, work, told, failed, wired, joinable, main, cursor, thrown, pusher, pushed,
                    overtaken, missed>>
    BY Zenon DEF vars, services, control, segments, users, history
  <1> QED
    BY <1>1, PlacesKept, NumbersKept, MarksKept, FlagsKept, FailuresKept, ProgressKept,
       LivesKept, SecondFailsKept, JoinedSegmentsKept, OutcomeKept, SingleKept, SingleStartsKept,
       SingleJoinsKept, ToldKept, KillsKept, WiresKept, Zenon DEF IInv

\* Every step keeps the invariant.
LEMMA StepKeepsInv == IInv /\ [Next]_vars => IInv'
  <1> SUFFICES ASSUME IInv, [Next]_vars PROVE IInv'
    BY Zenon
  <1>1. CASE Main
    BY <1>1, StartKeepsInv, ServiceStartKeepsInv, JoinKeepsInv, DestroyKeepsInv, KillHookKeepsInv,
       AwaitJoinableKeepsInv, JoinSegmentKeepsInv, ResetChannelKeepsInv, JoinControllerKeepsInv,
       Zenon DEF Main
  <1>2. CASE Callers
    BY <1>2, StopKeepsInv, ManagerStopKeepsInv, StopHookKeepsInv, PushCheckKeepsInv,
       PushWriteKeepsInv, Zenon DEF Callers
  <1>3. CASE Controller
    BY <1>3, OnDataKeepsInv, ControllerEndsKeepsInv, CreateSegmentKeepsInv, CreateThrowsKeepsInv,
       CreateDoneKeepsInv, StopSegmentKeepsInv, UpdateWiresKeepsInv, StartSegmentKeepsInv,
       StartThrowsKeepsInv, UpdateDoneKeepsInv, StopLoopKeepsInv, KillLoopKeepsInv,
       HaltThrowsKeepsInv, HaltDoneKeepsInv, Zenon DEF Controller
  <1>4. CASE Segments
    BY <1>4, WorkEndsKeepsInv, NodeFailsKeepsInv, Zenon DEF Segments
  <1>5. CASE UNCHANGED vars
    BY <1>5, StutterKeepsInv, Zenon
  <1> QED
    BY <1>1, <1>2, <1>3, <1>4, <1>5, Zenon DEF Next

\* The invariant holds in every behaviour of the executor, the manager, the
\* controller and the pipeline instance.
THEOREM Invariance == Spec => []IInv
  BY InitIInv, StepKeepsInv, PTL DEF Spec

\* join() returns without an exception only if every update succeeded and no node
\* failed: PipelineInstance::do_service_await_join meets every segment that ever
\* ran, because an update behind it is bound to fail.
THEOREM JoinReports == Spec => []JoinReportsFailure
  <1>1. IInv => JoinReportsFailure
    <2> SUFFICES ASSUME IInv, main = "joined", ~overtaken
                 PROVE  ~failing /\ \A s \in Segment : ~failed[s]
      BY Zenon DEF JoinReportsFailure
    <2>1. ctl.at = "ended" /\ ~ctlFailed /\ ~thrown
      BY Zenon DEF IInv, Outcome
    <2>2. ~failing /\ ~Updating
      BY <2>1, Zenon DEF IInv, Failures, Updating
    <2>3. \A s \in m_segments : failed[s] => thrown
      BY <2>2, Zenon DEF IInv, JoinedSegments, Passed
    <2>4. \A s \in Segment : failed[s] => s \in m_segments
      BY Zenon DEF IInv, Lives
    <2> QED
      BY <2>1, <2>2, <2>3, <2>4, Zenon
  <1> QED
    BY <1>1, Invariance, PTL

\* When join() returns, or throws after a single update, no segment runs any more
\* (pipeline_instance.cpp, do_service_await_join).
THEOREM JoinIsLast == Spec => []JoinAfterSegments
  <1>1. IInv => JoinAfterSegments
    <2> SUFFICES ASSUME IInv, ~overtaken, main = "joined" \/ (main = "threw" /\ pushed = 1),
                        NEW s \in Segment, work[s] = "active"
                 PROVE  FALSE
      BY Zenon DEF JoinAfterSegments
    <2>1. s \in m_segments /\ Passed(s)
      BY Zenon DEF IInv, Lives, Passed
    <2>2. CASE main = "joined"
      <3>1. ~failing /\ ~Updating
        BY <2>2, Zenon DEF IInv, Outcome, Failures, Updating
      <3> QED
        BY <2>1, <3>1, Zenon DEF IInv, JoinedSegments
    <2>3. CASE main = "threw" /\ pushed = 1
      BY <2>1, <2>3, Zenon DEF IInv, SingleJoins
    <2> QED
      BY <2>2, <2>3, Zenon
  <1> QED
    BY <1>1, Invariance, PTL

\* do_service_kill of a pipeline gets to every running segment that is not behind one
\* that was never started.
THEOREM KillReaches == Spec => []KillReachesRunning
  <1>1. IInv => KillReachesRunning
    BY Zenon DEF IInv, Kills, Reached, Spared, Started, KillReachesRunning
  <1> QED
    BY <1>1, Invariance, PTL

\* No segment runs before the manifolds of Controller::update connect what it feeds.
THEOREM RunsConnected == Spec => []RunningIsConnected
  <1>1. IInv => RunningIsConnected
    BY Zenon DEF IInv, Wires, Closed, RunningIsConnected
  <1> QED
    BY <1>1, Invariance, PTL
=============================================================================
