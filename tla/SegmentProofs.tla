---------------------------- MODULE SegmentProofs ----------------------------
(***************************************************************************)
(* The safety of Segment, for every graph in which a node has at most one  *)
(* edge in, every launch order, every capacity and any number of elements. *)
(***************************************************************************)
EXTENDS Segment, TLAPS

\* The program points of a node that has left subscribe().
Ending == {"shutdown", "callback", "kill hook", "done"}

Point == {"none", "loop", "writing", "reading"} \cup Ending

Points == pc \in [Node -> Point]

States ==
  /\ m_state \in Starting .. Completed /\ launched \in 0 .. Len(LaunchOrder)
  /\ join \in {"none", "joining", "joined", "threw"}

Elements ==
  /\ item \in [Node -> Nat] /\ sent \in [Node -> Seq(Nat)]
  /\ chan \in [Reader -> Seq(Nat)] /\ taken \in [Reader -> Seq(Nat)]

Flags ==
  /\ subscribed \in [Node -> BOOLEAN] /\ failed \in [Node -> BOOLEAN]
  /\ closed \in [Reader -> BOOLEAN]

Fits == \A r \in Reader : Len(chan[r]) <= Capacity

\* Exactly the nodes launched so far are somewhere, and only readers read.
Placed ==
  \A n \in Node : /\ pc[n] = "none" <=> n \notin Launched
                  /\ pc[n] = "reading" => n \in Reader

\* A join comes after the start, and ends when all nodes have ended.
Joining ==
  /\ started => launched = Len(LaunchOrder)
  /\ join # "none" => started
  /\ join \in {"joined", "threw"} => \A n \in Node : pc[n] = "done"

Finished == m_state = Completed => join \in {"joined", "threw"}

\* Whoever is in the hook of a kill has set the state before.
KillsAnnounced ==
  user = "kill" \/ (\E n \in Node : pc[n] = "kill hook") => Killing <= m_state

\* A channel is closed only by its writer, which writes no more.
ClosedByWriter ==
  \A r \in Reader : closed[r] => pc[Upstream[r]] \in {"callback", "kill hook", "done"}

\* The elements s written to a channel are the t taken from it and the c in it.
InOrder(s, t, c) ==
  /\ Len(s) = Len(t) + Len(c)
  /\ \A i \in 1 .. Len(t) : s[i] = t[i]
  /\ \A i \in 1 .. Len(c) : s[Len(t) + i] = c[i]

Carried(r) == InOrder(sent[Upstream[r]], taken[r], chan[r])

PassedOn(r) ==
  Downstream(r) # {} =>
    taken[r] = IF pc[r] = "writing" THEN Append(sent[r], item[r]) ELSE sent[r]

Drained(r) == pc[r] \in Ending => closed[r] /\ chan[r] = << >>

\* The segment was not killed and no node has failed.
Undisturbed == m_state < Killing /\ \A n \in Node : ~failed[n]

\* Then no reader was unsubscribed, nothing was dropped, and a reader ends only
\* behind the end of its data.
Flow ==
  Undisturbed =>
    \A r \in Reader : subscribed[r] /\ Carried(r) /\ PassedOn(r) /\ Drained(r)

IInv ==
  /\ Points /\ States /\ Elements /\ Flags /\ Fits /\ Placed /\ Joining /\ Finished
  /\ JoinReportsFailure /\ KillsAnnounced /\ ClosedByWriter /\ Flow

-----------------------------------------------------------------------------
(* Sequences and the launch order *)

\* Nothing was written yet.
LEMMA NothingWritten == InOrder(<< >>, << >>, << >>)
  BY DEF InOrder

\* The last index and the others.
LEMMA LastIndex == ASSUME NEW k \in Nat, NEW i \in 1 .. k + 1 PROVE i = k + 1 \/ i \in 1 .. k
  OBVIOUS

\* A write goes to the end of the channel.
LEMMA WriteKeepsOrder ==
  ASSUME NEW s \in Seq(Nat), NEW t \in Seq(Nat), NEW c \in Seq(Nat), NEW x \in Nat,
         InOrder(s, t, c)
  PROVE  InOrder(Append(s, x), t, Append(c, x))
  <1> DEFINE u == Append(s, x)
             d == Append(c, x)
  <1>1. /\ Len(u) = Len(s) + 1 /\ Len(d) = Len(c) + 1
        /\ Len(s) \in Nat /\ Len(t) \in Nat /\ Len(c) \in Nat
    OBVIOUS
  <1>2. Len(s) = Len(t) + Len(c)
    BY Zenon DEF InOrder
  <1>3. \A i \in 1 .. Len(t) : u[i] = t[i]
    <2> SUFFICES ASSUME NEW i \in 1 .. Len(t) PROVE u[i] = t[i]
      BY Zenon
    <2>1. i \in 1 .. Len(s)
      BY <1>1, <1>2
    <2>2. u[i] = s[i]
      BY <2>1
    <2> QED
      BY <2>2, Zenon DEF InOrder
  <1>4. \A i \in 1 .. Len(c) + 1 : u[Len(t) + i] = d[i]
    <2> SUFFICES ASSUME NEW i \in 1 .. Len(c) + 1 PROVE u[Len(t) + i] = d[i]
      BY Zenon
    <2>1. CASE i = Len(c) + 1
      <3>1. Len(t) + i = Len(s) + 1
        BY <1>1, <1>2, <2>1
      <3> QED
        BY <2>1, <3>1
    <2>2. CASE i \in 1 .. Len(c)
      <3>1. Len(t) + i \in 1 .. Len(s)
        BY <1>1, <1>2, <2>2
      <3>2. u[Len(t) + i] = s[Len(t) + i] /\ d[i] = c[i]
        BY <2>2, <3>1
      <3> QED
        BY <2>2, <3>2, Zenon DEF InOrder
    <2> HIDE DEF u, d
    <2> QED
      BY <1>1, <2>1, <2>2, LastIndex, Zenon
  <1> HIDE DEF u, d
  <1>5. InOrder(u, t, d)
    <2>1. Len(u) = Len(t) + Len(d)
      BY <1>1, <1>2
    <2>2. \A i \in 1 .. Len(d) : u[Len(t) + i] = d[i]
      BY <1>1, <1>4, Zenon
    <2> QED
      BY <1>3, <2>1, <2>2, Zenon DEF InOrder
  <1> QED
    BY <1>5, Zenon DEF u, d

\* A read takes the oldest element.
LEMMA ReadKeepsOrder ==
  ASSUME NEW s \in Seq(Nat), NEW t \in Seq(Nat), NEW c \in Seq(Nat), c # << >>,
         InOrder(s, t, c)
  PROVE  InOrder(s, Append(t, Head(c)), Tail(c))
  <1> DEFINE u == Append(t, Head(c))
             d == Tail(c)
  <1>1. /\ Len(u) = Len(t) + 1 /\ Len(d) = Len(c) - 1
        /\ Len(c) \in Nat \ {0} /\ Len(t) \in Nat /\ Len(s) = Len(t) + Len(c)
    BY DEF InOrder
  <1>2. \A i \in 1 .. Len(t) + 1 : s[i] = u[i]
    <2> SUFFICES ASSUME NEW i \in 1 .. Len(t) + 1 PROVE s[i] = u[i]
      BY Zenon
    <2>1. CASE i = Len(t) + 1
      <3>1. u[i] = Head(c) /\ Head(c) = c[1] /\ 1 \in 1 .. Len(c)
        BY <1>1, <2>1, SMTT(30)
      <3>2. s[Len(t) + 1] = c[1]
        BY <3>1, Zenon DEF InOrder
      <3> QED
        BY <2>1, <3>1, <3>2, Zenon
    <2>2. CASE i \in 1 .. Len(t)
      <3>1. u[i] = t[i]
        BY <2>2
      <3> QED
        BY <2>2, <3>1, Zenon DEF InOrder
    <2> HIDE DEF u, d
    <2> QED
      BY <1>1, <2>1, <2>2, LastIndex, Zenon
  <1>3. \A i \in 1 .. Len(c) - 1 : s[Len(t) + 1 + i] = d[i]
    <2> SUFFICES ASSUME NEW i \in 1 .. Len(c) - 1 PROVE s[Len(t) + 1 + i] = d[i]
      BY Zenon
    <2>1. d[i] = c[i + 1] /\ i + 1 \in 1 .. Len(c) /\ Len(t) + 1 + i = Len(t) + (i + 1)
      BY <1>1
    <2> QED
      BY <2>1, Zenon DEF InOrder
  <1> HIDE DEF u, d
  <1>4. InOrder(s, u, d)
    <2>1. Len(s) = Len(u) + Len(d)
      BY <1>1
    <2>2. \A i \in 1 .. Len(u) : s[i] = u[i]
      BY <1>1, <1>2, Zenon
    <2>3. \A i \in 1 .. Len(d) : s[Len(u) + i] = d[i]
      BY <1>1, <1>3, Zenon
    <2> QED
      BY <2>1, <2>2, <2>3, Zenon DEF InOrder
  <1> QED
    BY <1>4, Zenon DEF u, d

\* All that was written to an empty channel was taken.
LEMMA EmptyMeansTaken ==
  ASSUME NEW s \in Seq(Nat), NEW t \in Seq(Nat), InOrder(s, t, << >>)
  PROVE  t = s
  BY DEF InOrder

\* The runner launched next was not launched before.
LEMMA LaunchNext ==
  ASSUME launched \in 0 .. Len(LaunchOrder), launched < Len(LaunchOrder),
         launched' = launched + 1
  PROVE  /\ LaunchOrder[launched + 1] \in Node \ Launched
         /\ Launched' = Launched \cup {LaunchOrder[launched + 1]}
  <1>1. launched + 1 \in 1 .. Len(LaunchOrder) /\ launched \in Nat
    BY SegmentAssumption
  <1>2. \A i : i \in 1 .. launched + 1 <=> i \in 1 .. launched \/ i = launched + 1
    BY <1>1
  <1>3. \A i \in 1 .. launched : i \in 1 .. Len(LaunchOrder) /\ i # launched + 1
    BY SegmentAssumption
  <1>4. LaunchOrder[launched + 1] \in Node
    BY <1>1, SegmentAssumption
  <1>5. \A i \in 1 .. launched : LaunchOrder[i] # LaunchOrder[launched + 1]
    BY <1>1, <1>3, SegmentAssumption, Zenon
  <1>6. LaunchOrder[launched + 1] \notin Launched
    BY <1>5, Zenon DEF Launched
  <1>7. Launched' = Launched \cup {LaunchOrder[launched + 1]}
    BY <1>2, Zenon DEF Launched
  <1> QED
    BY <1>4, <1>6, <1>7, Zenon

\* In the end all nodes are launched.
LEMMA AllLaunched == ASSUME launched = Len(LaunchOrder) PROVE Launched = Node
  BY SegmentAssumption DEF Launched

\* Taking the oldest element of a channel leaves the others alone.
LEMMA TakeOne ==
  ASSUME Elements, Fits, NEW n \in Reader, chan[n] # << >>,
         chan' = [chan EXCEPT ![n] = Tail(chan[n])]
  PROVE  /\ Fits' /\ chan' \in [Reader -> Seq(Nat)] /\ chan'[n] = Tail(chan[n])
         /\ \A r \in Reader \ {n} : chan'[r] = chan[r]
         /\ Head(chan[n]) \in Nat
  <1>1. chan[n] \in Seq(Nat) /\ Tail(chan[n]) \in Seq(Nat) /\ Head(chan[n]) \in Nat
    BY DEF Elements
  <1>2. Len(Tail(chan[n])) <= Capacity
    <2>1. Capacity \in Nat /\ Len(chan[n]) <= Capacity
      BY SegmentAssumption, Zenon DEF Fits
    <2>2. Len(Tail(chan[n])) = Len(chan[n]) - 1 /\ Len(chan[n]) \in Nat
      BY <1>1
    <2> QED
      BY <2>1, <2>2
  <1>3. chan' \in [Reader -> Seq(Nat)] /\ chan'[n] = Tail(chan[n])
    BY <1>1, Zenon DEF Elements
  <1>4. \A r \in Reader \ {n} : chan'[r] = chan[r]
    BY Zenon DEF Elements
  <1> QED
    BY <1>1, <1>2, <1>3, <1>4, Zenon DEF Fits

-----------------------------------------------------------------------------
(* One lemma per action: the invariant is kept. *)

\* A runner is launched.
LEMMA LaunchKeepsInv == ASSUME IInv, Launch PROVE IInv'
  <1>0. Points /\ States /\ Elements /\ Flags /\ Fits /\ Placed /\ Joining /\ Finished /\
        JoinReportsFailure /\ KillsAnnounced /\ ClosedByWriter /\ Flow
    BY Zenon DEF IInv
  <1>1. launched < Len(LaunchOrder) /\ launched' = launched + 1
        /\ pc' = [pc EXCEPT ![LaunchOrder[launched + 1]] = "loop"] /\ ~started
    BY Zenon DEF Launch, GoTo
  <1>2. UNCHANGED <<m_state, started, subscribed, failed, user, join, item, chan,
                  closed, sent, taken>>
    BY Zenon DEF Launch, GoTo, edges
  <1>3. PICK n \in Node : /\ n \notin Launched /\ Launched' = Launched \cup {n}
                       /\ pc' = [pc EXCEPT ![n] = "loop"]
    BY <1>0, <1>1, LaunchNext, Zenon DEF States
  <1>4. pc[n] \in Point /\ pc' \in [Node -> Point] /\ pc'[n] = "loop"
        /\ \A m \in Node \ {n} : pc'[m] = pc[m]
    BY <1>0, <1>1, <1>2, <1>3, Zenon DEF Points, Point, Ending
  <1>5. Points'
    BY <1>0, <1>1, <1>2, <1>3, <1>4, Zenon DEF Points
  <1>6. States'
    BY <1>0, <1>1, <1>2, <1>3, <1>4 DEF States, Starting, Running, Stopping, Killing, Completed
  <1>7. Placed'
    BY <1>0, <1>1, <1>2, <1>3, <1>4, Zenon DEF Placed
  <1>8. Joining'
    BY <1>0, <1>1, <1>2, <1>3, <1>4, Zenon DEF Joining
  <1>9. KillsAnnounced'
    BY <1>0, <1>1, <1>2, <1>3, <1>4, Zenon DEF KillsAnnounced
  <1>10. ClosedByWriter'
    BY <1>0, <1>1, <1>2, <1>3, <1>4, SegmentAssumption, Zenon DEF ClosedByWriter, Placed
  <1>11. Flow'
    <2> SUFFICES ASSUME Undisturbed', NEW r \in Reader
                 PROVE  (subscribed[r] /\ Carried(r) /\ PassedOn(r) /\ Drained(r))'
      BY Zenon DEF Flow
    <2>1. Undisturbed
      BY <1>0, <1>1, <1>2, <1>3, <1>4, Zenon DEF Undisturbed
    <2>2. subscribed[r] /\ Carried(r) /\ PassedOn(r) /\ Drained(r) /\ r \in Node
      BY <1>0, <2>1, SegmentAssumption, Zenon DEF Flow
    <2>3. PassedOn(r)'
      BY <1>0, <1>1, <1>2, <1>3, <1>4, <2>2, Zenon DEF PassedOn, Placed
    <2>4. Drained(r)'
      BY <1>0, <1>1, <1>2, <1>3, <1>4, <2>2, Zenon DEF Drained, Ending
    <2>5. (subscribed[r] /\ Carried(r))'
      BY <1>2, <2>2, Zenon DEF Flags, Carried
    <2> QED
      BY <2>3, <2>4, <2>5, Zenon
  <1>12. (Elements /\ Flags /\ Fits /\ Finished /\ JoinReportsFailure)'
    BY <1>0, <1>2, Zenon DEF Elements, Flags, Fits, Finished, JoinReportsFailure
  <1> QED
    BY <1>5, <1>6, <1>7, <1>8, <1>9, <1>10, <1>11, <1>12, Zenon DEF IInv

\* service_start returns.
LEMMA StartReturnsKeepsInv == ASSUME IInv, StartReturns PROVE IInv'
  <1>0. Points /\ States /\ Elements /\ Flags /\ Fits /\ Placed /\ Joining /\ Finished /\
        JoinReportsFailure /\ KillsAnnounced /\ ClosedByWriter /\ Flow
    BY Zenon DEF IInv
  <1>1. launched = Len(LaunchOrder) /\ started' = TRUE
        /\ m_state' = IF m_state < Running THEN Running ELSE m_state
    BY Zenon DEF StartReturns
  <1>2. UNCHANGED <<launched, pc, subscribed, failed, user, join, item, chan, closed,
                  sent, taken>>
    BY Zenon DEF StartReturns, edges
  <1>3. States'
    BY <1>0, <1>1, <1>2 DEF States, Starting, Running, Stopping, Killing, Completed
  <1>4. Joining'
    BY <1>0, <1>1, <1>2, Zenon DEF Joining
  <1>5. Finished'
    BY <1>0, <1>1, <1>2 DEF Finished, States, Starting, Running, Stopping, Killing, Completed
  <1>6. KillsAnnounced'
    <2>1. Killing <= m_state => Killing <= m_state'
      BY <1>0, <1>1 DEF States, Starting, Running, Stopping, Killing, Completed
    <2> QED
      BY <1>0, <1>1, <1>2, <2>1, Zenon DEF KillsAnnounced
  <1>7. Flow'
    <2> SUFFICES ASSUME Undisturbed', NEW r \in Reader
                 PROVE  (subscribed[r] /\ Carried(r) /\ PassedOn(r) /\ Drained(r))'
      BY Zenon DEF Flow
    <2>1. Undisturbed
      <3>1. m_state < Killing
        BY <1>0, <1>1, <1>2 DEF States, Undisturbed, Starting, Running, Stopping, Killing, Completed
      <3> QED
        BY <1>0, <1>1, <1>2, <3>1, Zenon DEF Undisturbed
    <2>2. subscribed[r] /\ Carried(r) /\ PassedOn(r) /\ Drained(r) /\ r \in Node
      BY <1>0, <2>1, SegmentAssumption, Zenon DEF Flow
    <2>3. (subscribed[r] /\ Carried(r) /\ PassedOn(r) /\ Drained(r))'
      BY <1>2, <2>2, Zenon DEF Flags, Carried, PassedOn, Drained
    <2> QED
      BY <2>3, Zenon
  <1>8. (Points /\ Elements /\ Flags /\ Fits /\ Placed /\ JoinReportsFailure /\
        ClosedByWriter)'
    BY <1>0, <1>2, Zenon DEF Points, Elements, Flags, Fits, Placed, JoinReportsFailure,
       ClosedByWriter, Launched
  <1> QED
    BY <1>3, <1>4, <1>5, <1>6, <1>7, <1>8, Zenon DEF IInv

\* The controller calls service_stop.
LEMMA StopKeepsInv == ASSUME IInv, service_halt(Stopping, "stop") PROVE IInv'
  <1>0. Points /\ States /\ Elements /\ Flags /\ Fits /\ Placed /\ Joining /\ Finished /\
        JoinReportsFailure /\ KillsAnnounced /\ ClosedByWriter /\ Flow
    BY Zenon DEF IInv
  <1>1. m_state < Stopping /\ m_state' = Stopping /\ user' = "stop"
    BY Zenon DEF service_halt
  <1>2. UNCHANGED <<launched, started, pc, subscribed, failed, join, item, chan,
                  closed, sent, taken>>
    BY Zenon DEF service_halt, edges
  <1>3. States'
    BY <1>0, <1>1, <1>2 DEF States, Starting, Running, Stopping, Killing, Completed
  <1>4. Finished'
    BY <1>0, <1>1, <1>2 DEF Finished, States, Starting, Running, Stopping, Killing, Completed
  <1>5. KillsAnnounced'
    <2>1. ~(Killing <= m_state)
      BY <1>0, <1>1 DEF States, Starting, Running, Stopping, Killing, Completed
    <2> QED
      BY <1>0, <1>1, <1>2, <2>1, Zenon DEF KillsAnnounced
  <1>6. Flow'
    <2> SUFFICES ASSUME Undisturbed', NEW r \in Reader
                 PROVE  (subscribed[r] /\ Carried(r) /\ PassedOn(r) /\ Drained(r))'
      BY Zenon DEF Flow
    <2>1. Undisturbed
      <3>1. m_state < Killing
        BY <1>0, <1>1, <1>2 DEF States, Undisturbed, Starting, Running, Stopping, Killing, Completed
      <3> QED
        BY <1>0, <1>1, <1>2, <3>1, Zenon DEF Undisturbed
    <2>2. subscribed[r] /\ Carried(r) /\ PassedOn(r) /\ Drained(r) /\ r \in Node
      BY <1>0, <2>1, SegmentAssumption, Zenon DEF Flow
    <2>3. (subscribed[r] /\ Carried(r) /\ PassedOn(r) /\ Drained(r))'
      BY <1>2, <2>2, Zenon DEF Flags, Carried, PassedOn, Drained
    <2> QED
      BY <2>3, Zenon
  <1>7. (Points /\ Elements /\ Flags /\ Fits /\ Placed /\ Joining /\ JoinReportsFailure /\
        ClosedByWriter)'
    BY <1>0, <1>2, Zenon DEF Points, Elements, Flags, Fits, Placed, Joining,
       JoinReportsFailure, ClosedByWriter, Launched
  <1> QED
    BY <1>3, <1>4, <1>5, <1>6, <1>7, Zenon DEF IInv

\* The controller calls service_kill.
LEMMA KillKeepsInv == ASSUME IInv, service_halt(Killing, "kill") PROVE IInv'
  <1>0. Points /\ States /\ Elements /\ Flags /\ Fits /\ Placed /\ Joining /\ Finished /\
        JoinReportsFailure /\ KillsAnnounced /\ ClosedByWriter /\ Flow
    BY Zenon DEF IInv
  <1>1. m_state < Killing /\ m_state' = Killing /\ user' = "kill"
    BY Zenon DEF service_halt
  <1>2. UNCHANGED <<launched, started, pc, subscribed, failed, join, item, chan,
                  closed, sent, taken>>
    BY Zenon DEF service_halt, edges
  <1>3. States'
    BY <1>0, <1>1, <1>2 DEF States, Starting, Running, Stopping, Killing, Completed
  <1>4. Finished'
    BY <1>0, <1>1, <1>2 DEF Finished, States, Starting, Running, Stopping, Killing, Completed
  <1>5. KillsAnnounced'
    <2>1. Killing <= m_state'
      BY <1>1 DEF Killing
    <2> QED
      BY <1>0, <1>1, <1>2, <2>1, Zenon DEF KillsAnnounced
  <1>6. Flow'
    <2>1. ~(m_state' < Killing)
      BY <1>0, <1>1, <1>2 DEF Killing, Completed
    <2> QED
      BY <2>1, Zenon DEF Flow, Undisturbed
  <1>7. (Points /\ Elements /\ Flags /\ Fits /\ Placed /\ Joining /\ JoinReportsFailure /\
        ClosedByWriter)'
    BY <1>0, <1>2, Zenon DEF Points, Elements, Flags, Fits, Placed, Joining,
       JoinReportsFailure, ClosedByWriter, Launched
  <1> QED
    BY <1>3, <1>4, <1>5, <1>6, <1>7, Zenon DEF IInv

\* The stop hook unsubscribes sources only.
LEMMA StopHookKeepsInv == ASSUME IInv, do_service_stop PROVE IInv'
  <1>0. Points /\ States /\ Elements /\ Flags /\ Fits /\ Placed /\ Joining /\ Finished /\
        JoinReportsFailure /\ KillsAnnounced /\ ClosedByWriter /\ Flow
    BY Zenon DEF IInv
  <1>1. subscribed' = [n \in Node |-> subscribed[n] /\ n \notin Launched \cap Source] /\ user' = "idle"
    BY Zenon DEF do_service_stop, Unsubscribe, OnStop
  <1>2. UNCHANGED <<m_state, launched, started, pc, failed, join, item, chan, closed,
                  sent, taken>>
    BY Zenon DEF do_service_stop, Unsubscribe, OnStop, edges
  <1>3. Flags'
    BY <1>0, <1>1, <1>2, Zenon DEF Flags
  <1>4. KillsAnnounced'
    BY <1>0, <1>1, <1>2, Zenon DEF KillsAnnounced
  <1>5. Flow'
    <2> SUFFICES ASSUME Undisturbed', NEW r \in Reader
                 PROVE  (subscribed[r] /\ Carried(r) /\ PassedOn(r) /\ Drained(r))'
      BY Zenon DEF Flow
    <2>1. Undisturbed
      BY <1>0, <1>1, <1>2, Zenon DEF Undisturbed
    <2>2. subscribed[r] /\ Carried(r) /\ PassedOn(r) /\ Drained(r) /\ r \in Node
      BY <1>0, <2>1, SegmentAssumption, Zenon DEF Flow
    <2>3. subscribed[r]'
      BY <1>0, <1>1, <1>2, <2>2, Zenon DEF Source
    <2>4. (Carried(r) /\ PassedOn(r) /\ Drained(r))'
      BY <1>2, <2>2, Zenon DEF Carried, PassedOn, Drained
    <2> QED
      BY <2>3, <2>4, Zenon
  <1>6. (Points /\ States /\ Elements /\ Fits /\ Placed /\ Joining /\ Finished /\
        JoinReportsFailure /\ ClosedByWriter)'
    BY <1>0, <1>2, Zenon DEF Points, States, Elements, Fits, Placed, Joining, Finished,
       JoinReportsFailure, ClosedByWriter, Launched
  <1> QED
    BY <1>3, <1>4, <1>5, <1>6, Zenon DEF IInv

\* The kill hook comes after the state says so.
LEMMA KillHookKeepsInv == ASSUME IInv, do_service_kill PROVE IInv'
  <1>0. Points /\ States /\ Elements /\ Flags /\ Fits /\ Placed /\ Joining /\ Finished /\
        JoinReportsFailure /\ KillsAnnounced /\ ClosedByWriter /\ Flow
    BY Zenon DEF IInv
  <1>1. user = "kill" /\ user' = "idle"
        /\ subscribed' = [n \in Node |-> subscribed[n] /\ n \notin Launched]
    BY Zenon DEF do_service_kill, Unsubscribe, OnKill
  <1>2. UNCHANGED <<m_state, launched, started, pc, failed, join, item, chan, closed,
                  sent, taken>>
    BY Zenon DEF do_service_kill, Unsubscribe, OnKill, edges
  <1>3. Flags'
    BY <1>0, <1>1, <1>2, Zenon DEF Flags
  <1>4. KillsAnnounced'
    BY <1>0, <1>1, <1>2, Zenon DEF KillsAnnounced
  <1>5. Flow'
    <2>1. Killing <= m_state
      BY <1>0, <1>1, <1>2, Zenon DEF KillsAnnounced
    <2>2. ~(m_state' < Killing)
      BY <1>0, <1>1, <1>2, <2>1 DEF States, Starting, Running, Stopping, Killing, Completed
    <2> QED
      BY <2>2, Zenon DEF Flow, Undisturbed
  <1>6. (Points /\ States /\ Elements /\ Fits /\ Placed /\ Joining /\ Finished /\
        JoinReportsFailure /\ ClosedByWriter)'
    BY <1>0, <1>2, Zenon DEF Points, States, Elements, Fits, Placed, Joining, Finished,
       JoinReportsFailure, ClosedByWriter, Launched
  <1> QED
    BY <1>3, <1>4, <1>5, <1>6, Zenon DEF IInv

\* service_await_join is called.
LEMMA JoinBeginKeepsInv == ASSUME IInv, JoinBegin PROVE IInv'
  <1>0. Points /\ States /\ Elements /\ Flags /\ Fits /\ Placed /\ Joining /\ Finished /\
        JoinReportsFailure /\ KillsAnnounced /\ ClosedByWriter /\ Flow
    BY Zenon DEF IInv
  <1>1. started /\ join = "none" /\ join' = "joining"
    BY Zenon DEF JoinBegin
  <1>2. UNCHANGED <<m_state, launched, started, pc, subscribed, failed, user, item,
                  chan, closed, sent, taken>>
    BY Zenon DEF JoinBegin, edges
  <1>3. States'
    BY <1>0, <1>1, <1>2, Zenon DEF States, Starting, Running, Stopping, Killing, Completed
  <1>4. Joining'
    BY <1>0, <1>1, <1>2, Zenon DEF Joining
  <1>5. Finished'
    BY <1>0, <1>1, <1>2, Zenon DEF Finished
  <1>6. JoinReportsFailure'
    BY <1>0, <1>1, <1>2, Zenon DEF JoinReportsFailure
  <1>7. (Points /\ Elements /\ Flags /\ Fits /\ Placed /\ KillsAnnounced /\ ClosedByWriter /\
        Flow)'
    BY <1>0, <1>2, Zenon DEF Points, Elements, Flags, Fits, Placed, KillsAnnounced,
       ClosedByWriter, Flow, Launched, Undisturbed, Carried, PassedOn, Drained
  <1> QED
    BY <1>3, <1>4, <1>5, <1>6, <1>7, Zenon DEF IInv

\* service_await_join returns or throws.
LEMMA JoinEndKeepsInv == ASSUME IInv, do_service_await_join PROVE IInv'
  <1>0. Points /\ States /\ Elements /\ Flags /\ Fits /\ Placed /\ Joining /\ Finished /\
        JoinReportsFailure /\ KillsAnnounced /\ ClosedByWriter /\ Flow
    BY Zenon DEF IInv
  <1>1. join = "joining" /\ m_state' = Completed /\ (\A n \in Launched : pc[n] = "done")
        /\ join' = IF JoinThrows THEN "threw" ELSE "joined"
    BY Zenon DEF do_service_await_join
  <1>2. UNCHANGED <<launched, started, pc, subscribed, failed, user, item, chan,
                  closed, sent, taken>>
    BY Zenon DEF do_service_await_join, edges
  <1>3. States'
    BY <1>0, <1>1, <1>2 DEF States, Starting, Running, Stopping, Killing, Completed
  <1>4. Joining'
    <2>1. started /\ launched = Len(LaunchOrder)
      BY <1>0, <1>1, <1>2, Zenon DEF Joining
    <2>2. Launched = Node
      BY <2>1, AllLaunched, Zenon
    <2> QED
      BY <1>0, <1>1, <1>2, <2>1, <2>2, Zenon DEF Joining
  <1>5. Finished'
    BY <1>1, Zenon DEF Finished
  <1>6. JoinReportsFailure'
    <2>1. launched = Len(LaunchOrder)
      BY <1>0, <1>1, <1>2, Zenon DEF Joining
    <2>2. Launched = Node
      BY <2>1, AllLaunched, Zenon
    <2> QED
      BY <1>0, <1>1, <1>2, <2>2, Zenon DEF JoinReportsFailure, JoinThrows
  <1>7. KillsAnnounced'
    <2>1. Killing <= m_state'
      BY <1>1 DEF Killing, Completed
    <2> QED
      BY <1>0, <1>1, <1>2, <2>1, Zenon DEF KillsAnnounced
  <1>8. Flow'
    <2>1. ~(m_state' < Killing)
      BY <1>0, <1>1, <1>2 DEF Killing, Completed
    <2> QED
      BY <2>1, Zenon DEF Flow, Undisturbed
  <1>9. (Points /\ Elements /\ Flags /\ Fits /\ Placed /\ ClosedByWriter)'
    BY <1>0, <1>2, Zenon DEF Points, Elements, Flags, Fits, Placed, ClosedByWriter, Launched
  <1> QED
    BY <1>3, <1>4, <1>5, <1>6, <1>7, <1>8, <1>9, Zenon DEF IInv

\* A source emits an element.
LEMMA EmitKeepsInv == ASSUME IInv, NEW n \in Node, Emit(n) PROVE IInv'
  <1>0. Points /\ States /\ Elements /\ Flags /\ Fits /\ Placed /\ Joining /\ Finished /\
        JoinReportsFailure /\ KillsAnnounced /\ ClosedByWriter /\ Flow
    BY Zenon DEF IInv
  <1>1. n \in Source /\ pc[n] = "loop" /\ pc' = [pc EXCEPT ![n] = "writing"]
        /\ item' = [item EXCEPT ![n] = Len(sent[n]) + 1]
    BY Zenon DEF Emit, GoTo
  <1>2. UNCHANGED <<m_state, launched, started, subscribed, failed, user, join, chan,
                  closed, sent, taken>>
    BY Zenon DEF Emit, GoTo, edges
  <1>3. pc[n] \in Point /\ pc' \in [Node -> Point] /\ pc'[n] = "writing"
        /\ \A m \in Node \ {n} : pc'[m] = pc[m]
    BY <1>0, <1>1, <1>2, Zenon DEF Points, Point, Ending
  <1>4. Points'
    BY <1>0, <1>1, <1>2, <1>3, Zenon DEF Points
  <1>5. Elements'
    BY <1>0, <1>1, <1>2, <1>3 DEF Elements
  <1>6. Placed'
    BY <1>0, <1>1, <1>2, <1>3, Zenon DEF Placed, Launched, Point, Ending
  <1>7. Joining'
    BY <1>0, <1>1, <1>2, <1>3, Zenon DEF Joining
  <1>8. KillsAnnounced'
    BY <1>0, <1>1, <1>2, <1>3, Zenon DEF KillsAnnounced
  <1>9. ClosedByWriter'
    BY <1>0, <1>1, <1>2, <1>3, SegmentAssumption, Zenon DEF ClosedByWriter
  <1>10. Flow'
    <2> SUFFICES ASSUME Undisturbed', NEW r \in Reader
                 PROVE  (subscribed[r] /\ Carried(r) /\ PassedOn(r) /\ Drained(r))'
      BY Zenon DEF Flow
    <2>1. Undisturbed
      BY <1>0, <1>1, <1>2, <1>3, Zenon DEF Undisturbed
    <2>2. subscribed[r] /\ Carried(r) /\ PassedOn(r) /\ Drained(r) /\ r \in Node
      BY <1>0, <2>1, SegmentAssumption, Zenon DEF Flow
    <2>3. PassedOn(r)'
      <3>1. r # n
        BY <1>1, Zenon DEF Source
      <3>2. item'[r] = item[r] /\ pc'[r] = pc[r]
        BY <1>0, <1>1, <1>2, <1>3, <2>2, <3>1, Zenon DEF Elements
      <3> QED
        BY <1>2, <2>2, <3>2, Zenon DEF PassedOn
    <2>4. Drained(r)'
      BY <1>0, <1>1, <1>2, <1>3, <2>2, Zenon DEF Drained, Ending
    <2>5. (subscribed[r] /\ Carried(r))'
      BY <1>2, <2>2, Zenon DEF Flags, Carried
    <2> QED
      BY <2>3, <2>4, <2>5, Zenon
  <1>11. (States /\ Flags /\ Fits /\ Finished /\ JoinReportsFailure)'
    BY <1>0, <1>2, Zenon DEF States, Flags, Fits, Finished, JoinReportsFailure
  <1> QED
    BY <1>4, <1>5, <1>6, <1>7, <1>8, <1>9, <1>10, <1>11, Zenon DEF IInv

\* An element goes into the channel of the edge out, or is dropped if there is none.
LEMMA AwaitWriteKeepsInv == ASSUME IInv, NEW n \in Node, AwaitWrite(n) PROVE IInv'
  <1>0. Points /\ States /\ Elements /\ Flags /\ Fits /\ Placed /\ Joining /\ Finished /\
        JoinReportsFailure /\ KillsAnnounced /\ ClosedByWriter /\ Flow
    BY Zenon DEF IInv
  <1>1. /\ pc[n] = "writing" /\ pc' = [pc EXCEPT ![n] = "loop"]
        /\ \A r \in Downstream(n) : ~Full(r)
        /\ sent' = [sent EXCEPT ![n] = Append(sent[n], item[n])]
        /\ chan' = [r \in Reader |-> IF r \in Downstream(n) THEN Append(chan[r], item[n]) ELSE chan[r]]
    BY Zenon DEF AwaitWrite, GoTo
  <1>2. UNCHANGED <<m_state, launched, started, subscribed, failed, user, join, item,
                  closed, taken>>
    BY Zenon DEF AwaitWrite, GoTo, edges
  <1>3. pc[n] \in Point /\ pc' \in [Node -> Point] /\ pc'[n] = "loop"
        /\ \A m \in Node \ {n} : pc'[m] = pc[m]
    BY <1>0, <1>1, <1>2, Zenon DEF Points, Point, Ending
  <1>4. Points'
    BY <1>0, <1>1, <1>2, <1>3, Zenon DEF Points
  <1>5. Elements'
    BY <1>0, <1>1, <1>2, <1>3 DEF Elements
  <1>6. Fits'
    <2> SUFFICES ASSUME NEW r \in Reader PROVE (Len(chan[r]) <= Capacity)'
      BY Zenon DEF Fits
    <2>1. chan[r] \in Seq(Nat) /\ item[n] \in Nat /\ Len(chan[r]) <= Capacity
      BY <1>0, Zenon DEF Elements, Fits
    <2>2. CASE r \in Downstream(n)
      <3>1. chan'[r] = Append(chan[r], item[n]) /\ ~(Len(chan[r]) >= Capacity)
        BY <1>1, <2>2, Zenon DEF Full
      <3>2. Capacity \in Nat
        BY SegmentAssumption, Zenon
      <3>3. Len(chan'[r]) = Len(chan[r]) + 1 /\ Len(chan[r]) \in Nat
        BY <2>1, <3>1
      <3> QED
        BY <3>1, <3>2, <3>3
    <2>3. CASE r \notin Downstream(n)
      BY <1>1, <2>1, <2>3, Zenon
    <2> QED
      BY <2>2, <2>3, Zenon
  <1>7. Placed'
    BY <1>0, <1>1, <1>2, <1>3, Zenon DEF Placed, Launched, Point, Ending
  <1>8. Joining'
    BY <1>0, <1>1, <1>2, <1>3, Zenon DEF Joining
  <1>9. KillsAnnounced'
    BY <1>0, <1>1, <1>2, <1>3, Zenon DEF KillsAnnounced
  <1>10. ClosedByWriter'
    BY <1>0, <1>1, <1>2, <1>3, SegmentAssumption, Zenon DEF ClosedByWriter
  <1>11. Flow'
    <2> SUFFICES ASSUME Undisturbed', NEW r \in Reader
                 PROVE  (subscribed[r] /\ Carried(r) /\ PassedOn(r) /\ Drained(r))'
      BY Zenon DEF Flow
    <2>1. Undisturbed
      BY <1>0, <1>1, <1>2, <1>3, Zenon DEF Undisturbed
    <2>2. subscribed[r] /\ Carried(r) /\ PassedOn(r) /\ Drained(r) /\ r \in Node
      BY <1>0, <2>1, SegmentAssumption, Zenon DEF Flow
    <2>3. Carried(r)'
      <3>1. /\ sent[Upstream[r]] \in Seq(Nat) /\ taken[r] \in Seq(Nat) /\ chan[r] \in Seq(Nat)
            /\ item[n] \in Nat /\ Upstream[r] \in Node
        BY <1>0, SegmentAssumption, Zenon DEF Elements
      <3>2. CASE Upstream[r] = n
        <4>1. chan'[r] = Append(chan[r], item[n])
          BY <1>1, <3>2, Zenon DEF Downstream
        <4>2. sent'[Upstream[r]] = Append(sent[Upstream[r]], item[n])
          BY <1>0, <1>1, <3>2, Zenon DEF Elements
        <4>3. InOrder(Append(sent[Upstream[r]], item[n]), taken[r], Append(chan[r], item[n]))
          BY <2>2, <3>1, WriteKeepsOrder, Zenon DEF Carried
        <4> QED
          BY <1>2, <4>1, <4>2, <4>3, Zenon DEF Carried
      <3>3. CASE Upstream[r] # n
        <4>1. chan'[r] = chan[r]
          BY <1>1, <3>3, Zenon DEF Downstream
        <4>2. sent'[Upstream[r]] = sent[Upstream[r]]
          BY <1>0, <1>1, <3>1, <3>3, Zenon DEF Elements
        <4> QED
          BY <1>2, <2>2, <4>1, <4>2, Zenon DEF Carried
      <3> QED
        BY <3>2, <3>3, Zenon
    <2>4. PassedOn(r)'
      <3>1. CASE r = n
        <4>1. sent'[r] = Append(sent[r], item[r]) /\ pc'[r] = "loop"
          BY <1>0, <1>1, <1>2, <1>3, <3>1, Zenon DEF Elements
        <4> QED
          BY <1>1, <1>2, <2>2, <3>1, <4>1, Zenon DEF PassedOn
      <3>2. CASE r # n
        <4>1. sent'[r] = sent[r] /\ pc'[r] = pc[r]
          BY <1>0, <1>1, <1>2, <1>3, <2>2, <3>2, Zenon DEF Elements
        <4> QED
          BY <1>2, <2>2, <4>1, Zenon DEF PassedOn
      <3> QED
        BY <3>1, <3>2, Zenon
    <2>5. Drained(r)'
      <3>1. CASE pc'[r] \in Ending
        <4>1. pc[r] \in Ending
          BY <1>0, <1>1, <1>2, <1>3, <2>2, <3>1, Zenon DEF Ending
        <4>2. closed[r] /\ chan[r] = << >>
          BY <2>2, <4>1, Zenon DEF Drained
        <4>3. r \notin Downstream(n)
          BY <1>0, <1>1, <4>2, Zenon DEF ClosedByWriter, Downstream
        <4> QED
          BY <1>1, <1>2, <4>2, <4>3, Zenon DEF Drained
      <3> QED
        BY <3>1, Zenon DEF Drained
    <2>6. subscribed[r]'
      BY <1>2, <2>2, Zenon DEF Flags
    <2> QED
      BY <2>3, <2>4, <2>5, <2>6, Zenon
  <1>12. (States /\ Flags /\ Finished /\ JoinReportsFailure)'
    BY <1>0, <1>2, Zenon DEF States, Flags, Finished, JoinReportsFailure
  <1> QED
    BY <1>4, <1>5, <1>6, <1>7, <1>8, <1>9, <1>10, <1>11, <1>12, Zenon DEF IInv

\* A reader goes to read.
LEMMA LoopTestKeepsInv == ASSUME IInv, NEW n \in Node, LoopTest(n) PROVE IInv'
  <1>0. Points /\ States /\ Elements /\ Flags /\ Fits /\ Placed /\ Joining /\ Finished /\
        JoinReportsFailure /\ KillsAnnounced /\ ClosedByWriter /\ Flow
    BY Zenon DEF IInv
  <1>1. n \in Reader /\ pc[n] = "loop" /\ pc' = [pc EXCEPT ![n] = "reading"]
    BY Zenon DEF LoopTest, GoTo
  <1>2. UNCHANGED <<m_state, launched, started, subscribed, failed, user, join, item,
                  chan, closed, sent, taken>>
    BY Zenon DEF LoopTest, GoTo, edges
  <1>3. pc[n] \in Point /\ pc' \in [Node -> Point] /\ pc'[n] = "reading"
        /\ \A m \in Node \ {n} : pc'[m] = pc[m]
    BY <1>0, <1>1, <1>2, Zenon DEF Points, Point, Ending
  <1>4. Points'
    BY <1>0, <1>1, <1>2, <1>3, Zenon DEF Points
  <1>5. Placed'
    BY <1>0, <1>1, <1>2, <1>3, Zenon DEF Placed, Launched, Point, Ending
  <1>6. Joining'
    BY <1>0, <1>1, <1>2, <1>3, Zenon DEF Joining
  <1>7. KillsAnnounced'
    BY <1>0, <1>1, <1>2, <1>3, Zenon DEF KillsAnnounced
  <1>8. ClosedByWriter'
    BY <1>0, <1>1, <1>2, <1>3, SegmentAssumption, Zenon DEF ClosedByWriter
  <1>9. Flow'
    <2> SUFFICES ASSUME Undisturbed', NEW r \in Reader
                 PROVE  (subscribed[r] /\ Carried(r) /\ PassedOn(r) /\ Drained(r))'
      BY Zenon DEF Flow
    <2>1. Undisturbed
      BY <1>0, <1>1, <1>2, <1>3, Zenon DEF Undisturbed
    <2>2. subscribed[r] /\ Carried(r) /\ PassedOn(r) /\ Drained(r) /\ r \in Node
      BY <1>0, <2>1, SegmentAssumption, Zenon DEF Flow
    <2>3. PassedOn(r)'
      BY <1>0, <1>1, <1>2, <1>3, <2>2, Zenon DEF PassedOn
    <2>4. Drained(r)'
      BY <1>0, <1>1, <1>2, <1>3, <2>2, Zenon DEF Drained, Ending
    <2>5. (subscribed[r] /\ Carried(r))'
      BY <1>2, <2>2, Zenon DEF Flags, Carried
    <2> QED
      BY <2>3, <2>4, <2>5, Zenon
  <1>10. (States /\ Elements /\ Flags /\ Fits /\ Finished /\ JoinReportsFailure)'
    BY <1>0, <1>2, Zenon DEF States, Elements, Flags, Fits, Finished, JoinReportsFailure
  <1> QED
    BY <1>4, <1>5, <1>6, <1>7, <1>8, <1>9, <1>10, Zenon DEF IInv

\* A reader takes an element and passes it on.
LEMMA AwaitReadKeepsInv == ASSUME IInv, NEW n \in Node, AwaitRead(n) PROVE IInv'
  <1>0. Points /\ States /\ Elements /\ Flags /\ Fits /\ Placed /\ Joining /\ Finished /\
        JoinReportsFailure /\ KillsAnnounced /\ ClosedByWriter /\ Flow
    BY Zenon DEF IInv
  <1>1. /\ pc[n] = "reading" /\ chan[n] # << >> /\ chan' = [chan EXCEPT ![n] = Tail(chan[n])]
        /\ \/ /\ taken' = [taken EXCEPT ![n] = Append(taken[n], Head(chan[n]))]
              /\ item' = [item EXCEPT ![n] = Head(chan[n])]
              /\ pc' = [pc EXCEPT ![n] = IF Downstream(n) = {} THEN "loop" ELSE "writing"]
           \/ /\ ~subscribed[n] /\ taken' = taken /\ item' = item
              /\ pc' = [pc EXCEPT ![n] = "loop"]
    BY Zenon DEF AwaitRead, GoTo
  <1>2. UNCHANGED <<m_state, launched, started, subscribed, failed, user, join,
                  closed, sent>>
    BY Zenon DEF AwaitRead, GoTo, edges
  <1>3. pc[n] \in Point /\ pc' \in [Node -> Point] /\ pc'[n] \in {"loop", "writing"}
        /\ \A m \in Node \ {n} : pc'[m] = pc[m]
    <2>1. \E p \in {"loop", "writing"} : pc' = [pc EXCEPT ![n] = p]
      BY <1>1, Zenon
    <2> QED
      BY <1>0, <2>1, Zenon DEF Points, Point, Ending
  <1>4. Points'
    BY <1>0, <1>1, <1>2, <1>3, Zenon DEF Points
  <1>5. Elements'
    <2>1. n \in Reader
      BY <1>0, <1>1, Zenon DEF Placed
    <2>2. chan' \in [Reader -> Seq(Nat)] /\ Head(chan[n]) \in Nat
      BY <1>0, <1>1, <2>1, TakeOne, Zenon
    <2>3. CASE taken' = taken /\ item' = item
      BY <1>0, <1>2, <2>2, <2>3, Zenon DEF Elements
    <2>4. CASE /\ taken' = [taken EXCEPT ![n] = Append(taken[n], Head(chan[n]))]
               /\ item' = [item EXCEPT ![n] = Head(chan[n])]
      BY <1>0, <1>2, <2>1, <2>2, <2>4, SMTT(30) DEF Elements
    <2> QED
      BY <1>1, <2>3, <2>4, Zenon
  <1>6. Fits'
    BY <1>0, <1>1, TakeOne, Zenon DEF Placed
  <1>7. Placed'
    BY <1>0, <1>1, <1>2, <1>3, Zenon DEF Placed, Launched
  <1>8. Joining'
    BY <1>0, <1>1, <1>2, <1>3, Zenon DEF Joining
  <1>9. KillsAnnounced'
    BY <1>0, <1>1, <1>2, <1>3, Zenon DEF KillsAnnounced
  <1>10. ClosedByWriter'
    BY <1>0, <1>1, <1>2, <1>3, SegmentAssumption, Zenon DEF ClosedByWriter
  <1>11. Flow'
    <2> SUFFICES ASSUME Undisturbed', NEW r \in Reader
                 PROVE  (subscribed[r] /\ Carried(r) /\ PassedOn(r) /\ Drained(r))'
      BY Zenon DEF Flow
    <2>1. Undisturbed
      BY <1>2, Zenon DEF Undisturbed
    <2>2. subscribed[r] /\ Carried(r) /\ PassedOn(r) /\ Drained(r) /\ r \in Node
      BY <1>0, <2>1, SegmentAssumption, Zenon DEF Flow
    <2>3. n \in Reader /\ subscribed[n]
      BY <1>0, <1>1, <2>1, Zenon DEF Placed, Flow
    <2>4. /\ taken' = [taken EXCEPT ![n] = Append(taken[n], Head(chan[n]))]
          /\ item' = [item EXCEPT ![n] = Head(chan[n])]
          /\ pc' = [pc EXCEPT ![n] = IF Downstream(n) = {} THEN "loop" ELSE "writing"]
      BY <1>1, <2>3, Zenon
    <2>5. chan'[n] = Tail(chan[n]) /\ \A q \in Reader \ {n} : chan'[q] = chan[q]
      BY <1>0, <1>1, <2>3, TakeOne, Zenon
    <2>6. CASE r = n
      <3>1. taken'[r] = Append(taken[r], Head(chan[r])) /\ item'[r] = Head(chan[r])
        BY <1>0, <2>4, <2>6, Zenon DEF Elements
      <3>2. Carried(r)'
        <4>1. /\ sent[Upstream[r]] \in Seq(Nat) /\ taken[r] \in Seq(Nat) /\ chan[r] \in Seq(Nat)
              /\ chan[r] # << >>
          BY <1>0, <1>1, <2>6, SegmentAssumption, Zenon DEF Elements
        <4>2. InOrder(sent[Upstream[r]], Append(taken[r], Head(chan[r])), Tail(chan[r]))
          BY <2>2, <4>1, ReadKeepsOrder, Zenon DEF Carried
        <4> QED
          BY <1>2, <2>5, <2>6, <3>1, <4>2, Zenon DEF Carried
      <3>3. PassedOn(r)'
        <4>1. Downstream(r) # {} => pc'[r] = "writing"
          BY <1>0, <2>4, <2>6, Zenon DEF Points
        <4>2. Downstream(r) # {} => taken[r] = sent[r]
          BY <1>1, <2>2, <2>6, Zenon DEF PassedOn
        <4> QED
          BY <1>2, <3>1, <4>1, <4>2, Zenon DEF PassedOn
      <3>4. Drained(r)'
        BY <1>3, <2>6, Zenon DEF Drained, Ending
      <3> QED
        BY <1>2, <2>2, <3>2, <3>3, <3>4, Zenon
    <2>7. CASE r # n
      <3>1. taken'[r] = taken[r] /\ item'[r] = item[r] /\ pc'[r] = pc[r]
        BY <1>0, <1>3, <2>2, <2>4, <2>7, Zenon DEF Elements
      <3>2. chan'[r] = chan[r]
        BY <2>5, <2>7, Zenon
      <3> QED
        BY <1>2, <2>2, <3>1, <3>2, Zenon DEF Carried, PassedOn, Drained
    <2> QED
      BY <2>6, <2>7, Zenon
  <1>12. (States /\ Flags /\ Finished /\ JoinReportsFailure)'
    BY <1>0, <1>2, Zenon DEF States, Flags, Finished, JoinReportsFailure
  <1> QED
    BY <1>4, <1>5, <1>6, <1>7, <1>8, <1>9, <1>10, <1>11, <1>12, Zenon DEF IInv

\* A node fails.
LEMMA FailKeepsInv == ASSUME IInv, NEW n \in Node, Fail(n) PROVE IInv'
  <1>0. Points /\ States /\ Elements /\ Flags /\ Fits /\ Placed /\ Joining /\ Finished /\
        JoinReportsFailure /\ KillsAnnounced /\ ClosedByWriter /\ Flow
    BY Zenon DEF IInv
  <1>1. /\ (n \in Source /\ pc[n] = "loop") \/ (n \in Reader /\ pc[n] = "reading" /\ chan[n] # << >>)
        /\ failed' = [failed EXCEPT ![n] = TRUE] /\ pc' = [pc EXCEPT ![n] = "shutdown"]
        /\ subscribed' = [m \in Node |-> subscribed[m] /\ m \notin {n}]
        /\ chan' = IF n \in Reader THEN [chan EXCEPT ![n] = Tail(chan[n])] ELSE chan
    BY Zenon DEF Fail, GoTo, Unsubscribe
  <1>2. UNCHANGED <<m_state, launched, started, user, join, item, closed, sent,
                  taken>>
    BY Zenon DEF Fail, GoTo, Unsubscribe, edges
  <1>3. pc[n] \in Point /\ pc' \in [Node -> Point] /\ pc'[n] = "shutdown"
        /\ \A m \in Node \ {n} : pc'[m] = pc[m]
    BY <1>0, <1>1, <1>2, Zenon DEF Points, Point, Ending
  <1>4. Points'
    BY <1>0, <1>1, <1>2, <1>3, Zenon DEF Points
  <1>5. Elements'
    <2>1. CASE n \in Reader
      <3>1. chan[n] # << >> /\ chan' = [chan EXCEPT ![n] = Tail(chan[n])]
        BY <1>1, <2>1, Zenon DEF Source
      <3> QED
        BY <1>0, <1>2, <2>1, <3>1, TakeOne, Zenon DEF Elements
    <2>2. CASE n \notin Reader
      BY <1>0, <1>1, <1>2, <2>2, Zenon DEF Elements
    <2> QED
      BY <2>1, <2>2, Zenon
  <1>6. Flags'
    BY <1>0, <1>1, <1>2, <1>3, Zenon DEF Flags
  <1>7. Fits'
    <2>1. CASE n \in Reader
      <3>1. chan[n] # << >> /\ chan' = [chan EXCEPT ![n] = Tail(chan[n])]
        BY <1>1, <2>1, Zenon DEF Source
      <3> QED
        BY <1>0, <1>2, <2>1, <3>1, TakeOne, Zenon
    <2>2. CASE n \notin Reader
      BY <1>0, <1>1, <1>2, <2>2, Zenon DEF Fits
    <2> QED
      BY <2>1, <2>2, Zenon
  <1>8. Placed'
    BY <1>0, <1>1, <1>2, <1>3, Zenon DEF Placed, Launched, Point, Ending
  <1>9. Joining'
    BY <1>0, <1>1, <1>2, <1>3, Zenon DEF Joining
  <1>10. JoinReportsFailure'
    BY <1>0, <1>1, <1>2, <1>3, Zenon DEF JoinReportsFailure, Joining
  <1>11. KillsAnnounced'
    BY <1>0, <1>1, <1>2, <1>3, Zenon DEF KillsAnnounced
  <1>12. ClosedByWriter'
    BY <1>0, <1>1, <1>2, <1>3, SegmentAssumption, Zenon DEF ClosedByWriter
  <1>13. Flow'
    <2>1. failed'[n]
      BY <1>0, <1>1, <1>2, <1>3, Zenon DEF Flags
    <2> QED
      BY <2>1, Zenon DEF Flow, Undisturbed
  <1>14. (States /\ Finished)'
    BY <1>0, <1>2, Zenon DEF States, Finished
  <1> QED
    BY <1>4, <1>5, <1>6, <1>7, <1>8, <1>9, <1>10, <1>11, <1>12, <1>13, <1>14, Zenon DEF IInv

\* A source ends, or a reader that is unsubscribed or at the end of its data.
LEMMA SubscribeReturnsKeepsInv == ASSUME IInv, NEW n \in Node, SubscribeReturns(n) PROVE IInv'
  <1>0. Points /\ States /\ Elements /\ Flags /\ Fits /\ Placed /\ Joining /\ Finished /\
        JoinReportsFailure /\ KillsAnnounced /\ ClosedByWriter /\ Flow
    BY Zenon DEF IInv
  <1>1. /\ \/ pc[n] = "loop" /\ (n \in Source \/ ~subscribed[n])
           \/ pc[n] = "reading" /\ chan[n] = << >> /\ closed[n]
        /\ pc' = [pc EXCEPT ![n] = "shutdown"]
    BY Zenon DEF SubscribeReturns, MustEnd, GoTo
  <1>2. UNCHANGED <<m_state, launched, started, subscribed, failed, user, join, item,
                  chan, closed, sent, taken>>
    BY Zenon DEF SubscribeReturns, MustEnd, GoTo, edges
  <1>3. pc[n] \in Point /\ pc' \in [Node -> Point] /\ pc'[n] = "shutdown"
        /\ \A m \in Node \ {n} : pc'[m] = pc[m]
    BY <1>0, <1>1, <1>2, Zenon DEF Points, Point, Ending
  <1>4. Points'
    BY <1>0, <1>1, <1>2, <1>3, Zenon DEF Points
  <1>5. Placed'
    BY <1>0, <1>1, <1>2, <1>3, Zenon DEF Placed, Launched, Point, Ending
  <1>6. Joining'
    BY <1>0, <1>1, <1>2, <1>3, Zenon DEF Joining
  <1>7. KillsAnnounced'
    BY <1>0, <1>1, <1>2, <1>3, Zenon DEF KillsAnnounced
  <1>8. ClosedByWriter'
    BY <1>0, <1>1, <1>2, <1>3, SegmentAssumption, Zenon DEF ClosedByWriter
  <1>9. Flow'
    <2> SUFFICES ASSUME Undisturbed', NEW r \in Reader
                 PROVE  (subscribed[r] /\ Carried(r) /\ PassedOn(r) /\ Drained(r))'
      BY Zenon DEF Flow
    <2>1. Undisturbed
      BY <1>0, <1>1, <1>2, <1>3, Zenon DEF Undisturbed
    <2>2. subscribed[r] /\ Carried(r) /\ PassedOn(r) /\ Drained(r) /\ r \in Node
      BY <1>0, <2>1, SegmentAssumption, Zenon DEF Flow
    <2>3. PassedOn(r)'
      BY <1>0, <1>1, <1>2, <1>3, <2>2, Zenon DEF PassedOn
    <2>4. Drained(r)'
      BY <1>0, <1>1, <1>2, <1>3, <2>2, Zenon DEF Drained, Ending, Source
    <2>5. (subscribed[r] /\ Carried(r))'
      BY <1>2, <2>2, Zenon DEF Flags, Carried
    <2> QED
      BY <2>3, <2>4, <2>5, Zenon
  <1>10. (States /\ Elements /\ Flags /\ Fits /\ Finished /\ JoinReportsFailure)'
    BY <1>0, <1>2, Zenon DEF States, Elements, Flags, Fits, Finished, JoinReportsFailure
  <1> QED
    BY <1>4, <1>5, <1>6, <1>7, <1>8, <1>9, <1>10, Zenon DEF IInv

\* A node that ended closes the channel of its edge out.
LEMMA ShutdownKeepsInv == ASSUME IInv, NEW n \in Node, Shutdown(n) PROVE IInv'
  <1>0. Points /\ States /\ Elements /\ Flags /\ Fits /\ Placed /\ Joining /\ Finished /\
        JoinReportsFailure /\ KillsAnnounced /\ ClosedByWriter /\ Flow
    BY Zenon DEF IInv
  <1>1. /\ pc[n] = "shutdown" /\ pc' = [pc EXCEPT ![n] = "callback"]
        /\ closed' = [r \in Reader |-> closed[r] \/ r \in Downstream(n)]
    BY Zenon DEF Shutdown, ReleasesEdge, GoTo
  <1>2. UNCHANGED <<m_state, launched, started, subscribed, failed, user, join, item,
                  chan, sent, taken>>
    BY Zenon DEF Shutdown, ReleasesEdge, GoTo, edges
  <1>3. pc[n] \in Point /\ pc' \in [Node -> Point] /\ pc'[n] = "callback"
        /\ \A m \in Node \ {n} : pc'[m] = pc[m]
    BY <1>0, <1>1, <1>2, Zenon DEF Points, Point, Ending
  <1>4. Points'
    BY <1>0, <1>1, <1>2, <1>3, Zenon DEF Points
  <1>5. Flags'
    BY <1>0, <1>1, <1>2, <1>3, Zenon DEF Flags
  <1>6. Placed'
    BY <1>0, <1>1, <1>2, <1>3, Zenon DEF Placed, Launched, Point, Ending
  <1>7. Joining'
    BY <1>0, <1>1, <1>2, <1>3, Zenon DEF Joining
  <1>8. KillsAnnounced'
    BY <1>0, <1>1, <1>2, <1>3, Zenon DEF KillsAnnounced
  <1>9. ClosedByWriter'
    BY <1>0, <1>1, <1>2, <1>3, SegmentAssumption, Zenon DEF ClosedByWriter, Downstream
  <1>10. Flow'
    <2> SUFFICES ASSUME Undisturbed', NEW r \in Reader
                 PROVE  (subscribed[r] /\ Carried(r) /\ PassedOn(r) /\ Drained(r))'
      BY Zenon DEF Flow
    <2>1. Undisturbed
      BY <1>0, <1>1, <1>2, <1>3, Zenon DEF Undisturbed
    <2>2. subscribed[r] /\ Carried(r) /\ PassedOn(r) /\ Drained(r) /\ r \in Node
      BY <1>0, <2>1, SegmentAssumption, Zenon DEF Flow
    <2>3. PassedOn(r)'
      BY <1>0, <1>1, <1>2, <1>3, <2>2, Zenon DEF PassedOn
    <2>4. Drained(r)'
      BY <1>0, <1>1, <1>2, <1>3, <2>2, Zenon DEF Drained, Ending
    <2>5. (subscribed[r] /\ Carried(r))'
      BY <1>2, <2>2, Zenon DEF Flags, Carried
    <2> QED
      BY <2>3, <2>4, <2>5, Zenon
  <1>11. (States /\ Elements /\ Fits /\ Finished /\ JoinReportsFailure)'
    BY <1>0, <1>2, Zenon DEF States, Elements, Fits, Finished, JoinReportsFailure
  <1> QED
    BY <1>4, <1>5, <1>6, <1>7, <1>8, <1>9, <1>10, <1>11, Zenon DEF IInv

\* The completion callback sets the state to Killing if the node failed.
LEMMA CallbackKeepsInv == ASSUME IInv, NEW n \in Node, Callback(n) PROVE IInv'
  <1>0. Points /\ States /\ Elements /\ Flags /\ Fits /\ Placed /\ Joining /\ Finished /\
        JoinReportsFailure /\ KillsAnnounced /\ ClosedByWriter /\ Flow
    BY Zenon DEF IInv
  <1>1. /\ pc[n] = "callback"
        /\ \/ /\ failed[n] /\ m_state < Killing /\ m_state' = Killing
              /\ pc' = [pc EXCEPT ![n] = "kill hook"]
           \/ m_state' = m_state /\ pc' = [pc EXCEPT ![n] = "done"]
    BY Zenon DEF Callback, GoTo
  <1>2. UNCHANGED <<launched, started, subscribed, failed, user, join, item, chan,
                  closed, sent, taken>>
    BY Zenon DEF Callback, GoTo, edges
  <1>3. pc[n] \in Point /\ pc' \in [Node -> Point] /\ pc'[n] \in {"kill hook", "done"}
        /\ \A m \in Node \ {n} : pc'[m] = pc[m]
    <2>1. \E p \in {"kill hook", "done"} : pc' = [pc EXCEPT ![n] = p]
      BY <1>1, Zenon
    <2> QED
      BY <1>0, <2>1, Zenon DEF Points, Point, Ending
  <1>4. Points'
    BY <1>0, <1>1, <1>2, <1>3, Zenon DEF Points
  <1>5. States'
    <2>1. m_state' = Killing \/ m_state' = m_state
      BY <1>1, Zenon
    <2> QED
      BY <1>0, <1>2, <2>1 DEF States, Starting, Running, Stopping, Killing, Completed
  <1>6. Placed'
    BY <1>0, <1>1, <1>2, <1>3, Zenon DEF Placed, Launched, Point, Ending
  <1>7. Joining'
    BY <1>0, <1>1, <1>2, <1>3, Zenon DEF Joining
  <1>8. Finished'
    <2>1. m_state' = Killing \/ m_state' = m_state
      BY <1>1, Zenon
    <2> QED
      BY <1>0, <1>2, <2>1 DEF Finished, Starting, Running, Stopping, Killing, Completed
  <1>9. KillsAnnounced'
    <2>1. Killing <= Killing
      BY DEF Killing
    <2> QED
      BY <1>0, <1>1, <1>2, <1>3, <2>1, Zenon DEF KillsAnnounced
  <1>10. ClosedByWriter'
    BY <1>0, <1>1, <1>2, <1>3, SegmentAssumption, Zenon DEF ClosedByWriter
  <1>11. Flow'
    <2> SUFFICES ASSUME Undisturbed', NEW r \in Reader
                 PROVE  (subscribed[r] /\ Carried(r) /\ PassedOn(r) /\ Drained(r))'
      BY Zenon DEF Flow
    <2>1. Undisturbed
      <3>1. m_state' = m_state
        BY <1>0, <1>1, <1>2, <1>3, Zenon DEF Undisturbed, Killing
      <3> QED
        BY <1>2, <3>1, Zenon DEF Undisturbed
    <2>2. subscribed[r] /\ Carried(r) /\ PassedOn(r) /\ Drained(r) /\ r \in Node
      BY <1>0, <2>1, SegmentAssumption, Zenon DEF Flow
    <2>3. PassedOn(r)'
      BY <1>0, <1>1, <1>2, <1>3, <2>2, Zenon DEF PassedOn
    <2>4. Drained(r)'
      BY <1>0, <1>1, <1>2, <1>3, <2>2, Zenon DEF Drained, Ending
    <2>5. (subscribed[r] /\ Carried(r))'
      BY <1>2, <2>2, Zenon DEF Flags, Carried
    <2> QED
      BY <2>3, <2>4, <2>5, Zenon
  <1>12. (Elements /\ Flags /\ Fits /\ JoinReportsFailure)'
    BY <1>0, <1>2, Zenon DEF Elements, Flags, Fits, JoinReportsFailure
  <1> QED
    BY <1>4, <1>5, <1>6, <1>7, <1>8, <1>9, <1>10, <1>11, <1>12, Zenon DEF IInv

\* ... and unsubscribes the nodes.
LEMMA CallbackKillsKeepsInv == ASSUME IInv, NEW n \in Node, CallbackKills(n) PROVE IInv'
  <1>0. Points /\ States /\ Elements /\ Flags /\ Fits /\ Placed /\ Joining /\ Finished /\
        JoinReportsFailure /\ KillsAnnounced /\ ClosedByWriter /\ Flow
    BY Zenon DEF IInv
  <1>1. /\ pc[n] = "kill hook" /\ pc' = [pc EXCEPT ![n] = "done"]
        /\ subscribed' = [m \in Node |-> subscribed[m] /\ m \notin Launched]
    BY Zenon DEF CallbackKills, Unsubscribe, OnKill, GoTo
  <1>2. UNCHANGED <<m_state, launched, started, failed, user, join, item, chan,
                  closed, sent, taken>>
    BY Zenon DEF CallbackKills, Unsubscribe, OnKill, GoTo, edges
  <1>3. pc[n] \in Point /\ pc' \in [Node -> Point] /\ pc'[n] = "done"
        /\ \A m \in Node \ {n} : pc'[m] = pc[m]
    BY <1>0, <1>1, <1>2, Zenon DEF Points, Point, Ending
  <1>4. Points'
    BY <1>0, <1>1, <1>2, <1>3, Zenon DEF Points
  <1>5. Flags'
    BY <1>0, <1>1, <1>2, <1>3, Zenon DEF Flags
  <1>6. Placed'
    BY <1>0, <1>1, <1>2, <1>3, Zenon DEF Placed, Launched, Point, Ending
  <1>7. Joining'
    BY <1>0, <1>1, <1>2, <1>3, Zenon DEF Joining
  <1>8. KillsAnnounced'
    BY <1>0, <1>1, <1>2, <1>3, Zenon DEF KillsAnnounced
  <1>9. ClosedByWriter'
    BY <1>0, <1>1, <1>2, <1>3, SegmentAssumption, Zenon DEF ClosedByWriter
  <1>10. Flow'
    <2>1. Killing <= m_state
      BY <1>0, <1>1, <1>2, <1>3, Zenon DEF KillsAnnounced
    <2>2. ~(m_state' < Killing)
      BY <1>0, <1>2, <2>1 DEF States, Starting, Running, Stopping, Killing, Completed
    <2> QED
      BY <2>2, Zenon DEF Flow, Undisturbed
  <1>11. (States /\ Elements /\ Fits /\ Finished /\ JoinReportsFailure)'
    BY <1>0, <1>2, Zenon DEF States, Elements, Fits, Finished, JoinReportsFailure
  <1> QED
    BY <1>4, <1>5, <1>6, <1>7, <1>8, <1>9, <1>10, <1>11, Zenon DEF IInv

-----------------------------------------------------------------------------
(* The invariant *)

\* A segment whose start begins satisfies it.
LEMMA InitIInv == ASSUME Init PROVE IInv
  <1> USE DEF Init
  <1>1. Points
    BY Zenon DEF Points, Point
  <1>2. States
    BY SegmentAssumption DEF States, Starting, Completed
  <1>3. Elements
    BY DEF Elements
  <1>4. Flags
    BY Zenon DEF Flags
  <1>5. Fits
    <2>1. Capacity \in Nat /\ Len(<< >>) = 0
      BY SegmentAssumption, Zenon
    <2> QED
      BY <2>1 DEF Fits
  <1>6. Placed
    <2>1. Launched = {}
      BY DEF Launched
    <2> QED
      BY <2>1, Zenon DEF Placed
  <1>7. Joining /\ JoinReportsFailure
    BY Zenon DEF Joining, JoinReportsFailure
  <1>8. Finished
    BY DEF Finished, Starting, Completed
  <1>9. KillsAnnounced /\ ClosedByWriter
    BY SegmentAssumption, Zenon DEF KillsAnnounced, ClosedByWriter
  <1>10. Flow
    <2> SUFFICES ASSUME NEW r \in Reader
                 PROVE  subscribed[r] /\ Carried(r) /\ PassedOn(r) /\ Drained(r)
      BY Zenon DEF Flow
    <2>1. r \in Node /\ Upstream[r] \in Node
      BY SegmentAssumption, Zenon
    <2>2. Carried(r)
      BY <2>1, NothingWritten, Zenon DEF Carried
    <2>3. subscribed[r] /\ PassedOn(r) /\ Drained(r)
      BY <2>1, Zenon DEF PassedOn, Drained, Ending
    <2> QED
      BY <2>2, <2>3, Zenon
  <1> QED
    BY <1>1, <1>2, <1>3, <1>4, <1>5, <1>6, <1>7, <1>8, <1>9, <1>10, Zenon DEF IInv

\* Every step of the service, its callers and the nodes keeps it.
LEMMA StepKeepsInv == ASSUME IInv, [Next]_vars PROVE IInv'
  <1>1. CASE ServiceStep
    BY <1>1, LaunchKeepsInv, StartReturnsKeepsInv, StopHookKeepsInv, KillHookKeepsInv, Zenon
       DEF ServiceStep
  <1>2. CASE service_halt(Stopping, "stop") \/ service_halt(Killing, "kill")
    BY <1>2, StopKeepsInv, KillKeepsInv, Zenon
  <1>3. CASE JoinBegin \/ do_service_await_join
    BY <1>3, JoinBeginKeepsInv, JoinEndKeepsInv, Zenon
  <1>4. CASE \E n \in Node : NodeStep(n)
    BY <1>4, AwaitWriteKeepsInv, LoopTestKeepsInv, AwaitReadKeepsInv, ShutdownKeepsInv,
       CallbackKeepsInv, CallbackKillsKeepsInv, Zenon DEF NodeStep
  <1>5. CASE \E n \in Node : Emit(n) \/ Fail(n) \/ SubscribeReturns(n)
    BY <1>5, EmitKeepsInv, FailKeepsInv, SubscribeReturnsKeepsInv, Zenon
  <1>6. CASE UNCHANGED vars
    BY <1>6, Zenon DEF vars, edges, IInv, Points, States, Elements, Flags, Fits, Placed, Launched,
       Joining, Finished, JoinReportsFailure, KillsAnnounced, ClosedByWriter, Flow,
       Undisturbed, Carried, PassedOn, Drained
  <1> QED
    BY <1>1, <1>2, <1>3, <1>4, <1>5, <1>6, Zenon DEF Next

\* The invariant holds for every graph and launch order, every capacity and any
\* number of elements, whoever fails, stops, kills or joins meanwhile.
THEOREM Invariance == Spec => []IInv
  <1>1. Init => IInv
    BY InitIInv, Zenon
  <1>2. IInv /\ [Next]_vars => IInv'
    BY StepKeepsInv, Zenon
  <1> QED
    BY <1>1, <1>2, PTL DEF Spec

-----------------------------------------------------------------------------
(* The properties *)

\* The states stay in their ranges, and no channel holds more than its capacity.
THEOREM TypeCorrect == Spec => []TypeOK
  <1>1. IInv => TypeOK
    BY Zenon DEF IInv, States, Flags, Fits, TypeOK
  <1> QED
    BY <1>1, Invariance, PTL

\* service_await_join throws exactly when a node failed.
THEOREM JoinReports == Spec => []JoinReportsFailure
  <1>1. IInv => JoinReportsFailure
    BY Zenon DEF IInv
  <1> QED
    BY <1>1, Invariance, PTL

\* The join is the only step that can report success.
LEMMA OnlyJoinEnds ==
  ASSUME [Next]_vars, join' = "joined", join # "joined"
  PROVE  do_service_await_join
  <1>1. join' # join
    BY Zenon
  <1>2. ~UNCHANGED vars
    BY <1>1, Zenon DEF vars
  <1>3. ~ServiceStep
    BY <1>1, Zenon DEF ServiceStep, Launch, StartReturns, do_service_stop, do_service_kill
  <1>4. ~service_halt(Stopping, "stop") /\ ~service_halt(Killing, "kill")
    BY <1>1, Zenon DEF service_halt
  <1>5. ~JoinBegin
    BY Zenon DEF JoinBegin
  <1>6. \A n \in Node : ~NodeStep(n)
    BY <1>1, Zenon DEF NodeStep, AwaitWrite, LoopTest, AwaitRead, Shutdown, Callback, CallbackKills
  <1>7. \A n \in Node : ~Emit(n) /\ ~Fail(n) /\ ~SubscribeReturns(n)
    BY <1>1, Zenon DEF Emit, Fail, SubscribeReturns
  <1> QED
    BY <1>2, <1>3, <1>4, <1>5, <1>6, <1>7, Zenon DEF Next

\* When service_await_join reports success and there was no kill, every reader took
\* all that was written to its edge, in order, and passed it on: a stop drains.
THEOREM JoinDelivers == Spec => JoinedMeansDelivered
  <1>1. ASSUME IInv, [Next]_vars, join' = "joined", m_state # Killing, join # "joined"
        PROVE  Delivered
    <2>1. do_service_await_join
      BY <1>1, OnlyJoinEnds, Zenon
    <2>2. join = "joining" /\ ~JoinThrows /\ \A n \in Launched : pc[n] = "done"
      BY <1>1, <2>1, Zenon DEF do_service_await_join
    <2>3. Launched = Node
      BY <1>1, <2>2, AllLaunched, Zenon DEF IInv, Joining
    <2>4. Undisturbed
      <3>1. m_state < Killing
        BY <1>1, <2>2 DEF IInv, States, Finished, Starting, Running, Stopping, Killing, Completed
      <3> QED
        BY <2>2, <2>3, <3>1, Zenon DEF Undisturbed, JoinThrows
    <2> SUFFICES ASSUME NEW r \in Reader
                 PROVE  /\ taken[r] = sent[Upstream[r]]
                        /\ Downstream(r) # {} => sent[r] = taken[r]
      BY Zenon DEF Delivered
    <2>5. Carried(r) /\ PassedOn(r) /\ Drained(r) /\ r \in Node /\ pc[r] = "done"
      BY <1>1, <2>2, <2>3, <2>4, SegmentAssumption, Zenon DEF IInv, Flow
    <2>6. chan[r] = << >>
      BY <2>5, Zenon DEF Drained, Ending
    <2>7. sent[Upstream[r]] \in Seq(Nat) /\ taken[r] \in Seq(Nat)
      BY <1>1, SegmentAssumption, Zenon DEF IInv, Elements
    <2>8. taken[r] = sent[Upstream[r]]
      BY <2>5, <2>6, <2>7, EmptyMeansTaken, Zenon DEF Carried
    <2>9. Downstream(r) # {} => sent[r] = taken[r]
      BY <2>5, Zenon DEF PassedOn
    <2> QED
      BY <2>8, <2>9, Zenon
  <1>2. IInv /\ [Next]_vars =>
          [join' = "joined" /\ m_state # Killing => join = "joined" \/ Delivered]_vars
    BY <1>1, Zenon
  <1> QED
    BY <1>2, Invariance, PTL DEF Spec, JoinedMeansDelivered
=============================================================================
