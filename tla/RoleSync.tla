------------------------------ MODULE RoleSync ------------------------------
(***************************************************************************)
(* What a Role of a subscription service promises: the members of the role *)
(* change in numbered versions, every subscriber follows these versions at *)
(* its own pace and reports how far it has come, and a member that left is *)
(* told to tear down ("released") only when all subscribers have reported  *)
(* a version without it.  How updates and reports travel is left open;     *)
(* ControlPlane.tla has the server, the clients and their streams.         *)
(***************************************************************************)
EXTENDS Naturals

CONSTANT Tag   \* the tags TaggedIssuer hands out, never twice

VARIABLES
  current,      \* m_current_nonce
  version,      \* version[n]: the members under nonce n
  m_subscribers,
  m_subscriber_nonces,
  start,        \* m_current_nonce when a tag subscribed: older updates are not for it
  latched,      \* m_latched_members: the nonce a former member left with, 0 for others
  released,     \* the former members a drop request was sent to
  applied,      \* the nonce of the last update each subscriber took over
  view          \* the members each subscriber knows

vars == <<current, version, m_subscribers, m_subscriber_nonces, start, latched, released,
          applied, view>>

members == version[current]

Init ==
  /\ current = 1
  /\ version = [n \in {1} |-> {}]
  /\ m_subscribers \in SUBSET Tag
  /\ m_subscriber_nonces = [t \in Tag |-> 0]
  /\ start = [t \in Tag |-> IF t \in m_subscribers THEN 1 ELSE 0]
  /\ latched = [t \in Tag |-> 0]
  /\ released = {}
  /\ applied = [t \in Tag |-> 0]
  /\ view = [t \in Tag |-> {}]

\* The tags that have never been a member of the role.
Fresh(t) ==
  /\ latched[t] = 0 /\ t \notin released
  /\ \A n \in 1 .. current : t \notin version[n]

\* Some latched members may be released, if all subscribers have caught up: the
\* latches L and the subscribers are those after the rest of the step.
Release(L) ==
  \E R \in SUBSET {t \in Tag : L[t] > 0} :
    /\ \A t \in R : \A p \in m_subscribers' : L[t] <= m_subscriber_nonces'[p]
    /\ latched' = [t \in Tag |-> IF t \in R THEN 0 ELSE L[t]]
    /\ released' = released \cup R

\* A tag becomes a member.
AddMember(t) ==
  /\ Fresh(t)
  /\ current' = current + 1
  /\ version' = [n \in 1 .. current + 1 |->
                   IF n <= current THEN version[n] ELSE members \cup {t}]
  /\ UNCHANGED <<m_subscribers, m_subscriber_nonces, start, latched, released, applied, view>>

\* A tag subscribes: it knows nothing of the members yet.
AddSubscriber(p) ==
  /\ p \notin m_subscribers /\ view[p] = {} /\ applied[p] = 0
  /\ m_subscribers' = m_subscribers \cup {p}
  /\ m_subscriber_nonces' = [m_subscriber_nonces EXCEPT ![p] = 0]
  /\ start' = [start EXCEPT ![p] = current]
  /\ UNCHANGED <<current, version, latched, released, applied, view>>

\* The tags T are dropped: the members among them one after the other, each with
\* a version of its own that later ones keep without it.
Drop(T) ==
  /\ current' \in Nat /\ current' >= current
  /\ version' \in [1 .. current' -> SUBSET Tag]
  /\ \A n \in 1 .. current : version'[n] = version[n]
  /\ \A n \in current + 1 .. current' : version'[n] \subseteq members
  /\ version'[current'] = members \ T
  /\ m_subscribers' = m_subscribers \ T
  /\ m_subscriber_nonces' = [t \in Tag |-> IF t \in T THEN 0 ELSE m_subscriber_nonces[t]]
  /\ \E L \in [T \cap members -> current + 1 .. current'] :
       /\ \A t \in T \cap members : \A n \in L[t] .. current' : t \notin version'[n]
       /\ Release([t \in Tag |-> IF t \in T \cap members THEN L[t] ELSE latched[t]])
  /\ UNCHANGED <<start, applied, view>>

\* A subscriber takes over a version newer than the one it has.
Apply(p, n) ==
  /\ n \in 1 .. current /\ applied[p] < n /\ start[p] <= n
  /\ applied' = [applied EXCEPT ![p] = n]
  /\ view' = [view EXCEPT ![p] = version[n]]
  /\ UNCHANGED <<current, version, m_subscribers, m_subscriber_nonces, start, latched,
                 released>>

\* It fails halfway: what it knows then is part of the version.
ApplyInPart(p, n) ==
  /\ n \in 1 .. current /\ applied[p] < n /\ start[p] <= n
  /\ view'[p] \subseteq version[n]
  /\ view' = [view EXCEPT ![p] = view'[p]]
  /\ UNCHANGED <<current, version, m_subscribers, m_subscriber_nonces, start, latched,
                 released, applied>>

\* A report of some version the subscriber has taken over arrives.
Report(p, n) ==
  /\ n \in 0 .. applied[p]
  /\ m_subscriber_nonces' = IF p \in m_subscribers
                              THEN [m_subscriber_nonces EXCEPT ![p] = n]
                              ELSE m_subscriber_nonces
  /\ m_subscribers' = m_subscribers
  /\ Release(latched)
  /\ UNCHANGED <<current, version, start, applied, view>>

Next ==
  \/ \E t \in Tag : AddMember(t) \/ AddSubscriber(t)
  \/ \E p \in Tag, n \in 0 .. current : Apply(p, n) \/ ApplyInPart(p, n) \/ Report(p, n)
  \/ \E T \in SUBSET Tag : Drop(T)

Spec == Init /\ [][Next]_vars

-----------------------------------------------------------------------------
(* Properties *)

\* When a former member is told to tear down, no subscriber knows it any more,
\* and none gets to know it again.
ReleasedIsForgotten ==
  \A t \in released, p \in m_subscribers : t \notin view[p]

\* A subscriber that reported the current nonce knows exactly the members.
CurrentMeansSame ==
  \A p \in m_subscribers : m_subscriber_nonces[p] = current => view[p] = members
=============================================================================
