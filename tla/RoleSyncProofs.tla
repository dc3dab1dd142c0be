--------------------------- MODULE RoleSyncProofs ---------------------------
(***************************************************************************)
(* Proofs about RoleSync, for any set of tags: a former member is told to  *)
(* tear down only when no subscriber knows it, and a subscriber that       *)
(* reported the current nonce knows exactly the members.                   *)
(*                                                                         *)
(* Neither property is inductive.  What is needed besides them: a latched  *)
(* member is in no version from its latch on (AbsentSince), so that a      *)
(* released one is in no version a subscriber may still take over          *)
(* (ReleasedIsPast); what a subscriber knows is part of a version not      *)
(* older than the one it applied last (KnowsVersion); and no report runs   *)
(* ahead of what was applied (ReportsApplied).                             *)
(***************************************************************************)
EXTENDS RoleSync, TLAPS

TypeOK ==
  /\ current \in Nat /\ current >= 1
  /\ version \in [1 .. current -> SUBSET Tag]
  /\ m_subscribers \in SUBSET Tag
  /\ m_subscriber_nonces \in [Tag -> Nat]
  /\ start \in [Tag -> Nat]
  /\ latched \in [Tag -> Nat]
  /\ released \in SUBSET Tag
  /\ applied \in [Tag -> Nat]
  /\ view \in [Tag -> SUBSET Tag]

\* A latched member is in no version from the one it left with.
AbsentSince ==
  \A t \in Tag : latched[t] > 0 =>
    /\ latched[t] <= current
    /\ \A n \in 1 .. current : n >= latched[t] => t \notin version[n]

\* A released member is in no version that is current or that a subscriber may still
\* take over, and in nothing a subscriber knows.
ReleasedIsPast ==
  \A t \in released :
    /\ latched[t] = 0 /\ t \notin version[current]
    /\ \A p \in m_subscribers :
         /\ t \notin view[p]
         /\ \A n \in 1 .. current : n >= applied[p] /\ n >= start[p] => t \notin version[n]

\* What a tag knows is part of some version, not older than the one it applied last.
KnowsVersion ==
  \A p \in Tag :
    view[p] = {} \/ \E n \in 1 .. current : n >= applied[p] /\ view[p] \subseteq version[n]

\* No report is ahead of what was applied.
ReportsApplied ==
  \A p \in Tag : m_subscriber_nonces[p] <= applied[p] /\ applied[p] <= current

\* A tag that applied the current version knows exactly the members.
CurrentIsKnown ==
  \A p \in Tag : applied[p] = current => view[p] = version[current]

IInv ==
  /\ TypeOK /\ AbsentSince /\ ReleasedIsPast /\ KnowsVersion /\ ReportsApplied /\ CurrentIsKnown

-----------------------------------------------------------------------------
\* The invariant holds for a role that has just been made.
LEMMA InitIInv == Init => IInv
  <1> SUFFICES ASSUME Init PROVE IInv
    OBVIOUS
  <1>1. TypeOK
    BY DEF Init, TypeOK
  <1>2. AbsentSince /\ ReleasedIsPast /\ KnowsVersion /\ ReportsApplied /\ CurrentIsKnown
    BY DEF Init, AbsentSince, ReleasedIsPast, KnowsVersion, ReportsApplied, CurrentIsKnown
  <1> QED
    BY <1>1, <1>2 DEF IInv

\* What the tags know stays part of a version when versions are added.
LEMMA KnowsVersionKept ==
  ASSUME IInv, current' \in Nat, current' >= current,
         \A n \in 1 .. current : version'[n] = version[n],
         view' = view, applied' = applied
  PROVE  KnowsVersion'
  <1> SUFFICES ASSUME NEW p \in Tag, view[p] # {}
               PROVE  \E n \in 1 .. current' : n >= applied[p] /\ view[p] \subseteq version'[n]
    BY DEF KnowsVersion
  <1>1. PICK n \in 1 .. current : n >= applied[p] /\ view[p] \subseteq version[n]
    BY DEF IInv, KnowsVersion
  <1>2. n \in 1 .. current' /\ version'[n] = version[n]
    BY <1>1, SMTT(30) DEF IInv, TypeOK
  <1> QED
    BY <1>1, <1>2

\* A subscriber that has applied a version from L on does not know a tag that is in
\* no version from L on.
LEMMA NotKnown ==
  ASSUME IInv, NEW q \in Tag, NEW t, NEW L \in Nat, L <= applied[q],
         \A m \in 1 .. current : m >= L => t \notin version[m]
  PROVE  t \notin view[q]
  <1> SUFFICES ASSUME view[q] # {} PROVE t \notin view[q]
    OBVIOUS
  <1>1. PICK n \in 1 .. current : n >= applied[q] /\ view[q] \subseteq version[n]
    BY DEF IInv, KnowsVersion
  <1>2. n >= L
    BY <1>1 DEF IInv, TypeOK
  <1> QED
    BY <1>1, <1>2

\* add_member: the new version differs from the last one in a tag that was never latched.
LEMMA AddMemberIInv == ASSUME IInv, NEW t \in Tag, AddMember(t) PROVE IInv'
  <1> USE DEF members
  <1>1. TypeOK'
    BY DEF IInv, TypeOK, AddMember
  <1>2. /\ current' = current + 1
        /\ \A n \in 1 .. current : version'[n] = version[n]
        /\ version'[current + 1] = version[current] \cup {t}
    BY DEF IInv, TypeOK, AddMember
  <1>3. AbsentSince'
    BY <1>2 DEF IInv, TypeOK, AddMember, Fresh, AbsentSince
  <1>4. ReleasedIsPast'
    BY <1>2 DEF IInv, TypeOK, AddMember, Fresh, ReleasedIsPast
  <1>5. KnowsVersion'
    BY <1>1, <1>2, KnowsVersionKept DEF IInv, TypeOK, AddMember
  <1>6. ReportsApplied' /\ CurrentIsKnown'
    BY <1>2, SMTT(30) DEF IInv, TypeOK, AddMember, ReportsApplied, CurrentIsKnown
  <1> QED
    BY <1>1, <1>3, <1>4, <1>5, <1>6 DEF IInv

\* add_subscriber: a new subscriber knows nothing, and only versions from the current
\* one on are for it.
LEMMA AddSubscriberIInv == ASSUME IInv, NEW p \in Tag, AddSubscriber(p) PROVE IInv'
  <1>1. TypeOK'
    BY DEF IInv, TypeOK, AddSubscriber
  <1>2. AbsentSince' /\ KnowsVersion' /\ CurrentIsKnown'
    BY DEF IInv, TypeOK, AddSubscriber, AbsentSince, KnowsVersion, CurrentIsKnown
  <1>3. ReleasedIsPast'
    BY DEF IInv, TypeOK, AddSubscriber, ReleasedIsPast
  <1>4. ReportsApplied'
    BY DEF IInv, TypeOK, AddSubscriber, ReportsApplied
  <1> QED
    BY <1>1, <1>2, <1>3, <1>4 DEF IInv

\* update_tagged_instances: no released member is in the version taken over.
LEMMA ApplyIInv == ASSUME IInv, NEW p \in Tag, NEW n \in 0 .. current, Apply(p, n) PROVE IInv'
  <1>1. TypeOK'
    BY DEF IInv, TypeOK, Apply
  <1>2. AbsentSince'
    BY DEF IInv, Apply, AbsentSince
  <1>3. ReleasedIsPast'
    BY DEF IInv, TypeOK, Apply, ReleasedIsPast
  <1>4. KnowsVersion'
    <2> SUFFICES ASSUME NEW q \in Tag, view'[q] # {}
                 PROVE  \E m \in 1 .. current : m >= applied'[q] /\ view'[q] \subseteq version[m]
      BY DEF KnowsVersion, Apply
    <2>1. CASE q = p
      BY <2>1 DEF IInv, TypeOK, Apply
    <2>2. CASE q # p
      BY <2>2, Zenon DEF IInv, TypeOK, Apply, KnowsVersion
    <2> QED
      BY <2>1, <2>2
  <1>5. ReportsApplied' /\ CurrentIsKnown'
    BY DEF IInv, TypeOK, Apply, ReportsApplied, CurrentIsKnown
  <1> QED
    BY <1>1, <1>2, <1>3, <1>4, <1>5 DEF IInv

\* The same when the update fails halfway.
LEMMA ApplyInPartIInv ==
  ASSUME IInv, NEW p \in Tag, NEW n \in 0 .. current, ApplyInPart(p, n) PROVE IInv'
  <1>1. TypeOK'
    BY Zenon DEF IInv, TypeOK, ApplyInPart
  <1>2. AbsentSince'
    BY DEF IInv, ApplyInPart, AbsentSince
  <1> DEFINE known == view'[p]
  <1>a. known \subseteq version[n] /\ view' = [view EXCEPT ![p] = known]
    BY DEF ApplyInPart
  <1> HIDE DEF known
  <1>b. n \in 1 .. current /\ applied[p] < n /\ start[p] <= n
    BY DEF ApplyInPart
  <1>3. ReleasedIsPast'
    <2> SUFFICES ASSUME NEW t \in released, NEW q \in m_subscribers
                 PROVE  t \notin view'[q]
      BY DEF IInv, ReleasedIsPast, ApplyInPart
    <2>1. CASE q = p
      BY <2>1, <1>a, <1>b DEF IInv, TypeOK, ReleasedIsPast
    <2>2. CASE q # p
      BY <2>2, <1>a DEF IInv, TypeOK, ReleasedIsPast
    <2> QED
      BY <2>1, <2>2
  <1>4. KnowsVersion'
    <2> SUFFICES ASSUME NEW q \in Tag, view'[q] # {}
                 PROVE  \E m \in 1 .. current : m >= applied[q] /\ view'[q] \subseteq version[m]
      BY DEF KnowsVersion, ApplyInPart
    <2>1. CASE q = p
      <3>1. n >= applied[q] /\ view'[q] \subseteq version[n]
        BY <2>1, <1>a, <1>b DEF IInv, TypeOK
      <3> QED
        BY <3>1, <1>b
    <2>2. CASE q # p
      BY <2>2, <1>a, Zenon DEF IInv, TypeOK, KnowsVersion
    <2> QED
      BY <2>1, <2>2
  <1>5. ReportsApplied' /\ CurrentIsKnown'
    BY DEF IInv, TypeOK, ApplyInPart, ReportsApplied, CurrentIsKnown
  <1> QED
    BY <1>1, <1>2, <1>3, <1>4, <1>5 DEF IInv

\* update_subscriber_nonce, with the latches it evaluates: a member is released when
\* all subscribers have applied a version from its latch on.
LEMMA ReportIInv == ASSUME IInv, NEW p \in Tag, NEW n \in 0 .. current, Report(p, n) PROVE IInv'
  <1>1. PICK R \in SUBSET {t \in Tag : latched[t] > 0} :
          /\ \A t \in R : \A q \in m_subscribers' : latched[t] <= m_subscriber_nonces'[q]
          /\ latched' = [t \in Tag |-> IF t \in R THEN 0 ELSE latched[t]]
          /\ released' = released \cup R
    BY DEF Report, Release
  <1>2. /\ UNCHANGED <<current, version, m_subscribers, start, applied, view>>
        /\ m_subscriber_nonces' \in [Tag -> Nat]
        /\ \A q \in Tag : m_subscriber_nonces'[q] <= applied[q]
    BY DEF IInv, TypeOK, Report, ReportsApplied
  <1>3. TypeOK'
    BY <1>1, <1>2 DEF IInv, TypeOK
  <1>4. AbsentSince'
    BY <1>1, <1>2 DEF IInv, TypeOK, AbsentSince
  <1>5. ReleasedIsPast'
    <2> SUFFICES ASSUME NEW t \in released'
                 PROVE  /\ latched'[t] = 0 /\ t \notin version[current]
                        /\ \A q \in m_subscribers :
                             /\ t \notin view[q]
                             /\ \A m \in 1 .. current :
                                  m >= applied[q] /\ m >= start[q] => t \notin version[m]
      BY <1>2 DEF ReleasedIsPast
    <2>1. CASE t \in R
      <3>1. /\ latched[t] > 0 /\ latched[t] <= current /\ latched[t] \in Nat
            /\ \A m \in 1 .. current : m >= latched[t] => t \notin version[m]
        BY <2>1 DEF IInv, TypeOK, AbsentSince
      <3>2. \A q \in m_subscribers : latched[t] <= applied[q]
        BY <1>1, <1>2, <2>1, <3>1, SMTT(30) DEF IInv, TypeOK
      <3>3. \A q \in m_subscribers : t \notin view[q]
        BY <3>1, <3>2, NotKnown, Zenon DEF IInv, TypeOK
      <3> QED
        BY <1>1, <2>1, <3>1, <3>2, <3>3, SMTT(30) DEF IInv, TypeOK
    <2>2. CASE t \notin R
      BY <1>1, <2>2 DEF IInv, TypeOK, ReleasedIsPast
    <2> QED
      BY <2>1, <2>2
  <1>6. KnowsVersion' /\ ReportsApplied' /\ CurrentIsKnown'
    BY <1>2, Zenon DEF IInv, TypeOK, KnowsVersion, ReportsApplied, CurrentIsKnown
  <1> QED
    BY <1>3, <1>4, <1>5, <1>6 DEF IInv

\* drop_tag of some tags, with the latches it evaluates: the versions it adds hold no
\* tag that left before, and what it latches is released only when nobody subscribes.
LEMMA DropIInv == ASSUME IInv, NEW T \in SUBSET Tag, Drop(T) PROVE IInv'
  <1> USE DEF members
  <1>1. PICK L \in [T \cap members -> current + 1 .. current'] :
          /\ \A t \in T \cap members : \A n \in L[t] .. current' : t \notin version'[n]
          /\ Release([t \in Tag |-> IF t \in T \cap members THEN L[t] ELSE latched[t]])
    BY Zenon DEF Drop
  <1> DEFINE M == [t \in Tag |-> IF t \in T \cap members THEN L[t] ELSE latched[t]]
  <1>2. PICK R \in SUBSET {t \in Tag : M[t] > 0} :
          /\ \A t \in R : \A q \in m_subscribers' : M[t] <= m_subscriber_nonces'[q]
          /\ latched' = [t \in Tag |-> IF t \in R THEN 0 ELSE M[t]]
          /\ released' = released \cup R
    BY <1>1 DEF Release
  <1>3. /\ current' \in Nat /\ current' >= current /\ current' >= 1
        /\ version' \in [1 .. current' -> SUBSET Tag]
        /\ \A n \in 1 .. current : version'[n] = version[n]
        /\ \A n \in current + 1 .. current' : version'[n] \subseteq members
        /\ version'[current'] = members \ T
        /\ m_subscribers' = m_subscribers \ T
        /\ UNCHANGED <<start, applied, view>>
    BY DEF Drop, IInv, TypeOK
  <1>4. /\ m_subscriber_nonces' \in [Tag -> Nat]
        /\ \A q \in Tag : m_subscriber_nonces'[q] <= applied[q]
    BY DEF IInv, TypeOK, Drop, ReportsApplied
  <1>5. M \in [Tag -> Nat]
    BY <1>3 DEF IInv, TypeOK
  <1>6. ASSUME NEW t \in Tag, M[t] > 0
        PROVE  /\ M[t] <= current'
               /\ \A n \in 1 .. current' : n >= M[t] => t \notin version'[n]
    <2>1. CASE t \in T \cap members
      <3>1. M[t] = L[t] /\ L[t] \in current + 1 .. current'
        BY <2>1
      <3> QED
        BY <1>1, <1>3, <2>1, <3>1 DEF IInv, TypeOK
    <2>2. CASE t \notin T \cap members
      <3>1. /\ M[t] = latched[t] /\ latched[t] > 0 /\ latched[t] <= current
            /\ \A n \in 1 .. current : n >= latched[t] => t \notin version[n]
        BY <1>6, <2>2 DEF IInv, AbsentSince
      <3>2. t \notin members
        BY <3>1 DEF IInv, TypeOK
      <3> SUFFICES ASSUME NEW n \in 1 .. current', n >= M[t] PROVE t \notin version'[n]
        BY <1>3, <3>1 DEF IInv, TypeOK
      <3>3. CASE n \in 1 .. current
        BY <1>3, <3>1, <3>3
      <3>4. CASE n \in current + 1 .. current'
        BY <1>3, <3>2, <3>4
      <3> QED
        BY <1>3, <3>3, <3>4 DEF IInv, TypeOK
    <2> QED
      BY <2>1, <2>2
  <1>7. \A t \in released : M[t] = 0
    BY DEF IInv, TypeOK, ReleasedIsPast
  <1> HIDE DEF M
  <1>a. TypeOK'
    <2>1. latched' \in [Tag -> Nat] /\ released' \in SUBSET Tag
      BY <1>2, <1>5 DEF IInv, TypeOK
    <2> QED
      BY <1>3, <1>4, <2>1 DEF IInv, TypeOK
  <1>b. AbsentSince'
    BY <1>2, <1>5, <1>6 DEF AbsentSince
  <1>8. ReleasedIsPast'
    <2> SUFFICES ASSUME NEW t \in released'
                 PROVE  /\ latched'[t] = 0 /\ t \notin version'[current']
                        /\ \A q \in m_subscribers' :
                             /\ t \notin view[q]
                             /\ \A m \in 1 .. current' :
                                  m >= applied[q] /\ m >= start[q] => t \notin version'[m]
      BY <1>3 DEF ReleasedIsPast
    <2>1. CASE t \in R
      <3>1. /\ M[t] > 0 /\ M[t] <= current' /\ M[t] \in Nat /\ latched'[t] = 0
            /\ \A m \in 1 .. current' : m >= M[t] => t \notin version'[m]
        BY <1>2, <1>5, <1>6, <2>1
      <3>2. \A q \in m_subscribers' : M[t] <= applied[q] /\ q \in Tag
        BY <1>2, <1>3, <1>4, <2>1, <3>1, SMTT(30) DEF IInv, TypeOK
      <3>3. \A m \in 1 .. current : m >= M[t] => t \notin version[m]
        BY <1>3, <3>1 DEF IInv, TypeOK
      <3>4. \A q \in m_subscribers' : t \notin view[q]
        BY <3>1, <3>2, <3>3, NotKnown
      <3> QED
        BY <1>3, <3>1, <3>2, <3>4, SMTT(30) DEF IInv, TypeOK
    <2>2. CASE t \notin R
      <3>1. /\ t \in released /\ latched[t] = 0 /\ t \notin members /\ t \in Tag
            /\ \A q \in m_subscribers :
                 /\ t \notin view[q]
                 /\ \A m \in 1 .. current :
                      m >= applied[q] /\ m >= start[q] => t \notin version[m]
        BY <1>2, <2>2 DEF IInv, TypeOK, ReleasedIsPast
      <3>2. latched'[t] = 0
        BY <1>2, <1>7, <2>2, <3>1
      <3>3. \A m \in current + 1 .. current' : t \notin version'[m]
        BY <1>3, <3>1
      <3>4. ASSUME NEW q \in m_subscribers, NEW m \in 1 .. current',
                   m >= applied[q], m >= start[q]
            PROVE  t \notin version'[m]
        BY <1>3, <3>1, <3>3, <3>4 DEF IInv, TypeOK
      <3> QED
        BY <1>3, <3>1, <3>2, <3>4
    <2> QED
      BY <2>1, <2>2
  <1>9. KnowsVersion'
    BY <1>3, KnowsVersionKept
  <1>10. ReportsApplied'
    BY <1>3, <1>4 DEF IInv, TypeOK, ReportsApplied
  <1>11. CurrentIsKnown'
    BY <1>3 DEF IInv, TypeOK, ReportsApplied, CurrentIsKnown
  <1> QED
    BY <1>a, <1>b, <1>8, <1>9, <1>10, <1>11 DEF IInv

-----------------------------------------------------------------------------
\* The invariant holds in every state of a role.
THEOREM Invariance == Spec => []IInv
  <1>1. IInv /\ [Next]_vars => IInv'
    <2> SUFFICES ASSUME IInv, [Next]_vars PROVE IInv'
      OBVIOUS
    <2>1. ASSUME NEW t \in Tag, AddMember(t) \/ AddSubscriber(t) PROVE IInv'
      BY <2>1, AddMemberIInv, AddSubscriberIInv
    <2>2. ASSUME NEW p \in Tag, NEW n \in 0 .. current,
                 Apply(p, n) \/ ApplyInPart(p, n) \/ Report(p, n)
          PROVE  IInv'
      BY <2>2, ApplyIInv, ApplyInPartIInv, ReportIInv
    <2>3. ASSUME NEW T \in SUBSET Tag, Drop(T) PROVE IInv'
      BY <2>3, DropIInv
    <2>4. CASE UNCHANGED vars
      BY <2>4, Zenon DEF vars, IInv, TypeOK, AbsentSince, ReleasedIsPast, KnowsVersion, ReportsApplied,
                  CurrentIsKnown
    <2> QED
      BY <2>1, <2>2, <2>3, <2>4 DEF Next
  <1> QED
    BY InitIInv, <1>1, PTL DEF Spec

\* Whatever order members and subscribers come, go and report in, a former member
\* that evaluate_latches told to tear down is known to no subscriber any more.
THEOREM ReleasedForgotten == Spec => []ReleasedIsForgotten
  <1>1. IInv => ReleasedIsForgotten
    BY DEF IInv, ReleasedIsPast, ReleasedIsForgotten
  <1> QED
    BY Invariance, <1>1, PTL

\* A subscriber whose reported nonce is m_current_nonce knows exactly m_members.
THEOREM CurrentSame == Spec => []CurrentMeansSame
  <1>1. IInv => CurrentMeansSame
    BY DEF IInv, TypeOK, ReportsApplied, CurrentIsKnown, CurrentMeansSame, members
  <1> QED
    BY Invariance, <1>1, PTL
=============================================================================
