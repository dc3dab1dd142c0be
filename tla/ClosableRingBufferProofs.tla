---------------------- MODULE ClosableRingBufferProofs ----------------------
(***************************************************************************)
(* Proofs about ClosableRingBuffer, for every capacity and any number of   *)
(* tasks: the type invariant, the relation of the waiter lists to the      *)
(* occupancy, and the order of the contents.  The three are proved         *)
(* together because they need each other: the element a read takes is an   *)
(* Element only because the slots hold accepted elements, and the slots    *)
(* hold them only because a hand-off happens on an empty buffer and a      *)
(* refill on a full one.                                                   *)
(*                                                                         *)
(* That an operation reports what happened to its element needs more: an   *)
(* operation waits in one place, a list or the hand of the task that is    *)
(* about to resume it, and its task is suspended meanwhile (Outcomes).     *)
(***************************************************************************)
EXTENDS ClosableRingBuffer, TLAPS

\* A write that is past its test or suspended carries an element.
OperationsCarryElements ==
  /\ \A w \in Writer : pc[w] = "checked" => m_e[w] \in Element
  /\ \A i \in 1 .. Len(m_write_waiters) : m_e[m_write_waiters[i]] \in Element

\* A task about to resume a waiter has one in hand.
ResumersHoldWaiters ==
  \A t \in Task : pc[t] \in {"resuming", "chain"} => hand[t] # << >>

IInv == /\ TypeOK
        /\ WaitersMatchOccupancy
        /\ ContentsInOrder
        /\ OperationsCarryElements
        /\ ResumersHoldWaiters

USE BufferAssumption

\* m_front and m_back step around the vector and wrap to slot 0.
LEMMA AdvanceWraps ==
  ASSUME NEW i \in 0 .. N - 1
  PROVE  Advance(i) = IF i + 1 = N THEN 0 ELSE i + 1
<1>1. CASE i + 1 = N
  BY <1>1, Z3 DEF Advance
<1>2. CASE i + 1 # N
  BY <1>2, Z3 DEF Advance
<1> QED BY <1>1, <1>2, Zenon

\* An element is added after the others.
LEMMA AppendGrows ==
  ASSUME NEW S, NEW s \in Seq(S), NEW x \in S
  PROVE  /\ Append(s, x) \in Seq(S)
         /\ Len(Append(s, x)) = Len(s) + 1 /\ Len(s) \in Nat
         /\ Append(s, x)[Len(s) + 1] = x
         /\ \A i \in 1 .. Len(s) : Append(s, x)[i] = s[i]
OBVIOUS

\* Pushing an operation on a waiter list.
LEMMA PushProperties ==
  ASSUME NEW S, NEW x \in S, NEW s \in Seq(S)
  PROVE  /\ <<x>> \o s \in Seq(S)
         /\ <<x>> \o s # << >>
         /\ Len(<<x>> \o s) = Len(s) + 1
         /\ (<<x>> \o s)[1] = x
         /\ \A i \in 2 .. Len(s) + 1 : (<<x>> \o s)[i] = s[i - 1]
<1>1. <<x>> \in Seq(S) /\ Len(<<x>>) = 1
  OBVIOUS
<1>2. Len(s) \in Nat
  OBVIOUS
<1>3. <<x>> \o s \in Seq(S) /\ Len(<<x>> \o s) = Len(s) + 1
  BY <1>1, <1>2
<1>4. \A i \in 1 .. Len(s) + 1 : (<<x>> \o s)[i] = IF i <= 1 THEN <<x>>[i] ELSE s[i - 1]
  BY <1>1, <1>2
<1> QED BY <1>1, <1>2, <1>3, <1>4

\* Taking the operation at the head of a waiter list.
LEMMA PopProperties ==
  ASSUME NEW S, NEW s \in Seq(S), s # << >>
  PROVE  /\ Head(s) \in S
         /\ Tail(s) \in Seq(S)
         /\ Len(s) \in Nat \ {0}
         /\ Len(Tail(s)) = Len(s) - 1
         /\ Head(s) = s[1]
         /\ \A i \in 1 .. Len(s) - 1 : Tail(s)[i] = s[i + 1]
  OBVIOUS

\* The slots of two elements of the buffer differ, the slot after the newest
\* element is the next one round, and moving m_back renumbers the slots.
LEMMA SlotProperties ==
  ASSUME NEW b \in 0 .. N - 1
  PROVE  /\ \A i \in 0 .. N : Slot(b, i) \in 0 .. N - 1
         /\ \A i, j \in 0 .. N - 1 : Slot(b, i) = Slot(b, j) => i = j
         /\ \A i \in 0 .. N - 1 : Slot(b, i + 1) = Advance(Slot(b, i))
         /\ \A i \in 0 .. N - 1 : Slot(Advance(b), i) = Slot(b, i + 1)
         /\ Advance(b) \in 0 .. N - 1
<1>1. /\ \A i \in 0 .. N : Slot(b, i) \in 0 .. N - 1
      /\ \A i, j \in 0 .. N - 1 : Slot(b, i) = Slot(b, j) => i = j
  BY DEF Slot
<1>2. ASSUME NEW i \in 0 .. N - 1 PROVE Slot(b, i + 1) = Advance(Slot(b, i))
  <2>1. Slot(b, i) \in 0 .. N - 1
    BY <1>1
  <2> QED BY <2>1, AdvanceWraps DEF Slot
<1>3. Advance(b) = IF b + 1 = N THEN 0 ELSE b + 1
  BY AdvanceWraps, Zenon
<1>4. ASSUME NEW i \in 0 .. N - 1 PROVE Slot(Advance(b), i) = Slot(b, i + 1)
  BY <1>3 DEF Slot
<1> QED BY <1>1, <1>2, <1>3, <1>4

-----------------------------------------------------------------------------
(* The contents of the buffer, as a relation on values, so that an action    *)
(* that stores and takes in one step is the two lemmas one after the other.  *)

InOrder(els, f, b, u, acc, del) ==
  /\ els \in [0 .. N - 1 -> Element \cup {None}]
  /\ f \in 0 .. N - 1 /\ b \in 0 .. N - 1 /\ u \in 0 .. N
  /\ acc \in Seq(Element) /\ del \in Seq(Element)
  /\ Len(acc) = Len(del) + u
  /\ f = Slot(b, u)
  /\ \A i \in 0 .. u - 1 : els[Slot(b, i)] = acc[Len(del) + 1 + i]
  /\ \A i \in 1 .. Len(del) : del[i] = acc[i]

\* On typed values the relation is the invariant ContentsInOrder.
LEMMA InOrderIsContents ==
  ASSUME TypeOK
  PROVE  ContentsInOrder <=> InOrder(m_elements, m_front, m_back, m_used, accepted, delivered)
BY Zenon DEF TypeOK, ContentsInOrder, InOrder

\* Storing at m_front adds the newest element.
LEMMA StoreKeepsOrder ==
  ASSUME NEW els, NEW f, NEW b, NEW u, NEW acc, NEW del,
         InOrder(els, f, b, u, acc, del), u # N, NEW e \in Element
  PROVE  InOrder([els EXCEPT ![f] = e], Advance(f), b, u + 1, Append(acc, e), del)
<1> DEFINE els1 == [els EXCEPT ![f] = e]
           acc1 == Append(acc, e)
<1>1. /\ els \in [0 .. N - 1 -> Element \cup {None}]
      /\ f \in 0 .. N - 1 /\ b \in 0 .. N - 1 /\ u \in 0 .. N - 1
      /\ acc \in Seq(Element) /\ del \in Seq(Element)
      /\ Len(acc) \in Nat /\ Len(del) \in Nat
      /\ Len(acc) = Len(del) + u
      /\ f = Slot(b, u)
  BY DEF InOrder
<1>2. /\ acc1 \in Seq(Element)
      /\ Len(acc1) = Len(acc) + 1
      /\ acc1[Len(acc) + 1] = e
      /\ \A i \in 1 .. Len(acc) : acc1[i] = acc[i]
  BY <1>1, AppendGrows, SMTT(30)
<1>3. Advance(f) = Slot(b, u + 1) /\ Advance(f) \in 0 .. N - 1
  BY <1>1, SlotProperties, Zenon
<1>4. els1 \in [0 .. N - 1 -> Element \cup {None}]
  BY <1>1, Zenon
<1> HIDE DEF acc1
<1>5. ASSUME NEW i \in 0 .. u
      PROVE  els1[Slot(b, i)] = acc1[Len(del) + 1 + i]
  <2>1. CASE i = u
    BY <2>1, <1>1, <1>2
  <2>2. CASE i # u
    <3>1. i \in 0 .. u - 1 /\ i \in 0 .. N - 1 /\ i \in 0 .. N
      BY <2>2, <1>1
    <3>r. /\ \A j \in 0 .. N : Slot(b, j) \in 0 .. N - 1
          /\ \A j, k \in 0 .. N - 1 : Slot(b, j) = Slot(b, k) => j = k
      BY <1>1, SlotProperties, Zenon
    <3>2. Slot(b, i) # f /\ Slot(b, i) \in 0 .. N - 1
      BY <3>1, <3>r, <2>2, <1>1, Zenon
    <3>3. els1[Slot(b, i)] = els[Slot(b, i)]
      BY <3>2, <1>1, Zenon
    <3>4. els[Slot(b, i)] = acc[Len(del) + 1 + i]
      BY <3>1, Zenon DEF InOrder
    <3>5. Len(del) + 1 + i \in 1 .. Len(acc)
      BY <3>1, <1>1
    <3> QED BY <3>3, <3>4, <3>5, <1>2, Zenon
  <2> QED BY <2>1, <2>2, Zenon
<1>6. ASSUME NEW i \in 1 .. Len(del) PROVE del[i] = acc1[i]
  <2>1. i \in 1 .. Len(acc) /\ del[i] = acc[i]
    BY <1>1 DEF InOrder
  <2> QED BY <2>1, <1>2, Zenon
<1> HIDE DEF els1
<1>7. InOrder(els1, Advance(f), b, u + 1, acc1, del)
  BY <1>1, <1>2, <1>3, <1>4, <1>5, <1>6 DEF InOrder
<1> QED BY <1>7, Zenon DEF els1, acc1

\* What is taken at m_back is the oldest element.
LEMMA TakeKeepsOrder ==
  ASSUME NEW els, NEW f, NEW b, NEW u, NEW acc, NEW del,
         InOrder(els, f, b, u, acc, del), u # 0
  PROVE  /\ els[b] \in Element
         /\ els[b] = acc[Len(del) + 1]
         /\ InOrder(els, f, Advance(b), u - 1, acc, Append(del, els[b]))
<1> DEFINE del1 == Append(del, els[b])
<1>1. /\ els \in [0 .. N - 1 -> Element \cup {None}]
      /\ f \in 0 .. N - 1 /\ b \in 0 .. N - 1 /\ u \in 1 .. N
      /\ acc \in Seq(Element) /\ del \in Seq(Element)
      /\ Len(acc) \in Nat /\ Len(del) \in Nat
      /\ Len(acc) = Len(del) + u
      /\ f = Slot(b, u)
  BY DEF InOrder
<1>2. Slot(b, 0) = b
  BY <1>1 DEF Slot
<1>3. els[b] = acc[Len(del) + 1 + 0] /\ Len(del) + 1 \in 1 .. Len(acc)
  <2>1. \A i \in 0 .. u - 1 : els[Slot(b, i)] = acc[Len(del) + 1 + i]
    BY Zenon DEF InOrder
  <2> QED BY <1>1, <1>2, <2>1, SMTT(30)
<1>4. els[b] = acc[Len(del) + 1] /\ els[b] \in Element
  BY <1>3, <1>1
<1>5. /\ del1 \in Seq(Element) /\ Len(del1) = Len(del) + 1
      /\ del1[Len(del) + 1] = els[b]
      /\ \A i \in 1 .. Len(del) : del1[i] = del[i]
  BY <1>4, <1>1, AppendGrows
<1> HIDE DEF del1
<1>6. /\ Advance(b) \in 0 .. N - 1
      /\ \A i \in 0 .. N - 1 : Slot(Advance(b), i) = Slot(b, i + 1)
  BY <1>1, SlotProperties, Zenon
<1>7. f = Slot(Advance(b), u - 1)
  BY <1>1, <1>6
<1>8. ASSUME NEW i \in 0 .. (u - 1) - 1
      PROVE  els[Slot(Advance(b), i)] = acc[Len(del1) + 1 + i]
  <2>1. i + 1 \in 0 .. u - 1 /\ i \in 0 .. N - 1
    BY <1>1
  <2>2. els[Slot(b, i + 1)] = acc[Len(del) + 1 + (i + 1)]
    BY <2>1, Zenon DEF InOrder
  <2>3. Len(del1) + 1 + i = Len(del) + 1 + (i + 1)
    BY <1>1, <1>5
  <2> QED BY <2>1, <2>2, <2>3, <1>6, Zenon
<1>9. ASSUME NEW i \in 1 .. Len(del1) PROVE del1[i] = acc[i]
  <2>1. CASE i = Len(del) + 1
    BY <2>1, <1>4, <1>5, Zenon
  <2>2. CASE i # Len(del) + 1
    <3>1. i \in 1 .. Len(del)
      BY <2>2, <1>1, <1>5
    <3> QED BY <3>1, <1>5, Zenon DEF InOrder
  <2> QED BY <2>1, <2>2, Zenon
<1>10. InOrder(els, f, Advance(b), u - 1, acc, del1)
  BY <1>1, <1>5, <1>6, <1>7, <1>8, <1>9 DEF InOrder
<1> QED BY <1>4, <1>10, Zenon DEF del1

\* Appending leaves the elements before it alone.
LEMMA AppendKeeps ==
  ASSUME NEW acc \in Seq(Element), NEW e \in Element, NEW i \in 1 .. Len(acc)
  PROVE  Append(acc, e)[i] = acc[i]
BY AppendGrows

\* The element at m_back is the one to be delivered next.
OldestAtBack(els, b, acc, del) == els[b] = acc[Len(del) + 1]

\* A buffer that is not empty has it there.
LEMMA OldestIsNext ==
  ASSUME NEW els, NEW f, NEW b, NEW u, NEW acc, NEW del,
         InOrder(els, f, b, u, acc, del), u # 0
  PROVE  OldestAtBack(els, b, acc, del)
<1>1. 0 \in 0 .. u - 1 /\ b \in 0 .. N - 1 /\ Len(del) \in Nat
  BY DEF InOrder
<1>2. els[Slot(b, 0)] = acc[Len(del) + 1 + 0]
  BY <1>1, Zenon DEF InOrder
<1>3. Slot(b, 0) = b /\ Len(del) + 1 + 0 = Len(del) + 1
  BY <1>1 DEF Slot
<1> QED BY <1>2, <1>3, Zenon DEF OldestAtBack

\* The inductive invariant holds in a newly constructed buffer.
LEMMA InitIInv == Init => IInv
<1> SUFFICES ASSUME Init PROVE IInv
  BY Zenon
<1> USE DEF Init
<1>1. TypeOK
  <2>1. op_stopped \in [Task -> BOOLEAN] /\ m_stopped \in BOOLEAN
    BY Zenon
  <2>2. /\ m_elements \in [0 .. N - 1 -> Element \cup {None}]
        /\ m_front \in 0 .. N - 1 /\ m_back \in 0 .. N - 1 /\ m_used \in 0 .. N
        /\ m_e \in [Writer \cup Reader -> Element \cup {None}]
        /\ sent \in [Writer -> 0 .. MaxWrites]
    OBVIOUS
  <2>3. hand \in [Task -> Seq(Waiter)]
    OBVIOUS
  <2> QED BY <2>1, <2>2, <2>3 DEF TypeOK, PcValue
<1>2. WaitersMatchOccupancy
  BY Zenon DEF WaitersMatchOccupancy
<1>3. ContentsInOrder
  BY DEF ContentsInOrder, Slot
<1>4. OperationsCarryElements
  BY DEF OperationsCarryElements, Task
<1>5. ResumersHoldWaiters
  BY Zenon DEF ResumersHoldWaiters
<1> QED BY <1>1, <1>2, <1>3, <1>4, <1>5, Zenon DEF IInv

-----------------------------------------------------------------------------
(* One lemma per action that moves an element. *)

\* A write into a free slot with no reader waiting keeps the invariant.
LEMMA WriteStoreIInv ==
  ASSUME IInv, NEW w \in Writer, WriteStore(w)
  PROVE  IInv'
<1>e. m_e[w] \in Element
  BY Zenon DEF IInv, WriteStore, OperationsCarryElements
<1>f. Advance(m_front) \in 0 .. N - 1
  BY SlotProperties, Zenon DEF IInv, WriteStore, TypeOK
<1>a. /\ Len(accepted) \in Nat /\ Len(delivered) \in Nat
      /\ accepted' \in Seq(Element)
      /\ Len(accepted') = Len(accepted) + 1
      /\ accepted'[Len(accepted) + 1] = m_e[w]
      /\ \A i \in 1 .. Len(accepted) : accepted'[i] = accepted[i]
  BY <1>e, AppendGrows DEF IInv, WriteStore, TypeOK
<1>1. TypeOK'
  <2>1. op_stopped' \in [Task -> BOOLEAN] /\ m_stopped' \in BOOLEAN
    BY Zenon DEF IInv, WriteStore, TypeOK, waiters
  <2>2. m_elements' \in [0 .. N - 1 -> Element \cup {None}]
    BY <1>e, Zenon DEF IInv, WriteStore, TypeOK
  <2>3. m_front' \in 0 .. N - 1 /\ m_back' \in 0 .. N - 1 /\ m_used' \in 0 .. N
    BY <1>f DEF IInv, WriteStore, TypeOK
  <2> QED BY <2>1, <2>2, <2>3, <1>a, Zenon DEF IInv, WriteStore, TypeOK, waiters, Task, PcValue
<1>2. WaitersMatchOccupancy'
  BY Zenon DEF IInv, WriteStore, WaitersMatchOccupancy, TypeOK, waiters
<1>3. ContentsInOrder'
  <2>1. InOrder(m_elements, m_front, m_back, m_used, accepted, delivered)
    BY InOrderIsContents, Zenon DEF IInv
  <2>2. InOrder(m_elements', m_front', m_back', m_used', accepted', delivered')
    BY <2>1, <1>e, StoreKeepsOrder, Zenon DEF WriteStore
  <2> QED BY <2>2, Zenon DEF InOrder, ContentsInOrder
<1>4. OperationsCarryElements'
  BY Zenon DEF IInv, WriteStore, OperationsCarryElements, TypeOK, waiters, Task
<1>5. ResumersHoldWaiters'
  BY Zenon DEF IInv, WriteStore, ResumersHoldWaiters, TypeOK, Task
<1> QED BY <1>1, <1>2, <1>3, <1>4, <1>5, Zenon DEF IInv

\* A write that hands the oldest element to a suspended reader keeps it: the
\* buffer is empty, so the element stored is the one handed over.
LEMMA WriteHandOffIInv ==
  ASSUME IInv, NEW w \in Writer, WriteHandOff(w)
  PROVE  IInv'
<1> DEFINE r == Head(m_read_waiters)
           x == [m_elements EXCEPT ![m_front] = m_e[w]][m_back]
<1>e. m_e[w] \in Element
  BY Zenon DEF IInv, WriteHandOff, OperationsCarryElements
<1>r. /\ r \in Reader /\ r \notin Writer /\ r \in Task
      /\ m_read_waiters' \in Seq(Reader)
  BY PopProperties, RolesAssumption, SMTT(30) DEF IInv, WriteHandOff, TypeOK, Task
<1>u. m_used = 0 /\ m_used # N
  BY Zenon DEF IInv, WriteHandOff, WaitersMatchOccupancy
<1>3. /\ x \in Element
      /\ InOrder(m_elements', m_front', m_back', m_used', accepted', delivered')
  <2>1. InOrder(m_elements, m_front, m_back, m_used, accepted, delivered)
    BY InOrderIsContents, Zenon DEF IInv
  <2>2. InOrder(m_elements', m_front', m_back, m_used + 1, accepted', delivered)
    BY <2>1, <1>e, StoreKeepsOrder, Zenon DEF WriteHandOff
  <2>3. m_used + 1 # 0 /\ (m_used + 1) - 1 = m_used
    BY <1>u
  <2>4. /\ m_elements'[m_back] \in Element
        /\ InOrder(m_elements', m_front', Advance(m_back), (m_used + 1) - 1, accepted',
                   Append(delivered, m_elements'[m_back]))
    BY <2>2, <2>3, TakeKeepsOrder, Zenon
  <2> QED BY <2>3, <2>4, Zenon DEF WriteHandOff
<1> HIDE DEF r, x
<1>w. /\ w \in Task
      /\ m_e' = [m_e EXCEPT ![r] = x]
      /\ hand' = [hand EXCEPT ![w] = <<r>>]
      /\ pc' = [pc EXCEPT ![w] = "resuming"]
      /\ m_write_waiters' = m_write_waiters
  BY Zenon DEF WriteHandOff, r, x, Task
<1>1. TypeOK'
  <2>1. op_stopped' \in [Task -> BOOLEAN] /\ m_stopped' \in BOOLEAN
    BY Zenon DEF IInv, WriteHandOff, TypeOK
  <2>2. m_e' \in [Writer \cup Reader -> Element \cup {None}]
    BY <1>w, <1>3, <1>r, Zenon DEF IInv, TypeOK
  <2>3. hand' \in [Task -> Seq(Waiter)]
    BY <1>w, <1>r, SMTT(30) DEF IInv, TypeOK, Waiter
  <2>4. pc' \in [Task -> PcValue]
    BY <1>w, Zenon DEF IInv, TypeOK, PcValue
  <2>5. m_write_waiters' \in Seq(Writer) /\ m_completed_waiters' \in Seq(Completer)
        /\ phase' \in [Waker -> {"writers", "readers", "completed"}]
        /\ sent' \in [Writer -> 0 .. MaxWrites]
    BY Zenon DEF IInv, WriteHandOff, TypeOK
  <2> QED BY <2>1, <2>2, <2>3, <2>4, <2>5, <1>3, <1>r, Zenon DEF TypeOK, InOrder
<1>2. WaitersMatchOccupancy'
  BY <1>u, Zenon DEF IInv, WriteHandOff, WaitersMatchOccupancy
<1>4. OperationsCarryElements'
  <2>1. \A y \in Writer : m_e'[y] = m_e[y]
    BY <1>w, <1>r, Zenon DEF IInv, TypeOK
  <2>2. \A y \in Writer : pc'[y] = "checked" => pc[y] = "checked"
    BY <1>w, Zenon DEF IInv, TypeOK, Task
  <2>3. \A i \in 1 .. Len(m_write_waiters) : m_write_waiters[i] \in Writer
    BY DEF IInv, TypeOK
  <2> QED BY <1>w, <2>1, <2>2, <2>3, Zenon DEF IInv, OperationsCarryElements
<1>5. ResumersHoldWaiters'
  BY <1>w, Zenon DEF IInv, ResumersHoldWaiters, TypeOK
<1>6. ContentsInOrder'
  BY <1>3, Zenon DEF InOrder, ContentsInOrder
<1> QED BY <1>1, <1>2, <1>4, <1>5, <1>6, Zenon DEF IInv

\* A read with no writer suspended keeps it, also when it takes the list of
\* completed waiters.
LEMMA ReadTakeIInv ==
  ASSUME IInv, NEW r \in Reader, ReadTake(r)
  PROVE  IInv'
<1> DEFINE x == m_elements[m_back]
<1>r. r \notin Writer /\ r \in Task
  BY RolesAssumption, Zenon DEF Task
<1>u. m_used # 0 /\ m_used' = m_used - 1 /\ m_write_waiters = << >>
  BY Zenon DEF ReadTake, ReadBlocked, WriterWaits
<1>3. /\ x \in Element
      /\ InOrder(m_elements', m_front', m_back', m_used', accepted', delivered')
  <2>1. InOrder(m_elements, m_front, m_back, m_used, accepted, delivered)
    BY InOrderIsContents, Zenon DEF IInv
  <2>2. /\ x \in Element
        /\ InOrder(m_elements, m_front, Advance(m_back), m_used - 1, accepted,
                   Append(delivered, x))
    BY <2>1, <1>u, TakeKeepsOrder, Zenon
  <2> QED BY <2>2, Zenon DEF ReadTake, Freed
<1> HIDE DEF x
<1>w. m_e' = [m_e EXCEPT ![r] = x]
  BY Zenon DEF ReadTake, Freed, x
<1>h. /\ hand' \in [Task -> Seq(Waiter)]
      /\ pc' \in [Task -> PcValue]
      /\ m_completed_waiters' \in Seq(Completer)
      /\ ResumersHoldWaiters'
      /\ \A t \in Task : pc'[t] = "checked" => pc[t] = "checked"
  <2>0. m_completed_waiters \in Seq(Waiter)
    BY DEF IInv, TypeOK, Waiter
  <2>1. CASE m_used' = 0 /\ m_stopped /\ m_completed_waiters # << >>
    <3>1. /\ hand' = [hand EXCEPT ![r] = m_completed_waiters]
          /\ m_completed_waiters' = << >>
          /\ pc' = [pc EXCEPT ![r] = "resuming"]
      BY <2>1, Zenon DEF ReadTake
    <3> QED BY <2>0, <2>1, <3>1, <1>r DEF IInv, TypeOK, ResumersHoldWaiters, PcValue
  <2>2. CASE ~(m_used' = 0 /\ m_stopped /\ m_completed_waiters # << >>)
    <3>1. UNCHANGED <<hand, m_completed_waiters, pc>>
      BY <2>2, Zenon DEF ReadTake
    <3> QED BY <3>1, Zenon DEF IInv, TypeOK, ResumersHoldWaiters
  <2> QED BY <2>1, <2>2, Zenon
<1>1. TypeOK'
  <2>1. op_stopped' \in [Task -> BOOLEAN] /\ m_stopped' \in BOOLEAN
    BY Zenon DEF IInv, ReadTake, TypeOK
  <2>2. m_e' \in [Writer \cup Reader -> Element \cup {None}]
    BY <1>w, <1>3, <1>r, Zenon DEF IInv, TypeOK
  <2>5. m_write_waiters' \in Seq(Writer) /\ m_read_waiters' \in Seq(Reader)
        /\ phase' \in [Waker -> {"writers", "readers", "completed"}]
        /\ sent' \in [Writer -> 0 .. MaxWrites]
    BY Zenon DEF IInv, ReadTake, TypeOK
  <2> QED BY <2>1, <2>2, <2>5, <1>3, <1>h, Zenon DEF TypeOK, InOrder
<1>2. WaitersMatchOccupancy'
  BY <1>u, Zenon DEF IInv, ReadTake, WaitersMatchOccupancy
<1>4. OperationsCarryElements'
  <2>1. m_write_waiters' = << >>
    BY <1>u, Zenon DEF ReadTake
  <2> QED BY <2>1, <1>w, <1>r, <1>h DEF IInv, OperationsCarryElements, TypeOK, Task
<1>6. ContentsInOrder'
  BY <1>3, Zenon DEF InOrder, ContentsInOrder
<1> QED BY <1>1, <1>2, <1>4, <1>h, <1>6, Zenon DEF IInv

\* A read that refills the slot from a suspended writer keeps it: the buffer is
\* full, so taking comes before storing.
LEMMA ReadRefillIInv ==
  ASSUME IInv, NEW r \in Reader, ReadRefill(r)
  PROVE  IInv'
<1> DEFINE x == m_elements[m_back]
           w == Head(m_write_waiters)
<1>r. r \notin Writer /\ r \in Task
  BY RolesAssumption, Zenon DEF Task
<1>u. m_used = N /\ m_used # 0 /\ m_write_waiters # << >>
  BY Zenon DEF IInv, WaitersMatchOccupancy, ReadRefill, WriterWaits
<1>p. /\ w \in Writer
      /\ m_write_waiters' \in Seq(Writer)
      /\ Len(m_write_waiters) \in Nat \ {0}
      /\ Len(m_write_waiters') = Len(m_write_waiters) - 1
      /\ w = m_write_waiters[1]
      /\ \A i \in 1 .. Len(m_write_waiters) - 1 : m_write_waiters'[i] = m_write_waiters[i + 1]
  BY <1>u, PopProperties DEF IInv, TypeOK, ReadRefill
<1>e. m_e[w] \in Element
  BY <1>p DEF IInv, OperationsCarryElements
<1>3. /\ x \in Element
      /\ InOrder(m_elements', m_front', m_back', m_used', accepted', delivered')
  <2>1. InOrder(m_elements, m_front, m_back, m_used, accepted, delivered)
    BY InOrderIsContents, Zenon DEF IInv
  <2>2. /\ x \in Element
        /\ InOrder(m_elements, m_front, Advance(m_back), m_used - 1, accepted,
                   Append(delivered, x))
    BY <2>1, <1>u, TakeKeepsOrder, Zenon
  <2>3. m_used - 1 # N /\ (m_used - 1) + 1 = m_used
    BY <1>u
  <2>4. InOrder([m_elements EXCEPT ![m_front] = m_e[w]], Advance(m_front),
                Advance(m_back), m_used, Append(accepted, m_e[w]), Append(delivered, x))
    BY <2>2, <2>3, <1>e, StoreKeepsOrder, Zenon
  <2> QED BY <2>2, <2>4, Zenon DEF ReadRefill, Freed
<1> HIDE DEF x, w
<1>w. /\ m_e' = [m_e EXCEPT ![r] = x]
      /\ hand' = [hand EXCEPT ![r] = <<w>>]
      /\ pc' = [pc EXCEPT ![r] = "resuming"]
  BY Zenon DEF ReadRefill, Freed, x, w
<1>1. TypeOK'
  <2>1. op_stopped' \in [Task -> BOOLEAN] /\ m_stopped' \in BOOLEAN
    BY Zenon DEF IInv, ReadRefill, TypeOK
  <2>2. m_e' \in [Writer \cup Reader -> Element \cup {None}]
    BY <1>w, <1>3, <1>r, Zenon DEF IInv, TypeOK
  <2>3. hand' \in [Task -> Seq(Waiter)]
    <3>1. <<w>> \in Seq(Waiter)
      BY <1>p DEF Waiter
    <3> QED BY <1>w, <3>1, Zenon DEF IInv, TypeOK
  <2>4. pc' \in [Task -> PcValue]
    BY <1>w, Zenon DEF IInv, TypeOK, PcValue
  <2>5. m_read_waiters' \in Seq(Reader) /\ m_completed_waiters' \in Seq(Completer)
        /\ phase' \in [Waker -> {"writers", "readers", "completed"}]
        /\ sent' \in [Writer -> 0 .. MaxWrites]
    BY Zenon DEF IInv, ReadRefill, TypeOK
  <2> QED BY <2>1, <2>2, <2>3, <2>4, <2>5, <1>3, <1>p, Zenon DEF TypeOK, InOrder
<1>2. WaitersMatchOccupancy'
  BY <1>u, Zenon DEF IInv, ReadRefill, WaitersMatchOccupancy
<1>4. OperationsCarryElements'
  <2>1. \A v \in Writer : m_e'[v] = m_e[v]
    BY <1>w, <1>r, Zenon DEF IInv, TypeOK
  <2>2. \A v \in Writer : pc'[v] = "checked" => m_e'[v] \in Element
    BY <2>1, <1>w, <1>r, Zenon DEF IInv, OperationsCarryElements, TypeOK, Task
  <2>3. ASSUME NEW i \in 1 .. Len(m_write_waiters')
        PROVE  m_e'[m_write_waiters'[i]] \in Element
    <3>1. i + 1 \in 1 .. Len(m_write_waiters) /\ m_write_waiters'[i] = m_write_waiters[i + 1]
      BY <1>p
    <3>2. m_write_waiters[i + 1] \in Writer
      BY <3>1 DEF IInv, TypeOK
    <3> QED BY <3>1, <3>2, <2>1, Zenon DEF IInv, OperationsCarryElements
  <2> QED BY <2>2, <2>3, Zenon DEF OperationsCarryElements
<1>5. ResumersHoldWaiters'
  BY <1>w, Zenon DEF IInv, ResumersHoldWaiters, TypeOK
<1>6. ContentsInOrder'
  BY <1>3, Zenon DEF InOrder, ContentsInOrder
<1> QED BY <1>1, <1>2, <1>4, <1>5, <1>6, Zenon DEF IInv

-----------------------------------------------------------------------------
(* The actions that move no element. *)

\* An action that leaves the slots and the history alone keeps the contents.
LEMMA BufferUnchanged ==
  ASSUME IInv, UNCHANGED <<buffer, history>>
  PROVE  /\ ContentsInOrder'
         /\ m_elements' \in [0 .. N - 1 -> Element \cup {None}]
         /\ m_front' \in 0 .. N - 1 /\ m_back' \in 0 .. N - 1 /\ m_used' \in 0 .. N
         /\ accepted' \in Seq(Element) /\ delivered' \in Seq(Element)
<1>1. UNCHANGED <<m_elements, m_front, m_back, m_used, accepted, delivered>>
  BY Zenon DEF buffer, history
<1> QED BY <1>1, Zenon DEF IInv, TypeOK, ContentsInOrder

\* The m_stopped test of a write keeps the invariant.
LEMMA WriteBeginIInv ==
  ASSUME IInv, NEW w \in Writer, WriteBegin(w)
  PROVE  IInv'
<1>e. <<w, sent[w] + 1>> \in Element /\ sent[w] + 1 \in 0 .. MaxWrites
  BY DEF IInv, TypeOK, WriteBegin, Element
<1>w. /\ w \in Task
      /\ m_e' = [m_e EXCEPT ![w] = <<w, sent[w] + 1>>]
      /\ pc' = [pc EXCEPT ![w] = IF m_stopped THEN "stopped" ELSE "checked"]
      /\ m_write_waiters' = m_write_waiters /\ hand' = hand
      /\ m_used' = m_used /\ m_read_waiters' = m_read_waiters
      /\ m_completed_waiters' = m_completed_waiters
  BY Zenon DEF WriteBegin, waiters, buffer, Task
<1>b. UNCHANGED <<buffer, history>>
  BY Zenon DEF WriteBegin
<1>1. TypeOK'
  <2>1. m_stopped \in BOOLEAN /\ op_stopped \in [Task -> BOOLEAN]
    BY Zenon DEF IInv, TypeOK
  <2>2. op_stopped' \in [Task -> BOOLEAN] /\ m_stopped' \in BOOLEAN
    BY <2>1, Zenon DEF WriteBegin
  <2>3. m_e' \in [Writer \cup Reader -> Element \cup {None}]
    BY <1>e, <1>w, Zenon DEF IInv, TypeOK
  <2>4. pc' \in [Task -> PcValue]
    BY <1>w, Zenon DEF IInv, TypeOK, PcValue
  <2>5. sent' \in [Writer -> 0 .. MaxWrites]
    BY <1>e, Zenon DEF IInv, TypeOK, WriteBegin
  <2> QED BY <2>2, <2>3, <2>4, <2>5, <1>b, <1>w, BufferUnchanged, Zenon
             DEF IInv, TypeOK, WriteBegin
<1>2. WaitersMatchOccupancy'
  BY <1>w, Zenon DEF IInv, WaitersMatchOccupancy
<1>4. OperationsCarryElements'
  <2>1. \A v \in Writer : m_e[v] \in Element => m_e'[v] \in Element
    BY <1>w, <1>e, Zenon DEF IInv, TypeOK
  <2>2. \A v \in Writer : pc'[v] = "checked" => m_e'[v] \in Element
    BY <2>1, <1>w, <1>e, Zenon DEF IInv, OperationsCarryElements, TypeOK, Task
  <2>3. \A i \in 1 .. Len(m_write_waiters) : m_write_waiters[i] \in Writer
    BY DEF IInv, TypeOK
  <2> QED BY <2>1, <2>2, <2>3, <1>w, Zenon DEF IInv, OperationsCarryElements
<1>5. ResumersHoldWaiters'
  BY <1>w, Zenon DEF IInv, ResumersHoldWaiters, TypeOK
<1> QED BY <1>1, <1>2, <1>4, <1>5, <1>b, BufferUnchanged, Zenon DEF IInv

\* A write that suspends on a full buffer keeps it.
LEMMA WriteSuspendIInv ==
  ASSUME IInv, NEW w \in Writer, WriteSuspend(w)
  PROVE  IInv'
<1>w. /\ w \in Task
      /\ pc' = [pc EXCEPT ![w] = "suspended"]
      /\ m_write_waiters' = <<w>> \o m_write_waiters
      /\ m_used = N /\ m_used' = m_used
      /\ m_e' = m_e /\ hand' = hand
  BY Zenon DEF WriteSuspend, buffer, Task
<1>p. /\ m_write_waiters' \in Seq(Writer)
      /\ Len(m_write_waiters) \in Nat
      /\ Len(m_write_waiters') = Len(m_write_waiters) + 1
      /\ m_write_waiters'[1] = w
      /\ \A i \in 2 .. Len(m_write_waiters) + 1 : m_write_waiters'[i] = m_write_waiters[i - 1]
  BY <1>w, PushProperties, SMTT(30) DEF IInv, TypeOK
<1>b. UNCHANGED <<buffer, history>>
  BY DEF WriteSuspend
<1>1. TypeOK'
  <2>2. op_stopped' \in [Task -> BOOLEAN] /\ m_stopped' \in BOOLEAN
    BY Zenon DEF IInv, TypeOK, WriteSuspend
  <2>4. pc' \in [Task -> PcValue]
    BY <1>w, Zenon DEF IInv, TypeOK, PcValue
  <2> QED BY <2>2, <2>4, <1>b, <1>p, BufferUnchanged, Zenon DEF IInv, TypeOK, WriteSuspend
<1>2. WaitersMatchOccupancy'
  BY <1>w, Zenon DEF IInv, WaitersMatchOccupancy, WriteSuspend
<1>4. OperationsCarryElements'
  <2>1. m_e[w] \in Element
    BY Zenon DEF IInv, OperationsCarryElements, WriteSuspend
  <2>2. \A v \in Writer : pc'[v] = "checked" => m_e'[v] \in Element
    BY <1>w, Zenon DEF IInv, OperationsCarryElements, TypeOK, Task
  <2>3. ASSUME NEW i \in 1 .. Len(m_write_waiters')
        PROVE  m_e'[m_write_waiters'[i]] \in Element
    <3>1. CASE i = 1
      BY <3>1, <2>1, <1>p, <1>w, Zenon
    <3>2. CASE i # 1
      <4>1. i - 1 \in 1 .. Len(m_write_waiters) /\ m_write_waiters'[i] = m_write_waiters[i - 1]
        BY <3>2, <1>p
      <4> QED BY <4>1, <1>w, Zenon DEF IInv, OperationsCarryElements
    <3> QED BY <3>1, <3>2, Zenon
  <2> QED BY <2>2, <2>3, Zenon DEF OperationsCarryElements
<1>5. ResumersHoldWaiters'
  BY <1>w, Zenon DEF IInv, ResumersHoldWaiters, TypeOK
<1> QED BY <1>1, <1>2, <1>4, <1>5, <1>b, BufferUnchanged, Zenon DEF IInv

\* A read that suspends on an empty buffer, or sees that it is stopped, keeps it.
LEMMA ReadEmptyIInv ==
  ASSUME IInv, NEW r \in Reader, ReadEmpty(r)
  PROVE  IInv'
<1>r. r \notin Writer /\ r \in Task
  BY RolesAssumption, Zenon DEF Task
<1>w. /\ m_used = 0 /\ m_used' = m_used
      /\ m_e' = [m_e EXCEPT ![r] = None]
      /\ m_write_waiters' = m_write_waiters /\ hand' = hand
  BY Zenon DEF ReadEmpty, ReadBlocked, buffer
<1>b. UNCHANGED <<buffer, history>>
  BY Zenon DEF ReadEmpty
<1>c. /\ m_read_waiters' \in Seq(Reader)
      /\ \E q \in {"stopped", "suspended"} : pc' = [pc EXCEPT ![r] = q]
  <2>1. CASE ReadSeesStop
    BY <2>1, Zenon DEF ReadEmpty, IInv, TypeOK
  <2>2. CASE ~ReadSeesStop
    <3>1. m_read_waiters' = <<r>> \o m_read_waiters /\ pc' = [pc EXCEPT ![r] = "suspended"]
      BY <2>2, Zenon DEF ReadEmpty
    <3> QED BY <3>1, PushProperties, Zenon DEF IInv, TypeOK
  <2> QED BY <2>1, <2>2, Zenon
<1>1. TypeOK'
  <2>1. op_stopped' \in [Task -> BOOLEAN] /\ m_stopped' \in BOOLEAN
    BY Zenon DEF IInv, TypeOK, ReadEmpty
  <2>2. m_e' \in [Writer \cup Reader -> Element \cup {None}]
    BY <1>w, Zenon DEF IInv, TypeOK
  <2>3. pc' \in [Task -> PcValue]
    BY <1>c, Zenon DEF IInv, TypeOK, PcValue
  <2> QED BY <2>1, <2>2, <2>3, <1>b, <1>c, <1>w, BufferUnchanged, Zenon
             DEF IInv, TypeOK, ReadEmpty
<1>2. WaitersMatchOccupancy'
  BY <1>w, Zenon DEF IInv, WaitersMatchOccupancy
<1>4. OperationsCarryElements'
  <2>1. \A v \in Writer : m_e'[v] = m_e[v] /\ pc'[v] = pc[v]
    BY <1>w, <1>c, <1>r, Zenon DEF IInv, TypeOK, Task
  <2>2. \A i \in 1 .. Len(m_write_waiters) : m_write_waiters[i] \in Writer
    BY DEF IInv, TypeOK
  <2> QED BY <2>1, <2>2, <1>w, Zenon DEF IInv, OperationsCarryElements
<1>5. ResumersHoldWaiters'
  BY <1>w, <1>c, Zenon DEF IInv, ResumersHoldWaiters, TypeOK
<1> QED BY <1>1, <1>2, <1>4, <1>5, <1>b, BufferUnchanged, Zenon DEF IInv

\* completed() keeps it.
LEMMA CompletedIInv ==
  ASSUME IInv, NEW c \in Completer, Completed(c)
  PROVE  IInv'
<1>w. /\ c \in Task /\ c \notin Writer
      /\ UNCHANGED <<m_used, m_e, hand, m_write_waiters, m_read_waiters>>
      /\ \E q \in {"stopped", "suspended"} : pc' = [pc EXCEPT ![c] = q]
  BY RolesAssumption, Zenon DEF Completed, buffer, Task
<1>b. UNCHANGED <<buffer, history>>
  BY Zenon DEF Completed
<1>c. m_completed_waiters' \in Seq(Completer)
  <2>1. \/ m_completed_waiters' = m_completed_waiters
        \/ m_completed_waiters' = <<c>> \o m_completed_waiters
    BY Zenon DEF Completed
  <2>2. m_completed_waiters \in Seq(Completer)
    BY Zenon DEF IInv, TypeOK
  <2>3. <<c>> \o m_completed_waiters \in Seq(Completer)
    BY <2>2, PushProperties, Zenon
  <2> QED BY <2>1, <2>2, <2>3, Zenon
<1>1. TypeOK'
  <2>1. op_stopped' \in [Task -> BOOLEAN] /\ m_stopped' \in BOOLEAN
    BY Zenon DEF IInv, TypeOK, Completed
  <2>2. pc' \in [Task -> PcValue]
    BY <1>w, Zenon DEF IInv, TypeOK, PcValue
  <2> QED BY <2>1, <2>2, <1>b, <1>c, BufferUnchanged, Zenon DEF IInv, TypeOK, Completed
<1>2. WaitersMatchOccupancy'
  BY <1>w, Zenon DEF IInv, WaitersMatchOccupancy
<1>4. OperationsCarryElements'
  <2>1. \A v \in Writer : pc'[v] = pc[v]
    BY <1>w, Zenon DEF IInv, TypeOK, Task
  <2> QED BY <2>1, <1>w, Zenon DEF IInv, OperationsCarryElements
<1>5. ResumersHoldWaiters'
  BY <1>w, Zenon DEF IInv, ResumersHoldWaiters, TypeOK
<1> QED BY <1>1, <1>2, <1>4, <1>5, <1>b, BufferUnchanged, Zenon DEF IInv

\* A step that leaves the buffer and the operations' elements alone and no
\* waiter list longer: what is left to show is the types of pc, hand, phase and
\* op_stopped, and that a resuming task has a waiter in hand.
LEMMA ListsOnly ==
  ASSUME IInv, UNCHANGED <<buffer, m_e, sent, history>>,
         \/ m_write_waiters' = m_write_waiters
         \/ m_write_waiters # << >> /\ m_write_waiters' = Tail(m_write_waiters),
         \/ m_read_waiters' = m_read_waiters
         \/ m_read_waiters # << >> /\ m_read_waiters' = Tail(m_read_waiters),
         \/ m_completed_waiters' = m_completed_waiters
         \/ m_completed_waiters # << >> /\ m_completed_waiters' = Tail(m_completed_waiters),
         m_stopped' \in BOOLEAN, op_stopped' \in [Task -> BOOLEAN],
         pc' \in [Task -> PcValue], hand' \in [Task -> Seq(Waiter)],
         phase' \in [Waker -> {"writers", "readers", "completed"}],
         \A v \in Writer : pc'[v] = "checked" => pc[v] = "checked",
         ResumersHoldWaiters'
  PROVE  IInv'
<1>b. UNCHANGED <<buffer, history>>
  OBVIOUS
<1>u. m_used' = m_used
  BY Zenon DEF buffer
<1>p. /\ m_write_waiters' \in Seq(Writer)
      /\ m_write_waiters = << >> => m_write_waiters' = << >>
      /\ \A i \in 1 .. Len(m_write_waiters') :
           \E j \in 1 .. Len(m_write_waiters) : m_write_waiters'[i] = m_write_waiters[j]
  <2>1. CASE m_write_waiters' = m_write_waiters
    BY <2>1, Zenon DEF IInv, TypeOK
  <2>2. CASE m_write_waiters # << >> /\ m_write_waiters' = Tail(m_write_waiters)
    <3>1. /\ m_write_waiters' \in Seq(Writer)
          /\ Len(m_write_waiters) \in Nat \ {0}
          /\ Len(m_write_waiters') = Len(m_write_waiters) - 1
          /\ \A i \in 1 .. Len(m_write_waiters) - 1 : m_write_waiters'[i] = m_write_waiters[i + 1]
      BY <2>2, PopProperties DEF IInv, TypeOK
    <3>2. \A i \in 1 .. Len(m_write_waiters') : i + 1 \in 1 .. Len(m_write_waiters)
      BY <3>1
    <3> QED BY <2>2, <3>1, <3>2, Zenon
  <2> QED BY <2>1, <2>2, Zenon
<1>q. /\ m_read_waiters' \in Seq(Reader)
      /\ m_read_waiters = << >> => m_read_waiters' = << >>
      /\ m_completed_waiters' \in Seq(Completer)
  <2>1. m_read_waiters \in Seq(Reader) /\ m_completed_waiters \in Seq(Completer)
    BY Zenon DEF IInv, TypeOK
  <2>2. m_read_waiters # << >> => Tail(m_read_waiters) \in Seq(Reader)
    BY <2>1, PopProperties, Zenon
  <2>3. m_completed_waiters # << >> => Tail(m_completed_waiters) \in Seq(Completer)
    BY <2>1, PopProperties, Zenon
  <2> QED BY <2>1, <2>2, <2>3, Zenon
<1>1. TypeOK'
  BY <1>b, <1>p, <1>q, BufferUnchanged, Zenon DEF IInv, TypeOK
<1>2. WaitersMatchOccupancy'
  BY <1>p, <1>q, <1>u, Zenon DEF IInv, WaitersMatchOccupancy
<1>4. OperationsCarryElements'
  <2>1. m_e' = m_e
    BY Zenon
  <2> QED BY <2>1, <1>p, SMTT(30) DEF IInv, OperationsCarryElements
<1> QED BY <1>1, <1>2, <1>4, <1>b, BufferUnchanged, Zenon DEF IInv

\* Resuming a waiter that was taken off a list keeps it.
LEMMA ResumeIInv ==
  ASSUME IInv, NEW t \in Task, Resume(t)
  PROVE  IInv'
<1> DEFINE x == Head(hand[t])
<1>x. hand[t] \in Seq(Waiter) /\ hand[t] # << >> /\ x \in Waiter
  BY PopProperties, Zenon DEF IInv, TypeOK, ResumersHoldWaiters, Resume
<1> HIDE DEF x
<1>w. /\ \E q \in {"relock", "chain", "idle"} :
           /\ pc' = [pc EXCEPT ![x] = "ready", ![t] = q]
           /\ \/ hand' = hand
              \/ q # "chain" /\ hand' = [hand EXCEPT ![t] = << >>]
      /\ UNCHANGED <<waiters, m_stopped, op_stopped, phase>>
      /\ UNCHANGED <<buffer, m_e, sent, history>>
  BY Zenon DEF Resume, x
<1>1. pc' \in [Task -> PcValue] /\ \A v \in Task : pc'[v] = "checked" => pc[v] = "checked"
  BY <1>w, <1>x, ZenonT(30) DEF IInv, TypeOK, PcValue, Task, Waiter
<1>2. hand' \in [Task -> Seq(Waiter)]
  <2>1. << >> \in Seq(Waiter)
    OBVIOUS
  <2> QED BY <1>w, <2>1, Zenon DEF IInv, TypeOK
<1>3. ResumersHoldWaiters'
  BY <1>w, <1>x, Zenon DEF IInv, TypeOK, ResumersHoldWaiters, Task, Waiter
<1>4. m_stopped' \in BOOLEAN /\ op_stopped' \in [Task -> BOOLEAN]
  BY <1>w, Zenon DEF IInv, TypeOK
<1>5. phase' \in [Waker -> {"writers", "readers", "completed"}]
  BY <1>w, Zenon DEF IInv, TypeOK
<1>6. \A v \in Writer : pc'[v] = "checked" => pc[v] = "checked"
  BY <1>1, Zenon DEF Task
<1>7. UNCHANGED <<m_write_waiters, m_read_waiters, m_completed_waiters>>
  BY <1>w, Zenon DEF waiters
<1> QED BY <1>w, <1>1, <1>2, <1>3, <1>4, <1>5, <1>6, <1>7, ListsOnly, Zenon

\* The walk along the completed waiters keeps it, whatever the link reads as.
LEMMA ChainNextIInv ==
  ASSUME IInv, NEW t \in Reader, ChainNext(t)
  PROVE  IInv'
<1>x. t \in Task /\ hand[t] \in Seq(Waiter) /\ hand[t] # << >>
  BY DEF IInv, TypeOK, ResumersHoldWaiters, ChainNext, Task
<1>y. Tail(hand[t]) \in Seq(Waiter) /\ << >> \in Seq(Waiter)
  BY <1>x, PopProperties
<1>w. /\ \E rest \in Seq(Waiter) :
           /\ hand' = [hand EXCEPT ![t] = rest]
           /\ pc' = [pc EXCEPT ![t] = IF rest = << >> THEN "idle" ELSE "resuming"]
      /\ UNCHANGED <<waiters, m_stopped, op_stopped, phase>>
      /\ UNCHANGED <<buffer, m_e, sent, history>>
  BY <1>y, Zenon DEF ChainNext
<1>1. pc' \in [Task -> PcValue] /\ \A v \in Task : pc'[v] = "checked" => pc[v] = "checked"
  BY <1>w, <1>x DEF IInv, TypeOK, PcValue
<1>2. hand' \in [Task -> Seq(Waiter)]
  BY <1>w, Zenon DEF IInv, TypeOK
<1>3. ResumersHoldWaiters'
  BY <1>w, <1>x DEF IInv, TypeOK, ResumersHoldWaiters
<1>4. m_stopped' \in BOOLEAN /\ op_stopped' \in [Task -> BOOLEAN]
  BY <1>w, Zenon DEF IInv, TypeOK
<1>5. phase' \in [Waker -> {"writers", "readers", "completed"}]
  BY <1>w, Zenon DEF IInv, TypeOK
<1>6. \A v \in Writer : pc'[v] = "checked" => pc[v] = "checked"
  BY <1>1, Zenon DEF Task
<1>7. UNCHANGED <<m_write_waiters, m_read_waiters, m_completed_waiters>>
  BY <1>w, Zenon DEF waiters
<1> QED BY <1>w, <1>1, <1>2, <1>3, <1>4, <1>5, <1>6, <1>7, ListsOnly, SMTT(30)

\* AwaitResume and WakeCheck move one task.
LEMMA PcOnlyIInv ==
  ASSUME IInv, NEW t \in Task, NEW q \in {"stopped", "idle", "checked"},
         pc' = [pc EXCEPT ![t] = q], q = "checked" => t \notin Writer,
         UNCHANGED <<buffer, waiters, m_stopped, m_e, op_stopped, hand, phase, sent, history>>
  PROVE  IInv'
<1>1. pc' \in [Task -> PcValue]
  BY Zenon DEF IInv, TypeOK, PcValue
<1>2. \A v \in Writer : pc'[v] = "checked" => pc[v] = "checked"
  BY Zenon DEF IInv, TypeOK, Task
<1>3. ResumersHoldWaiters'
  BY DEF IInv, TypeOK, ResumersHoldWaiters
<1>4. m_stopped' \in BOOLEAN /\ op_stopped' \in [Task -> BOOLEAN]
  BY Zenon DEF IInv, TypeOK
<1>5. hand' \in [Task -> Seq(Waiter)] /\ phase' \in [Waker -> {"writers", "readers", "completed"}]
  BY Zenon DEF IInv, TypeOK
<1>6. UNCHANGED <<m_write_waiters, m_read_waiters, m_completed_waiters>>
  BY Zenon DEF waiters
<1> QED BY <1>1, <1>2, <1>3, <1>4, <1>5, <1>6, ListsOnly, Zenon

\* The end of an operation keeps it.
LEMMA AwaitResumeIInv ==
  ASSUME IInv, NEW t \in Task, AwaitResume(t)
  PROVE  IInv'
BY PcOnlyIInv, Zenon DEF AwaitResume

\* The m_stopped test of close() and notify_waiters() keeps it.
LEMMA WakeCheckIInv ==
  ASSUME IInv, NEW k \in Waker, WakeCheck(k)
  PROVE  IInv'
<1>1. k \in Task /\ k \notin Writer
  BY RolesAssumption, Zenon DEF Task, Waker
<1> QED BY <1>1, PcOnlyIInv, Zenon DEF WakeCheck

\* What one round of the loops of close() and notify_waiters() does: the list
\* that is popped and the waiter taken, or nothing left to do.
LEMMA WakeNextCases ==
  ASSUME TypeOK, NEW k \in Waker, NEW p, WakeNext(k, p)
  PROVE  /\ \/ m_write_waiters' = m_write_waiters
            \/ m_write_waiters # << >> /\ m_write_waiters' = Tail(m_write_waiters)
         /\ \/ m_read_waiters' = m_read_waiters
            \/ m_read_waiters # << >> /\ m_read_waiters' = Tail(m_read_waiters)
         /\ \/ m_completed_waiters' = m_completed_waiters
            \/ m_completed_waiters # << >> /\ m_completed_waiters' = Tail(m_completed_waiters)
         /\ \/ \E x \in Waiter, q \in {"writers", "readers", "completed"} : TakeWaiter(k, x, q)
            \/ pc' = [pc EXCEPT ![k] = "stopped"] /\ UNCHANGED <<op_stopped, hand, phase>>
<1>1. /\ m_write_waiters # << >> => Head(m_write_waiters) \in Waiter
      /\ m_read_waiters # << >> => Head(m_read_waiters) \in Waiter
      /\ m_completed_waiters # << >> => Head(m_completed_waiters) \in Waiter
  BY PopProperties, Zenon DEF TypeOK, Waiter
<1> QED BY <1>1, Zenon DEF WakeNext, waiters

\* Taking the next waiter off the lists under the mutex keeps it.
LEMMA WakeNextIInv ==
  ASSUME IInv, NEW k \in Waker, NEW p, WakeNext(k, p), m_stopped' \in BOOLEAN,
         UNCHANGED <<buffer, m_e, sent, history>>
  PROVE  IInv'
<1>k. k \in Task /\ k \notin Writer
  BY RolesAssumption, Zenon DEF Task, Waker
<1>1. CASE \E x \in Waiter, q \in {"writers", "readers", "completed"} : TakeWaiter(k, x, q)
  <2> PICK x \in Waiter, q \in {"writers", "readers", "completed"} : TakeWaiter(k, x, q)
    BY <1>1, Zenon
  <2>1. op_stopped' \in [Task -> BOOLEAN]
    BY Zenon DEF IInv, TypeOK, TakeWaiter
  <2>2. pc' \in [Task -> PcValue] /\ \A v \in Writer : pc'[v] = "checked" => pc[v] = "checked"
    BY <1>k DEF IInv, TypeOK, TakeWaiter, PcValue, Task
  <2>3. <<x>> \in Seq(Waiter) /\ <<x>> # << >>
    OBVIOUS
  <2>4. hand' \in [Task -> Seq(Waiter)]
    BY <2>3, Zenon DEF IInv, TypeOK, TakeWaiter
  <2>5. phase' \in [Waker -> {"writers", "readers", "completed"}]
    BY Zenon DEF IInv, TypeOK, TakeWaiter
  <2>6. ResumersHoldWaiters'
    BY <2>3, Zenon DEF IInv, TypeOK, TakeWaiter, ResumersHoldWaiters
  <2> QED BY <2>1, <2>2, <2>4, <2>5, <2>6, WakeNextCases, ListsOnly, Zenon DEF IInv
<1>2. CASE pc' = [pc EXCEPT ![k] = "stopped"] /\ UNCHANGED <<op_stopped, hand, phase>>
  <2>1. op_stopped' \in [Task -> BOOLEAN]
    BY <1>2, Zenon DEF IInv, TypeOK
  <2>2. pc' \in [Task -> PcValue] /\ \A v \in Writer : pc'[v] = "checked" => pc[v] = "checked"
    BY <1>2, <1>k, Zenon DEF IInv, TypeOK, PcValue, Task
  <2>3. /\ hand' \in [Task -> Seq(Waiter)]
        /\ phase' \in [Waker -> {"writers", "readers", "completed"}]
    BY <1>2, Zenon DEF IInv, TypeOK
  <2>4. ResumersHoldWaiters'
    BY <1>2, Zenon DEF IInv, TypeOK, ResumersHoldWaiters
  <2> QED BY <2>1, <2>2, <2>3, <2>4, WakeNextCases, ListsOnly, Zenon DEF IInv
<1> QED BY <1>1, <1>2, WakeNextCases, Zenon DEF IInv

\* close() keeps it, on an empty buffer and on one that still holds elements.
LEMMA CloseLockIInv ==
  ASSUME IInv, NEW k \in Closer, CloseLock(k)
  PROVE  IInv'
<1>k. k \in Waker /\ k \in Task /\ k \notin Writer
  BY RolesAssumption, Zenon DEF Task, Waker
<1>s. m_stopped' \in BOOLEAN /\ UNCHANGED <<buffer, m_e, sent, history>>
  BY DEF CloseLock
<1>1. CASE m_used = 0
  BY <1>1, <1>k, <1>s, WakeNextIInv, Zenon DEF CloseLock
<1>2. CASE m_used # 0
  <2>0. pc' = [pc EXCEPT ![k] = "stopped"] /\ UNCHANGED <<waiters, op_stopped, hand, phase>>
    BY <1>2, Zenon DEF CloseLock
  <2>1. op_stopped' \in [Task -> BOOLEAN]
    BY <2>0, Zenon DEF IInv, TypeOK
  <2>2. pc' \in [Task -> PcValue] /\ \A v \in Writer : pc'[v] = "checked" => pc[v] = "checked"
    BY <2>0, <1>k, Zenon DEF IInv, TypeOK, PcValue, Task
  <2>3. /\ hand' \in [Task -> Seq(Waiter)]
        /\ phase' \in [Waker -> {"writers", "readers", "completed"}]
    BY <2>0, Zenon DEF IInv, TypeOK
  <2>4. ResumersHoldWaiters'
    BY <2>0, Zenon DEF IInv, TypeOK, ResumersHoldWaiters
  <2>5. UNCHANGED <<m_write_waiters, m_read_waiters, m_completed_waiters>>
    BY <2>0, Zenon DEF waiters
  <2> QED BY <2>1, <2>2, <2>3, <2>4, <2>5, <1>s, ListsOnly, Zenon
<1> QED BY <1>1, <1>2, Zenon

-----------------------------------------------------------------------------
LEMMA NextIInv ==
  ASSUME IInv, [Next]_vars
  PROVE  IInv'
<1>1. ASSUME NEW w \in Writer, WriteStep(w) PROVE IInv'
  BY <1>1, WriteBeginIInv, WriteSuspendIInv, WriteStoreIInv, WriteHandOffIInv, Zenon DEF WriteStep
<1>2. ASSUME NEW r \in Reader, ReadStep(r) PROVE IInv'
  BY <1>2, ReadTakeIInv, ReadRefillIInv, ReadEmptyIInv, Zenon DEF ReadStep
<1>3. ASSUME NEW c \in Completer, Completed(c) PROVE IInv'
  BY <1>3, CompletedIInv, Zenon
<1>4. ASSUME NEW t \in Task, Resume(t) \/ AwaitResume(t) PROVE IInv'
  BY <1>4, ResumeIInv, AwaitResumeIInv, Zenon
<1>5. ASSUME NEW r \in Reader, ChainNext(r) PROVE IInv'
  BY <1>5, ChainNextIInv, Zenon
<1>6. ASSUME NEW k \in Waker, WakeCheck(k) PROVE IInv'
  BY <1>6, WakeCheckIInv, Zenon
<1>7. ASSUME NEW k \in Waker, WakeMore(k) PROVE IInv'
  BY <1>7, WakeNextIInv, Zenon DEF WakeMore, IInv, TypeOK
<1>8. ASSUME NEW k \in Closer, CloseLock(k) PROVE IInv'
  BY <1>8, CloseLockIInv, Zenon
<1>9. ASSUME NEW k \in Notifier, NotifyLock(k) PROVE IInv'
  BY <1>9, WakeNextIInv, Zenon DEF NotifyLock, Waker
<1>10. CASE UNCHANGED vars
  <2>1. UNCHANGED <<m_elements, m_front, m_back, m_used, accepted, delivered, m_write_waiters,
                    m_read_waiters, m_completed_waiters, m_stopped, pc, m_e, op_stopped, hand,
                    phase, sent>>
    BY <1>10, Zenon DEF vars, buffer, waiters, history
  <2>2. op_stopped' \in [Task -> BOOLEAN] /\ m_stopped' \in BOOLEAN
    BY <2>1, Zenon DEF IInv, TypeOK
  <2>3. TypeOK'
    BY <2>1, <2>2, Zenon DEF IInv, TypeOK
  <2> QED BY <2>1, <2>3, Zenon DEF IInv, WaitersMatchOccupancy, ContentsInOrder,
                            OperationsCarryElements, ResumersHoldWaiters
<1> QED BY <1>1, <1>2, <1>3, <1>4, <1>5, <1>6, <1>7, <1>8, <1>9, <1>10, Zenon DEF Next

\* The inductive invariant holds in every behaviour of the buffer.
THEOREM Invariance == Spec => []IInv
BY InitIInv, NextIInv, PTL DEF Spec

\* The indices of the ring buffer stay in range and every operation is typed.
THEOREM TypeCorrect == Spec => []TypeOK
BY Invariance, PTL DEF IInv

\* No writer is suspended unless the buffer is full and no reader unless it is
\* empty: the CHECK of close() and the DCHECK of try_write_locked never fail.
THEOREM WaiterListsCorrect == Spec => []WaitersMatchOccupancy
BY Invariance, PTL DEF IInv

\* read() and write() deliver every element once and in the order of acceptance.
THEOREM Fifo == Spec => []ContentsInOrder
BY Invariance, PTL DEF IInv

-----------------------------------------------------------------------------
(* No reader is left behind by close() or notify_waiters(). *)

\* k is a closing thread that has not left the list of readers.
Walking(k) == pc[k] \in {"resuming", "relock"} /\ phase[k] # "completed"

\* A step that adds no reader to the list, moves no closing thread from its walk
\* and stops nothing keeps every suspended reader in some thread's care.
LEMMA KeepsWalking ==
  ASSUME StoppedReadersReleased, m_read_waiters = << >> => m_read_waiters' = << >>,
         m_stopped' = m_stopped, \A k \in Waker : Walking(k) => Walking(k)'
  PROVE  StoppedReadersReleased'
BY Zenon DEF StoppedReadersReleased, Walking

\* Every step keeps the readers of a stopped buffer within reach of a closing thread.
LEMMA NextReleases ==
  ASSUME IInv, StoppedReadersReleased, [Next]_vars
  PROVE  StoppedReadersReleased'
<1>d. /\ \A k \in Waker : k \in Task /\ k \notin Waiter
      /\ \A w \in Writer : w \notin Waker /\ w \in Task
      /\ \A r \in Reader : r \notin Waker /\ r \in Task
      /\ \A c \in Completer : c \notin Waker /\ c \in Task
  BY RolesAssumption, Zenon DEF Waker, Task, Waiter
<1>t. pc \in [Task -> PcValue] /\ phase \in [Waker -> {"writers", "readers", "completed"}]
  BY Zenon DEF IInv, TypeOK
<1>1. ASSUME NEW w \in Writer, WriteStep(w) PROVE StoppedReadersReleased'
  <2>1. \A k \in Waker : pc'[k] = pc[k] /\ phase'[k] = phase[k]
    BY <1>1, <1>d, <1>t, SMTT(30) DEF WriteStep, WriteBegin, WriteSuspend, WriteStore, WriteHandOff
  <2>2. m_stopped' = m_stopped /\ (m_read_waiters = << >> => m_read_waiters' = << >>)
    BY <1>1, Zenon DEF WriteStep, WriteBegin, WriteSuspend, WriteStore, WriteHandOff, waiters
  <2> QED BY <2>1, <2>2, KeepsWalking, Zenon DEF Walking
<1>2. ASSUME NEW r \in Reader, ReadTake(r) \/ ReadRefill(r) \/ ChainNext(r)
      PROVE  StoppedReadersReleased'
  <2>1. \A k \in Waker : pc'[k] = pc[k] /\ phase'[k] = phase[k]
    BY <1>2, <1>d, <1>t, SMTT(30) DEF ReadTake, ReadRefill, ChainNext
  <2>2. m_stopped' = m_stopped /\ m_read_waiters' = m_read_waiters
    BY <1>2, Zenon DEF ReadTake, ReadRefill, ChainNext, waiters
  <2> QED BY <2>1, <2>2, KeepsWalking, Zenon DEF Walking
<1>3. ASSUME NEW r \in Reader, ReadEmpty(r) PROVE StoppedReadersReleased'
  <2>1. \A k \in Waker : pc'[k] = pc[k] /\ phase'[k] = phase[k]
    BY <1>3, <1>d, <1>t DEF ReadEmpty
  <2>2. m_stopped' = m_stopped
    BY <1>3, Zenon DEF ReadEmpty
  <2>3. CASE m_stopped
    <3>1. m_read_waiters' = m_read_waiters
      BY <1>3, <2>3 DEF ReadEmpty, ReadSeesStop
    <3> QED BY <2>1, <2>2, <3>1, KeepsWalking, Zenon DEF Walking
  <2>4. CASE ~m_stopped
    BY <2>2, <2>4, Zenon DEF StoppedReadersReleased
  <2> QED BY <2>3, <2>4, Zenon
<1>4. ASSUME NEW c \in Completer, Completed(c) PROVE StoppedReadersReleased'
  <2>1. \A k \in Waker : pc'[k] = pc[k] /\ phase'[k] = phase[k]
    BY <1>4, <1>d, <1>t DEF Completed
  <2>2. m_stopped' = m_stopped /\ m_read_waiters' = m_read_waiters
    BY <1>4, Zenon DEF Completed
  <2> QED BY <2>1, <2>2, KeepsWalking, Zenon DEF Walking
<1>5. ASSUME NEW t \in Task, Resume(t) PROVE StoppedReadersReleased'
  <2>1. Head(hand[t]) \in Waiter
    BY <1>5, PopProperties, Zenon DEF Resume, IInv, TypeOK, ResumersHoldWaiters
  <2>2. \A k \in Waker : Walking(k) => pc'[k] \in {"resuming", "relock"}
    BY <1>5, <2>1, <1>d, <1>t DEF Resume, Walking
  <2>3. UNCHANGED <<m_stopped, m_read_waiters, phase>>
    BY <1>5, Zenon DEF Resume, waiters
  <2> QED BY <2>2, <2>3, KeepsWalking, Zenon DEF Walking
<1>6. ASSUME NEW t \in Task, AwaitResume(t) PROVE StoppedReadersReleased'
  <2>1. \A k \in Waker : Walking(k) => pc'[k] = pc[k]
    BY <1>6, <1>d, <1>t, Zenon DEF AwaitResume, Walking
  <2>2. UNCHANGED <<m_stopped, m_read_waiters, phase>>
    BY <1>6, Zenon DEF AwaitResume, waiters
  <2> QED BY <2>1, <2>2, KeepsWalking, Zenon DEF Walking
<1>7. ASSUME NEW k \in Waker, WakeCheck(k) PROVE StoppedReadersReleased'
  <2>1. \A j \in Waker : Walking(j) => pc'[j] = pc[j]
    BY <1>7, <1>d, <1>t, Zenon DEF WakeCheck, Walking
  <2>2. UNCHANGED <<m_stopped, m_read_waiters, phase>>
    BY <1>7, Zenon DEF WakeCheck, waiters
  <2> QED BY <2>1, <2>2, KeepsWalking, SMTT(30) DEF Walking
<1>8. ASSUME NEW k \in Waker, NEW p, WakeNext(k, p), p # "completed"
      PROVE  StoppedReadersReleased'
  <2>1. CASE m_read_waiters = << >>
    <3>1. m_read_waiters' = << >>
      BY <1>8, <2>1, WakeNextCases, Zenon DEF IInv
    <3> QED BY <3>1, Zenon DEF StoppedReadersReleased
  <2>2. CASE m_read_waiters # << >>
    <3>1. \E x, q : TakeWaiter(k, x, q) /\ q # "completed"
      BY <1>8, <2>2 DEF WakeNext
    <3>2. pc'[k] = "resuming" /\ phase'[k] # "completed"
      BY <3>1, <1>d, <1>t, Zenon DEF TakeWaiter
    <3> QED BY <3>2, Zenon DEF StoppedReadersReleased
  <2> QED BY <2>1, <2>2, Zenon
<1>9. ASSUME NEW k \in Waker, WakeMore(k), phase[k] = "completed" PROVE StoppedReadersReleased'
  <2>1. WakeNext(k, "completed") /\ m_stopped' = m_stopped
    BY <1>9, Zenon DEF WakeMore
  <2>2. m_read_waiters' = m_read_waiters
    BY <2>1, Zenon DEF WakeNext, waiters
  <2>3. \A j \in Waker : j # k => pc'[j] = pc[j] /\ phase'[j] = phase[j]
    BY <2>1, <1>d, <1>t, WakeNextCases DEF IInv, TakeWaiter
  <2> QED BY <1>9, <2>1, <2>2, <2>3, KeepsWalking, Zenon DEF Walking
<1>10. ASSUME NEW k \in Closer, CloseLock(k) PROVE StoppedReadersReleased'
  <2>1. CASE m_used = 0
    BY <1>10, <2>1, <1>8, Zenon DEF CloseLock, Waker
  <2>2. CASE m_used # 0
    <3>1. m_read_waiters' = << >>
      BY <1>10, <2>2, Zenon DEF CloseLock, IInv, WaitersMatchOccupancy, waiters
    <3> QED BY <3>1, Zenon DEF StoppedReadersReleased
  <2> QED BY <2>1, <2>2, Zenon
<1>11. CASE UNCHANGED vars
  BY <1>11, Zenon DEF vars, waiters, StoppedReadersReleased
<1> QED
  BY <1>1, <1>2, <1>3, <1>4, <1>5, <1>6, <1>7, <1>8, <1>9, <1>10, <1>11, Zenon
     DEF Next, ReadStep, WakeMore, NotifyLock, Waker

\* A read that races close() or notify_waiters() is never left on the list of a
\* stopped buffer without a closing thread that will still reach it.
THEOREM ReadersReleased == Spec => []StoppedReadersReleased
<1>1. Init => StoppedReadersReleased
  BY Zenon DEF Init, StoppedReadersReleased
<1> QED BY <1>1, NextReleases, Invariance, PTL DEF Spec

-----------------------------------------------------------------------------
(* The ring buffer implements the bounded FIFO channel. *)

\* A closing thread that is waking waiters has stopped the buffer.
WalkersStopped == \A k \in Waker : pc[k] \in {"resuming", "relock"} => m_stopped = TRUE

\* Every step keeps this: a thread walks the waiter lists of a stopped buffer only.
LEMMA NextWalkersStopped ==
  ASSUME IInv, WalkersStopped, [Next]_vars
  PROVE  WalkersStopped'
<1>d. /\ \A k \in Waker : k \in Task /\ k \notin Waiter
      /\ \A w \in Writer \cup Reader \cup Completer : w \notin Waker /\ w \in Task
  BY RolesAssumption, Zenon DEF Waker, Task, Waiter
<1>t. pc \in [Task -> PcValue]
  BY Zenon DEF IInv, TypeOK
<1>1. ASSUME m_stopped' = m_stopped,
             \A k \in Waker : pc'[k] \in {"resuming", "relock"} => pc[k] \in {"resuming", "relock"}
      PROVE  WalkersStopped'
  BY <1>1, Zenon DEF WalkersStopped
<1>2. ASSUME NEW w \in Writer, WriteStep(w) PROVE WalkersStopped'
  <2>1. \A k \in Waker : pc'[k] = pc[k]
    BY <1>2, <1>d, <1>t, SMTT(30) DEF WriteStep, WriteBegin, WriteSuspend, WriteStore, WriteHandOff
  <2> QED BY <1>1, <1>2, <2>1, Zenon
             DEF WriteStep, WriteBegin, WriteSuspend, WriteStore, WriteHandOff
<1>3. ASSUME NEW r \in Reader, ReadStep(r) \/ ChainNext(r) PROVE WalkersStopped'
  <2>1. \A k \in Waker : pc'[k] = pc[k]
    BY <1>3, <1>d, <1>t DEF ReadStep, ReadTake, ReadRefill, ReadEmpty, ChainNext
  <2> QED BY <1>1, <1>3, <2>1, Zenon DEF ReadStep, ReadTake, ReadRefill, ReadEmpty, ChainNext
<1>4. ASSUME NEW c \in Completer, Completed(c) PROVE WalkersStopped'
  <2>1. \A k \in Waker : pc'[k] = pc[k]
    BY <1>4, <1>d, <1>t, Zenon DEF Completed
  <2> QED BY <1>1, <1>4, <2>1, Zenon DEF Completed
<1>5. ASSUME NEW t \in Task, Resume(t) PROVE WalkersStopped'
  <2>1. Head(hand[t]) \in Waiter
    BY <1>5, PopProperties, Zenon DEF Resume, IInv, TypeOK, ResumersHoldWaiters
  <2>2. \A k \in Waker : pc'[k] \in {"resuming", "relock"} => pc[k] \in {"resuming", "relock"}
    BY <1>5, <2>1, <1>d, <1>t, Zenon DEF Resume
  <2> QED BY <1>1, <1>5, <2>2, Zenon DEF Resume
<1>6. ASSUME NEW t \in Task, AwaitResume(t) \/ WakeCheck(t) PROVE WalkersStopped'
  BY <1>1, <1>6, <1>d, <1>t, Zenon DEF AwaitResume, WakeCheck
<1>7. ASSUME NEW k \in Waker, WakeMore(k) PROVE WalkersStopped'
  <2>1. \A j \in Waker : j # k => pc'[j] = pc[j]
    BY <1>7, <1>d, <1>t, WakeNextCases DEF WakeMore, IInv, TakeWaiter
  <2> QED BY <1>7, <2>1 DEF WakeMore, WalkersStopped
<1>8. ASSUME m_stopped' = TRUE PROVE WalkersStopped'
  BY <1>8, Zenon DEF WalkersStopped
<1>9. CASE UNCHANGED vars
  BY <1>9, Zenon DEF vars, WalkersStopped
<1> QED BY <1>2, <1>3, <1>4, <1>5, <1>6, <1>7, <1>8, <1>9, <1>d, Zenon
        DEF Next, CloseLock, NotifyLock

\* What marking the operation of a waiter as stopped is to the channel.
LEMMA TakeWaiterRefines ==
  ASSUME IInv, NEW k \in Waker, NEW p, WakeNext(k, p), m_stopped' = TRUE,
         UNCHANGED <<buffer, history>>
  PROVE  Channel!ChannelNext
<1> DEFINE ended == {r \in Reader : op_stopped[r]}
<1>h. accepted' = accepted /\ delivered' = delivered
  BY Zenon DEF history
<1>0. op_stopped \in [Task -> BOOLEAN]
  BY Zenon DEF IInv, TypeOK
<1>r. /\ \A w \in Writer \cup Completer : w \notin Reader
      /\ \A w \in Writer \cup Completer \cup Reader : w \in Task
  BY RolesAssumption, Zenon DEF Task
<1>1. ASSUME NEW R \in SUBSET Reader, R # {} => m_used = 0, ended' = ended \cup R
      PROVE  Channel!ChannelNext
  <2>1. R # {} => Channel!Backlog = 0
    BY <1>1, SMTT(30) DEF Channel!Backlog, IInv, ContentsInOrder, TypeOK
  <2>2. Channel!Stop(R)
    BY <2>1, <1>1, <1>h, Zenon DEF Channel!Stop
  <2> QED BY <2>2, ZenonT(30) DEF Channel!ChannelNext
<1>2. CASE op_stopped' = op_stopped
  <2>1. ended' = ended \cup {}
    BY <1>2, Zenon
  <2>2. {} \in SUBSET Reader
    BY Zenon
  <2> HIDE DEF ended
  <2> QED BY <2>1, <2>2, <1>1, Zenon
<1>3. ASSUME NEW x \in Writer \cup Completer, op_stopped' = [op_stopped EXCEPT ![x] = TRUE]
      PROVE  Channel!ChannelNext
  <2>1. \A r \in Reader : op_stopped'[r] = op_stopped[r]
    BY <1>3, <1>r, <1>0, Zenon
  <2>2. ended' = ended \cup {}
    BY <2>1, Zenon
  <2>3. {} \in SUBSET Reader
    BY Zenon
  <2> HIDE DEF ended
  <2> QED BY <2>2, <2>3, <1>1, Zenon
<1>4. ASSUME m_read_waiters # << >>,
             op_stopped' = [op_stopped EXCEPT ![Head(m_read_waiters)] = TRUE]
      PROVE  Channel!ChannelNext
  <2>1. Head(m_read_waiters) \in Reader
    BY <1>4, PopProperties, Zenon DEF IInv, TypeOK
  <2>2. \A r \in Reader : op_stopped'[r] <=> (op_stopped[r] \/ r = Head(m_read_waiters))
    BY <2>1, <1>4, <1>r, <1>0, Zenon
  <2>3. ended' = ended \cup {Head(m_read_waiters)}
    BY <2>1, <2>2, Zenon
  <2>4. m_used = 0
    BY <1>4, Zenon DEF IInv, WaitersMatchOccupancy
  <2> QED BY <1>1, <2>1, <2>3, <2>4, Zenon
<1>5. /\ m_write_waiters # << >> => Head(m_write_waiters) \in Writer
      /\ m_completed_waiters # << >> => Head(m_completed_waiters) \in Completer
  BY PopProperties, Zenon DEF IInv, TypeOK
<1> QED BY <1>2, <1>3, <1>4, <1>5, Zenon DEF WakeNext, TakeWaiter

\* Every step of the buffer is a step of the channel or changes nothing of it.
LEMMA StepRefines ==
  ASSUME IInv, WalkersStopped, [Next]_vars
  PROVE  [Channel!ChannelNext]_(Channel!avars)
<1> DEFINE ended == {r \in Reader : op_stopped[r]}
<1>0. op_stopped \in [Task -> BOOLEAN]
  BY Zenon DEF IInv, TypeOK
<1>r. \A w \in Writer : w \notin Reader /\ w \in Task
  BY RolesAssumption, Zenon DEF Task
<1>b. Channel!Backlog = m_used
  BY DEF Channel!Backlog, IInv, ContentsInOrder, TypeOK
<1>i. InOrder(m_elements, m_front, m_back, m_used, accepted, delivered)
  BY InOrderIsContents, Zenon DEF IInv
<1>1. ASSUME UNCHANGED <<accepted, delivered, m_stopped, op_stopped>>
      PROVE  UNCHANGED Channel!avars
  BY <1>1, Zenon DEF Channel!avars
<1>2. ASSUME NEW w \in Writer, WriteBegin(w) PROVE UNCHANGED Channel!avars
  <2>1. \A r \in Reader : op_stopped'[r] = op_stopped[r]
    BY <1>2, <1>r, <1>0 DEF WriteBegin
  <2>2. ended' = ended
    BY <2>1, Zenon
  <2> QED BY <1>2, <2>2, Zenon DEF WriteBegin, history, Channel!avars
<1>3. ASSUME NEW w \in Writer, WriteSuspend(w) PROVE UNCHANGED Channel!avars
  BY <1>1, <1>3, Zenon DEF WriteSuspend, history
<1>4. ASSUME NEW w \in Writer, WriteStore(w) PROVE Channel!ChannelNext
  <2>1. m_e[w] \in Element /\ m_used < N
    BY <1>4, SMTT(30) DEF WriteStore, IInv, OperationsCarryElements, TypeOK
  <2>2. Channel!Accept(m_e[w])
    BY <1>4, <2>1, <1>b, Zenon DEF WriteStore, Channel!Accept
  <2> QED BY <2>1, <2>2, Zenon DEF Channel!ChannelNext
<1>5. ASSUME NEW w \in Writer, WriteHandOff(w) PROVE Channel!ChannelNext
  <2>1. m_e[w] \in Element /\ m_used # N /\ m_used = 0
    BY <1>5, Zenon DEF WriteHandOff, IInv, OperationsCarryElements, WaitersMatchOccupancy
  <2>2. InOrder(m_elements', m_front', m_back, m_used + 1, accepted', delivered)
    BY <1>i, <2>1, StoreKeepsOrder, <1>5, Zenon DEF WriteHandOff
  <2>3. m_used + 1 # 0
    BY <2>1
  <2>4. OldestAtBack(m_elements', m_back, accepted', delivered)
    BY <2>2, <2>3, OldestIsNext, Zenon
  <2>5. Channel!Exchange(m_e[w])
    BY <1>5, <2>4, Zenon DEF WriteHandOff, OldestAtBack, Channel!Exchange
  <2> QED BY <2>1, <2>5, Zenon DEF Channel!ChannelNext
<1>6. ASSUME NEW r \in Reader, ReadTake(r) PROVE Channel!ChannelNext
  <2>1. m_used # 0 /\ m_used > 0
    BY <1>6 DEF ReadTake, ReadBlocked, IInv, TypeOK
  <2>2. OldestAtBack(m_elements, m_back, accepted, delivered)
    BY <2>1, <1>i, OldestIsNext, Zenon
  <2>3. Channel!Deliver
    BY <1>6, <2>1, <2>2, <1>b, Zenon DEF ReadTake, Freed, OldestAtBack, Channel!Deliver
  <2> QED BY <2>3, Zenon DEF Channel!ChannelNext
<1>7. ASSUME NEW r \in Reader, ReadRefill(r) PROVE Channel!ChannelNext
  <2> DEFINE e == m_e[Head(m_write_waiters)]
  <2>1. m_used # 0 /\ Len(m_write_waiters) \in Nat \ {0}
        /\ Head(m_write_waiters) = m_write_waiters[1]
    BY <1>7, PopProperties DEF ReadRefill, ReadBlocked, WriterWaits, IInv, TypeOK
  <2>2. e \in Element
    BY <2>1 DEF IInv, OperationsCarryElements
  <2>3. OldestAtBack(m_elements, m_back, accepted, delivered)
    BY <2>1, <1>i, OldestIsNext, Zenon
  <2>4. Len(delivered) + 1 \in 1 .. Len(accepted) /\ accepted \in Seq(Element)
    <3>1. /\ accepted \in Seq(Element) /\ delivered \in Seq(Element) /\ m_used \in 0 .. N
          /\ Len(accepted) = Len(delivered) + m_used
      BY Zenon DEF IInv, ContentsInOrder, TypeOK
    <3>2. Len(accepted) \in Nat /\ Len(delivered) \in Nat
      BY <3>1
    <3> QED BY <2>1, <3>1, <3>2
  <2> HIDE DEF e
  <2>5. Append(accepted, e)[Len(delivered) + 1] = accepted[Len(delivered) + 1]
    BY <2>2, <2>4, AppendKeeps, Zenon
  <2>6. accepted' = Append(accepted, e) /\ delivered' = Append(delivered, m_elements[m_back])
    BY <1>7, Zenon DEF ReadRefill, Freed, e
  <2>7. Channel!Exchange(e)
    BY <1>7, <2>3, <2>5, <2>6, Zenon DEF ReadRefill, OldestAtBack, Channel!Exchange
  <2> QED BY <2>2, <2>7, Zenon DEF Channel!ChannelNext
<1>8. ASSUME NEW r \in Reader, ReadEmpty(r) PROVE [Channel!ChannelNext]_(Channel!avars)
  <2>1. UNCHANGED <<accepted, delivered, m_stopped>> /\ m_used = 0
    BY <1>8 DEF ReadEmpty, ReadBlocked, history
  <2>2. CASE m_stopped
    <3>1. op_stopped' = [op_stopped EXCEPT ![r] = TRUE]
      BY <1>8, <2>2, Zenon DEF ReadEmpty, ReadSeesStop
    <3>2. \A q \in Reader : op_stopped'[q] <=> (op_stopped[q] \/ q = r)
      <4>1. Reader \subseteq Task
        BY Zenon DEF Task
      <4> QED BY <3>1, <4>1, <1>0, Zenon
    <3>3. ended' = ended \cup {r}
      BY <3>2
    <3>4. Channel!EndRead(r)
      BY <2>1, <2>2, <3>3, <1>b, Zenon DEF Channel!EndRead
    <3> QED BY <3>4, Zenon DEF Channel!ChannelNext
  <2>3. CASE ~m_stopped
    BY <1>1, <1>8, <2>1, <2>3, Zenon DEF ReadEmpty, ReadSeesStop
  <2> QED BY <2>2, <2>3, Zenon
<1>9. ASSUME NEW c \in Completer, Completed(c) PROVE UNCHANGED Channel!avars
  BY <1>1, <1>9, SMTT(30) DEF Completed, history
<1>10. ASSUME NEW t \in Task, Resume(t) \/ AwaitResume(t) \/ ChainNext(t) \/ WakeCheck(t)
       PROVE  UNCHANGED Channel!avars
  BY <1>1, <1>10, Zenon DEF Resume, AwaitResume, ChainNext, WakeCheck, history
<1>11. ASSUME NEW k \in Waker, WakeMore(k) PROVE Channel!ChannelNext
  <2>1. m_stopped' = TRUE
    BY <1>11, Zenon DEF WakeMore, WalkersStopped
  <2> QED BY <2>1, <1>11, TakeWaiterRefines, Zenon DEF WakeMore
<1>12. ASSUME NEW k \in Notifier, NotifyLock(k) PROVE Channel!ChannelNext
  BY <1>12, TakeWaiterRefines, Zenon DEF NotifyLock, Waker
<1>13. ASSUME NEW k \in Closer, CloseLock(k) PROVE Channel!ChannelNext
  <2>1. CASE m_used = 0
    BY <1>13, <2>1, TakeWaiterRefines, Zenon DEF CloseLock, Waker
  <2>2. CASE m_used # 0
    <3>1. UNCHANGED <<accepted, delivered, op_stopped>> /\ m_stopped' = TRUE
      BY <1>13, <2>2, Zenon DEF CloseLock, history
    <3>2. Channel!Stop({})
      BY <3>1, Zenon DEF Channel!Stop
    <3>3. {} \in SUBSET Reader
      BY Zenon
    <3> QED BY <3>2, <3>3, Zenon DEF Channel!ChannelNext
  <2> QED BY <2>1, <2>2, Zenon
<1>14. CASE UNCHANGED vars
  BY <1>1, <1>14, Zenon DEF vars, history
<1>15. Reader \subseteq Task /\ Waker \subseteq Task
  BY Zenon DEF Task, Waker
<1> QED BY <1>2, <1>3, <1>4, <1>5, <1>6, <1>7, <1>8, <1>9, <1>10, <1>11, <1>12, <1>13,
           <1>14, <1>15, SMTT(30) DEF Next, WriteStep, ReadStep

\* write(), read(), close() and notify_waiters() implement a bounded FIFO channel
\* that reports Stopped to a reader only when everything accepted was delivered.
THEOREM Refinement == Spec => ImplementsChannel
<1>1. Init => Channel!ChannelInit
  <2>1. ASSUME Init PROVE {r \in Reader : op_stopped[r]} = {}
    BY <2>1, Zenon DEF Init, Task
  <2> QED BY <2>1, Zenon DEF Init, Channel!ChannelInit
<1>2. Init => WalkersStopped
  BY DEF Init, WalkersStopped, Waker, Task
<1>3. Spec => []WalkersStopped
  BY <1>2, NextWalkersStopped, Invariance, PTL DEF Spec
<1> QED BY <1>1, <1>3, StepRefines, Invariance, PTL DEF Spec, ImplementsChannel, Channel!ChannelSpec

-----------------------------------------------------------------------------
(* What an operation reports is what happened to its element.              *)

Reporter == Writer \cup Reader

InSeq(s, x) == \E k \in DOMAIN s : s[k] = x
Once(s) == \A k, n \in DOMAIN s : s[k] = s[n] => k = n

\* The operation is told that the buffer is stopped.
Told(x) == op_stopped[x]

\* It is on a waiter list; the task t took it off one and is about to resume it.
Listed(x) == InSeq(m_write_waiters, x) \/ InSeq(m_read_waiters, x)
Holds(t, x) == pc[t] = "resuming" /\ hand[t] = <<x>>

\* An operation waits in one place, and while it does its task is suspended.
WaitsAt(x) ==
  /\ Listed(x) => pc[x] = "suspended" /\ ~Told(x)
  /\ \A t \in Task : Holds(t, x) => pc[x] = "suspended" /\ ~Listed(x)
  /\ \A t, u \in Task : Holds(t, x) /\ Holds(u, x) => t = u

HandAt(t) ==
  /\ pc[t] = "resuming" => \/ hand[t] \in Seq(Completer) /\ t \notin Writer
                           \/ \E x \in Reporter : hand[t] = <<x>>
  /\ pc[t] = "chain" => hand[t] \in Seq(Completer)

\* What a write has come to.
WriteFate(w) ==
  /\ sent[w] > 0 => m_e[w] = <<w, sent[w]>>
  /\ pc[w] = "checked" \/ Listed(w) \/ Told(w) => sent[w] > 0 /\ ~InSeq(accepted, m_e[w])
  /\ pc[w] \in {"idle", "checked", "resuming"} => ~Told(w)
  /\ pc[w] = "resuming" \/ (pc[w] = "idle" /\ sent[w] > 0) => InSeq(accepted, m_e[w])
  /\ pc[w] = "ready" \/ (\E t \in Task : Holds(t, w)) => Told(w) \/ InSeq(accepted, m_e[w])
  /\ pc[w] \notin {"chain", "relock"}

\* ... and a read.
ReadFate(r) ==
  /\ pc[r] \in {"idle", "resuming", "chain"} => ~Told(r)
  /\ Listed(r) \/ Told(r) => m_e[r] = None
  /\ pc[r] # "relock"

\* The accepted elements are of writes begun.
Begun == \A k \in DOMAIN accepted : accepted[k][2] <= sent[accepted[k][1]]

Waits == /\ Once(m_write_waiters) /\ Once(m_read_waiters)
         /\ \A x \in Reporter : WaitsAt(x)
         /\ \A t \in Task : HandAt(t)
Fates == (\A w \in Writer : WriteFate(w)) /\ (\A r \in Reader : ReadFate(r)) /\ Begun
Outcomes == Waits /\ Fates

\* An operation pushed on a waiter list, ...
LEMMA PushIs ==
  ASSUME NEW S, NEW s \in Seq(S), NEW y \in S
  PROVE  /\ \A x : InSeq(<<y>> \o s, x) <=> (InSeq(s, x) \/ x = y)
         /\ Once(s) /\ ~InSeq(s, y) => Once(<<y>> \o s)
<1>1. /\ DOMAIN (<<y>> \o s) = 1 .. Len(s) + 1 /\ DOMAIN s = 1 .. Len(s) /\ Len(s) \in Nat
      /\ (<<y>> \o s)[1] = y
      /\ \A i \in 2 .. Len(s) + 1 : (<<y>> \o s)[i] = s[i - 1]
  BY PushProperties
<1> DEFINE z == <<y>> \o s
<1> HIDE DEF z
<1>2. \A i \in DOMAIN s : i + 1 \in DOMAIN z /\ z[i + 1] = s[i]
  BY <1>1 DEF z
<1>3. \A i \in DOMAIN z : i = 1 \/ (i - 1 \in DOMAIN s /\ z[i] = s[i - 1])
  BY <1>1 DEF z
<1>4. 1 \in DOMAIN z /\ z[1] = y /\ DOMAIN z \subseteq Nat
  BY <1>1 DEF z
<1>5. \A x : InSeq(z, x) <=> (InSeq(s, x) \/ x = y)
  BY <1>2, <1>3, <1>4 DEF InSeq
<1>6. Once(s) /\ ~InSeq(s, y) => Once(z)
  BY <1>3, <1>4 DEF InSeq, Once
<1> QED BY <1>5, <1>6, Zenon DEF z

\* ... and the one at its head taken off.
LEMMA PopIs ==
  ASSUME NEW S, NEW s \in Seq(S), s # << >>, Once(s)
  PROVE  /\ \A x : InSeq(Tail(s), x) <=> (InSeq(s, x) /\ x # Head(s))
         /\ Once(Tail(s)) /\ InSeq(s, Head(s))
<1>1. /\ DOMAIN s = 1 .. Len(s) /\ Len(s) \in Nat \ {0} /\ Head(s) = s[1]
      /\ DOMAIN Tail(s) = 1 .. Len(s) - 1
      /\ \A i \in 1 .. Len(s) - 1 : Tail(s)[i] = s[i + 1]
  BY PopProperties
<1> DEFINE z == Tail(s)
<1> HIDE DEF z
<1>2. \A i \in DOMAIN z : i + 1 \in DOMAIN s /\ z[i] = s[i + 1] /\ i + 1 # 1 /\ i \in Nat
  BY <1>1 DEF z
<1>3. \A i \in DOMAIN s : i = 1 \/ (i - 1 \in DOMAIN z /\ z[i - 1] = s[i])
  BY <1>1 DEF z
<1>4. 1 \in DOMAIN s /\ s[1] = Head(s)
  BY <1>1
<1>5. \A x : InSeq(z, x) <=> (InSeq(s, x) /\ x # Head(s))
  BY <1>2, <1>3, <1>4 DEF InSeq, Once
<1>6. Once(z)
  BY <1>2 DEF Once
<1> QED BY <1>4, <1>5, <1>6, Zenon DEF z, InSeq

\* An element accepted.
LEMMA AcceptIs ==
  ASSUME NEW s \in Seq(Element), NEW e
  PROVE  \A x : InSeq(Append(s, e), x) <=> (InSeq(s, x) \/ x = e)
<1>1. /\ DOMAIN Append(s, e) = 1 .. Len(s) + 1 /\ DOMAIN s = 1 .. Len(s) /\ Len(s) \in Nat
      /\ Append(s, e)[Len(s) + 1] = e
      /\ \A i \in 1 .. Len(s) : Append(s, e)[i] = s[i]
  OBVIOUS
<1> QED BY <1>1 DEF InSeq

\* Who is who.
LEMMA Roles ==
  /\ \A w \in Writer : w \in Task /\ w \in Reporter /\ w \notin Reader /\ w \notin Completer
                       /\ w \notin Waker
  /\ \A r \in Reader : r \in Task /\ r \in Reporter /\ r \notin Writer /\ r \notin Completer
                       /\ r \notin Waker
  /\ \A c \in Completer : c \in Task /\ c \notin Reporter /\ c \notin Waker
  /\ \A k \in Waker : k \in Task /\ k \notin Reporter /\ k \notin Completer
  BY RolesAssumption, Zenon DEF Task, Reporter, Waker

\* What of an operation a step leaves alone.
Same(x) ==
  /\ pc'[x] = pc[x] /\ m_e'[x] = m_e[x]
  /\ Told(x)' <=> Told(x)
  /\ Listed(x)' <=> Listed(x)
  /\ \A t \in Task : Holds(t, x)' => Holds(t, x)

\* An operation left alone waits where it did.
LEMMA WaitsAtKept ==
  ASSUME NEW x, WaitsAt(x), Same(x)
  PROVE  WaitsAt(x)'
  BY Zenon DEF WaitsAt, Same

\* A read left alone comes to what it did.
LEMMA ReadFateKept ==
  ASSUME NEW r, ReadFate(r), Same(r)
  PROVE  ReadFate(r)'
  BY Zenon DEF ReadFate, Same

\* A write left alone: others' elements do not count as its own.
LEMMA WriteFateKept ==
  ASSUME NEW w \in Writer, WriteFate(w), Same(w), sent'[w] = sent[w],
         \/ accepted' = accepted
         \/ accepted \in Seq(Element) /\ \E e \in Element : e[1] # w /\ accepted' = Append(accepted, e)
  PROVE  WriteFate(w)'
<1>1. /\ InSeq(accepted, m_e[w]) => InSeq(accepted', m_e[w])
      /\ sent[w] > 0 /\ InSeq(accepted', m_e[w]) => InSeq(accepted, m_e[w])
  <2>1. CASE accepted' = accepted
    BY <2>1, Zenon
  <2>2. CASE accepted \in Seq(Element)
             /\ \E e \in Element : e[1] # w /\ accepted' = Append(accepted, e)
    <3> PICK e \in Element : e[1] # w /\ accepted' = Append(accepted, e)
      BY <2>2, Zenon
    <3>1. sent[w] > 0 => m_e[w] # e
      BY DEF WriteFate
    <3> QED BY <2>2, <3>1, AcceptIs, Zenon
  <2> QED BY <2>1, <2>2, Zenon
<1> QED BY <1>1, Zenon DEF WriteFate, Same

\* Only u changes what it holds, and the reporter it takes, if any, is y.
LEMMA OneMover ==
  ASSUME Waits, NEW u \in Task, NEW y,
         \A t \in Task : t # u => /\ hand'[t] = hand[t]
                                  /\ pc'[t] \in {"resuming", "chain"} => pc'[t] = pc[t],
         pc'[u] = "resuming" => \/ hand'[u] \in Seq(Completer) /\ u \notin Writer
                                \/ y \in Reporter /\ hand'[u] = <<y>>,
         pc'[u] = "chain" => hand'[u] \in Seq(Completer)
  PROVE  /\ \A t \in Task : HandAt(t)'
         /\ \A x \in Reporter : x # y => \A t \in Task : Holds(t, x)' => Holds(t, x)
         /\ \A x \in Reporter : \A t \in Task : t # u /\ Holds(t, x)' => Holds(t, x)
<1>1. \A t \in Task : HandAt(t)'
  BY Zenon DEF Waits, HandAt
<1>2. \A x \in Reporter : <<x>> \notin Seq(Completer)
  <2> SUFFICES ASSUME NEW x \in Reporter, <<x>> \in Seq(Completer) PROVE FALSE
    BY Zenon
  <2>1. <<x>>[1] \in Completer
    OBVIOUS
  <2> QED BY <2>1, Roles, Zenon
<1>3. \A x \in Reporter : \A t \in Task : t # u /\ Holds(t, x)' => Holds(t, x)
  BY Zenon DEF Holds
<1>4. \A x \in Reporter : x # y => ~Holds(u, x)'
  <2> SUFFICES ASSUME NEW x \in Reporter, x # y, Holds(u, x)' PROVE FALSE
    BY Zenon
  <2>1. hand'[u] = <<x>> /\ hand'[u] = <<y>>
    BY <1>2 DEF Holds
  <2> QED BY <2>1
<1> QED BY <1>1, <1>3, <1>4, Zenon

\* ... and when it moves none, no write or read comes into a hand.
LEMMA NoMover ==
  ASSUME Waits, NEW u \in Task,
         \A t \in Task : t # u => /\ hand'[t] = hand[t]
                                  /\ pc'[t] \in {"resuming", "chain"} => pc'[t] = pc[t],
         pc'[u] = "resuming" => hand'[u] \in Seq(Completer) /\ u \notin Writer,
         pc'[u] = "chain" => hand'[u] \in Seq(Completer)
  PROVE  /\ \A t \in Task : HandAt(t)'
         /\ \A x \in Reporter : \A t \in Task : Holds(t, x)' => Holds(t, x)
<1>1. ASSUME NEW y
      PROVE  /\ \A t \in Task : HandAt(t)'
             /\ \A x \in Reporter : x # y => \A t \in Task : Holds(t, x)' => Holds(t, x)
  BY OneMover, Zenon
<1>2. \A x \in Reporter : x # 0 \/ x # 1
  OBVIOUS
<1> QED BY <1>1, <1>2, Zenon

\* The types a step of an operation looks at.
LEMMA OperationTypes ==
  ASSUME IInv
  PROVE  /\ pc \in [Task -> PcValue] /\ hand \in [Task -> Seq(Waiter)]
         /\ m_e \in [Writer \cup Reader -> Element \cup {None}] /\ sent \in [Writer -> Nat]
         /\ m_write_waiters \in Seq(Writer) /\ m_read_waiters \in Seq(Reader)
         /\ accepted \in Seq(Element) /\ op_stopped \in [Task -> BOOLEAN]
  BY SMTT(30) DEF IInv, TypeOK

\* A write waits with the writes, a read with the reads.
LEMMA ListsApart ==
  ASSUME IInv
  PROVE  /\ \A r \in Reader : ~InSeq(m_write_waiters, r)
         /\ \A w \in Writer : ~InSeq(m_read_waiters, w)
<1>1. /\ \A k \in DOMAIN m_write_waiters : m_write_waiters[k] \in Writer
      /\ \A k \in DOMAIN m_read_waiters : m_read_waiters[k] \in Reader
  BY OperationTypes
<1> QED BY <1>1, Roles, Zenon DEF InSeq

\* A step that changes the operations of A only keeps what holds of the others.
LEMMA OthersKept ==
  ASSUME IInv, Outcomes, NEW A \in SUBSET Reporter,
         \A x \in Reporter \ A : Same(x),
         \A v \in Writer \ A : sent'[v] = sent[v],
         \A v \in Writer : sent'[v] \in Nat /\ sent[v] <= sent'[v],
         \/ accepted' = accepted
         \/ \E e \in Element : /\ e[1] \in A /\ e[2] <= sent'[e[1]]
                               /\ accepted' = Append(accepted, e),
         Once(m_write_waiters') /\ Once(m_read_waiters'),
         \A t \in Task : HandAt(t)',
         \A x \in A : WaitsAt(x)',
         \A w \in Writer \cap A : WriteFate(w)',
         \A r \in Reader \cap A : ReadFate(r)'
  PROVE  Outcomes'
<1>1. \A x \in Reporter : WaitsAt(x)'
  BY WaitsAtKept, Zenon DEF Outcomes, Waits
<1>2. \A r \in Reader : ReadFate(r)'
  BY ReadFateKept, Roles, Zenon DEF Outcomes, Fates
<1>3. \A w \in Writer : WriteFate(w)'
  <2> SUFFICES ASSUME NEW w \in Writer, w \notin A PROVE WriteFate(w)'
    BY Zenon
  <2>1. WriteFate(w) /\ Same(w) /\ sent'[w] = sent[w] /\ accepted \in Seq(Element)
    BY Roles, OperationTypes, Zenon DEF Outcomes, Fates
  <2> QED BY <2>1, WriteFateKept, Zenon
<1>4. Begun'
  <2> SUFFICES ASSUME NEW k \in DOMAIN accepted' PROVE accepted'[k][2] <= sent'[accepted'[k][1]]
    BY Zenon DEF Begun
  <2>1. accepted \in Seq(Element) /\ sent \in [Writer -> Nat]
    BY OperationTypes, Zenon
  <2>2. ASSUME k \in DOMAIN accepted, accepted'[k] = accepted[k]
        PROVE  accepted'[k][2] <= sent'[accepted'[k][1]]
    <3>1. accepted[k][2] <= sent[accepted[k][1]]
      BY <2>2, Zenon DEF Outcomes, Fates, Begun
    <3>2. accepted[k] \in Element
      BY <2>1, <2>2
    <3>3. accepted[k][1] \in Writer /\ accepted[k][2] \in Nat
      BY <3>2 DEF Element
    <3> DEFINE v == accepted[k][1]
               n == accepted[k][2]
    <3>4. sent[v] \in Nat /\ sent'[v] \in Nat /\ sent[v] <= sent'[v]
      BY <2>1, <3>3, Zenon
    <3> HIDE DEF v, n
    <3>5. n <= sent[v] => n <= sent'[v]
      BY <3>3, <3>4 DEF v, n
    <3> QED BY <2>2, <3>1, <3>5, Zenon DEF v, n
  <2>3. CASE accepted' = accepted
    BY <2>2, <2>3, Zenon
  <2>4. CASE \E e \in Element : /\ e[1] \in A /\ e[2] <= sent'[e[1]]
                                /\ accepted' = Append(accepted, e)
    <3> PICK e \in Element : e[2] <= sent'[e[1]] /\ accepted' = Append(accepted, e)
      BY <2>4, Zenon
    <3>1. \/ k \in DOMAIN accepted /\ accepted'[k] = accepted[k]
          \/ accepted'[k] = e
      BY <2>1
    <3> QED BY <2>2, <3>1, Zenon
  <2> QED BY <2>3, <2>4, Zenon
<1> QED BY <1>1, <1>2, <1>3, <1>4, Zenon DEF Outcomes, Waits, Fates

\* A write begins.
LEMMA WriteBeginOutcomes ==
  ASSUME IInv, Outcomes, NEW w \in Writer, WriteBegin(w)
  PROVE  Outcomes'
<1>1. /\ pc[w] = "idle" /\ w \in Task /\ w \in Reporter
      /\ \A x \in Task : x # w => pc'[x] = pc[x]
      /\ pc'[w] \in {"stopped", "checked"}
      /\ UNCHANGED <<m_write_waiters, m_read_waiters, hand, accepted>>
  BY OperationTypes, Roles, Zenon DEF WriteBegin, waiters, history
<1>2. /\ \A x \in Reporter : x # w => m_e'[x] = m_e[x]
      /\ m_e'[w] = <<w, sent[w] + 1>>
      /\ sent'[w] = sent[w] + 1 /\ sent[w] \in Nat /\ \A v \in Writer : v # w => sent'[v] = sent[v]
  BY OperationTypes, <1>1, Zenon DEF WriteBegin, Reporter
<1>3. /\ \A x \in Task : x # w => (Told(x)' <=> Told(x))
      /\ pc'[w] = "checked" => ~Told(w)'
  <2>1. op_stopped' = [op_stopped EXCEPT ![w] = m_stopped]
    BY Zenon DEF WriteBegin
  <2>2. pc'[w] = IF m_stopped THEN "stopped" ELSE "checked"
    BY <1>1, OperationTypes, Zenon DEF WriteBegin
  <2>3. pc'[w] = "checked" => ~m_stopped
    BY <2>2, Zenon
  <2> QED BY <1>1, <2>1, <2>3, OperationTypes, Zenon DEF Told
<1>4. \A x \in Reporter : (Listed(x)' <=> Listed(x)) /\ \A t \in Task : Holds(t, x)' => Holds(t, x)
  <2>1. \A x \in Reporter : Listed(x)' <=> Listed(x)
    BY <1>1, Zenon DEF Listed
  <2>2. \A t \in Task : pc'[t] = "resuming" => pc[t] = "resuming"
    BY <1>1, Zenon
  <2> QED BY <1>1, <2>1, <2>2, Zenon DEF Holds
<1>5. \A t \in Task : HandAt(t)'
  BY <1>1, ZenonT(30) DEF Outcomes, Waits, HandAt
<1>6. \A x \in Reporter \ {w} : Same(x)
  BY <1>1, <1>2, <1>3, <1>4, Zenon DEF Same, Reporter, Task
<1>7. ~Listed(w) /\ \A t \in Task : ~Holds(t, w)
  BY <1>1 DEF Outcomes, Waits, WaitsAt
<1>8. WaitsAt(w)'
  BY <1>1, <1>4, <1>7, ZenonT(30) DEF WaitsAt
<1>9. ~InSeq(accepted', m_e'[w])
  <2> SUFFICES ASSUME NEW k \in DOMAIN accepted, accepted[k] = <<w, sent[w] + 1>> PROVE FALSE
    BY <1>1, <1>2, Zenon DEF InSeq
  <2>1. accepted[k][2] <= sent[accepted[k][1]]
    BY Zenon DEF Outcomes, Fates, Begun
  <2>2. accepted[k][1] = w /\ accepted[k][2] = sent[w] + 1
    OBVIOUS
  <2> QED BY <2>1, <2>2, <1>2
<1>10. WriteFate(w)'
  <2>1. sent'[w] > 0
    BY <1>2
  <2> QED BY <1>1, <1>2, <1>3, <1>4, <1>7, <1>9, <2>1, Zenon DEF WriteFate
<1>11. \A v \in Writer : sent'[v] \in Nat /\ sent[v] <= sent'[v]
  <2> TAKE v \in Writer
  <2>1. sent[v] \in Nat
    BY OperationTypes, Zenon
  <2>2. sent'[v] = sent[v] \/ sent'[v] = sent[v] + 1
    BY <1>2, Zenon
  <2> QED BY <2>1, <2>2
<1>12. Once(m_write_waiters') /\ Once(m_read_waiters')
  BY <1>1, Zenon DEF Outcomes, Waits
<1>13. {w} \in SUBSET Reporter /\ \A v \in Writer \ {w} : sent'[v] = sent[v]
  BY <1>1, <1>2, Zenon
<1>14. /\ \A x \in {w} : WaitsAt(x)'
       /\ \A x \in Writer \cap {w} : WriteFate(x)'
       /\ \A x \in Reader \cap {w} : ReadFate(x)'
  BY <1>8, <1>10, Roles, Zenon
<1> QED BY <1>1, <1>5, <1>6, <1>11, <1>12, <1>13, <1>14, OthersKept, Zenon

\* ... of a step that begins no write.
LEMMA StepKept ==
  ASSUME IInv, Outcomes, NEW A \in SUBSET Reporter, UNCHANGED sent,
         \A x \in Reporter \ A : Same(x),
         \/ accepted' = accepted
         \/ \E e \in Element : /\ e[1] \in A /\ e[2] <= sent[e[1]]
                               /\ accepted' = Append(accepted, e),
         Once(m_write_waiters') /\ Once(m_read_waiters'),
         \A t \in Task : HandAt(t)',
         \A x \in A : WaitsAt(x)',
         \A w \in Writer \cap A : WriteFate(w)',
         \A r \in Reader \cap A : ReadFate(r)'
  PROVE  Outcomes'
<1>1. \A v \in Writer : sent[v] \in Nat
  BY OperationTypes, Zenon
<1>2. \A v \in Writer : sent'[v] \in Nat /\ sent[v] <= sent'[v] /\ sent'[v] = sent[v]
  BY <1>1
<1>3. \/ accepted' = accepted
      \/ \E e \in Element : /\ e[1] \in A /\ e[2] <= sent'[e[1]]
                            /\ accepted' = Append(accepted, e)
  BY Zenon
<1> QED BY <1>2, <1>3, OthersKept, Zenon

\* A step that leaves the lists alone, and whose task u takes nobody.
LEMMA QuietStep ==
  ASSUME IInv, Outcomes, NEW u \in Task,
         UNCHANGED <<m_write_waiters, m_read_waiters, hand>>,
         \A x \in Task : x # u => pc'[x] = pc[x],
         pc'[u] \notin {"resuming", "chain"}
  PROVE  /\ Once(m_write_waiters') /\ Once(m_read_waiters')
         /\ \A t \in Task : HandAt(t)'
         /\ \A x \in Reporter : Listed(x)' <=> Listed(x)
         /\ \A x \in Reporter : \A t \in Task : Holds(t, x)' => Holds(t, x)
<1>1. Once(m_write_waiters') /\ Once(m_read_waiters')
  BY Zenon DEF Outcomes, Waits
<1>2. \A t \in Task : HandAt(t)'
  BY Zenon DEF Outcomes, Waits, HandAt
<1>3. \A x \in Reporter : Listed(x)' <=> Listed(x)
  BY Zenon DEF Listed
<1>4. \A x \in Reporter : \A t \in Task : Holds(t, x)' => Holds(t, x)
  BY Zenon DEF Holds
<1> QED BY <1>1, <1>2, <1>3, <1>4

\* A write suspends.
LEMMA WriteSuspendOutcomes ==
  ASSUME IInv, Outcomes, NEW w \in Writer, WriteSuspend(w)
  PROVE  Outcomes'
<1>1. /\ pc[w] = "checked" /\ w \in Task /\ w \in Reporter /\ pc'[w] = "suspended"
      /\ \A x \in Task : x # w => pc'[x] = pc[x]
      /\ m_write_waiters' = <<w>> \o m_write_waiters
      /\ UNCHANGED <<m_read_waiters, hand, accepted, m_e, sent>>
  BY OperationTypes, Roles, Zenon DEF WriteSuspend, history
<1>2. \A x : Told(x)' <=> Told(x)
  BY Zenon DEF WriteSuspend, Told
<1>3. WaitsAt(w) /\ WriteFate(w) /\ ~Listed(w) /\ \A t \in Task : ~Holds(t, w)
  BY <1>1, Zenon DEF Outcomes, Waits, Fates, WaitsAt
<1>4. Once(m_write_waiters') /\ Once(m_read_waiters')
  BY <1>1, <1>3, PushIs, OperationTypes, Zenon DEF Outcomes, Waits, Listed
<1>5. \A x : Listed(x)' <=> (Listed(x) \/ x = w)
  BY <1>1, PushIs, OperationTypes DEF Listed
<1>6. \A t \in Task : HandAt(t)'
  BY <1>1, Zenon DEF Outcomes, Waits, HandAt
<1>7. \A x \in Reporter : \A t \in Task : Holds(t, x)' => Holds(t, x)
  BY <1>1, Zenon DEF Holds
<1>8. \A x \in Reporter \ {w} : Same(x)
  BY <1>1, <1>2, <1>5, <1>7, Zenon DEF Same, Reporter, Task
<1>9. WaitsAt(w)'
  BY <1>1, <1>2, <1>3, <1>5, <1>7, Zenon DEF WaitsAt, WriteFate
<1>10. WriteFate(w)'
  BY <1>1, <1>2, <1>3, <1>7, ZenonT(30) DEF WriteFate
<1>11. /\ {w} \in SUBSET Reporter /\ \A x \in {w} : WaitsAt(x)'
       /\ \A x \in Writer \cap {w} : WriteFate(x)'
       /\ \A x \in Reader \cap {w} : ReadFate(x)'
  BY <1>1, <1>9, <1>10, Roles
<1> QED BY <1>1, <1>4, <1>6, <1>8, <1>11, StepKept, Zenon

\* The element of a write that is past its test or listed.
LEMMA OwnElement ==
  ASSUME IInv, Outcomes, NEW w \in Writer, pc[w] = "checked" \/ Listed(w)
  PROVE  /\ m_e[w] \in Element /\ m_e[w][1] = w /\ m_e[w][2] <= sent[w]
         /\ InSeq(Append(accepted, m_e[w]), m_e[w])
<1>1. sent[w] > 0 /\ m_e[w] = <<w, sent[w]>>
  BY Zenon DEF Outcomes, Fates, WriteFate
<1>2. sent[w] \in 0 .. MaxWrites
  BY Zenon DEF IInv, TypeOK
<1>3. InSeq(Append(accepted, m_e[w]), m_e[w])
  BY AcceptIs, OperationTypes, Zenon
<1> QED BY <1>1, <1>2, <1>3, SMTT(30) DEF Element

\* A write stores its element.
LEMMA WriteStoreOutcomes ==
  ASSUME IInv, Outcomes, NEW w \in Writer, WriteStore(w)
  PROVE  Outcomes'
<1>1. /\ pc[w] = "checked" /\ w \in Task /\ w \in Reporter /\ pc'[w] = "idle"
      /\ \A x \in Task : x # w => pc'[x] = pc[x]
      /\ accepted' = Append(accepted, m_e[w])
      /\ UNCHANGED <<m_write_waiters, m_read_waiters, hand, m_e, sent>>
  BY OperationTypes, Roles, Zenon DEF WriteStore, waiters
<1>2. \A x : Told(x)' <=> Told(x)
  BY Zenon DEF WriteStore, Told
<1>3. WriteFate(w) /\ ~Listed(w) /\ \A t \in Task : ~Holds(t, w)
  BY <1>1, Zenon DEF Outcomes, Waits, Fates, WaitsAt
<1>4. /\ Once(m_write_waiters') /\ Once(m_read_waiters')
      /\ \A t \in Task : HandAt(t)'
      /\ \A x \in Reporter : Listed(x)' <=> Listed(x)
      /\ \A x \in Reporter : \A t \in Task : Holds(t, x)' => Holds(t, x)
  BY <1>1, QuietStep, Zenon
<1>5. \A x \in Reporter \ {w} : Same(x)
  BY <1>1, <1>2, <1>4, ZenonT(30) DEF Same, Reporter, Task
<1>6. /\ m_e[w] \in Element /\ m_e[w][1] = w /\ m_e[w][2] <= sent[w]
      /\ InSeq(accepted', m_e[w])
  BY <1>1, OwnElement, ZenonT(30)
<1>7. WaitsAt(w)'
  BY <1>1, <1>3, <1>4, SMTT(30) DEF WaitsAt
<1>8. WriteFate(w)'
  BY <1>1, <1>2, <1>3, <1>4, <1>6, Zenon DEF WriteFate
<1>9. /\ {w} \in SUBSET Reporter /\ \A x \in {w} : WaitsAt(x)'
      /\ \A x \in Writer \cap {w} : WriteFate(x)'
      /\ \A x \in Reader \cap {w} : ReadFate(x)'
  BY <1>1, <1>7, <1>8, Roles, Zenon
<1>10. \E e \in Element : e[1] \in {w} /\ e[2] <= sent[e[1]] /\ accepted' = Append(accepted, e)
  BY <1>1, <1>6, Zenon
<1> QED BY <1>1, <1>4, <1>5, <1>9, <1>10, StepKept, Zenon

\* A write stores its element, and a suspended read takes one.
LEMMA WriteHandOffOutcomes ==
  ASSUME IInv, Outcomes, NEW w \in Writer, WriteHandOff(w)
  PROVE  Outcomes'
<1>0. PICK r \in Reader : /\ r = Head(m_read_waiters) /\ m_read_waiters # << >>
                         /\ InSeq(m_read_waiters, r) /\ Once(m_read_waiters)
  BY PopIs, PopProperties, OperationTypes, Zenon DEF WriteHandOff, Outcomes, Waits
<1>1. /\ pc[w] = "checked" /\ w \in Task /\ w \in Reporter /\ pc'[w] = "resuming"
      /\ \A x \in Task : x # w => pc'[x] = pc[x] /\ hand'[x] = hand[x]
      /\ hand'[w] = <<r>>
      /\ accepted' = Append(accepted, m_e[w])
      /\ m_read_waiters' = Tail(m_read_waiters)
      /\ \A x \in Reporter : x # r => m_e'[x] = m_e[x]
      /\ UNCHANGED <<m_write_waiters, sent>>
  BY <1>0, OperationTypes, Roles, Zenon DEF WriteHandOff, Reporter
<1>2. \A x : Told(x)' <=> Told(x)
  BY Zenon DEF WriteHandOff, Told
<1>3. /\ WriteFate(w) /\ ~Listed(w) /\ \A t \in Task : ~Holds(t, w)
      /\ r \in Reporter /\ r \in Task /\ r # w
  BY <1>0, <1>1, Roles, Zenon DEF Outcomes, Waits, Fates, WaitsAt
<1>4. /\ WaitsAt(r) /\ ReadFate(r) /\ Listed(r)
      /\ pc[r] = "suspended" /\ ~Told(r) /\ \A t \in Task : ~Holds(t, r)
  BY <1>0, <1>3, ZenonT(30) DEF Outcomes, Waits, Fates, WaitsAt, Listed
<1>5. Once(m_write_waiters') /\ Once(m_read_waiters')
  BY <1>0, <1>1, PopIs, OperationTypes DEF Outcomes, Waits
<1>6. /\ \A x \in Reporter : Listed(x)' <=> (Listed(x) /\ x # r)
  <2>1. ~InSeq(m_write_waiters, r)
    BY <1>0, ListsApart, Zenon
  <2>2. \A x : InSeq(m_read_waiters', x) <=> (InSeq(m_read_waiters, x) /\ x # r)
    BY <1>0, <1>1, PopIs, OperationTypes, Zenon
  <2> QED BY <1>1, <2>1, <2>2, Zenon DEF Listed
<1>7. /\ \A t \in Task : HandAt(t)'
      /\ \A x \in Reporter : x # r => \A t \in Task : Holds(t, x)' => Holds(t, x)
      /\ \A x \in Reporter : \A t \in Task : t # w /\ Holds(t, x)' => Holds(t, x)
  <2>1. Waits
    BY Zenon DEF Outcomes
  <2>2. \A t \in Task : t # w => /\ hand'[t] = hand[t]
                                 /\ pc'[t] \in {"resuming", "chain"} => pc'[t] = pc[t]
    BY <1>1, Zenon
  <2>3. pc'[w] = "resuming" => \/ hand'[w] \in Seq(Completer) /\ w \notin Writer
                               \/ r \in Reporter /\ hand'[w] = <<r>>
    BY <1>1, <1>3, Zenon
  <2>4. pc'[w] = "chain" => hand'[w] \in Seq(Completer)
    BY <1>1, Zenon
  <2> QED BY <1>1, <2>1, <2>2, <2>3, <2>4, OneMover, Zenon
<1>8. \A x \in Reporter \ {w, r} : Same(x)
  BY <1>1, <1>2, <1>6, <1>7, Zenon DEF Same, Reporter, Task
<1>9. /\ m_e[w] \in Element /\ m_e[w][1] = w /\ m_e[w][2] <= sent[w]
      /\ InSeq(accepted', m_e[w])
  BY <1>1, OwnElement, Zenon
<1>10. WaitsAt(w)'
  BY <1>1, <1>3, <1>6, <1>7, Zenon DEF WaitsAt
<1>11. WaitsAt(r)'
  BY <1>1, <1>3, <1>4, <1>6, <1>7, Zenon DEF WaitsAt
<1>12. WriteFate(w)'
  BY <1>1, <1>2, <1>3, <1>6, <1>7, <1>9, ZenonT(30) DEF WriteFate
<1>13. ReadFate(r)'
  BY <1>1, <1>2, <1>3, <1>4, <1>6, ZenonT(30) DEF ReadFate
<1>14. /\ {w, r} \in SUBSET Reporter /\ \A x \in {w, r} : WaitsAt(x)'
       /\ \A x \in Writer \cap {w, r} : WriteFate(x)'
       /\ \A x \in Reader \cap {w, r} : ReadFate(x)'
  BY <1>0, <1>1, <1>3, <1>10, <1>11, <1>12, <1>13, Roles, ZenonT(30)
<1>15. \E e \in Element : e[1] \in {w, r} /\ e[2] <= sent[e[1]] /\ accepted' = Append(accepted, e)
  BY <1>1, <1>9, Zenon
<1> QED BY <1>1, <1>5, <1>7, <1>8, <1>14, <1>15, StepKept, Zenon

\* A read takes an element, and perhaps the completed waiters.
LEMMA ReadTakeOutcomes ==
  ASSUME IInv, Outcomes, NEW r \in Reader, ReadTake(r)
  PROVE  Outcomes'
<1>1. /\ pc[r] = "idle" /\ r \in Task /\ r \in Reporter /\ pc'[r] \in {"idle", "resuming"}
      /\ \A x \in Task : x # r => pc'[x] = pc[x] /\ hand'[x] = hand[x]
      /\ \A x \in Reporter : x # r => m_e'[x] = m_e[x]
      /\ UNCHANGED <<m_write_waiters, m_read_waiters, sent, accepted>>
  BY OperationTypes, Roles DEF ReadTake, Reporter
<1>2. \A x : Told(x)' <=> Told(x)
  BY Zenon DEF ReadTake, Told
<1>3. pc'[r] = "resuming" => hand'[r] \in Seq(Completer) /\ r \notin Writer
  <2>1. m_completed_waiters \in Seq(Completer)
    BY Zenon DEF IInv, TypeOK
  <2> QED BY <1>1, <2>1, OperationTypes, Roles DEF ReadTake
<1>4. ReadFate(r) /\ ~Listed(r) /\ \A t \in Task : ~Holds(t, r)
  BY <1>1, Zenon DEF Outcomes, Waits, Fates, WaitsAt
<1>5. /\ \A t \in Task : HandAt(t)'
      /\ \A x \in Reporter : \A t \in Task : Holds(t, x)' => Holds(t, x)
  <2>0. /\ Waits /\ r \in Task
        /\ \A t \in Task : t # r => /\ hand'[t] = hand[t]
                                    /\ pc'[t] \in {"resuming", "chain"} => pc'[t] = pc[t]
        /\ pc'[r] = "resuming" => hand'[r] \in Seq(Completer) /\ r \notin Writer
        /\ pc'[r] # "chain"
    BY <1>1, <1>3, Zenon DEF Outcomes
  <2> QED BY <2>0, NoMover, Zenon
<1>6. \A x : Listed(x)' <=> Listed(x)
  BY <1>1, Zenon DEF Listed
<1>7. \A x \in Reporter \ {r} : Same(x)
  BY <1>1, <1>2, <1>5, <1>6, Zenon DEF Same, Reporter, Task
<1>8. WaitsAt(r)'
  BY <1>1, <1>4, <1>5, <1>6, Zenon DEF WaitsAt
<1>9. ReadFate(r)'
  BY <1>1, <1>2, <1>4, <1>6, Zenon DEF ReadFate
<1>10. /\ {r} \in SUBSET Reporter /\ \A x \in {r} : WaitsAt(x)'
       /\ \A x \in Writer \cap {r} : WriteFate(x)'
       /\ \A x \in Reader \cap {r} : ReadFate(x)'
  BY <1>1, <1>8, <1>9, Roles, Zenon
<1>11. Once(m_write_waiters') /\ Once(m_read_waiters')
  BY <1>1, Zenon DEF Outcomes, Waits
<1> QED BY <1>1, <1>5, <1>7, <1>10, <1>11, StepKept, Zenon

\* A read takes an element, and the element of a suspended write takes its place.
LEMMA ReadRefillOutcomes ==
  ASSUME IInv, Outcomes, NEW r \in Reader, ReadRefill(r)
  PROVE  Outcomes'
<1>0. PICK w \in Writer : /\ w = Head(m_write_waiters) /\ m_write_waiters # << >>
                         /\ InSeq(m_write_waiters, w) /\ Once(m_write_waiters)
  BY PopIs, PopProperties, OperationTypes, Zenon DEF ReadRefill, WriterWaits, Outcomes, Waits
<1>1. /\ pc[r] = "idle" /\ r \in Task /\ r \in Reporter /\ pc'[r] = "resuming"
      /\ \A x \in Task : x # r => pc'[x] = pc[x] /\ hand'[x] = hand[x]
      /\ hand'[r] = <<w>>
      /\ accepted' = Append(accepted, m_e[w])
      /\ m_write_waiters' = Tail(m_write_waiters)
      /\ \A x \in Reporter : x # r => m_e'[x] = m_e[x]
      /\ UNCHANGED <<m_read_waiters, sent>>
  BY <1>0, OperationTypes, Roles, SMTT(30) DEF ReadRefill, Reporter
<1>2. \A x : Told(x)' <=> Told(x)
  BY Zenon DEF ReadRefill, Told
<1>3. /\ ReadFate(r) /\ ~Listed(r) /\ \A t \in Task : ~Holds(t, r)
      /\ w \in Reporter /\ w \in Task /\ r # w
  BY <1>0, <1>1, Roles, Zenon DEF Outcomes, Waits, Fates, WaitsAt
<1>4. /\ WaitsAt(w) /\ WriteFate(w) /\ Listed(w)
      /\ pc[w] = "suspended" /\ ~Told(w) /\ \A t \in Task : ~Holds(t, w)
  BY <1>0, <1>3, Zenon DEF Outcomes, Waits, Fates, WaitsAt, Listed
<1>5. Once(m_write_waiters') /\ Once(m_read_waiters')
  BY <1>0, <1>1, PopIs, OperationTypes, Zenon DEF Outcomes, Waits
<1>6. /\ \A x \in Reporter : Listed(x)' <=> (Listed(x) /\ x # w)
  <2>1. ~InSeq(m_read_waiters, w)
    BY <1>0, ListsApart, Zenon
  <2>2. \A x : InSeq(m_write_waiters', x) <=> (InSeq(m_write_waiters, x) /\ x # w)
    BY <1>0, <1>1, PopIs, OperationTypes, Zenon
  <2> QED BY <1>1, <2>1, <2>2, Zenon DEF Listed
<1>7. /\ \A t \in Task : HandAt(t)'
      /\ \A x \in Reporter : x # w => \A t \in Task : Holds(t, x)' => Holds(t, x)
      /\ \A x \in Reporter : \A t \in Task : t # r /\ Holds(t, x)' => Holds(t, x)
  BY <1>1, <1>3, OneMover, Zenon DEF Outcomes
<1>8. \A x \in Reporter \ {w, r} : Same(x)
  BY <1>1, <1>2, <1>6, <1>7, Zenon DEF Same, Reporter, Task
<1>9. /\ m_e[w] \in Element /\ m_e[w][1] = w /\ m_e[w][2] <= sent[w]
      /\ InSeq(accepted', m_e[w])
  BY <1>0, <1>1, <1>4, OwnElement, Zenon
<1>10. WaitsAt(r)'
  BY <1>1, <1>3, <1>6, <1>7, Zenon DEF WaitsAt
<1>11. WaitsAt(w)'
  BY <1>1, <1>3, <1>4, <1>6, <1>7, Zenon DEF WaitsAt
<1>12. WriteFate(w)'
  BY <1>1, <1>2, <1>3, <1>4, <1>6, <1>9, Zenon DEF WriteFate
<1>13. ReadFate(r)'
  BY <1>1, <1>2, <1>3, <1>6, ZenonT(30) DEF ReadFate
<1>14. /\ {w, r} \in SUBSET Reporter /\ \A x \in {w, r} : WaitsAt(x)'
       /\ \A x \in Writer \cap {w, r} : WriteFate(x)'
       /\ \A x \in Reader \cap {w, r} : ReadFate(x)'
  BY <1>0, <1>1, <1>3, <1>10, <1>11, <1>12, <1>13, Roles, Zenon
<1>15. \E e \in Element : e[1] \in {w, r} /\ e[2] <= sent[e[1]] /\ accepted' = Append(accepted, e)
  BY <1>1, <1>9, Zenon
<1> QED BY <1>1, <1>5, <1>7, <1>8, <1>14, <1>15, StepKept, Zenon

\* A read finds nothing: it suspends, or is told that the buffer is stopped.
LEMMA ReadEmptyOutcomes ==
  ASSUME IInv, Outcomes, NEW r \in Reader, ReadEmpty(r)
  PROVE  Outcomes'
<1>1. /\ pc[r] = "idle" /\ r \in Task /\ r \in Reporter /\ pc'[r] \in {"suspended", "stopped"}
      /\ \A x \in Task : x # r => pc'[x] = pc[x]
      /\ \A x \in Reporter : x # r => m_e'[x] = m_e[x]
      /\ m_e'[r] = None
      /\ UNCHANGED <<m_write_waiters, hand, sent, accepted>>
  BY OperationTypes, Roles DEF ReadEmpty, Reporter, history
<1>2. /\ \A x \in Task : x # r => (Told(x)' <=> Told(x))
      /\ pc'[r] = "suspended" => (Told(r)' <=> Told(r))
  <2>1. \/ op_stopped' = [op_stopped EXCEPT ![r] = TRUE] /\ pc' = [pc EXCEPT ![r] = "stopped"]
        \/ UNCHANGED op_stopped
    BY Zenon DEF ReadEmpty
  <2>2. CASE op_stopped' = [op_stopped EXCEPT ![r] = TRUE] /\ pc' = [pc EXCEPT ![r] = "stopped"]
    <3>1. pc'[r] = "stopped"
      BY <1>1, <2>2, OperationTypes, Zenon
    <3> QED BY <1>1, <2>2, <3>1, OperationTypes, Zenon DEF Told
  <2>3. CASE UNCHANGED op_stopped
    BY <2>3, Zenon DEF Told
  <2> QED BY <2>1, <2>2, <2>3, Zenon
<1>3. ReadFate(r) /\ ~Listed(r) /\ ~Told(r) /\ \A t \in Task : ~Holds(t, r)
  BY <1>1, Zenon DEF Outcomes, Waits, Fates, WaitsAt, ReadFate
<1>4. \/ m_read_waiters' = m_read_waiters
      \/ pc'[r] = "suspended" /\ m_read_waiters' = <<r>> \o m_read_waiters
  BY <1>1, OperationTypes, Zenon DEF ReadEmpty
<1>5. /\ Once(m_write_waiters') /\ Once(m_read_waiters')
      /\ \A x \in Reporter : x # r => (Listed(x)' <=> Listed(x))
      /\ Listed(r)' => pc'[r] = "suspended"
  <2>1. CASE m_read_waiters' = m_read_waiters
    BY <1>1, <1>3, <2>1, ZenonT(30) DEF Outcomes, Waits, Listed
  <2>2. CASE pc'[r] = "suspended" /\ m_read_waiters' = <<r>> \o m_read_waiters
    BY <1>1, <1>3, <2>2, PushIs, OperationTypes, SMTT(30) DEF Outcomes, Waits, Listed
  <2> QED BY <1>4, <2>1, <2>2, Zenon
<1>6. /\ \A t \in Task : HandAt(t)'
      /\ \A x \in Reporter : \A t \in Task : Holds(t, x)' => Holds(t, x)
  BY <1>1, Zenon DEF Outcomes, Waits, HandAt, Holds
<1>7. \A x \in Reporter \ {r} : Same(x)
  <2> SUFFICES ASSUME NEW x \in Reporter, x # r PROVE Same(x)
    BY Zenon
  <2>1. x \in Task
    BY Zenon DEF Reporter, Task
  <2> QED BY <1>1, <1>2, <1>5, <1>6, <2>1, Zenon DEF Same
<1>8. WaitsAt(r)'
  BY <1>1, <1>2, <1>3, <1>5, <1>6, Zenon DEF WaitsAt
<1>9. ReadFate(r)'
  BY <1>1, Zenon DEF ReadFate
<1>10. /\ {r} \in SUBSET Reporter /\ \A x \in {r} : WaitsAt(x)'
       /\ \A x \in Writer \cap {r} : WriteFate(x)'
       /\ \A x \in Reader \cap {r} : ReadFate(x)'
  BY <1>1, <1>8, <1>9, Roles, Zenon
<1> QED BY <1>1, <1>5, <1>6, <1>7, <1>10, StepKept, Zenon

\* completed() suspends or returns: no write or read takes part.
LEMMA CompletedOutcomes ==
  ASSUME IInv, Outcomes, NEW c \in Completer, Completed(c)
  PROVE  Outcomes'
<1>1. /\ c \in Task /\ c \notin Reporter /\ pc'[c] \in {"suspended", "stopped"}
      /\ \A x \in Task : x # c => pc'[x] = pc[x]
      /\ UNCHANGED <<m_write_waiters, m_read_waiters, hand, m_e, sent, accepted>>
  BY OperationTypes, Roles DEF Completed, history
<1>2. \A x : Told(x)' <=> Told(x)
  BY Zenon DEF Completed, Told
<1>3. /\ Once(m_write_waiters') /\ Once(m_read_waiters')
      /\ \A t \in Task : HandAt(t)'
      /\ \A x \in Reporter : Listed(x)' <=> Listed(x)
      /\ \A x \in Reporter : \A t \in Task : Holds(t, x)' => Holds(t, x)
  BY <1>1, QuietStep, Zenon
<1>4. \A x \in Reporter : Same(x)
  BY <1>1, <1>2, <1>3, Zenon DEF Same, Reporter, Task
<1>5. {} \in SUBSET Reporter
  BY Zenon
<1> QED BY <1>1, <1>3, <1>4, <1>5, StepKept, Zenon

\* The test of close() and notify_waiters() before they take the mutex.
LEMMA WakeCheckOutcomes ==
  ASSUME IInv, Outcomes, NEW k \in Waker, WakeCheck(k)
  PROVE  Outcomes'
<1>1. /\ k \in Task /\ k \notin Reporter /\ pc'[k] \in {"checked", "stopped"}
      /\ \A x \in Task : x # k => pc'[x] = pc[x]
      /\ UNCHANGED <<m_write_waiters, m_read_waiters, hand, m_e, sent, accepted>>
  BY OperationTypes, Roles DEF WakeCheck, waiters, history
<1>2. \A x : Told(x)' <=> Told(x)
  BY Zenon DEF WakeCheck, Told
<1>3. /\ Once(m_write_waiters') /\ Once(m_read_waiters')
      /\ \A t \in Task : HandAt(t)'
      /\ \A x \in Reporter : Listed(x)' <=> Listed(x)
      /\ \A x \in Reporter : \A t \in Task : Holds(t, x)' => Holds(t, x)
  BY <1>1, QuietStep, Zenon
<1>4. \A x \in Reporter : Same(x)
  BY <1>1, <1>2, <1>3, Zenon DEF Same, Reporter, Task
<1>5. {} \in SUBSET Reporter
  BY Zenon
<1> QED BY <1>1, <1>3, <1>4, <1>5, StepKept, Zenon

\* A resumed operation reports its outcome.
LEMMA AwaitResumeOutcomes ==
  ASSUME IInv, Outcomes, NEW t \in Task, AwaitResume(t)
  PROVE  Outcomes'
<1>1. /\ pc[t] = "ready" /\ pc'[t] \in {"idle", "stopped"}
      /\ \A x \in Task : x # t => pc'[x] = pc[x]
      /\ UNCHANGED <<m_write_waiters, m_read_waiters, hand, m_e, sent, accepted>>
  BY OperationTypes, Zenon DEF AwaitResume, waiters, history
<1>2. /\ \A x : Told(x)' <=> Told(x)
      /\ pc'[t] = "idle" => ~Told(t)
  <2>1. /\ UNCHANGED op_stopped
        /\ pc'[t] = IF Told(t) \/ t \in Completer THEN "stopped" ELSE "idle"
    BY OperationTypes, Zenon DEF AwaitResume, Told
  <2>2. pc'[t] = "idle" => ~Told(t)
    BY <2>1, Zenon
  <2> QED BY <2>1, <2>2, Zenon DEF Told
<1>3. /\ Once(m_write_waiters') /\ Once(m_read_waiters')
      /\ \A u \in Task : HandAt(u)'
      /\ \A x \in Reporter : Listed(x)' <=> Listed(x)
      /\ \A x \in Reporter : \A u \in Task : Holds(u, x)' => Holds(u, x)
  BY <1>1, QuietStep, Zenon
<1>4. \A x \in Reporter \ {t} : Same(x)
  BY <1>1, <1>2, <1>3, Zenon DEF Same, Reporter, Task
<1>5. ASSUME t \in Reporter
      PROVE  WaitsAt(t)' /\ ~Listed(t)' /\ \A u \in Task : ~Holds(u, t)'
  BY <1>1, <1>3, <1>5, Zenon DEF Outcomes, Waits, WaitsAt
<1>6. ASSUME t \in Writer PROVE WriteFate(t)'
  <2>1. t \in Reporter /\ WriteFate(t)
    BY <1>6, Roles, ZenonT(30) DEF Outcomes, Fates
  <2> QED BY <2>1, <1>1, <1>2, <1>3, <1>5, Zenon DEF WriteFate
<1>7. ASSUME t \in Reader PROVE ReadFate(t)'
  <2>1. t \in Reporter /\ ReadFate(t)
    BY <1>7, Roles, Zenon DEF Outcomes, Fates
  <2> QED BY <2>1, <1>1, <1>2, <1>3, <1>5 DEF ReadFate
<1> DEFINE A == {t} \cap Reporter
<1>8. /\ A \in SUBSET Reporter /\ \A x \in A : WaitsAt(x)'
      /\ \A x \in Writer \cap A : WriteFate(x)'
      /\ \A x \in Reader \cap A : ReadFate(x)'
      /\ \A x \in Reporter \ A : Same(x)
  BY <1>4, <1>5, <1>6, <1>7, Zenon
<1> HIDE DEF A
<1> QED BY <1>1, <1>3, <1>8, StepKept, Zenon

\* A read goes on to the next of the completed waiters it took.
LEMMA ChainNextOutcomes ==
  ASSUME IInv, Outcomes, NEW r \in Reader, ChainNext(r)
  PROVE  Outcomes'
<1>1. /\ pc[r] = "chain" /\ r \in Task /\ r \in Reporter /\ r \notin Writer
      /\ pc'[r] \in {"idle", "resuming"}
      /\ \A x \in Task : x # r => pc'[x] = pc[x] /\ hand'[x] = hand[x]
      /\ hand'[r] \in {Tail(hand[r]), << >>}
      /\ UNCHANGED <<m_write_waiters, m_read_waiters, m_e, sent, accepted>>
  BY OperationTypes, Roles DEF ChainNext, waiters, history
<1>2. \A x : Told(x)' <=> Told(x)
  BY Zenon DEF ChainNext, Told
<1>3. hand'[r] \in Seq(Completer)
  <2>1. hand[r] \in Seq(Completer) /\ hand[r] # << >>
    BY <1>1, Zenon DEF Outcomes, Waits, HandAt, IInv, ResumersHoldWaiters
  <2>2. Tail(hand[r]) \in Seq(Completer) /\ << >> \in Seq(Completer)
    BY <2>1, PopProperties
  <2> QED BY <1>1, <2>2, Zenon
<1>4. ReadFate(r) /\ ~Listed(r) /\ \A t \in Task : ~Holds(t, r)
  BY <1>1, Zenon DEF Outcomes, Waits, Fates, WaitsAt
<1>5. /\ \A t \in Task : HandAt(t)'
      /\ \A x \in Reporter : \A t \in Task : Holds(t, x)' => Holds(t, x)
  BY <1>1, <1>3, NoMover, Zenon DEF Outcomes
<1>6. \A x : Listed(x)' <=> Listed(x)
  BY <1>1, Zenon DEF Listed
<1>7. \A x \in Reporter \ {r} : Same(x)
  BY <1>1, <1>2, <1>5, <1>6, Zenon DEF Same, Reporter, Task
<1>8. WaitsAt(r)'
  BY <1>1, <1>4, <1>5, <1>6, Zenon DEF WaitsAt
<1>9. ReadFate(r)'
  BY <1>1, <1>2, <1>4, <1>6, Zenon DEF ReadFate
<1>10. /\ {r} \in SUBSET Reporter /\ \A x \in {r} : WaitsAt(x)'
       /\ \A x \in Writer \cap {r} : WriteFate(x)'
       /\ \A x \in Reader \cap {r} : ReadFate(x)'
  BY <1>1, <1>8, <1>9, Roles, Zenon
<1>11. Once(m_write_waiters') /\ Once(m_read_waiters')
  BY <1>1, Zenon DEF Outcomes, Waits
<1> QED BY <1>1, <1>5, <1>7, <1>10, <1>11, StepKept, Zenon

\* A task resumes the operation it holds, or a completed waiter.
LEMMA ResumeOutcomes ==
  ASSUME IInv, Outcomes, NEW t \in Task, Resume(t)
  PROVE  Outcomes'
<1> DEFINE A == {t} \cap Reporter
<1>1. /\ pc[t] = "resuming" /\ HandAt(t) /\ hand[t] # << >>
      /\ UNCHANGED <<m_write_waiters, m_read_waiters, m_e, sent, accepted>>
  BY Zenon DEF Resume, waiters, history, Outcomes, Waits, IInv, ResumersHoldWaiters
<1>2. \A x : Told(x)' <=> Told(x)
  BY Zenon DEF Resume, Told
<1>3. PICK h : h = Head(hand[t])
  BY Zenon
<1>4. /\ t \in Waker => pc'[t] = "relock"
      /\ t \notin Waker => pc'[t] = IF h \in Completer THEN "chain" ELSE "idle"
      /\ \A x \in Task : x # t => pc'[x] = IF x = h THEN "ready" ELSE pc[x]
      /\ \A x \in Task : x # t => hand'[x] = hand[x]
      /\ hand'[t] = hand[t] \/ ~(h \in Completer /\ t \notin Waker)
  BY <1>3, OperationTypes, Zenon DEF Resume
<1>5. /\ t \in Writer => WriteFate(t)
      /\ t \in Reader => ReadFate(t)
      /\ t \in Reporter => WaitsAt(t) /\ ~Listed(t) /\ \A u \in Task : ~Holds(u, t)
  BY <1>1, Roles, Zenon DEF Outcomes, Waits, Fates, WaitsAt
<1>6. \A x : Listed(x)' <=> Listed(x)
  BY <1>1, Zenon DEF Listed
<1>7. Once(m_write_waiters') /\ Once(m_read_waiters')
  BY <1>1, Zenon DEF Outcomes, Waits
<1>8. h \in Completer => hand[t] \in Seq(Completer) /\ t \notin Writer
  <2>1. ASSUME NEW x \in Reporter, hand[t] = <<x>> PROVE h \notin Completer
    BY <2>1, <1>3, Roles
  <2> QED BY <1>1, <2>1, Zenon DEF HandAt
<1>9. /\ \A u \in Task : HandAt(u)'
      /\ \A x \in Reporter : \A u \in Task : Holds(u, x)' => Holds(u, x) /\ u # t
  <2>1. pc'[t] # "resuming" /\ (pc'[t] = "chain" => hand'[t] \in Seq(Completer))
    BY <1>4, <1>8, Zenon
  <2>2. ASSUME NEW y
        PROVE  /\ \A u \in Task : HandAt(u)'
               /\ \A x \in Reporter : \A u \in Task : u # t /\ Holds(u, x)' => Holds(u, x)
    BY <1>4, <2>1, OneMover, Zenon DEF Outcomes
  <2>3. \A x : ~Holds(t, x)'
    BY <2>1, Zenon DEF Holds
  <2> QED BY <2>2, <2>3, Zenon
<1>10. ASSUME t \in Reporter PROVE WaitsAt(t)'
  BY <1>5, <1>6, <1>9, <1>10, Zenon DEF WaitsAt
<1>11. ASSUME t \in Writer PROVE WriteFate(t)'
  <2>1. t \in Reporter /\ t \notin Waker /\ pc'[t] = "idle"
    BY <1>4, <1>8, <1>11, Roles, Zenon
  <2> QED BY <1>1, <1>2, <1>5, <1>6, <1>9, <1>11, <2>1, Zenon DEF WriteFate
<1>12. ASSUME t \in Reader PROVE ReadFate(t)'
  <2>1. t \in Reporter /\ t \notin Waker /\ pc'[t] \in {"idle", "chain"}
    BY <1>4, <1>12, Roles, Zenon
  <2> QED BY <1>1, <1>2, <1>5, <1>6, <1>12, <2>1, Zenon DEF ReadFate
<1>13. CASE h \in Completer
  <2>1. \A x \in Reporter : x # h
    BY <1>13, Roles, Zenon
  <2>2. \A x \in Reporter \ A : Same(x)
    BY <2>1, <1>1, <1>2, <1>4, <1>6, <1>9, Zenon DEF Same, Reporter, Task
  <2>3. /\ A \in SUBSET Reporter /\ \A x \in A : WaitsAt(x)'
        /\ \A x \in Writer \cap A : WriteFate(x)'
        /\ \A x \in Reader \cap A : ReadFate(x)'
    BY <1>10, <1>11, <1>12, Zenon
  <2> HIDE DEF A
  <2> QED BY <1>1, <1>7, <1>9, <2>2, <2>3, StepKept, Zenon
<1>14. CASE h \notin Completer
  <2>1. h \in Reporter /\ hand[t] = <<h>>
    <3>1. hand[t] \notin Seq(Completer)
      BY <1>1, <1>3, <1>14, PopProperties, Zenon
    <3> QED BY <3>1, <1>1, <1>3 DEF HandAt
  <2>2. Holds(t, h) /\ h \in Task /\ WaitsAt(h)
    BY <2>1, <1>1, Roles, Zenon DEF Holds, Outcomes, Waits, Reporter
  <2>3. pc[h] = "suspended" /\ ~Listed(h) /\ (\A u \in Task : Holds(u, h) => u = t) /\ h # t
    BY <2>2, <1>1, Zenon DEF WaitsAt
  <2>4. pc'[h] = "ready" /\ \A u \in Task : ~Holds(u, h)'
    BY <2>1, <2>2, <2>3, <1>4, <1>9, Zenon
  <2>5. WaitsAt(h)'
    BY <2>3, <2>4, <1>6, Zenon DEF WaitsAt
  <2>6. ASSUME h \in Writer PROVE WriteFate(h)'
    <3>1. WriteFate(h)
      BY <2>6, Zenon DEF Outcomes, Fates
    <3>2. Told(h) \/ InSeq(accepted, m_e[h])
      BY <3>1, <2>2, Zenon DEF WriteFate
    <3> QED BY <3>1, <3>2, <2>3, <2>4, <1>1, <1>2, <1>6, Zenon DEF WriteFate
  <2>7. ASSUME h \in Reader PROVE ReadFate(h)'
    <3>1. ReadFate(h)
      BY <2>7, Zenon DEF Outcomes, Fates
    <3> QED BY <3>1, <2>3, <2>4, <1>1, <1>2, <1>6, Zenon DEF ReadFate
  <2> DEFINE B == A \cup {h}
  <2>8. \A x \in Reporter \ B : Same(x)
    BY <1>1, <1>2, <1>4, <1>6, <1>9, Zenon DEF Same, Reporter, Task
  <2>9. /\ B \in SUBSET Reporter /\ \A x \in B : WaitsAt(x)'
        /\ \A x \in Writer \cap B : WriteFate(x)'
        /\ \A x \in Reader \cap B : ReadFate(x)'
    BY <2>1, <2>5, <2>6, <2>7, <1>10, <1>11, <1>12, Zenon
  <2> HIDE DEF B
  <2> QED BY <1>1, <1>7, <1>9, <2>8, <2>9, StepKept, Zenon
<1> QED BY <1>13, <1>14, Zenon

\* A closing thread takes the listed operation x off its list and tells it.
LEMMA ListedTaken ==
  ASSUME IInv, Outcomes, NEW k \in Waker, NEW x \in Reporter, Listed(x),
         NEW p, TakeWaiter(k, x, p), UNCHANGED <<m_e, sent, accepted>>,
         Once(m_write_waiters') /\ Once(m_read_waiters'),
         \A y \in Reporter : Listed(y)' <=> (Listed(y) /\ y # x)
  PROVE  Outcomes'
<1>1. /\ k \in Task /\ k \notin Reporter /\ k \notin Writer /\ x \in Task
      /\ pc'[k] = "resuming" /\ hand'[k] = <<x>>
      /\ \A y \in Task : y # k => pc'[y] = pc[y] /\ hand'[y] = hand[y]
  BY OperationTypes, Roles, Zenon DEF TakeWaiter, Reporter
<1>2. Told(x)' /\ \A y \in Reporter : y # x => (Told(y)' <=> Told(y))
  <2>1. Reporter \subseteq Task
    BY Zenon DEF Reporter, Task
  <2> QED BY <2>1, OperationTypes, Zenon DEF TakeWaiter, Told
<1>3. /\ pc[x] = "suspended" /\ \A t \in Task : ~Holds(t, x)
      /\ x \in Writer => WriteFate(x)
      /\ x \in Reader => ReadFate(x)
  BY Zenon DEF Outcomes, Waits, Fates, WaitsAt
<1>4. /\ \A t \in Task : HandAt(t)'
      /\ \A y \in Reporter : y # x => \A t \in Task : Holds(t, y)' => Holds(t, y)
      /\ \A y \in Reporter : \A t \in Task : t # k /\ Holds(t, y)' => Holds(t, y)
  BY <1>1, OneMover, Zenon DEF Outcomes
<1>5. \A y \in Reporter \ {x} : Same(y)
  BY <1>1, <1>2, <1>4, Zenon DEF Same, Reporter, Task
<1>6. WaitsAt(x)'
  BY <1>1, <1>3, <1>4, Zenon DEF WaitsAt
<1>7. x \in Writer => WriteFate(x)'
  BY <1>1, <1>2, <1>3, Zenon DEF WriteFate
<1>8. x \in Reader => ReadFate(x)'
  BY <1>1, <1>2, <1>3, Zenon DEF ReadFate
<1>9. /\ {x} \in SUBSET Reporter /\ \A y \in {x} : WaitsAt(y)'
      /\ \A y \in Writer \cap {x} : WriteFate(y)'
      /\ \A y \in Reader \cap {x} : ReadFate(y)'
  BY <1>6, <1>7, <1>8, Zenon
<1> QED BY <1>4, <1>5, <1>9, StepKept, Zenon

\* A closing thread that takes no write or read.
LEMMA NoneTaken ==
  ASSUME IInv, Outcomes, NEW k \in Waker,
         UNCHANGED <<m_write_waiters, m_read_waiters, m_e, sent, accepted>>,
         \/ \E c \in Completer : \E p : TakeWaiter(k, c, p)
         \/ pc' = [pc EXCEPT ![k] = "stopped"] /\ UNCHANGED <<op_stopped, hand>>
  PROVE  Outcomes'
<1>1. /\ k \in Task /\ k \notin Reporter /\ k \notin Writer
      /\ \A y \in Task : y # k => pc'[y] = pc[y] /\ hand'[y] = hand[y]
      /\ pc'[k] \in {"resuming", "stopped"}
      /\ pc'[k] = "resuming" => hand'[k] \in Seq(Completer)
  <2>1. k \in Task /\ k \notin Reporter /\ k \notin Writer
    BY Roles, Zenon DEF Reporter
  <2>2. CASE \E c \in Completer : \E p : TakeWaiter(k, c, p)
    <3>0. PICK c \in Completer : \E p : TakeWaiter(k, c, p)
      BY <2>2, Zenon
    <3>1. PICK p : TakeWaiter(k, c, p)
      BY <3>0, Zenon
    <3>2. <<c>> \in Seq(Completer)
      OBVIOUS
    <3>3. hand'[k] = <<c>> /\ \A y \in Task : y # k => hand'[y] = hand[y]
      BY <2>1, <3>1, OperationTypes, Zenon DEF TakeWaiter
    <3>4. pc'[k] = "resuming" /\ \A y \in Task : y # k => pc'[y] = pc[y]
      BY <2>1, <3>1, OperationTypes, Zenon DEF TakeWaiter
    <3> QED BY <2>1, <3>2, <3>3, <3>4, Zenon
  <2>3. CASE pc' = [pc EXCEPT ![k] = "stopped"] /\ UNCHANGED <<op_stopped, hand>>
    BY <2>1, <2>3, OperationTypes, Zenon
  <2> QED BY <2>2, <2>3, Zenon
<1>2. \A y \in Reporter : Told(y)' <=> Told(y)
  <2>1. Reporter \subseteq Task /\ \A c \in Completer : c \notin Reporter
    BY Roles, Zenon DEF Reporter, Task
  <2> QED BY <2>1, OperationTypes, Zenon DEF TakeWaiter, Told
<1>3. /\ \A t \in Task : HandAt(t)'
      /\ \A x \in Reporter : \A t \in Task : Holds(t, x)' => Holds(t, x)
  BY <1>1, NoMover, Zenon DEF Outcomes
<1>4. \A x \in Reporter : Same(x)
  <2>1. \A x : Listed(x)' <=> Listed(x)
    BY Zenon DEF Listed
  <2> QED BY <1>1, <1>2, <1>3, <2>1, Zenon DEF Same, Reporter, Task
<1>5. Once(m_write_waiters') /\ Once(m_read_waiters') /\ {} \in SUBSET Reporter
  BY Zenon DEF Outcomes, Waits
<1> QED BY <1>3, <1>4, <1>5, StepKept, Zenon

\* One round of the loops of close() and notify_waiters().
LEMMA WakeNextOutcomes ==
  ASSUME IInv, Outcomes, NEW k \in Waker, NEW p, WakeNext(k, p),
         UNCHANGED <<m_e, sent, accepted>>
  PROVE  Outcomes'
<1>0. Once(m_write_waiters) /\ Once(m_read_waiters)
  BY Zenon DEF Outcomes, Waits
<1>1. ASSUME m_write_waiters # << >>, TakeWaiter(k, Head(m_write_waiters), "writers"),
             m_write_waiters' = Tail(m_write_waiters), UNCHANGED m_read_waiters
      PROVE  Outcomes'
  <2>0. Head(m_write_waiters) \in Writer /\ m_write_waiters \in Seq(Writer)
    BY <1>1, PopProperties, OperationTypes, Zenon
  <2>1. PICK x \in Writer : /\ x = Head(m_write_waiters) /\ InSeq(m_write_waiters, x)
                            /\ Once(m_write_waiters')
                            /\ \A y : InSeq(m_write_waiters', y) <=> (InSeq(m_write_waiters, y) /\ y # x)
    BY <1>0, <1>1, <2>0, PopIs, Zenon
  <2>2. x \in Reporter /\ ~InSeq(m_read_waiters, x)
    BY OperationTypes, Roles DEF InSeq
  <2>3. \A y : Listed(y)' <=> (Listed(y) /\ y # x)
    BY <1>1, <2>1, <2>2, Zenon DEF Listed
  <2>4. Listed(x) /\ Once(m_read_waiters') /\ TakeWaiter(k, x, "writers")
    BY <1>0, <1>1, <2>1, Zenon DEF Listed
  <2> QED BY <2>1, <2>2, <2>3, <2>4, ListedTaken, Zenon
<1>2. ASSUME m_read_waiters # << >>, TakeWaiter(k, Head(m_read_waiters), "readers"),
             m_read_waiters' = Tail(m_read_waiters), UNCHANGED m_write_waiters
      PROVE  Outcomes'
  <2>0. Head(m_read_waiters) \in Reader /\ m_read_waiters \in Seq(Reader)
    BY <1>2, PopProperties, OperationTypes, Zenon
  <2>1. PICK x \in Reader : /\ x = Head(m_read_waiters) /\ InSeq(m_read_waiters, x)
                            /\ Once(m_read_waiters')
                            /\ \A y : InSeq(m_read_waiters', y) <=> (InSeq(m_read_waiters, y) /\ y # x)
    BY <1>0, <1>2, <2>0, PopIs, Zenon
  <2>2. x \in Reporter /\ ~InSeq(m_write_waiters, x)
    BY OperationTypes, Roles DEF InSeq
  <2>3. \A y : Listed(y)' <=> (Listed(y) /\ y # x)
    BY <1>2, <2>1, <2>2, Zenon DEF Listed
  <2>4. Listed(x) /\ Once(m_write_waiters') /\ TakeWaiter(k, x, "readers")
    BY <1>0, <1>2, <2>1, Zenon DEF Listed
  <2> QED BY <2>1, <2>2, <2>3, <2>4, ListedTaken, Zenon
<1>3. ASSUME m_completed_waiters # << >>, TakeWaiter(k, Head(m_completed_waiters), "completed"),
             UNCHANGED <<m_write_waiters, m_read_waiters>>
      PROVE  Outcomes'
  <2>1. Head(m_completed_waiters) \in Completer
    BY <1>3, PopProperties, Zenon DEF IInv, TypeOK
  <2> QED BY <1>3, <2>1, NoneTaken, Zenon
<1>4. ASSUME pc' = [pc EXCEPT ![k] = "stopped"], UNCHANGED <<waiters, op_stopped, hand>>
      PROVE  Outcomes'
  BY <1>4, NoneTaken, Zenon DEF waiters
<1> QED BY <1>1, <1>2, <1>3, <1>4, Zenon DEF WakeNext

\* Every step keeps the outcomes true to the effects.
LEMMA NextOutcomes ==
  ASSUME IInv, Outcomes, [Next]_vars
  PROVE  Outcomes'
<1>1. ASSUME NEW k \in Waker, WakeMore(k) PROVE Outcomes'
  BY <1>1, WakeNextOutcomes, Zenon DEF WakeMore, history
<1>2. ASSUME NEW k \in Notifier, NotifyLock(k) PROVE Outcomes'
  BY <1>2, WakeNextOutcomes, Zenon DEF NotifyLock, Waker, history
<1>3. ASSUME NEW k \in Closer, CloseLock(k) PROVE Outcomes'
  <2>1. CASE m_used = 0
    BY <1>3, <2>1, WakeNextOutcomes, Zenon DEF CloseLock, Waker, history
  <2>2. CASE m_used # 0
    BY <1>3, <2>2, NoneTaken, Zenon DEF CloseLock, Waker, history, waiters
  <2> QED BY <2>1, <2>2, Zenon
<1>4. CASE UNCHANGED vars
  <2>1. UNCHANGED <<m_write_waiters, m_read_waiters, pc, m_e, hand, sent, accepted>>
    BY <1>4, Zenon DEF vars, waiters, history
  <2>2. \A x : Told(x)' <=> Told(x)
    BY <1>4, Zenon DEF vars, Told
  <2>3. \A x : (Listed(x)' <=> Listed(x)) /\ \A t \in Task : Holds(t, x)' => Holds(t, x)
    BY <2>1, Zenon DEF Listed, Holds
  <2>4. \A x \in Reporter : Same(x)
    BY <2>1, <2>2, <2>3, Zenon DEF Same
  <2>5. /\ Once(m_write_waiters') /\ Once(m_read_waiters') /\ {} \in SUBSET Reporter
        /\ \A t \in Task : HandAt(t)'
    BY <2>1, Zenon DEF Outcomes, Waits, HandAt
  <2> QED BY <2>1, <2>4, <2>5, StepKept, Zenon
<1>5. ASSUME NEW w \in Writer, WriteStep(w) PROVE Outcomes'
  BY <1>5, WriteBeginOutcomes, WriteSuspendOutcomes, WriteStoreOutcomes, WriteHandOffOutcomes, Zenon
     DEF WriteStep
<1>6. ASSUME NEW r \in Reader, ReadStep(r) PROVE Outcomes'
  BY <1>6, ReadTakeOutcomes, ReadRefillOutcomes, ReadEmptyOutcomes, Zenon DEF ReadStep
<1>7. ASSUME NEW t \in Task, Resume(t) \/ AwaitResume(t) PROVE Outcomes'
  BY <1>7, ResumeOutcomes, AwaitResumeOutcomes, Zenon
<1> QED BY <1>1, <1>2, <1>3, <1>4, <1>5, <1>6, <1>7, CompletedOutcomes, ChainNextOutcomes,
           WakeCheckOutcomes, Zenon DEF Next

\* At the start no operation waits and none has reported.
LEMMA InitOutcomes == Init => Outcomes
<1> SUFFICES ASSUME Init PROVE Outcomes
  BY Zenon
<1>1. /\ m_write_waiters = << >> /\ m_read_waiters = << >> /\ accepted = << >>
      /\ \A t \in Task : pc[t] = "idle"
      /\ \A x \in Reporter : m_e[x] = None
      /\ \A w \in Writer : sent[w] = 0
  BY Zenon DEF Init, Reporter
<1>2. \A x \in Reporter : ~Told(x)
  <2>1. Reporter \subseteq Task
    BY Zenon DEF Reporter, Task
  <2> QED BY <2>1, Zenon DEF Init, Told
<1>3. \A x : ~InSeq(m_write_waiters, x) /\ ~InSeq(m_read_waiters, x) /\ ~InSeq(accepted, x)
  BY <1>1 DEF InSeq
<1>4. \A x : ~Listed(x) /\ \A t \in Task : ~Holds(t, x)
  BY <1>1, <1>3, ZenonT(30) DEF Listed, Holds
<1>5. Waits
  BY <1>1, <1>4, SMTT(30) DEF Waits, WaitsAt, HandAt, Once
<1>6. \A w \in Writer : WriteFate(w)
  BY <1>1, <1>2, <1>4, Roles DEF WriteFate
<1>7. \A r \in Reader : ReadFate(r)
  BY <1>1, <1>2, <1>4, Roles, Zenon DEF ReadFate
<1>8. Begun
  BY <1>1 DEF Begun
<1> QED BY <1>5, <1>6, <1>7, <1>8, Zenon DEF Outcomes, Fates

\* write() and read() report what happened to their element, whoever stores,
\* hands over or wakes concurrently: a write told Stopped never put its element
\* in the buffer, a write that returned did, a read told Stopped has no element.
THEOREM OutcomeReported == Spec => []OutcomeMatchesEffect
<1>1. ASSUME IInv, Outcomes PROVE OutcomeMatchesEffect
  <2>1. \A e : Entered(e) <=> InSeq(accepted, e)
    <3>1. DOMAIN accepted = 1 .. Len(accepted)
      BY <1>1, OperationTypes, SMTT(30)
    <3> QED BY <3>1, Zenon DEF Entered, InSeq
  <2>2. ASSUME NEW w \in Writer
        PROVE  /\ Told(w) => ~Entered(m_e[w])
               /\ pc[w] = "idle" /\ sent[w] > 0 => Entered(m_e[w])
    BY <1>1, <2>1, Zenon DEF Outcomes, Fates, WriteFate
  <2>3. ASSUME NEW r \in Reader PROVE Told(r) => m_e[r] = None
    BY <1>1, Zenon DEF Outcomes, Fates, ReadFate
  <2> QED BY <2>2, <2>3, Zenon DEF OutcomeMatchesEffect, Told
<1>2. Spec => []Outcomes
  BY InitOutcomes, NextOutcomes, Invariance, PTL DEF Spec
<1> QED BY <1>1, <1>2, Invariance, PTL
=============================================================================
