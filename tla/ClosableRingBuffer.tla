------------------------- MODULE ClosableRingBuffer -------------------------
(***************************************************************************)
(* mrc::coroutines::ClosableRingBuffer: a bounded buffer on which C++20    *)
(* coroutines suspend.                                                     *)
(*                                                                         *)
(* An awaited operation takes m_mutex in await_ready and, when it has to   *)
(* suspend, keeps it until the end of await_suspend, so the locked part of *)
(* an operation is one step.  What happens outside the mutex is a step of  *)
(* its own: the m_stopped test of a write, of close() and of               *)
(* notify_waiters(); the resumption of a waiter that was taken off a list; *)
(* the walk along the chain of completed waiters.  A task whose pc is      *)
(* "ready" has been handed to its thread pool (or is run inline, which is  *)
(* one of the interleavings).                                              *)
(*                                                                         *)
(* The waiter lists are LIFO linked lists through the operations; here     *)
(* they are sequences with the head of the list first.                     *)
(***************************************************************************)
EXTENDS Naturals, Sequences

CONSTANTS
  N,          \* m_num_elements
  Writer,     \* tasks that call write()
  Reader,     \* tasks that call read() until it reports Stopped
  Completer,  \* tasks that call completed()
  Closer,     \* threads that call close()
  Notifier,   \* threads that call notify_waiters(), the destructor's included
  MaxWrites,  \* bound: writes per writer
  None        \* no element

ASSUME BufferAssumption == N \in Nat \ {0} /\ MaxWrites \in Nat

ASSUME RolesAssumption ==
  /\ Writer \cap Reader = {}
  /\ Writer \cap Completer = {}
  /\ Reader \cap Completer = {}
  /\ (Closer \cup Notifier) \cap (Writer \cup Reader \cup Completer) = {}
  /\ Closer \cap Notifier = {}

VARIABLES
  m_elements, m_front, m_back, m_used,
  m_write_waiters, m_read_waiters, m_completed_waiters,
  m_stopped,
  pc,         \* where each task is
  m_e,        \* the element of a write or read operation
  op_stopped, \* m_stopped of the operation
  hand,       \* the operations a task has taken off a list and must resume
  phase,      \* the list a closing thread is at
  sent,       \* writes begun by each writer
  accepted,   \* history: elements in the order they entered the buffer
  delivered   \* history: elements in the order they left it

buffer == <<m_elements, m_front, m_back, m_used>>
waiters == <<m_write_waiters, m_read_waiters, m_completed_waiters>>
history == <<accepted, delivered>>
vars == <<buffer, waiters, m_stopped, pc, m_e, op_stopped, hand, phase, sent, history>>

Task == Writer \cup Reader \cup Completer \cup Closer \cup Notifier
Waker == Closer \cup Notifier
Waiter == Writer \cup Reader \cup Completer
Element == Writer \X (1 .. MaxWrites)

Init ==
  /\ m_elements = [i \in 0 .. N - 1 |-> None]
  /\ m_front = 0
  /\ m_back = 0
  /\ m_used = 0
  /\ m_write_waiters = << >>
  /\ m_read_waiters = << >>
  /\ m_completed_waiters = << >>
  /\ m_stopped = FALSE
  /\ pc = [t \in Task |-> "idle"]
  /\ m_e = [t \in Writer \cup Reader |-> None]
  /\ op_stopped = [t \in Task |-> FALSE]
  /\ hand = [t \in Task |-> << >>]
  /\ phase = [t \in Waker |-> "writers"]
  /\ sent = [w \in Writer |-> 0]
  /\ accepted = << >>
  /\ delivered = << >>

\* Mutant of Advance: the index is not reduced modulo m_num_elements.
AdvanceNoWrap(i) == i + 1

\* m_front and m_back move around the vector.
Advance(i) == (i + 1) % N

-----------------------------------------------------------------------------
(* WriteOperation *)

\* await_ready reads m_stopped before it takes the mutex.
WriteBegin(w) ==
  /\ pc[w] = "idle"
  /\ sent[w] < MaxWrites
  /\ sent' = [sent EXCEPT ![w] = @ + 1]
  /\ m_e' = [m_e EXCEPT ![w] = <<w, sent[w] + 1>>]
  /\ op_stopped' = [op_stopped EXCEPT ![w] = m_stopped]
  /\ pc' = [pc EXCEPT ![w] = IF m_stopped THEN "stopped" ELSE "checked"]
  /\ UNCHANGED <<buffer, waiters, m_stopped, hand, phase, history>>

\* The buffer is full: await_suspend pushes the operation and releases the
\* mutex without looking at m_stopped again.
WriteSuspend(w) ==
  /\ pc[w] = "checked"
  /\ m_used = N
  /\ m_write_waiters' = <<w>> \o m_write_waiters
  /\ pc' = [pc EXCEPT ![w] = "suspended"]
  /\ UNCHANGED <<buffer, m_read_waiters, m_completed_waiters, m_stopped, m_e,
                 op_stopped, hand, phase, sent, history>>

WriteStore(w) ==
  /\ pc[w] = "checked"
  /\ m_used # N
  /\ m_read_waiters = << >>
  /\ m_elements' = [m_elements EXCEPT ![m_front] = m_e[w]]
  /\ m_front' = Advance(m_front)
  /\ m_used' = m_used + 1
  /\ accepted' = Append(accepted, m_e[w])
  /\ pc' = [pc EXCEPT ![w] = "idle"]
  /\ UNCHANGED <<m_back, waiters, m_stopped, m_e, op_stopped, hand, phase, sent,
                 delivered>>

\* A reader is suspended: the write stores its element, then gives the reader
\* at the head of the list the oldest element and will resume it.
WriteHandOff(w) ==
  /\ pc[w] = "checked"
  /\ m_used # N
  /\ m_read_waiters # << >>
  /\ m_elements' = [m_elements EXCEPT ![m_front] = m_e[w]]
  /\ m_front' = Advance(m_front)
  /\ m_e' = [m_e EXCEPT ![Head(m_read_waiters)] = m_elements'[m_back]]
  /\ m_back' = Advance(m_back)
  /\ m_read_waiters' = Tail(m_read_waiters)
  /\ hand' = [hand EXCEPT ![w] = <<Head(m_read_waiters)>>]
  /\ pc' = [pc EXCEPT ![w] = "resuming"]
  /\ accepted' = Append(accepted, m_e[w])
  /\ delivered' = Append(delivered, m_elements'[m_back])
  /\ UNCHANGED <<m_used, m_write_waiters, m_completed_waiters, m_stopped,
                 op_stopped, phase, sent>>

-----------------------------------------------------------------------------
(* ReadOperation *)

\* Mutant of ReadBlocked: a stopped buffer fails reads while it holds elements.
ReadBlockedWhenStopped == m_used = 0 \/ m_stopped

\* try_read_locked finds nothing to read.
ReadBlocked == m_used = 0

\* Mutant of ReadSeesStop: await_suspend does not look at m_stopped.
ReadIgnoresStop == FALSE

\* await_suspend of an empty read looks at m_stopped under the mutex.
ReadSeesStop == m_stopped

\* Mutant of WriterWaits: a read never refills the slot it frees.
NoWriterWaits == FALSE

\* A suspended writer will take the slot that a read frees.
WriterWaits == m_write_waiters # << >>

\* Mutant of Freed: the writer's element is stored before the oldest is taken out.
FreedAfterRefill(r) == IF WriterWaits THEN m_e[Head(m_write_waiters)] ELSE m_elements[m_back]

\* The element that read operation r takes out of the buffer.
Freed(r) == m_elements[m_back]

\* m_elements[m_back] leaves the buffer.  When this empties a stopped buffer the
\* read takes the whole list of completed waiters and will resume its chain.
ReadTake(r) ==
  /\ pc[r] = "idle"
  /\ ~ReadBlocked
  /\ ~WriterWaits
  /\ m_e' = [m_e EXCEPT ![r] = Freed(r)]
  /\ m_back' = Advance(m_back)
  /\ m_used' = m_used - 1
  /\ delivered' = Append(delivered, Freed(r))
  /\ IF m_used' = 0 /\ m_stopped /\ m_completed_waiters # << >>
       THEN /\ hand' = [hand EXCEPT ![r] = m_completed_waiters]
            /\ m_completed_waiters' = << >>
            /\ pc' = [pc EXCEPT ![r] = "resuming"]
       ELSE UNCHANGED <<hand, m_completed_waiters, pc>>
  /\ UNCHANGED <<m_elements, m_front, m_write_waiters, m_read_waiters, m_stopped,
                 op_stopped, phase, sent, accepted>>

\* A writer is suspended: the slot that the read frees takes the element of the
\* writer at the head of the list, which the read will resume.
ReadRefill(r) ==
  /\ pc[r] = "idle"
  /\ ~ReadBlocked
  /\ WriterWaits
  /\ m_e' = [m_e EXCEPT ![r] = Freed(r)]
  /\ m_back' = Advance(m_back)
  /\ m_elements' = [m_elements EXCEPT ![m_front] = m_e[Head(m_write_waiters)]]
  /\ m_front' = Advance(m_front)
  /\ m_write_waiters' = Tail(m_write_waiters)
  /\ hand' = [hand EXCEPT ![r] = <<Head(m_write_waiters)>>]
  /\ pc' = [pc EXCEPT ![r] = "resuming"]
  /\ accepted' = Append(accepted, m_e[Head(m_write_waiters)])
  /\ delivered' = Append(delivered, Freed(r))
  /\ UNCHANGED <<m_used, m_read_waiters, m_completed_waiters, m_stopped,
                 op_stopped, phase, sent>>

\* The buffer is empty: suspend, unless it is stopped.
ReadEmpty(r) ==
  /\ pc[r] = "idle"
  /\ ReadBlocked
  /\ m_e' = [m_e EXCEPT ![r] = None]
  /\ IF ReadSeesStop
       THEN /\ op_stopped' = [op_stopped EXCEPT ![r] = TRUE]
            /\ pc' = [pc EXCEPT ![r] = "stopped"]
            /\ UNCHANGED m_read_waiters
       ELSE /\ m_read_waiters' = <<r>> \o m_read_waiters
            /\ pc' = [pc EXCEPT ![r] = "suspended"]
            /\ UNCHANGED op_stopped
  /\ UNCHANGED <<buffer, m_write_waiters, m_completed_waiters, m_stopped, hand,
                 phase, sent, history>>

-----------------------------------------------------------------------------
(* CompletedOperation *)

\* The condition under which completed() does not suspend.  m_used is a size_t.
try_completed_locked == ~(~m_stopped \/ m_used >= 0)

Completed(c) ==
  /\ pc[c] = "idle"
  /\ IF try_completed_locked
       THEN /\ pc' = [pc EXCEPT ![c] = "stopped"]
            /\ UNCHANGED m_completed_waiters
       ELSE /\ m_completed_waiters' = <<c>> \o m_completed_waiters
            /\ pc' = [pc EXCEPT ![c] = "suspended"]
  /\ UNCHANGED <<buffer, m_write_waiters, m_read_waiters, m_stopped, m_e,
                 op_stopped, hand, phase, sent, history>>

-----------------------------------------------------------------------------
(* Resumption, outside the mutex *)

\* resume(): the waiter is scheduled.  A closing thread takes the mutex again;
\* a read that walks the completed chain goes on to the next link.
Resume(t) ==
  /\ pc[t] = "resuming"
  /\ pc' = [pc EXCEPT ![Head(hand[t])] = "ready",
                      ![t] = IF t \in Waker THEN "relock"
                             ELSE IF Head(hand[t]) \in Completer THEN "chain"
                             ELSE "idle"]
  /\ hand' = IF Head(hand[t]) \in Completer /\ t \notin Waker
                THEN hand
                ELSE [hand EXCEPT ![t] = << >>]
  /\ UNCHANGED <<buffer, waiters, m_stopped, m_e, op_stopped, phase, sent, history>>

\* completed_waiters->m_next is read after resume(): once the coroutine has gone
\* on, its operation is destroyed and the link may be read as null.
ChainNext(t) ==
  /\ pc[t] = "chain"
  /\ \E rest \in {Tail(hand[t])} \cup (IF pc[Head(hand[t])] = "ready" THEN {} ELSE {<< >>}) :
       /\ hand' = [hand EXCEPT ![t] = rest]
       /\ pc' = [pc EXCEPT ![t] = IF rest = << >> THEN "idle" ELSE "resuming"]
  /\ UNCHANGED <<buffer, waiters, m_stopped, m_e, op_stopped, phase, sent, history>>

\* await_resume: the operation reports its outcome.
AwaitResume(t) ==
  /\ pc[t] = "ready"
  /\ pc' = [pc EXCEPT ![t] = IF op_stopped[t] \/ t \in Completer THEN "stopped" ELSE "idle"]
  /\ UNCHANGED <<buffer, waiters, m_stopped, m_e, op_stopped, hand, phase, sent, history>>

-----------------------------------------------------------------------------
(* close() and notify_waiters() *)

\* The test of m_stopped before the mutex is taken.
WakeCheck(k) ==
  /\ pc[k] = "idle"
  /\ pc' = [pc EXCEPT ![k] = IF m_stopped THEN "stopped" ELSE "checked"]
  /\ UNCHANGED <<buffer, waiters, m_stopped, m_e, op_stopped, hand, phase, sent, history>>

\* Mutant of TakeWaiter: the operation is resumed without being marked stopped.
TakeWaiterUnmarked(k, x, p) ==
  /\ UNCHANGED op_stopped
  /\ hand' = [hand EXCEPT ![k] = <<x>>]
  /\ phase' = [phase EXCEPT ![k] = p]
  /\ pc' = [pc EXCEPT ![k] = "resuming"]

\* The waiter x is off its list, marked stopped, and will be resumed by k.
TakeWaiter(k, x, p) ==
  /\ op_stopped' = [op_stopped EXCEPT ![x] = TRUE]
  /\ hand' = [hand EXCEPT ![k] = <<x>>]
  /\ phase' = [phase EXCEPT ![k] = p]
  /\ pc' = [pc EXCEPT ![k] = "resuming"]

\* Under the mutex, k goes on with the while loops from the list p.
WakeNext(k, p) ==
  \/ /\ p = "writers" /\ m_write_waiters # << >>
     /\ TakeWaiter(k, Head(m_write_waiters), "writers")
     /\ m_write_waiters' = Tail(m_write_waiters)
     /\ UNCHANGED <<m_read_waiters, m_completed_waiters>>
  \/ /\ p = "readers" \/ (p = "writers" /\ m_write_waiters = << >>)
     /\ m_read_waiters # << >>
     /\ TakeWaiter(k, Head(m_read_waiters), "readers")
     /\ m_read_waiters' = Tail(m_read_waiters)
     /\ UNCHANGED <<m_write_waiters, m_completed_waiters>>
  \/ /\ p = "writers" => m_write_waiters = << >>
     /\ p # "completed" => m_read_waiters = << >>
     /\ IF m_completed_waiters # << >>
          THEN /\ TakeWaiter(k, Head(m_completed_waiters), "completed")
               /\ m_completed_waiters' = Tail(m_completed_waiters)
               /\ UNCHANGED <<m_write_waiters, m_read_waiters>>
          ELSE /\ pc' = [pc EXCEPT ![k] = "stopped"]
               /\ UNCHANGED <<waiters, op_stopped, hand, phase>>

\* close(): only a buffer that is empty wakes its readers and completed waiters.
CloseLock(k) ==
  /\ pc[k] = "checked"
  /\ m_stopped' = TRUE
  /\ IF m_used = 0
       THEN WakeNext(k, "readers")
       ELSE /\ pc' = [pc EXCEPT ![k] = "stopped"]
            /\ UNCHANGED <<waiters, op_stopped, hand, phase>>
  /\ UNCHANGED <<buffer, m_e, sent, history>>

NotifyLock(k) ==
  /\ pc[k] = "checked"
  /\ m_stopped' = TRUE
  /\ WakeNext(k, "writers")
  /\ UNCHANGED <<buffer, m_e, sent, history>>

\* Mutant of WakeMore: only one waiter is woken.
WakeOnce(k) ==
  /\ pc[k] = "relock"
  /\ pc' = [pc EXCEPT ![k] = "stopped"]
  /\ UNCHANGED <<buffer, waiters, m_stopped, m_e, op_stopped, hand, phase, sent, history>>

\* lk.lock() after a resumption, then the loop's condition.
WakeMore(k) ==
  /\ pc[k] = "relock"
  /\ WakeNext(k, phase[k])
  /\ UNCHANGED <<buffer, m_stopped, m_e, sent, history>>

-----------------------------------------------------------------------------
WriteStep(w) == WriteBegin(w) \/ WriteSuspend(w) \/ WriteStore(w) \/ WriteHandOff(w)
ReadStep(r) == ReadTake(r) \/ ReadRefill(r) \/ ReadEmpty(r)

Next ==
  \/ \E w \in Writer : WriteStep(w)
  \/ \E r \in Reader : ReadStep(r)
  \/ \E c \in Completer : Completed(c)
  \/ \E t \in Task : Resume(t) \/ AwaitResume(t)
  \/ \E r \in Reader : ChainNext(r)
  \/ \E k \in Waker : WakeCheck(k) \/ WakeMore(k)
  \/ \E k \in Closer : CloseLock(k)
  \/ \E k \in Notifier : NotifyLock(k)

Spec == Init /\ [][Next]_vars

\* Every coroutine that can run does run: a started operation goes through its
\* locked part, a resumed task is executed by its thread pool, and a reader
\* reads until it is told to stop.  Nothing obliges a writer to begin a write,
\* or anyone to call close(), notify_waiters() or completed().
Fairness ==
  /\ \A w \in Writer : WF_vars(WriteSuspend(w) \/ WriteStore(w) \/ WriteHandOff(w))
  /\ \A r \in Reader : WF_vars(ReadStep(r)) /\ WF_vars(ChainNext(r))
  /\ \A t \in Task : WF_vars(Resume(t)) /\ WF_vars(AwaitResume(t))
  /\ \A k \in Closer : WF_vars(CloseLock(k))
  /\ \A k \in Notifier : WF_vars(NotifyLock(k))
  /\ \A k \in Waker : WF_vars(WakeMore(k))

FairSpec == Spec /\ Fairness

-----------------------------------------------------------------------------
(* Properties *)

PcValue == {"idle", "checked", "suspended", "ready", "resuming", "chain", "relock",
            "stopped"}

\* Type invariant: the indices stay inside the vector and every operation holds
\* the kind of element it was given.
TypeOK ==
  /\ m_elements \in [0 .. N - 1 -> Element \cup {None}]
  /\ m_front \in 0 .. N - 1
  /\ m_back \in 0 .. N - 1
  /\ m_used \in 0 .. N
  /\ m_write_waiters \in Seq(Writer)
  /\ m_read_waiters \in Seq(Reader)
  /\ m_completed_waiters \in Seq(Completer)
  /\ m_stopped \in BOOLEAN
  /\ pc \in [Task -> PcValue]
  /\ m_e \in [Writer \cup Reader -> Element \cup {None}]
  /\ op_stopped \in [Task -> BOOLEAN]
  /\ hand \in [Task -> Seq(Waiter)]
  /\ phase \in [Waker -> {"writers", "readers", "completed"}]
  /\ sent \in [Writer -> 0 .. MaxWrites]
  /\ accepted \in Seq(Element)
  /\ delivered \in Seq(Element)

\* Writers are suspended only on a full buffer and readers only on an empty one,
\* across every hand-off, stop and partial wake-up.  This is what makes the CHECK
\* of close() (no suspended writer on an empty buffer) and the DCHECK of
\* try_write_locked (no suspended reader on a full one) hold, and why a read or a
\* write that can proceed need wake only one waiter.
WaitersMatchOccupancy ==
  /\ m_write_waiters # << >> => m_used = N
  /\ m_read_waiters # << >> => m_used = 0

\* The slot i places after the slot b.
Slot(b, i) == IF b + i < N THEN b + i ELSE b + i - N

\* Reads deliver the elements in the order in which they were accepted, and the
\* slots from m_back on hold exactly the rest, in that order: nothing is lost,
\* duplicated or overtaken by the element of a suspended writer or by a hand-off.
ContentsInOrder ==
  /\ Len(accepted) = Len(delivered) + m_used
  /\ m_front = Slot(m_back, m_used)
  /\ \A i \in 0 .. m_used - 1 : m_elements[Slot(m_back, i)] = accepted[Len(delivered) + 1 + i]
  /\ \A i \in 1 .. Len(delivered) : delivered[i] = accepted[i]

\* Once the buffer is stopped no read stays suspended unless a closing thread is
\* still walking the list: a reader that races close() is woken or sees m_stopped.
StoppedReadersReleased ==
  m_stopped /\ m_read_waiters # << >> =>
    \E k \in Waker : pc[k] \in {"resuming", "relock"} /\ phase[k] # "completed"

\* What an operation reports is what happened to its element.  A write reports
\* Stopped only if its element never entered the buffer, and Success only if it
\* did; a read that was given an element never reports Stopped.
Entered(e) == \E i \in 1 .. Len(accepted) : accepted[i] = e

OutcomeMatchesEffect ==
  /\ \A w \in Writer :
       /\ op_stopped[w] => ~Entered(m_e[w])
       /\ pc[w] = "idle" /\ sent[w] > 0 => Entered(m_e[w])
  /\ \A r \in Reader : op_stopped[r] => m_e[r] = None

\* The ring buffer implements the bounded FIFO channel: a read is told Stopped
\* only when every accepted element has been delivered.
Channel == INSTANCE ClosableChannel
             WITH Capacity <- N, Element <- Element, Reader <- Reader,
                  accepted <- accepted, delivered <- delivered,
                  stopped <- m_stopped, ended <- {r \in Reader : op_stopped[r]}

ImplementsChannel == Channel!ChannelSpec

\* A read suspended on a stopped buffer is resumed: close() and notify_waiters()
\* leave nobody behind on m_read_waiters.
StoppedReadsEnd ==
  \A r \in Reader : (pc[r] = "suspended" /\ m_stopped) ~> pc[r] # "suspended"

\* completed() returns once close() has been called and every element has been
\* read: a task that awaits it on a stopped and empty buffer is resumed.
CompletedEnds ==
  \A c \in Completer : (pc[c] = "suspended" /\ m_stopped /\ m_used = 0) ~> pc[c] = "stopped"

\* A suspended write is resumed as long as the buffer is open and its readers
\* keep reading: the wake-up is never lost between a read and a write.
OpenWritesEnd ==
  \A w \in Writer : pc[w] = "suspended" ~> (pc[w] # "suspended" \/ m_stopped)
=============================================================================
