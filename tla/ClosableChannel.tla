-------------------------- MODULE ClosableChannel --------------------------
(***************************************************************************)
(* What a coroutine ring buffer promises to the tasks that write to it and *)
(* read from it, with no slots, no indices and no waiter lists: a bounded  *)
(* FIFO channel that can be stopped.                                       *)
(*                                                                         *)
(*   accepted   the elements whose write took effect, in that order        *)
(*   delivered  the elements given to readers, in that order               *)
(*   stopped    close() or notify_waiters() has been called                *)
(*   ended      the readers whose read reported Stopped                    *)
(***************************************************************************)
EXTENDS Naturals, Sequences

CONSTANTS Capacity, Element, Reader

VARIABLES accepted, delivered, stopped, ended

avars == <<accepted, delivered, stopped, ended>>

\* The number of elements accepted and not yet delivered.
Backlog == Len(accepted) - Len(delivered)

ChannelInit == /\ accepted = << >>
               /\ delivered = << >>
               /\ stopped = FALSE
               /\ ended = {}

Accept(e) == /\ Backlog < Capacity
             /\ accepted' = Append(accepted, e)
             /\ UNCHANGED <<delivered, stopped, ended>>

Deliver == /\ Backlog > 0
           /\ delivered' = Append(delivered, accepted[Len(delivered) + 1])
           /\ UNCHANGED <<accepted, stopped, ended>>

\* An element is accepted and the oldest one is delivered in one step: a write
\* that finds a suspended reader, or a read that finds a suspended writer.
Exchange(e) == /\ accepted' = Append(accepted, e)
               /\ delivered' = Append(delivered, accepted'[Len(delivered) + 1])
               /\ UNCHANGED <<stopped, ended>>

\* The channel stops; readers suspended on an empty channel may be told at once.
Stop(R) == /\ stopped' = TRUE
           /\ R # {} => Backlog = 0
           /\ ended' = ended \cup R
           /\ UNCHANGED <<accepted, delivered>>

\* A read reports Stopped only on a stopped channel with nothing left in it.
EndRead(r) == /\ stopped
              /\ Backlog = 0
              /\ ended' = ended \cup {r}
              /\ UNCHANGED <<accepted, delivered, stopped>>

ChannelNext == \/ \E e \in Element : Accept(e) \/ Exchange(e)
               \/ Deliver
               \/ \E R \in SUBSET Reader : Stop(R)
               \/ \E r \in Reader : EndRead(r)

ChannelSpec == ChannelInit /\ [][ChannelNext]_avars
=============================================================================
