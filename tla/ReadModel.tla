----------------------------- MODULE ReadModel -----------------------------
(***************************************************************************)
(* What a projection promises, whoever runs it: events are applied in the  *)
(* order of their sequence numbers and the cursor never moves back.  A     *)
(* managed projection folds every event once into the state of its         *)
(* partition; an external one calls its handler for every event before the *)
(* cursor passes it, and may call it again.                                *)
(*                                                                         *)
(* ProjectionRunner implements this with leases, streams and retries.      *)
(***************************************************************************)
EXTENDS Naturals, Sequences

CONSTANTS
    LastSeq,     \* events have the sequence numbers 1..LastSeq
    Partitions,
    PartitionOf  \* the partition of each event (partitionOf)

ASSUME LogAssumption ==
    /\ LastSeq \in Nat
    /\ PartitionOf \in [1..LastSeq -> Partitions]

VARIABLES
    mode,    \* ProjectionConfig.Mode, which never changes
    cursor,  \* the sequence number the projection has reached
    saved,   \* managed: the state of a partition is the events folded into it
    handled  \* external: events the handler was called with

readModel == <<mode, cursor, saved, handled>>

ReadInit ==
    /\ mode \in {"managed", "external"}
    /\ cursor = 0
    /\ saved = [p \in Partitions |-> <<>>]
    /\ handled = {}

\* The events after a up to e, in order.
Span(a, e) == [i \in 1..(e - a) |-> a + i]

\* a+1..e belong to one partition.
OnePartition(a, e) == \A s \in (a + 1)..e : PartitionOf[s] = PartitionOf[e]

\* The state of a partition and the cursor move together.
Fold(e) ==
    /\ mode = "managed" /\ e > cursor /\ OnePartition(cursor, e)
    /\ saved' = [saved EXCEPT ![PartitionOf[e]] = @ \o Span(cursor, e)]
    /\ cursor' = e
    /\ UNCHANGED <<mode, handled>>

\* No event is handled before the ones ahead of it.
HandleEvent(e) ==
    /\ mode = "external" /\ 1..(e - 1) \subseteq handled
    /\ handled' = handled \cup {e}
    /\ UNCHANGED <<mode, cursor, saved>>

\* The cursor passes handled events only.
AckEvents(e) ==
    /\ mode = "external" /\ e > cursor /\ 1..e \subseteq handled
    /\ cursor' = e
    /\ UNCHANGED <<mode, saved, handled>>

ReadNext == \E e \in 1..LastSeq : Fold(e) \/ HandleEvent(e) \/ AckEvents(e)

ReadSpec == ReadInit /\ [][ReadNext]_readModel
=============================================================================
