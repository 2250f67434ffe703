------------------------- MODULE MCProjectionRunner -------------------------
(* Small instances of ProjectionRunner. *)
EXTENDS ProjectionRunner

CONSTANTS g, a

\* Two partitions: a run of two events, then a change of partition.
Log == <<a, a, g>>
=============================================================================
