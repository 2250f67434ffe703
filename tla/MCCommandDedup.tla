--------------------------- MODULE MCCommandDedup ---------------------------
(* Small instances of CommandDedup. *)
EXTENDS CommandDedup
=============================================================================
