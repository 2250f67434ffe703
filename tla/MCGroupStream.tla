---------------------------- MODULE MCGroupStream ----------------------------
(* Small instances of GroupStream. *)
EXTENDS GroupStream
=============================================================================
