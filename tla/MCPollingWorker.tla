--------------------------- MODULE MCPollingWorker ---------------------------
(***************************************************************************)
(* Small instances of PollingWorker.                                       *)
(***************************************************************************)
EXTENDS PollingWorker
=============================================================================
