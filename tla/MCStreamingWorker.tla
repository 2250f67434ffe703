------------------------- MODULE MCStreamingWorker -------------------------
(***************************************************************************)
(* Small instances of StreamingWorker.                                     *)
(***************************************************************************)
EXTENDS StreamingWorker
=============================================================================
