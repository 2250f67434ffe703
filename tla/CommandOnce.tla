----------------------------- MODULE CommandOnce -----------------------------
(***************************************************************************)
(* What command deduplication promises for one command: its handler is     *)
(* worked on by one caller at a time, and by nobody once a result is       *)
(* recorded, which stays recorded.  A caller may stop without a result     *)
(* (its handler failed, it died, its result could not be stored), and the  *)
(* command is then worked on again: effects have to be idempotent.         *)
(***************************************************************************)
CONSTANT Callers

VARIABLES
    working,    \* the callers that work on the command
    recorded    \* its result is stored

Init == working = {} /\ recorded = FALSE

Begin(c) ==
    /\ working = {} /\ ~recorded
    /\ working' = {c} /\ UNCHANGED recorded

Record(c) ==
    /\ working = {c} /\ ~recorded
    /\ recorded' = TRUE /\ working' = {}

Leave(c) ==
    /\ working = {c}
    /\ working' = {} /\ UNCHANGED recorded

Next == \E c \in Callers : Begin(c) \/ Record(c) \/ Leave(c)

Spec == Init /\ [][Next]_<<working, recorded>>
=============================================================================
