--------------------------- MODULE MCSubscriptions ---------------------------
(* Small instances of Subscriptions. *)
EXTENDS Subscriptions, TLC

\* The callers differ in nothing but their name.
CallerSymmetry == Permutations(Callers)

\* No reconnect, reconnect by configuration, reconnect because of the cursor.
MCModes == {<<FALSE, FALSE>>, <<TRUE, FALSE>>, <<FALSE, TRUE>>}
=============================================================================
