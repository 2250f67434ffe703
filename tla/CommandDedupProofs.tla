------------------------- MODULE CommandDedupProofs -------------------------
(***************************************************************************)
(* Proofs about CommandDedup, for any number of callers, rounds and        *)
(* faults, if creates are the only requests that may take effect after     *)
(* their caller gave up.  ClaimInv is inductive: whoever is past TryClaim  *)
(* has the claim in the bucket.  From it the claims implement CommandOnce. *)
(***************************************************************************)
EXTENDS CommandDedup, TLAPS

\* Put and Delete take effect while their caller waits for them, or never.
OnlyCreatesAreLate == LateKinds \subseteq {"create"}

\* A caller that works on the command, or is about to release it, holds the
\* claim.
ClaimHeld ==
    \A c \in Callers : at[c] \in {"handler", "finalizing", "releasing"} => entry = Claim(c)

\* The inductive invariant: ClaimHeld, types, and every late request is a create.
ClaimInv ==
    /\ entry \in Entries
    /\ at \in [Callers -> Places]
    /\ \A r \in late : r.kind = "create" /\ r.by \in Callers
    /\ ClaimHeld

\* The entries: an empty one, one claim and one result for each caller.
LEMMA EntriesDiffer ==
    ASSUME NEW c \in Callers, NEW d \in Callers
    PROVE  /\ NoEntry \in Entries /\ Claim(c) \in Entries /\ Result(c) \in Entries
           /\ Claim(c) # NoEntry /\ Claim(c).kind = "claim" /\ Claim(c).by = c
           /\ Claim(c) = Claim(d) => c = d
           /\ Result(c).kind = "result" /\ NoEntry.kind = "none"
BY DEF Entries, NoEntry, Claim, Result

\* What each request leaves in the bucket (Create, Put and Delete of kv.go).
LEMMA Effects ==
    ASSUME NEW c \in Callers
    PROVE  /\ Effect("create", c) = IF entry = NoEntry THEN Claim(c) ELSE entry
           /\ Effect("put", c) = Result(c)
           /\ Effect("delete", c) = NoEntry
BY DEF Effect

\* A request that fails has taken effect, has not, or is a create on its way.
LEMMA FailedRequests ==
    ASSUME OnlyCreatesAreLate, ClaimInv, NEW c \in Callers,
           NEW kind \in {"create", "put", "delete"}, RequestFails(kind, c)
    PROVE  /\ entry' \in {entry, Effect(kind, c)}
           /\ \A r \in late' : r.kind = "create" /\ r.by \in Callers
BY DEF OnlyCreatesAreLate, ClaimInv, RequestFails

\* The callers of CommandDedup hold what they work on.
LEMMA ClaimInit == Init => ClaimInv
BY DEF Init, ClaimInv, ClaimHeld, Entries, NoEntry, Places

\* The next state keeps ClaimInv if c moves to place and the entry is as said.
LEMMA Moves ==
    ASSUME ClaimInv, NEW c \in Callers, NEW place \in Places, Goto(c, place),
           entry' \in Entries,
           \A r \in late' : r.kind = "create" /\ r.by \in Callers,
           place \in {"handler", "finalizing", "releasing"} => entry' = Claim(c),
           entry' = entry \/ entry \in {NoEntry, Claim(c)}
    PROVE  ClaimInv'
<1>1. at' \in [Callers -> Places] /\ at'[c] = place /\ \A d \in Callers \ {c} : at'[d] = at[d]
  BY DEF ClaimInv, Goto
<1>2. ASSUME NEW d \in Callers, at'[d] \in {"handler", "finalizing", "releasing"}
      PROVE  entry' = Claim(d)
  <2>1. CASE d = c
    BY <1>1, <1>2, <2>1
  <2>2. CASE d # c
    <3>1. entry = Claim(d)
      BY <1>1, <1>2, <2>2 DEF ClaimInv, ClaimHeld
    <3>2. entry \notin {NoEntry, Claim(c)}
      BY <3>1, <2>2, EntriesDiffer
    <3> QED
      BY <3>1, <3>2
  <2> QED
    BY <2>1, <2>2
<1> QED
  BY <1>1, <1>2 DEF ClaimInv, ClaimHeld

\* Every step keeps ClaimInv.
LEMMA ClaimStep ==
    ASSUME OnlyCreatesAreLate, ClaimInv, [Next]_vars PROVE ClaimInv'
<1>1. ASSUME NEW c \in Callers,
             TryClaim(c) \/ ReadNotFound(c) \/ ReadFails(c) \/ Crash(c)
      PROVE  ClaimInv'
  <2>1. \E place \in {"creating", "idle"} : Goto(c, place)
    BY <1>1 DEF TryClaim, ReadNotFound, ReadFails, Crash
  <2>2. UNCHANGED <<entry, late>>
    BY <1>1 DEF TryClaim, ReadNotFound, ReadFails, Crash
  <2> QED
    BY <2>1, <2>2, Moves DEF ClaimInv, Places
<1>2. ASSUME NEW c \in Callers, Create(c) PROVE ClaimInv'
  <2>1. CASE entry = NoEntry
    BY <1>2, <2>1, Moves, EntriesDiffer, Effects DEF Create, ClaimInv, Places
  <2>2. CASE entry # NoEntry
    BY <1>2, <2>2, Moves, Effects DEF Create, ClaimInv, Places
  <2> QED
    BY <2>1, <2>2
<1>3. ASSUME NEW c \in Callers, ReadEntry(c) PROVE ClaimInv'
  <2>1. CASE IsOwner(c)
    BY <1>3, <2>1, Moves DEF ReadEntry, IsOwner, ClaimInv, Places
  <2>2. CASE ~IsOwner(c)
    BY <1>3, <2>2, Moves DEF ReadEntry, ClaimInv, Places
  <2> QED
    BY <2>1, <2>2
<1>4. ASSUME NEW c \in Callers, HandlerSucceeds(c) \/ HandlerFails(c) PROVE ClaimInv'
  <2>1. entry = Claim(c)
    BY <1>4 DEF HandlerSucceeds, HandlerFails, ClaimInv, ClaimHeld
  <2>2. \E place \in {"finalizing", "releasing"} : Goto(c, place)
    BY <1>4 DEF HandlerSucceeds, HandlerFails
  <2>3. UNCHANGED <<entry, late>>
    BY <1>4 DEF HandlerSucceeds, HandlerFails
  <2> QED
    BY <2>1, <2>2, <2>3, Moves DEF ClaimInv, Places
<1>5. ASSUME NEW c \in Callers, Finalize(c) \/ Release(c) PROVE ClaimInv'
  <2>1. entry = Claim(c)
    BY <1>5 DEF Finalize, Release, ClaimInv, ClaimHeld
  <2>2. entry' \in Entries /\ UNCHANGED late
    BY <1>5, EntriesDiffer, Effects DEF Finalize, Release
  <2>3. \E place \in {"returned", "idle"} : Goto(c, place)
    BY <1>5 DEF Finalize, Release
  <2> QED
    BY <2>1, <2>2, <2>3, Moves DEF ClaimInv, Places
<1>6. ASSUME NEW c \in Callers, CreateFails(c) PROVE ClaimInv'
  <2>1. /\ entry' \in {entry, Effect("create", c)}
        /\ \A r \in late' : r.kind = "create" /\ r.by \in Callers
    BY <1>6, FailedRequests DEF CreateFails
  <2>2. entry' \in Entries /\ (entry' = entry \/ entry = NoEntry)
    BY <2>1, Effects, EntriesDiffer DEF ClaimInv
  <2> QED
    BY <1>6, <2>1, <2>2, Moves DEF CreateFails, Places
<1>7. ASSUME NEW c \in Callers, FinalizeFails(c) \/ ReleaseFails(c) PROVE ClaimInv'
  <2>1. entry = Claim(c) /\ Goto(c, "idle")
    BY <1>7 DEF FinalizeFails, ReleaseFails, ClaimInv, ClaimHeld
  <2>2. /\ entry' \in {entry, Result(c), NoEntry}
        /\ \A r \in late' : r.kind = "create" /\ r.by \in Callers
    BY <1>7, FailedRequests, Effects DEF FinalizeFails, ReleaseFails
  <2>3. entry' \in Entries
    BY <2>2, EntriesDiffer DEF ClaimInv
  <2> QED
    BY <2>1, <2>2, <2>3, Moves DEF Places
<1>8. ASSUME NEW r \in late, Arrives(r) PROVE ClaimInv'
  <2>1. /\ r.by \in Callers /\ late' \subseteq late /\ at' = at
        /\ entry' = IF entry = NoEntry THEN Claim(r.by) ELSE entry
    BY <1>8, Effects DEF Arrives, ClaimInv
  <2>2. entry' \in Entries /\ \A d \in Callers : entry = Claim(d) => entry' = entry
    BY <2>1, EntriesDiffer DEF ClaimInv
  <2> QED
    BY <2>1, <2>2 DEF ClaimInv, ClaimHeld
<1>9. CASE UNCHANGED vars
  BY <1>9 DEF vars, ClaimInv, ClaimHeld
<1> QED
  BY <1>1, <1>2, <1>3, <1>4, <1>5, <1>6, <1>7, <1>8, <1>9 DEF Next, CallerSteps, Failures

\* A caller that is past TryClaim holds the claim, whatever requests failed.
THEOREM ClaimsAreHeld ==
    ASSUME OnlyCreatesAreLate PROVE Spec => []ClaimInv
<1>1. ClaimInv /\ [Next]_vars => ClaimInv'
  BY ClaimStep
<1> QED
  BY <1>1, ClaimInit, PTL DEF Spec
-----------------------------------------------------------------------------
(* The refinement. *)

\* Only a caller that holds the claim works on the command.
LEMMA WorksAlone ==
    ASSUME ClaimInv, NEW c \in Callers, at[c] \in {"handler", "finalizing"}
    PROVE  Working = {c} /\ ~Recorded
<1>1. entry = Claim(c)
  BY DEF ClaimInv, ClaimHeld
<1>2. \A d \in Callers : at[d] \in {"handler", "finalizing"} => d = c
  BY <1>1, EntriesDiffer DEF ClaimInv, ClaimHeld
<1> QED
  BY <1>1, <1>2, EntriesDiffer DEF Working, Recorded

\* Nobody works on the command while there is no claim, or a result, in the bucket.
LEMMA NobodyWorks ==
    ASSUME ClaimInv, entry.kind # "claim" PROVE Working = {}
BY EntriesDiffer DEF ClaimInv, ClaimHeld, Working

\* A move of c changes nothing but whether c works.
LEMMA WorkingAfter ==
    ASSUME ClaimInv, NEW c \in Callers, NEW place \in Places, Goto(c, place)
    PROVE  Working' = IF place \in {"handler", "finalizing"}
                      THEN Working \cup {c} ELSE Working \ {c}
<1>1. at'[c] = place /\ \A d \in Callers \ {c} : at'[d] = at[d]
  BY DEF ClaimInv, Goto
<1> QED
  BY <1>1 DEF Working

\* Every step of the callers and of the store is a step of CommandOnce or leaves
\* its state alone.
LEMMA StepIsOnce ==
    ASSUME OnlyCreatesAreLate, ClaimInv, [Next]_vars
    PROVE  [Once!Next]_<<Working, Recorded>>
<1>1. ASSUME NEW c \in Callers, at[c] \notin {"handler", "finalizing"},
             NEW place \in {"idle", "creating", "reading", "returned"}, Goto(c, place),
             Recorded' = Recorded
      PROVE  UNCHANGED <<Working, Recorded>>
  <2>1. Working' = Working \ {c} /\ c \notin Working
    BY <1>1, WorkingAfter DEF Working, Places
  <2> QED
    BY <1>1, <2>1
<1>2. ASSUME NEW c \in Callers, TryClaim(c) \/ ReadNotFound(c) \/ ReadFails(c)
      PROVE  UNCHANGED <<Working, Recorded>>
  <2>1. at[c] \in {"idle", "reading"} /\ entry' = entry
    BY <1>2 DEF TryClaim, ReadNotFound, ReadFails
  <2>2. \E place \in {"idle", "creating"} : Goto(c, place)
    BY <1>2 DEF TryClaim, ReadNotFound, ReadFails
  <2> QED
    BY <1>1, <2>1, <2>2 DEF Recorded
<1>3. ASSUME NEW c \in Callers, Create(c) PROVE [Once!Next]_<<Working, Recorded>>
  <2>1. CASE entry = NoEntry
    <3>1. Working = {} /\ ~Recorded
      BY <2>1, NobodyWorks, EntriesDiffer DEF Recorded
    <3>2. Working' = {c} /\ Recorded' = Recorded
      BY <1>3, <2>1, <3>1, WorkingAfter, EntriesDiffer, Effects DEF Create, Recorded, Places
    <3> QED
      BY <3>1, <3>2 DEF Once!Next, Once!Begin
  <2>2. CASE entry # NoEntry
    BY <1>1, <1>3, <2>2, Effects DEF Create, Recorded
  <2> QED
    BY <2>1, <2>2
<1>4. ASSUME NEW c \in Callers, ReadEntry(c) PROVE [Once!Next]_<<Working, Recorded>>
  <2>1. CASE IsOwner(c)
    <3>1. at[c] = "reading" /\ Goto(c, "handler") /\ entry = Claim(c) /\ entry' = entry
      BY <1>4, <2>1 DEF ReadEntry, IsOwner
    <3>2. Working = {}
      BY <3>1, EntriesDiffer DEF ClaimInv, ClaimHeld, Working
    <3>3. Working' = {c} /\ ~Recorded /\ Recorded' = Recorded
      BY <3>1, <3>2, WorkingAfter, EntriesDiffer DEF Recorded, Places
    <3> QED
      BY <3>2, <3>3 DEF Once!Next, Once!Begin
  <2>2. CASE ~IsOwner(c)
    BY <1>1, <1>4, <2>2 DEF ReadEntry, Recorded
  <2> QED
    BY <2>1, <2>2
<1>5. ASSUME NEW c \in Callers, HandlerSucceeds(c) PROVE UNCHANGED <<Working, Recorded>>
  <2>1. Working = {c} /\ Working' = Working \cup {c} /\ entry' = entry
    BY <1>5, WorksAlone, WorkingAfter DEF HandlerSucceeds, Places
  <2> QED
    BY <2>1 DEF Recorded
<1>6. ASSUME NEW c \in Callers, at[c] \in {"handler", "finalizing"},
             NEW place \in {"idle", "releasing"}, Goto(c, place), Recorded' = Recorded
      PROVE  Once!Next
  <2>1. Working = {c} /\ Working' = {}
    BY <1>6, WorksAlone, WorkingAfter DEF Places
  <2> QED
    BY <1>6, <2>1 DEF Once!Next, Once!Leave
<1>7. ASSUME NEW c \in Callers, HandlerFails(c) PROVE Once!Next
  BY <1>6, <1>7 DEF HandlerFails, Recorded
<1>8. ASSUME NEW c \in Callers, at[c] = "finalizing", entry' = Result(c),
             NEW place \in {"idle", "returned"}, Goto(c, place)
      PROVE  Once!Next
  <2>1. Working = {c} /\ ~Recorded /\ Working' = {} /\ Recorded'
    BY <1>8, WorksAlone, WorkingAfter, EntriesDiffer DEF Recorded, Places
  <2> QED
    BY <2>1 DEF Once!Next, Once!Record
<1>9. ASSUME NEW c \in Callers, Finalize(c) \/ FinalizeFails(c) PROVE Once!Next
  <2>1. CASE Finalize(c)
    BY <1>8, <2>1, Effects DEF Finalize
  <2>2. CASE FinalizeFails(c)
    <3>1. entry' \in {entry, Result(c)} /\ at[c] = "finalizing" /\ Goto(c, "idle")
      BY <2>2, FailedRequests, Effects DEF FinalizeFails
    <3> QED
      BY <1>6, <1>8, <3>1 DEF Recorded
  <2> QED
    BY <1>9, <2>1, <2>2
<1>10. ASSUME NEW c \in Callers, CreateFails(c) \/ Release(c) \/ ReleaseFails(c)
       PROVE  UNCHANGED <<Working, Recorded>>
  <2>1. CASE CreateFails(c)
    <3>1. entry' \in {entry, Effect("create", c)}
      BY <2>1, FailedRequests DEF CreateFails
    <3>2. Recorded' = Recorded
      BY <3>1, Effects, EntriesDiffer DEF Recorded
    <3> QED
      BY <1>1, <2>1, <3>2 DEF CreateFails
  <2>2. CASE Release(c) \/ ReleaseFails(c)
    <3>1. at[c] = "releasing" /\ entry = Claim(c) /\ Goto(c, "idle")
      BY <2>2 DEF Release, ReleaseFails, ClaimInv, ClaimHeld
    <3>2. entry' \in {entry, NoEntry}
      BY <2>2, FailedRequests, Effects DEF Release, ReleaseFails
    <3>3. Recorded' = Recorded
      BY <3>1, <3>2, EntriesDiffer DEF Recorded
    <3> QED
      BY <1>1, <3>1, <3>3
  <2> QED
    BY <1>10, <2>1, <2>2
<1>11. ASSUME NEW c \in Callers, Crash(c) PROVE [Once!Next]_<<Working, Recorded>>
  <2>1. Goto(c, "idle") /\ Recorded' = Recorded
    BY <1>11 DEF Crash, Recorded
  <2> QED
    BY <1>1, <1>6, <2>1
<1>12. ASSUME NEW r \in late, Arrives(r) PROVE UNCHANGED <<Working, Recorded>>
  <2>1. r.by \in Callers /\ at' = at /\ entry' = IF entry = NoEntry THEN Claim(r.by) ELSE entry
    BY <1>12, Effects DEF Arrives, ClaimInv
  <2> QED
    BY <2>1, EntriesDiffer DEF Working, Recorded
<1>13. CASE UNCHANGED vars
  BY <1>13 DEF vars, Working, Recorded
<1> QED
  BY <1>2, <1>3, <1>4, <1>5, <1>7, <1>9, <1>10, <1>11, <1>12, <1>13
  DEF Next, CallerSteps, Failures

\* The claims implement CommandOnce for any number of callers, rounds and faults:
\* one caller at a time works on the command, none after a result is stored, and
\* the result stays (TryClaim, IsOwner, Finalize, Release).
THEOREM ClaimsImplementCommandOnce ==
    ASSUME OnlyCreatesAreLate PROVE Spec => ImplementsCommandOnce
<1>1. Init => Once!Init
  BY EntriesDiffer DEF Init, Once!Init, Working, Recorded, NoEntry
<1>2. ClaimInv /\ [Next]_vars => [Once!Next]_<<Working, Recorded>>
  BY StepIsOnce
<1> QED
  BY <1>1, <1>2, ClaimsAreHeld, PTL DEF Spec, ImplementsCommandOnce, Once!Spec
=============================================================================
