---------------------------- MODULE CommandDedup ----------------------------
(***************************************************************************)
(* Command deduplication (command_dedup.go) over the key-value store       *)
(* (kv.go): callers that run TryClaim, the handler, and Finalize or        *)
(* Release, in the order the documentation of CommandDedup gives, and try  *)
(* again after an error.  A caller is one retry lineage: it runs one       *)
(* attempt at a time and its claims carry the same token.                  *)
(*                                                                         *)
(* Commands are keys of their own, so one command is modelled, without a   *)
(* TTL.  The store is not part of the repository; as kv.go uses it, each   *)
(* request takes effect at one moment or never, and the caller of one that *)
(* failed cannot tell which.  The kinds of request in LateKinds may also   *)
(* take effect after their caller gave up.                                 *)
(***************************************************************************)
EXTENDS Naturals, FiniteSets

CONSTANTS
    Callers,
    ClaimAttempts,  \* claimAttempts
    LateKinds,      \* the requests that may be late, of "create", "put", "delete"
    MaxFaults       \* bound on failed requests, failed handlers and crashes

ASSUME DedupAssumption ==
    /\ ClaimAttempts \in Nat \ {0} /\ MaxFaults \in Nat
    /\ LateKinds \subseteq {"create", "put", "delete"}

Entries == [kind : {"none"}] \cup [kind : {"claim", "result"}, by : Callers]
NoEntry == [kind |-> "none"]
Claim(c) == [kind |-> "claim", by |-> c]
Result(c) == [kind |-> "result", by |-> c]

VARIABLES
    token,  \* the callers that pass IsOwner
    entry,  \* the entry of the command in the bucket
    late,   \* requests whose caller has given up, and that are still on their way
    at,     \* where the caller is
    round,  \* its rounds of create and read
    faults

vars == <<token, entry, late, at, round, faults>>

Places == {"idle", "creating", "reading", "handler", "finalizing", "releasing", "returned"}

TypeOK ==
    /\ token \subseteq Callers
    /\ entry \in Entries
    /\ late \subseteq [kind : LateKinds, by : Callers]
    /\ at \in [Callers -> Places]
    /\ round \in [Callers -> 1..ClaimAttempts]
    /\ faults \in 0..MaxFaults

Init ==
    /\ token \in SUBSET Callers
    /\ entry = NoEntry /\ late = {} /\ faults = 0
    /\ at = [c \in Callers |-> "idle"]
    /\ round = [c \in Callers |-> 1]

Fault == faults < MaxFaults /\ faults' = faults + 1
Goto(c, place) == at' = [at EXCEPT ![c] = place]

-----------------------------------------------------------------------------
(* The store: Create (If-None-Match), Put and Delete. *)

Effect(kind, c) ==
    CASE kind = "create" -> IF entry = NoEntry THEN Claim(c) ELSE entry
      [] kind = "put" -> Result(c)
      [] kind = "delete" -> NoEntry

\* A request fails: it took effect or not, or it may still do.
RequestFails(kind, c) ==
    /\ Fault
    /\ \/ entry' = Effect(kind, c) /\ UNCHANGED late
       \/ UNCHANGED <<entry, late>>
       \/ /\ kind \in LateKinds
          /\ late' = late \cup {[kind |-> kind, by |-> c]}
          /\ UNCHANGED entry

Arrives(r) ==
    /\ r \in late
    /\ late' = late \ {r}
    /\ entry' = Effect(r.kind, r.by)
    /\ UNCHANGED <<token, at, round, faults>>
-----------------------------------------------------------------------------
(* TryClaim. *)

TryClaim(c) ==
    /\ at[c] = "idle"
    /\ Goto(c, "creating")
    /\ round' = [round EXCEPT ![c] = 1]
    /\ UNCHANGED <<token, entry, late, faults>>

\* The winner goes on, 412 leads to the read-back.
Create(c) ==
    /\ at[c] = "creating"
    /\ entry' = Effect("create", c)
    /\ Goto(c, IF entry = NoEntry THEN "handler" ELSE "reading")
    /\ UNCHANGED <<token, late, round, faults>>

\* Any other error is returned: the claim may be stored.
CreateFails(c) ==
    /\ at[c] = "creating"
    /\ RequestFails("create", c)
    /\ Goto(c, "idle")
    /\ UNCHANGED <<token, round>>

\* Mutants: the caller's own result counts as its claim; its claim does not.
IsOwner_OfResult(c) == c \in token /\ entry # NoEntry /\ entry.by = c
IsOwner_Never(c) == FALSE

\* The entry is the orphaned claim of this caller.
IsOwner(c) == c \in token /\ entry = Claim(c)

\* 404: the winner released, and the claim is tried again.
ReadNotFound(c) ==
    /\ at[c] = "reading" /\ entry = NoEntry
    /\ IF round[c] < ClaimAttempts
       THEN Goto(c, "creating") /\ round' = [round EXCEPT ![c] = @ + 1]
       ELSE Goto(c, "idle") /\ UNCHANGED round
    /\ UNCHANGED <<token, entry, late, faults>>

\* The prior entry: its own claim, a result to return, or a pending claim.
ReadEntry(c) ==
    /\ at[c] = "reading" /\ entry # NoEntry
    /\ Goto(c, IF IsOwner(c) THEN "handler"
               ELSE IF entry.kind = "result" THEN "returned" ELSE "idle")
    /\ UNCHANGED <<token, entry, late, round, faults>>

ReadFails(c) ==
    /\ at[c] = "reading" /\ Fault
    /\ Goto(c, "idle")
    /\ UNCHANGED <<token, entry, late, round>>
-----------------------------------------------------------------------------
(* The handler, Finalize and Release. *)

HandlerSucceeds(c) ==
    /\ at[c] = "handler"
    /\ Goto(c, "finalizing")
    /\ UNCHANGED <<token, entry, late, round, faults>>

HandlerFails(c) ==
    /\ at[c] = "handler" /\ Fault
    /\ Goto(c, "releasing")
    /\ UNCHANGED <<token, entry, late, round>>

Finalize(c) ==
    /\ at[c] = "finalizing"
    /\ entry' = Effect("put", c)
    /\ Goto(c, "returned")
    /\ UNCHANGED <<token, late, round, faults>>

FinalizeFails(c) ==
    /\ at[c] = "finalizing"
    /\ RequestFails("put", c)
    /\ Goto(c, "idle")
    /\ UNCHANGED <<token, round>>

\* 404 is taken for success.
Release(c) ==
    /\ at[c] = "releasing"
    /\ entry' = Effect("delete", c)
    /\ Goto(c, "idle")
    /\ UNCHANGED <<token, late, round, faults>>

ReleaseFails(c) ==
    /\ at[c] = "releasing"
    /\ RequestFails("delete", c)
    /\ Goto(c, "idle")
    /\ UNCHANGED <<token, round>>

\* The process of the caller dies and its command is tried again later.
Crash(c) ==
    /\ at[c] \notin {"idle", "returned"} /\ Fault
    /\ Goto(c, "idle")
    /\ UNCHANGED <<token, entry, late, round>>
-----------------------------------------------------------------------------
CallerSteps(c) ==
    \/ TryClaim(c) \/ Create(c) \/ ReadNotFound(c) \/ ReadEntry(c)
    \/ HandlerSucceeds(c) \/ Finalize(c) \/ Release(c)

Failures(c) ==
    \/ CreateFails(c) \/ ReadFails(c) \/ HandlerFails(c) \/ FinalizeFails(c)
    \/ ReleaseFails(c) \/ Crash(c)

Next ==
    \/ \E c \in Callers : CallerSteps(c) \/ Failures(c)
    \/ \E r \in late : Arrives(r)

Spec == Init /\ [][Next]_vars

\* Callers try again until they have a result.
FairSpec == Spec /\ \A c \in Callers : WF_vars(CallerSteps(c))
-----------------------------------------------------------------------------
(* Properties. *)

Working == {c \in Callers : at[c] \in {"handler", "finalizing"}}
Recorded == entry.kind = "result"

Once == INSTANCE CommandOnce WITH working <- Working, recorded <- Recorded

\* The claims implement CommandOnce: the winner works alone, whatever requests
\* fail after they took effect, and after a result nobody starts again
\* (TryClaim, IsOwner, Finalize, Release).
ImplementsCommandOnce == Once!Spec

\* If every caller can tell its own orphaned claim (TryClaimOptions.IsOwner), no
\* lost reply or crash blocks the command for good: everyone returns with its
\* result.
CommandEnds ==
    token = Callers ~> \A c \in Callers : at[c] = "returned"
=============================================================================
