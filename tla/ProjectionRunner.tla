-------------------------- MODULE ProjectionRunner --------------------------
(***************************************************************************)
(* The projection runners (projection_runner.go): the replicas of one      *)
(* projection, in one process or in several, that compete for its lease.   *)
(* A runner is its run goroutine, the goroutine startRenew starts, and the *)
(* caller of Stop.                                                         *)
(*                                                                         *)
(* The server is not part of the repository.  As the runner uses it, it    *)
(* grants the lease to one runner at a time under a growing epoch, refuses *)
(* a pull, save or ack whose epoch is not the live one, and opens a stream *)
(* at the saved cursor.  A request it answers late or never either took    *)
(* effect before the runner gave up on it or has none.                     *)
(***************************************************************************)
EXTENDS Naturals, FiniteSets, ReadModel

CONSTANTS
    Runners,
    Global,    \* the partition "__global__"
    BatchSize,
    MaxFaults, \* bound on failed requests, dropped streams, failed handlers
    MaxStops   \* bound on the runners Stop is called on

ASSUME RunnerAssumption ==
    /\ Global \in Partitions
    /\ BatchSize \in Nat \ {0} /\ IsFiniteSet(Runners)
    /\ MaxFaults \in Nat /\ MaxStops \in Nat

VARIABLES
    epoch,     \* server: the epoch of the last grant
    held,      \* server: that grant is still live
    streams,   \* server: it has StreamProjectionEvents
    pc,        \* where each runner's run goroutine is
    lease,     \* r.lease, by its epoch; 0 is nil
    lost,      \* r.lost is closed
    renewing,  \* the goroutine of startRenew runs
    ctxDone,   \* r.cancel was called
    workDone,  \* r.cancelWork was called
    polling,   \* the server has no stream for this runner
    stream,    \* readStream has its stream open
    at,        \* the last event given to the handler
    taken,     \* the last event taken from the server
    states,    \* managed: the partition states the batch works on
    loaded,    \* managed: partitions whose state the batch has loaded
    faults

server == <<epoch, held, streams>>
leaseVars == <<lease, lost, renewing>>
stopVars == <<ctxDone, workDone>>
intake == <<polling, stream>>
batch == <<at, taken, states, loaded>>
vars == <<readModel, server, pc, leaseVars, stopVars, intake, batch, faults>>

NoStates == [p \in Partitions |-> <<>>]

Init ==
    /\ ReadInit
    /\ epoch = 0 /\ held = FALSE /\ streams \in BOOLEAN
    /\ pc = [r \in Runners |-> "idle"]
    /\ lease = [r \in Runners |-> 0]
    /\ lost = [r \in Runners |-> FALSE]
    /\ renewing = [r \in Runners |-> FALSE]
    /\ ctxDone = [r \in Runners |-> FALSE]
    /\ workDone = [r \in Runners |-> FALSE]
    /\ polling = [r \in Runners |-> FALSE]
    /\ stream = [r \in Runners |-> FALSE]
    /\ at = [r \in Runners |-> 0]
    /\ taken = [r \in Runners |-> 0]
    /\ states = [r \in Runners |-> NoStates]
    /\ loaded = [r \in Runners |-> {}]
    /\ faults = 0

-----------------------------------------------------------------------------
(* State changes shared by the operations. *)

Go(r, place) == pc' = [pc EXCEPT ![r] = place]

\* What the server answers Aborted to: the epoch is not the live one.
Stale(r) == ~held \/ lease[r] # epoch

Fault == faults < MaxFaults /\ faults' = faults + 1

\* The batch is dropped, and what it loaded with it.
DropBatch(r) ==
    /\ at' = [at EXCEPT ![r] = 0]
    /\ taken' = [taken EXCEPT ![r] = 0]
    /\ states' = [states EXCEPT ![r] = NoStates]
    /\ loaded' = [loaded EXCEPT ![r] = {}]

\* The deferred end of readStream: the reader stops and the stream is closed.
CloseStream(r) == stream' = [stream EXCEPT ![r] = FALSE] /\ UNCHANGED polling

\* A read or a batch ends the round: the runner leaves for place.
EndRound(r, place) ==
    Go(r, place) /\ CloseStream(r) /\ DropBatch(r)

\* processBatch: a managed batch loads states first, an external one goes
\* to the handler at once.
FirstStage == IF mode = "managed" THEN "loading" ELSE "reducing"

BatchPlaces == {"loading", "reducing", "committing"}
-----------------------------------------------------------------------------
(* Start, register and the lease. *)

\* The first register of Start, and the goroutine when a retry is needed.
Start(r) ==
    /\ pc[r] = "idle"
    /\ Go(r, "registering")
    /\ UNCHANGED <<readModel, server, leaseVars, stopVars, intake, batch, faults>>

Registered(r) ==
    /\ pc[r] = "registering" /\ ~ctxDone[r]
    /\ Go(r, "standby")
    /\ UNCHANGED <<readModel, server, leaseVars, stopVars, intake, batch, faults>>

\* A stopped runner, or an error a retry cannot fix (registerFatal).
RegisterEnds(r) ==
    /\ pc[r] = "registering"
    /\ \/ ctxDone[r] /\ UNCHANGED faults
       \/ ~ctxDone[r] /\ Fault
    /\ Go(r, "done")
    /\ UNCHANGED <<readModel, server, leaseVars, stopVars, intake, batch>>

\* The head of the acquireLease loop, before and after its sleep.
Ask(r) ==
    /\ pc[r] = "standby" /\ ~ctxDone[r]
    /\ Go(r, "asking")
    /\ UNCHANGED <<readModel, server, leaseVars, stopVars, intake, batch, faults>>

\* Stop found the runner in standby: no lease, nothing to release.
StandbyStops(r) ==
    /\ pc[r] = "standby" /\ ctxDone[r]
    /\ Go(r, "done")
    /\ UNCHANGED <<readModel, server, leaseVars, stopVars, intake, batch, faults>>

Granted(r) ==
    /\ pc[r] = "asking" /\ ~workDone[r] /\ ~held
    /\ epoch' = epoch + 1 /\ held' = TRUE /\ UNCHANGED streams
    /\ lease' = [lease EXCEPT ![r] = epoch + 1]
    /\ Go(r, "granted")
    /\ UNCHANGED <<readModel, lost, renewing, stopVars, intake, batch, faults>>

\* Another runner holds the lease, or Stop's time limit cut the request off.
Refused(r) ==
    /\ pc[r] = "asking" /\ (held \/ workDone[r])
    /\ Go(r, "standby")
    /\ UNCHANGED <<readModel, server, leaseVars, stopVars, intake, batch, faults>>

\* The server granted the lease and the runner never learns it.
GrantLost(r) ==
    /\ pc[r] = "asking" /\ ~held /\ Fault
    /\ epoch' = epoch + 1 /\ held' = TRUE /\ UNCHANGED streams
    /\ Go(r, "standby")
    /\ UNCHANGED <<readModel, leaseVars, stopVars, intake, batch>>

\* An auth error, or a server without lease RPCs.
AskFatal(r) ==
    /\ pc[r] = "asking" /\ Fault
    /\ Go(r, "done")
    /\ UNCHANGED <<readModel, server, leaseVars, stopVars, intake, batch>>

\* startRenew runs on r.detached: Stop does not end it.
KeepGrant(r) ==
    /\ pc[r] = "granted" /\ ~ctxDone[r]
    /\ renewing' = [renewing EXCEPT ![r] = TRUE]
    /\ Go(r, "open")
    /\ UNCHANGED <<readModel, server, lease, lost, stopVars, intake, batch, faults>>

\* A grant that arrived while Stop ran.
ReturnGrant(r) ==
    /\ pc[r] = "granted" /\ ctxDone[r]
    /\ Go(r, "releasing")
    /\ UNCHANGED <<readModel, server, leaseVars, stopVars, intake, batch, faults>>

\* Renew is answered Aborted.  Every other answer keeps the goroutine going.
RenewAborted(r) ==
    /\ renewing[r] /\ Stale(r)
    /\ lost' = [lost EXCEPT ![r] = TRUE]
    /\ renewing' = [renewing EXCEPT ![r] = FALSE]
    /\ UNCHANGED <<readModel, server, pc, lease, stopVars, intake, batch, faults>>

\* The loop returned errProjectionLeaseLost: back to acquireLease.
StandBy(r) ==
    /\ pc[r] = "fenced" /\ ~ctxDone[r]
    /\ lease' = [lease EXCEPT ![r] = 0]
    /\ lost' = [lost EXCEPT ![r] = FALSE]
    /\ renewing' = [renewing EXCEPT ![r] = FALSE]
    /\ Go(r, "standby")
    /\ UNCHANGED <<readModel, server, stopVars, intake, batch, faults>>

\* Mutant: stopRenew is not called.
Leave_RenewGoesOn(r) ==
    /\ pc[r] = "leaving" \/ (pc[r] = "fenced" /\ ctxDone[r])
    /\ Go(r, "releasing")
    /\ UNCHANGED <<readModel, server, leaseVars, stopVars, intake, batch, faults>>

\* The loop returned anything else, or Stop ran: stopRenew, then Release.
Leave(r) ==
    /\ pc[r] = "leaving" \/ (pc[r] = "fenced" /\ ctxDone[r])
    /\ renewing' = [renewing EXCEPT ![r] = FALSE]
    /\ Go(r, "releasing")
    /\ UNCHANGED <<readModel, server, lease, lost, stopVars, intake, batch, faults>>

\* A Release with a stale epoch changes nothing; one can get lost.
Release(r) ==
    /\ pc[r] = "releasing"
    /\ \/ held' = (held /\ lease[r] # epoch) /\ UNCHANGED faults
       \/ Fault /\ UNCHANGED held
    /\ Go(r, "done")
    /\ UNCHANGED <<readModel, epoch, streams, leaseVars, stopVars, intake, batch>>
-----------------------------------------------------------------------------
(* streamLoop, readStream and pollLoop: how events are taken. *)

\* Mutant: the loops look for a lost lease only.
LoopEnds_IgnoresStop(r) ==
    /\ pc[r] = "open" /\ lost[r]
    /\ Go(r, "fenced")
    /\ UNCHANGED <<readModel, server, leaseVars, stopVars, intake, batch, faults>>

\* The head of either loop, and the checks after a round.
LoopEnds(r) ==
    /\ pc[r] = "open" /\ (lost[r] \/ ctxDone[r])
    /\ Go(r, IF lost[r] THEN "fenced" ELSE "leaving")
    /\ UNCHANGED <<readModel, server, leaseVars, stopVars, intake, batch, faults>>

\* The server rewinds a new stream to the saved cursor.
OpenStream(r) ==
    /\ pc[r] = "open" /\ ~polling[r] /\ streams
    /\ ~lost[r] /\ ~ctxDone[r] /\ ~Stale(r)
    /\ at' = [at EXCEPT ![r] = cursor]
    /\ taken' = [taken EXCEPT ![r] = cursor]
    /\ stream' = [stream EXCEPT ![r] = TRUE]
    /\ Go(r, "reading")
    /\ UNCHANGED <<readModel, server, leaseVars, stopVars, polling, states, loaded, faults>>

\* Unimplemented or NotFound: the runner polls from here on.
Unsupported(r) ==
    /\ pc[r] = "open" /\ ~polling[r] /\ ~streams /\ ~lost[r] /\ ~ctxDone[r]
    /\ polling' = [polling EXCEPT ![r] = TRUE]
    /\ UNCHANGED <<readModel, server, pc, leaseVars, stopVars, stream, batch, faults>>

\* An open stream, a pull or a poll under a stale lease is answered Aborted.
\* The pending frames are dropped.
PullAborted(r) ==
    /\ pc[r] \in {"open", "reading"} /\ Stale(r)
    /\ EndRound(r, "fenced")
    /\ UNCHANGED <<readModel, server, leaseVars, stopVars, faults>>

\* A frame joins the pending ones.  It may have been sent before the lease was
\* lost.  The batch starts when it is full.
Take(r) ==
    /\ pc[r] = "reading" /\ stream[r] /\ taken[r] < LastSeq
    /\ taken' = [taken EXCEPT ![r] = @ + 1]
    /\ Go(r, IF taken'[r] - at[r] = BatchSize THEN FirstStage ELSE "reading")
    /\ UNCHANGED <<readModel, server, leaseVars, stopVars, intake, at, states, loaded, faults>>

\* The flush timer, with frames pending.
Flush(r) ==
    /\ pc[r] = "reading" /\ at[r] < taken[r]
    /\ Go(r, FirstStage)
    /\ UNCHANGED <<readModel, server, leaseVars, stopVars, intake, batch, faults>>

\* r.lost won the select.
ReadLost(r) ==
    /\ pc[r] = "reading" /\ lost[r]
    /\ EndRound(r, "fenced")
    /\ UNCHANGED <<readModel, server, leaseVars, stopVars, faults>>

\* Mutant: Stop drops the pending frames.
StreamEnds_DropsPending(r) ==
    /\ pc[r] = "reading"
    /\ \/ ctxDone[r] /\ UNCHANGED faults
       \/ Fault
    /\ CloseStream(r)
    /\ Go(r, "open")
    /\ UNCHANGED <<readModel, server, leaseVars, stopVars, batch>>

\* The stream ended, or Stop ended it: what is pending is processed first.
StreamEnds(r) ==
    /\ pc[r] = "reading"
    /\ \/ ctxDone[r] /\ UNCHANGED faults
       \/ Fault
    /\ CloseStream(r)
    /\ Go(r, IF at[r] < taken[r] THEN FirstStage ELSE "open")
    /\ UNCHANGED <<readModel, server, leaseVars, stopVars, batch>>

\* A poll answers at most BatchSize events, and the global state with them; a
\* managed batch looks at that state only when it has an event of Global.
Poll(r) ==
    /\ pc[r] = "open" /\ polling[r] /\ ~lost[r] /\ ~ctxDone[r] /\ ~Stale(r)
    /\ \E e \in (cursor + 1)..LastSeq :
        /\ e - cursor <= BatchSize
        /\ at' = [at EXCEPT ![r] = cursor]
        /\ taken' = [taken EXCEPT ![r] = e]
    /\ states' = [states EXCEPT ![r][Global] = saved[Global]]
    /\ loaded' = [loaded EXCEPT ![r] = {Global}]
    /\ Go(r, FirstStage)
    /\ UNCHANGED <<readModel, server, leaseVars, stopVars, intake, faults>>

\* An auth error of a pull or of a request of the batch ends the runner.
LoopFatal(r) ==
    /\ pc[r] \in {"open", "loading", "committing"} /\ Fault
    /\ EndRound(r, "leaving")
    /\ UNCHANGED <<readModel, server, leaseVars, stopVars>>
-----------------------------------------------------------------------------
(* processManaged and processExternal: one batch. *)

\* The partitions of the batch.
BatchPartitions(r) == {PartitionOf[s] : s \in (at[r] + 1)..taken[r]}

\* One GetProjection: the global state first (processBatch), then the others
\* concurrently (loadPartitionStates).  None of them asks for the lease.
Load(r, p) ==
    /\ pc[r] = "loading" /\ ~workDone[r]
    /\ p \in BatchPartitions(r) \ loaded[r]
    /\ Global \in BatchPartitions(r) \ loaded[r] => p = Global
    /\ states' = [states EXCEPT ![r][p] = saved[p]]
    /\ loaded' = [loaded EXCEPT ![r] = @ \cup {p}]
    /\ UNCHANGED <<readModel, server, pc, leaseVars, stopVars, intake, at, taken, faults>>

\* Mutant: a failed load falls back to the initial state.
Loaded_Partly(r) ==
    /\ pc[r] = "loading"
    /\ Go(r, "reducing")
    /\ UNCHANGED <<readModel, server, leaseVars, stopVars, intake, batch, faults>>

\* Every load has returned before the first event is reduced.
Loaded(r) ==
    /\ pc[r] = "loading" /\ BatchPartitions(r) \subseteq loaded[r]
    /\ Go(r, "reducing")
    /\ UNCHANGED <<readModel, server, leaseVars, stopVars, intake, batch, faults>>

\* a+1..e is the first run of consecutive events of one partition in a+1..t.
IsRun(a, e, t) ==
    /\ OnePartition(a, e)
    /\ e < t => PartitionOf[e + 1] # PartitionOf[e]

\* The handler reduces the next run; events are in seq order (SortStableFunc).
Reduce(r) ==
    /\ pc[r] = "reducing" /\ mode = "managed"
    /\ \E e \in (at[r] + 1)..taken[r] :
        /\ IsRun(at[r], e, taken[r])
        /\ states' = [states EXCEPT ![r][PartitionOf[e]] = @ \o Span(at[r], e)]
        /\ at' = [at EXCEPT ![r] = e]
    /\ Go(r, "committing")
    /\ UNCHANGED <<readModel, server, leaseVars, stopVars, intake, taken, loaded, faults>>

\* One call of an external handler, after the checks before it.
Handle(r) ==
    /\ pc[r] = "reducing" /\ mode = "external" /\ ~lost[r] /\ ~workDone[r]
    /\ handled' = handled \cup {at[r] + 1}
    /\ at' = [at EXCEPT ![r] = @ + 1]
    /\ Go(r, IF at'[r] = taken[r] THEN "committing" ELSE "reducing")
    /\ UNCHANGED <<mode, cursor, saved, server, leaseVars, stopVars, intake,
                   taken, states, loaded, faults>>

\* leaseLost before an external handler and before a save or an ack.
BatchLost(r) ==
    /\ lost[r]
    /\ pc[r] = "committing" \/ (pc[r] = "reducing" /\ mode = "external")
    /\ EndRound(r, "fenced")
    /\ UNCHANGED <<readModel, server, leaseVars, stopVars, faults>>

\* Mutant: the save carries no lease (withLease), so the server cannot fence it.
Applied_WithoutLease(r) ==
    /\ ~lost[r] /\ ~workDone[r]
    /\ cursor' = at[r]
    /\ saved' = IF mode = "managed"
                THEN [saved EXCEPT ![PartitionOf[at[r]]] = states[r][PartitionOf[at[r]]]]
                ELSE saved
    /\ UNCHANGED <<mode, handled>>

\* The server takes a SaveProjectionState or an AckProjectionEvents: the state
\* of the run's partition and the cursor in one step.
Applied(r) ==
    /\ ~lost[r] /\ ~workDone[r] /\ ~Stale(r)
    /\ cursor' = at[r]
    /\ saved' = IF mode = "managed"
                THEN [saved EXCEPT ![PartitionOf[at[r]]] = states[r][PartitionOf[at[r]]]]
                ELSE saved
    /\ UNCHANGED <<mode, handled>>

\* The save or ack is answered: next run, next batch, or the end of the read.
Commit(r) ==
    /\ pc[r] = "committing" /\ Applied(r)
    /\ \/ /\ at[r] < taken[r]
          /\ Go(r, "reducing")
          /\ UNCHANGED <<states, loaded>>
       \/ /\ at[r] = taken[r]
          /\ Go(r, IF stream[r] THEN "reading" ELSE "open")
          /\ states' = [states EXCEPT ![r] = NoStates]
          /\ loaded' = [loaded EXCEPT ![r] = {}]
    /\ UNCHANGED <<server, leaseVars, stopVars, intake, at, taken, faults>>

\* The server applied it and the answer was lost.
CommitUnanswered(r) ==
    /\ pc[r] = "committing" /\ Applied(r) /\ Fault
    /\ EndRound(r, "open")
    /\ UNCHANGED <<server, leaseVars, stopVars>>

\* The server fences the save or ack.
CommitAborted(r) ==
    /\ pc[r] = "committing" /\ ~lost[r] /\ ~workDone[r] /\ Stale(r)
    /\ EndRound(r, "fenced")
    /\ UNCHANGED <<readModel, server, leaseVars, stopVars, faults>>

\* A load, a save, an ack or the handler failed, or Stop's time limit cancelled
\* the requests: the stream is dropped and the next one starts over.
BatchFails(r) ==
    /\ pc[r] \in BatchPlaces
    /\ \/ workDone[r] /\ (pc[r] = "reducing" => mode = "external") /\ UNCHANGED faults
       \/ Fault
    /\ EndRound(r, "open")
    /\ UNCHANGED <<readModel, server, leaseVars, stopVars>>
-----------------------------------------------------------------------------
(* The caller of Stop, the server and the machine. *)

\* Mutant: the renew goroutine runs on r.ctx.
Stop_EndsRenew(r) ==
    /\ pc[r] \notin {"idle", "done", "dead"} /\ ~ctxDone[r]
    /\ Cardinality({x \in Runners : ctxDone[x]}) < MaxStops
    /\ ctxDone' = [ctxDone EXCEPT ![r] = TRUE]
    /\ renewing' = [renewing EXCEPT ![r] = FALSE]
    /\ UNCHANGED <<readModel, server, pc, lease, lost, workDone, intake, batch, faults>>

Stop(r) ==
    /\ pc[r] \notin {"idle", "done", "dead"} /\ ~ctxDone[r]
    /\ Cardinality({x \in Runners : ctxDone[x]}) < MaxStops
    /\ ctxDone' = [ctxDone EXCEPT ![r] = TRUE]
    /\ UNCHANGED <<readModel, server, pc, leaseVars, workDone, intake, batch, faults>>

\* projectionStopTimeout passed first: the batch requests are cancelled.
StopTimesOut(r) ==
    /\ ctxDone[r] /\ ~workDone[r] /\ pc[r] \notin {"idle", "done", "dead"}
    /\ workDone' = [workDone EXCEPT ![r] = TRUE]
    /\ UNCHANGED <<readModel, server, pc, leaseVars, ctxDone, intake, batch, faults>>

\* The process is killed: none of its goroutines takes another step.
Crash(r) ==
    /\ pc[r] \notin {"idle", "done", "dead"} /\ Fault
    /\ EndRound(r, "dead")
    /\ renewing' = [renewing EXCEPT ![r] = FALSE]
    /\ UNCHANGED <<readModel, server, lease, lost, stopVars>>

\* The live lease was just granted to its holder, or is renewed by it.
Renewed ==
    \E r \in Runners : lease[r] = epoch /\ (renewing[r] \/ pc[r] = "granted")

\* A lease nobody renews expires.
Expire ==
    /\ held /\ ~Renewed
    /\ held' = FALSE
    /\ UNCHANGED <<readModel, epoch, streams, pc, leaseVars, stopVars, intake, batch, faults>>

\* A lease is lost although it is renewed: Renew comes too late, or a rebuild
\* of the projection takes it away.
Revoke ==
    /\ held /\ Renewed /\ Fault
    /\ held' = FALSE
    /\ UNCHANGED <<readModel, epoch, streams, pc, leaseVars, stopVars, intake, batch>>

-----------------------------------------------------------------------------
RunSteps(r) ==
    \/ Registered(r) \/ RegisterEnds(r) \/ Ask(r) \/ StandbyStops(r)
    \/ Granted(r) \/ Refused(r) \/ GrantLost(r) \/ AskFatal(r)
    \/ KeepGrant(r) \/ ReturnGrant(r) \/ StandBy(r) \/ Leave(r) \/ Release(r)
    \/ LoopEnds(r) \/ OpenStream(r) \/ Unsupported(r) \/ PullAborted(r)
    \/ Take(r) \/ Flush(r) \/ ReadLost(r) \/ StreamEnds(r) \/ Poll(r) \/ LoopFatal(r)
    \/ \E p \in Partitions : Load(r, p)
    \/ Loaded(r) \/ Reduce(r) \/ Handle(r) \/ BatchLost(r)
    \/ Commit(r) \/ CommitUnanswered(r) \/ CommitAborted(r) \/ BatchFails(r)

Next ==
    \/ \E r \in Runners :
        \/ Start(r) \/ RunSteps(r) \/ RenewAborted(r)
        \/ Stop(r) \/ StopTimesOut(r) \/ Crash(r)
    \/ Expire \/ Revoke

Spec == Init /\ [][Next]_vars

\* The run goroutine and the renewals keep going and handlers return.  A standby
\* that asks again every few seconds finds a free lease some time, and a lease
\* nobody renews expires.
FairSpec ==
    /\ Spec
    /\ \A r \in Runners :
        /\ WF_vars(RunSteps(r)) /\ WF_vars(RenewAborted(r))
        /\ SF_vars(Granted(r))
    /\ WF_vars(Expire)
-----------------------------------------------------------------------------
(* Properties. *)

Places == {"idle", "registering", "standby", "asking", "granted", "open", "reading",
           "loading", "reducing", "committing", "fenced", "leaving", "releasing",
           "done", "dead"}

\* The variables have their types.
TypeOK ==
    /\ mode \in {"managed", "external"} /\ cursor \in 0..LastSeq
    /\ saved \in [Partitions -> Seq(1..LastSeq)]
    /\ handled \in SUBSET (1..LastSeq)
    /\ epoch \in Nat /\ held \in BOOLEAN /\ streams \in BOOLEAN
    /\ pc \in [Runners -> Places]
    /\ lease \in [Runners -> Nat]
    /\ lost \in [Runners -> BOOLEAN] /\ renewing \in [Runners -> BOOLEAN]
    /\ ctxDone \in [Runners -> BOOLEAN] /\ workDone \in [Runners -> BOOLEAN]
    /\ polling \in [Runners -> BOOLEAN] /\ stream \in [Runners -> BOOLEAN]
    /\ at \in [Runners -> 0..LastSeq] /\ taken \in [Runners -> 0..LastSeq]
    /\ states \in [Runners -> [Partitions -> Seq(1..LastSeq)]]
    /\ loaded \in [Runners -> SUBSET Partitions]
    /\ faults \in 0..MaxFaults

\* A managed projection has every event up to the cursor in the state of its
\* partition exactly once and in order, although batches fail half way, saves
\* are applied without an answer, loads ask for no lease and a runner that lost
\* its lease keeps working for a while (SaveProjectionState, processManaged).
ExactlyOnce ==
    mode = "managed" =>
        \A p \in Partitions :
            /\ \A i, j \in DOMAIN saved[p] : i < j => saved[p][i] < saved[p][j]
            /\ {saved[p][i] : i \in DOMAIN saved[p]}
                    = {s \in 1..cursor : PartitionOf[s] = p}

\* The replicas together implement the abstract read model: the mapping is the
\* identity on its four variables.
ImplementsReadModel == ReadSpec

\* While a runner works on a batch it renews its lease, until the server takes
\* the lease away: also when Stop has given up waiting for the handler
\* (startRenew on r.detached).
HandlersAreCovered ==
    \A r \in Runners : pc[r] \in BatchPlaces => renewing[r] \/ lost[r]

\* Stop loses no event that was taken: if nothing failed and Stop's time limit
\* did not pass, a runner that has ended left none of its frames behind.
StopFlushes ==
    \A r \in Runners :
        pc[r] = "done" /\ faults = 0 /\ ~workDone[r] => taken[r] <= cursor

\* A runner that stays up and is not stopped gets the projection to the end of
\* the log, whatever happened to the holders of the lease before it.
CatchesUp ==
    \A r \in Runners :
        <>[](pc[r] \notin {"idle", "done", "dead"} /\ ~ctxDone[r])
            => []<>(cursor = LastSeq)

\* A stopped runner ends, in standby, in a batch or while it waits for frames.
StopEnds == \A r \in Runners : []<>(ctxDone[r] => pc[r] \in {"done", "dead"})
-----------------------------------------------------------------------------
(* The inductive invariant behind ImplementsReadModel. *)

InStream == BatchPlaces \cup {"reading"}

\* No two runners have the same grant, so at most one of them is not fenced.
LeasesDistinct ==
    /\ held => epoch > 0
    /\ \A r \in Runners : lease[r] <= epoch
    /\ \A r, q \in Runners : lease[r] # 0 /\ lease[r] = lease[q] => r = q

\* How far a runner is with what it has taken; states are loaded for one batch.
Positions ==
    \A r \in Runners :
        /\ pc[r] \in InStream => at[r] <= taken[r]
        /\ pc[r] \in {"loading", "reducing"} => at[r] < taken[r]
        /\ pc[r] \notin BatchPlaces => loaded[r] = {}

\* External: neither the cursor nor a runner, fenced or not, is ahead of the
\* handler.
HandledSoFar ==
    mode = "external" =>
        /\ 1..cursor \subseteq handled
        /\ \A r \in Runners : pc[r] \in InStream => 1..at[r] \subseteq handled

\* Managed: the runner that is not fenced starts from the saved cursor and from
\* the saved states, and holds one run more than they do before it saves.
InStep(r) ==
    mode = "managed" /\ ~Stale(r) =>
        /\ pc[r] \in InStream \ {"committing"} =>
            /\ at[r] = cursor
            /\ \A p \in loaded[r] : states[r][p] = saved[p]
        /\ pc[r] \in {"reducing", "committing"} => BatchPartitions(r) \subseteq loaded[r]
        /\ pc[r] = "committing" =>
            /\ cursor < at[r] /\ OnePartition(cursor, at[r])
            /\ states[r][PartitionOf[at[r]]]
                    = saved[PartitionOf[at[r]]] \o Span(cursor, at[r])
            /\ \A p \in loaded[r] \ {PartitionOf[at[r]]} : states[r][p] = saved[p]

HolderInStep == \A r \in Runners : InStep(r)

\* External: the runner that is not fenced is past the cursor when it acks.
HolderAhead ==
    \A r \in Runners :
        mode = "external" /\ ~Stale(r) =>
            /\ pc[r] \in InStream => cursor <= at[r]
            /\ pc[r] = "committing" => cursor < at[r]

\* A runner keeps renewing from the moment it starts to pull.
RenewsWhilePulling ==
    \A r \in Runners : pc[r] \in InStream \cup {"open"} => renewing[r] \/ lost[r]

\* The holder of the lease works on what the server has saved, and no runner is
\* ahead of the handler: the inductive invariant.
RunnerInv ==
    /\ TypeOK /\ LeasesDistinct /\ Positions /\ HandledSoFar
    /\ HolderInStep /\ HolderAhead /\ RenewsWhilePulling
=============================================================================
