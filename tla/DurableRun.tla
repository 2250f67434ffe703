----------------------------- MODULE DurableRun -----------------------------
(***************************************************************************)
(* One durable run of one function, executed by polling (pull) workers:    *)
(* the memoized step engine (step.go), the saga compensations, the job     *)
(* executor and its step checkpointer (job_executor.go) and the fenced     *)
(* HTTP reporter (worker.go), against the engine's run record, which is    *)
(* not part of the repository and is modelled from how the SDK uses it.    *)
(*                                                                         *)
(* The engine assigns the run to numbered executions (execution_seq).  An  *)
(* execution whose lease was lost keeps running until it learns of it, so  *)
(* several executions of the same handler are alive at once; updates can   *)
(* be lost, arrive after the worker gave up on them, or have their answer  *)
(* lost.                                                                   *)
(***************************************************************************)
EXTENDS Naturals, Sequences, FiniteSets

CONSTANTS
    Names,          \* names user code gives to steps
    Program,        \* the handler: the sequence of durable calls it makes
    MaxExec,        \* bound on the executions the engine hands out
    MaxAttempts,    \* job.MaxAttempts: the run's retry budget, 0 if unknown
    OnExhausted,    \* job.OnExhausted: "fail", "pause", or "" from an old engine
    CheckpointCap,  \* maxCheckpointSteps
    Faults,         \* what may go wrong in this instance, a subset of AllFaults
    NoId, NoMsg     \* the absent step id, the absent update

Execs == 1 .. MaxExec

\* The SDK's own prefix keeps a compensation's name apart from a step's.
StepNames == {"", "compensate:"} \X Names
Ids == StepNames \X Nat
Calls == [op : {"run", "sleep", "wait", "invoke", "invokeAsync", "compensate"}, name : Names]
Statuses == {"completed", "failed", "unencodable"}
Steps == [id : Ids, status : Statuses]
Rows == Steps \cup {[id |-> NoId, status |-> "missing"]}

AllFaults == {"crash",       \* a worker process dies
              "cancel",      \* Worker.Stop
              "expire",      \* a lease is lost while its execution may live on
              "network",     \* requests fail, answers get lost, updates are late
              "error",       \* the handler fails outside its steps
              "unencodable", \* a step's output or the result JSON cannot encode
              "payload"}     \* an invoke input or wait payload it cannot encode

ASSUME FaultsAssumption == Faults \subseteq AllFaults
ASSUME ProgramAssumption == Program \in Seq(Calls)
ASSUME BoundAssumption ==
    /\ MaxExec \in Nat \ {0}
    /\ MaxAttempts \in Nat
    /\ CheckpointCap \in Nat \ {0}
    /\ OnExhausted \in {"", "pause", "fail"}

VARIABLES
    \* The engine (external).
    rows,       \* the stored step rows, in sequence order
    status,     \* "ready", "running", "waiting", or one of Final
    seq,        \* execution_seq of the latest assignment
    attempt,    \* the attempt the next assignment carries
    waiting,    \* the call a yielded run waits for
    net,        \* updates sent and not yet handled by the engine
    \* Each execution.
    phase,      \* where execute() is
    memo,       \* completedSteps: the completed and the failed rows it was given
    base,       \* job.StepSequenceBase
    try,        \* job.Attempt
    pc,         \* the next call of the handler
    cur,        \* the id of the step or compensation whose body is running
    counters,   \* stepCounters
    executed,   \* executedSteps
    comps,      \* registered compensations, in order
    undo,       \* how many of them executeCompensations has still to visit
    outcome,    \* what the handler ended with
    cancelled,  \* the job context is done
    ckpt,       \* the checkpointer goroutine
    cursor,     \* stepCheckpointer.cursor
    put         \* the update whose answer the execution waits for

engine == <<rows, status, seq, attempt, waiting>>
local == <<phase, memo, base, try, pc, cur, counters, executed, comps, undo,
           outcome, cancelled, ckpt, cursor, put>>
vars == <<engine, net, local>>

Final == {"completed", "failed", "paused"}
Phases == {"unassigned", "acking", "handler", "body", "settling",
           "compensating", "undoing", "finishing", "reporting", "exited"}

Outcomes == [kind : {"none", "completed", "failed"}, retryable : BOOLEAN, id : {NoId}]
            \cup [kind : {"yielded"}, retryable : {FALSE}, id : Ids]
Running == [kind |-> "none", retryable |-> FALSE, id |-> NoId]
Completed == [kind |-> "completed", retryable |-> FALSE, id |-> NoId]
Failed(retryable) == [kind |-> "failed", retryable |-> retryable, id |-> NoId]
Yielded(id) == [kind |-> "yielded", retryable |-> FALSE, id |-> id]

\* A PUT of the job: a progress update has the outcome Running.
Updates == [seq : Execs, outcome : Outcomes, offset : Nat, steps : Seq(Steps)]

ASSUME NullAssumption == NoId \notin Ids /\ NoMsg \notin Updates

-----------------------------------------------------------------------------
(* Pure helpers. *)

IdsWith(s, st) == {s[i].id : i \in {j \in DOMAIN s : s[j].status = st}}

\* encodableSteps: the longest prefix of steps that JSON can encode.
EncodableLen(s) ==
    IF \E i \in 1 .. Len(s) : s[i].status = "unencodable"
    THEN (CHOOSE i \in 1 .. Len(s) :
              /\ s[i].status = "unencodable"
              /\ \A j \in 1 .. i - 1 : s[j].status # "unencodable") - 1
    ELSE Len(s)
EncodableSteps(s) == SubSeq(s, 1, EncodableLen(s))

\* Defect: the last attempt of a retryable failure is not terminal.
IsTerminalFailure_NonRetryable(retryable, att) == ~retryable

IsTerminalFailure(retryable, att) ==
    ~retryable \/ (OnExhausted = "fail" /\ MaxAttempts > 0 /\ att >= MaxAttempts)

\* Defects: the tail starts one step late, or ends one early.
Unsaved_Late(e) == SubSeq(executed[e], cursor[e] + 2, Len(executed[e]))
Unsaved_Short(e) == SubSeq(executed[e], cursor[e] + 1, Len(executed[e]) - 1)

Unsaved(e) == SubSeq(executed[e], cursor[e] + 1, Len(executed[e]))

\* The steps the next checkpoint carries.
Batch(e) ==
    LET t == Unsaved(e)
        n == IF Len(t) > CheckpointCap THEN CheckpointCap ELSE Len(t)
    IN  EncodableSteps(SubSeq(t, 1, n))

\* Defect: the offset ignores the cursor.
Update_AtBase(e, out, steps) ==
    [seq |-> e, outcome |-> out, offset |-> base[e], steps |-> steps]

Update(e, out, steps) ==
    [seq |-> e, outcome |-> out, offset |-> base[e] + cursor[e], steps |-> steps]

-----------------------------------------------------------------------------
(* The engine (external): assignment, lease expiry, timers and child runs. *)

Init ==
    /\ rows = <<>> /\ status = "ready" /\ seq = 0 /\ attempt = 1
    /\ waiting = NoId /\ net = {}
    /\ phase = [e \in Execs |-> "unassigned"]
    /\ memo = [e \in Execs |-> [completed |-> {}, failed |-> {}]]
    /\ base = [e \in Execs |-> 0]
    /\ try = [e \in Execs |-> 1]
    /\ pc = [e \in Execs |-> 1]
    /\ cur = [e \in Execs |-> NoId]
    /\ counters = [e \in Execs |-> [n \in StepNames |-> 0]]
    /\ executed = [e \in Execs |-> <<>>]
    /\ comps = [e \in Execs |-> <<>>]
    /\ undo = [e \in Execs |-> 0]
    /\ outcome = [e \in Execs |-> Running]
    /\ cancelled = [e \in Execs |-> FALSE]
    /\ ckpt = [e \in Execs |-> "off"]
    /\ cursor = [e \in Execs |-> 0]
    /\ put = [e \in Execs |-> NoMsg]

\* The rows of calls the engine resolves itself: only those may come back failed.
InvokeIds == {<<<<"", Program[k].name>>, i>> :
                 k \in {j \in DOMAIN Program : Program[j].op \in {"invoke", "invokeAsync"}},
                 i \in 0 .. Len(Program)}

\* A poll hands the run to a worker with the completed rows (and the failed
\* invoke rows) stored so far and the sequence number the next row gets.
Assign ==
    /\ status = "ready" /\ seq < MaxExec
    /\ seq' = seq + 1
    /\ status' = "running"
    /\ phase' = [phase EXCEPT ![seq'] = "acking"]
    /\ memo' = [memo EXCEPT ![seq'] =
                   [completed |-> IdsWith(rows, "completed"),
                    failed |-> IdsWith(rows, "failed") \cap InvokeIds]]
    /\ base' = [base EXCEPT ![seq'] = Len(rows)]
    /\ try' = [try EXCEPT ![seq'] = attempt]
    /\ UNCHANGED <<rows, attempt, waiting, net, pc, cur, counters, executed,
                   comps, undo, outcome, cancelled, ckpt, cursor, put>>

\* The scanner takes the run back from an execution it no longer hears from:
\* one that is gone or, with "expire", one that may live on.
LeaseExpires ==
    /\ status = "running"
    /\ "expire" \in Faults \/ phase[seq] = "exited"
    /\ status' = "ready"
    /\ UNCHANGED <<rows, seq, attempt, waiting, net, local>>

\* A timer fires, an awaited event or a child run's result arrives.
Wake(st) ==
    /\ status = "waiting"
    /\ st = "failed" => waiting \in InvokeIds
    /\ rows' = Append(rows, [id |-> waiting, status |-> st])
    /\ status' = "ready" /\ waiting' = NoId
    /\ UNCHANGED <<seq, attempt, net, local>>

Current(e) == e = seq /\ status = "running"

\* Rows are written by sequence number, so a repeated update rewrites them.
StoreRows(m) ==
    LET top == m.offset + Len(m.steps)
        n == IF top > Len(rows) THEN top ELSE Len(rows)
    IN  [i \in 1 .. n |->
            IF i > m.offset /\ i <= top THEN m.steps[i - m.offset]
            ELSE IF i <= Len(rows) THEN rows[i]
            ELSE [id |-> NoId, status |-> "missing"]]

\* What an update of the current execution does to the run.
RecordOutcome(m) ==
    LET out == m.outcome IN
    /\ status' = CASE out.kind = "none" -> "running"
                   [] out.kind = "completed" -> "completed"
                   [] out.kind = "yielded" -> "waiting"
                   [] out.kind = "failed" /\ ~out.retryable -> "failed"
                   [] out.kind = "failed" /\ out.retryable ->
                        IF MaxAttempts > 0 /\ attempt >= MaxAttempts
                        THEN IF OnExhausted = "fail" THEN "failed" ELSE "paused"
                        ELSE "ready"
    /\ attempt' = IF status' = "ready" THEN attempt + 1 ELSE attempt
    /\ waiting' = IF status' = "waiting" THEN out.id ELSE NoId
    /\ rows' = StoreRows(m)

\* The engine handles an update: it refuses one whose fence is stale.
EngineHandles(m) ==
    IF Current(m.seq)
    THEN RecordOutcome(m) /\ UNCHANGED seq
    ELSE UNCHANGED engine

-----------------------------------------------------------------------------
(* The worker's HTTP updates. *)

Send(e, m) ==
    /\ net' = net \cup {m}
    /\ put' = [put EXCEPT ![e] = m]

\* The execution gets its answer.  A progress update that succeeded moves the
\* cursor; STALE_EXECUTION cancels the job and is reported as success.
PutAnswered(m) ==
    LET e == m.seq IN
    /\ m \in net /\ put[e] = m
    /\ net' = net \ {m}
    /\ EngineHandles(m)
    /\ put' = [put EXCEPT ![e] = NoMsg]
    /\ cancelled' = [cancelled EXCEPT ![e] = @ \/ ~Current(e)]
    /\ IF phase[e] = "reporting"
       THEN /\ phase' = [phase EXCEPT ![e] = "exited"]
            /\ UNCHANGED <<ckpt, cursor>>
       ELSE /\ ckpt' = [ckpt EXCEPT ![e] = "ticking"]
            /\ cursor' = [cursor EXCEPT ![e] = @ + Len(m.steps)]
            /\ UNCHANGED phase
    /\ UNCHANGED <<memo, base, try, pc, cur, counters, executed, comps, undo,
                   outcome>>

\* The engine handles an update whose answer reaches nobody: the connection
\* broke, or the worker gave up earlier and the update arrives late.
PutUnanswered(m) ==
    /\ m \in net
    /\ "network" \in Faults \/ put[m.seq] # m
    /\ net' = net \ {m}
    /\ EngineHandles(m)
    /\ UNCHANGED local

\* The request fails on the worker's side: connection error, timeout, any
\* other error status, or the job context ended.
PutGivesUp(e) ==
    /\ put[e] # NoMsg
    /\ "network" \in Faults \/ cancelled[e]
    /\ put' = [put EXCEPT ![e] = NoMsg]
    /\ IF phase[e] = "reporting"
       THEN phase' = [phase EXCEPT ![e] = "exited"] /\ UNCHANGED ckpt
       ELSE ckpt' = [ckpt EXCEPT ![e] = "ticking"] /\ UNCHANGED phase
    /\ UNCHANGED <<engine, net, memo, base, try, pc, cur, counters, executed,
                   comps, undo, outcome, cancelled, cursor>>

-----------------------------------------------------------------------------
(* Job execution: assignment ack and the handler's durable calls. *)

\* A fenced assignment is acknowledged before user code runs; a failed or
\* stale ack drops the job.  The checkpointer starts with the execution.
AckAssignment(e) ==
    /\ phase[e] = "acking" /\ Current(e) /\ ~cancelled[e]
    /\ phase' = [phase EXCEPT ![e] = "handler"]
    /\ ckpt' = [ckpt EXCEPT ![e] = "ticking"]
    /\ UNCHANGED <<engine, net, memo, base, try, pc, cur, counters, executed,
                   comps, undo, outcome, cancelled, cursor, put>>

\* An assignment for a function this worker does not have fails the run.
FunctionNotFound(e) ==
    /\ "error" \in Faults
    /\ phase[e] = "acking" /\ Current(e) /\ ~cancelled[e]
    /\ phase' = [phase EXCEPT ![e] = "reporting"]
    /\ outcome' = [outcome EXCEPT ![e] = Failed(FALSE)]
    /\ Send(e, Update(e, Failed(FALSE), <<>>))
    /\ UNCHANGED <<engine, memo, base, try, pc, cur, counters, executed,
                   comps, undo, cancelled, ckpt, cursor>>

AckFails(e) ==
    /\ phase[e] = "acking"
    /\ "network" \in Faults \/ cancelled[e] \/ ~Current(e)
    /\ phase' = [phase EXCEPT ![e] = "exited"]
    /\ UNCHANGED <<engine, net, memo, base, try, pc, cur, counters, executed,
                   comps, undo, outcome, cancelled, ckpt, cursor, put>>

\* The handler returns or panics with out.
HandlerEnds(e, out) ==
    /\ phase' = [phase EXCEPT ![e] = "settling"]
    /\ outcome' = [outcome EXCEPT ![e] = out]

\* generateStepID: the per-name counter makes repeated names distinct.
StepId_Unnumbered(e, n) == <<n, 0>>  \* defect: no per-name counter
StepId(e, n) == <<n, counters[e][n]>>
ClaimId(e, n) == counters' = [counters EXCEPT ![e][n] = @ + 1]

AtCall(e, op) ==
    /\ phase[e] = "handler" /\ ~cancelled[e]
    /\ pc[e] <= Len(Program) /\ Program[pc[e]].op = op

CallName(e) == <<"", Program[pc[e]].name>>

Memoized_Never(e, id) == FALSE  \* defect: the memoized row is not consulted
Memoized(e, id) == id \in memo[e].completed

\* Run: a completed row replays, anything else runs the body.
Run(e) ==
    LET id == StepId(e, CallName(e)) IN
    /\ AtCall(e, "run")
    /\ ClaimId(e, CallName(e))
    /\ IF Memoized(e, id)
       THEN pc' = [pc EXCEPT ![e] = @ + 1] /\ UNCHANGED <<phase, cur>>
       ELSE /\ phase' = [phase EXCEPT ![e] = "body"]
            /\ cur' = [cur EXCEPT ![e] = id]
            /\ UNCHANGED pc
    /\ UNCHANGED <<engine, net, memo, base, try, executed, comps, undo,
                   outcome, cancelled, ckpt, cursor, put>>

Record(e, st) ==
    executed' = [executed EXCEPT ![e] = Append(@, [id |-> cur[e], status |-> st])]

\* The body returns a value, which JSON may be unable to encode.
RunSucceeds(e, st) ==
    /\ phase[e] = "body"
    /\ st = "unencodable" => "unencodable" \in Faults
    /\ Record(e, st)
    /\ pc' = [pc EXCEPT ![e] = @ + 1]
    /\ phase' = [phase EXCEPT ![e] = "handler"]
    /\ cur' = [cur EXCEPT ![e] = NoId]
    /\ UNCHANGED <<engine, net, memo, base, try, counters, comps, undo,
                   outcome, cancelled, ckpt, cursor, put>>

\* The body returns an error or exceeds its timeout; the handler passes the
\* error on.
RunFails(e, retryable) ==
    /\ phase[e] = "body"
    /\ Record(e, "failed")
    /\ HandlerEnds(e, Failed(retryable))
    /\ cur' = [cur EXCEPT ![e] = NoId]
    /\ UNCHANGED <<engine, net, memo, base, try, pc, counters, comps, undo,
                   cancelled, ckpt, cursor, put>>

\* A call the engine resolves: a completed row replays, a failed row is raised
\* as a non-retryable InvokeError where raises allows one, and without a row
\* the handler is unwound by a yield.
Await(e, op, raises) ==
    LET id == StepId(e, CallName(e))
        raised == raises /\ id \in memo[e].failed
    IN
    /\ AtCall(e, op)
    /\ ClaimId(e, CallName(e))
    /\ \/ /\ Memoized(e, id)
          /\ pc' = [pc EXCEPT ![e] = @ + 1]
          /\ UNCHANGED <<phase, outcome>>
       \/ /\ ~Memoized(e, id) /\ raised
          /\ HandlerEnds(e, Failed(FALSE))
          /\ UNCHANGED pc
       \/ /\ ~Memoized(e, id) /\ ~raised
          /\ HandlerEnds(e, Yielded(id))
          /\ UNCHANGED pc
    /\ UNCHANGED <<engine, net, memo, base, try, cur, executed, comps, undo,
                   cancelled, ckpt, cursor, put>>

\* A polled job has no resume context: a sleep that fired comes back as a row.
Sleep(e) == Await(e, "sleep", FALSE)
WaitForEvent(e) == Await(e, "wait", FALSE)
Invoke(e) == Await(e, "invoke", TRUE)
InvokeAsync(e) == Await(e, "invokeAsync", TRUE)

\* Compensate only registers.
Compensate(e) ==
    /\ phase[e] = "handler" /\ pc[e] <= Len(Program)
    /\ Program[pc[e]].op = "compensate"
    /\ comps' = [comps EXCEPT ![e] = Append(@, Program[pc[e]].name)]
    /\ pc' = [pc EXCEPT ![e] = @ + 1]
    /\ UNCHANGED <<engine, net, memo, base, try, phase, cur, counters,
                   executed, undo, outcome, cancelled, ckpt, cursor, put>>

\* The handler returns: a result after its last call, an error of its own at
\* any point between calls, or the cancellation error of the call it makes.
HandlerReturns(e, out) ==
    /\ phase[e] = "handler"
    /\ out.kind = "completed" => pc[e] > Len(Program)
    /\ HandlerEnds(e, out)
    /\ UNCHANGED <<engine, net, memo, base, try, pc, cur, counters, executed,
                   comps, undo, cancelled, ckpt, cursor, put>>

-----------------------------------------------------------------------------
(* execute() after the handler returned. *)

\* A cancelled job reports nothing.  A result, or a yield, that would carry
\* something JSON cannot encode becomes a non-retryable failure.  A terminal
\* failure runs the compensations first.
Settle(e, encodes) ==
    LET bad == \/ ~encodes
               \/ \E i \in DOMAIN executed[e] : executed[e][i].status = "unencodable"
        out == IF outcome[e].kind # "failed" /\ bad THEN Failed(FALSE)
               ELSE outcome[e]
        compensates == /\ out.kind = "failed" /\ comps[e] # <<>>
                       /\ IsTerminalFailure(out.retryable, try[e])
    IN
    /\ phase[e] = "settling"
    /\ encodes \/ (outcome[e].kind = "completed" /\ "unencodable" \in Faults)
    /\ \/ /\ cancelled[e]
          /\ phase' = [phase EXCEPT ![e] = "exited"]
          /\ UNCHANGED <<outcome, undo>>
       \/ /\ ~cancelled[e]
          /\ outcome' = [outcome EXCEPT ![e] = out]
          /\ phase' = [phase EXCEPT ![e] =
                          IF compensates THEN "compensating" ELSE "finishing"]
          /\ undo' = [undo EXCEPT ![e] = IF compensates THEN Len(comps[e]) ELSE 0]
    /\ UNCHANGED <<engine, net, memo, base, try, pc, cur, counters, executed,
                   comps, cancelled, ckpt, cursor, put>>

\* Defect: compensations are visited in registration order.
NextUndo_Forward(e) == comps[e][Len(comps[e]) - undo[e] + 1]
NextUndo(e) == comps[e][undo[e]]

\* One turn of executeCompensations: the latest compensation not yet visited,
\* skipped when its row is already completed.
Undo(e) ==
    LET n == <<"compensate:", NextUndo(e)>>
        id == StepId(e, n)
    IN
    /\ phase[e] = "compensating" /\ ~cancelled[e] /\ undo[e] > 0
    /\ ClaimId(e, n)
    /\ undo' = [undo EXCEPT ![e] = @ - 1]
    /\ IF Memoized(e, id)
       THEN UNCHANGED <<phase, cur>>
       ELSE /\ phase' = [phase EXCEPT ![e] = "undoing"]
            /\ cur' = [cur EXCEPT ![e] = id]
    /\ UNCHANGED <<engine, net, memo, base, try, pc, executed, comps, outcome,
                   cancelled, ckpt, cursor, put>>

\* A failed compensation is recorded and does not stop the others.
UndoReturns(e, st) ==
    /\ phase[e] = "undoing"
    /\ Record(e, st)
    /\ phase' = [phase EXCEPT ![e] = "compensating"]
    /\ cur' = [cur EXCEPT ![e] = NoId]
    /\ UNCHANGED <<engine, net, memo, base, try, pc, counters, comps, undo,
                   outcome, cancelled, ckpt, cursor, put>>

\* All visited, or the job was cancelled between two of them.
UndoEnds(e) ==
    /\ phase[e] = "compensating" /\ (undo[e] = 0 \/ cancelled[e])
    /\ phase' = [phase EXCEPT ![e] = IF cancelled[e] THEN "exited" ELSE "finishing"]
    /\ UNCHANGED <<engine, net, memo, base, try, pc, cur, counters, executed,
                   comps, undo, outcome, cancelled, ckpt, cursor, put>>

\* A failure whose unsaved steps cannot all be encoded is reported as the
\* non-retryable serialization failure, whatever it was before.
Reported(e) ==
    IF /\ outcome[e].kind = "failed"
       /\ \E i \in DOMAIN Unsaved(e) : Unsaved(e)[i].status = "unencodable"
    THEN Failed(FALSE)
    ELSE outcome[e]

\* finish() has waited for the checkpointer; what it left unsaved rides on
\* the terminal update.  A job cancelled meanwhile reports nothing.
Report(e) ==
    /\ phase[e] = "finishing" /\ ckpt[e] = "done"
    /\ IF cancelled[e]
       THEN phase' = [phase EXCEPT ![e] = "exited"] /\ UNCHANGED <<outcome, net, put>>
       ELSE /\ phase' = [phase EXCEPT ![e] = "reporting"]
            /\ outcome' = [outcome EXCEPT ![e] = Reported(e)]
            /\ Send(e, Update(e, Reported(e), EncodableSteps(Unsaved(e))))
    /\ UNCHANGED <<engine, memo, base, try, pc, cur, counters, executed, comps,
                   undo, cancelled, ckpt, cursor>>

\* A yield whose own payload cannot be encoded never leaves the worker: the
\* run stays with this execution until the lease expires.
YieldUnsent(e) ==
    /\ "payload" \in Faults
    /\ phase[e] = "finishing" /\ ckpt[e] = "done" /\ ~cancelled[e]
    /\ outcome[e].kind = "yielded"
    /\ phase' = [phase EXCEPT ![e] = "exited"]
    /\ UNCHANGED <<engine, net, memo, base, try, pc, cur, counters, executed,
                   comps, undo, outcome, cancelled, ckpt, cursor, put>>

-----------------------------------------------------------------------------
(* The checkpointer goroutine, cancellation and the death of the worker. *)

\* A tick with something to save.  The select may still pick a tick after
\* finish() closed stopCh.
Flush(e) ==
    /\ ckpt[e] = "ticking" /\ ~cancelled[e] /\ Batch(e) # <<>>
    /\ ckpt' = [ckpt EXCEPT ![e] = "putting"]
    /\ Send(e, Update(e, Running, Batch(e)))
    /\ UNCHANGED <<engine, phase, memo, base, try, pc, cur, counters, executed,
                   comps, undo, outcome, cancelled, cursor>>

\* Defect: only cancellation ends the checkpointer, stopCh does not.
CheckpointerStops_OnCancel(e) ==
    /\ ckpt[e] = "ticking" /\ cancelled[e]
    /\ ckpt' = [ckpt EXCEPT ![e] = "done"]
    /\ UNCHANGED <<engine, net, phase, memo, base, try, pc, cur, counters,
                   executed, comps, undo, outcome, cancelled, cursor, put>>

CheckpointerStops(e) ==
    /\ ckpt[e] = "ticking"
    /\ cancelled[e] \/ phase[e] \in {"finishing", "exited"}
    /\ ckpt' = [ckpt EXCEPT ![e] = "done"]
    /\ UNCHANGED <<engine, net, phase, memo, base, try, pc, cur, counters,
                   executed, comps, undo, outcome, cancelled, cursor, put>>

\* Worker.Stop cancels every active job.
Cancel(e) ==
    /\ "cancel" \in Faults
    /\ phase[e] \notin {"unassigned", "exited"} /\ ~cancelled[e]
    /\ cancelled' = [cancelled EXCEPT ![e] = TRUE]
    /\ UNCHANGED <<engine, net, phase, memo, base, try, pc, cur, counters,
                   executed, comps, undo, outcome, ckpt, cursor, put>>

\* The worker process dies; what it has sent is still on its way.
Crash(e) ==
    /\ "crash" \in Faults
    /\ phase[e] \notin {"unassigned", "exited"}
    /\ phase' = [phase EXCEPT ![e] = "exited"]
    /\ ckpt' = [ckpt EXCEPT ![e] = "done"]
    /\ put' = [put EXCEPT ![e] = NoMsg]
    /\ UNCHANGED <<engine, net, memo, base, try, pc, cur, counters, executed,
                   comps, undo, outcome, cancelled, cursor>>

\* What the job's goroutine does by itself, user code returning.
HandlerSteps(e) ==
    \/ AckAssignment(e) \/ FunctionNotFound(e) \/ AckFails(e)
    \/ Run(e) \/ Compensate(e)
    \/ Sleep(e) \/ WaitForEvent(e) \/ Invoke(e) \/ InvokeAsync(e)
    \/ \E st \in {"completed", "unencodable"} : RunSucceeds(e, st)
    \/ \E r \in BOOLEAN : RunFails(e, r)
    \/ HandlerReturns(e, Completed)
    \/ cancelled[e] /\ HandlerReturns(e, Failed(TRUE))
    \/ \E b \in BOOLEAN : Settle(e, b)
    \/ Undo(e) \/ UndoEnds(e)
    \/ \E st \in {"completed", "failed"} : UndoReturns(e, st)
    \/ Report(e) \/ YieldUnsent(e)

\* A request ends with an answer or an error.
PutEnds(e) == PutGivesUp(e) \/ (put[e] # NoMsg /\ PutAnswered(put[e]))

HandlerErrs(e) ==
    "error" \in Faults /\ \E r \in BOOLEAN : HandlerReturns(e, Failed(r))

EngineSteps ==
    \/ Assign \/ LeaseExpires
    \/ \E st \in {"completed", "failed"} : Wake(st)

Next ==
    \/ EngineSteps
    \/ \E m \in net : PutAnswered(m) \/ PutUnanswered(m)
    \/ \E e \in Execs : \/ HandlerSteps(e) \/ HandlerErrs(e)
                        \/ PutGivesUp(e) \/ Flush(e) \/ CheckpointerStops(e)
                        \/ Cancel(e) \/ Crash(e)

Spec == Init /\ [][Next]_vars

\* User code returns, requests end (the HTTP client has a timeout), the engine
\* keeps scheduling the run.  When a tick and stopCh are both ready, Go's
\* select picks at random, so the checkpointer cannot prefer ticks forever.
FairSpec ==
    /\ Spec
    /\ WF_vars(EngineSteps)
    /\ \A e \in Execs : /\ WF_vars(HandlerSteps(e))
                        /\ WF_vars(PutEnds(e))
                        /\ SF_vars(CheckpointerStops(e))

-----------------------------------------------------------------------------
(* Properties. *)

\* Every variable stays in its type, and what a step reads next is there: the
\* call a waiting run waits for, the id of a running body, the compensation to
\* visit next.
TypeOK ==
    /\ rows \in Seq(Rows) /\ status \in {"ready", "running", "waiting"} \cup Final
    /\ seq \in 0 .. MaxExec /\ attempt \in Nat \ {0}
    /\ waiting \in Ids \cup {NoId} /\ net \in SUBSET Updates
    /\ phase \in [Execs -> Phases]
    /\ memo \in [Execs -> [completed : SUBSET Ids, failed : SUBSET Ids]]
    /\ base \in [Execs -> Nat] /\ try \in [Execs -> Nat \ {0}]
    /\ pc \in [Execs -> Nat \ {0}]
    /\ cur \in [Execs -> Ids \cup {NoId}]
    /\ counters \in [Execs -> [StepNames -> Nat]]
    /\ executed \in [Execs -> Seq(Steps)]
    /\ comps \in [Execs -> Seq(Names)] /\ undo \in [Execs -> Nat]
    /\ outcome \in [Execs -> Outcomes]
    /\ cancelled \in [Execs -> BOOLEAN]
    /\ ckpt \in [Execs -> {"off", "ticking", "putting", "done"}]
    /\ cursor \in [Execs -> Nat]
    /\ put \in [Execs -> Updates \cup {NoMsg}]
    /\ status = "waiting" => waiting \in Ids
    /\ \A e \in Execs : /\ phase[e] \in {"body", "undoing"} => cur[e] \in Ids
                        /\ undo[e] <= Len(comps[e])

\* A step or a compensation whose completed row is stored is never run again
\* by the execution that holds the run: not on a retry, not after a resume,
\* not after a checkpoint whose answer was lost (runWithStepID and
\* executeCompensations consult completedSteps, ids never repeat).
NoReexecution ==
    \A e \in Execs : Current(e) /\ phase[e] \in {"body", "undoing"} =>
        cur[e] \notin IdsWith(rows, "completed")

\* The completed rows of r at positions in d have different ids.
OnceIn(r, d) ==
    \A i, j \in d :
        (r[i].status = "completed" /\ r[j].status = "completed" /\ r[i].id = r[j].id)
        => i = j

\* A step is recorded completed at most once over all executions, lost
\* answers, resent checkpoints and late updates.
CompletedOnce == OnceIn(rows, DOMAIN rows)

\* The offsets of checkpoints and terminal updates leave no hole in the
\* stored rows (base + cursor never runs ahead of what the engine stored).
NoGap == \A i \in DOMAIN rows : rows[i].status # "missing"

\* Stored history is append-only: a resent, late or shorter update of the
\* same execution rewrites rows with what they already hold.
RowsAppendOnly ==
    [][Len(rows') >= Len(rows) /\ \A i \in DOMAIN rows : rows'[i] = rows[i]]_rows

\* The id of the program's k-th call.
ProgramId(k) ==
    <<<<"", Program[k].name>>,
      Cardinality({j \in 1 .. k - 1 : /\ Program[j].op # "compensate"
                                      /\ Program[j].name = Program[k].name})>>

\* A run the engine shows as completed has a completed row for every durable
\* call of its handler: no step is lost between checkpoints and the terminal
\* update's tail.
CompletedRunIsDurable ==
    status = "completed" =>
        \A k \in DOMAIN Program : Program[k].op # "compensate" =>
            ProgramId(k) \in IdsWith(rows, "completed")

IsCompensation(id) == id[1][1] = "compensate:"
CompensationId(n) == <<<<"compensate:", n>>, 0>>

\* Compensations run in reverse registration order, and only after the handler
\* ended in a terminal failure (for programs that register a name once).
CompensatesInReverse ==
    \A e \in Execs : \A i \in DOMAIN executed[e] :
        IsCompensation(executed[e][i].id) =>
            /\ outcome[e].kind = "failed"
            /\ IsTerminalFailure(outcome[e].retryable, try[e])
            /\ \A j \in 1 .. i - 1 : IsCompensation(executed[e][j].id) =>
                 \E a, b \in DOMAIN comps[e] :
                    /\ a > b
                    /\ executed[e][j].id = CompensationId(comps[e][a])
                    /\ executed[e][i].id = CompensationId(comps[e][b])

\* README: compensations run "on terminal failure".  When a run has ended
\* failed, every compensation its last execution had registered was completed
\* by an earlier execution or tried by this one.
FailedRunCompensated ==
    status = "failed" =>
        \A i \in DOMAIN comps[seq] :
            CompensationId(comps[seq][i]) \in
                memo[seq].completed \cup IdsWith(executed[seq], "completed")
                                    \cup IdsWith(executed[seq], "failed")

\* README: "Each compensation is recorded as a durable step".  When a run has
\* ended failed, each compensation its last execution ran has a stored row.
CompensationsRecorded ==
    status = "failed" =>
        \A i \in DOMAIN executed[seq] : IsCompensation(executed[seq][i].id) =>
            \E j \in DOMAIN rows : rows[j] = executed[seq][i]

\* The failures of the handler's own steps the history shows.
FailedRows == {i \in DOMAIN rows :
                  rows[i].status = "failed" /\ ~IsCompensation(rows[i].id)}

\* Every attempt of the retry budget that was used up left a failed step of its
\* own in the stored history, so neither Stop, nor a crash, a lost lease or an
\* update that arrives late or whose answer is lost costs the run an attempt or
\* pauses it, and no failure is counted twice (for handlers that fail in their
\* steps only).
AttemptsAreFailures ==
    attempt - 1 + (IF status = "paused" THEN 1 ELSE 0) <= Cardinality(FailedRows)

\* When no request, answer or worker is lost, the run reaches a final state.
RunEnds == <>(status \in Final)

-----------------------------------------------------------------------------
(* The inductive invariant behind NoReexecution, CompletedOnce, NoGap and    *)
(* RowsAppendOnly.                                                           *)

\* An execution that has not started has done nothing.
Untouched(e) ==
    /\ counters[e] = [n \in StepNames |-> 0] /\ executed[e] = <<>>
    /\ cursor[e] = 0 /\ put[e] = NoMsg /\ outcome[e] = Running
    /\ ckpt[e] = "off"
StageOK(e) ==
    /\ e > seq => phase[e] = "unassigned" /\ Untouched(e)
    /\ phase[e] = "acking" => Untouched(e)
    /\ outcome[e].kind = "yielded" =>
         phase[e] \in {"settling", "finishing", "reporting", "exited"}
    /\ phase[e] = "reporting" => ckpt[e] \in {"off", "done"}
    /\ put[e] # NoMsg =>
         /\ put[e].seq = e
         /\ \/ phase[e] = "reporting"
            \/ ckpt[e] = "putting" /\ put[e].offset = base[e] + cursor[e]
StagesOK == \A e \in Execs : StageOK(e)

\* The ids an execution has in use were claimed from its counters, are all
\* different, and are not among the completed rows it was given.
Fresh(e, id) ==
    /\ id[2] < counters[e][id[1]]
    /\ id \notin memo[e].completed
    /\ \A i \in DOMAIN executed[e] : executed[e][i].id # id
FreshOK(e) ==
    /\ phase[e] \in {"body", "undoing"} => Fresh(e, cur[e])
    /\ outcome[e].kind = "yielded" => Fresh(e, outcome[e].id)
    /\ \A i \in DOMAIN executed[e] :
         LET id == executed[e][i].id IN
         /\ id[2] < counters[e][id[1]]
         /\ id \notin memo[e].completed
         /\ \A j \in DOMAIN executed[e] : executed[e][j].id = id => i = j
IdsFresh == \A e \in Execs : FreshOK(e)

\* An update carries a slice of what its execution recorded, and the outcome
\* the execution ended with.
SliceOf(m) ==
    LET e == m.seq IN
    /\ e <= seq
    /\ m.offset >= base[e]
    /\ m.offset + Len(m.steps) <= base[e] + Len(executed[e])
    /\ \A i \in 1 .. Len(m.steps) :
         m.steps[i] = executed[e][m.offset - base[e] + i]
    /\ m.outcome.kind # "none" =>
         m.outcome = outcome[e] /\ phase[e] \in {"reporting", "exited"}
UpdatesAreSlices ==
    /\ \A m \in net : SliceOf(m)
    /\ \A e \in Execs : /\ put[e] # NoMsg => SliceOf(put[e])
                        /\ cursor[e] <= Len(executed[e])

\* While an execution holds the run, the rows after its base are a prefix of
\* what it recorded, the completed ones before are those it was given, and
\* neither its cursor nor an update on its way is ahead of them.
Holds(e, r) ==
    /\ base[e] <= Len(r) /\ Len(r) <= base[e] + Len(executed[e])
    /\ \A i \in base[e] + 1 .. Len(r) : r[i] = executed[e][i - base[e]]
    /\ \A i \in 1 .. base[e] : r[i].status = "completed" => r[i].id \in memo[e].completed
RowsMatch ==
    \A e \in Execs : Current(e) =>
        /\ Holds(e, rows)
        /\ base[e] + cursor[e] <= Len(rows)
        /\ \A m \in net : m.seq = e => m.offset <= Len(rows)

\* A run that waits, waits for a call that has no completed row.
WaitsForNew ==
    status = "waiting" => waiting \notin IdsWith(rows, "completed")

DurableInv ==
    /\ StagesOK /\ IdsFresh /\ UpdatesAreSlices /\ RowsMatch /\ WaitsForNew
    /\ CompletedOnce /\ NoGap
=============================================================================
