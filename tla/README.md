# Verification of the Ironflow Go SDK

TLA+ models of the parts of `src/ironflow` where state is shared between
goroutines, processes and the engine: the durable step engine with its
executor and checkpointer, its fan-outs, the two workers, the projection runner,
the subscription client, the consumer-group stream and command deduplication. TLC
checks them on small instances; TLAPS proves every safety property of a passing run for
every value of the constants, some under hypotheses named with the proof. What is left to
TLC alone is liveness.

The engine (the Ironflow server) is not in the repository. Each model has the
few engine operations the SDK calls, taken from how the SDK uses them, and marked
`external` in `PROJECT.json`.

## The system

| part | source | state it keeps | operations | talks to |
|---|---|---|---|---|
| step engine | `step.go`, `encode_guard.go` | per-name step counters, memo of completed steps, executed steps, registered compensations | Run, Sleep, WaitForEvent, Invoke, InvokeAsync, Compensate, executeCompensations, Publish | the executor, by yields (panics) and errors |
| job executor, step checkpointer | `job_executor.go`, `errors.go` | outcome of the handler, checkpoint cursor, the checkpointer goroutine | execute, flush, finish, tail, report | the reporter of the worker |
| polling worker | `worker.go` | worker state, job count and active jobs, heartbeat loop, projection runners, execution fence | Run, connect, pollForJobs, processJob, heartbeats, Drain, Stop | engine over HTTP |
| streaming worker | `worker_streaming.go` | worker state, connection, bounded send queue, job count, drain and flush channels | Run, connectStream, recvLoop, sendLoop, handleJobAssignment, Shutdown, Drain, Stop | engine over one bidirectional stream |
| projection runner | `projection_runner.go`, `projection.go` | lease, lost signal, renewal goroutine, batch, partition states | Start, acquireLease, streamLoop, pollLoop, processManaged, processExternal, Stop | engine: lease, event stream, save, ack |
| parallel branches | `parallel.go` | branch scopes and counters, semaphore, cancelled flag, depth and claims of fan-outs | Parallel, Map, their nested forms, RunWithBranch, SleepWithBranch, CompensateInBranch | the step engine |
| consumer-group stream | `consumer_group_stream*.go` | the current stream, copies delivered on it, pending acks, the pump's queue | open, run, read, pump, settle, applyResult, unsubscribe | engine over a stream |
| subscription client | `subscribe*.go` | pending attempts, subscriptions by ID and by pattern, cursors, connection | Connect, Subscribe, Unsubscribe, Close, readMessages, reconnect, resubscribe | engine over WebSocket or ConnectRPC |
| push handler | `handler.go`, `serve.go`, `signature.go` | none between requests | one execution per request | the step engine |
| store, command dedup | `kv.go`, `command_dedup.go` | claims in the engine's store | TryClaim, Finalize, Release, Watch | engine over HTTP |
| agent toolkit | `agent/` | tool registry, memory in the store | tool loop, spawn, approvals | step engine, store |
| API and administration clients, types | the rest | none | single requests | engine |

The workers receive assignments, hand each to the executor in a goroutine of its
own, and the executor runs the user's handler on the step engine. A worker also
starts the projection runners of its configuration. Subscriptions, consumer groups
and the store are used by applications directly, and by the agent toolkit.

### What is hard here

* A lease can be lost while the execution lives on, so two executions of one
  handler run side by side; only the execution fence tells their updates apart.
* An HTTP update may be stored without its answer arriving, or arrive after the
  worker gave up on it, and the terminal update can overtake a checkpoint.
* Replay depends on step ids coming out equal in every execution.
* Drain and Stop run next to polls, connects, heartbeats and assignments that are
  already on their way.
* A bounded send queue is filled by goroutines that must not block the reader.
* Projection replicas compete for a lease; a stopped runner's handler may run on.
* Branches are goroutines, and another order of theirs in the next execution must
  find the same rows and report the same yield.
* A subscription outlives its connection: requests in flight, results that come
  late and IDs of the connection before have to be told apart.
* An ack may be applied though its caller got a timeout, the server says OK to an
  ack of an event that is not out on this stream, and a redelivery may overtake
  the result of the first copy's ack.
* A request to the store that failed may have been stored.

`PROJECT.json` lists these as hazards, each at its line, with the properties that
would catch it going wrong.

### What correct means, part by part

* Step engine and executor: no completed step runs again; each step is recorded
  once; the history has no hole and is never rewritten; a completed run has a row
  for each of its calls; compensations run in reverse on exactly the terminal
  failures and are recorded; only failures of its steps cost a run attempts; executions end.
* Workers: the concurrency limit holds; a drain that saw no job starts none; Stop
  reaches every job before it returns; a graceful close loses no result; Drain ends, and
  so do jobs the engine lets report; a forgotten polling worker registers again and its heartbeats cover it.
* Projection runner: each event is folded exactly once and in order by a managed
  projection, and handled before the cursor passes it by an external one; a
  running handler is covered by lease renewals; Stop flushes what was taken; a
  replica that stays up catches up.
* Fan-outs: what an execution reports, which rows its steps replay and what a failed
  run undoes do not depend on the scheduler; no branch waits for a slot for good.
* Consumer-group stream: an Ack that returned nil settled the event; what was
  delivered can be settled; no member of the group outlives Unsubscribe; the
  goroutines end.
* Subscription client: a subscriber with a cursor sees the log without gap or
  repetition; the server keeps no subscription the client lost sight of; what the
  client has is restored after a reconnect.
* Command deduplication: one caller at a time works on a command, nobody after a
  result is stored, and an orphaned claim does not block it for good.

## Modules

| module | models |
|---|---|
| `DurableRun` | one run of one function over several executions: step engine, compensations, executor, checkpointer, HTTP reporter; the engine's rows and fence |
| `DurableRunProofs` | its theorems |
| `StreamingWorker` | the streaming worker's goroutines, one stream at a time |
| `StreamingWorkerProofs` | its theorems |
| `PollingWorker` | the polling worker's goroutines |
| `PollingWorkerProofs` | its theorems |
| `ReadModel` | abstract: what a projection promises, whoever runs it |
| `ProjectionRunner` | the replicas of a projection competing for its lease; refines `ReadModel` |
| `ProjectionRunnerProofs` | its theorems |
| `Parallel` | fan-outs of one run over several executions: branches, semaphore, yields, step ids, compensations, warnings |
| `ParallelProofs` | its theorems |
| `GroupStream` | one consumer-group subscription: run goroutine, pump, acking goroutines, Unsubscribe |
| `GroupStreamProofs` | its theorems |
| `Subscriptions` | the WebSocket subscription client: reader, reconnects, callers of one pattern, Close |
| `SubscriptionsProofs` | its theorems |
| `CommandOnce` | abstract: what deduplication promises for one command |
| `CommandDedup` | TryClaim, Finalize and Release over the store; refines `CommandOnce` |
| `CommandDedupProofs` | its theorems |
| `MC...` | handlers, event logs and symmetry for TLC |

Names ending in `_Something` (`Memoized_Never`) are defects: a mapped definition
with a plausible mistake, kept to show that each property notices one.

### DurableRun

The handler is the constant `Program`, a sequence of durable calls. Each execution
has the state of `executionContext` (`memo`, `counters`, `executed`, `comps`), of
the `stepCheckpointer` (`ckpt`, `cursor`) and of its HTTP request (`put`); `phase`
is where `execute` is. The rest is the engine: `rows`, `status`, `seq`, `attempt`,
`waiting`, and `net`, the updates on their way.

A call is an action (`Run`, `Sleep`, `WaitForEvent`, `Invoke`, `InvokeAsync`,
`Compensate`): it looks at cancellation, claims its id (`StepId`), and returns the
memoized row, runs the body, or yields. `HandlerEnds` and `HandlerReturns`,
`Settle`, `Undo`, `CheckpointerStops` and `Report` are the rest of `execute`, in
its order, with its cancellation checks. `Flush` is a checkpoint and
`EngineHandles` the engine's update endpoint.

A value is abstracted to whether JSON can encode it (`unencodable`), an id is the
pair of a name and a number, and a compensation's name has a prefix of its own.

The set `Faults` selects what may go wrong: process death, Stop, a lost lease,
lost and late requests and answers, handler errors, unencodable values and
unencodable yield payloads. The engine always takes a run back from an execution
that is gone; with `expire` also from one that lives on. No run has all of them at
once, which is out of TLC's reach; the proofs do.

### StreamingWorker

`run` is the goroutine of Run and connectStream, `recv` and `sender` its two loops,
`job` each job's goroutine, `drain` each call of Drain (the user's, a cancelled
context's, a Shutdown's). `outCh` is bounded; `waiters` are the goroutines enqueue
starts when it is full. `inbox` and `wire` are the two directions of the stream.
The receipt of an assignment is three steps (count, check, start), as in
`handleJobAssignment`, so that a drain can come between them. `owed` is auxiliary:
jobs whose result the engine has still to read.

stream.Send waits for flow control when the engine does not read: `Window` messages may be
unread before the send loop is held in the next Send (`SendBlocked`), until the engine
reads or the stream ends. The queue then fills, and jobs wait in `send`. A Drain's
deadline and Stop end the stream. Stop is one step here: it closes `stopCh`, waits for
the projection runners and then cancels the jobs, and a job that ends during the wait is
taken to have ended before it, as no property of this module tells the two apart.

### PollingWorker

`run` is the goroutine of Run, connect and pollForJobs, split where the code blocks
or another goroutine can come between a check and its use: the free slots are
counted before the poll, an answer is handed out job by job, `processJob` looks at
the state again. `beat` is the heartbeat loop of the newest connection and `late`
what replaced loops still have under way. The server may forget the worker.

`stop` is where each call of Stop is (the user's, a Drain's, Run's own). Stop stores the
state, cancels the run's context, enters its `sync.Once`, closes `stopCh`, takes the
projection runners and waits for them, up to five seconds, and only then walks over the
active jobs and cancels them; each is a step, so that the poll loop, a Drain or a second
Stop may come between. A second caller returns once the first is through.

### ReadModel and ProjectionRunner

`ReadModel` has the projection itself: mode, cursor, the events folded into each
partition (managed) and the events the handler was given (external). Its steps are
`Fold`, `HandleEvent` and `AckEvents`.

`ProjectionRunner` adds the replicas: `pc` is where a runner's goroutine is,
`renewing` the goroutine of `startRenew`, `ctxDone` and `workDone` the two contexts
Stop cancels, `at` and `taken` its position in what it took from the server. Load,
Reduce and Commit of a managed batch are separate steps; a load asks for no lease.
Streaming and polling share the batch path; `Unsupported` is the fallback.

Assumed of the engine: grants have a growing epoch; a pull, save or ack with an
old epoch is refused; a stream opens at the saved cursor and delivers in order; a
request the runner gave up on took effect before that or never does.

### Parallel

The constants are the tree of fan-outs (`Members`, `Scope`) and a set of
configurations: the code of each branch as a sequence of calls, the limit and
OnError of each fan-out, and the calls whose body fails. `at` is where the goroutine
of a branch is, `count` the counters of its scope, `rootCount` those of the
execution. `Start` is the semaphore and the look at `cancelled`, `End` what a result
does to the flag, `FanResult` what the fan-out returns once `wg.Wait` is over. `Warnings`
is `warnUnscopedBranches`: a configuration gives each fan-out its name and whether it opts
out (SkipScopedClientCheck), and a name is warned about once (`warned`). Map is
Parallel over its items. A branch belongs to one fan-out (`ParallelAssumption`), as each
call of Parallel makes its own. How steps are stored is `DurableRun`'s matter; here the
executions follow each other, and the engine keeps all completed steps of one that
reports and a prefix of one that dies. `RunResult`, the reference for
`ReportIsScheduleFree`, computes the outcome from the branches one by one.

### GroupStream

`run` is the goroutine that opens and reads streams, `pump` the one that feeds
Events(), `at` each goroutine of the application that settles events. Streams are
numbered; of a stream the model has the server's side (`member`, `held`), the frames
under way, `sc.ended`, whether it was reset, and `copies`, the delivered set. An ack
registers, is sent, and is answered, rejected, timed out or failed by the end of its
stream, each a step. The server gives the false OK that `ErrStaleAck` is for.

### Subscriptions

One pattern, as entries of two patterns never meet. `rd` is the reader, `dialer` the
goroutine of Connect or scheduleReconnect until it has connected, `restorer` the same
goroutine afterwards, while it restores and resends; the connection may break and the
next dial be scheduled meanwhile, but the next connection is made once it is through (the
delay of scheduleReconnect is taken to be longer than two writes). `call` is each caller of Subscribe and later
Unsubscribe, `closing` Close. `pend`, `resub` and `canceled` are the attempt in
flight, `subOf` and `byPattern` the two maps. Steps end where the code gives up
`c.mu` or `sendMu`. A lost connection is three of them: `Disconnected` sets the state and
looks at the subscriptions under `c.mu`, `PendingAfterLoss` at the attempts if there were
none with a cursor, and `AttemptsAfterLoss` schedules the reconnect or fails the attempts.
`raced` is auxiliary: it marks three races the code has, described
below, which the properties except.

### CommandOnce and CommandDedup

One command. `CommandOnce` has who works on it and whether its result is recorded.
`CommandDedup` has the entry in the bucket and callers that claim, read back, run
the handler, and finalize or release; any request may fail after it took effect,
before it, or (creates) take effect later. The mapping (`INSTANCE ... WITH`) takes
the callers between a won claim and its end for the ones at work.

## Runs

| run | instance | shows |
|---|---|---|
| `durable_run_saga` | two steps with compensations, 2 executions, 2 attempts, crashes and Stop | compensations run in reverse, on exactly the terminal failures, and are recorded |
| `durable_run_recovery` | a repeated name before an invoke, 2 executions, checkpoints of one step, crashes, Stop, lost leases, lost and late requests, unencodable values | no re-execution, no rewrite; a completed run is durable; every attempt used up left a failed step of its own; the inductive invariant |
| `durable_run_ends` | sleep, wait, run, async invoke, 5 executions, fair | the run reaches a final state; finish() does not hang |
| `durable_run_serialization` | the saga with unencodable outputs | **violation**, first finding |
| `parallel` | 2 fan-outs in a handler and a nested one, 5 branches, limits, failFast and collect, names shared and warnings opted out of, 4 executions, 1 fault, fair | reports, rows and compensations independent of the schedule; the right warning; the run ends |
| `streaming_worker` | 2 jobs, limit 1, queue of 1, a stream that holds 1 unread message, 2 connections, fair | count and limit exact, drain idle, graceful close complete; Drain returns and Run ends; no job hangs, except behind a Send the engine leaves blocked for good |
| `polling_worker` | 3 jobs, limit 2, one forgetting, a Drain by the user and one by Run, Stop by each of them and by the user, fair | limit, drain, Stop, heartbeats; Drain ends, a forgotten worker registers again |
| `projection_runner` | 2 replicas, 2 partitions, 3 events, 1 fault, 1 Stop, fair | exactly once, refinement of `ReadModel`, renewal cover, Stop flushes; catches up; Stop ends |
| `group_stream` | 1 event delivered twice, 2 streams, 2 acks each, 1 fault, both ack modes, fair | a nil Ack settled the event; copies stay settleable; no member outlives Unsubscribe; the subscription ends |
| `subscriptions` | 2 callers, 2 connections, 2 events, 1 fault, 3 modes | no gap under a cursor, no leak on the server, subscriptions restored |
| `subscriptions_closed` | 1 caller, 1 connection, 1 event, no fault | **violation**, second finding |
| `command_dedup` | 3 callers, 3 rounds, 3 faults, fair | refinement of `CommandOnce`; with IsOwner every caller gets its result |

### Why the bounds are enough

Every interaction modelled is between at most two executions (the one that lost
its lease and the one that replaced it), two connections, or two replicas. A
handler with a repeated name needs two claims of it, and the invoke behind them
makes a second execution replay both. Checkpoints of one step make two of them per
execution, so that the second, or the terminal tail, depends on the cursor the
first one moved. The second compensation of the saga is registered before its
step, so that both are there when that step fails. With a send queue of one and two jobs the queue
fills, and with a limit of one so does the worker; with a window of one a Send can block.
`polling_worker` has one job more than its limit of two, so that a batch of two is handed
out and a job is left over, and three possible callers of Stop, so that calls of it meet. Two events of one partition
followed by one of another give a batch with a run longer than one event and a
change of partition. `projection_runner` has one fault, as its liveness is checked
in the same run; what it says of safety is proved for any number of faults.
`durable_run_ends` needs five executions because its handler yields three times and
may fail once.

In `parallel` the nested fan-out is what makes a yield go up two levels, and a second
one at the root follows a first that has claims or failures of its own; four
executions are two sleeps, a crash and the last one. In `group_stream` the second
delivery is the redelivery, on the same stream or the next; one caller holds one
event at a time and may ack an old copy on a new stream. In `subscriptions` two
callers meet at the pattern, the second connection restores what the first one had,
and the fault decides when it goes. `command_dedup` has a winner, a loser and a
third caller that comes after both.

`CHECK_DEADLOCK FALSE` is set everywhere: runs, workers and runners end.

### Fairness

* `DurableRun`: user code returns, requests end (the HTTP client has a timeout),
  the engine keeps scheduling the run. Strong fairness of `CheckpointerStops`: with
  a tick and `stopCh` both ready, Go's select picks at random. `RunEnds` is checked
  with nothing lost; nobody promises it otherwise.
* `StreamingWorker`: the worker's own goroutines, timers, and handlers that return.
  Nothing of the engine: it may never answer, read or close. If it stops reading, a Send
  blocks, and `JobsEnd` excepts a Send that stays blocked for good; `DrainEnds` does not, as
  the deadline ends the stream.
* `PollingWorker`: the worker's goroutines, the steps of Stop (its wait for the projection
  runners has a timer) and the end of the worker's requests (client timeout). Handlers need not return. Strong fairness of three answers: a server
  asked again and again answers some time.
* `ProjectionRunner`: the runner's goroutines, handlers that return, renewals
  (every third of the TTL). Strong fairness of `Granted`, as a standby asks again
  every few seconds; weak fairness of the expiry of a lease nobody renews.

* `Parallel`: branches and the handler keep going, bodies return, the engine assigns
  the run, wakes it and takes what is reported. Crashes and ends of the job context
  are bounded and under no fairness.
* `GroupStream`: the two goroutines of the subscription and the two-second timer of
  Unsubscribe. Of the server only that it notices a stream that was torn down;
  it may stay silent otherwise. The application need not take or settle anything.
* `CommandDedup`: a caller takes its next step, and tries again until it has a
  result, as the documentation of the type asks. Faults are bounded.

## Proofs

### DurableRun (`DurableRunProofs`)

For every program, bound and set of faults: `TypeOK`, `NoReexecution`,
`CompletedOnce`, `NoGap` and `RowsAppendOnly`. None of the four is inductive: that
an update rewrites nothing depends on what it carries, that depends on what its
execution recorded, and the ids recorded depend on what the execution was given.
`DurableInv` says this chain:

* `StagesOK`: an unassigned execution is untouched; a request is under way only
  while reporting or in a checkpoint;
* `IdsFresh`: ids in use were claimed from the counters, differ from each other,
  and are not completed in what the execution was given;
* `UpdatesAreSlices`: every update is a slice of what its execution recorded;
* `RowsMatch`: while an execution holds the run, the rows after its base are a
  prefix of what it recorded, and neither its cursor nor an update of its own is
  ahead of them;
* `WaitsForNew`: a run waits for a call that has no completed row;
* `CompletedOnce` and `NoGap` themselves.

`durable_run_recovery` checks `DurableInv` as an invariant.
Preservation has a lemma per group of actions; the theorems follow from the
invariant. Assumptions: the `ASSUME`s of `DurableRun` only.

How an execution ends is proved on top of `DurableInv`. `LocalMoves` and
`EveryoneMoves` reduce all actions to eleven ways in which an execution moves
(`Moves`), and the invariants are shown for these.

* `SagaInv` is about one execution. `UndoOK`: no compensation is claimed before the
  handler has ended in a terminal failure, those behind `undo` are claimed, and every
  claim is memoized, recorded or running. `PassedOK`: the counters are the number of
  calls made, so ids are the program's (`ProgramId`), and each call the handler is past
  is memoized or recorded. `NamesOnce` and `ReverseOK`: the recorded compensations are
  the last ones registered, latest first. `SagaRunsBackwards` follows.
* `EndInv` relates executions, updates and rows. `TerminalOK`: a terminal update with
  nothing unencodable in it reaches up to the last recorded step, its sender is past its
  last call if it completed and has covered its compensations if it failed for good.
  `EndOK`: what the current execution was given is stored, its attempt is the run's, and
  a run that has ended has what its last execution did. It is what the engine's and the
  worker's decisions about the last attempt have in common (`try` and `attempt`).
  `CompletedIsDurable`, `FailureCompensates` and `CompensationsAreDurable` follow.

* `BudgetInv` is behind `AttemptsAreFailures` (`OnlyFailuresSpendAttempts`). The budget is
  spent by the engine on a report, the failure happened in the worker, and between them are
  resends, late arrivals, Stop and the fence. `CauseOK`: an outcome that asks for a retry
  comes from a failed step of the handler, or the job was cancelled. `RetryOK`: the report
  of one carries the history up to that step. `BudgetOK`: while an execution holds the run,
  the attempts used up are paid for by the rows it was given, so that the failed row its
  report adds is new, and one report is counted.

Hypotheses. `RegistersOnce`: the handler registers a compensation for a name once;
for two of one name, which of them a row stands for is not a matter of its id alone.
`Encodes` (no unencodable values) for the two about failed runs: with such values the
first finding is a counterexample. `CompletedIsDurable` has neither.
`OnlyFailuresSpendAttempts` is for handlers that fail in their steps only (`"error"` not in
`Faults`): an error the handler returns by itself costs an attempt and leaves no row.

### PollingWorker (`PollingWorkerProofs`)

For any set of jobs, limit and number of requests: `CapacityRespected`,
`DrainedMeansIdle`, `StopReachesEveryJob` and `HeartbeatCovers`. `WorkerInv` adds to
them `SlotsReserved`, the reason for the first: the slots counted before a poll are
still free when the answer comes and while it is handed out, as jobs only end meanwhile.
`HeldWhileHanding` says when assignments are held at all, `DrainShuts` and
`StopIsFinal` that the state a Drain or a Stop set is the one `processJob` sees: Stop stores
it before anything else, so when the walk over the jobs comes, however late, no job can
start behind it. `StopMoves` says how a call of Stop ends: by the walk, or after another
call that has made it; `StopReachesEveryJob`, about the moment it returns, follows.

### StreamingWorker (`StreamingWorkerProofs`)

For any set of jobs, limit, queue and number of connections: `CountIsExact`,
`DrainedMeansIdle` and `GracefulLosesNothing`. `StreamInv`:

* `AssignmentHeld`: the assignment the receive loop has counted has its own place in the
  count and is no job yet; without it the count is not inductive between the three steps
  of `handleJobAssignment`;
* `LoopsParked`, `StopIsFinal`, `DrainShuts`: which loops run in which state, and that
  flushing follows a drain;
* `OwedIsUnderWay`: a result the engine is owed is about to be queued, in the queue or
  with a waiter, or on the wire, as long as the stream can carry it;
* `HalfCloseIsLast`: behind the half-close all that is owed is on the wire.

### GroupStream (`GroupStreamProofs`)

For any number of streams, callers, events and faults: `AckedIsSettled`,
`NoMemberOutlives` and `CopiesCanBeSettled`. `GroupInv` follows an ack from the call to the server and back:

* `OnlyReached`: events counted, acked or on their way on a stream went out on it; this
  is why the server's false OK (an OK for an event it does not hold there) can only
  mean that somebody settled the event or sent it back;
* `FreshIds`: the ack ids in use on a stream were handed out by it, each to one call;
* `ResultsMatch`: a result belongs to the call that waits for it, and an OK means the
  event is settled or was sent back.

`NoMemberOutlives` needs `StopHalfCloses`: the stream Unsubscribe found is half-closed
when it returns, whichever of it and `open` came first.

`CopiesCanBeSettled` needs numbers, not only membership: `applyResult` takes one copy off
the count of the event, and removes its entry with the last. `CopiesInv` adds to
`GroupInv`, for a stream that has not ended and an event that is not excepted:

* `GivenAreCounted`: `copies` is at least the number of copies in the pump's queue, in its
  hand, in Events() and with callers, so the removal of an entry never overtakes a copy
  somebody still holds;
* `HeldAreCounted`: for an event that is out, `copies` and the event frames still to be
  read are more than the calls for which an OK is in the mailbox or on the wire
  (`Settling`): the results on their way cannot bring the count to zero;
* `AcksAreOwn`: such a call has a copy of its own stream, or its event is excepted.

How often a frame is in a queue is the cardinality of its set of indices (`Occ`), so
that appending and taking are statements about finite sets (`Occurs`) and need no
induction.

### Parallel (`ParallelProofs`)

For any tree of fan-outs, code of the branches, limits and number of executions:

* `ReplayIsExact` proves `StepsKeepTheirRows`. `StepsInv`: the counters of a branch are
  the calls it has made (`Numbered`), a body runs under its own id and has no row
  (`BodiesAreNew`), every row belongs to the call of a branch (`RowsMatch`).
  Hypothesis `ScopesDiffer`: no two branches have one scope prefix. The code
  does not see to that: two fan-outs of one name in one scope break it (see Findings).
* `ScheduleFreeReport` proves `ReportIsScheduleFree`. `ReportInv`: a branch gets past
  exactly the calls that come to Ok in the reference and ends as the reference does
  (`BranchesAgree`), and so does the handler (`HandlerAgrees`); a branch that waits for
  a fan-out is at the call that opened it (`JoinsFans`). Hypothesis `TwoLevels`: a fan-out
  of a branch opens no others. The reference `RunResult` is written out for two levels,
  since a definition for any depth would have to be recursive.
* `FailedRunUndone` proves `FailedRunIsUndone`, for fan-outs nested to any depth. The rows
  of a failed run come from several executions, and only the last one undoes; so the last
  must have passed, and registered, whatever an earlier one completed. The model keeps no
  such history, and the invariant `UndoneInv` says that there is one: sets `S` and `F` of
  calls that some execution passed or failed at, a set `O` of fan-outs that were opened and
  a rank `L` of them by nesting, which agree with one another (`Past`) and with the
  execution under way (`Present`: rows are in `S`, what is reached is in `S` and `O`, a
  branch ends at its last call or at one that no execution passed, and with an error
  exactly if that is in `F`). When
  the handler fails, `JoinsDone` and `Registered` turn that into the stack of
  compensations. The rank is what makes the argument well-founded: a branch is not reached
  by way of itself. Hypotheses: `ScopesDiffer` as above, and `RootsApart`, the fan-outs of a
  branch are not those of the handler.
* `WarnsRightly` proves `WarnsTheRightFanOut`: a fan-out of the handler is warned about for
  enclosing claims only if a branch below it made one, and one with such claims is passed over
  only if it opted out or its name was warned about before. `enclosingClaims` and `fanOutDepth` are one
  counter each for the whole execution. `WarnsInv`: the depth is the number of open
  fan-outs (`DepthCounts`), an open one below the handler has its branch waiting for it and
  a joined one has no branch left (`FanTree`), and for the one fan-out of the handler that
  is open the counter has moved since it was opened if and only if a branch below it has
  claimed a step there (`ClaimsCount`). Hypotheses: `TwoLevels`, since `InFan` looks two
  levels down; `FansApart`, a nested fan-out belongs to one branch; and `ScopesApart`, the
  prefix of a branch is not that of the handler, which `createBranchContext` sees to.

`FailedRunIsUndone` was stated for all branches before its proof; it is now for those
that keep to their own scope. A step on the enclosing context takes an index from a
counter that the branches share, so in a replay it may find another branch's row, and a
branch may fail before a step it completed in an earlier execution. TLC showed this with
three branches that each claim such a step, three executions and two faults, an instance
larger than the run's; the code
warns about these steps and does not order them.

### ProjectionRunner (`ProjectionRunnerProofs`)

For every log, partitioning, finite set of runners and bound: `TypeOK`,
`HandlersAreCovered`, `ExactlyOnce`, and `Spec => ReadSpec`
(`ReplicasImplementReadModel`), the mapping being the identity. `RunnerInv`:

* `LeasesDistinct`: no two runners have one grant, so at most one is not fenced;
* `Positions`, `HandledSoFar`: nobody is ahead of what was taken or handled;
* `HolderInStep`: the runner that is not fenced works on the saved cursor and the
  saved states, one run ahead of them just before it saves; this is what makes a
  load without a lease harmless;
* `HolderAhead`: an ack moves the cursor forward;
* `RenewsWhilePulling`: behind `HandlersAreCovered`.

`StopFlushes` (`StopLeavesNothing`) needs `NothingLeft` on top: a runner that reads has
committed what it gave to the handler, one outside a read or a batch all it took. It
is kept because the cursor never goes back (`CursorGrows`).

Each step of a runner then maps to `Fold`, `HandleEvent`, `AckEvents` or a stutter.
`ExactlyOnce` follows from `ReadSpec` alone: it is preserved by `Fold`.

### Subscriptions (`SubscriptionsProofs`)

For any number of callers, connections, IDs, events and faults, with and without
reconnects and cursors: `CursorHasNoGap`, `NoServerLeak` and `SubscriptionsAreRestored`.
None of them is inductive: what the maps may hold depends on what is on the wire, and
that on whose attempt is in flight. `SubscriptionInvariant` is the types and, while nothing
raced and the client is open, `Live`:

* `Phases`, `Untouched`: what the place of the reader and of the restorer says of the
  connection; one that is being restored has nothing on it yet;
* `Attempts`, `OneEntry`: the attempt in flight belongs to one caller in `reserved`,
  `waiting` or `completing`, or restores the one subscription in the maps;
* `OneRequest`, `Handover`: at most one request or result is on the wire, that of the
  attempt, with its cursor; a result the reader hands over is the one Subscribe takes;
* `IdsOnce`: an ID the server has accepted is in flight, in the maps or on its way back,
  and in one of these only; `NoServerLeak` follows;
* `Restorable`: an ID in the maps is on the server, or its connection has yet to be
  restored, or a resubscribe is outstanding; `SubscriptionsAreRestored` follows;
* `Cursors`, `Streams`: the frames of an ID on the wire are the events after the last one
  the reader took for its subscription, in order, up to the server's position, and behind
  the result that brought the ID; so the event the reader takes is the next one;
* `NoGap`: what was taken and what is in the channel is the log up to the cursor.

What sending and taking a frame does to these predicates on sequences is proved once
(`RequestSent` to `StreamTaken`); there is then one lemma per action. The invariant was
checked by TLC before it was proved. Assumption: `SubAssumption`.

### CommandDedup (`CommandDedupProofs`)

For any number of callers, rounds and faults, any subset of which can recognise its
own claim: `Spec => ImplementsCommandOnce`. The assumption is
`OnlyCreatesAreLate`, a hypothesis of the theorem: a Put or Delete takes effect
while its caller waits for it or never. `ClaimInv` says that a caller past TryClaim
has its claim in the bucket; entries of two callers differ, so it is alone, and a
delete or put of it meets no other claim and no result. Each action then maps to
`Begin`, `Record`, `Leave` or a stutter.

### Only model-checked

* Liveness and everything under fairness, and `ENABLED`: outside these provers.
* `NoSendOnClosed` of `Subscriptions`, which does not hold (second finding).

`TypeOK`, `CompletedOnce` and `NoGap` of `DurableRun`, and the type invariants of the
others, are proved and not listed as properties of a run where the run would only repeat
them. No module uses a RECURSIVE operator.

## Findings

1. `durable_run_serialization`: `execute` decides from the handler's own error
   whether compensations run (`job_executor.go:233`), and replaces a retryable
   failure by the non-retryable `SERIALIZATION_ERROR` of an earlier step
   afterwards (`:267`). The run ends failed with no compensation run, where
   `README.md:262` says "so compensations run".
2. `subscriptions_closed`: `handleEvent` looks a subscription up under `c.mu` and
   takes `sendMu` later (`subscribe.go:1237`, `:1260`). A closer in between has closed
   `done` and then the channel, and the select may choose the send on the closed
   channel and panic, where the comment on `sendMu` (`subscribe.go:188`) says that "a
   send never meets a closed channel". `subscribe_connectrpc.go` has the same order
   between `Receive` and `Close`.

Noticed and not checked by a run of their own:

* A Stop while connect waits for the old projection runners finds none to stop;
  connect then starts new ones that outlive Run (`worker.go:409-412`;
  `worker_streaming.go:377-385` has the same order).
* `handleJobAssignment` refuses a job while draining and not once stopped
  (`worker_streaming.go:540`), so an assignment behind the drain deadline is acked
  and started; the polling worker looks at both states (`worker.go:727`).
* Two fan-outs of one name in one scope give their branches the same scope prefix, so
  the steps of the second replay the rows of the first (`step.go:238`, where the
  comment says "unique step ID").
* A branch of a failFast fan-out with a limit that is skipped in the queue does not
  register the compensations of steps it completed in an earlier execution
  (`parallel.go:287-300`); `FailedRunIsUndone` excepts such fan-outs, and branches with
  steps on the enclosing context (see Proofs).
* `reserveSubscribeAttempt` looks for an active subscription and reserves the attempt
  in two critical sections (`subscribe.go:697-713`): two callers of a pattern may both
  subscribe it. And a reconnect resends, restores or fails an attempt that is reserved
  and not sent yet (`:1030`, `:1412`), so that two requests of a pattern are in flight.
* When a resend fails, its error goes to the attempt's one-slot result channel and the
  attempt stays pending (`subscribe.go:1052-1060`). If the connection is replaced again
  before Subscribe has read it, the attempt is sent once more; the server accepts it, its
  OK finds the slot taken and is dropped (`:1123-1128`), and Subscribe returns the old
  failure: the server keeps a subscription nobody knows. It takes three connections and
  two faults, more than the run has; it showed as the case in which `NoServerLeak` is not
  inductive. With the two races before, these are the three of `raced`.
* A Close while scheduleReconnect dials leaves the new connection open
  (`subscribe.go:491-519` does not look at `done`).
* The sends of error frames on `errors` are under no lock (`subscribe.go:1320`,
  `:1348`), and have the race of the second finding too (`SendError`).
* A Delete of Release, or a Put of Finalize, that reaches the store after its caller
  gave up removes or overwrites a later claim: neither carries a revision
  (`command_dedup.go:191`, `:203`). `ImplementsCommandOnce` fails with them in
  `LateKinds`.
* `KVWatcher.Stop` does not wait when another goroutine is stopping the watch, waits
  for itself when it is called from a callback, and two concurrent calls may close
  `stopCh` twice (`kv.go:275`).
* `CompensationsRecorded` holds without unencodable values (and is proved so). With one, the report is
  cut before it (`job_executor.go:265`), and a compensation behind it has no row,
  although the README calls each "a durable step".
* A wait whose payload does not encode ends a streaming job with no message
  (`worker_streaming.go:887`); the polling worker's terminal PUT fails before it is
  sent (`worker.go:885`). Only lease expiry recovers such a run, to the same end.
* A user step named `compensate:x` shares its ids with the compensation of `x`; the
  model keeps the two apart.

## Not modelled

* `Publish` and the id escaping of `step.go`; a step's timeout is one of the ways
  its body fails.
* Of `parallel.go` the typed results. A panic of a branch that is not a yield is raised
  again in its goroutine (`parallel.go:318-321`) and ends the worker process, which is
  `Abandoned`.
* Of the subscription client manual acks over WebSocket, and the
  ConnectRPC subscriptions (`GrpcSubscription`), one stream per subscription with the
  retry loop of `streamSubscription`.
* Of the store bucket administration, updates by revision and Watch.
* The push handler: each request is one execution without a checkpointer on the step
  engine `DurableRun` models, and no state stays between requests.
* The agent toolkit: agents are handlers on the step API; its memory is an append to
  an entity stream inside a step, with a cache that lives as long as an execution.
* API and administration clients, types, generated code, test support: single
  requests or data, with no state over time.

## Plan

1. `GrpcSubscription` as a second transport next to `Subscriptions`.
2. The push handler as a transport of `DurableRun` without a checkpointer, and
   `Publish` with its idempotency key.
3. Composition: a worker with projection runners, so that Stop of the one reaches
   the other.

## Running

    tlc -workers 2 -config DurableRunRecovery.cfg MCDurableRun
    tlapm DurableRunProofs.tla

and so for the other `...Proofs` modules.

`PROJECT.json` names the module and configuration of each run, the source lines
each definition stands for, the hazards, and the theorems.
