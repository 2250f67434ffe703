--------------------------- MODULE StreamingWorker ---------------------------
(***************************************************************************)
(* The streaming worker (worker_streaming.go): the Run loop and its        *)
(* connections, the receive and send loops, the bounded send queue outCh,  *)
(* job goroutines, Drain, Stop and the engine's Shutdown.  What a job's    *)
(* handler does is DurableRun's subject; here a job is its lifecycle.      *)
(*                                                                         *)
(* The engine and the transport are not part of the repository: a stream   *)
(* delivers in order while it lasts, may break at any time, and blocks a   *)
(* Send when the engine does not read.                                     *)
(***************************************************************************)
EXTENDS Naturals, Sequences, FiniteSets

CONSTANTS
    Jobs,               \* activeJobKeys: a job id with its execution_seq
    Drainers,           \* callers of Drain: the user, a cancelled ctx, a Shutdown
    MaxConcurrentJobs,
    OutCap,             \* capacity of outCh
    Window,             \* unread messages the transport takes before a Send blocks
    MaxConns,           \* bound on connections
    MaxSent,            \* bound on the messages the engine sends
    NoJob

ASSUME BoundAssumption ==
    /\ MaxConcurrentJobs \in Nat \ {0} /\ OutCap \in Nat \ {0}
    /\ MaxConns \in Nat \ {0} /\ MaxSent \in Nat /\ Window \in Nat
ASSUME JobAssumption == NoJob \notin Jobs /\ IsFiniteSet(Jobs) /\ IsFiniteSet(Drainers)

VARIABLES
    state,      \* w.state
    run,        \* where Run is
    stopCh,     \* closed
    flushCh,    \* closed
    drain,      \* where each drain() is
    conn,       \* number of the current connection
    connDone,   \* connCtx is done
    stream,     \* the bidirectional stream
    recv,       \* the receive loop: where it is, the assignment it handles
    sender,     \* the send loop
    jobCount,   \* w.jobCount
    job,        \* each job's goroutine; a job past "idle" is in activeJobs
    home,       \* the connection whose context is the job's parent
    dead,       \* jobs whose context is done
    outCh,      \* the send queue
    waiters,    \* enqueue goroutines waiting for space, by their message
    inbox,      \* engine messages on their way to the worker
    wire,       \* worker messages on their way to the engine, the last perhaps in Send
    sent,       \* how many messages the engine has sent
    owed        \* auxiliary: jobs of this connection whose result the engine has not read

connVars == <<conn, connDone, stream, recv, sender, inbox, wire>>
jobVars == <<jobCount, job, home, dead>>
queueVars == <<outCh, waiters>>
runVars == <<state, run, stopCh, flushCh, drain>>
vars == <<runVars, connVars, jobVars, queueVars, sent, owed>>

States == {"idle", "connecting", "connected", "draining", "stopped"}
Active == {j \in Jobs : job[j] # "idle"}
Message(kind, j) == [kind |-> kind, job |-> j, conn |-> conn]
Messages == [kind : {"ack", "nack", "step", "result"}, job : Jobs, conn : 0 .. MaxConns]

Init ==
    /\ state = "idle" /\ run = "off" /\ stopCh = FALSE /\ flushCh = FALSE
    /\ drain = [d \in Drainers |-> "off"]
    /\ conn = 0 /\ connDone = TRUE /\ stream = "none"
    /\ recv = [at |-> "off", job |-> NoJob, count |-> 0] /\ sender = "off"
    /\ jobCount = 0
    /\ job = [j \in Jobs |-> "idle"] /\ home = [j \in Jobs |-> 0] /\ dead = {}
    /\ outCh = <<>> /\ waiters = {} /\ inbox = <<>> /\ wire = <<>>
    /\ sent = 0 /\ owed = {}

-----------------------------------------------------------------------------
(* State changes shared by the operations. *)

\* storeStateUnlessDraining, storeStateUnlessStopped.
StoreUnlessDraining(next) ==
    state' = IF state \in {"stopped", "draining"} THEN state ELSE next
StoreUnlessStopped(next) == state' = IF state = "stopped" THEN state ELSE next

\* Defect: Stop leaves stopCh open.
Stop_NoClose == state' = "stopped" /\ dead' = dead \cup Active /\ UNCHANGED stopCh

\* Stop: the channel unblocks every loop, the active jobs are cancelled.  (It
\* waits for the projection runners in between: a job that ends meanwhile has
\* ended before Stop, as no property here tells the two apart.)
Stop == state' = "stopped" /\ stopCh' = TRUE /\ dead' = dead \cup Active

\* The connection's context ends, and with it the contexts of its jobs.
ConnEnds ==
    /\ connDone' = TRUE
    /\ dead' = dead \cup {j \in Active : home[j] = conn}

\* enqueue: never blocks the receive loop.
Enqueue(m) ==
    IF Len(outCh) < OutCap
    THEN outCh' = Append(outCh, m) /\ UNCHANGED waiters
    ELSE waiters' = waiters \cup {m} /\ UNCHANGED outCh

-----------------------------------------------------------------------------
(* Run and connectStream. *)

RunStarts ==
    /\ run = "off"
    /\ IF state = "idle"
       THEN state' = "connecting" /\ run' = "loop"
       ELSE run' = "returned" /\ UNCHANGED state
    /\ UNCHANGED <<stopCh, flushCh, drain, connVars, jobVars, queueVars, sent, owed>>

\* The top of Run's loop: stop, finish a drain, or connect.
RunLoops ==
    /\ run = "loop"
    /\ \/ /\ stopCh
          /\ run' = "returned"
          /\ UNCHANGED <<state, stopCh, dead>>
       \/ /\ ~stopCh /\ state = "draining"
          /\ Stop
          /\ run' = "returned"
       \/ /\ ~stopCh /\ state # "draining"
          /\ StoreUnlessDraining("connecting")
          /\ run' = "registering"
          /\ UNCHANGED <<stopCh, dead>>
    /\ UNCHANGED <<flushCh, drain, connVars, jobCount, job, home, queueVars, sent, owed>>

\* registerFunctions answered.  A drain or Stop meanwhile: no new stream.
Registered ==
    /\ run = "registering"
    /\ IF state \in {"draining", "stopped"}
       THEN run' = "loop" /\ UNCHANGED <<conn, connDone, stream>>
       ELSE /\ conn < MaxConns
            /\ conn' = conn + 1 /\ connDone' = FALSE /\ stream' = "open"
            /\ run' = "opening"
    /\ UNCHANGED <<state, stopCh, flushCh, drain, recv, sender, inbox, wire,
                   jobVars, queueVars, sent, owed>>

\* Registration or opening the stream failed.
ConnectFails ==
    /\ run \in {"registering", "opening"}
    /\ run' = "failed"
    /\ ConnEnds
    /\ stream' = "none" /\ inbox' = <<>> /\ wire' = <<>>
    /\ UNCHANGED <<state, stopCh, flushCh, drain, conn, recv, sender,
                   jobCount, job, home, queueVars, sent, owed>>

\* The engine's Registered message: what the previous connection left queued
\* is discarded, the loops start.
Opened ==
    /\ run = "opening" /\ stream = "open" /\ ~connDone
    /\ StoreUnlessDraining("connected")
    /\ run' = "open"
    /\ outCh' = <<>>
    /\ recv' = [at |-> "receiving", job |-> NoJob, count |-> 0] /\ sender' = "sending"
    /\ owed' = {}
    /\ UNCHANGED <<stopCh, flushCh, drain, conn, connDone, stream, inbox, wire,
                   jobVars, waiters, sent>>

\* Defect: the connection ends and its jobs are not told.
Disconnects_KeepsJobs ==
    /\ run = "open" /\ recv.at = "done"
    /\ run' = "closing"
    /\ connDone' = TRUE
    /\ UNCHANGED <<state, stopCh, flushCh, drain, conn, stream, recv, sender,
                   inbox, wire, jobVars, queueVars, sent, owed>>

\* The receive loop ended: its jobs are cancelled.
Disconnects ==
    /\ run = "open" /\ recv.at = "done"
    /\ run' = "closing"
    /\ connDone' = TRUE
    /\ dead' = dead \cup Active
    /\ UNCHANGED <<state, stopCh, flushCh, drain, conn, stream, recv, sender,
                   inbox, wire, jobCount, job, home, queueVars, sent, owed>>

Closed ==
    /\ run = "closing" /\ sender = "done"
    /\ run' = "failed"
    /\ stream' = "none" /\ inbox' = <<>> /\ wire' = <<>>
    /\ UNCHANGED <<state, stopCh, flushCh, drain, conn, connDone, recv, sender,
                   jobVars, queueVars, sent, owed>>

\* connectStream returned an error: an authentication or other non-retryable
\* one stops the worker, any other waits for ReconnectDelay.
RunFails(fatal) ==
    /\ run = "failed"
    /\ \/ /\ state = "stopped"
          /\ run' = "returned"
          /\ UNCHANGED <<state, stopCh, dead>>
       \/ /\ state = "draining"
          /\ run' = "loop"
          /\ UNCHANGED <<state, stopCh, dead>>
       \/ /\ state \notin {"stopped", "draining"} /\ fatal
          /\ Stop
          /\ run' = "returned"
       \/ /\ state \notin {"stopped", "draining"} /\ ~fatal
          /\ run' = "backoff"
          /\ UNCHANGED <<state, stopCh, dead>>
    /\ UNCHANGED <<flushCh, drain, connVars, jobCount, job, home, queueVars, sent, owed>>

\* stopCh, flushCh or the timer.
BackoffEnds ==
    /\ run = "backoff"
    /\ run' = "loop"
    /\ UNCHANGED <<state, stopCh, flushCh, drain, connVars, jobVars, queueVars, sent, owed>>

\* The goroutine of a connection that closes the stream itself on Stop.
StreamAborted ==
    /\ stopCh /\ stream # "none" /\ (~connDone \/ stream \in {"open", "half"})
    /\ ConnEnds
    /\ stream' = IF stream = "eof" THEN "eof" ELSE "broken"
    /\ wire' = <<>>
    /\ UNCHANGED <<runVars, conn, recv, sender, inbox, jobCount, job, home,
                   queueVars, sent, owed>>

-----------------------------------------------------------------------------
(* The receive loop. *)

\* connCtx is done, or Receive fails.
RecvEnds ==
    /\ recv.at = "receiving"
    /\ connDone \/ stream \in {"eof", "broken"}
    /\ recv' = [recv EXCEPT !.at = "done"]
    /\ UNCHANGED <<runVars, conn, connDone, stream, sender, inbox, wire,
                   jobVars, queueVars, sent, owed>>

Receives(kind) ==
    /\ recv.at = "receiving"
    /\ stream \in {"open", "half"}
    /\ inbox # <<>> /\ Head(inbox).kind = kind
    /\ inbox' = Tail(inbox)

\* handleJobAssignment, first half: a duplicate of an active job is ignored,
\* any other is counted before the draining check.
AssignmentArrives ==
    LET j == Head(inbox).job IN
    /\ Receives("job")
    /\ IF j \in Active
       THEN UNCHANGED <<recv, jobCount>>
       ELSE /\ jobCount' = jobCount + 1
            /\ recv' = [at |-> "counted", job |-> j, count |-> jobCount']
    /\ UNCHANGED <<runVars, conn, connDone, stream, sender, wire, job, home,
                   dead, queueVars, sent, owed>>

OverCapacity(n) == n > MaxConcurrentJobs

\* Defect: the state is not looked at again once the job is counted.
Refuses_Capacity(n) == OverCapacity(n)
Refuses(n) == state = "draining" \/ OverCapacity(n)

\* Second half: a job the worker cannot run gets a nack, the others an ack.
AssignmentChecked ==
    /\ recv.at = "counted"
    /\ IF Refuses(recv.count)
       THEN /\ jobCount' = jobCount - 1
            /\ Enqueue(Message("nack", recv.job))
            /\ recv' = [at |-> "receiving", job |-> NoJob, count |-> 0]
       ELSE /\ Enqueue(Message("ack", recv.job))
            /\ recv' = [recv EXCEPT !.at = "accepted"]
            /\ UNCHANGED jobCount
    /\ UNCHANGED <<runVars, conn, connDone, stream, sender, inbox, wire, job,
                   home, dead, sent, owed>>

\* The assignment becomes an active job, unless it cannot be converted.
JobStarts(converts) ==
    LET j == recv.job IN
    /\ recv.at = "accepted"
    /\ recv' = [at |-> "receiving", job |-> NoJob, count |-> 0]
    /\ IF converts
       THEN /\ job' = [job EXCEPT ![j] = "running"]
            /\ home' = [home EXCEPT ![j] = conn]
            /\ dead' = IF connDone THEN dead \cup {j} ELSE dead \ {j}
            /\ UNCHANGED jobCount
       ELSE jobCount' = jobCount - 1 /\ UNCHANGED <<job, home, dead>>
    /\ UNCHANGED <<runVars, conn, connDone, stream, sender, inbox, wire,
                   queueVars, sent, owed>>

\* handleCancelJob.
CancelArrives ==
    /\ Receives("cancel")
    /\ dead' = dead \cup ({Head(inbox).job} \cap Active)
    /\ UNCHANGED <<runVars, conn, connDone, stream, recv, sender, wire,
                   jobCount, job, home, queueVars, sent, owed>>

\* handleShutdown: the state is set here, the drain runs in its own goroutine.
ShutdownArrives(d) ==
    /\ Receives("shutdown")
    /\ StoreUnlessStopped("draining")
    /\ drain' = [drain EXCEPT ![d] = IF @ = "off" THEN "called" ELSE @]
    /\ UNCHANGED <<run, stopCh, flushCh, conn, connDone, stream, recv, sender,
                   wire, jobVars, queueVars, sent, owed>>

-----------------------------------------------------------------------------
(* The send loop and the queue. *)

\* The last Send waits for the engine to read: flow control.  It returns when
\* there is room again, and fails when the stream or its context ends.
SendBlocked == Len(wire) > Window /\ stream = "open" /\ ~connDone

Transmits ==
    /\ wire' = Append(wire, Head(outCh))
    /\ outCh' = Tail(outCh)

SendQueued ==
    /\ sender = "sending" /\ ~SendBlocked
    /\ outCh # <<>> /\ stream = "open"
    /\ Transmits
    /\ UNCHANGED <<runVars, conn, connDone, stream, recv, sender, inbox,
                   jobVars, waiters, sent, owed>>

\* connCtx or stopCh ends the loop, and so does a failed heartbeat.
SenderEnds ==
    /\ sender = "sending" /\ ~SendBlocked
    /\ connDone \/ stopCh \/ stream # "open"
    /\ sender' = "done"
    /\ UNCHANGED <<runVars, conn, connDone, stream, recv, inbox, wire, jobVars,
                   queueVars, sent, owed>>

\* A message whose Send fails is lost.
SendFails ==
    /\ sender \in {"sending", "flushing"} /\ outCh # <<>> /\ stream # "open"
    /\ sender' = "done"
    /\ outCh' = Tail(outCh)
    /\ UNCHANGED <<runVars, conn, connDone, stream, recv, inbox, wire, jobVars,
                   waiters, sent, owed>>

FlushStarts ==
    /\ sender = "sending" /\ ~SendBlocked /\ flushCh
    /\ sender' = "flushing"
    /\ UNCHANGED <<runVars, conn, connDone, stream, recv, inbox, wire, jobVars,
                   queueVars, sent, owed>>

\* Defect: the stream is half-closed with messages still queued.
FlushSends_None ==
    /\ sender = "flushing" /\ sender' = "done"
    /\ stream' = IF stream = "open" THEN "half" ELSE stream
    /\ UNCHANGED <<runVars, conn, connDone, recv, inbox, wire, jobVars,
                   queueVars, sent, owed>>

\* The graceful close: everything queued, then half-close.
FlushSends ==
    /\ sender = "flushing" /\ ~SendBlocked
    /\ \/ /\ outCh # <<>> /\ stream = "open"
          /\ Transmits
          /\ UNCHANGED <<sender, stream>>
       \/ /\ outCh = <<>>
          /\ sender' = "done"
          /\ stream' = IF stream = "open" THEN "half" ELSE stream
          /\ UNCHANGED <<outCh, wire>>
    /\ UNCHANGED <<runVars, conn, connDone, recv, inbox, jobVars, waiters, sent, owed>>

\* An enqueue goroutine gets space, or gives up when its connection ended.
WaiterEnds(m) ==
    /\ m \in waiters
    /\ waiters' = waiters \ {m}
    /\ \/ Len(outCh) < OutCap /\ outCh' = Append(outCh, m)
       \/ (connDone \/ m.conn # conn) /\ UNCHANGED outCh
    /\ UNCHANGED <<runVars, connVars, jobVars, sent, owed>>

-----------------------------------------------------------------------------
(* A job's goroutine. *)

\* trySend: a step message is dropped when the queue is full.
ReportsStep(j) ==
    /\ job[j] = "running"
    /\ job' = [job EXCEPT ![j] = "stepped"]
    /\ outCh' = IF Len(outCh) < OutCap
                THEN Append(outCh, [kind |-> "step", job |-> j, conn |-> home[j]])
                ELSE outCh
    /\ UNCHANGED <<runVars, connVars, jobCount, home, dead, waiters, sent, owed>>

\* The handler ended: execute() reports only if the job is not cancelled.
HandlerEnds(j) ==
    /\ job[j] \in {"running", "stepped"}
    /\ job' = [job EXCEPT ![j] = IF j \in dead THEN "exiting" ELSE "reporting"]
    /\ owed' = IF j \in dead THEN owed ELSE owed \cup {j}
    /\ UNCHANGED <<runVars, connVars, jobCount, home, dead, queueVars, sent>>

\* send waits for space, and gives up only when the job is cancelled.
SendsResult(j) ==
    /\ job[j] = "reporting"
    /\ job' = [job EXCEPT ![j] = "exiting"]
    /\ \/ /\ Len(outCh) < OutCap
          /\ outCh' = Append(outCh, [kind |-> "result", job |-> j, conn |-> home[j]])
          /\ UNCHANGED owed
       \/ /\ Len(outCh) >= OutCap /\ j \in dead
          /\ owed' = owed \ {j}
          /\ UNCHANGED outCh
    /\ UNCHANGED <<runVars, connVars, jobCount, home, dead, waiters, sent>>

\* ReportYielded fails before it queues anything: a wait's request payload that
\* JSON cannot encode.  (An invoke input it cannot encode is a failed job.)
ReportUnsent(j) ==
    /\ job[j] = "reporting"
    /\ job' = [job EXCEPT ![j] = "exiting"]
    /\ owed' = owed \ {j}
    /\ UNCHANGED <<runVars, connVars, jobCount, home, dead, queueVars, sent>>

\* Defect: the deferred cleanup forgets the count.
JobExits_Leaks(j) ==
    /\ job[j] = "exiting"
    /\ job' = [job EXCEPT ![j] = "idle"]
    /\ dead' = dead \ {j}
    /\ UNCHANGED <<runVars, connVars, jobCount, home, queueVars, sent, owed>>

JobExits(j) ==
    /\ job[j] = "exiting"
    /\ job' = [job EXCEPT ![j] = "idle"]
    /\ jobCount' = jobCount - 1
    /\ dead' = dead \ {j}
    /\ UNCHANGED <<runVars, connVars, home, queueVars, sent, owed>>

-----------------------------------------------------------------------------
(* Drain and Stop. *)

\* Drain is called, by user code or because ctx was cancelled.
DrainCalled(d) ==
    /\ drain[d] = "off"
    /\ drain' = [drain EXCEPT ![d] = "called"]
    /\ UNCHANGED <<state, run, stopCh, flushCh, connVars, jobVars, queueVars, sent, owed>>

\* drain() looks at the state: a stopped worker has nothing to drain, one that
\* never ran is stopped.
DrainBegins(d) ==
    /\ drain[d] = "called"
    /\ IF state = "idle" THEN Stop ELSE UNCHANGED <<state, stopCh, dead>>
    /\ drain' = [drain EXCEPT ![d] =
                    IF state \in {"idle", "stopped"} THEN "returned" ELSE "entering"]
    /\ UNCHANGED <<run, flushCh, connVars, jobCount, job, home, queueVars, sent, owed>>

DrainEnters(d) ==
    /\ drain[d] = "entering"
    /\ StoreUnlessStopped("draining")
    /\ drain' = [drain EXCEPT ![d] = "waiting"]
    /\ UNCHANGED <<run, stopCh, flushCh, connVars, jobVars, queueVars, sent, owed>>

\* Active jobs: wait for the next tick, stopCh or the deadline.
DrainWaits(d) ==
    /\ drain[d] = "waiting" /\ jobCount > 0
    /\ drain' = [drain EXCEPT ![d] = "blocked"]
    /\ UNCHANGED <<state, run, stopCh, flushCh, connVars, jobVars, queueVars, sent, owed>>

\* No job is left: the send loop is told to close the stream gracefully.
DrainFlushes(d) ==
    /\ drain[d] \in {"waiting", "blocked"} /\ jobCount = 0
    /\ flushCh' = TRUE
    /\ drain' = [drain EXCEPT ![d] = "flushed"]
    /\ UNCHANGED <<state, run, stopCh, connVars, jobVars, queueVars, sent, owed>>

\* stopCh is closed, or the deadline stops the worker.
DrainReturns(d, deadline) ==
    /\ drain[d] \in {"blocked", "flushed"}
    /\ IF deadline THEN Stop ELSE stopCh /\ UNCHANGED <<state, stopCh, dead>>
    /\ drain' = [drain EXCEPT ![d] = "returned"]
    /\ UNCHANGED <<run, flushCh, connVars, jobCount, job, home, queueVars, sent, owed>>

\* User code calls Stop.
StopCalled ==
    /\ state # "stopped"
    /\ Stop
    /\ UNCHANGED <<run, flushCh, drain, connVars, jobCount, job, home,
                   queueVars, sent, owed>>

-----------------------------------------------------------------------------
(* The engine and the transport (external). *)

EngineSends(kind, j) ==
    /\ stream = "open" /\ run = "open" /\ sent < MaxSent
    /\ inbox' = Append(inbox, [kind |-> kind, job |-> j])
    /\ sent' = sent + 1
    /\ UNCHANGED <<runVars, conn, connDone, stream, recv, sender, wire, jobVars,
                   queueVars, owed>>

EngineReads ==
    /\ wire # <<>> /\ stream \in {"open", "half"}
    /\ wire' = Tail(wire)
    /\ owed' = IF Head(wire).kind = "result" THEN owed \ {Head(wire).job} ELSE owed
    /\ UNCHANGED <<runVars, conn, connDone, stream, recv, sender, inbox,
                   jobVars, queueVars, sent>>

\* The engine reads to the end of a half-closed stream and closes it.
EngineCloses ==
    /\ stream = "half" /\ wire = <<>>
    /\ stream' = "eof"
    /\ UNCHANGED <<runVars, conn, connDone, recv, sender, inbox, wire, jobVars,
                   queueVars, sent, owed>>

StreamBreaks ==
    /\ stream \in {"open", "half"}
    /\ stream' = "broken" /\ wire' = <<>> /\ inbox' = <<>>
    /\ UNCHANGED <<runVars, conn, connDone, recv, sender, jobVars, queueVars, sent, owed>>

-----------------------------------------------------------------------------
RunSteps ==
    \/ RunStarts \/ RunLoops \/ Registered \/ ConnectFails \/ Opened
    \/ Disconnects \/ Closed \/ BackoffEnds
    \/ \E fatal \in BOOLEAN : RunFails(fatal)

RecvSteps ==
    \/ RecvEnds \/ AssignmentArrives \/ AssignmentChecked \/ CancelArrives
    \/ \E b \in BOOLEAN : JobStarts(b)
    \/ \E d \in Drainers : ShutdownArrives(d)

SendSteps == SendQueued \/ SenderEnds \/ SendFails \/ FlushStarts \/ FlushSends

JobSteps(j) == ReportsStep(j) \/ HandlerEnds(j) \/ SendsResult(j) \/ JobExits(j)

DrainSteps(d) ==
    \/ DrainBegins(d) \/ DrainEnters(d) \/ DrainWaits(d) \/ DrainFlushes(d)
    \/ \E deadline \in BOOLEAN : DrainReturns(d, deadline)

Next ==
    \/ RunSteps \/ RecvSteps \/ SendSteps \/ StreamAborted \/ StopCalled
    \/ \E j \in Jobs : JobSteps(j) \/ ReportUnsent(j)
    \/ \E m \in waiters : WaiterEnds(m)
    \/ \E d \in Drainers : DrainCalled(d) \/ DrainSteps(d)
    \/ \E j \in Jobs, kind \in {"job", "cancel", "shutdown"} : EngineSends(kind, j)
    \/ EngineReads \/ EngineCloses \/ StreamBreaks

Spec == Init /\ [][Next]_vars

\* Every goroutine the worker started keeps running, handlers return, timers
\* fire.  Nothing is assumed of the engine: it may never answer a registration,
\* which only the end of the worker's context then aborts, and never read, which
\* leaves a Send blocked.
RunAdvances == (run \notin {"registering", "opening"} \/ stopCh) /\ RunSteps
FairSpec ==
    /\ Spec
    /\ WF_vars(RunAdvances) /\ WF_vars(RecvSteps) /\ WF_vars(SendSteps)
    /\ WF_vars(StreamAborted)
    /\ \A j \in Jobs : WF_vars(JobSteps(j))
    /\ \A d \in Drainers : WF_vars(DrainSteps(d))

-----------------------------------------------------------------------------
(* Properties. *)

\* The variables have their types, and outCh never holds more than its capacity
\* (enqueue and send wait instead).
TypeOK ==
    /\ state \in States /\ stopCh \in BOOLEAN /\ flushCh \in BOOLEAN
    /\ run \in {"off", "loop", "registering", "opening", "open", "closing",
                "failed", "backoff", "returned"}
    /\ drain \in [Drainers -> {"off", "called", "entering", "waiting", "blocked",
                            "flushed", "returned"}]
    /\ conn \in 0 .. MaxConns /\ connDone \in BOOLEAN
    /\ stream \in {"none", "open", "half", "eof", "broken"}
    /\ recv \in [at : {"off", "receiving", "counted", "accepted", "done"},
                 job : Jobs \cup {NoJob}, count : Nat]
    /\ sender \in {"off", "sending", "flushing", "done"}
    /\ jobCount \in Nat
    /\ job \in [Jobs -> {"idle", "running", "stepped", "reporting", "exiting"}]
    /\ home \in [Jobs -> 0 .. MaxConns] /\ dead \in SUBSET Jobs
    /\ outCh \in Seq(Messages) /\ Len(outCh) <= OutCap
    /\ waiters \in SUBSET Messages
    /\ wire \in Seq(Messages) /\ sent \in 0 .. MaxSent /\ owed \in SUBSET Jobs
    /\ inbox \in Seq([kind : {"job", "cancel", "shutdown"}, job : Jobs])

\* jobCount is exact through refused, duplicate, unconvertible, cancelled and
\* finished jobs: Drain neither waits for a job that is gone nor misses one, and
\* jobs of an old connection that still unwind count against the limit.
CountIsExact ==
    /\ jobCount = Cardinality(Active)
                  + IF recv.at \in {"counted", "accepted"} THEN 1 ELSE 0
    /\ Cardinality(Active) <= MaxConcurrentJobs

\* Once a drain has seen no job, none starts: the assignment the receive loop
\* was handling meanwhile was either counted or sees the drain.
DrainedMeansIdle ==
    state = "draining" /\ flushCh => Active = {} /\ recv.at # "accepted"

\* A stream the engine closed after a graceful drain has carried the result of
\* every job that ended on it without being cancelled, unless a Stop came first.
GracefulLosesNothing == stream = "eof" /\ ~stopCh => owed = {}

\* Drain returns and ends Run, whatever the engine and the network do: no call
\* of it stays under way, and none that returned leaves Run behind.
DrainEnds ==
    \A d \in Drainers :
        []<>(drain[d] = "off" \/ (drain[d] = "returned" /\ run \in {"off", "returned"}))

\* Every job ends, having reported or given up: no full queue and no lost
\* connection holds its goroutine, and its place in the limit, forever.  The one
\* exception is an engine that holds the stream open and never reads again, on a
\* worker that nobody drains or stops (either aborts the stream).
JobsEnd == \A j \in Jobs : <>[]SendBlocked \/ []<>(job[j] = "idle")
=============================================================================
