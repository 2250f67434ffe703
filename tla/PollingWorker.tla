---------------------------- MODULE PollingWorker ----------------------------
(***************************************************************************)
(* The polling worker (worker.go): the Run loop, registration, the poll    *)
(* loop, job goroutines, heartbeat loops, Drain and Stop.  What a job does *)
(* between its start and its end is DurableRun's subject.                  *)
(*                                                                         *)
(* The server is not part of the repository: it may forget the worker at   *)
(* any time (its registry is in memory) and any request may fail.          *)
(***************************************************************************)
EXTENDS Naturals, FiniteSets

CONSTANTS
    Jobs,               \* activeJobKeys: a job id with its execution_seq
    Drainers,           \* user code that calls Drain
    MaxConcurrentJobs,
    MaxForgets,         \* bound on how often the server forgets the worker
    Self,               \* Run as a caller of Drain and of Stop
    User,               \* user code that calls Stop
    NoJob

ASSUME BoundAssumption == MaxConcurrentJobs \in Nat \ {0} /\ MaxForgets \in Nat
ASSUME JobAssumption ==
    /\ NoJob \notin Jobs /\ IsFiniteSet(Jobs)
    /\ Self \notin Drainers /\ User \notin Drainers /\ User # Self

Callers == Drainers \cup {Self}
Stoppers == Callers \cup {User}

VARIABLES
    state,      \* w.state
    run,        \* where Run, connect and pollForJobs are: one goroutine
    ctxDone,    \* the ctx given to Run is cancelled
    runDone,    \* cancelRun was called
    stopCh,     \* closed
    drain,      \* where each Drain call is, up to its call of Stop
    stop,       \* where each Stop call is
    free,       \* the available count of the poll under way
    batch,      \* the assignments of an answer still to be processed
    next,       \* the assignment processJob was called with
    active,     \* activeJobs; jobCount is their number
    dead,       \* active jobs whose context is cancelled
    beat,       \* the heartbeat loop of the newest generation
    late,       \* requests that replaced heartbeat loops still have under way
    runners,    \* projection runners are running
    registered, \* the server knows the worker (external)
    forgets

runVars == <<run, free, batch, next>>
jobVars == <<active, dead>>
beatVars == <<beat, late>>
stopVars == <<stopCh, stop>>
server == <<registered, forgets>>
vars == <<state, ctxDone, runDone, stopVars, drain, runVars, jobVars, beatVars,
          runners, server>>

Init ==
    /\ state = "idle" /\ run = "off" /\ ctxDone = FALSE /\ runDone = FALSE
    /\ stopCh = FALSE /\ drain = [c \in Callers |-> "off"]
    /\ stop = [s \in Stoppers |-> "off"]
    /\ free = 0 /\ batch = {} /\ next = NoJob
    /\ active = {} /\ dead = {} /\ beat = "none" /\ late = {}
    /\ runners = FALSE /\ registered = FALSE /\ forgets = 0

-----------------------------------------------------------------------------
(* State changes shared by the operations. *)

\* runCtx.
Done == ctxDone \/ runDone

\* storeStateUnlessDraining.
StoreUnlessDraining(s) ==
    state' = IF state \in {"stopped", "draining"} THEN state ELSE s

\* Defect: a lost registration changes nothing.
LostRegistration_Ignored == UNCHANGED state

\* lostRegistration: a compare-and-swap.
LostRegistration == state' = IF state = "connected" THEN "connecting" ELSE state

\* cancelRunContext: cancelRun is set only while Run is under way.
CancelRun == runDone' = (runDone \/ run \notin {"off", "arming", "returned"})

\* Stop's first step, under jobsMu.
StopBegins(s) ==
    /\ state' = "stopped"
    /\ stop' = [stop EXCEPT ![s] = "cancelling"]

-----------------------------------------------------------------------------
(* Run and connect. *)

RunStarts ==
    /\ run = "off"
    /\ IF state = "idle" THEN state' = "connecting" /\ run' = "arming"
       ELSE run' = "returned" /\ UNCHANGED state
    /\ UNCHANGED <<ctxDone, runDone, stopVars, drain, free, batch, next, jobVars,
                   beatVars, runners, server>>

RunArms ==
    /\ run = "arming" /\ run' = "loop"
    /\ UNCHANGED <<state, ctxDone, runDone, stopVars, drain, free, batch, next,
                   jobVars, beatVars, runners, server>>

\* runCtx is done: a stopped worker returns, a draining one waits for Stop,
\* any other drains itself.
Unwind ==
    /\ run' = CASE state = "stopped" -> "returned"
                [] state = "draining" -> "awaiting"
                [] OTHER -> "draining"
    /\ drain' = IF run' = "draining" THEN [drain EXCEPT ![Self] = "called"] ELSE drain

\* Drain returns at once from a stopped worker, else with its call of Stop.
DrainReturned(c) == drain[c] = "returned" \/ stop[c] = "returned"

\* The top of Run's loop.
RunLoops ==
    /\ run = "loop"
    /\ \/ Done /\ Unwind /\ UNCHANGED state
       \/ stopCh /\ run' = "returned" /\ UNCHANGED <<state, drain>>
       \/ /\ ~Done /\ ~stopCh
          /\ run' = IF state = "draining" THEN "awaiting" ELSE "registering"
          /\ StoreUnlessDraining("connecting")
          /\ UNCHANGED drain
    /\ UNCHANGED <<ctxDone, runDone, stopVars, free, batch, next, jobVars,
                   beatVars, runners, server>>

\* The server registered the functions and the worker.  A drain or Stop
\* meanwhile ends connect.
Registered ==
    /\ run = "registering"
    /\ registered' = TRUE
    /\ StoreUnlessDraining("connected")
    /\ run' = IF state' = "connected" THEN "connected" ELSE "loop"
    /\ UNCHANGED <<ctxDone, runDone, stopVars, drain, free, batch, next, jobVars,
                   beatVars, runners, forgets>>

RegisterFails ==
    /\ run = "registering" /\ run' = "failed"
    /\ UNCHANGED <<state, ctxDone, runDone, stopVars, drain, free, batch, next,
                   jobVars, beatVars, runners, server>>

\* stopProjectionRunners waits for the old runners without the lock ...
StopsRunners ==
    /\ run = "connected" /\ run' = "restarting"
    /\ runners' = FALSE
    /\ UNCHANGED <<state, ctxDone, runDone, stopVars, drain, free, batch, next,
                   jobVars, beatVars, server>>

\* ... and startProjectionRunners does not look at the state again.
StartsRunners ==
    /\ run = "restarting" /\ run' = "beating"
    /\ runners' = TRUE
    /\ UNCHANGED <<state, ctxDone, runDone, stopVars, drain, free, batch, next,
                   jobVars, beatVars, server>>

\* A loop that heartbeatGen has retired ends at its next tick; until then it
\* matters only for the request it may have under way.
Retired == IF beat \in {"sending", "unknown"} THEN late \cup {beat} ELSE late

\* Defect: the new loop is retired with the old one.
StartHeartbeat_Retired ==
    /\ run = "beating" /\ run' = "polling"
    /\ late' = Retired
    /\ beat' = IF beat = "none" THEN "ticking" ELSE "none"
    /\ UNCHANGED <<state, ctxDone, runDone, stopVars, drain, free, batch, next,
                   jobVars, runners, server>>

StartHeartbeat ==
    /\ run = "beating" /\ run' = "polling"
    /\ late' = Retired
    /\ beat' = "ticking"
    /\ UNCHANGED <<state, ctxDone, runDone, stopVars, drain, free, batch, next,
                   jobVars, runners, server>>

\* connect returned an error: a rejected credential, or another non-retryable
\* one, stops the worker.
RunFails(fatal) ==
    /\ run \in {"failed", "refused"} /\ (run = "refused" => fatal)
    /\ \/ /\ state \in {"stopped", "draining"} \/ Done
          /\ Unwind
          /\ UNCHANGED <<state, stop>>
       \/ /\ state \notin {"stopped", "draining"} /\ ~Done
          /\ run' = IF fatal THEN "stopping" ELSE "backoff"
          /\ IF fatal THEN StopBegins(Self) ELSE UNCHANGED <<state, stop>>
          /\ UNCHANGED drain
    /\ UNCHANGED <<ctxDone, runDone, stopCh, free, batch, next, jobVars, beatVars,
                   runners, server>>

\* runCtx, or the timer after ReconnectDelay.
BackoffEnds ==
    /\ run = "backoff"
    /\ \/ Done /\ Unwind
       \/ run' = "loop" /\ UNCHANGED drain
    /\ UNCHANGED <<state, ctxDone, runDone, stopVars, free, batch, next, jobVars,
                   beatVars, runners, server>>

\* Run waits for stopCh, or for the Drain or the Stop it called.
RunReturns ==
    /\ \/ run = "awaiting" /\ stopCh
       \/ run = "draining" /\ DrainReturned(Self)
       \/ run = "stopping" /\ stop[Self] = "returned"
    /\ run' = "returned"
    /\ UNCHANGED <<state, ctxDone, runDone, stopVars, drain, free, batch, next,
                   jobVars, beatVars, runners, server>>

-----------------------------------------------------------------------------
(* pollForJobs. *)

\* Defect: one slot too many is advertised.
FreeSlots_OneMore == MaxConcurrentJobs + 1 - Cardinality(active)
FreeSlots == MaxConcurrentJobs - Cardinality(active)

\* The top of the poll loop: leave it, wait for a free slot, or ask for jobs.
PollLoops ==
    /\ run = "polling"
    /\ \/ Done /\ run' = "failed" /\ UNCHANGED free
       \/ stopCh /\ run' = "loop" /\ UNCHANGED free
       \/ /\ ~Done /\ ~stopCh /\ state # "connected"
          /\ run' = "loop" /\ UNCHANGED free
       \/ /\ ~Done /\ ~stopCh /\ state = "connected"
          /\ run' = IF FreeSlots = 0 THEN "waiting" ELSE "requesting"
          /\ free' = FreeSlots
    /\ UNCHANGED <<state, ctxDone, runDone, stopVars, drain, batch, next, jobVars,
                   beatVars, runners, server>>

\* At most free assignments; a repeated one is possible.  An empty answer the
\* server held is polled again at once.
JobsArrive(js) ==
    /\ run = "requesting" /\ registered /\ Cardinality(js) <= free
    /\ batch' = js /\ free' = 0
    /\ \/ run' = "handing"
       \/ js = {} /\ run' = "waiting"
    /\ UNCHANGED <<state, ctxDone, runDone, stopVars, drain, next, jobVars,
                   beatVars, runners, server>>

\* 404: the server does not know the worker.
PollNotFound ==
    /\ run = "requesting" /\ ~registered
    /\ LostRegistration
    /\ run' = "lost" /\ free' = 0
    /\ UNCHANGED <<ctxDone, runDone, stopVars, drain, batch, next, jobVars,
                   beatVars, runners, server>>

\* Any other failure: a rejected credential and a done runCtx end connect.
PollFails ==
    /\ run = "requesting" /\ free' = 0
    /\ \/ Done /\ run' = "failed"
       \/ ~Done /\ run' \in {"refused", "waiting"}
    /\ UNCHANGED <<state, ctxDone, runDone, stopVars, drain, batch, next,
                   jobVars, beatVars, runners, server>>

\* wait: runCtx, stopCh or the timer.  After a 404 connect returns.
WaitEnds ==
    /\ run \in {"waiting", "lost"}
    /\ \/ Done /\ run' = "failed"
       \/ run' = IF run = "lost" THEN "loop" ELSE "polling"
    /\ UNCHANGED <<state, ctxDone, runDone, stopVars, drain, free, batch, next,
                   jobVars, beatVars, runners, server>>

\* The rest of an answer is dropped once the worker is not connected.
HandsOut ==
    /\ run = "handing"
    /\ \/ /\ batch = {} \/ state # "connected"
          /\ batch' = {} /\ run' = "polling" /\ UNCHANGED next
       \/ /\ state = "connected"
          /\ \E j \in batch : next' = j /\ batch' = batch \ {j}
          /\ run' = "processing"
    /\ UNCHANGED <<state, ctxDone, runDone, stopVars, drain, free, jobVars,
                   beatVars, runners, server>>

\* Defects: processJob trusts the caller's check, or checks only for a drain.
Accepts_Unchecked == TRUE
Accepts_UnlessDraining == state # "draining"
Accepts == state \notin {"draining", "stopped"}

\* processJob, under jobsMu: the state is checked with the registration of the
\* job, and a duplicate is ignored.
ProcessJob ==
    /\ run = "processing"
    /\ active' = IF Accepts THEN active \cup {next} ELSE active
    /\ run' = "handing" /\ next' = NoJob
    /\ UNCHANGED <<state, ctxDone, runDone, stopVars, drain, free, batch, dead,
                   beatVars, runners, server>>

\* A job's goroutine ends: acknowledged and executed, or dropped.
JobEnds(j) ==
    /\ j \in active
    /\ active' = active \ {j} /\ dead' = dead \ {j}
    /\ UNCHANGED <<state, ctxDone, runDone, stopVars, drain, runVars, beatVars,
                   runners, server>>

-----------------------------------------------------------------------------
(* Heartbeat loops. *)

\* stopCh, or a tick: the loop of a worker that is not connected ends; it also
\* beats through a drain.
BeatTicks ==
    /\ beat = "ticking"
    /\ \/ stopCh /\ beat' = "none"
       \/ beat' = IF state \in {"connected", "draining"} THEN "sending" ELSE "none"
    /\ UNCHANGED <<state, ctxDone, runDone, stopVars, drain, runVars, jobVars, late,
                   runners, server>>

\* The server handles the heartbeat, or the request fails.
BeatHandled ==
    /\ beat = "sending"
    /\ beat' = IF registered THEN "ticking" ELSE "unknown"
    /\ UNCHANGED <<state, ctxDone, runDone, stopVars, drain, runVars, jobVars, late,
                   runners, server>>

BeatFails ==
    /\ beat = "sending" /\ beat' = "ticking"
    /\ UNCHANGED <<state, ctxDone, runDone, stopVars, drain, runVars, jobVars, late,
                   runners, server>>

\* A 404 reaches the loop.
BeatNotFound ==
    /\ beat = "unknown" /\ beat' = "ticking"
    /\ LostRegistration
    /\ UNCHANGED <<ctxDone, runDone, stopVars, drain, runVars, jobVars, late,
                   runners, server>>

\* The request of a retired loop is handled, fails, or gets its 404.
LateBeatHandled ==
    /\ "sending" \in late
    /\ \E answer \in {{}, IF registered THEN {} ELSE {"unknown"}} :
          late' = (late \ {"sending"}) \cup answer
    /\ UNCHANGED <<state, ctxDone, runDone, stopVars, drain, runVars, jobVars, beat,
                   runners, server>>

LateNotFound ==
    /\ "unknown" \in late /\ late' = late \ {"unknown"}
    /\ LostRegistration
    /\ UNCHANGED <<ctxDone, runDone, stopVars, drain, runVars, jobVars, beat,
                   runners, server>>

-----------------------------------------------------------------------------
(* Drain and Stop. *)

DrainCalled(d) ==
    /\ drain[d] = "off"
    /\ drain' = [drain EXCEPT ![d] = "called"]
    /\ UNCHANGED <<state, ctxDone, runDone, stopVars, runVars, jobVars, beatVars,
                   runners, server>>

\* Under jobsMu.
DrainBegins(c) ==
    /\ drain[c] = "called"
    /\ StoreUnlessDraining("draining")
    /\ drain' = [drain EXCEPT ![c] = IF state = "stopped" THEN "returned" ELSE "cancelling"]
    /\ UNCHANGED <<ctxDone, runDone, stopVars, runVars, jobVars, beatVars, runners,
                   server>>

DrainCancels(c) ==
    /\ drain[c] = "cancelling"
    /\ CancelRun
    /\ drain' = [drain EXCEPT ![c] = "waiting"]
    /\ UNCHANGED <<state, ctxDone, stopVars, runVars, jobVars, beatVars, runners,
                   server>>

\* No job is left.
DrainSeesIdle(c) ==
    /\ drain[c] = "waiting" /\ Cardinality(active) = 0
    /\ drain' = [drain EXCEPT ![c] = "idle"]
    /\ UNCHANGED <<state, ctxDone, runDone, stopVars, runVars, jobVars, beatVars,
                   runners, server>>

\* Defect: the drain waits for its jobs without a deadline.
DrainStops_NoDeadline(c) ==
    /\ drain[c] = "idle"
    /\ drain' = [drain EXCEPT ![c] = "stopping"]
    /\ StopBegins(c)
    /\ UNCHANGED <<ctxDone, runDone, stopCh, runVars, jobVars, beatVars, runners, server>>

\* Drain stops the worker when no job is left, or at the deadline.
DrainStops(c) ==
    /\ drain[c] = "idle" \/ (drain[c] = "waiting" /\ Cardinality(active) > 0)
    /\ drain' = [drain EXCEPT ![c] = "stopping"]
    /\ StopBegins(c)
    /\ UNCHANGED <<ctxDone, runDone, stopCh, runVars, jobVars, beatVars, runners, server>>

StopCalled ==
    /\ stop[User] = "off"
    /\ StopBegins(User)
    /\ UNCHANGED <<ctxDone, runDone, stopCh, drain, runVars, jobVars, beatVars, runners,
                   server>>

StopCancels(s) ==
    /\ stop[s] = "cancelling"
    /\ CancelRun
    /\ stop' = [stop EXCEPT ![s] = "entering"]
    /\ UNCHANGED <<state, ctxDone, stopCh, drain, runVars, jobVars, beatVars, runners,
                   server>>

\* stopOnce: the first caller closes stopCh ...
StopCloses(s) ==
    /\ stop[s] = "entering" /\ ~stopCh
    /\ stopCh' = TRUE
    /\ stop' = [stop EXCEPT ![s] = "closed"]
    /\ UNCHANGED <<state, ctxDone, runDone, drain, runVars, jobVars, beatVars, runners,
                   server>>

\* ... stopProjectionRunners takes the runners and waits for them ...
StopTakesRunners(s) ==
    /\ stop[s] = "closed"
    /\ runners' = FALSE
    /\ stop' = [stop EXCEPT ![s] = "walking"]
    /\ UNCHANGED <<state, ctxDone, runDone, stopCh, drain, runVars, jobVars, beatVars,
                   server>>

\* ... and only then are the active jobs cancelled, which worked on meanwhile.
StopKillsJobs(s) ==
    /\ stop[s] = "walking"
    /\ dead' = active
    /\ stop' = [stop EXCEPT ![s] = "returned"]
    /\ UNCHANGED <<state, ctxDone, runDone, stopCh, drain, runVars, active, beatVars,
                   runners, server>>

\* Defect: a flag instead of a Once; a second caller returns at once.
StopJoins_NoWait(s) ==
    /\ stop[s] = "entering" /\ stopCh
    /\ stop' = [stop EXCEPT ![s] = "returned"]
    /\ UNCHANGED <<state, ctxDone, runDone, stopCh, drain, runVars, jobVars, beatVars,
                   runners, server>>

\* Any other caller of stopOnce.Do waits until the first is through.
StopJoins(s) ==
    /\ stop[s] = "entering" /\ \E t \in Stoppers : stop[t] = "returned"
    /\ stop' = [stop EXCEPT ![s] = "returned"]
    /\ UNCHANGED <<state, ctxDone, runDone, stopCh, drain, runVars, jobVars, beatVars,
                   runners, server>>

\* The caller of Run cancels its context.
CtxCancelled ==
    /\ ~ctxDone /\ ctxDone' = TRUE
    /\ UNCHANGED <<state, runDone, stopVars, drain, runVars, jobVars, beatVars,
                   runners, server>>

\* The server restarts, or the next request reaches another node.
ServerForgets ==
    /\ registered /\ forgets < MaxForgets
    /\ registered' = FALSE /\ forgets' = forgets + 1
    /\ UNCHANGED <<state, ctxDone, runDone, stopVars, drain, runVars, jobVars,
                   beatVars, runners>>

-----------------------------------------------------------------------------
RunSteps ==
    \/ RunStarts \/ RunArms \/ RunLoops \/ Registered \/ RegisterFails
    \/ StopsRunners \/ StartsRunners \/ StartHeartbeat \/ BackoffEnds \/ RunReturns
    \/ PollLoops \/ PollNotFound \/ PollFails \/ WaitEnds \/ HandsOut \/ ProcessJob
    \/ \E fatal \in BOOLEAN : RunFails(fatal)
    \/ \E js \in SUBSET Jobs : JobsArrive(js)

BeatSteps == BeatTicks \/ BeatHandled \/ BeatFails \/ BeatNotFound

DrainSteps(c) == DrainBegins(c) \/ DrainCancels(c) \/ DrainSeesIdle(c) \/ DrainStops(c)

StopSteps(s) ==
    \/ StopCancels(s) \/ StopCloses(s) \/ StopTakesRunners(s) \/ StopKillsJobs(s)
    \/ StopJoins(s)

Next ==
    \/ RunSteps \/ StopCalled \/ CtxCancelled \/ ServerForgets
    \/ \E j \in Jobs : JobEnds(j)
    \/ BeatSteps \/ LateBeatHandled \/ LateNotFound
    \/ \E d \in Drainers : DrainCalled(d)
    \/ \E c \in Callers : DrainSteps(c)
    \/ \E s \in Stoppers : StopSteps(s)

Spec == Init /\ [][Next]_vars

\* The worker's goroutines run, timers fire and requests end (the HTTP client
\* and a projection runner's Stop have timeouts).  No handler is assumed to
\* return.  Of the server: a worker that keeps asking is answered some time.
FairSpec ==
    /\ Spec
    /\ WF_vars(run # "off" /\ RunSteps)
    /\ \A c \in Callers : WF_vars(DrainSteps(c))
    /\ \A s \in Stoppers : WF_vars(StopSteps(s))
    /\ WF_vars(BeatSteps)
    /\ SF_vars(PollNotFound) /\ SF_vars(BeatHandled) /\ SF_vars(Registered)

-----------------------------------------------------------------------------
(* Properties. *)

DrainPlaces == {"off", "called", "cancelling", "waiting", "idle", "stopping", "returned"}
StopPlaces == {"off", "cancelling", "entering", "closed", "walking", "returned"}

\* The variables have their types; only active jobs have a context to cancel.
TypeOK ==
    /\ state \in {"idle", "connecting", "connected", "draining", "stopped"}
    /\ run \in {"off", "arming", "loop", "registering", "connected", "restarting",
                "beating", "polling", "requesting", "waiting", "lost", "handing",
                "processing", "failed", "refused", "backoff", "awaiting", "draining",
                "stopping", "returned"}
    /\ ctxDone \in BOOLEAN /\ runDone \in BOOLEAN /\ stopCh \in BOOLEAN
    /\ drain \in [Callers -> DrainPlaces]
    /\ stop \in [Stoppers -> StopPlaces]
    /\ free \in Nat /\ batch \subseteq Jobs /\ next \in Jobs \cup {NoJob}
    /\ active \subseteq Jobs /\ dead \subseteq active
    /\ beat \in {"none", "ticking", "sending", "unknown"} /\ late \subseteq {"sending", "unknown"}
    /\ runners \in BOOLEAN /\ registered \in BOOLEAN /\ forgets \in 0 .. MaxForgets

\* Jobs started from a batch never exceed the limit, although the free slots
\* were counted before the poll and the batch may name active jobs again.
CapacityRespected == Cardinality(active) <= MaxConcurrentJobs

\* When Drain has seen no job and goes on to stop the worker, the poll loop,
\* which may hold a batch, starts none behind its back.
DrainedMeansIdle == \A c \in Callers : drain[c] = "idle" => active = {}

\* When a call of Stop returns, the worker runs only jobs it has cancelled: none
\* slips in between the poll loop's check and the walk over the active jobs,
\* which comes long after the state was stored, and a second caller of Stop does
\* not return before the walk of the first.
StopReachesEveryJob ==
    \A s \in Stoppers : stop[s] = "returned" => active \subseteq dead

\* While the worker polls, the heartbeat loop of this connection is alive, also
\* after a registration was lost and whatever late 404s the old loops get: the
\* leases of its jobs are refreshed.
HeartbeatCovers ==
    state = "connected" /\ run \in {"polling", "requesting", "waiting", "handing", "processing"}
    => beat # "none"

\* Drain returns and Run ends, also when Run is registering, backing off or in
\* a poll, and when a handler never returns.
DrainEnds ==
    \A c \in Callers :
        drain[c] = "called" ~> DrainReturned(c) /\ run \in {"off", "returned"}

\* A worker the server forgot registers again by itself.
Reregisters ==
    state = "connected" /\ ~registered ~> registered \/ state \in {"draining", "stopped"}

=============================================================================
