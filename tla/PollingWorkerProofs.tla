------------------------- MODULE PollingWorkerProofs -------------------------
(***************************************************************************)
(* Proofs about PollingWorker, for any set of jobs, any number of callers  *)
(* of Drain and any limit on concurrent jobs.  WorkerInv is inductive; the *)
(* four safety invariants of the module are conjuncts of it or follow.     *)
(***************************************************************************)
EXTENDS PollingWorker, FiniteSetTheorems, TLAPS

\* The jobs an answer of the server may still start.
Handed == Cardinality(batch) + (IF next = NoJob THEN 0 ELSE 1)

\* pollForJobs holds assignments only between an answer and the next poll.
HeldWhileHanding ==
    /\ run \notin {"handing", "processing"} => batch = {}
    /\ next # NoJob <=> run = "processing"

\* The slots counted before a poll are still free when its answer comes, and
\* those of an answer until it is handed out: jobs only end meanwhile.
SlotsReserved ==
    /\ Cardinality(active) + Handed <= MaxConcurrentJobs
    /\ run = "requesting" => Cardinality(active) + free <= MaxConcurrentJobs

\* A Drain that has begun has shut the worker, and it stays shut.
DrainShuts ==
    \A c \in Callers :
        drain[c] \in {"cancelling", "waiting", "idle"} => state \in {"draining", "stopped"}

\* A call of Stop stores the state first, which never leaves "stopped": so it is
\* set before stopCh is closed and before any walk over the jobs.
StopIsFinal ==
    /\ stopCh => state = "stopped"
    /\ \A s \in Stoppers : stop[s] # "off" => state = "stopped"

\* The inductive invariant.
WorkerInv ==
    /\ TypeOK /\ HeldWhileHanding /\ SlotsReserved
    /\ StopIsFinal /\ StopReachesEveryJob
    /\ DrainShuts /\ DrainedMeansIdle
    /\ HeartbeatCovers

-----------------------------------------------------------------------------
(* Finite sets of jobs. *)

\* Any set of jobs is finite and has a number of elements.
LEMMA JobSets ==
    ASSUME NEW S \in SUBSET Jobs
    PROVE  /\ IsFiniteSet(S) /\ Cardinality(S) \in Nat
           /\ Cardinality(S) = 0 <=> S = {}
BY JobAssumption, FS_Subset, FS_CardinalityType, FS_EmptySet

\* Adding a job adds at most one; removing one never adds, and takes away one
\* when the job was there.
LEMMA OneJob ==
    ASSUME NEW S \in SUBSET Jobs, NEW j \in Jobs
    PROVE  /\ Cardinality(S \cup {j}) <= Cardinality(S) + 1
           /\ Cardinality(S \ {j}) <= Cardinality(S)
           /\ j \in S => Cardinality(S \ {j}) = Cardinality(S) - 1
<1>1. /\ IsFiniteSet(S) /\ Cardinality(S) \in Nat
      /\ S \cup {j} \in SUBSET Jobs /\ S \ {j} \in SUBSET Jobs
  BY JobSets
<1>2. Cardinality(S \cup {j}) = IF j \in S THEN Cardinality(S) ELSE Cardinality(S) + 1
  BY <1>1, FS_AddElement
<1>3. Cardinality(S \ {j}) = IF j \in S THEN Cardinality(S) - 1 ELSE Cardinality(S)
  BY <1>1, FS_RemoveElement
<1> QED
  BY <1>1, <1>2, <1>3

\* TypeOK and SlotsReserved bound the active jobs: FreeSlots never underflows.
LEMMA SlotsAreNatural ==
    ASSUME TypeOK, SlotsReserved
    PROVE  /\ Cardinality(active) \in Nat /\ Cardinality(batch) \in Nat /\ Handed \in Nat
           /\ FreeSlots \in Nat
BY JobSets, BoundAssumption DEF TypeOK, SlotsReserved, Handed, FreeSlots

-----------------------------------------------------------------------------
(* The inductive invariant. *)

\* Run has not started: nothing is polled, drained or stopped.
LEMMA WorkerInit == Init => WorkerInv
<1> SUFFICES ASSUME Init PROVE WorkerInv
  OBVIOUS
<1>1. TypeOK
  <2>1. drain \in [Callers -> DrainPlaces]
    BY DEF Init, DrainPlaces
  <2>3. stop \in [Stoppers -> StopPlaces]
    BY DEF Init, StopPlaces
  <2>2. free \in Nat /\ forgets \in 0 .. MaxForgets
    BY BoundAssumption DEF Init
  <2> QED
    BY <2>1, <2>2, <2>3 DEF Init, TypeOK
<1>2. HeldWhileHanding /\ SlotsReserved
  BY FS_EmptySet, BoundAssumption DEF Init, HeldWhileHanding, SlotsReserved, Handed
<1>3. StopIsFinal /\ StopReachesEveryJob
  BY DEF Init, StopIsFinal, StopReachesEveryJob
<1>4. DrainShuts /\ DrainedMeansIdle /\ HeartbeatCovers
  BY DEF Init, DrainShuts, DrainedMeansIdle, HeartbeatCovers
<1> QED
  BY <1>1, <1>2, <1>3, <1>4 DEF WorkerInv

\* Which steps move a Stop call: one that begins stores the state, one ends by
\* cancelling every job or after another has.
LEMMA StopMoves ==
    ASSUME WorkerInv, [Next]_vars, NEW s \in Stoppers
    PROVE  /\ stop' \in [Stoppers -> StopPlaces]
           /\ stop'[s] # "off" => stop[s] # "off" \/ state' = "stopped"
           /\ stop'[s] = "returned" =>
                 \/ \E t \in Stoppers : stop[t] = "returned"
                 \/ active' = active /\ dead' = active
           /\ stopCh' => stopCh \/ state = "stopped"
           /\ dead' = dead \/ dead' = active \/ \E j \in Jobs : dead' = dead \ {j} /\ active' = active \ {j}
<1>0. /\ stop \in [Stoppers -> StopPlaces] /\ StopIsFinal
      /\ Self \in Stoppers /\ User \in Stoppers /\ Callers \subseteq Stoppers
  BY DEF WorkerInv, TypeOK, Stoppers, Callers
<1>1. CASE UNCHANGED <<stopCh, stop, dead>>
  BY <1>0, <1>1
<1>2. ASSUME NEW t \in Stoppers, StopBegins(t), UNCHANGED <<stopCh, dead>>
      PROVE  /\ stop' \in [Stoppers -> StopPlaces]
             /\ stop'[s] # "off" => stop[s] # "off" \/ state' = "stopped"
             /\ stop'[s] = "returned" =>
                   \/ \E u \in Stoppers : stop[u] = "returned"
                   \/ active' = active /\ dead' = active
             /\ stopCh' => stopCh \/ state = "stopped"
             /\ dead' = dead
  BY <1>0, <1>2 DEF StopBegins, StopPlaces
<1>3. CASE RunSteps
  <2>1. CASE \E fatal \in BOOLEAN : RunFails(fatal)
    <3>1. UNCHANGED <<stopCh, dead>> /\ (StopBegins(Self) \/ UNCHANGED stop)
      BY <2>1 DEF RunFails, jobVars
    <3> QED
      BY <1>0, <1>1, <1>2, <3>1
  <2>2. CASE ~ \E fatal \in BOOLEAN : RunFails(fatal)
    <3>1. UNCHANGED <<stopCh, stop, dead>>
      BY <1>3, <2>2 DEF RunSteps, RunStarts, RunArms, RunLoops, Registered, RegisterFails,
         StopsRunners, StartsRunners, StartHeartbeat, BackoffEnds, RunReturns, PollLoops,
         PollNotFound, PollFails, WaitEnds, HandsOut, ProcessJob, JobsArrive, stopVars, jobVars
    <3> QED
      BY <1>1, <3>1
  <2> QED
    BY <2>1, <2>2
<1>4. CASE CtxCancelled \/ ServerForgets \/ BeatSteps \/ LateBeatHandled \/ LateNotFound
           \/ \E d \in Drainers : DrainCalled(d)
  <2>1. UNCHANGED <<stopCh, stop, dead>>
    BY <1>4 DEF CtxCancelled, ServerForgets, BeatSteps, BeatTicks, BeatHandled, BeatFails,
       BeatNotFound, LateBeatHandled, LateNotFound, DrainCalled, stopVars, jobVars
  <2> QED
    BY <1>1, <2>1
<1>5. CASE StopCalled
  BY <1>0, <1>2, <1>5 DEF StopCalled, jobVars
<1>6. CASE \E j \in Jobs : JobEnds(j)
  BY <1>0, <1>6 DEF JobEnds, stopVars
<1>7. ASSUME NEW c \in Callers, DrainSteps(c)
      PROVE  UNCHANGED <<stopCh, dead>> /\ (StopBegins(c) \/ UNCHANGED stop)
  BY <1>7 DEF DrainSteps, DrainBegins, DrainCancels, DrainSeesIdle, DrainStops, stopVars, jobVars
<1>8. ASSUME NEW t \in Stoppers, StopSteps(t)
      PROVE  /\ stop' \in [Stoppers -> StopPlaces]
             /\ stop'[s] # "off" => stop[s] # "off" \/ state' = "stopped"
             /\ stop'[s] = "returned" =>
                   \/ \E u \in Stoppers : stop[u] = "returned"
                   \/ active' = active /\ dead' = active
             /\ stopCh' => stopCh \/ state = "stopped"
             /\ dead' = dead \/ dead' = active
  <2>1. CASE StopCancels(t)
    BY <1>0, <2>1 DEF StopCancels, StopPlaces, jobVars
  <2>2. CASE StopCloses(t)
    BY <1>0, <2>2 DEF StopCloses, StopPlaces, StopIsFinal, jobVars
  <2>3. CASE StopTakesRunners(t)
    BY <1>0, <2>3 DEF StopTakesRunners, StopPlaces, jobVars
  <2>4. CASE StopKillsJobs(t)
    BY <1>0, <2>4 DEF StopKillsJobs, StopPlaces
  <2>5. CASE StopJoins(t)
    BY <1>0, <2>5 DEF StopJoins, StopPlaces, jobVars
  <2> QED
    BY <1>8, <2>1, <2>2, <2>3, <2>4, <2>5 DEF StopSteps
<1>9. CASE UNCHANGED vars
  BY <1>1, <1>9 DEF vars, stopVars, jobVars
<1>10. CASE \E c \in Callers : DrainSteps(c)
  BY <1>0, <1>1, <1>2, <1>7, <1>10
<1>11. CASE \E t \in Stoppers : StopSteps(t)
  BY <1>8, <1>11
<1> QED
  BY <1>3, <1>4, <1>5, <1>6, <1>9, <1>10, <1>11 DEF Next

\* What Drain and Stop rely on: the state moves to "draining" or "stopped" and
\* stays there, a job starts only in an open worker.
LEMMA DoorStep ==
    ASSUME WorkerInv, [Next]_vars
    PROVE  /\ state = "stopped" => state' = "stopped"
           /\ state \in {"draining", "stopped"} => state' \in {"draining", "stopped"}
           /\ state \in {"draining", "stopped"} => active' \subseteq active
<1> USE DEF StopBegins, StoreUnlessDraining, LostRegistration
<1>1. CASE RunSteps
  <2>1. CASE ProcessJob
    BY <2>1 DEF ProcessJob, Accepts
  <2>2. CASE \E fatal \in BOOLEAN : RunFails(fatal)
    BY <2>2 DEF RunFails, jobVars
  <2>3. CASE RunStarts \/ RunLoops \/ Registered \/ PollNotFound
    BY <2>3 DEF RunStarts, RunLoops, Registered, PollNotFound, jobVars
  <2>4. CASE \/ RunArms \/ RegisterFails \/ StopsRunners \/ StartsRunners \/ StartHeartbeat
             \/ BackoffEnds \/ RunReturns \/ PollLoops \/ PollFails \/ WaitEnds \/ HandsOut
             \/ \E js \in SUBSET Jobs : JobsArrive(js)
    BY <2>4 DEF RunArms, RegisterFails, StopsRunners, StartsRunners, StartHeartbeat,
       BackoffEnds, RunReturns, PollLoops, PollFails, WaitEnds, HandsOut, JobsArrive, jobVars
  <2> QED
    BY <1>1, <2>1, <2>2, <2>3, <2>4 DEF RunSteps
<1>2. CASE StopCalled \/ CtxCancelled \/ ServerForgets
  BY <1>2 DEF StopCalled, CtxCancelled, ServerForgets, jobVars
<1>3. CASE \E j \in Jobs : JobEnds(j)
  BY <1>3 DEF JobEnds
<1>4. CASE BeatSteps \/ LateBeatHandled \/ LateNotFound
  BY <1>4 DEF BeatSteps, BeatTicks, BeatHandled, BeatFails, BeatNotFound,
     LateBeatHandled, LateNotFound, jobVars
<1>5. CASE \E d \in Drainers : DrainCalled(d)
  BY <1>5 DEF DrainCalled, jobVars
<1>6. CASE \E c \in Callers : DrainSteps(c)
  BY <1>6 DEF DrainSteps, DrainBegins, DrainCancels, DrainSeesIdle, DrainStops, jobVars
<1>7. CASE \E s \in Stoppers : StopSteps(s)
  BY <1>7 DEF StopSteps, StopCancels, StopCloses, StopTakesRunners, StopKillsJobs, StopJoins, jobVars
<1>8. CASE UNCHANGED vars
  BY <1>8 DEF vars, jobVars
<1> QED
  BY <1>1, <1>2, <1>3, <1>4, <1>5, <1>6, <1>7, <1>8 DEF Next

\* A call of Stop that returns leaves only cancelled jobs: the first one cancels
\* those it finds, none starts after the state was stored, and the others wait
\* for the first.
LEMMA StopStep ==
    ASSUME WorkerInv, [Next]_vars PROVE StopIsFinal' /\ StopReachesEveryJob'
<1>0. StopReachesEveryJob /\ StopIsFinal
  BY DEF WorkerInv
<1>1. StopIsFinal'
  BY <1>0, StopMoves, DoorStep DEF StopIsFinal, Stoppers, Callers
<1>2. ASSUME NEW s \in Stoppers', stop'[s] = "returned"
      PROVE  active' \subseteq dead'
  <2>1. CASE active' = active /\ dead' = active
    BY <2>1
  <2>2. CASE \E t \in Stoppers : stop[t] = "returned"
    <3>1. active \subseteq dead /\ state = "stopped"
      BY <1>0, <2>2 DEF StopReachesEveryJob, StopIsFinal
    <3>2. active' \subseteq active
      BY <3>1, DoorStep
    <3>3. dead' = dead \/ dead' = active \/ \E j \in Jobs : dead' = dead \ {j} /\ active' = active \ {j}
      BY <1>2, StopMoves DEF Stoppers, Callers
    <3> QED
      BY <3>1, <3>2, <3>3
  <2> QED
    BY <1>2, <2>1, <2>2, StopMoves DEF Stoppers, Callers
<1> QED
  BY <1>1, <1>2 DEF StopReachesEveryJob

\* Which steps move a Drain call: it is called, it begins, and it is "idle"
\* only where the worker had no job.
LEMMA DrainMoves ==
    ASSUME WorkerInv, [Next]_vars, NEW c \in Callers
    PROVE  /\ drain' \in [Callers -> DrainPlaces]
           /\ drain'[c] \in {"cancelling", "waiting", "idle"} =>
                 drain[c] \in {"cancelling", "waiting", "idle"} \/ state' \in {"draining", "stopped"}
           /\ drain'[c] = "idle" => drain[c] = "idle" \/ (active = {} /\ active' = {})
<1>0. /\ drain \in [Callers -> DrainPlaces]
      /\ active \subseteq Jobs /\ Self \in Callers /\ Drainers \subseteq Callers
  BY DEF WorkerInv, TypeOK, Callers
<1> USE DEF DrainPlaces
<1>1. CASE UNCHANGED drain
  BY <1>0, <1>1
<1>2. CASE \E d \in Callers : drain' = [drain EXCEPT ![d] = "called"]
  BY <1>0, <1>2
<1>3. CASE RunSteps
  <2>1. UNCHANGED drain \/ drain' = [drain EXCEPT ![Self] = "called"]
    BY <1>3 DEF RunSteps, RunStarts, RunArms, RunLoops, Registered, RegisterFails, StopsRunners,
       StartsRunners, StartHeartbeat, BackoffEnds, RunReturns, PollLoops, PollNotFound, PollFails,
       WaitEnds, HandsOut, ProcessJob, RunFails, JobsArrive, Unwind
  <2> QED
    BY <1>0, <1>1, <1>2, <2>1
<1>4. CASE \/ StopCalled \/ CtxCancelled \/ ServerForgets \/ \E j \in Jobs : JobEnds(j)
           \/ BeatSteps \/ LateBeatHandled \/ LateNotFound
  BY <1>1, <1>4 DEF StopCalled, CtxCancelled, ServerForgets, JobEnds, BeatSteps, BeatTicks,
     BeatHandled, BeatFails, BeatNotFound, LateBeatHandled, LateNotFound
<1>5. CASE \E d \in Drainers : DrainCalled(d)
  BY <1>0, <1>2, <1>5 DEF DrainCalled
<1>6. ASSUME NEW d \in Callers, DrainSteps(d)
      PROVE  /\ drain' \in [Callers -> DrainPlaces]
             /\ drain'[c] \in {"cancelling", "waiting", "idle"} =>
                   drain[c] \in {"cancelling", "waiting", "idle"} \/ state' \in {"draining", "stopped"}
             /\ drain'[c] = "idle" => drain[c] = "idle" \/ (active = {} /\ active' = {})
  <2>1. CASE DrainBegins(d)
    BY <1>0, <2>1 DEF DrainBegins, StoreUnlessDraining
  <2>2. CASE DrainCancels(d)
    BY <1>0, <2>2 DEF DrainCancels
  <2>3. CASE DrainSeesIdle(d)
    <3>1. active = {} /\ UNCHANGED active
      BY <1>0, <2>3, JobSets DEF DrainSeesIdle, jobVars
    <3> QED
      BY <1>0, <2>3, <3>1 DEF DrainSeesIdle
  <2>4. CASE DrainStops(d)
    BY <1>0, <2>4 DEF DrainStops
  <2> QED
    BY <1>6, <2>1, <2>2, <2>3, <2>4 DEF DrainSteps
<1>7. CASE UNCHANGED vars
  BY <1>1, <1>7 DEF vars
<1>8. CASE \E s \in Stoppers : StopSteps(s)
  BY <1>1, <1>8 DEF StopSteps, StopCancels, StopCloses, StopTakesRunners, StopKillsJobs, StopJoins
<1> QED
  BY <1>3, <1>4, <1>5, <1>6, <1>7, <1>8 DEF Next

\* A Drain that has begun has shut the door, and once it has seen no job there
\* is none.
LEMMA DrainStep ==
    ASSUME WorkerInv, [Next]_vars PROVE DrainShuts' /\ DrainedMeansIdle'
<1>0. DrainShuts /\ DrainedMeansIdle
  BY DEF WorkerInv
<1>1. ASSUME NEW c \in Callers', drain'[c] \in {"cancelling", "waiting", "idle"}
      PROVE  state' \in {"draining", "stopped"}
  BY <1>0, <1>1, DrainMoves, DoorStep DEF DrainShuts, Callers
<1>2. ASSUME NEW c \in Callers', drain'[c] = "idle" PROVE active' = {}
  <2>1. CASE drain[c] = "idle"
    <3>1. active = {} /\ state \in {"draining", "stopped"}
      BY <1>0, <2>1 DEF DrainShuts, DrainedMeansIdle, Callers
    <3> QED
      BY <3>1, DoorStep
  <2>2. CASE drain[c] # "idle"
    BY <1>2, <2>2, DrainMoves DEF Callers
  <2> QED
    BY <2>1, <2>2
<1> QED
  BY <1>1, <1>2 DEF DrainShuts, DrainedMeansIdle

\* A loop ends only in a worker that is not connected, and connect starts one
\* before it polls.
LEMMA HeartbeatStep ==
    ASSUME WorkerInv, [Next]_vars PROVE HeartbeatCovers'
<1> USE DEF HeartbeatCovers
<1>0. HeartbeatCovers /\ StopIsFinal
  BY DEF WorkerInv
<1>1. CASE RunSteps
  <2>1. CASE RunStarts \/ RunArms \/ RunLoops \/ Registered \/ RegisterFails
    BY <2>1 DEF RunStarts, RunArms, RunLoops, Unwind, Registered, RegisterFails
  <2>2. CASE StopsRunners \/ StartsRunners \/ StartHeartbeat \/ BackoffEnds \/ RunReturns
    BY <2>2 DEF StopsRunners, StartsRunners, StartHeartbeat, BackoffEnds, Unwind, RunReturns
  <2>3. CASE PollLoops \/ PollFails \/ WaitEnds \/ HandsOut \/ ProcessJob
    BY <1>0, <2>3 DEF PollLoops, PollFails, WaitEnds, HandsOut, ProcessJob, beatVars
  <2>4. CASE PollNotFound
    BY <2>4 DEF PollNotFound
  <2>5. CASE \E fatal \in BOOLEAN : RunFails(fatal)
    BY <2>5 DEF RunFails, Unwind
  <2>6. CASE \E js \in SUBSET Jobs : JobsArrive(js)
    BY <1>0, <2>6 DEF JobsArrive, beatVars
  <2> QED
    BY <1>1, <2>1, <2>2, <2>3, <2>4, <2>5, <2>6 DEF RunSteps
<1>2. CASE StopCalled \/ CtxCancelled \/ ServerForgets
  BY <1>0, <1>2 DEF StopCalled, StopBegins, CtxCancelled, ServerForgets, runVars, beatVars
<1>3. CASE \E j \in Jobs : JobEnds(j)
  BY <1>0, <1>3 DEF JobEnds, runVars, beatVars
<1>4. CASE BeatSteps \/ LateBeatHandled \/ LateNotFound
  BY <1>0, <1>4 DEF BeatSteps, BeatTicks, BeatHandled, BeatFails, BeatNotFound,
     LateBeatHandled, LateNotFound, LostRegistration, StopIsFinal, runVars
<1>5. CASE \E d \in Drainers : DrainCalled(d)
  BY <1>0, <1>5 DEF DrainCalled, runVars, beatVars
<1>6. CASE \E c \in Callers : DrainSteps(c)
  BY <1>0, <1>6 DEF DrainSteps, DrainBegins, DrainCancels, DrainSeesIdle, DrainStops, StopBegins,
     StoreUnlessDraining, runVars, beatVars
<1>7. CASE UNCHANGED vars
  BY <1>0, <1>7 DEF vars, runVars, beatVars
<1>8. CASE \E s \in Stoppers : StopSteps(s)
  BY <1>0, <1>8 DEF StopSteps, StopCancels, StopCloses, StopTakesRunners, StopKillsJobs, StopJoins,
     runVars, beatVars
<1> QED
  BY <1>1, <1>2, <1>3, <1>4, <1>5, <1>6, <1>7, <1>8 DEF Next

\* Every variable but drain, which DrainMoves covers, keeps its type under the
\* steps of Run.
LEMMA RunTypes ==
    ASSUME WorkerInv, RunSteps, drain' \in [Callers -> DrainPlaces],
           stop' \in [Stoppers -> StopPlaces]
    PROVE  TypeOK'
<1>0. TypeOK /\ HeldWhileHanding /\ FreeSlots \in Nat
  BY SlotsAreNatural DEF WorkerInv
<1>1. CASE RunStarts \/ RunArms \/ RunLoops \/ Registered \/ RegisterFails
  <2>1. CASE RunStarts
    BY <1>0, <2>1 DEF TypeOK, RunStarts, stopVars, jobVars, beatVars, server
  <2>4. CASE RunArms \/ RegisterFails
    <3>1. run' \in {"loop", "failed"}
      BY <2>4 DEF RunArms, RegisterFails
    <3>2. UNCHANGED <<state, ctxDone, runDone, stopCh, stop, drain, free, batch, next, active, dead, beat, late, runners,
                      registered, forgets>>
      BY <2>4 DEF RunArms, RegisterFails, stopVars, jobVars, beatVars, server
    <3> QED
      BY <1>0, <3>1, <3>2 DEF TypeOK
  <2>2. CASE RunLoops
    BY <1>0, <2>2 DEF TypeOK, RunLoops, Unwind, StoreUnlessDraining, stopVars, jobVars, beatVars, server
  <2>3. CASE Registered
    BY <1>0, <2>3 DEF TypeOK, Registered, StoreUnlessDraining, stopVars, jobVars, beatVars
  <2> QED
    BY <1>1, <2>1, <2>2, <2>3, <2>4
<1>2. CASE StopsRunners \/ StartsRunners \/ StartHeartbeat \/ BackoffEnds \/ RunReturns
  <2>1. CASE StopsRunners \/ StartsRunners
    BY <1>0, <2>1 DEF TypeOK, StopsRunners, StartsRunners, stopVars, jobVars, beatVars, server
  <2>4. CASE RunReturns
    BY <1>0, <2>4 DEF TypeOK, RunReturns, stopVars, jobVars, beatVars, server
  <2>2. CASE StartHeartbeat
    BY <1>0, <2>2 DEF TypeOK, StartHeartbeat, Retired, stopVars, jobVars, server
  <2>3. CASE BackoffEnds
    BY <1>0, <2>3 DEF TypeOK, BackoffEnds, Unwind, stopVars, jobVars, beatVars, server
  <2> QED
    BY <1>2, <2>1, <2>2, <2>3, <2>4
<1>3. CASE PollLoops \/ PollNotFound \/ PollFails \/ WaitEnds
  <2>1. CASE PollLoops
    BY <1>0, <2>1 DEF TypeOK, PollLoops, stopVars, jobVars, beatVars, server
  <2>2. CASE PollNotFound
    BY <1>0, <2>2 DEF TypeOK, PollNotFound, LostRegistration, stopVars, jobVars, beatVars, server
  <2>3. CASE PollFails
    BY <1>0, <2>3 DEF TypeOK, PollFails, stopVars, jobVars, beatVars, server
  <2>4. CASE WaitEnds
    <3>1. run' \in {"failed", "loop", "polling"}
      BY <2>4 DEF WaitEnds
    <3>2. UNCHANGED <<state, ctxDone, runDone, stopCh, stop, drain, free, batch, next, active, dead, beat, late, runners,
                      registered, forgets>>
      BY <2>4 DEF WaitEnds, stopVars, jobVars, beatVars, server
    <3> QED
      BY <1>0, <3>1, <3>2 DEF TypeOK
  <2> QED
    BY <1>3, <2>1, <2>2, <2>3, <2>4
<1>4. CASE HandsOut
  BY <1>0, <1>4 DEF TypeOK, HandsOut, stopVars, jobVars, beatVars, server
<1>5. CASE ProcessJob
  BY <1>0, <1>5 DEF TypeOK, HeldWhileHanding, ProcessJob, stopVars, beatVars, server
<1>6. CASE \E fatal \in BOOLEAN : RunFails(fatal)
  <2>1. /\ run' \in {"returned", "awaiting", "draining", "backoff", "stopping"}
        /\ state' = state \/ state' = "stopped"
        /\ UNCHANGED <<ctxDone, runDone, stopCh, free, batch, next, active, dead, beat, late,
                       runners, registered, forgets>>
    BY <1>6 DEF RunFails, Unwind, StopBegins, jobVars, beatVars, server
  <2> QED
    BY <1>0, <2>1 DEF TypeOK
<1>7. CASE \E js \in SUBSET Jobs : JobsArrive(js)
  BY <1>0, <1>7 DEF TypeOK, JobsArrive, stopVars, jobVars, beatVars, server
<1> QED
  BY <1>1, <1>2, <1>3, <1>4, <1>5, <1>6, <1>7 DEF RunSteps, WorkerInv

\* Every step keeps the types.
LEMMA TypeStep ==
    ASSUME WorkerInv, [Next]_vars PROVE TypeOK'
<1>0. TypeOK /\ drain' \in [Callers -> DrainPlaces] /\ stop' \in [Stoppers -> StopPlaces]
  BY DrainMoves, StopMoves DEF WorkerInv, Callers, Stoppers
<1>1. CASE RunSteps
  BY <1>0, <1>1, RunTypes
<1>2. CASE StopCalled \/ CtxCancelled \/ ServerForgets
  <2>1. CASE StopCalled
    BY <1>0, <2>1 DEF TypeOK, StopCalled, StopBegins, runVars, jobVars, beatVars, server
  <2>2. CASE CtxCancelled
    BY <1>0, <2>2 DEF TypeOK, CtxCancelled, runVars, stopVars, jobVars, beatVars, server
  <2>3. CASE ServerForgets
    <3>1. forgets' \in 0 .. MaxForgets
      BY <1>0, <2>3, BoundAssumption DEF TypeOK, ServerForgets
    <3>2. registered' \in BOOLEAN
      BY <2>3 DEF ServerForgets
    <3>3. UNCHANGED <<state, ctxDone, runDone, stopCh, stop, drain, run, free, batch, next, active, dead,
                      beat, late, runners>>
      BY <2>3 DEF ServerForgets, stopVars, runVars, jobVars, beatVars
    <3> QED
      BY <1>0, <3>1, <3>2, <3>3 DEF TypeOK
  <2> QED
    BY <1>2, <2>1, <2>2, <2>3
<1>3. CASE \E j \in Jobs : JobEnds(j)
  BY <1>0, <1>3 DEF TypeOK, JobEnds, stopVars, runVars, beatVars, server
<1>4. CASE BeatSteps \/ LateBeatHandled \/ LateNotFound
  <2>1. CASE BeatSteps
    <3>1. CASE BeatTicks
      BY <1>0, <3>1 DEF TypeOK, BeatTicks, runVars, stopVars, jobVars, server
    <3>4. CASE BeatFails
      BY <1>0, <3>4 DEF TypeOK, BeatFails, runVars, stopVars, jobVars, server
    <3>2. CASE BeatHandled
      BY <1>0, <3>2 DEF TypeOK, BeatHandled, runVars, stopVars, jobVars, server
    <3>3. CASE BeatNotFound
      BY <1>0, <3>3 DEF TypeOK, BeatNotFound, LostRegistration, runVars, stopVars, jobVars, server
    <3> QED
      BY <2>1, <3>1, <3>2, <3>3, <3>4 DEF BeatSteps
  <2>2. CASE LateBeatHandled
    <3>1. late' \subseteq {"sending", "unknown"}
      BY <1>0, <2>2 DEF TypeOK, LateBeatHandled
    <3> QED
      BY <1>0, <2>2, <3>1 DEF TypeOK, LateBeatHandled, runVars, stopVars, jobVars, server
  <2>3. CASE LateNotFound
    BY <1>0, <2>3 DEF TypeOK, LateNotFound, LostRegistration, runVars, stopVars, jobVars, server
  <2> QED
    BY <1>4, <2>1, <2>2, <2>3
<1>5. CASE \E d \in Drainers : DrainCalled(d)
  BY <1>0, <1>5 DEF TypeOK, DrainCalled, runVars, stopVars, jobVars, beatVars, server
<1>6. ASSUME NEW c \in Callers, DrainSteps(c) PROVE TypeOK'
  <2>1. CASE DrainBegins(c)
    BY <1>0, <2>1 DEF TypeOK, DrainBegins, StoreUnlessDraining, runVars, stopVars, jobVars, beatVars, server
  <2>2. CASE DrainCancels(c)
    BY <1>0, <2>2 DEF TypeOK, DrainCancels, CancelRun, runVars, stopVars, jobVars, beatVars, server
  <2>3. CASE DrainSeesIdle(c)
    BY <1>0, <2>3 DEF TypeOK, DrainSeesIdle, runVars, stopVars, jobVars, beatVars, server
  <2>4. CASE DrainStops(c)
    BY <1>0, <2>4 DEF TypeOK, DrainStops, StopBegins, runVars, jobVars, beatVars, server
  <2> QED
    BY <1>6, <2>1, <2>2, <2>3, <2>4 DEF DrainSteps
<1>7. CASE UNCHANGED vars
  BY <1>0, <1>7 DEF TypeOK, vars, runVars, stopVars, jobVars, beatVars, server
<1>8. ASSUME NEW s \in Stoppers, StopSteps(s) PROVE TypeOK'
  <2>1. CASE StopCancels(s)
    BY <1>0, <2>1 DEF TypeOK, StopCancels, CancelRun, runVars, jobVars, beatVars, server
  <2>2. CASE StopCloses(s)
    BY <1>0, <2>2 DEF TypeOK, StopCloses, runVars, jobVars, beatVars, server
  <2>3. CASE StopTakesRunners(s)
    <3>1. runners' \in BOOLEAN
      BY <2>3 DEF StopTakesRunners
    <3>2. UNCHANGED <<state, ctxDone, runDone, stopCh, drain, run, free, batch, next, active, dead,
                      beat, late, registered, forgets>>
      BY <2>3 DEF StopTakesRunners, runVars, jobVars, beatVars, server
    <3> QED
      BY <1>0, <3>1, <3>2 DEF TypeOK
  <2>4. CASE StopKillsJobs(s)
    BY <1>0, <2>4 DEF TypeOK, StopKillsJobs, runVars, beatVars, server
  <2>5. CASE StopJoins(s)
    BY <1>0, <2>5 DEF TypeOK, StopJoins, runVars, jobVars, beatVars, server
  <2> QED
    BY <1>8, <2>1, <2>2, <2>3, <2>4, <2>5 DEF StopSteps
<1> QED
  BY <1>1, <1>2, <1>3, <1>4, <1>5, <1>6, <1>7, <1>8 DEF Next

\* Slots are promised once: counted before the poll, taken by the answer,
\* turned into active jobs one by one.
LEMMA SlotsStep ==
    ASSUME WorkerInv, [Next]_vars PROVE HeldWhileHanding' /\ SlotsReserved'
<1> USE DEF HeldWhileHanding, SlotsReserved, Handed
<1>0. /\ HeldWhileHanding /\ SlotsReserved /\ free \in Nat /\ next \in Jobs \cup {NoJob}
      /\ batch \subseteq Jobs /\ active \subseteq Jobs
      /\ Cardinality(active) \in Nat /\ Cardinality(batch) \in Nat /\ MaxConcurrentJobs \in Nat
      /\ Cardinality({}) = 0 /\ NoJob \notin Jobs
  BY SlotsAreNatural, BoundAssumption, JobAssumption, FS_EmptySet DEF WorkerInv, TypeOK
<1>1. CASE RunSteps
  <2>1. CASE RunStarts \/ RunArms \/ RunLoops \/ Registered \/ RegisterFails
    BY <1>0, <2>1 DEF RunStarts, RunArms, RunLoops, Unwind, Registered, RegisterFails, jobVars
  <2>2. CASE StopsRunners \/ StartsRunners \/ StartHeartbeat \/ BackoffEnds \/ RunReturns
    BY <1>0, <2>2 DEF StopsRunners, StartsRunners, StartHeartbeat, BackoffEnds, Unwind,
       RunReturns, jobVars
  <2>3. CASE PollLoops \/ PollNotFound \/ PollFails \/ WaitEnds
    BY <1>0, <2>3 DEF PollLoops, FreeSlots, PollNotFound, PollFails, WaitEnds, jobVars
  <2>4. CASE HandsOut
    <3>1. CASE batch' = {} /\ run' = "polling" /\ UNCHANGED <<next, active>>
      BY <1>0, <2>4, <3>1 DEF HandsOut
    <3>2. ASSUME NEW j \in batch, next' = j, batch' = batch \ {j}, run' = "processing",
                 UNCHANGED active
          PROVE  HeldWhileHanding' /\ SlotsReserved'
      <4>1. Cardinality(batch \ {j}) = Cardinality(batch) - 1
        BY <1>0, OneJob
      <4> QED
        BY <1>0, <2>4, <3>2, <4>1 DEF HandsOut
    <3> QED
      BY <2>4, <3>1, <3>2 DEF HandsOut, jobVars
  <2>5. CASE ProcessJob
    <3>1. next \in Jobs /\ Cardinality(active \cup {next}) <= Cardinality(active) + 1
      BY <1>0, <2>5, OneJob DEF ProcessJob
    <3>2. Cardinality(active \cup {next}) \in Nat
      BY <1>0, <3>1, JobSets
    <3> QED
      BY <1>0, <2>5, <3>1, <3>2 DEF ProcessJob
  <2>6. CASE \E fatal \in BOOLEAN : RunFails(fatal)
    BY <1>0, <2>6 DEF RunFails, Unwind, jobVars
  <2>7. ASSUME NEW js \in SUBSET Jobs, JobsArrive(js)
        PROVE  HeldWhileHanding' /\ SlotsReserved'
    BY <1>0, <2>7, JobSets DEF JobsArrive, jobVars
  <2> QED
    BY <1>1, <2>1, <2>2, <2>3, <2>4, <2>5, <2>6, <2>7 DEF RunSteps
<1>2. CASE StopCalled \/ CtxCancelled \/ ServerForgets
  BY <1>0, <1>2 DEF StopCalled, CtxCancelled, ServerForgets, runVars, jobVars
<1>3. ASSUME NEW j \in Jobs, JobEnds(j) PROVE HeldWhileHanding' /\ SlotsReserved'
  <2>1. Cardinality(active \ {j}) <= Cardinality(active) /\ Cardinality(active \ {j}) \in Nat
    BY <1>0, OneJob, JobSets
  <2> QED
    BY <1>0, <1>3, <2>1 DEF JobEnds, runVars
<1>4. CASE BeatSteps \/ LateBeatHandled \/ LateNotFound
  BY <1>0, <1>4 DEF BeatSteps, BeatTicks, BeatHandled, BeatFails, BeatNotFound,
     LateBeatHandled, LateNotFound, runVars, jobVars
<1>5. CASE \E d \in Drainers : DrainCalled(d)
  BY <1>0, <1>5 DEF DrainCalled, runVars, jobVars
<1>6. CASE \E c \in Callers : DrainSteps(c)
  BY <1>0, <1>6 DEF DrainSteps, DrainBegins, DrainCancels, DrainSeesIdle, DrainStops, runVars, jobVars
<1>7. CASE UNCHANGED vars
  BY <1>0, <1>7 DEF vars, runVars, jobVars
<1>8. CASE \E s \in Stoppers : StopSteps(s)
  BY <1>0, <1>8 DEF StopSteps, StopCancels, StopCloses, StopTakesRunners, StopKillsJobs, StopJoins,
     runVars, jobVars
<1> QED
  BY <1>1, <1>2, <1>3, <1>4, <1>5, <1>6, <1>7, <1>8 DEF Next

-----------------------------------------------------------------------------
(* The theorems. *)

\* WorkerInv holds in every reachable state.
LEMMA WorkerInvariant == Spec => []WorkerInv
<1>1. WorkerInv /\ [Next]_vars => WorkerInv'
  BY TypeStep, SlotsStep, DoorStep, StopStep, DrainStep, HeartbeatStep DEF WorkerInv
<1> QED
  BY WorkerInit, <1>1, PTL DEF Spec

\* The variables of the polling worker have their types; in particular the
\* number of free slots it asks for is never negative.
THEOREM TypeCorrect == Spec => []TypeOK
BY WorkerInvariant, PTL DEF WorkerInv

\* pollForJobs and processJob never run more jobs than MaxConcurrentJobs.
THEOREM Capacity == Spec => []CapacityRespected
<1>1. WorkerInv => CapacityRespected
  BY SlotsAreNatural, BoundAssumption DEF WorkerInv, SlotsReserved, CapacityRespected
<1> QED
  BY <1>1, WorkerInvariant, PTL

\* Once Drain has seen no job, processJob starts none before Drain stops the
\* worker.
THEOREM DrainIsQuiet == Spec => []DrainedMeansIdle
BY WorkerInvariant, PTL DEF WorkerInv

\* When any call of Stop has returned, every job the worker still runs is
\* cancelled, although jobs may run and end between the store of the state and
\* the walk over them: processJob adds none, and stopOnce holds the later callers.
THEOREM StopIsComplete == Spec => []StopReachesEveryJob
BY WorkerInvariant, PTL DEF WorkerInv

\* A worker that polls has a live heartbeat loop, across registrations lost and
\* late 404s of retired loops.
THEOREM HeartbeatNeverLapses == Spec => []HeartbeatCovers
BY WorkerInvariant, PTL DEF WorkerInv

=============================================================================
