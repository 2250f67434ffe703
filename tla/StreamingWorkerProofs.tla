------------------------ MODULE StreamingWorkerProofs ------------------------
(***************************************************************************)
(* Proofs about StreamingWorker, for any set of jobs, any number of        *)
(* drains, any queue capacity and any number of connections.  StreamInv is *)
(* inductive; the three safety invariants of the module are conjuncts of   *)
(* it or follow from it.                                                   *)
(***************************************************************************)
EXTENDS StreamingWorker, FiniteSetTheorems, TLAPS

\* The receive loop runs only in an open connection, the send loop also while
\* the connection closes.
LoopsParked ==
    /\ run # "open" => recv.at \in {"off", "done"}
    /\ run \notin {"open", "closing"} => sender \in {"off", "done"}

\* The assignment the receive loop has counted is not an active job yet, and
\* its place in the limit is its own.
AssignmentHeld ==
    /\ recv.at \in {"counted", "accepted"} => recv.job \in Jobs \ Active
    /\ recv.at = "counted" => recv.count >= Cardinality(Active) + 1
    /\ recv.at = "accepted" => Cardinality(Active) + 1 <= MaxConcurrentJobs

\* stopCh is closed with the state set, and the state never leaves "stopped".
StopIsFinal == stopCh <=> state = "stopped"

\* A drain that waits has shut the worker; flushCh is closed only by one, and
\* the send loop flushes only then.
DrainShuts ==
    /\ \A d \in Drainers :
           drain[d] \in {"waiting", "blocked", "flushed"} => state \in {"draining", "stopped"}
    /\ flushCh => state \in {"draining", "stopped"}
    /\ sender = "flushing" => flushCh

\* The sequence holds a result of the job.
Carries(s, j) == \E i \in 1 .. Len(s) : s[i].kind = "result" /\ s[i].job = j

\* While the stream can carry it, a result the engine is owed is about to be
\* queued, queued, or on the wire.
OwedIsUnderWay ==
    run \in {"open", "closing"} /\ stream = "open" /\ ~stopCh =>
        \A j \in owed : job[j] = "reporting" \/ Carries(outCh, j) \/ Carries(wire, j)

\* After the half-close everything owed is on the wire; at the engine's close
\* nothing is.
HalfCloseIsLast ==
    /\ stream \in {"half", "eof"} /\ ~stopCh => flushCh
    /\ stream = "half" /\ ~stopCh => \A j \in owed : Carries(wire, j)

\* The inductive invariant.
StreamInv ==
    /\ TypeOK /\ LoopsParked /\ AssignmentHeld /\ CountIsExact
    /\ StopIsFinal /\ DrainShuts /\ DrainedMeansIdle
    /\ OwedIsUnderWay /\ HalfCloseIsLast /\ GracefulLosesNothing

-----------------------------------------------------------------------------
(* Sets of jobs and the message queues. *)

\* The active jobs are finitely many, and a job more or less changes their
\* number by one.
LEMMA ActiveJobs ==
    ASSUME NEW S \in SUBSET Jobs
    PROVE  /\ IsFiniteSet(S) /\ Cardinality(S) \in Nat
           /\ Cardinality(S) = 0 => S = {}
           /\ \A j \in Jobs \ S : Cardinality(S \cup {j}) = Cardinality(S) + 1
           /\ \A j \in S : Cardinality(S \ {j}) = Cardinality(S) - 1
<1>1. IsFiniteSet(S)
  BY JobAssumption, FS_Subset
<1>2. ASSUME NEW j \in Jobs \ S PROVE Cardinality(S \cup {j}) = Cardinality(S) + 1
  BY <1>1, <1>2, FS_AddElement
<1>3. ASSUME NEW j \in S PROVE Cardinality(S \ {j}) = Cardinality(S) - 1
  BY <1>1, <1>3, FS_RemoveElement
<1> QED
  BY <1>1, <1>2, <1>3, FS_CardinalityType, FS_EmptySet

\* A step of one job's goroutine moves it into, inside or out of activeJobs.
LEMMA ActiveMoves ==
    ASSUME job \in [Jobs -> {"idle", "running", "stepped", "reporting", "exiting"}],
           NEW j \in Jobs, NEW s, job' = [job EXCEPT ![j] = s]
    PROVE  /\ s = "idle" => Active' = Active \ {j}
           /\ s # "idle" => Active' = Active \cup {j}
           /\ s # "idle" /\ j \in Active => Active' = Active
BY DEF Active

\* Taking the first message of a queue.
LEMMA HeadTail ==
    ASSUME NEW S, NEW s \in Seq(S), s # <<>>
    PROVE  Head(s) \in S /\ Tail(s) \in Seq(S)
OBVIOUS

\* Queueing a message keeps what a queue carries, taking one leaves the rest.
LEMMA Queues ==
    ASSUME NEW s \in Seq(Messages), NEW j
    PROVE  /\ ~Carries(<<>>, j)
           /\ \A m \in Messages :
                 /\ Append(s, m) \in Seq(Messages) /\ Len(Append(s, m)) = Len(s) + 1
                 /\ Carries(s, j) => Carries(Append(s, m), j)
                 /\ m.kind = "result" /\ m.job = j => Carries(Append(s, m), j)
           /\ s # <<>> =>
                 /\ Head(s) \in Messages /\ Tail(s) \in Seq(Messages) /\ Len(Tail(s)) = Len(s) - 1
                 /\ Carries(s, j) => Carries(Tail(s), j) \/ (Head(s).kind = "result" /\ Head(s).job = j)
<1>1. ~Carries(<<>>, j)
  BY DEF Carries
<1>2. ASSUME NEW m \in Messages
      PROVE  /\ Append(s, m) \in Seq(Messages) /\ Len(Append(s, m)) = Len(s) + 1
             /\ Carries(s, j) => Carries(Append(s, m), j)
             /\ m.kind = "result" /\ m.job = j => Carries(Append(s, m), j)
  <2>1. /\ Append(s, m) \in Seq(Messages) /\ Len(Append(s, m)) = Len(s) + 1
        /\ \A i \in 1 .. Len(s) : Append(s, m)[i] = s[i]
        /\ Append(s, m)[Len(s) + 1] = m /\ Len(s) \in Nat
    OBVIOUS
  <2> QED
    BY <2>1 DEF Carries
<1>3. ASSUME s # <<>>
      PROVE  /\ Head(s) \in Messages /\ Tail(s) \in Seq(Messages) /\ Len(Tail(s)) = Len(s) - 1
             /\ Carries(s, j) => Carries(Tail(s), j) \/ (Head(s).kind = "result" /\ Head(s).job = j)
  <2>1. /\ Head(s) \in Messages /\ Tail(s) \in Seq(Messages) /\ Len(Tail(s)) = Len(s) - 1
        /\ Head(s) = s[1] /\ \A i \in 1 .. Len(s) - 1 : Tail(s)[i] = s[i + 1] /\ Len(s) \in Nat
    BY <1>3
  <2>2. ASSUME NEW i \in 1 .. Len(s), s[i].kind = "result" /\ s[i].job = j
        PROVE  Carries(Tail(s), j) \/ (Head(s).kind = "result" /\ Head(s).job = j)
    <3>1. CASE i = 1
      BY <2>1, <2>2, <3>1
    <3>2. CASE i # 1
      <4>1. i - 1 \in 1 .. Len(Tail(s)) /\ Tail(s)[i - 1] = s[i]
        BY <2>1, <3>2
      <4> QED
        BY <4>1, <2>2 DEF Carries
    <3> QED
      BY <3>1, <3>2
  <2> QED
    BY <2>1, <2>2 DEF Carries
<1> QED
  BY <1>1, <1>2, <1>3

\* What the worker queues are messages, and enqueue respects the capacity.
LEMMA EnqueueTypes ==
    ASSUME TypeOK, NEW m \in Messages, Enqueue(m)
    PROVE  /\ outCh' \in Seq(Messages) /\ Len(outCh') <= OutCap /\ waiters' \in SUBSET Messages
           /\ \A j : Carries(outCh, j) => Carries(outCh', j)
<1>0. outCh \in Seq(Messages) /\ Len(outCh) <= OutCap /\ waiters \in SUBSET Messages
  BY DEF TypeOK
<1>1. CASE Len(outCh) < OutCap
  <2>1. outCh' = Append(outCh, m) /\ UNCHANGED waiters
    BY <1>1 DEF Enqueue
  <2>2. Len(outCh) \in Nat /\ OutCap \in Nat
    BY <1>0, BoundAssumption
  <2> QED
    BY <1>0, <1>1, <2>1, <2>2, Queues
<1>2. CASE ~(Len(outCh) < OutCap)
  BY <1>0, <1>2 DEF Enqueue
<1> QED
  BY <1>1, <1>2

-----------------------------------------------------------------------------
(* Types. *)

\* The worker has not run: no connection, no job, no message.
LEMMA StreamInit == Init => StreamInv
<1> SUFFICES ASSUME Init PROVE StreamInv
  OBVIOUS
<1>1. Active = {} /\ Cardinality({}) = 0
  BY FS_EmptySet DEF Init, Active
<1>2. TypeOK
  <2>1. drain \in [Drainers -> {"off", "called", "entering", "waiting", "blocked", "flushed", "returned"}]
    BY DEF Init
  <2>2. /\ conn \in 0 .. MaxConns /\ sent \in 0 .. MaxSent /\ home \in [Jobs -> 0 .. MaxConns]
        /\ Len(outCh) <= OutCap
    BY BoundAssumption DEF Init
  <2>3. recv \in [at : {"off", "receiving", "counted", "accepted", "done"},
                  job : Jobs \cup {NoJob}, count : Nat]
    BY DEF Init
  <2>4. job \in [Jobs -> {"idle", "running", "stepped", "reporting", "exiting"}]
    BY DEF Init
  <2>5. /\ outCh \in Seq(Messages) /\ wire \in Seq(Messages)
        /\ inbox \in Seq([kind : {"job", "cancel", "shutdown"}, job : Jobs])
    BY DEF Init
  <2> QED
    BY <2>1, <2>2, <2>3, <2>4, <2>5 DEF Init, TypeOK, States
<1>3. LoopsParked /\ AssignmentHeld /\ CountIsExact
  BY <1>1, BoundAssumption DEF Init, LoopsParked, AssignmentHeld, CountIsExact
<1>4. StopIsFinal /\ DrainShuts /\ DrainedMeansIdle
  BY <1>1 DEF Init, StopIsFinal, DrainShuts, DrainedMeansIdle
<1>5. OwedIsUnderWay /\ HalfCloseIsLast /\ GracefulLosesNothing
  BY DEF Init, OwedIsUnderWay, HalfCloseIsLast, GracefulLosesNothing
<1> QED
  BY <1>2, <1>3, <1>4, <1>5 DEF StreamInv

\* The count while the receive loop handles an assignment.
LEMMA Counted ==
    ASSUME StreamInv
    PROVE  /\ Active \in SUBSET Jobs /\ Cardinality(Active) \in Nat
           /\ recv.at \in {"counted", "accepted"} =>
                 recv.job \in Jobs \ Active /\ jobCount = Cardinality(Active) + 1
           /\ recv.at \notin {"counted", "accepted"} => jobCount = Cardinality(Active)
<1>1. Active \in SUBSET Jobs
  BY DEF Active
<1>2. Cardinality(Active) \in Nat
  BY <1>1, ActiveJobs
<1>3. AssignmentHeld /\ CountIsExact
  BY DEF StreamInv
<1> QED
  BY <1>1, <1>2, <1>3 DEF AssignmentHeld, CountIsExact

\* The steps of Run keep the types.
LEMMA RunTypes ==
    ASSUME StreamInv, RunSteps PROVE TypeOK'
<1> USE DEF TypeOK, States
<1>0. TypeOK /\ MaxConns \in Nat /\ OutCap \in Nat
  BY BoundAssumption DEF StreamInv
<1>1. CASE RunStarts
  BY <1>0, <1>1 DEF RunStarts, connVars, jobVars, queueVars
<1>2. CASE RunLoops
  <2>1. /\ state' \in States /\ stopCh' \in BOOLEAN /\ dead' \in SUBSET Jobs
        /\ run' \in {"returned", "registering"}
    BY <1>0, <1>2 DEF RunLoops, Stop, Active, StoreUnlessDraining
  <2>2. UNCHANGED <<flushCh, drain, connVars, jobCount, job, home, queueVars, sent, owed>>
    BY <1>2 DEF RunLoops
  <2> QED
    BY <1>0, <2>1, <2>2 DEF connVars, queueVars
<1>3. CASE Registered
  <2>1. /\ conn' \in 0 .. MaxConns /\ connDone' \in BOOLEAN
        /\ run' \in {"loop", "opening"} /\ stream' \in {stream, "open"}
    <3>1. CASE state \in {"draining", "stopped"}
      BY <1>0, <1>3, <3>1 DEF Registered
    <3>2. CASE state \notin {"draining", "stopped"}
      <4>1. conn < MaxConns /\ conn' = conn + 1 /\ conn \in 0 .. MaxConns
        BY <1>0, <1>3, <3>2 DEF Registered
      <4>2. conn' \in 0 .. MaxConns
        BY <1>0, <4>1
      <4> QED
        BY <1>0, <1>3, <3>2, <4>2 DEF Registered
    <3> QED
      BY <3>1, <3>2
  <2> QED
    BY <1>0, <1>3, <2>1 DEF Registered, jobVars, queueVars
<1>4. CASE ConnectFails
  BY <1>0, <1>4 DEF ConnectFails, ConnEnds, Active, queueVars
<1>5. CASE Opened
  BY <1>0, <1>5 DEF Opened, StoreUnlessDraining, jobVars
<1>6. CASE Disconnects
  BY <1>0, <1>6 DEF Disconnects, Active, queueVars
<1>7. CASE Closed
  BY <1>0, <1>7 DEF Closed, jobVars, queueVars
<1>8. CASE BackoffEnds
  BY <1>0, <1>8 DEF BackoffEnds, connVars, jobVars, queueVars
<1>9. ASSUME NEW fatal \in BOOLEAN, RunFails(fatal) PROVE TypeOK'
  <2>1. /\ state' \in States /\ stopCh' \in BOOLEAN /\ dead' \in SUBSET Jobs
        /\ run' \in {"returned", "loop", "backoff"}
    BY <1>0, <1>9 DEF RunFails, Stop, Active
  <2>2. UNCHANGED <<flushCh, drain, connVars, jobCount, job, home, queueVars, sent, owed>>
    BY <1>9 DEF RunFails
  <2> QED
    BY <1>0, <2>1, <2>2 DEF connVars, queueVars
<1> QED
  BY <1>1, <1>2, <1>3, <1>4, <1>5, <1>6, <1>7, <1>8, <1>9 DEF RunSteps

\* The steps of the receive loop keep the types.
LEMMA RecvTypes ==
    ASSUME StreamInv, RecvSteps PROVE TypeOK'
<1>0. TypeOK /\ AssignmentHeld /\ CountIsExact
  BY DEF StreamInv
<1>1. CASE RecvEnds
  BY <1>0, <1>1 DEF TypeOK, RecvEnds, runVars, jobVars, queueVars
<1>2. CASE AssignmentArrives
  <2>1. /\ Head(inbox) \in [kind : {"job", "cancel", "shutdown"}, job : Jobs]
        /\ inbox' \in Seq([kind : {"job", "cancel", "shutdown"}, job : Jobs])
    <3>1. inbox # <<>> /\ inbox' = Tail(inbox)
      BY <1>2 DEF AssignmentArrives, Receives
    <3>2. inbox \in Seq([kind : {"job", "cancel", "shutdown"}, job : Jobs])
      BY <1>0 DEF TypeOK
    <3> QED
      BY <3>1, <3>2, HeadTail
  <2>2. jobCount' \in Nat
    BY <1>0, <1>2 DEF TypeOK, AssignmentArrives
  <2>3. recv' \in [at : {"off", "receiving", "counted", "accepted", "done"},
                   job : Jobs \cup {NoJob}, count : Nat]
    BY <1>0, <1>2, <2>1, <2>2 DEF TypeOK, AssignmentArrives
  <2> QED
    BY <1>0, <1>2, <2>1, <2>2, <2>3 DEF TypeOK, AssignmentArrives, runVars, queueVars
<1>3. CASE AssignmentChecked
  <2>1. recv.job \in Jobs /\ jobCount >= 1
    BY <1>3, Counted DEF AssignmentChecked
  <2>2. \A kind \in {"ack", "nack"} : Message(kind, recv.job) \in Messages
    BY <1>0, <2>1 DEF TypeOK, Message, Messages
  <2>3. outCh' \in Seq(Messages) /\ Len(outCh') <= OutCap /\ waiters' \in SUBSET Messages
    BY <1>0, <1>3, <2>2, EnqueueTypes DEF AssignmentChecked
  <2>4. jobCount' \in Nat
    BY <1>0, <1>3, <2>1 DEF TypeOK, AssignmentChecked
  <2>5. recv' \in [at : {"off", "receiving", "counted", "accepted", "done"},
                   job : Jobs \cup {NoJob}, count : Nat]
    <3>1. CASE Refuses(recv.count)
      BY <1>3, <3>1 DEF AssignmentChecked
    <3>2. CASE ~Refuses(recv.count)
      BY <1>0, <1>3, <3>2 DEF TypeOK, AssignmentChecked
    <3> QED
      BY <3>1, <3>2
  <2> QED
    BY <1>0, <1>3, <2>3, <2>4, <2>5 DEF TypeOK, AssignmentChecked, runVars
<1>4. ASSUME NEW b \in BOOLEAN, JobStarts(b) PROVE TypeOK'
  <2>1. recv.job \in Jobs /\ jobCount >= 1
    BY <1>4, Counted DEF JobStarts
  <2>2. /\ jobCount' \in Nat /\ dead' \in SUBSET Jobs
        /\ job' \in [Jobs -> {"idle", "running", "stepped", "reporting", "exiting"}]
        /\ home' \in [Jobs -> 0 .. MaxConns]
    <3>1. CASE b
      <4>1. /\ job' = [job EXCEPT ![recv.job] = "running"] /\ home' = [home EXCEPT ![recv.job] = conn]
            /\ dead' \in {dead \cup {recv.job}, dead \ {recv.job}} /\ UNCHANGED jobCount
        BY <1>4, <3>1 DEF JobStarts
      <4> QED
        BY <1>0, <2>1, <4>1 DEF TypeOK
    <3>2. CASE ~b
      BY <1>0, <1>4, <2>1, <3>2 DEF TypeOK, JobStarts
    <3> QED
      BY <3>1, <3>2
  <2>3. recv' \in [at : {"off", "receiving", "counted", "accepted", "done"},
                   job : Jobs \cup {NoJob}, count : Nat]
    BY <1>4 DEF JobStarts
  <2> QED
    BY <1>0, <1>4, <2>2, <2>3 DEF TypeOK, JobStarts, runVars, queueVars
<1>5. CASE CancelArrives
  <2>1. inbox' \in Seq([kind : {"job", "cancel", "shutdown"}, job : Jobs])
    BY <1>0, <1>5 DEF TypeOK, CancelArrives, Receives
  <2> QED
    BY <1>0, <1>5, <2>1 DEF TypeOK, CancelArrives, Active, runVars, queueVars
<1>6. ASSUME NEW d \in Drainers, ShutdownArrives(d) PROVE TypeOK'
  <2>1. inbox' \in Seq([kind : {"job", "cancel", "shutdown"}, job : Jobs])
    BY <1>0, <1>6 DEF TypeOK, ShutdownArrives, Receives
  <2>2. drain' \in [Drainers -> {"off", "called", "entering", "waiting", "blocked", "flushed", "returned"}]
    BY <1>0, <1>6 DEF TypeOK, ShutdownArrives
  <2> QED
    BY <1>0, <1>6, <2>1, <2>2 DEF TypeOK, States, ShutdownArrives, StoreUnlessStopped, jobVars, queueVars
<1> QED
  BY <1>1, <1>2, <1>3, <1>4, <1>5, <1>6 DEF RecvSteps

\* The send loop and the waiting enqueues keep the types and the capacity.
LEMMA SendTypes ==
    ASSUME StreamInv, SendSteps \/ \E m \in waiters : WaiterEnds(m) PROVE TypeOK'
<1>0. /\ TypeOK /\ Len(outCh) \in Nat /\ OutCap \in Nat
      /\ outCh \in Seq(Messages) /\ wire \in Seq(Messages)
  BY BoundAssumption DEF StreamInv, TypeOK
<1>1. CASE SenderEnds \/ FlushStarts
  BY <1>0, <1>1 DEF TypeOK, SenderEnds, FlushStarts, runVars, jobVars, queueVars
<1>2. ASSUME outCh # <<>>
      PROVE  /\ Tail(outCh) \in Seq(Messages) /\ Len(Tail(outCh)) <= OutCap
             /\ Append(wire, Head(outCh)) \in Seq(Messages)
  <2>1. /\ Tail(outCh) \in Seq(Messages) /\ Len(Tail(outCh)) = Len(outCh) - 1
        /\ Head(outCh) \in Messages
    BY <1>0, <1>2, Queues
  <2> QED
    BY <1>0, <2>1, Queues DEF TypeOK
<1>3. CASE SendQueued
  BY <1>0, <1>2, <1>3 DEF TypeOK, SendQueued, Transmits, runVars, jobVars
<1>4. CASE SendFails
  BY <1>0, <1>2, <1>4 DEF TypeOK, SendFails, runVars, jobVars
<1>5. CASE FlushSends
  <2>1. /\ outCh' \in Seq(Messages) /\ Len(outCh') <= OutCap /\ wire' \in Seq(Messages)
        /\ sender' \in {"flushing", "done"} /\ stream' \in {stream, "half"}
    <3>1. CASE outCh # <<>> /\ Transmits /\ UNCHANGED <<sender, stream>>
      BY <1>2, <1>5, <3>1 DEF FlushSends, Transmits
    <3>2. CASE sender' = "done" /\ UNCHANGED <<outCh, wire>>
      BY <1>0, <1>5, <3>2 DEF TypeOK, FlushSends
    <3> QED
      BY <1>5, <3>1, <3>2 DEF FlushSends
  <2> QED
    BY <1>0, <1>5, <2>1 DEF TypeOK, FlushSends, runVars, jobVars
<1>6. ASSUME NEW m \in waiters, WaiterEnds(m) PROVE TypeOK'
  <2>1. m \in Messages
    BY <1>0 DEF TypeOK
  <2>2. outCh' \in Seq(Messages) /\ Len(outCh') <= OutCap
    <3>1. CASE Len(outCh) < OutCap /\ outCh' = Append(outCh, m)
      BY <1>0, <2>1, <3>1, Queues
    <3>2. CASE UNCHANGED outCh
      BY <1>0, <3>2 DEF TypeOK
    <3> QED
      BY <1>6, <3>1, <3>2 DEF WaiterEnds
  <2> QED
    BY <1>0, <1>6, <2>2 DEF TypeOK, WaiterEnds, runVars, connVars, jobVars
<1> QED
  BY <1>1, <1>3, <1>4, <1>5, <1>6 DEF SendSteps

\* The job goroutines keep the types and the capacity.
LEMMA JobTypes ==
    ASSUME StreamInv, NEW j \in Jobs, JobSteps(j) \/ ReportUnsent(j) PROVE TypeOK'
<1>0. /\ TypeOK /\ Len(outCh) \in Nat /\ OutCap \in Nat /\ outCh \in Seq(Messages)
  BY BoundAssumption DEF StreamInv, TypeOK
<1>1. \A kind \in {"step", "result"} : [kind |-> kind, job |-> j, conn |-> home[j]] \in Messages
  BY <1>0 DEF TypeOK, Messages
<1>2. \A m \in Messages :
          Len(outCh) < OutCap => Append(outCh, m) \in Seq(Messages) /\ Len(Append(outCh, m)) <= OutCap
  BY <1>0, Queues
<1>3. CASE ReportsStep(j)
  BY <1>0, <1>1, <1>2, <1>3 DEF TypeOK, ReportsStep, runVars, connVars
<1>4. CASE HandlerEnds(j)
  BY <1>0, <1>4 DEF TypeOK, HandlerEnds, runVars, connVars, queueVars
<1>5. CASE SendsResult(j)
  <2>1. outCh' \in Seq(Messages) /\ Len(outCh') <= OutCap /\ owed' \in SUBSET Jobs
    <3>1. CASE Len(outCh) < OutCap
      BY <1>0, <1>1, <1>2, <1>5, <3>1 DEF TypeOK, SendsResult
    <3>2. CASE ~(Len(outCh) < OutCap)
      BY <1>0, <1>5, <3>2 DEF TypeOK, SendsResult
    <3> QED
      BY <3>1, <3>2
  <2> QED
    BY <1>0, <1>5, <2>1 DEF TypeOK, SendsResult, runVars, connVars
<1>6. CASE ReportUnsent(j)
  BY <1>0, <1>6 DEF TypeOK, ReportUnsent, runVars, connVars, queueVars
<1>7. CASE JobExits(j)
  <2>1. j \in Active
    BY <1>7 DEF JobExits, Active
  <2>2. jobCount >= 1
    <3>1. /\ Active \in SUBSET Jobs /\ Active \ {j} \in SUBSET Jobs
          /\ jobCount >= Cardinality(Active) /\ Cardinality(Active) \in Nat
      BY <1>0, Counted DEF TypeOK
    <3>2. Cardinality(Active \ {j}) \in Nat /\ Cardinality(Active \ {j}) = Cardinality(Active) - 1
      BY <2>1, <3>1, ActiveJobs
    <3> QED
      BY <1>0, <3>1, <3>2 DEF TypeOK
  <2> QED
    BY <1>0, <1>7, <2>2 DEF TypeOK, JobExits, runVars, connVars, queueVars
<1> QED
  BY <1>3, <1>4, <1>5, <1>6, <1>7 DEF JobSteps

\* Drain and Stop keep the types.
LEMMA DrainTypes ==
    ASSUME StreamInv, StopCalled \/ \E d \in Drainers : DrainCalled(d) \/ DrainSteps(d) PROVE TypeOK'
<1>0. TypeOK
  BY DEF StreamInv
<1>1. CASE StopCalled
  BY <1>0, <1>1 DEF TypeOK, States, StopCalled, Stop, Active, connVars, queueVars
<1>2. ASSUME NEW d \in Drainers, DrainCalled(d) PROVE TypeOK'
  BY <1>0, <1>2 DEF TypeOK, DrainCalled, connVars, jobVars, queueVars
<1>3. ASSUME NEW d \in Drainers, DrainBegins(d) PROVE TypeOK'
  <2>1. /\ state' \in States /\ stopCh' \in BOOLEAN /\ dead' \in SUBSET Jobs
        /\ \E place \in {"returned", "entering"} : drain' = [drain EXCEPT ![d] = place]
    BY <1>0, <1>3 DEF TypeOK, States, DrainBegins, Stop, Active
  <2> QED
    BY <1>0, <1>3, <2>1 DEF TypeOK, DrainBegins, connVars, queueVars
<1>4. ASSUME NEW d \in Drainers, DrainEnters(d) PROVE TypeOK'
  BY <1>0, <1>4 DEF TypeOK, States, DrainEnters, StoreUnlessStopped, connVars, jobVars, queueVars
<1>5. ASSUME NEW d \in Drainers, DrainWaits(d) PROVE TypeOK'
  BY <1>0, <1>5 DEF TypeOK, DrainWaits, connVars, jobVars, queueVars
<1>6. ASSUME NEW d \in Drainers, DrainFlushes(d) PROVE TypeOK'
  BY <1>0, <1>6 DEF TypeOK, DrainFlushes, connVars, jobVars, queueVars
<1>7. ASSUME NEW d \in Drainers, NEW deadline \in BOOLEAN, DrainReturns(d, deadline) PROVE TypeOK'
  <2>1. /\ state' \in States /\ stopCh' \in BOOLEAN /\ dead' \in SUBSET Jobs
        /\ drain' = [drain EXCEPT ![d] = "returned"]
    BY <1>0, <1>7 DEF TypeOK, States, DrainReturns, Stop, Active
  <2> QED
    BY <1>0, <1>7, <2>1 DEF TypeOK, DrainReturns, connVars, queueVars
<1> QED
  BY <1>1, <1>2, <1>3, <1>4, <1>5, <1>6, <1>7 DEF DrainSteps

\* The engine and the transport keep the types.
LEMMA EngineTypes ==
    ASSUME StreamInv,
           \/ StreamAborted \/ EngineReads \/ EngineCloses \/ StreamBreaks
           \/ \E j \in Jobs, kind \in {"job", "cancel", "shutdown"} : EngineSends(kind, j)
    PROVE  TypeOK'
<1>0. TypeOK /\ MaxSent \in Nat /\ wire \in Seq(Messages)
  BY BoundAssumption DEF StreamInv, TypeOK
<1>1. CASE StreamAborted
  BY <1>0, <1>1 DEF TypeOK, StreamAborted, ConnEnds, Active, runVars, queueVars
<1>2. ASSUME NEW j \in Jobs, NEW kind \in {"job", "cancel", "shutdown"}, EngineSends(kind, j)
      PROVE  TypeOK'
  <2>1. inbox' \in Seq([kind : {"job", "cancel", "shutdown"}, job : Jobs]) /\ sent' \in 0 .. MaxSent
    BY <1>0, <1>2 DEF TypeOK, EngineSends
  <2> QED
    BY <1>0, <1>2, <2>1 DEF TypeOK, EngineSends, runVars, jobVars, queueVars
<1>3. CASE EngineReads
  <2>1. wire' \in Seq(Messages)
    BY <1>0, <1>3, Queues DEF EngineReads
  <2> QED
    BY <1>0, <1>3, <2>1 DEF TypeOK, EngineReads, runVars, jobVars, queueVars
<1>4. CASE EngineCloses
  BY <1>0, <1>4 DEF TypeOK, EngineCloses, runVars, jobVars, queueVars
<1>5. CASE StreamBreaks
  BY <1>0, <1>5 DEF TypeOK, StreamBreaks, runVars, jobVars, queueVars
<1> QED
  BY <1>1, <1>2, <1>3, <1>4, <1>5

\* Every step keeps the types.
LEMMA TypeStep ==
    ASSUME StreamInv, [Next]_vars PROVE TypeOK'
<1>1. CASE UNCHANGED vars
  BY <1>1 DEF StreamInv, TypeOK, States, vars, runVars, connVars, jobVars, queueVars
<1> QED
  BY <1>1, RunTypes, RecvTypes, SendTypes, JobTypes, DrainTypes, EngineTypes DEF Next

-----------------------------------------------------------------------------
(* The loops and the count. *)

\* A connection starts its loops, and closes only after they ended.
LEMMA LoopsStep ==
    ASSUME StreamInv, [Next]_vars PROVE LoopsParked'
<1> USE DEF LoopsParked
<1>0. LoopsParked /\ TypeOK
  BY DEF StreamInv
<1>1. CASE UNCHANGED <<run, recv, sender>>
  BY <1>0, <1>1
<1>2. CASE RunSteps
  <2>1. CASE RunStarts \/ RunLoops \/ Registered \/ ConnectFails \/ BackoffEnds
    BY <1>0, <2>1 DEF RunStarts, RunLoops, Registered, ConnectFails, BackoffEnds, connVars
  <2>2. CASE Opened \/ Disconnects \/ Closed
    BY <1>0, <2>2 DEF Opened, Disconnects, Closed
  <2>3. CASE \E fatal \in BOOLEAN : RunFails(fatal)
    BY <1>0, <2>3 DEF RunFails, connVars
  <2> QED
    BY <1>2, <2>1, <2>2, <2>3 DEF RunSteps
<1>3. CASE RecvSteps
  <2>1. UNCHANGED <<run, sender>>
    BY <1>3 DEF RecvSteps, RecvEnds, AssignmentArrives, AssignmentChecked, JobStarts, CancelArrives,
       ShutdownArrives, runVars
  <2>2. recv' = recv \/ recv.at \in {"receiving", "counted", "accepted"}
    BY <1>3 DEF RecvSteps, RecvEnds, AssignmentArrives, Receives, AssignmentChecked, JobStarts,
       CancelArrives, ShutdownArrives
  <2> QED
    BY <1>0, <2>1, <2>2
<1>4. CASE SendSteps
  BY <1>0, <1>4 DEF SendSteps, SendQueued, SenderEnds, SendFails, FlushStarts, FlushSends, runVars
<1>5. CASE \E j \in Jobs : JobSteps(j) \/ ReportUnsent(j)
  BY <1>1, <1>5 DEF JobSteps, ReportsStep, HandlerEnds, SendsResult, ReportUnsent, JobExits,
     runVars, connVars
<1>6. CASE \E d \in Drainers : DrainCalled(d) \/ DrainSteps(d)
  BY <1>1, <1>6 DEF DrainCalled, DrainSteps, DrainBegins, DrainEnters, DrainWaits, DrainFlushes,
     DrainReturns, connVars
<1>7. CASE StreamAborted \/ StopCalled \/ EngineReads \/ EngineCloses \/ StreamBreaks
  BY <1>1, <1>7 DEF StreamAborted, StopCalled, EngineReads, EngineCloses, StreamBreaks, runVars, connVars
<1>8. CASE \/ \E m \in waiters : WaiterEnds(m)
           \/ \E j \in Jobs, kind \in {"job", "cancel", "shutdown"} : EngineSends(kind, j)
  BY <1>1, <1>8 DEF WaiterEnds, EngineSends, runVars, connVars
<1>9. CASE UNCHANGED vars
  BY <1>1, <1>9 DEF vars, runVars, connVars
<1> QED
  BY <1>2, <1>3, <1>4, <1>5, <1>6, <1>7, <1>8, <1>9 DEF Next

\* The receive loop counts an assignment once and uncounts a refused one.
LEMMA RecvCounts ==
    ASSUME StreamInv, RecvSteps PROVE AssignmentHeld' /\ CountIsExact'
<1> USE DEF AssignmentHeld, CountIsExact
<1>0. TypeOK /\ AssignmentHeld /\ CountIsExact /\ MaxConcurrentJobs \in Nat
  BY BoundAssumption DEF StreamInv
<1>1. /\ Active \in SUBSET Jobs /\ Cardinality(Active) \in Nat /\ jobCount \in Nat
      /\ recv \in [at : {"off", "receiving", "counted", "accepted", "done"},
                    job : Jobs \cup {NoJob}, count : Nat]
  BY <1>0, Counted DEF TypeOK
<1>2. CASE RecvEnds \/ CancelArrives \/ \E d \in Drainers : ShutdownArrives(d)
  <2>1. Active' = Active /\ jobCount' = jobCount
    BY <1>2 DEF RecvEnds, CancelArrives, ShutdownArrives, jobVars, Active
  <2>2. recv' = recv \/ (recv.at = "receiving" /\ recv' = [recv EXCEPT !.at = "done"])
    BY <1>2 DEF RecvEnds, CancelArrives, ShutdownArrives
  <2> QED
    BY <1>0, <1>1, <2>1, <2>2
<1>3. CASE AssignmentArrives
  <2>1. Active' = Active /\ recv.at = "receiving"
    BY <1>3 DEF AssignmentArrives, Receives, Active
  <2>2. CASE Head(inbox).job \in Active
    BY <1>0, <1>3, <2>1, <2>2 DEF AssignmentArrives
  <2>3. CASE Head(inbox).job \notin Active
    <3>1. /\ jobCount' = jobCount + 1
          /\ recv' = [at |-> "counted", job |-> Head(inbox).job, count |-> jobCount']
      BY <1>3, <2>3 DEF AssignmentArrives
    <3>2. Head(inbox).job \in Jobs
      <4>1. inbox # <<>> /\ inbox \in Seq([kind : {"job", "cancel", "shutdown"}, job : Jobs])
        BY <1>0, <1>3 DEF AssignmentArrives, Receives, TypeOK
      <4>2. Head(inbox) \in [kind : {"job", "cancel", "shutdown"}, job : Jobs]
        BY <4>1, HeadTail
      <4> QED
        BY <4>2
    <3> QED
      BY <1>0, <1>1, <2>1, <2>3, <3>1, <3>2
  <2> QED
    BY <2>2, <2>3
<1>4. CASE AssignmentChecked
  <2>1. Active' = Active /\ recv.at = "counted"
    BY <1>4 DEF AssignmentChecked, Active
  <2>2. CASE Refuses(recv.count)
    BY <1>0, <1>1, <1>4, <2>1, <2>2 DEF AssignmentChecked
  <2>3. CASE ~Refuses(recv.count)
    <3>1. recv' = [recv EXCEPT !.at = "accepted"] /\ UNCHANGED jobCount
      BY <1>4, <2>3 DEF AssignmentChecked
    <3>2. recv.count <= MaxConcurrentJobs
      BY <1>0, <1>1, <2>3 DEF Refuses, OverCapacity
    <3> QED
      BY <1>0, <1>1, <2>1, <3>1, <3>2
  <2> QED
    BY <2>2, <2>3
<1>5. ASSUME NEW b \in BOOLEAN, JobStarts(b) PROVE AssignmentHeld' /\ CountIsExact'
  <2>1. /\ recv.at = "accepted" /\ recv.job \in Jobs \ Active
        /\ recv' = [at |-> "receiving", job |-> NoJob, count |-> 0]
    BY <1>0, <1>5 DEF JobStarts
  <2>2. CASE b
    <3>1. job' = [job EXCEPT ![recv.job] = "running"] /\ UNCHANGED jobCount
      BY <1>5, <2>2 DEF JobStarts
    <3>2. Active' = Active \cup {recv.job}
      <4>1. /\ recv.job \in Jobs /\ "running" # "idle"
            /\ job \in [Jobs -> {"idle", "running", "stepped", "reporting", "exiting"}]
        BY <1>0, <2>1 DEF TypeOK
      <4> QED
        BY <3>1, <4>1, ActiveMoves
    <3>3. Cardinality(Active') = Cardinality(Active) + 1
      BY <1>1, <2>1, <3>2, ActiveJobs
    <3> QED
      BY <1>0, <1>1, <2>1, <3>1, <3>3
  <2>3. CASE ~b
    <3>1. Active' = Active /\ jobCount' = jobCount - 1
      BY <1>5, <2>3 DEF JobStarts, Active
    <3> QED
      BY <1>0, <1>1, <2>1, <3>1
  <2> QED
    BY <2>2, <2>3
<1> QED
  BY <1>2, <1>3, <1>4, <1>5 DEF RecvSteps

\* jobCount and the limit, through every step.
LEMMA CountStep ==
    ASSUME StreamInv, [Next]_vars PROVE AssignmentHeld' /\ CountIsExact'
<1> USE DEF AssignmentHeld, CountIsExact
<1>0. TypeOK /\ AssignmentHeld /\ CountIsExact /\ LoopsParked /\ MaxConcurrentJobs \in Nat
  BY BoundAssumption DEF StreamInv
<1>1. Active \in SUBSET Jobs /\ Cardinality(Active) \in Nat /\ jobCount \in Nat
  BY <1>0, Counted DEF TypeOK
<1>2. CASE UNCHANGED <<job, jobCount, recv>>
  <2>1. Active' = Active
    BY <1>2 DEF Active
  <2> QED
    BY <1>0, <1>2, <2>1
<1>3. CASE RunSteps
  <2>1. CASE Opened
    <3>1. /\ Active' = Active /\ jobCount' = jobCount /\ recv.at \in {"off", "done"}
          /\ recv' = [at |-> "receiving", job |-> NoJob, count |-> 0]
      BY <1>0, <2>1 DEF Opened, LoopsParked, jobVars, Active
    <3> QED
      BY <1>0, <3>1
  <2>2. CASE \/ RunStarts \/ RunLoops \/ Registered \/ ConnectFails \/ BackoffEnds \/ Disconnects
             \/ Closed \/ \E fatal \in BOOLEAN : RunFails(fatal)
    BY <1>2, <2>2 DEF RunStarts, RunLoops, Registered, ConnectFails, BackoffEnds, Disconnects, Closed,
       RunFails, connVars, jobVars
  <2> QED
    BY <1>3, <2>1, <2>2 DEF RunSteps
<1>4. CASE SendSteps \/ \E m \in waiters : WaiterEnds(m)
  BY <1>2, <1>4 DEF SendSteps, SendQueued, SenderEnds, SendFails, FlushStarts, FlushSends, WaiterEnds,
     connVars, jobVars
<1>5. ASSUME NEW j \in Jobs, JobSteps(j) \/ ReportUnsent(j) PROVE AssignmentHeld' /\ CountIsExact'
  <2>1. CASE ReportsStep(j) \/ HandlerEnds(j) \/ SendsResult(j) \/ ReportUnsent(j)
    <3>1. PICK s \in {"stepped", "exiting", "reporting"} : job' = [job EXCEPT ![j] = s]
      BY <2>1 DEF ReportsStep, HandlerEnds, SendsResult, ReportUnsent
    <3>2. j \in Active
      BY <2>1 DEF ReportsStep, HandlerEnds, SendsResult, ReportUnsent, Active
    <3>3. Active' = Active
      BY <1>0, <3>1, <3>2, ActiveMoves DEF TypeOK
    <3>4. UNCHANGED <<jobCount, recv>>
      BY <2>1 DEF ReportsStep, HandlerEnds, SendsResult, ReportUnsent, connVars
    <3> QED
      BY <1>0, <3>3, <3>4
  <2>2. CASE JobExits(j)
    <3>1. j \in Active /\ jobCount' = jobCount - 1 /\ recv' = recv
      BY <2>2 DEF JobExits, Active, connVars
    <3>2. Active' = Active \ {j}
      BY <1>0, <2>2, ActiveMoves DEF JobExits, TypeOK
    <3>3. Cardinality(Active') = Cardinality(Active) - 1
      BY <1>1, <3>1, <3>2, ActiveJobs
    <3>4. recv \in [at : {"off", "receiving", "counted", "accepted", "done"},
                    job : Jobs \cup {NoJob}, count : Nat]
      BY <1>0 DEF TypeOK
    <3> QED
      BY <1>0, <1>1, <3>1, <3>2, <3>3, <3>4
  <2> QED
    BY <1>5, <2>1, <2>2 DEF JobSteps
<1>6. CASE StopCalled \/ \E d \in Drainers : DrainCalled(d) \/ DrainSteps(d)
  BY <1>2, <1>6 DEF StopCalled, DrainCalled, DrainSteps, DrainBegins, DrainEnters, DrainWaits,
     DrainFlushes, DrainReturns, connVars, jobVars
<1>7. CASE \/ StreamAborted \/ EngineReads \/ EngineCloses \/ StreamBreaks
           \/ \E j \in Jobs, kind \in {"job", "cancel", "shutdown"} : EngineSends(kind, j)
  BY <1>2, <1>7 DEF StreamAborted, EngineReads, EngineCloses, StreamBreaks, EngineSends, jobVars
<1>8. CASE UNCHANGED vars
  BY <1>2, <1>8 DEF vars, connVars, jobVars
<1> QED
  BY <1>3, <1>4, <1>5, <1>6, <1>7, <1>8, RecvCounts DEF Next

-----------------------------------------------------------------------------
(* Drain and Stop. *)

\* The state: "stopped" is final, a draining worker never reconnects, and
\* stopCh is closed exactly when the worker is stopped.
LEMMA DoorStep ==
    ASSUME StreamInv, [Next]_vars
    PROVE  /\ state = "stopped" => state' = "stopped"
           /\ state \in {"draining", "stopped"} => state' \in {"draining", "stopped"}
           /\ StopIsFinal'
<1> USE DEF StopIsFinal, Stop
<1>0. StopIsFinal
  BY DEF StreamInv
<1>1. CASE UNCHANGED <<state, stopCh>>
  BY <1>0, <1>1
<1>2. CASE RunSteps
  <2>1. CASE RunStarts \/ RunLoops \/ Opened \/ \E fatal \in BOOLEAN : RunFails(fatal)
    BY <1>0, <2>1 DEF RunStarts, RunLoops, Opened, RunFails, StoreUnlessDraining
  <2>2. CASE Registered \/ ConnectFails \/ BackoffEnds \/ Disconnects \/ Closed
    BY <1>1, <2>2 DEF Registered, ConnectFails, BackoffEnds, Disconnects, Closed
  <2> QED
    BY <1>2, <2>1, <2>2 DEF RunSteps
<1>3. CASE RecvSteps
  BY <1>0, <1>3 DEF RecvSteps, RecvEnds, AssignmentArrives, AssignmentChecked, JobStarts, CancelArrives,
     ShutdownArrives, StoreUnlessStopped, runVars
<1>4. CASE SendSteps \/ \E m \in waiters : WaiterEnds(m)
  BY <1>1, <1>4 DEF SendSteps, SendQueued, SenderEnds, SendFails, FlushStarts, FlushSends, WaiterEnds, runVars
<1>5. CASE \E j \in Jobs : JobSteps(j) \/ ReportUnsent(j)
  BY <1>1, <1>5 DEF JobSteps, ReportsStep, HandlerEnds, SendsResult, ReportUnsent, JobExits, runVars
<1>6. CASE StopCalled \/ \E d \in Drainers : DrainCalled(d) \/ DrainSteps(d)
  BY <1>0, <1>6 DEF StopCalled, DrainCalled, DrainSteps, DrainBegins, DrainEnters, DrainWaits,
     DrainFlushes, DrainReturns, StoreUnlessStopped
<1>7. CASE \/ StreamAborted \/ EngineReads \/ EngineCloses \/ StreamBreaks
           \/ \E j \in Jobs, kind \in {"job", "cancel", "shutdown"} : EngineSends(kind, j)
  BY <1>1, <1>7 DEF StreamAborted, EngineReads, EngineCloses, StreamBreaks, EngineSends, runVars
<1>8. CASE UNCHANGED vars
  BY <1>1, <1>8 DEF vars, runVars
<1> QED
  BY <1>2, <1>3, <1>4, <1>5, <1>6, <1>7, <1>8 DEF Next

\* Who moves a drain, flushCh and the send loop: a drain waits only after it set
\* the state, and closes flushCh only when no job is counted.
LEMMA FlushMoves ==
    ASSUME StreamInv, [Next]_vars
    PROVE  /\ \A d \in Drainers : drain'[d] \in {"waiting", "blocked", "flushed"} =>
                 \/ drain[d] \in {"waiting", "blocked", "flushed"}
                 \/ state' \in {"draining", "stopped"}
           /\ flushCh => flushCh'
           /\ flushCh' => \/ flushCh
                          \/ /\ jobCount = 0 /\ state \in {"draining", "stopped"}
                             /\ UNCHANGED <<job, recv>>
           /\ sender' = "flushing" => sender = "flushing" \/ flushCh
<1>0. TypeOK /\ DrainShuts
  BY DEF StreamInv
<1>1. CASE UNCHANGED <<drain, flushCh, sender>>
  BY <1>1
<1>2. CASE RunSteps
  <2>1. UNCHANGED <<drain, flushCh>> /\ sender' \in {sender, "sending"}
    BY <1>2 DEF RunSteps, RunStarts, RunLoops, Registered, ConnectFails, Opened, Disconnects, Closed,
       BackoffEnds, RunFails, connVars
  <2> QED
    BY <2>1
<1>3. CASE RecvSteps
  <2>1. CASE \E d \in Drainers : ShutdownArrives(d)
    BY <1>0, <2>1 DEF ShutdownArrives, TypeOK
  <2>2. CASE \/ RecvEnds \/ AssignmentArrives \/ AssignmentChecked \/ CancelArrives
             \/ \E b \in BOOLEAN : JobStarts(b)
    BY <1>1, <2>2 DEF RecvEnds, AssignmentArrives, AssignmentChecked, CancelArrives, JobStarts, runVars
  <2> QED
    BY <1>3, <2>1, <2>2 DEF RecvSteps
<1>4. CASE SendSteps
  BY <1>4 DEF SendSteps, SendQueued, SenderEnds, SendFails, FlushStarts, FlushSends, runVars
<1>5. CASE \/ \E m \in waiters : WaiterEnds(m)
           \/ \E j \in Jobs : JobSteps(j) \/ ReportUnsent(j)
  BY <1>1, <1>5 DEF WaiterEnds, JobSteps, ReportsStep, HandlerEnds, SendsResult, ReportUnsent, JobExits,
     runVars, connVars
<1>6. ASSUME NEW d \in Drainers, DrainCalled(d) \/ DrainSteps(d)
      PROVE  /\ \A c \in Drainers : drain'[c] \in {"waiting", "blocked", "flushed"} =>
                   \/ drain[c] \in {"waiting", "blocked", "flushed"}
                   \/ state' \in {"draining", "stopped"}
             /\ flushCh => flushCh'
             /\ flushCh' => \/ flushCh
                            \/ /\ jobCount = 0 /\ state \in {"draining", "stopped"}
                               /\ UNCHANGED <<job, recv>>
             /\ sender' = "flushing" => sender = "flushing" \/ flushCh
  <2>1. CASE DrainEnters(d)
    BY <1>0, <2>1 DEF TypeOK, DrainEnters, StoreUnlessStopped, connVars
  <2>2. CASE DrainFlushes(d)
    BY <1>0, <2>2 DEF TypeOK, DrainFlushes, DrainShuts, connVars, jobVars
  <2>3. CASE DrainWaits(d)
    BY <1>0, <2>3 DEF TypeOK, DrainWaits, connVars
  <2>4. CASE DrainCalled(d) \/ DrainBegins(d) \/ \E deadline \in BOOLEAN : DrainReturns(d, deadline)
    BY <1>0, <2>4 DEF TypeOK, DrainCalled, DrainBegins, DrainReturns, connVars
  <2> QED
    BY <1>6, <2>1, <2>2, <2>3, <2>4 DEF DrainSteps
<1>7. CASE \/ StreamAborted \/ StopCalled \/ EngineReads \/ EngineCloses \/ StreamBreaks
           \/ \E j \in Jobs, kind \in {"job", "cancel", "shutdown"} : EngineSends(kind, j)
  BY <1>1, <1>7 DEF StreamAborted, StopCalled, EngineReads, EngineCloses, StreamBreaks, EngineSends,
     runVars, connVars
<1>8. CASE UNCHANGED vars
  BY <1>1, <1>8 DEF vars, runVars, connVars
<1> QED
  BY <1>2, <1>3, <1>4, <1>5, <1>6, <1>7, <1>8 DEF Next

\* A waiting drain keeps the worker shut.
LEMMA DrainStep ==
    ASSUME StreamInv, [Next]_vars PROVE DrainShuts'
<1>0. DrainShuts
  BY DEF StreamInv
<1> QED
  BY <1>0, FlushMoves, DoorStep DEF DrainShuts

\* Only an accepted assignment becomes an active job, and a draining worker
\* accepts none.
LEMMA StartMoves ==
    ASSUME StreamInv, [Next]_vars
    PROVE  /\ recv.at # "accepted" => Active' \subseteq Active
           /\ recv'.at = "accepted" => recv.at = "accepted" \/ state # "draining"
<1>0. TypeOK
  BY DEF StreamInv
<1>1. CASE UNCHANGED <<job, recv>>
  BY <1>1 DEF Active
<1>2. CASE RunSteps
  <2>1. UNCHANGED job /\ (recv' = recv \/ recv'.at = "receiving")
    BY <1>2 DEF RunSteps, RunStarts, RunLoops, Registered, ConnectFails, Opened, Disconnects, Closed,
       BackoffEnds, RunFails, connVars, jobVars
  <2> QED
    BY <2>1 DEF Active
<1>3. CASE RecvSteps
  <2>1. CASE RecvEnds \/ AssignmentArrives \/ CancelArrives \/ \E d \in Drainers : ShutdownArrives(d)
    <3>1. UNCHANGED job /\ (recv' = recv \/ recv'.at \in {"done", "counted"})
      BY <1>0, <2>1 DEF TypeOK, RecvEnds, AssignmentArrives, CancelArrives, ShutdownArrives, jobVars
    <3> QED
      BY <3>1 DEF Active
  <2>2. CASE AssignmentChecked
    BY <2>2 DEF AssignmentChecked, Refuses, Active
  <2>3. CASE \E b \in BOOLEAN : JobStarts(b)
    BY <2>3 DEF JobStarts
  <2> QED
    BY <1>3, <2>1, <2>2, <2>3 DEF RecvSteps
<1>4. CASE SendSteps \/ \E m \in waiters : WaiterEnds(m)
  BY <1>1, <1>4 DEF SendSteps, SendQueued, SenderEnds, SendFails, FlushStarts, FlushSends, WaiterEnds,
     connVars, jobVars
<1>5. ASSUME NEW j \in Jobs, JobSteps(j) \/ ReportUnsent(j)
      PROVE  Active' \subseteq Active /\ recv' = recv
  <2>1. recv' = recv /\ j \in Active
    BY <1>5 DEF JobSteps, ReportsStep, HandlerEnds, SendsResult, ReportUnsent, JobExits, connVars, Active
  <2>2. \E s \in {"stepped", "exiting", "reporting", "idle"} : job' = [job EXCEPT ![j] = s]
    BY <1>5 DEF JobSteps, ReportsStep, HandlerEnds, SendsResult, ReportUnsent, JobExits
  <2> QED
    BY <1>0, <2>1, <2>2, ActiveMoves DEF TypeOK
<1>6. CASE StopCalled \/ \E d \in Drainers : DrainCalled(d) \/ DrainSteps(d)
  BY <1>1, <1>6 DEF StopCalled, DrainCalled, DrainSteps, DrainBegins, DrainEnters, DrainWaits,
     DrainFlushes, DrainReturns, connVars, jobVars
<1>7. CASE \/ StreamAborted \/ EngineReads \/ EngineCloses \/ StreamBreaks
           \/ \E j \in Jobs, kind \in {"job", "cancel", "shutdown"} : EngineSends(kind, j)
  BY <1>1, <1>7 DEF StreamAborted, EngineReads, EngineCloses, StreamBreaks, EngineSends, jobVars
<1>8. CASE UNCHANGED vars
  BY <1>1, <1>8 DEF vars, connVars, jobVars
<1> QED
  BY <1>2, <1>3, <1>4, <1>5, <1>6, <1>7, <1>8 DEF Next

\* flushCh is closed when no job is counted, and nothing is accepted after it.
LEMMA IdleStep ==
    ASSUME StreamInv, [Next]_vars PROVE DrainedMeansIdle'
<1> SUFFICES ASSUME state' = "draining", flushCh' PROVE Active' = {} /\ recv'.at # "accepted"
  BY DEF DrainedMeansIdle
<1>0. DrainShuts /\ DrainedMeansIdle /\ Active \in SUBSET Jobs
  BY DEF StreamInv, Active
<1>1. CASE flushCh
  <2>1. state = "draining"
    BY <1>0, <1>1, DoorStep DEF DrainShuts
  <2>2. Active = {} /\ recv.at # "accepted"
    BY <1>0, <1>1, <2>1 DEF DrainedMeansIdle
  <2> QED
    BY <2>1, <2>2, StartMoves
<1>2. CASE ~flushCh
  <2>1. jobCount = 0 /\ UNCHANGED <<job, recv>>
    BY <1>2, FlushMoves
  <2>2. Cardinality(Active) = 0 /\ recv.at \notin {"counted", "accepted"}
    BY <2>1, Counted
  <2>3. Active = {}
    BY <1>0, <2>2, ActiveJobs
  <2> QED
    BY <2>1, <2>2, <2>3 DEF Active
<1> QED
  BY <1>1, <1>2

-----------------------------------------------------------------------------
(* Results on their way to the engine. *)

\* A worker that flushes and is not stopped has no active job.
LEMMA FlushIsIdle ==
    ASSUME StreamInv, flushCh, ~stopCh PROVE state = "draining" /\ Active = {}
BY DEF StreamInv, StopIsFinal, DrainShuts, DrainedMeansIdle

\* What a step may do to the stream and to what the engine is owed.
LEMMA StreamMoves ==
    ASSUME StreamInv, [Next]_vars
    PROVE  /\ Active = {} => owed' \subseteq owed
           /\ stream' = "open" => stream = "open" \/ run' = "opening"
           /\ stream' = "half" => \/ stream = "half"
                                  \/ /\ stream = "open" /\ sender = "flushing" /\ outCh = <<>>
                                     /\ UNCHANGED <<wire, owed>>
           /\ stream' = "eof" => \/ stream = "eof"
                                 \/ stream = "half" /\ wire = <<>> /\ UNCHANGED owed
           /\ run' \in {"open", "closing"} => run \in {"open", "closing"} \/ owed' = {}
           /\ stream \in {"half", "eof"} /\ stream' = "half" =>
                 wire' = wire \/ EngineReads
<1>1. CASE UNCHANGED <<stream, run, owed, wire>>
  BY <1>1
<1>2. CASE RunSteps
  BY <1>2 DEF RunSteps, RunStarts, RunLoops, Registered, ConnectFails, Opened, Disconnects, Closed,
     BackoffEnds, RunFails, connVars
<1>3. CASE RecvSteps
  BY <1>1, <1>3 DEF RecvSteps, RecvEnds, AssignmentArrives, AssignmentChecked, CancelArrives, JobStarts,
     ShutdownArrives, runVars
<1>4. CASE SendSteps
  BY <1>4 DEF SendSteps, SendQueued, SenderEnds, SendFails, FlushStarts, FlushSends, Transmits, runVars
<1>5. ASSUME NEW j \in Jobs, JobSteps(j) \/ ReportUnsent(j)
      PROVE  UNCHANGED <<stream, run, wire>> /\ (Active = {} => owed' \subseteq owed)
  <2>1. j \in Active
    BY <1>5 DEF JobSteps, ReportsStep, HandlerEnds, SendsResult, ReportUnsent, JobExits, Active
  <2> QED
    BY <1>5, <2>1 DEF JobSteps, ReportsStep, HandlerEnds, SendsResult, ReportUnsent, JobExits,
       runVars, connVars
<1>6. CASE StopCalled \/ \E d \in Drainers : DrainCalled(d) \/ DrainSteps(d)
  BY <1>1, <1>6 DEF StopCalled, DrainCalled, DrainSteps, DrainBegins, DrainEnters, DrainWaits,
     DrainFlushes, DrainReturns, connVars
<1>7. CASE StreamAborted \/ EngineReads \/ EngineCloses \/ StreamBreaks
  BY <1>7 DEF StreamAborted, EngineReads, EngineCloses, StreamBreaks, runVars
<1>8. CASE \/ \E m \in waiters : WaiterEnds(m)
           \/ \E j \in Jobs, kind \in {"job", "cancel", "shutdown"} : EngineSends(kind, j)
  BY <1>1, <1>8 DEF WaiterEnds, EngineSends, runVars, connVars
<1>9. CASE UNCHANGED vars
  BY <1>1, <1>9 DEF vars, runVars, connVars
<1> QED
  BY <1>2, <1>3, <1>4, <1>5, <1>6, <1>7, <1>8, <1>9 DEF Next

\* One owed result through one step on a stream that stays open: the job's
\* goroutine queues it, the send loop transmits it, the engine reads it.
LEMMA ResultMoves ==
    ASSUME StreamInv, Next, stream = "open", stream' = "open", ~stopCh, run' # "opening",
           NEW j \in owed', j \in owed => job[j] = "reporting" \/ Carries(outCh, j) \/ Carries(wire, j)
    PROVE  job'[j] = "reporting" \/ Carries(outCh', j) \/ Carries(wire', j)
<1> DEFINE Under == job[j] = "reporting" \/ Carries(outCh, j) \/ Carries(wire, j)
           UnderNext == job'[j] = "reporting" \/ Carries(outCh', j) \/ Carries(wire', j)
<1>0. /\ TypeOK /\ owed' \in SUBSET Jobs /\ j \in Jobs
      /\ outCh \in Seq(Messages) /\ wire \in Seq(Messages)
      /\ job \in [Jobs -> {"idle", "running", "stepped", "reporting", "exiting"}]
  BY TypeStep DEF StreamInv, TypeOK
<1>1. CASE UNCHANGED <<job, outCh, wire, owed>>
  BY <1>1
<1>2. CASE RunSteps
  <2>1. CASE Opened
    BY <2>1 DEF Opened
  <2>2. CASE RunStarts \/ RunLoops \/ Registered \/ Disconnects \/ BackoffEnds \/ \E f \in BOOLEAN : RunFails(f)
    BY <1>1, <2>2 DEF RunStarts, RunLoops, Registered, Disconnects, BackoffEnds, RunFails, connVars,
       jobVars, queueVars
  <2>3. CASE ConnectFails \/ Closed
    BY <2>3 DEF ConnectFails, Closed
  <2> QED
    BY <1>2, <2>1, <2>2, <2>3 DEF RunSteps
<1>3. CASE RecvSteps
  <2>1. CASE RecvEnds \/ AssignmentArrives \/ CancelArrives \/ \E d \in Drainers : ShutdownArrives(d)
    BY <1>1, <2>1 DEF RecvEnds, AssignmentArrives, CancelArrives, ShutdownArrives, jobVars, queueVars
  <2>2. CASE AssignmentChecked
    <3>1. \A kind \in {"ack", "nack"} : Message(kind, recv.job) \in Messages
      BY <1>0, <2>2, Counted DEF AssignmentChecked, TypeOK, Message, Messages
    <3>2. Carries(outCh, j) => Carries(outCh', j)
      BY <1>0, <2>2, <3>1, EnqueueTypes DEF AssignmentChecked
    <3> QED
      BY <2>2, <3>2 DEF AssignmentChecked
  <2>3. ASSUME NEW b \in BOOLEAN, JobStarts(b) PROVE UnderNext
    <3>1. recv.job \in Jobs /\ job[recv.job] = "idle"
      BY <2>3, Counted DEF JobStarts, Active
    <3>2. job[j] = "reporting" => job'[j] = "reporting"
      BY <1>0, <2>3, <3>1 DEF JobStarts
    <3> QED
      BY <2>3, <3>2 DEF JobStarts, queueVars
  <2> QED
    BY <1>3, <2>1, <2>2, <2>3 DEF RecvSteps
<1>4. ASSUME Transmits, outCh # <<>>, UNCHANGED <<job, owed>> PROVE UnderNext
  <2>1. /\ Head(outCh) \in Messages /\ outCh' = Tail(outCh) /\ wire' = Append(wire, Head(outCh))
        /\ Carries(outCh, j) => Carries(Tail(outCh), j) \/ (Head(outCh).kind = "result" /\ Head(outCh).job = j)
    BY <1>0, <1>4, Queues DEF Transmits
  <2>2. /\ Carries(wire, j) => Carries(wire', j)
        /\ Head(outCh).kind = "result" /\ Head(outCh).job = j => Carries(wire', j)
    BY <1>0, <2>1, Queues
  <2> QED
    BY <1>4, <2>1, <2>2
<1>5. CASE SendSteps
  <2>1. CASE SendQueued
    BY <1>4, <2>1 DEF SendQueued, jobVars
  <2>2. CASE SenderEnds \/ FlushStarts
    BY <1>1, <2>2 DEF SenderEnds, FlushStarts, jobVars, queueVars
  <2>3. CASE SendFails
    BY <2>3 DEF SendFails
  <2>4. CASE FlushSends
    BY <1>4, <2>4 DEF FlushSends, jobVars
  <2> QED
    BY <1>5, <2>1, <2>2, <2>3, <2>4 DEF SendSteps
<1>6. ASSUME NEW m \in Messages, outCh' \in {outCh, Append(outCh, m)}
      PROVE  Carries(outCh, j) => Carries(outCh', j)
  <2>1. CASE outCh' = outCh
    BY <2>1
  <2>2. CASE outCh' = Append(outCh, m)
    <3>1. Carries(outCh, j) => Carries(Append(outCh, m), j)
      BY <1>0, Queues
    <3> QED
      BY <2>2, <3>1
  <2> QED
    BY <1>6, <2>1, <2>2
<1>7. ASSUME NEW m \in waiters, WaiterEnds(m) PROVE UnderNext
  <2>1. m \in Messages /\ outCh' \in {outCh, Append(outCh, m)}
    BY <1>0, <1>7 DEF TypeOK, WaiterEnds
  <2> QED
    BY <1>6, <1>7, <2>1 DEF WaiterEnds, connVars, jobVars
<1>8. ASSUME NEW k \in Jobs, JobSteps(k) \/ ReportUnsent(k) PROVE UnderNext
  <2>0. UNCHANGED wire
    BY <1>8 DEF JobSteps, ReportsStep, HandlerEnds, SendsResult, ReportUnsent, JobExits, connVars
  <2>1. \A kind \in {"step", "result"} : [kind |-> kind, job |-> k, conn |-> home[k]] \in Messages
    BY <1>0 DEF TypeOK, Messages
  <2>2. CASE ReportsStep(k)
    <3>1. Carries(outCh, j) => Carries(outCh', j)
      BY <1>6, <2>1, <2>2 DEF ReportsStep
    <3> QED
      BY <1>0, <2>0, <2>2, <3>1 DEF ReportsStep
  <2>3. CASE HandlerEnds(k)
    BY <1>0, <2>0, <2>3 DEF HandlerEnds, queueVars
  <2>4. CASE SendsResult(k)
    <3>1. CASE outCh' = Append(outCh, [kind |-> "result", job |-> k, conn |-> home[k]]) /\ UNCHANGED owed
      <4>1. Carries(outCh, j) => Carries(outCh', j)
        BY <1>6, <2>1, <3>1
      <4>2. j = k => Carries(outCh', j)
        <5> DEFINE m == [kind |-> "result", job |-> k, conn |-> home[k]]
        <5>1. m \in Messages /\ m.kind = "result" /\ m.job = k
          BY <2>1
        <5> HIDE DEF m
        <5>2. j = k => Carries(Append(outCh, m), j)
          BY <1>0, <5>1, Queues
        <5> QED
          BY <3>1, <5>2 DEF m
      <4>3. j # k => job'[j] = job[j]
        BY <1>0, <2>4 DEF SendsResult
      <4> QED
        BY <2>0, <3>1, <4>1, <4>2, <4>3
    <3>2. CASE owed' = owed \ {k} /\ UNCHANGED outCh
      BY <1>0, <2>0, <2>4, <3>2 DEF SendsResult
    <3> QED
      BY <2>4, <3>1, <3>2 DEF SendsResult
  <2>5. CASE ReportUnsent(k)
    BY <1>0, <2>0, <2>5 DEF ReportUnsent, queueVars
  <2>6. CASE JobExits(k)
    BY <1>0, <2>0, <2>6 DEF JobExits, queueVars
  <2> QED
    BY <1>8, <2>2, <2>3, <2>4, <2>5, <2>6 DEF JobSteps
<1>9. CASE EngineReads
  <2>1. /\ wire # <<>> /\ wire' = Tail(wire) /\ UNCHANGED <<job, outCh>>
        /\ owed' = IF Head(wire).kind = "result" THEN owed \ {Head(wire).job} ELSE owed
    BY <1>9 DEF EngineReads, jobVars, queueVars
  <2>2. Carries(wire, j) => Carries(wire', j) \/ (Head(wire).kind = "result" /\ Head(wire).job = j)
    BY <1>0, <2>1, Queues
  <2> QED
    BY <2>1, <2>2
<1>10. CASE StreamAborted \/ EngineCloses \/ StreamBreaks
  BY <1>10 DEF StreamAborted, EngineCloses, StreamBreaks
<1>11. CASE \/ StopCalled \/ \E d \in Drainers : DrainCalled(d) \/ DrainSteps(d)
            \/ \E k \in Jobs, kind \in {"job", "cancel", "shutdown"} : EngineSends(kind, k)
  BY <1>1, <1>11 DEF StopCalled, DrainCalled, DrainSteps, DrainBegins, DrainEnters, DrainWaits,
     DrainFlushes, DrainReturns, EngineSends, connVars, jobVars, queueVars
<1> QED
  BY <1>2, <1>3, <1>5, <1>7, <1>8, <1>9, <1>10, <1>11 DEF Next

\* stopCh is never opened again.
LEMMA StopStays ==
    ASSUME StreamInv, [Next]_vars, ~stopCh' PROVE ~stopCh
BY DoorStep DEF StreamInv, StopIsFinal

\* No owed result is lost while the stream is open.
LEMMA OwedStep ==
    ASSUME StreamInv, [Next]_vars PROVE OwedIsUnderWay'
<1> SUFFICES ASSUME run' \in {"open", "closing"}, stream' = "open", ~stopCh', NEW j \in owed'
             PROVE  job'[j] = "reporting" \/ Carries(outCh', j) \/ Carries(wire', j)
  BY DEF OwedIsUnderWay, Carries
<1>1. ~stopCh /\ OwedIsUnderWay
  BY StopStays DEF StreamInv
<1>2. stream = "open" /\ run \in {"open", "closing"}
  BY StreamMoves
<1>3. \A k \in owed : job[k] = "reporting" \/ Carries(outCh, k) \/ Carries(wire, k)
  BY <1>1, <1>2 DEF OwedIsUnderWay
<1>4. CASE Next
  BY <1>1, <1>2, <1>3, <1>4, ResultMoves
<1>5. CASE UNCHANGED vars
  BY <1>3, <1>5 DEF vars, connVars, jobVars, queueVars
<1> QED
  BY <1>4, <1>5

\* After the half-close the engine reads what is on the wire, and nothing is
\* owed besides.
LEMMA HalfCloseStep ==
    ASSUME StreamInv, [Next]_vars PROVE HalfCloseIsLast' /\ GracefulLosesNothing'
<1> SUFFICES ASSUME stream' \in {"half", "eof"}, ~stopCh'
             PROVE  /\ flushCh'
                    /\ stream' = "half" => \A j \in owed' : Carries(wire', j)
                    /\ stream' = "eof" => owed' = {}
  BY DEF HalfCloseIsLast, GracefulLosesNothing, Carries
<1>1. /\ ~stopCh /\ TypeOK /\ LoopsParked /\ DrainShuts /\ OwedIsUnderWay
      /\ HalfCloseIsLast /\ GracefulLosesNothing
  BY StopStays DEF StreamInv
<1>2. stream \in {"half", "eof"} \/ (stream = "open" /\ stream' = "half" /\ sender = "flushing")
  BY StreamMoves
<1>3. flushCh /\ flushCh'
  BY <1>1, <1>2, FlushMoves DEF HalfCloseIsLast, DrainShuts
<1>4. Active = {} /\ owed' \subseteq owed
  BY <1>1, <1>3, FlushIsIdle, StreamMoves
<1>5. ASSUME stream' = "half", NEW j \in owed' PROVE Carries(wire', j)
  <2>1. CASE stream = "half"
    <3>1. j \in owed /\ Carries(wire, j)
      BY <1>1, <1>4, <2>1 DEF HalfCloseIsLast
    <3>2. CASE EngineReads
      <4>1. /\ wire # <<>> /\ wire' = Tail(wire)
            /\ owed' = IF Head(wire).kind = "result" THEN owed \ {Head(wire).job} ELSE owed
        BY <3>2 DEF EngineReads
      <4>2. Carries(wire', j) \/ (Head(wire).kind = "result" /\ Head(wire).job = j)
        BY <1>1, <3>1, <4>1, Queues DEF TypeOK
      <4> QED
        BY <4>1, <4>2
    <3> QED
      BY <1>5, <2>1, <3>1, <3>2, StreamMoves
  <2>2. CASE stream # "half"
    <3>1. stream = "open" /\ sender = "flushing" /\ outCh = <<>> /\ UNCHANGED <<wire, owed>>
      BY <1>5, <2>2, StreamMoves
    <3>2. run \in {"open", "closing"}
      BY <1>1, <3>1 DEF LoopsParked
    <3>3. job[j] = "reporting" \/ Carries(outCh, j) \/ Carries(wire, j)
      BY <1>1, <3>1, <3>2 DEF OwedIsUnderWay
    <3>4. job[j] # "reporting" /\ ~Carries(outCh, j)
      BY <1>1, <1>4, <3>1, Queues DEF Active, TypeOK
    <3> QED
      BY <3>1, <3>3, <3>4
  <2> QED
    BY <2>1, <2>2
<1>6. ASSUME stream' = "eof" PROVE owed' = {}
  <2>1. CASE stream = "eof"
    BY <1>1, <1>4, <2>1 DEF GracefulLosesNothing
  <2>2. CASE stream # "eof"
    <3>1. stream = "half" /\ wire = <<>>
      BY <1>6, <2>2, StreamMoves
    <3>2. \A j \in owed : Carries(wire, j)
      BY <1>1, <3>1 DEF HalfCloseIsLast
    <3>3. \A j : ~Carries(wire, j)
      BY <1>1, <3>1, Queues DEF TypeOK
    <3> QED
      BY <1>4, <3>2, <3>3
  <2> QED
    BY <2>1, <2>2
<1> QED
  BY <1>3, <1>5, <1>6

-----------------------------------------------------------------------------
(* The theorems. *)

\* StreamInv holds in every reachable state.
LEMMA StreamInvariant == Spec => []StreamInv
<1>1. StreamInv /\ [Next]_vars => StreamInv'
  BY TypeStep, LoopsStep, CountStep, DoorStep, DrainStep, IdleStep, OwedStep, HalfCloseStep DEF StreamInv
<1> QED
  BY StreamInit, <1>1, PTL DEF Spec

\* The variables of the streaming worker have their types: jobCount is never
\* negative and outCh never over its capacity.
THEOREM TypeCorrect == Spec => []TypeOK
BY StreamInvariant, PTL DEF StreamInv

\* handleJobAssignment and the deferred cleanup of a job keep jobCount equal to
\* the number of jobs, and the jobs within MaxConcurrentJobs.
THEOREM CountExact == Spec => []CountIsExact
BY StreamInvariant, PTL DEF StreamInv

\* Once drain() has closed flushCh, no assignment becomes a job.
THEOREM DrainIsQuiet == Spec => []DrainedMeansIdle
BY StreamInvariant, PTL DEF StreamInv

\* The graceful close hands the engine every result it is owed before the
\* stream ends.
THEOREM GracefulClose == Spec => []GracefulLosesNothing
BY StreamInvariant, PTL DEF StreamInv

=============================================================================
