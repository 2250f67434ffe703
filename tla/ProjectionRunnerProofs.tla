----------------------- MODULE ProjectionRunnerProofs -----------------------
(***************************************************************************)
(* Proofs about ProjectionRunner, for every log, every partitioning, every *)
(* set of runners and every bound.  RunnerInv is inductive; from it the    *)
(* replicas implement ReadModel, and ReadModel folds every event once.     *)
(***************************************************************************)
EXTENDS ProjectionRunner, SequenceTheorems, TLAPS

\* A span of the log is a sequence of events.
LEMMA SpanType ==
    ASSUME NEW a \in 0..LastSeq, NEW e \in 0..LastSeq, a <= e
    PROVE  Span(a, e) \in Seq(1..LastSeq)
BY LogAssumption DEF Span

\* A fault stays within its bound.
LEMMA FaultType ==
    ASSUME TypeOK, Fault PROVE faults' \in 0..MaxFaults
BY RunnerAssumption DEF TypeOK, Fault

\* The end of a read or of a batch keeps the types.
LEMMA RoundType ==
    ASSUME TypeOK, NEW r \in Runners, NEW place \in Places, EndRound(r, place)
    PROVE  /\ pc' \in [Runners -> Places]
           /\ polling' \in [Runners -> BOOLEAN] /\ stream' \in [Runners -> BOOLEAN]
           /\ at' \in [Runners -> 0..LastSeq] /\ taken' \in [Runners -> 0..LastSeq]
           /\ states' \in [Runners -> [Partitions -> Seq(1..LastSeq)]]
           /\ loaded' \in [Runners -> SUBSET Partitions]
<1>1. 0 \in 0..LastSeq /\ <<>> \in Seq(1..LastSeq)
  BY LogAssumption
<1>2. NoStates \in [Partitions -> Seq(1..LastSeq)]
  BY <1>1 DEF NoStates
<1> QED
  BY <1>1, <1>2 DEF TypeOK, EndRound, DropBatch, CloseStream, Go

\* What the server takes keeps its type.
LEMMA AppliedType ==
    ASSUME TypeOK, NEW r \in Runners, Applied(r)
    PROVE  cursor' \in 0..LastSeq /\ saved' \in [Partitions -> Seq(1..LastSeq)]
<1>1. CASE mode = "managed" /\ PartitionOf[at[r]] \in Partitions
  BY <1>1 DEF TypeOK, Applied
<1>2. CASE PartitionOf[at[r]] \notin Partitions
  BY <1>2 DEF TypeOK, Applied
<1>3. CASE mode # "managed"
  BY <1>3 DEF TypeOK, Applied
<1> QED
  BY <1>1, <1>2, <1>3

\* The variables keep their types, because positions stay inside the log.
LEMMA TypeStep ==
    TypeOK /\ Positions /\ [Next]_vars => TypeOK'
<1> SUFFICES ASSUME TypeOK, Positions, [Next]_vars PROVE TypeOK'
  OBVIOUS
<1> USE DEF vars, readModel, server, leaseVars, stopVars, intake, batch
<1>1. CASE UNCHANGED vars
  BY LogAssumption, RunnerAssumption, <1>1 DEF TypeOK, Places
<1>2. ASSUME NEW r \in Runners, Start(r) PROVE TypeOK'
  BY LogAssumption, RunnerAssumption, <1>2 DEF Start, Go, TypeOK, Places
<1>3. ASSUME NEW r \in Runners, Registered(r) PROVE TypeOK'
  BY LogAssumption, RunnerAssumption, <1>3 DEF Registered, Go, TypeOK, Places
<1>4. ASSUME NEW r \in Runners, RegisterEnds(r) PROVE TypeOK'
  BY FaultType, <1>4 DEF RegisterEnds, Go, TypeOK, Places
<1>5. ASSUME NEW r \in Runners, Ask(r) PROVE TypeOK'
  BY LogAssumption, RunnerAssumption, <1>5 DEF Ask, Go, TypeOK, Places
<1>6. ASSUME NEW r \in Runners, StandbyStops(r) PROVE TypeOK'
  BY LogAssumption, RunnerAssumption, <1>6 DEF StandbyStops, Go, TypeOK,
      Places
<1>7. ASSUME NEW r \in Runners, Granted(r) PROVE TypeOK'
  BY SMTT(40), LogAssumption, RunnerAssumption, <1>7 DEF Granted, Go, TypeOK, Places
<1>8. ASSUME NEW r \in Runners, Refused(r) PROVE TypeOK'
  BY LogAssumption, RunnerAssumption, <1>8 DEF Refused, Go, TypeOK, Places
<1>9. ASSUME NEW r \in Runners, GrantLost(r) PROVE TypeOK'
  BY SMTT(40), FaultType, <1>9 DEF GrantLost, Go, TypeOK, Places
<1>10. ASSUME NEW r \in Runners, AskFatal(r) PROVE TypeOK'
  BY FaultType, <1>10 DEF AskFatal, Go, TypeOK, Places
<1>11. ASSUME NEW r \in Runners, KeepGrant(r) PROVE TypeOK'
  BY LogAssumption, RunnerAssumption, <1>11 DEF KeepGrant, Go, TypeOK, Places
<1>12. ASSUME NEW r \in Runners, ReturnGrant(r) PROVE TypeOK'
  BY LogAssumption, RunnerAssumption, <1>12 DEF ReturnGrant, Go, TypeOK,
      Places
<1>13. ASSUME NEW r \in Runners, StandBy(r) PROVE TypeOK'
  BY LogAssumption, RunnerAssumption, <1>13 DEF StandBy, Go, TypeOK, Places
<1>14. ASSUME NEW r \in Runners, Leave(r) PROVE TypeOK'
  BY LogAssumption, RunnerAssumption, <1>14 DEF Leave, Go, TypeOK, Places
<1>15. ASSUME NEW r \in Runners, Release(r) PROVE TypeOK'
  <2>1. held' \in BOOLEAN /\ faults' \in 0..MaxFaults
    BY FaultType, <1>15 DEF Release, TypeOK
  <2> QED
    BY <2>1, <1>15 DEF Release, Go, TypeOK, Places
<1>16. ASSUME NEW r \in Runners, LoopEnds(r) PROVE TypeOK'
  BY LogAssumption, RunnerAssumption, <1>16 DEF LoopEnds, Go, TypeOK, Places
<1>17. ASSUME NEW r \in Runners, OpenStream(r) PROVE TypeOK'
  BY LogAssumption, RunnerAssumption, <1>17 DEF OpenStream, Stale, Go, TypeOK,
      Places
<1>18. ASSUME NEW r \in Runners, Unsupported(r) PROVE TypeOK'
  BY LogAssumption, RunnerAssumption, <1>18 DEF Unsupported, TypeOK, Places
<1>19. ASSUME NEW r \in Runners, PullAborted(r) PROVE TypeOK'
  BY RoundType, <1>19 DEF PullAborted, TypeOK, Places
<1>20. ASSUME NEW r \in Runners, Take(r) PROVE TypeOK'
  <2>1. taken[r] + 1 \in 0..LastSeq
    BY LogAssumption, <1>20 DEF Take, TypeOK
  <2> QED
    BY <2>1, <1>20 DEF Take, FirstStage, Go, TypeOK, Places
<1>21. ASSUME NEW r \in Runners, Flush(r) PROVE TypeOK'
  BY LogAssumption, RunnerAssumption, <1>21 DEF Flush, FirstStage, Go, TypeOK,
      Places
<1>22. ASSUME NEW r \in Runners, ReadLost(r) PROVE TypeOK'
  BY RoundType, <1>22 DEF ReadLost, TypeOK, Places
<1>23. ASSUME NEW r \in Runners, StreamEnds(r) PROVE TypeOK'
  BY FaultType, <1>23 DEF StreamEnds, CloseStream, FirstStage, Go, TypeOK, Places
<1>24. ASSUME NEW r \in Runners, Poll(r) PROVE TypeOK'
  BY SMTT(40), LogAssumption, RunnerAssumption, <1>24 DEF Poll, Stale, FirstStage, Go,
      TypeOK, Places
<1>25. ASSUME NEW r \in Runners, LoopFatal(r) PROVE TypeOK'
  BY RoundType, FaultType, <1>25 DEF LoopFatal, TypeOK, Places
<1>26. ASSUME NEW r \in Runners, NEW p \in Partitions, Load(r, p) PROVE TypeOK'
  BY LogAssumption, RunnerAssumption, <1>26 DEF Load, BatchPartitions, TypeOK,
      Places
<1>27. ASSUME NEW r \in Runners, Loaded(r) PROVE TypeOK'
  BY LogAssumption, RunnerAssumption, <1>27 DEF Loaded, BatchPartitions, Go,
      TypeOK, Places
<1>28. ASSUME NEW r \in Runners, Reduce(r) PROVE TypeOK'
  <2>1. PICK e \in (at[r] + 1)..taken[r] :
            /\ states' = [states EXCEPT ![r][PartitionOf[e]] = @ \o Span(at[r], e)]
            /\ at' = [at EXCEPT ![r] = e]
    BY <1>28 DEF Reduce
  <2>2. Span(at[r], e) \in Seq(1..LastSeq) /\ PartitionOf[e] \in Partitions /\ e \in 0..LastSeq
    BY SpanType, LogAssumption DEF TypeOK
  <2>3. states' \in [Runners -> [Partitions -> Seq(1..LastSeq)]]
    BY <2>1, <2>2 DEF TypeOK
  <2> QED
    BY <1>28, <2>1, <2>2, <2>3 DEF TypeOK, Places, Reduce, Go
<1>29. ASSUME NEW r \in Runners, Handle(r) PROVE TypeOK'
  <2>1. at[r] + 1 \in 1..LastSeq
    BY LogAssumption, <1>29 DEF Handle, TypeOK, Positions
  <2>2. handled' \in SUBSET (1..LastSeq)
    BY <2>1, <1>29 DEF Handle, TypeOK
  <2>3. at' \in [Runners -> 0..LastSeq]
    BY <2>1, <1>29 DEF Handle, TypeOK
  <2> QED
    BY <2>2, <2>3, <1>29 DEF Handle, Go, TypeOK, Places
<1>30. ASSUME NEW r \in Runners, BatchLost(r) PROVE TypeOK'
  BY RoundType, <1>30 DEF BatchLost, TypeOK, Places
<1>31. ASSUME NEW r \in Runners, Commit(r) PROVE TypeOK'
  <2>1. cursor' \in 0..LastSeq /\ saved' \in [Partitions -> Seq(1..LastSeq)]
    BY AppliedType, <1>31 DEF Commit
  <2>2. NoStates \in [Partitions -> Seq(1..LastSeq)]
    BY DEF NoStates
  <2>3. /\ states' \in [Runners -> [Partitions -> Seq(1..LastSeq)]]
        /\ loaded' \in [Runners -> SUBSET Partitions]
    <3>1. \/ UNCHANGED <<states, loaded>>
          \/ /\ states' = [states EXCEPT ![r] = NoStates]
             /\ loaded' = [loaded EXCEPT ![r] = {}]
      BY <1>31 DEF Commit
    <3>2. /\ states \in [Runners -> [Partitions -> Seq(1..LastSeq)]]
          /\ loaded \in [Runners -> SUBSET Partitions]
      BY DEF TypeOK
    <3> QED
      BY <2>2, <3>1, <3>2
  <2>4. pc' \in [Runners -> Places]
    BY <1>31 DEF Commit, Go, TypeOK, Places
  <2>5. UNCHANGED <<mode, handled>>
    BY <1>31 DEF Commit, Applied
  <2> QED
    BY <2>1, <2>3, <2>4, <2>5, <1>31 DEF Commit, TypeOK
<1>32. ASSUME NEW r \in Runners, CommitUnanswered(r) PROVE TypeOK'
  <2>1. cursor' \in 0..LastSeq /\ saved' \in [Partitions -> Seq(1..LastSeq)]
    BY AppliedType, <1>32 DEF CommitUnanswered
  <2>2. UNCHANGED <<mode, handled>>
    BY <1>32 DEF CommitUnanswered, Applied
  <2> QED
    BY <2>1, <2>2, RoundType, FaultType, <1>32 DEF CommitUnanswered, TypeOK, Places
<1>33. ASSUME NEW r \in Runners, CommitAborted(r) PROVE TypeOK'
  BY RoundType, <1>33 DEF CommitAborted, TypeOK, Places
<1>34. ASSUME NEW r \in Runners, BatchFails(r) PROVE TypeOK'
  BY RoundType, FaultType, <1>34 DEF BatchFails, TypeOK, Places
<1>35. ASSUME NEW r \in Runners, RenewAborted(r) PROVE TypeOK'
  BY LogAssumption, RunnerAssumption, <1>35 DEF RenewAborted, Stale, TypeOK,
      Places
<1>36. ASSUME NEW r \in Runners, Stop(r) PROVE TypeOK'
  BY LogAssumption, RunnerAssumption, <1>36 DEF Stop, TypeOK, Places
<1>37. ASSUME NEW r \in Runners, StopTimesOut(r) PROVE TypeOK'
  BY LogAssumption, RunnerAssumption, <1>37 DEF StopTimesOut, TypeOK, Places
<1>38. ASSUME NEW r \in Runners, Crash(r) PROVE TypeOK'
  BY RoundType, FaultType, <1>38 DEF Crash, TypeOK, Places
<1>39. CASE Expire
  BY LogAssumption, RunnerAssumption, <1>39 DEF Expire, Renewed, TypeOK,
      Places
<1>40. CASE Revoke
  BY FaultType, <1>40 DEF Revoke, TypeOK
<1>41. QED
  BY <1>1, <1>2, <1>3, <1>4, <1>5, <1>6, <1>7, <1>8, <1>9, <1>10, <1>11, <1>12,
     <1>13, <1>14, <1>15, <1>16, <1>17, <1>18, <1>19, <1>20, <1>21, <1>22, <1>23,
     <1>24, <1>25, <1>26, <1>27, <1>28, <1>29, <1>30, <1>31, <1>32, <1>33, <1>34,
     <1>35, <1>36, <1>37, <1>38, <1>39, <1>40 DEF Next, RunSteps

\* Seven ways to end a read or a batch, with the same effect.
RoundOver(r) ==
    \/ PullAborted(r) \/ ReadLost(r) \/ BatchLost(r) \/ CommitAborted(r)
    \/ LoopFatal(r) \/ BatchFails(r) \/ Crash(r)

\* Each of them ends the round and leaves the server alone.
LEMMA RoundEnds ==
    ASSUME NEW r \in Runners, RoundOver(r)
    PROVE  /\ \E place \in {"fenced", "leaving", "open", "dead"} : EndRound(r, place)
           /\ UNCHANGED <<readModel, server, lease, lost>>
BY DEF RoundOver, PullAborted, ReadLost, BatchLost, CommitAborted, LoopFatal, BatchFails,
       Crash, readModel, server, leaseVars, EndRound

\* A grant has a new epoch, so grants stay distinct.
LEMMA LeaseStep ==
    TypeOK /\ LeasesDistinct /\ [Next]_vars => LeasesDistinct'
<1> SUFFICES ASSUME TypeOK, LeasesDistinct, [Next]_vars PROVE LeasesDistinct'
  OBVIOUS
<1> USE DEF vars, readModel, server, leaseVars, stopVars, intake, batch
<1>1. CASE UNCHANGED vars
  BY <1>1 DEF LeasesDistinct, TypeOK
<1>2. ASSUME NEW r \in Runners,
             Start(r) \/ Registered(r) \/ RegisterEnds(r) \/ Ask(r) \/
             StandbyStops(r) \/ Refused(r) \/ AskFatal(r) \/ ReturnGrant(r)
      PROVE  LeasesDistinct'
  BY <1>2 DEF Start, Go, Registered, RegisterEnds, Fault, Ask, StandbyStops,
      Refused, AskFatal, ReturnGrant, LeasesDistinct, TypeOK
<1>3. ASSUME NEW r \in Runners, Granted(r) PROVE LeasesDistinct'
  BY <1>3 DEF Granted, Go, LeasesDistinct, TypeOK
<1>4. ASSUME NEW r \in Runners, GrantLost(r) PROVE LeasesDistinct'
  BY <1>4 DEF GrantLost, Fault, Go, LeasesDistinct, TypeOK
<1>5. ASSUME NEW r \in Runners,
             KeepGrant(r) \/ Leave(r) \/ Release(r) \/ RenewAborted(r)
      PROVE  LeasesDistinct'
  BY <1>5 DEF KeepGrant, Go, Leave, Release, Fault, RenewAborted, Stale,
      LeasesDistinct, TypeOK
<1>6. ASSUME NEW r \in Runners, StandBy(r) PROVE LeasesDistinct'
  BY <1>6 DEF StandBy, Go, LeasesDistinct, TypeOK
<1>7. ASSUME NEW r \in Runners, LoopEnds(r) PROVE LeasesDistinct'
  BY <1>7 DEF LoopEnds, Go, LeasesDistinct, TypeOK
<1>8. ASSUME NEW r \in Runners, OpenStream(r) PROVE LeasesDistinct'
  BY <1>8 DEF OpenStream, Stale, Go, LeasesDistinct, TypeOK
<1>9. ASSUME NEW r \in Runners, Unsupported(r) PROVE LeasesDistinct'
  BY <1>9 DEF Unsupported, LeasesDistinct, TypeOK
<1>10. ASSUME NEW r \in Runners, Take(r) PROVE LeasesDistinct'
  BY <1>10 DEF Take, FirstStage, Go, LeasesDistinct, TypeOK
<1>11. ASSUME NEW r \in Runners, Flush(r) PROVE LeasesDistinct'
  BY <1>11 DEF Flush, FirstStage, Go, LeasesDistinct, TypeOK
<1>12. ASSUME NEW r \in Runners, StreamEnds(r) PROVE LeasesDistinct'
  BY <1>12 DEF StreamEnds, Fault, CloseStream, FirstStage, Go, LeasesDistinct,
      TypeOK
<1>13. ASSUME NEW r \in Runners, Poll(r) PROVE LeasesDistinct'
  BY <1>13 DEF Poll, Stale, FirstStage, Go, LeasesDistinct, TypeOK
<1>14. ASSUME NEW r \in Runners,
             PullAborted(r) \/ ReadLost(r) \/ BatchLost(r) \/ CommitAborted(r) \/
             LoopFatal(r) \/ BatchFails(r) \/ Crash(r)
      PROVE  LeasesDistinct'
  BY <1>14 DEF PullAborted, Stale, EndRound, DropBatch, NoStates, CloseStream,
      Go, ReadLost, BatchLost, CommitAborted, LoopFatal, Fault, BatchFails,
      BatchPlaces, Crash, LeasesDistinct, TypeOK
<1>15. ASSUME NEW r \in Runners, NEW p \in Partitions, Load(r, p) PROVE LeasesDistinct'
  BY <1>15 DEF Load, BatchPartitions, LeasesDistinct, TypeOK
<1>16. ASSUME NEW r \in Runners, Loaded(r) PROVE LeasesDistinct'
  BY <1>16 DEF Loaded, BatchPartitions, Go, LeasesDistinct, TypeOK
<1>17. ASSUME NEW r \in Runners, Reduce(r) PROVE LeasesDistinct'
  BY <1>17 DEF Reduce, IsRun, Go, LeasesDistinct, TypeOK
<1>18. ASSUME NEW r \in Runners, Handle(r) PROVE LeasesDistinct'
  BY <1>18 DEF Handle, Go, LeasesDistinct, TypeOK
<1>19. ASSUME NEW r \in Runners, Commit(r) PROVE LeasesDistinct'
  BY <1>19 DEF Commit, Applied, Stale, Go, NoStates, LeasesDistinct, TypeOK
<1>20. ASSUME NEW r \in Runners, CommitUnanswered(r) PROVE LeasesDistinct'
  BY <1>20 DEF CommitUnanswered, Fault, EndRound, DropBatch, NoStates,
      CloseStream, Go, Applied, Stale, LeasesDistinct, TypeOK
<1>21. ASSUME NEW r \in Runners,
             Stop(r) \/ StopTimesOut(r)
      PROVE  LeasesDistinct'
  BY <1>21 DEF Stop, StopTimesOut, LeasesDistinct, TypeOK
<1>22. CASE Expire
  BY <1>22 DEF Expire, Renewed, LeasesDistinct, TypeOK
<1>23. CASE Revoke
  BY <1>23 DEF Revoke, Fault, Renewed, LeasesDistinct, TypeOK
<1>24. QED
  BY <1>1, <1>2, <1>3, <1>4, <1>5, <1>6, <1>7, <1>8, <1>9, <1>10, <1>11, <1>12,
     <1>13, <1>14, <1>15, <1>16, <1>17, <1>18, <1>19, <1>20, <1>21, <1>22, <1>23 DEF Next, RunSteps

\* A runner moves between places where it has no batch.
OutsideBatch(q) == pc[q] \notin BatchPlaces /\ pc'[q] \notin InStream

\* A step that leaves the batches alone keeps the positions.
LEMMA PositionsFrame ==
    ASSUME Positions, UNCHANGED <<at, taken, loaded>>,
           \A q \in Runners : pc'[q] = pc[q] \/ OutsideBatch(q)
    PROVE  Positions'
BY DEF Positions, OutsideBatch, InStream, BatchPlaces

\* Frames are taken after the events at hand, and a batch is dropped whole.
LEMMA PositionStep ==
    TypeOK /\ Positions /\ [Next]_vars => Positions'
<1> SUFFICES ASSUME TypeOK, Positions, [Next]_vars PROVE Positions'
  OBVIOUS
<1> USE DEF vars, readModel, server, leaseVars, stopVars, intake, batch
<1>1. CASE UNCHANGED vars
  BY RunnerAssumption, <1>1 DEF Positions, InStream, BatchPlaces, TypeOK
<1>2. ASSUME NEW r \in Runners,
             Start(r) \/ Registered(r) \/ RegisterEnds(r) \/ Ask(r) \/
             StandbyStops(r) \/ Refused(r) \/ AskFatal(r) \/ ReturnGrant(r)
      PROVE  Positions'
  <2>1. UNCHANGED <<at, taken, loaded>>
    BY <1>2 DEF Start, Registered, RegisterEnds, Ask, StandbyStops, Refused,
        AskFatal, ReturnGrant
  <2>2. ASSUME NEW q \in Runners PROVE pc'[q] = pc[q] \/ OutsideBatch(q)
    BY <1>2 DEF Start, Go, Registered, RegisterEnds, Ask, StandbyStops, Refused,
        AskFatal, ReturnGrant, OutsideBatch, InStream, BatchPlaces, TypeOK
  <2> QED
    BY <2>1, <2>2, PositionsFrame
<1>3. ASSUME NEW r \in Runners,
             Granted(r) \/ GrantLost(r) \/ KeepGrant(r) \/ StandBy(r) \/ Leave(r)
             \/ Release(r) \/ RenewAborted(r) \/ LoopEnds(r) \/ Unsupported(r) \/
             Stop(r) \/ StopTimesOut(r)
      PROVE  Positions'
  <2>1. UNCHANGED <<at, taken, loaded>>
    BY <1>3 DEF Granted, GrantLost, KeepGrant, StandBy, Leave, Release,
        RenewAborted, LoopEnds, Unsupported, Stop, StopTimesOut
  <2>2. ASSUME NEW q \in Runners PROVE pc'[q] = pc[q] \/ OutsideBatch(q)
    BY <1>3 DEF Granted, Go, GrantLost, KeepGrant, StandBy, Leave, Release,
        RenewAborted, LoopEnds, Unsupported, Stop, StopTimesOut, OutsideBatch,
        InStream, BatchPlaces, TypeOK
  <2> QED
    BY <2>1, <2>2, PositionsFrame
<1>4. ASSUME NEW r \in Runners, OpenStream(r) PROVE Positions'
  BY RunnerAssumption, <1>4 DEF OpenStream, Stale, Go, Positions, InStream,
      BatchPlaces, TypeOK
<1>5. ASSUME NEW r \in Runners, Take(r) PROVE Positions'
  BY RunnerAssumption, <1>5 DEF Take, FirstStage, Go, Positions, InStream,
      BatchPlaces, TypeOK
<1>6. ASSUME NEW r \in Runners, Flush(r) PROVE Positions'
  BY RunnerAssumption, <1>6 DEF Flush, FirstStage, Go, Positions, InStream,
      BatchPlaces, TypeOK
<1>7. ASSUME NEW r \in Runners, StreamEnds(r) PROVE Positions'
  BY RunnerAssumption, <1>7 DEF StreamEnds, Fault, CloseStream, FirstStage,
      Go, Positions, InStream, BatchPlaces, TypeOK
<1>8. ASSUME NEW r \in Runners, Poll(r) PROVE Positions'
  BY RunnerAssumption, <1>8 DEF Poll, Stale, FirstStage, Go, Positions,
      InStream, BatchPlaces, TypeOK
<1>9. ASSUME NEW r \in Runners,
             PullAborted(r) \/ ReadLost(r) \/ BatchLost(r) \/ CommitAborted(r) \/
             LoopFatal(r) \/ BatchFails(r) \/ Crash(r)
      PROVE  Positions'
  <2>1. RoundOver(r)
    BY <1>9 DEF RoundOver
  <2>2. PICK place \in {"fenced", "leaving", "open", "dead"} : EndRound(r, place)
    BY <2>1, RoundEnds
  <2>3. UNCHANGED <<readModel, server, lease, lost>>
    BY <2>1, RoundEnds
  <2> QED
    BY <2>2, <2>3 DEF EndRound, DropBatch, CloseStream, Go, Positions, InStream, BatchPlaces, TypeOK
<1>10. ASSUME NEW r \in Runners, NEW p \in Partitions, Load(r, p) PROVE Positions'
  BY RunnerAssumption, <1>10 DEF Load, BatchPartitions, Positions, InStream,
      BatchPlaces, TypeOK
<1>11. ASSUME NEW r \in Runners, Loaded(r) PROVE Positions'
  BY RunnerAssumption, <1>11 DEF Loaded, BatchPartitions, Go, Positions,
      InStream, BatchPlaces, TypeOK
<1>12. ASSUME NEW r \in Runners, Reduce(r) PROVE Positions'
  BY RunnerAssumption, <1>12 DEF Reduce, IsRun, Go, Positions, InStream,
      BatchPlaces, TypeOK
<1>13. ASSUME NEW r \in Runners, Handle(r) PROVE Positions'
  BY RunnerAssumption, <1>13 DEF Handle, Go, Positions, InStream, BatchPlaces,
      TypeOK
<1>14. ASSUME NEW r \in Runners, Commit(r) PROVE Positions'
  BY SMTT(40), RunnerAssumption, <1>14 DEF Commit, Applied, Stale, Go, NoStates,
      Positions, InStream, BatchPlaces, TypeOK
<1>15. ASSUME NEW r \in Runners, CommitUnanswered(r) PROVE Positions'
  BY RunnerAssumption, <1>15 DEF CommitUnanswered, Fault, EndRound, DropBatch,
      NoStates, CloseStream, Go, Applied, Stale, Positions, InStream, BatchPlaces,
      TypeOK
<1>16. CASE Expire
  BY RunnerAssumption, <1>16 DEF Expire, Renewed, Positions, InStream,
      BatchPlaces, TypeOK
<1>17. CASE Revoke
  BY RunnerAssumption, <1>17 DEF Revoke, Fault, Renewed, Positions, InStream,
      BatchPlaces, TypeOK
<1>18. QED
  BY <1>1, <1>2, <1>3, <1>4, <1>5, <1>6, <1>7, <1>8, <1>9, <1>10, <1>11, <1>12,
     <1>13, <1>14, <1>15, <1>16, <1>17 DEF Next, RunSteps

\* Only a lost lease ends the renewals of a runner that pulls.
LEMMA RenewStep ==
    TypeOK /\ RenewsWhilePulling /\ [Next]_vars => RenewsWhilePulling'
<1> SUFFICES ASSUME TypeOK, RenewsWhilePulling, [Next]_vars PROVE RenewsWhilePulling'
  OBVIOUS
<1> USE DEF vars, readModel, server, leaseVars, stopVars, intake, batch
<1>1. CASE UNCHANGED vars
  BY <1>1 DEF RenewsWhilePulling, InStream, BatchPlaces, TypeOK
<1>2. ASSUME NEW r \in Runners,
             Start(r) \/ Registered(r) \/ RegisterEnds(r) \/ Ask(r) \/
             StandbyStops(r) \/ Refused(r) \/ AskFatal(r) \/ ReturnGrant(r)
      PROVE  RenewsWhilePulling'
  BY <1>2 DEF Start, Go, Registered, RegisterEnds, Fault, Ask, StandbyStops,
      Refused, AskFatal, ReturnGrant, RenewsWhilePulling, InStream, BatchPlaces,
      TypeOK
<1>3. ASSUME NEW r \in Runners, Granted(r) PROVE RenewsWhilePulling'
  BY <1>3 DEF Granted, Go, RenewsWhilePulling, InStream, BatchPlaces, TypeOK
<1>4. ASSUME NEW r \in Runners, GrantLost(r) PROVE RenewsWhilePulling'
  BY <1>4 DEF GrantLost, Fault, Go, RenewsWhilePulling, InStream, BatchPlaces,
      TypeOK
<1>5. ASSUME NEW r \in Runners, KeepGrant(r) PROVE RenewsWhilePulling'
  BY <1>5 DEF KeepGrant, Go, RenewsWhilePulling, InStream, BatchPlaces, TypeOK
<1>6. ASSUME NEW r \in Runners, StandBy(r) PROVE RenewsWhilePulling'
  BY <1>6 DEF StandBy, Go, RenewsWhilePulling, InStream, BatchPlaces, TypeOK
<1>7. ASSUME NEW r \in Runners, Leave(r) PROVE RenewsWhilePulling'
  BY <1>7 DEF Leave, Go, RenewsWhilePulling, InStream, BatchPlaces, TypeOK
<1>8. ASSUME NEW r \in Runners, Release(r) PROVE RenewsWhilePulling'
  BY <1>8 DEF Release, Fault, Go, RenewsWhilePulling, InStream, BatchPlaces,
      TypeOK
<1>9. ASSUME NEW r \in Runners, RenewAborted(r) PROVE RenewsWhilePulling'
  BY <1>9 DEF RenewAborted, Stale, RenewsWhilePulling, InStream, BatchPlaces,
      TypeOK
<1>10. ASSUME NEW r \in Runners, LoopEnds(r) PROVE RenewsWhilePulling'
  BY <1>10 DEF LoopEnds, Go, RenewsWhilePulling, InStream, BatchPlaces, TypeOK
<1>11. ASSUME NEW r \in Runners, OpenStream(r) PROVE RenewsWhilePulling'
  BY <1>11 DEF OpenStream, Stale, Go, RenewsWhilePulling, InStream,
      BatchPlaces, TypeOK
<1>12. ASSUME NEW r \in Runners, Unsupported(r) PROVE RenewsWhilePulling'
  BY <1>12 DEF Unsupported, RenewsWhilePulling, InStream, BatchPlaces, TypeOK
<1>13. ASSUME NEW r \in Runners, Take(r) PROVE RenewsWhilePulling'
  BY <1>13 DEF Take, FirstStage, Go, RenewsWhilePulling, InStream,
      BatchPlaces, TypeOK
<1>14. ASSUME NEW r \in Runners, Flush(r) PROVE RenewsWhilePulling'
  BY <1>14 DEF Flush, FirstStage, Go, RenewsWhilePulling, InStream,
      BatchPlaces, TypeOK
<1>15. ASSUME NEW r \in Runners, StreamEnds(r) PROVE RenewsWhilePulling'
  BY <1>15 DEF StreamEnds, Fault, CloseStream, FirstStage, Go,
      RenewsWhilePulling, InStream, BatchPlaces, TypeOK
<1>16. ASSUME NEW r \in Runners, Poll(r) PROVE RenewsWhilePulling'
  BY <1>16 DEF Poll, Stale, FirstStage, Go, RenewsWhilePulling, InStream,
      BatchPlaces, TypeOK
<1>17. ASSUME NEW r \in Runners,
             PullAborted(r) \/ ReadLost(r) \/ BatchLost(r) \/ CommitAborted(r) \/
             LoopFatal(r) \/ BatchFails(r) \/ Crash(r)
      PROVE  RenewsWhilePulling'
  BY <1>17 DEF PullAborted, Stale, EndRound, DropBatch, NoStates, CloseStream,
      Go, ReadLost, BatchLost, CommitAborted, LoopFatal, Fault, BatchFails,
      BatchPlaces, Crash, RenewsWhilePulling, InStream, TypeOK
<1>18. ASSUME NEW r \in Runners, NEW p \in Partitions, Load(r, p) PROVE RenewsWhilePulling'
  BY <1>18 DEF Load, BatchPartitions, RenewsWhilePulling, InStream,
      BatchPlaces, TypeOK
<1>19. ASSUME NEW r \in Runners, Loaded(r) PROVE RenewsWhilePulling'
  BY <1>19 DEF Loaded, BatchPartitions, Go, RenewsWhilePulling, InStream,
      BatchPlaces, TypeOK
<1>20. ASSUME NEW r \in Runners, Reduce(r) PROVE RenewsWhilePulling'
  BY <1>20 DEF Reduce, IsRun, Go, RenewsWhilePulling, InStream, BatchPlaces,
      TypeOK
<1>21. ASSUME NEW r \in Runners, Handle(r) PROVE RenewsWhilePulling'
  BY <1>21 DEF Handle, Go, RenewsWhilePulling, InStream, BatchPlaces, TypeOK
<1>22. ASSUME NEW r \in Runners, Commit(r) PROVE RenewsWhilePulling'
  BY <1>22 DEF Commit, Applied, Stale, Go, NoStates, RenewsWhilePulling,
      InStream, BatchPlaces, TypeOK
<1>23. ASSUME NEW r \in Runners, CommitUnanswered(r) PROVE RenewsWhilePulling'
  BY <1>23 DEF CommitUnanswered, Fault, EndRound, DropBatch, NoStates,
      CloseStream, Go, Applied, Stale, RenewsWhilePulling, InStream, BatchPlaces,
      TypeOK
<1>24. ASSUME NEW r \in Runners,
             Stop(r) \/ StopTimesOut(r)
      PROVE  RenewsWhilePulling'
  BY <1>24 DEF Stop, StopTimesOut, RenewsWhilePulling, InStream, BatchPlaces,
      TypeOK
<1>25. CASE Expire
  BY <1>25 DEF Expire, Renewed, RenewsWhilePulling, InStream, BatchPlaces,
      TypeOK
<1>26. CASE Revoke
  BY <1>26 DEF Revoke, Fault, Renewed, RenewsWhilePulling, InStream,
      BatchPlaces, TypeOK
<1>27. QED
  BY <1>1, <1>2, <1>3, <1>4, <1>5, <1>6, <1>7, <1>8, <1>9, <1>10, <1>11, <1>12,
     <1>13, <1>14, <1>15, <1>16, <1>17, <1>18, <1>19, <1>20, <1>21, <1>22, <1>23,
     <1>24, <1>25, <1>26 DEF Next, RunSteps

\* The cursor and every runner stay behind the handler: a stream opens at the
\* cursor and an event is handled before the next one.
LEMMA HandledStep ==
    TypeOK /\ Positions /\ HandledSoFar /\ [Next]_vars => HandledSoFar'
<1> SUFFICES ASSUME TypeOK, Positions, HandledSoFar, [Next]_vars PROVE HandledSoFar'
  OBVIOUS
<1> USE DEF vars, readModel, server, leaseVars, stopVars, intake, batch
<1>1. CASE UNCHANGED vars
  BY <1>1 DEF HandledSoFar, InStream, BatchPlaces, TypeOK
<1>2. ASSUME NEW r \in Runners,
             Start(r) \/ Registered(r) \/ RegisterEnds(r) \/ Ask(r) \/
             StandbyStops(r) \/ Refused(r) \/ AskFatal(r) \/ ReturnGrant(r)
      PROVE  HandledSoFar'
  BY <1>2 DEF Start, Go, Registered, RegisterEnds, Fault, Ask, StandbyStops,
      Refused, AskFatal, ReturnGrant, HandledSoFar, InStream, BatchPlaces, TypeOK
<1>3. ASSUME NEW r \in Runners,
             Granted(r) \/ GrantLost(r) \/ KeepGrant(r) \/ StandBy(r) \/ Leave(r)
             \/ Release(r) \/ RenewAborted(r) \/ LoopEnds(r) \/ Unsupported(r) \/
             Stop(r) \/ StopTimesOut(r)
      PROVE  HandledSoFar'
  BY <1>3 DEF Granted, Go, GrantLost, Fault, KeepGrant, StandBy, Leave,
      Release, RenewAborted, Stale, LoopEnds, Unsupported, Stop, StopTimesOut,
      HandledSoFar, InStream, BatchPlaces, TypeOK
<1>4. ASSUME NEW r \in Runners, OpenStream(r) PROVE HandledSoFar'
  BY <1>4 DEF OpenStream, Stale, Go, HandledSoFar, InStream, BatchPlaces,
      TypeOK
<1>5. ASSUME NEW r \in Runners, Take(r) PROVE HandledSoFar'
  BY <1>5 DEF Take, FirstStage, Go, HandledSoFar, InStream, BatchPlaces,
      TypeOK
<1>6. ASSUME NEW r \in Runners, Flush(r) PROVE HandledSoFar'
  BY <1>6 DEF Flush, FirstStage, Go, HandledSoFar, InStream, BatchPlaces,
      TypeOK
<1>7. ASSUME NEW r \in Runners, StreamEnds(r) PROVE HandledSoFar'
  BY <1>7 DEF StreamEnds, Fault, CloseStream, FirstStage, Go, HandledSoFar,
      InStream, BatchPlaces, TypeOK
<1>8. ASSUME NEW r \in Runners, Poll(r) PROVE HandledSoFar'
  BY <1>8 DEF Poll, Stale, FirstStage, Go, HandledSoFar, InStream,
      BatchPlaces, TypeOK
<1>9. ASSUME NEW r \in Runners,
             PullAborted(r) \/ ReadLost(r) \/ BatchLost(r) \/ CommitAborted(r) \/
             LoopFatal(r) \/ BatchFails(r) \/ Crash(r)
      PROVE  HandledSoFar'
  <2>1. RoundOver(r)
    BY <1>9 DEF RoundOver
  <2>2. PICK place \in {"fenced", "leaving", "open", "dead"} : EndRound(r, place)
    BY <2>1, RoundEnds
  <2>3. UNCHANGED <<readModel, server, lease, lost>>
    BY <2>1, RoundEnds
  <2> QED
    BY <2>2, <2>3 DEF EndRound, DropBatch, CloseStream, Go, HandledSoFar, InStream, BatchPlaces, TypeOK
<1>10. ASSUME NEW r \in Runners, NEW p \in Partitions, Load(r, p) PROVE HandledSoFar'
  BY <1>10 DEF Load, BatchPartitions, HandledSoFar, InStream, BatchPlaces,
      TypeOK
<1>11. ASSUME NEW r \in Runners, Loaded(r) PROVE HandledSoFar'
  BY <1>11 DEF Loaded, BatchPartitions, Go, HandledSoFar, InStream,
      BatchPlaces, TypeOK
<1>12. ASSUME NEW r \in Runners, Reduce(r) PROVE HandledSoFar'
  BY <1>12 DEF Reduce, IsRun, Go, HandledSoFar, InStream, BatchPlaces, TypeOK
<1>13. ASSUME NEW r \in Runners, Handle(r) PROVE HandledSoFar'
  BY <1>13 DEF Handle, Go, HandledSoFar, InStream, BatchPlaces, TypeOK
<1>14. ASSUME NEW r \in Runners, Commit(r) PROVE HandledSoFar'
  BY <1>14 DEF Commit, Applied, Stale, Go, NoStates, HandledSoFar, InStream,
      BatchPlaces, TypeOK
<1>15. ASSUME NEW r \in Runners, CommitUnanswered(r) PROVE HandledSoFar'
  BY <1>15 DEF CommitUnanswered, Fault, EndRound, DropBatch, NoStates,
      CloseStream, Go, Applied, Stale, HandledSoFar, InStream, BatchPlaces, TypeOK
<1>16. CASE Expire
  BY <1>16 DEF Expire, Renewed, HandledSoFar, InStream, BatchPlaces, TypeOK
<1>17. CASE Revoke
  BY <1>17 DEF Revoke, Fault, Renewed, HandledSoFar, InStream, BatchPlaces,
      TypeOK
<1>18. QED
  BY <1>1, <1>2, <1>3, <1>4, <1>5, <1>6, <1>7, <1>8, <1>9, <1>10, <1>11, <1>12,
     <1>13, <1>14, <1>15, <1>16, <1>17 DEF Next, RunSteps

\* While one runner is not fenced every other one is.
LEMMA OthersFenced ==
    ASSUME TypeOK, LeasesDistinct, NEW r \in Runners, NEW q \in Runners, q # r, ~Stale(r),
           UNCHANGED <<server, lease>>
    PROVE  Stale(q)'
BY DEF TypeOK, LeasesDistinct, Stale, server

\* The cursor moves only by the runner that is not fenced, to where it is.
LEMMA AheadStep ==
    TypeOK /\ LeasesDistinct /\ HolderAhead /\ [Next]_vars => HolderAhead'
<1> SUFFICES ASSUME TypeOK, LeasesDistinct, HolderAhead, [Next]_vars PROVE HolderAhead'
  OBVIOUS
<1> USE DEF vars, readModel, server, leaseVars, stopVars, intake, batch
<1>1. CASE UNCHANGED vars
  BY <1>1 DEF HolderAhead, Stale, InStream, BatchPlaces, TypeOK,
      LeasesDistinct
<1>2. ASSUME NEW r \in Runners,
             Start(r) \/ Registered(r) \/ RegisterEnds(r) \/ Ask(r) \/
             StandbyStops(r) \/ Refused(r) \/ AskFatal(r) \/ ReturnGrant(r)
      PROVE  HolderAhead'
  BY <1>2 DEF Start, Go, Registered, RegisterEnds, Fault, Ask, StandbyStops,
      Refused, AskFatal, ReturnGrant, HolderAhead, Stale, InStream, BatchPlaces,
      TypeOK, LeasesDistinct
<1>3. ASSUME NEW r \in Runners, Granted(r) PROVE HolderAhead'
  BY <1>3 DEF Granted, Go, HolderAhead, Stale, InStream, BatchPlaces, TypeOK,
      LeasesDistinct
<1>4. ASSUME NEW r \in Runners, GrantLost(r) PROVE HolderAhead'
  BY <1>4 DEF GrantLost, Fault, Go, HolderAhead, Stale, InStream, BatchPlaces,
      TypeOK, LeasesDistinct
<1>5. ASSUME NEW r \in Runners,
             KeepGrant(r) \/ Leave(r) \/ RenewAborted(r) \/ LoopEnds(r) \/
             Unsupported(r) \/ Stop(r) \/ StopTimesOut(r)
      PROVE  HolderAhead'
  BY <1>5 DEF KeepGrant, Go, Leave, RenewAborted, Stale, LoopEnds,
      Unsupported, Stop, StopTimesOut, HolderAhead, InStream, BatchPlaces, TypeOK,
      LeasesDistinct
<1>6. ASSUME NEW r \in Runners, StandBy(r) PROVE HolderAhead'
  BY <1>6 DEF StandBy, Go, HolderAhead, Stale, InStream, BatchPlaces, TypeOK,
      LeasesDistinct
<1>7. ASSUME NEW r \in Runners, Release(r) PROVE HolderAhead'
  BY <1>7 DEF Release, Fault, Go, HolderAhead, Stale, InStream, BatchPlaces,
      TypeOK, LeasesDistinct
<1>8. ASSUME NEW r \in Runners, OpenStream(r) PROVE HolderAhead'
  BY <1>8 DEF OpenStream, Stale, Go, HolderAhead, InStream, BatchPlaces,
      TypeOK, LeasesDistinct
<1>9. ASSUME NEW r \in Runners, Take(r) PROVE HolderAhead'
  BY <1>9 DEF Take, FirstStage, Go, HolderAhead, Stale, InStream, BatchPlaces,
      TypeOK, LeasesDistinct
<1>10. ASSUME NEW r \in Runners, Flush(r) PROVE HolderAhead'
  BY <1>10 DEF Flush, FirstStage, Go, HolderAhead, Stale, InStream,
      BatchPlaces, TypeOK, LeasesDistinct
<1>11. ASSUME NEW r \in Runners, StreamEnds(r) PROVE HolderAhead'
  BY <1>11 DEF StreamEnds, Fault, CloseStream, FirstStage, Go, HolderAhead,
      Stale, InStream, BatchPlaces, TypeOK, LeasesDistinct
<1>12. ASSUME NEW r \in Runners, Poll(r) PROVE HolderAhead'
  BY <1>12 DEF Poll, Stale, FirstStage, Go, HolderAhead, InStream,
      BatchPlaces, TypeOK, LeasesDistinct
<1>13. ASSUME NEW r \in Runners,
             PullAborted(r) \/ ReadLost(r) \/ BatchLost(r) \/ CommitAborted(r) \/
             LoopFatal(r) \/ BatchFails(r) \/ Crash(r)
      PROVE  HolderAhead'
  <2>1. RoundOver(r)
    BY <1>13 DEF RoundOver
  <2>2. PICK place \in {"fenced", "leaving", "open", "dead"} : EndRound(r, place)
    BY <2>1, RoundEnds
  <2>3. UNCHANGED <<readModel, server, lease, lost>>
    BY <2>1, RoundEnds
  <2> QED
    BY <2>2, <2>3 DEF EndRound, DropBatch, CloseStream, Go, HolderAhead, Stale, InStream, BatchPlaces, TypeOK, LeasesDistinct
<1>14. ASSUME NEW r \in Runners, NEW p \in Partitions, Load(r, p) PROVE HolderAhead'
  BY <1>14 DEF Load, BatchPartitions, HolderAhead, Stale, InStream,
      BatchPlaces, TypeOK, LeasesDistinct
<1>15. ASSUME NEW r \in Runners, Loaded(r) PROVE HolderAhead'
  BY <1>15 DEF Loaded, BatchPartitions, Go, HolderAhead, Stale, InStream,
      BatchPlaces, TypeOK, LeasesDistinct
<1>16. ASSUME NEW r \in Runners, Reduce(r) PROVE HolderAhead'
  BY <1>16 DEF Reduce, IsRun, Go, HolderAhead, Stale, InStream, BatchPlaces,
      TypeOK, LeasesDistinct
<1>17. ASSUME NEW r \in Runners, Handle(r) PROVE HolderAhead'
  BY <1>17 DEF Handle, Go, HolderAhead, Stale, InStream, BatchPlaces, TypeOK,
      LeasesDistinct
<1>18. ASSUME NEW r \in Runners, Commit(r) PROVE HolderAhead'
  <2> SUFFICES ASSUME NEW q \in Runners, mode' = "external", ~Stale(q)'
               PROVE  /\ pc'[q] \in InStream => cursor' <= at'[q]
                      /\ pc'[q] = "committing" => cursor' < at'[q]
    BY DEF HolderAhead
  <2>1. ~Stale(r) /\ UNCHANGED <<server, lease>>
    BY <1>18 DEF Commit, Applied
  <2>2. q = r
    BY <2>1, OthersFenced
  <2> QED
    BY <2>2, <1>18 DEF Commit, Applied, Go, TypeOK
<1>19. ASSUME NEW r \in Runners, CommitUnanswered(r) PROVE HolderAhead'
  BY <1>19 DEF CommitUnanswered, Fault, EndRound, DropBatch, NoStates,
      CloseStream, Go, Applied, Stale, HolderAhead, InStream, BatchPlaces, TypeOK,
      LeasesDistinct
<1>20. CASE Expire
  BY <1>20 DEF Expire, Renewed, HolderAhead, Stale, InStream, BatchPlaces,
      TypeOK, LeasesDistinct
<1>21. CASE Revoke
  BY <1>21 DEF Revoke, Fault, Renewed, HolderAhead, Stale, InStream,
      BatchPlaces, TypeOK, LeasesDistinct
<1>22. QED
  BY <1>1, <1>2, <1>3, <1>4, <1>5, <1>6, <1>7, <1>8, <1>9, <1>10, <1>11, <1>12,
     <1>13, <1>14, <1>15, <1>16, <1>17, <1>18, <1>19, <1>20, <1>21 DEF Next, RunSteps

\* Whoever is outside a stream, or fenced, has nothing to be in step with.
LEMMA OutOfStream ==
    ASSUME NEW q \in Runners, pc'[q] \notin InStream PROVE InStep(q)'
BY DEF InStep, InStream, BatchPlaces

\* The same for a fenced runner.
LEMMA FencedInStep ==
    ASSUME NEW q \in Runners, Stale(q)' PROVE InStep(q)'
BY DEF InStep

\* A runner stays in step while it and the server stay where they are.
LEMMA InStepFrame ==
    ASSUME NEW q \in Runners, InStep(q), UNCHANGED <<mode, cursor, saved>>,
           Stale(q) => Stale(q)',
           pc'[q] = pc[q], at'[q] = at[q], taken'[q] = taken[q],
           states'[q] = states[q], loaded'[q] = loaded[q]
    PROVE  InStep(q)'
BY DEF InStep, BatchPartitions, OnePartition

\* The runner that is not fenced stays in step with the server: what it loaded is
\* what is saved, because nobody else can save while its epoch is live.
LEMMA HolderStep ==
    TypeOK /\ LeasesDistinct /\ Positions /\ HolderInStep /\ [Next]_vars => HolderInStep'
<1> SUFFICES ASSUME TypeOK, LeasesDistinct, Positions, HolderInStep, [Next]_vars PROVE HolderInStep'
  OBVIOUS
<1> USE DEF vars, readModel, server, leaseVars, stopVars, intake, batch
<1> SUFFICES ASSUME NEW q \in Runners PROVE InStep(q)'
  BY DEF HolderInStep
<1>0. InStep(q)
  BY DEF HolderInStep
<1>1. CASE UNCHANGED vars
  BY <1>0, <1>1 DEF InStep, Stale, BatchPartitions, OnePartition
<1>2. ASSUME NEW r \in Runners,
             Start(r) \/ Registered(r) \/ RegisterEnds(r) \/ Ask(r) \/
             StandbyStops(r) \/ Refused(r) \/ AskFatal(r) \/ ReturnGrant(r)
      PROVE  InStep(q)'
  <2>1. CASE pc'[q] \notin InStream
    BY <2>1, OutOfStream
  <2>2. CASE pc'[q] \in InStream
    <3>1. /\ pc'[q] = pc[q] /\ at'[q] = at[q] /\ taken'[q] = taken[q]
          /\ states'[q] = states[q] /\ loaded'[q] = loaded[q]
          /\ UNCHANGED <<mode, cursor, saved>> /\ (Stale(q) => Stale(q)')
      BY <1>2, <2>2 DEF Start, Go, Registered, RegisterEnds, Fault, Ask,
          StandbyStops, Refused, AskFatal, ReturnGrant, InStream, BatchPlaces,
          Stale, TypeOK, LeasesDistinct
    <3> QED
      BY <1>0, <3>1, InStepFrame
  <2> QED
    BY <2>1, <2>2
<1>3. ASSUME NEW r \in Runners, Granted(r) PROVE InStep(q)'
  <2>1. CASE pc'[q] \notin InStream
    BY <2>1, OutOfStream
  <2>2. CASE pc'[q] \in InStream
    <3>1. /\ pc'[q] = pc[q] /\ at'[q] = at[q] /\ taken'[q] = taken[q]
          /\ states'[q] = states[q] /\ loaded'[q] = loaded[q]
          /\ UNCHANGED <<mode, cursor, saved>> /\ (Stale(q) => Stale(q)')
      BY <1>3, <2>2 DEF Granted, Go, InStream, BatchPlaces, Stale, TypeOK,
          LeasesDistinct
    <3> QED
      BY <1>0, <3>1, InStepFrame
  <2> QED
    BY <2>1, <2>2
<1>4. ASSUME NEW r \in Runners, GrantLost(r) PROVE InStep(q)'
  <2>1. CASE pc'[q] \notin InStream
    BY <2>1, OutOfStream
  <2>2. CASE pc'[q] \in InStream
    <3>1. /\ pc'[q] = pc[q] /\ at'[q] = at[q] /\ taken'[q] = taken[q]
          /\ states'[q] = states[q] /\ loaded'[q] = loaded[q]
          /\ UNCHANGED <<mode, cursor, saved>> /\ (Stale(q) => Stale(q)')
      BY <1>4, <2>2 DEF GrantLost, Fault, Go, InStream, BatchPlaces, Stale,
          TypeOK, LeasesDistinct
    <3> QED
      BY <1>0, <3>1, InStepFrame
  <2> QED
    BY <2>1, <2>2
<1>5. ASSUME NEW r \in Runners,
             KeepGrant(r) \/ Leave(r) \/ RenewAborted(r) \/ LoopEnds(r) \/
             Unsupported(r) \/ Stop(r) \/ StopTimesOut(r)
      PROVE  InStep(q)'
  <2>1. CASE pc'[q] \notin InStream
    BY <2>1, OutOfStream
  <2>2. CASE pc'[q] \in InStream
    <3>1. /\ pc'[q] = pc[q] /\ at'[q] = at[q] /\ taken'[q] = taken[q]
          /\ states'[q] = states[q] /\ loaded'[q] = loaded[q]
          /\ UNCHANGED <<mode, cursor, saved>> /\ (Stale(q) => Stale(q)')
      BY <1>5, <2>2 DEF KeepGrant, Go, Leave, RenewAborted, Stale, LoopEnds,
          Unsupported, Stop, StopTimesOut, InStream, BatchPlaces, TypeOK,
          LeasesDistinct
    <3> QED
      BY <1>0, <3>1, InStepFrame
  <2> QED
    BY <2>1, <2>2
<1>6. ASSUME NEW r \in Runners, StandBy(r) PROVE InStep(q)'
  <2>1. CASE pc'[q] \notin InStream
    BY <2>1, OutOfStream
  <2>2. CASE pc'[q] \in InStream
    <3>1. /\ pc'[q] = pc[q] /\ at'[q] = at[q] /\ taken'[q] = taken[q]
          /\ states'[q] = states[q] /\ loaded'[q] = loaded[q]
          /\ UNCHANGED <<mode, cursor, saved>> /\ (Stale(q) => Stale(q)')
      BY <1>6, <2>2 DEF StandBy, Go, InStream, BatchPlaces, Stale, TypeOK,
          LeasesDistinct
    <3> QED
      BY <1>0, <3>1, InStepFrame
  <2> QED
    BY <2>1, <2>2
<1>7. ASSUME NEW r \in Runners, Release(r) PROVE InStep(q)'
  <2>1. CASE pc'[q] \notin InStream
    BY <2>1, OutOfStream
  <2>2. CASE pc'[q] \in InStream
    <3>1. /\ pc'[q] = pc[q] /\ at'[q] = at[q] /\ taken'[q] = taken[q]
          /\ states'[q] = states[q] /\ loaded'[q] = loaded[q]
          /\ UNCHANGED <<mode, cursor, saved>> /\ (Stale(q) => Stale(q)')
      BY <1>7, <2>2 DEF Release, Fault, Go, InStream, BatchPlaces, Stale,
          TypeOK, LeasesDistinct
    <3> QED
      BY <1>0, <3>1, InStepFrame
  <2> QED
    BY <2>1, <2>2
<1>8. ASSUME NEW r \in Runners, OpenStream(r) PROVE InStep(q)'
  <2>1. CASE q # r
    <3>1. /\ pc'[q] = pc[q] /\ at'[q] = at[q] /\ taken'[q] = taken[q]
          /\ states'[q] = states[q] /\ loaded'[q] = loaded[q]
          /\ UNCHANGED <<mode, cursor, saved>> /\ (Stale(q) => Stale(q)')
      BY <1>8, <2>1 DEF OpenStream, Stale, Go, TypeOK
    <3> QED
      BY <1>0, <3>1, InStepFrame
  <2>2. CASE q = r
    BY <1>0, <1>8, <2>2, LogAssumption DEF OpenStream, Stale, Go, InStep,
        InStream, BatchPlaces, BatchPartitions, OnePartition, TypeOK,
        LeasesDistinct, Positions
  <2> QED
    BY <2>1, <2>2
<1>9. ASSUME NEW r \in Runners, Take(r) PROVE InStep(q)'
  <2>1. CASE q # r
    <3>1. /\ pc'[q] = pc[q] /\ at'[q] = at[q] /\ taken'[q] = taken[q]
          /\ states'[q] = states[q] /\ loaded'[q] = loaded[q]
          /\ UNCHANGED <<mode, cursor, saved>> /\ (Stale(q) => Stale(q)')
      BY <1>9, <2>1 DEF Take, FirstStage, Go, Stale, TypeOK
    <3> QED
      BY <1>0, <3>1, InStepFrame
  <2>2. CASE q = r
    BY <1>0, <1>9, <2>2, LogAssumption DEF Take, FirstStage, Go, InStep, Stale,
        InStream, BatchPlaces, BatchPartitions, OnePartition, TypeOK,
        LeasesDistinct, Positions
  <2> QED
    BY <2>1, <2>2
<1>10. ASSUME NEW r \in Runners, Flush(r) PROVE InStep(q)'
  <2>1. CASE q # r
    <3>1. /\ pc'[q] = pc[q] /\ at'[q] = at[q] /\ taken'[q] = taken[q]
          /\ states'[q] = states[q] /\ loaded'[q] = loaded[q]
          /\ UNCHANGED <<mode, cursor, saved>> /\ (Stale(q) => Stale(q)')
      BY <1>10, <2>1 DEF Flush, FirstStage, Go, Stale, TypeOK
    <3> QED
      BY <1>0, <3>1, InStepFrame
  <2>2. CASE q = r
    BY <1>0, <1>10, <2>2, LogAssumption DEF Flush, FirstStage, Go, InStep, Stale,
        InStream, BatchPlaces, BatchPartitions, OnePartition, TypeOK,
        LeasesDistinct, Positions
  <2> QED
    BY <2>1, <2>2
<1>11. ASSUME NEW r \in Runners, StreamEnds(r) PROVE InStep(q)'
  <2>1. CASE q # r
    <3>1. /\ pc'[q] = pc[q] /\ at'[q] = at[q] /\ taken'[q] = taken[q]
          /\ states'[q] = states[q] /\ loaded'[q] = loaded[q]
          /\ UNCHANGED <<mode, cursor, saved>> /\ (Stale(q) => Stale(q)')
      BY <1>11, <2>1 DEF StreamEnds, Fault, CloseStream, FirstStage, Go, Stale,
          TypeOK
    <3> QED
      BY <1>0, <3>1, InStepFrame
  <2>2. CASE q = r
    BY <1>0, <1>11, <2>2, LogAssumption DEF StreamEnds, Fault, CloseStream,
        FirstStage, Go, InStep, Stale, InStream, BatchPlaces, BatchPartitions,
        OnePartition, TypeOK, LeasesDistinct, Positions
  <2> QED
    BY <2>1, <2>2
<1>12. ASSUME NEW r \in Runners, Poll(r) PROVE InStep(q)'
  <2>1. CASE q # r
    <3>1. /\ pc'[q] = pc[q] /\ at'[q] = at[q] /\ taken'[q] = taken[q]
          /\ states'[q] = states[q] /\ loaded'[q] = loaded[q]
          /\ UNCHANGED <<mode, cursor, saved>> /\ (Stale(q) => Stale(q)')
      BY <1>12, <2>1 DEF Poll, Stale, FirstStage, Go, TypeOK
    <3> QED
      BY <1>0, <3>1, InStepFrame
  <2>2. CASE q = r
    <3>1. /\ at'[r] = cursor /\ UNCHANGED <<mode, cursor, saved>>
          /\ loaded'[r] = {Global} /\ states'[r][Global] = saved[Global]
      BY <1>12, RunnerAssumption DEF Poll, TypeOK
    <3>2. mode = "managed" => pc'[r] = "loading"
      BY <1>12 DEF Poll, Go, FirstStage, TypeOK
    <3> QED
      BY <2>2, <3>1, <3>2 DEF InStep, InStream, BatchPlaces
  <2> QED
    BY <2>1, <2>2
<1>13. ASSUME NEW r \in Runners,
             PullAborted(r) \/ ReadLost(r) \/ BatchLost(r) \/ CommitAborted(r) \/
             LoopFatal(r) \/ BatchFails(r) \/ Crash(r)
      PROVE  InStep(q)'
  <2>1. RoundOver(r)
    BY <1>13 DEF RoundOver
  <2>2. PICK place \in {"fenced", "leaving", "open", "dead"} : EndRound(r, place)
    BY <2>1, RoundEnds
  <2>3. UNCHANGED <<readModel, server, lease, lost>>
    BY <2>1, RoundEnds
  <2>4. CASE q = r
    BY <2>2, <2>4, OutOfStream DEF EndRound, Go, InStream, BatchPlaces, TypeOK
  <2>5. CASE q # r
    BY <1>0, <2>2, <2>3, <2>5, InStepFrame DEF EndRound, DropBatch, Go, Stale, TypeOK
  <2> QED
    BY <2>4, <2>5
<1>14. ASSUME NEW r \in Runners, NEW p \in Partitions, Load(r, p) PROVE InStep(q)'
  <2>1. CASE q # r
    <3>1. /\ pc'[q] = pc[q] /\ at'[q] = at[q] /\ taken'[q] = taken[q]
          /\ states'[q] = states[q] /\ loaded'[q] = loaded[q]
          /\ UNCHANGED <<mode, cursor, saved>> /\ (Stale(q) => Stale(q)')
      BY <1>14, <2>1 DEF Load, BatchPartitions, Stale, TypeOK
    <3> QED
      BY <1>0, <3>1, InStepFrame
  <2>2. CASE q = r
    <3>1. /\ pc[r] = "loading" /\ pc'[r] = "loading" /\ at'[r] = at[r]
          /\ UNCHANGED <<mode, cursor, saved>> /\ (Stale(r) => Stale(r)')
          /\ states' = [states EXCEPT ![r][p] = saved[p]]
          /\ loaded' = [loaded EXCEPT ![r] = @ \cup {p}]
      BY <1>14 DEF Load, Stale
    <3>2. CASE Stale(r) \/ mode # "managed"
      BY <2>2, <3>1, <3>2 DEF InStep
    <3>3. CASE ~Stale(r) /\ mode = "managed"
      <4>1. at[r] = cursor /\ \A x \in loaded[r] : states[r][x] = saved[x]
        BY <1>0, <2>2, <3>1, <3>3 DEF InStep, InStream, BatchPlaces
      <4>2. \A x \in loaded'[r] : states'[r][x] = saved[x]
        BY <3>1, <4>1 DEF TypeOK
      <4> QED
        BY <2>2, <3>1, <4>1, <4>2 DEF InStep
    <3> QED
      BY <3>2, <3>3
  <2> QED
    BY <2>1, <2>2
<1>15. ASSUME NEW r \in Runners, Loaded(r) PROVE InStep(q)'
  <2>1. CASE q # r
    <3>1. /\ pc'[q] = pc[q] /\ at'[q] = at[q] /\ taken'[q] = taken[q]
          /\ states'[q] = states[q] /\ loaded'[q] = loaded[q]
          /\ UNCHANGED <<mode, cursor, saved>> /\ (Stale(q) => Stale(q)')
      BY <1>15, <2>1 DEF Loaded, BatchPartitions, Go, Stale, TypeOK
    <3> QED
      BY <1>0, <3>1, InStepFrame
  <2>2. CASE q = r
    BY <1>0, <1>15, <2>2, LogAssumption DEF Loaded, BatchPartitions, Go, InStep,
        Stale, InStream, BatchPlaces, OnePartition, TypeOK, LeasesDistinct,
        Positions
  <2> QED
    BY <2>1, <2>2
<1>16. ASSUME NEW r \in Runners, Reduce(r) PROVE InStep(q)'
  <2>1. CASE q # r
    <3>1. /\ pc'[q] = pc[q] /\ at'[q] = at[q] /\ taken'[q] = taken[q]
          /\ states'[q] = states[q] /\ loaded'[q] = loaded[q]
          /\ UNCHANGED <<mode, cursor, saved>> /\ (Stale(q) => Stale(q)')
      BY <1>16, <2>1 DEF Reduce, IsRun, Go, Stale, TypeOK
    <3> QED
      BY <1>0, <3>1, InStepFrame
  <2>2. CASE q = r
    <3> SUFFICES ASSUME ~Stale(r)' PROVE InStep(r)'
      BY <2>2, FencedInStep
    <3>1. /\ ~Stale(r) /\ mode = "managed" /\ pc'[r] = "committing"
          /\ UNCHANGED <<mode, cursor, saved, taken, loaded>>
      BY <1>16 DEF Reduce, Go, Stale, TypeOK
    <3>2. /\ at[r] = cursor /\ BatchPartitions(r) \subseteq loaded[r]
          /\ \A p \in loaded[r] : states[r][p] = saved[p]
      BY <1>0, <2>2, <3>1, <1>16 DEF Reduce, InStep, InStream, BatchPlaces
    <3>3. PICK e \in (at[r] + 1)..taken[r] :
            /\ IsRun(at[r], e, taken[r])
            /\ states' = [states EXCEPT ![r][PartitionOf[e]] = @ \o Span(at[r], e)]
            /\ at' = [at EXCEPT ![r] = e]
      BY <1>16 DEF Reduce
    <3>4. PartitionOf[e] \in loaded[r] /\ PartitionOf[e] \in Partitions /\ e \in 1..LastSeq
      BY <3>2, <3>3, LogAssumption DEF BatchPartitions, TypeOK
    <3>5. /\ at'[r] = e
          /\ states'[r][PartitionOf[e]] = saved[PartitionOf[e]] \o Span(cursor, e)
          /\ \A p \in loaded[r] \ {PartitionOf[e]} : states'[r][p] = saved[p]
      BY <3>2, <3>3, <3>4 DEF TypeOK
    <3>6. cursor < e /\ OnePartition(cursor, e)
      BY <3>2, <3>3 DEF IsRun, TypeOK
    <3>7. BatchPartitions(r)' \subseteq loaded[r]
      <4>1. taken'[r] = taken[r] /\ at[r] \in Nat /\ e \in Nat /\ at[r] < e
        BY <3>1, <3>3 DEF TypeOK
      <4>2. \A s : s \in (e + 1)..taken[r] => s \in (at[r] + 1)..taken[r]
        BY <4>1 DEF TypeOK
      <4>3. BatchPartitions(r)' \subseteq BatchPartitions(r)
        BY <3>5, <4>1, <4>2 DEF BatchPartitions
      <4> QED
        BY <3>2, <4>3
    <3> QED
      BY <3>1, <3>5, <3>6, <3>7 DEF InStep, InStream, BatchPlaces, OnePartition
  <2> QED
    BY <2>1, <2>2
<1>17. ASSUME NEW r \in Runners, Handle(r) PROVE InStep(q)'
  <2>1. mode' = "external"
    BY <1>17 DEF Handle
  <2> QED
    BY <2>1 DEF InStep
<1>18. ASSUME NEW r \in Runners, Commit(r) PROVE InStep(q)'
  <2>1. ~Stale(r) /\ UNCHANGED <<server, lease>>
    BY <1>18 DEF Commit, Applied
  <2>2. CASE q # r
    BY <2>1, <2>2, OthersFenced, FencedInStep
  <2>3. CASE q = r /\ mode = "managed"
    <3>1. /\ cursor' = at[r] /\ at'[r] = at[r] /\ taken'[r] = taken[r] /\ mode' = mode
          /\ pc[r] = "committing" /\ pc'[r] # "committing"
          /\ saved' = [saved EXCEPT ![PartitionOf[at[r]]] = states[r][PartitionOf[at[r]]]]
      BY <1>18, <2>3 DEF Commit, Applied, Go, TypeOK
    <3>2. /\ cursor < at[r] /\ BatchPartitions(r) \subseteq loaded[r]
          /\ \A p \in loaded[r] \ {PartitionOf[at[r]]} : states[r][p] = saved[p]
      BY <1>0, <2>1, <2>3, <3>1 DEF InStep
    <3>3. PartitionOf[at[r]] \in Partitions
      BY <3>2, LogAssumption DEF TypeOK
    <3>4. \A p \in loaded[r] : states[r][p] = saved'[p]
      BY <3>1, <3>2, <3>3 DEF TypeOK
    <3>5. CASE /\ pc'[r] = "reducing"
               /\ UNCHANGED <<states, loaded>>
      <4>1. BatchPartitions(r)' \subseteq loaded'[r]
        BY <3>1, <3>2, <3>5 DEF BatchPartitions
      <4> QED
        BY <2>3, <3>1, <3>4, <3>5, <4>1 DEF InStep, InStream, BatchPlaces
    <3>6. CASE pc'[r] \in {"reading", "open"} /\ loaded'[r] = {}
      BY <2>3, <3>1, <3>6 DEF InStep, InStream, BatchPlaces
    <3> QED
      BY <1>18, <3>5, <3>6 DEF Commit, Go, TypeOK
  <2>4. CASE q = r /\ mode = "external"
    BY <1>18, <2>4 DEF Commit, Applied, InStep
  <2> QED
    BY <2>2, <2>3, <2>4 DEF TypeOK
<1>19. ASSUME NEW r \in Runners, CommitUnanswered(r) PROVE InStep(q)'
  <2>1. ~Stale(r) /\ UNCHANGED <<server, lease>> /\ pc'[r] = "open"
    BY <1>19 DEF CommitUnanswered, Applied, EndRound, Go, TypeOK
  <2>2. CASE q # r
    BY <2>1, <2>2, OthersFenced, FencedInStep
  <2>3. CASE q = r
    BY <2>1, <2>3, OutOfStream DEF InStream, BatchPlaces
  <2> QED
    BY <2>2, <2>3
<1>20. CASE Expire
  <2>1. CASE pc'[q] \notin InStream
    BY <2>1, OutOfStream
  <2>2. CASE pc'[q] \in InStream
    <3>1. /\ pc'[q] = pc[q] /\ at'[q] = at[q] /\ taken'[q] = taken[q]
          /\ states'[q] = states[q] /\ loaded'[q] = loaded[q]
          /\ UNCHANGED <<mode, cursor, saved>> /\ (Stale(q) => Stale(q)')
      BY <1>20, <2>2 DEF Expire, Renewed, InStream, BatchPlaces, Stale, TypeOK,
          LeasesDistinct
    <3> QED
      BY <1>0, <3>1, InStepFrame
  <2> QED
    BY <2>1, <2>2
<1>21. CASE Revoke
  <2>1. CASE pc'[q] \notin InStream
    BY <2>1, OutOfStream
  <2>2. CASE pc'[q] \in InStream
    <3>1. /\ pc'[q] = pc[q] /\ at'[q] = at[q] /\ taken'[q] = taken[q]
          /\ states'[q] = states[q] /\ loaded'[q] = loaded[q]
          /\ UNCHANGED <<mode, cursor, saved>> /\ (Stale(q) => Stale(q)')
      BY <1>21, <2>2 DEF Revoke, Fault, Renewed, InStream, BatchPlaces, Stale,
          TypeOK, LeasesDistinct
    <3> QED
      BY <1>0, <3>1, InStepFrame
  <2> QED
    BY <2>1, <2>2
<1>22. QED
  BY <1>1, <1>2, <1>3, <1>4, <1>5, <1>6, <1>7, <1>8, <1>9, <1>10, <1>11, <1>12,
     <1>13, <1>14, <1>15, <1>16, <1>17, <1>18, <1>19, <1>20, <1>21 DEF Next, RunSteps

\* The initial states satisfy the invariant: nobody has a lease.
LEMMA InitInv == Init => RunnerInv
<1> SUFFICES ASSUME Init PROVE RunnerInv
  OBVIOUS
<1>1. 0 \in 0..LastSeq /\ 0 \in 0..MaxFaults /\ <<>> \in Seq(1..LastSeq)
  BY LogAssumption, RunnerAssumption
<1>2. TypeOK
  BY <1>1 DEF Init, ReadInit, NoStates, TypeOK, Places
<1>3. LeasesDistinct /\ Positions /\ HandledSoFar
  BY DEF Init, ReadInit, LeasesDistinct, Positions, HandledSoFar, InStream, BatchPlaces
<1>4. HolderInStep /\ HolderAhead /\ RenewsWhilePulling
  BY DEF Init, HolderInStep, InStep, HolderAhead, RenewsWhilePulling, InStream,
     BatchPlaces
<1> QED
  BY <1>2, <1>3, <1>4 DEF RunnerInv

\* Every step keeps the invariant.
LEMMA StepInv == RunnerInv /\ [Next]_vars => RunnerInv'
BY TypeStep, LeaseStep, PositionStep, HandledStep, HolderStep, AheadStep, RenewStep
   DEF RunnerInv

\* The invariant of the replicas: the runner whose epoch is live works on exactly
\* what the server has saved, and no runner is ahead of the handler.
THEOREM RunnerInvariant == Spec => []RunnerInv
BY InitInv, StepInv, PTL DEF Spec

\* Every variable keeps its type in every behaviour.
THEOREM TypeCorrect == Spec => []TypeOK
<1>1. RunnerInv => TypeOK
  BY DEF RunnerInv
<1> QED
  BY <1>1, RunnerInvariant, PTL

\* Stop's time limit does not end the renewals of a runner that still works.
THEOREM CoveredHandlers == Spec => []HandlersAreCovered
<1>1. RunnerInv => HandlersAreCovered
  BY DEF RunnerInv, RenewsWhilePulling, HandlersAreCovered, InStream
<1> QED
  BY <1>1, RunnerInvariant, PTL

\* What the server takes from the runner that is not fenced is a step of the
\* read model.
LEMMA AppliedImplements ==
    ASSUME RunnerInv, NEW r \in Runners, pc[r] = "committing", Applied(r)
    PROVE  ReadNext
<1>1. at[r] \in 0..LastSeq /\ cursor \in 0..LastSeq /\ ~Stale(r)
  BY DEF RunnerInv, TypeOK, Applied
<1>2. CASE mode = "managed"
  <2>1. /\ cursor < at[r] /\ OnePartition(cursor, at[r])
        /\ states[r][PartitionOf[at[r]]]
                = saved[PartitionOf[at[r]]] \o Span(cursor, at[r])
    BY <1>1, <1>2 DEF RunnerInv, HolderInStep, InStep
  <2>2. Fold(at[r])
    BY <1>1, <1>2, <2>1 DEF Fold, Applied
  <2> QED
    BY <1>1, <2>1, <2>2, LogAssumption DEF ReadNext
<1>3. CASE mode = "external"
  <2>1. cursor < at[r] /\ 1..at[r] \subseteq handled
    BY <1>1, <1>3 DEF RunnerInv, HolderAhead, HandledSoFar, InStream, BatchPlaces
  <2>2. AckEvents(at[r])
    BY <1>1, <1>3, <2>1 DEF AckEvents, Applied
  <2> QED
    BY <1>1, <2>1, <2>2, LogAssumption DEF ReadNext
<1> QED
  BY <1>2, <1>3 DEF RunnerInv, TypeOK

\* A call of an external handler is a step of the read model, made by a fenced
\* runner or by the holder.
LEMMA HandleImplements ==
    ASSUME RunnerInv, NEW r \in Runners, Handle(r) PROVE ReadNext
<1>1. at[r] + 1 \in 1..LastSeq /\ at[r] \in Nat /\ mode = "external" /\ pc[r] = "reducing"
  BY LogAssumption DEF RunnerInv, TypeOK, Positions, Handle
<1>2. 1..at[r] \subseteq handled
  BY <1>1 DEF RunnerInv, HandledSoFar, InStream, BatchPlaces
<1>3. 1..((at[r] + 1) - 1) \subseteq handled
  BY <1>1, <1>2
<1>4. HandleEvent(at[r] + 1)
  BY <1>1, <1>3 DEF Handle, HandleEvent
<1> QED
  BY <1>1, <1>4 DEF ReadNext

\* Every other step leaves the read model alone.
LEMMA StepImplements == RunnerInv /\ [Next]_vars => [ReadNext]_readModel
<1> SUFFICES ASSUME RunnerInv, [Next]_vars PROVE [ReadNext]_readModel
  OBVIOUS
<1>1. CASE UNCHANGED vars
  BY <1>1 DEF vars
<1>2. ASSUME NEW r \in Runners, Commit(r) \/ CommitUnanswered(r)
      PROVE  ReadNext
  BY <1>2, AppliedImplements DEF Commit, CommitUnanswered
<1>3. ASSUME NEW r \in Runners, Handle(r) PROVE ReadNext
  BY <1>3, HandleImplements
<1>4. ASSUME NEW r \in Runners, RoundOver(r) PROVE UNCHANGED readModel
  BY <1>4, RoundEnds
<1>5. ASSUME NEW r \in Runners,
             \/ Start(r) \/ Registered(r) \/ RegisterEnds(r) \/ Ask(r)
             \/ StandbyStops(r) \/ Granted(r) \/ Refused(r) \/ GrantLost(r)
             \/ AskFatal(r) \/ KeepGrant(r) \/ ReturnGrant(r) \/ StandBy(r)
             \/ Leave(r) \/ Release(r) \/ RenewAborted(r)
             \/ Stop(r) \/ StopTimesOut(r)
      PROVE  UNCHANGED readModel
  BY <1>5 DEF Start, Registered, RegisterEnds, Ask, StandbyStops, Granted, Refused,
       GrantLost, AskFatal, KeepGrant, ReturnGrant, StandBy, Leave, Release,
       RenewAborted, Stop, StopTimesOut
<1>6. ASSUME NEW r \in Runners,
             \/ LoopEnds(r) \/ OpenStream(r) \/ Unsupported(r) \/ Take(r) \/ Flush(r)
             \/ StreamEnds(r) \/ Poll(r) \/ Loaded(r) \/ Reduce(r)
             \/ \E p \in Partitions : Load(r, p)
      PROVE  UNCHANGED readModel
  BY <1>6 DEF LoopEnds, OpenStream, Unsupported, Take, Flush, StreamEnds, Poll, Loaded,
       Reduce, Load
<1>7. CASE Expire \/ Revoke
  BY <1>7 DEF Expire, Revoke
<1> QED
  BY <1>1, <1>2, <1>3, <1>4, <1>5, <1>6, <1>7 DEF Next, RunSteps, RoundOver

\* Any number of replicas, with their leases, streams, retries, crashes and
\* stops, implement the abstract read model.
THEOREM ReplicasImplementReadModel == Spec => ImplementsReadModel
<1>1. Init => ReadInit
  BY DEF Init
<1> QED
  BY <1>1, StepImplements, RunnerInvariant, PTL DEF Spec, ImplementsReadModel, ReadSpec

-----------------------------------------------------------------------------
(* The read model folds every event once. *)

\* What ExactlyOnce needs of the types.
ReadType ==
    /\ cursor \in 0..LastSeq
    /\ saved \in [Partitions -> Seq(1..LastSeq)]

\* The events folded into a partition are the ones up to the cursor, in order.
FoldedOnce(p) ==
    /\ \A i, j \in DOMAIN saved[p] : i < j => saved[p][i] < saved[p][j]
    /\ {saved[p][i] : i \in DOMAIN saved[p]} = {s \in 1..cursor : PartitionOf[s] = p}

\* The first n elements of seq are the events of partition p up to c, in order.
Complete(seq, n, c, p) ==
    /\ \A i, j \in 1..n : i < j => seq[i] < seq[j]
    /\ {seq[i] : i \in 1..n} = {s \in 1..c : PartitionOf[s] = p}

\* w is the first n elements of old with c+1..e appended.
Extended(w, old, n, c, e) ==
    /\ \A i \in 1..n : w[i] = old[i]
    /\ \A i \in (n + 1)..(n + (e - c)) : w[i] = c + (i - n)

\* A span of one partition completes what was complete before it.
LEMMA SpanAppended ==
    ASSUME NEW n \in Nat, NEW c \in Nat, NEW e \in Nat, c < e, NEW p, NEW old, NEW w,
           Extended(w, old, n, c, e), Complete(old, n, c, p),
           \A s \in (c + 1)..e : PartitionOf[s] = p
    PROVE  Complete(w, n + (e - c), e, p)
<1> USE DEF Extended, Complete
<1>1. \A i \in 1..n : old[i] \in 1..c /\ PartitionOf[old[i]] = p
  OBVIOUS
<1>2. ASSUME NEW s \in 1..c, PartitionOf[s] = p PROVE \E i \in 1..n : old[i] = s
  <2>1. s \in {old[i] : i \in 1..n}
    BY <1>2
  <2> QED
    BY <2>1
<1>3. ASSUME NEW i \in 1..(n + (e - c)), NEW j \in 1..(n + (e - c)), i < j
      PROVE  w[i] < w[j]
  <2>1. CASE j <= n
    BY <1>3, <2>1
  <2>2. CASE i <= n /\ n < j
    <3>1. w[i] \in 1..c
      BY <1>1, <2>2
    <3>2. w[j] = c + (j - n)
      BY <2>2
    <3> QED
      BY <2>2, <3>1, <3>2
  <2>3. CASE n < i
    <3>1. w[i] = c + (i - n) /\ w[j] = c + (j - n)
      BY <1>3, <2>3
    <3> QED
      BY <1>3, <3>1
  <2> QED
    BY <1>3, <2>1, <2>2, <2>3
<1>4. ASSUME NEW i \in 1..(n + (e - c))
      PROVE  w[i] \in 1..e /\ PartitionOf[w[i]] = p
  <2>1. CASE i <= n
    BY <1>1, <2>1
  <2>2. CASE n < i
    <3>1. w[i] = c + (i - n) /\ c + (i - n) \in (c + 1)..e
      BY <2>2
    <3> QED
      BY <3>1
  <2> QED
    BY <2>1, <2>2
<1>5. ASSUME NEW s \in 1..e, PartitionOf[s] = p
      PROVE  \E i \in 1..(n + (e - c)) : w[i] = s
  <2>1. CASE s <= c
    <3>1. PICK i \in 1..n : old[i] = s
      BY <1>2, <1>5, <2>1
    <3>2. i \in 1..(n + (e - c)) /\ w[i] = s
      BY <3>1
    <3> QED
      BY <3>2
  <2>2. CASE s > c
    <3>1. n + (s - c) \in (n + 1)..(n + (e - c)) /\ n + (s - c) \in 1..(n + (e - c))
      BY <2>2
    <3>2. w[n + (s - c)] = c + ((n + (s - c)) - n)
      BY <3>1
    <3>3. w[n + (s - c)] = s
      BY <3>2
    <3> QED
      BY <3>1, <3>3
  <2> QED
    BY <2>1, <2>2
<1>6. {w[i] : i \in 1..(n + (e - c))} = {s \in 1..e : PartitionOf[s] = p}
  BY <1>4, <1>5
<1> QED
  BY <1>3, <1>6

\* A run appended to a partition keeps it ordered and complete.
LEMMA FoldKeeps ==
    ASSUME ReadType, NEW e \in 1..LastSeq, Fold(e), NEW p \in Partitions, FoldedOnce(p)
    PROVE  FoldedOnce(p)'
<1>1. /\ cursor \in Nat /\ e \in Nat /\ cursor < e /\ cursor' = e
      /\ saved[p] \in Seq(1..LastSeq) /\ Len(saved[p]) \in Nat
      /\ PartitionOf[e] \in Partitions /\ OnePartition(cursor, e)
  BY LogAssumption DEF Fold, ReadType
<1>2. CASE p # PartitionOf[e]
  <2>1. saved'[p] = saved[p]
    BY <1>1, <1>2 DEF Fold, ReadType
  <2>2. {s \in 1..e : PartitionOf[s] = p} = {s \in 1..cursor : PartitionOf[s] = p}
    BY <1>1, <1>2 DEF OnePartition
  <2> QED
    BY <1>1, <2>1, <2>2 DEF FoldedOnce
<1>3. CASE p = PartitionOf[e]
  <2>1. saved'[p] = saved[p] \o Span(cursor, e)
    BY <1>1, <1>3 DEF Fold, ReadType
  <2>2. Span(cursor, e) \in Seq(1..LastSeq) /\ Len(Span(cursor, e)) = e - cursor
    BY <1>1, SpanType, LogAssumption DEF Span, ReadType
  <2>3. \A i \in 1..(e - cursor) : Span(cursor, e)[i] = cursor + i
    BY DEF Span
  <2>4. /\ saved'[p] \in Seq(1..LastSeq)
        /\ Len(saved'[p]) = Len(saved[p]) + (e - cursor)
        /\ \A i \in 1..(Len(saved[p]) + (e - cursor)) :
               saved'[p][i] = IF i <= Len(saved[p]) THEN saved[p][i]
                              ELSE Span(cursor, e)[i - Len(saved[p])]
    <3>1. /\ saved[p] \o Span(cursor, e) \in Seq(1..LastSeq)
          /\ Len(saved[p] \o Span(cursor, e)) = Len(saved[p]) + Len(Span(cursor, e))
          /\ \A i \in 1..(Len(saved[p]) + Len(Span(cursor, e))) :
                 (saved[p] \o Span(cursor, e))[i]
                     = IF i <= Len(saved[p]) THEN saved[p][i]
                       ELSE Span(cursor, e)[i - Len(saved[p])]
      BY <1>1, <2>2, ConcatProperties, Zenon
    <3> QED
      BY <2>1, <2>2, <3>1, Zenon
  <2>5. \A i \in (Len(saved[p]) + 1)..(Len(saved[p]) + (e - cursor)) :
            i - Len(saved[p]) \in 1..(e - cursor)
    BY <1>1
  <2>6. Extended(saved'[p], saved[p], Len(saved[p]), cursor, e)
    <3>1. ASSUME NEW i \in 1..Len(saved[p]) PROVE saved'[p][i] = saved[p][i]
      <4>1. i \in 1..(Len(saved[p]) + (e - cursor)) /\ i <= Len(saved[p])
        BY <1>1
      <4> QED
        BY <2>4, <4>1, Zenon
    <3>2. ASSUME NEW i \in (Len(saved[p]) + 1)..(Len(saved[p]) + (e - cursor))
          PROVE  saved'[p][i] = cursor + (i - Len(saved[p]))
      <4>1. i \in 1..(Len(saved[p]) + (e - cursor)) /\ ~(i <= Len(saved[p]))
        BY <1>1
      <4>2. saved'[p][i] = Span(cursor, e)[i - Len(saved[p])]
        BY <2>4, <4>1, Zenon
      <4> QED
        BY <2>3, <2>5, <4>2, Zenon
    <3> QED
      BY <3>1, <3>2 DEF Extended
  <2>7. /\ DOMAIN saved[p] = 1..Len(saved[p])
        /\ DOMAIN saved'[p] = 1..(Len(saved[p]) + (e - cursor))
    BY <1>1, <2>4
  <2>8. Complete(saved[p], Len(saved[p]), cursor, p)
    BY <2>7 DEF FoldedOnce, Complete
  <2>9. \A s \in (cursor + 1)..e : PartitionOf[s] = p
    BY <1>1, <1>3 DEF OnePartition
  <2>10. Complete(saved'[p], Len(saved[p]) + (e - cursor), e, p)
    BY <1>1, <2>6, <2>8, <2>9, SpanAppended
  <2> QED
    BY <1>1, <2>7, <2>10 DEF FoldedOnce, Complete
<1> QED
  BY <1>2, <1>3

\* A managed projection has every event up to its cursor exactly once, in the
\* order of the log, in the state of its partition.
THEOREM EveryEventOnce == Spec => []ExactlyOnce
<1>1. Init => ExactlyOnce
  BY DEF Init, ReadInit, ExactlyOnce
<1>2. RunnerInv /\ ExactlyOnce /\ [ReadNext]_readModel => ExactlyOnce'
  <2> SUFFICES ASSUME RunnerInv, ExactlyOnce, [ReadNext]_readModel, mode' = "managed",
                      NEW p \in Partitions
               PROVE  FoldedOnce(p)'
    BY DEF ExactlyOnce, FoldedOnce
  <2>1. ReadType
    BY DEF RunnerInv, TypeOK, ReadType
  <2>2. mode = "managed" /\ FoldedOnce(p)
    BY DEF ExactlyOnce, FoldedOnce, ReadNext, Fold, HandleEvent, AckEvents, readModel
  <2>3. CASE UNCHANGED readModel
    BY <2>2, <2>3 DEF readModel, FoldedOnce
  <2>4. ASSUME NEW e \in 1..LastSeq, Fold(e) PROVE FoldedOnce(p)'
    BY <2>1, <2>2, <2>4, FoldKeeps
  <2>5. ASSUME NEW e \in 1..LastSeq, HandleEvent(e) \/ AckEvents(e) PROVE FALSE
    BY <2>2, <2>5 DEF HandleEvent, AckEvents
  <2> QED
    BY <2>3, <2>4, <2>5 DEF ReadNext
<1> QED
  BY <1>1, <1>2, StepImplements, RunnerInvariant, PTL DEF Spec


-----------------------------------------------------------------------------
(* What a runner has taken when it ends. *)

\* A runner that reads has committed what it gave to the handler, and one that is
\* not in a read or a batch has committed or dropped all it took.
NothingLeft ==
    \A r \in Runners :
        /\ pc[r] = "reading" => at[r] <= cursor
        /\ pc[r] \notin InStream => taken[r] <= cursor

\* The cursor never goes back: only the holder of the lease moves it, and it is
\* past the cursor when it does.
LEMMA CursorGrows ==
    ASSUME RunnerInv, NEW r \in Runners, pc[r] = "committing", Applied(r)
    PROVE  cursor' = at[r] /\ cursor <= cursor'
BY DEF RunnerInv, TypeOK, HolderInStep, InStep, HolderAhead, InStream, BatchPlaces, Applied

\* Every step keeps NothingLeft.
LEMMA NothingLeftStep ==
    ASSUME RunnerInv, NothingLeft, [Next]_vars PROVE NothingLeft'
<1>0. /\ cursor \in Nat /\ at \in [Runners -> Nat] /\ taken \in [Runners -> Nat]
      /\ pc \in [Runners -> Places] /\ DOMAIN pc = Runners
  BY LogAssumption DEF RunnerInv, TypeOK
<1>1. CASE UNCHANGED <<pc, at, taken, cursor>>
  BY <1>1 DEF NothingLeft
\* One runner moves, and the cursor with it or not at all.
<1>2. ASSUME NEW r \in Runners, NEW place, Go(r, place), cursor' \in Nat, cursor <= cursor',
             \A q \in Runners \ {r} : UNCHANGED <<at[q], taken[q]>>,
             place = "reading" => at'[r] <= cursor',
             place \notin InStream => taken'[r] <= cursor'
      PROVE  NothingLeft'
  <2>1. pc' = [pc EXCEPT ![r] = place]
    BY <1>2 DEF Go
  <2>2. ASSUME NEW q \in Runners, q # r
        PROVE  /\ pc'[q] = "reading" => at'[q] <= cursor'
               /\ pc'[q] \notin InStream => taken'[q] <= cursor'
    BY <1>0, <1>2, <2>1, <2>2 DEF NothingLeft
  <2>3. pc'[r] = place
    BY <1>0, <2>1
  <2> QED
    BY <1>2, <2>2, <2>3 DEF NothingLeft
<1>3. ASSUME NEW r \in Runners, NEW place, EndRound(r, place), cursor' \in Nat, cursor <= cursor'
      PROVE  NothingLeft'
  <2>1. Go(r, place) /\ at' = [at EXCEPT ![r] = 0] /\ taken' = [taken EXCEPT ![r] = 0]
    BY <1>3 DEF EndRound, DropBatch
  <2>2. at'[r] = 0 /\ taken'[r] = 0 /\ \A q \in Runners \ {r} : UNCHANGED <<at[q], taken[q]>>
    BY <1>0, <2>1
  <2> QED
    BY <1>2, <1>3, <2>1, <2>2
<1>4. ASSUME NEW r \in Runners, NEW place, Go(r, place), UNCHANGED <<at, taken, cursor>>,
             pc[r] \notin InStream, place \notin InStream
      PROVE  NothingLeft'
  <2>1. taken'[r] <= cursor'
    BY <1>4 DEF NothingLeft
  <2> QED
    BY <1>0, <1>2, <1>4, <2>1 DEF InStream
<1>5. ASSUME NEW r \in Runners, NEW place, Go(r, place), UNCHANGED cursor, place \in BatchPlaces,
             \A q \in Runners \ {r} : UNCHANGED <<at[q], taken[q]>>
      PROVE  NothingLeft'
  BY <1>0, <1>2, <1>5 DEF InStream, BatchPlaces
<1> USE DEF readModel, server, leaseVars, stopVars, intake, batch
<1>6. ASSUME NEW r \in Runners,
             \/ Start(r) \/ Registered(r) \/ RegisterEnds(r) \/ Ask(r) \/ StandbyStops(r) \/ Granted(r)
             \/ Refused(r) \/ GrantLost(r)
      PROVE  NothingLeft'
  BY <1>4, <1>6 DEF Start, Registered, RegisterEnds, Ask, StandbyStops, Granted, Refused, GrantLost,
     InStream, BatchPlaces
<1>7. ASSUME NEW r \in Runners,
             AskFatal(r) \/ KeepGrant(r) \/ ReturnGrant(r) \/ StandBy(r) \/ Leave(r) \/ Release(r) \/ LoopEnds(r)
      PROVE  NothingLeft'
  BY <1>4, <1>7 DEF AskFatal, KeepGrant, ReturnGrant, StandBy, Leave, Release, LoopEnds, InStream, BatchPlaces
<1>8. ASSUME NEW r \in Runners,
             Unsupported(r) \/ RenewAborted(r) \/ Stop(r) \/ StopTimesOut(r) \/ \E p \in Partitions : Load(r, p)
      PROVE  NothingLeft'
  BY <1>1, <1>8 DEF Unsupported, RenewAborted, Stop, StopTimesOut, Load
<1>9. ASSUME NEW r \in Runners, OpenStream(r) PROVE NothingLeft'
  <2>1. /\ Go(r, "reading") /\ at'[r] = cursor /\ UNCHANGED cursor
        /\ \A q \in Runners \ {r} : UNCHANGED <<at[q], taken[q]>>
    BY <1>0, <1>9 DEF OpenStream
  <2> QED
    BY <1>0, <1>2, <2>1 DEF InStream
<1>10. ASSUME NEW r \in Runners,
              \/ PullAborted(r) \/ ReadLost(r) \/ LoopFatal(r) \/ BatchLost(r) \/ CommitAborted(r)
              \/ BatchFails(r) \/ Crash(r)
       PROVE  NothingLeft'
  BY <1>0, <1>3, <1>10 DEF PullAborted, ReadLost, LoopFatal, BatchLost, CommitAborted, BatchFails, Crash
<1>11. FirstStage \in BatchPlaces
  BY DEF FirstStage, BatchPlaces
<1>12. ASSUME NEW r \in Runners, Take(r) PROVE NothingLeft'
  <2>1. /\ UNCHANGED <<at, cursor>> /\ pc[r] = "reading" /\ at[r] <= cursor
        /\ Go(r, FirstStage) \/ Go(r, "reading")
        /\ \A q \in Runners \ {r} : UNCHANGED <<at[q], taken[q]>>
    BY <1>0, <1>12 DEF Take, NothingLeft
  <2> QED
    BY <1>0, <1>2, <1>5, <1>11, <2>1 DEF InStream
<1>13. ASSUME NEW r \in Runners, Flush(r) PROVE NothingLeft'
  BY <1>5, <1>11, <1>13 DEF Flush
<1>14. ASSUME NEW r \in Runners, StreamEnds(r) PROVE NothingLeft'
  <2>1. UNCHANGED <<at, taken, cursor>> /\ pc[r] = "reading" /\ at[r] <= cursor /\ at[r] <= taken[r]
    BY <1>14 DEF StreamEnds, NothingLeft, RunnerInv, Positions, InStream
  <2>2. CASE at[r] < taken[r]
    BY <1>5, <1>11, <1>14, <2>1, <2>2 DEF StreamEnds
  <2>3. CASE ~(at[r] < taken[r])
    <3>1. Go(r, "open") /\ taken[r] <= cursor
      BY <1>0, <1>14, <2>1, <2>3 DEF StreamEnds
    <3> QED
      BY <1>0, <1>2, <2>1, <3>1
  <2> QED
    BY <2>2, <2>3
<1>15. ASSUME NEW r \in Runners, Poll(r) PROVE NothingLeft'
  BY <1>0, <1>5, <1>11, <1>15 DEF Poll
<1>16. ASSUME NEW r \in Runners, Loaded(r) \/ Reduce(r) PROVE NothingLeft'
  BY <1>0, <1>5, <1>16 DEF Loaded, Reduce, BatchPlaces
<1>17. ASSUME NEW r \in Runners, Handle(r) PROVE NothingLeft'
  <2>1. Go(r, "committing") \/ Go(r, "reducing")
    BY <1>17 DEF Handle
  <2> QED
    BY <1>0, <1>5, <1>17, <2>1 DEF Handle, BatchPlaces
<1>18. ASSUME NEW r \in Runners, Commit(r) PROVE NothingLeft'
  <2>1. cursor' = at[r] /\ cursor <= cursor' /\ UNCHANGED <<at, taken>>
    BY <1>18, CursorGrows DEF Commit
  <2>2. Go(r, "reducing") \/ (at[r] = taken[r] /\ (Go(r, "reading") \/ Go(r, "open")))
    BY <1>18 DEF Commit
  <2> QED
    BY <1>0, <1>2, <2>1, <2>2 DEF InStream, BatchPlaces
<1>19. ASSUME NEW r \in Runners, CommitUnanswered(r) PROVE NothingLeft'
  <2>1. cursor' = at[r] /\ cursor <= cursor' /\ EndRound(r, "open")
    BY <1>19, CursorGrows DEF CommitUnanswered
  <2> QED
    BY <1>0, <1>3, <2>1
<1>20. CASE Expire \/ Revoke \/ UNCHANGED vars
  BY <1>1, <1>20 DEF Expire, Revoke, vars
<1> QED
  BY <1>6, <1>7, <1>8, <1>9, <1>10, <1>12, <1>13, <1>14, <1>15, <1>16, <1>17, <1>18, <1>19, <1>20
     DEF Next, RunSteps

\* A runner that has ended left no frame behind that it had taken and not dropped
\* with a failed or fenced round: Stop processes what is pending first (readStream).
THEOREM StopLeavesNothing == Spec => []StopFlushes
<1>1. Init => NothingLeft
  BY LogAssumption DEF Init, ReadInit, NothingLeft, InStream, BatchPlaces
<1>2. RunnerInv /\ NothingLeft /\ [Next]_vars => NothingLeft'
  BY NothingLeftStep
<1>3. NothingLeft => StopFlushes
  BY DEF NothingLeft, StopFlushes, InStream, BatchPlaces
<1> QED
  BY <1>1, <1>2, <1>3, RunnerInvariant, PTL DEF Spec

=============================================================================
