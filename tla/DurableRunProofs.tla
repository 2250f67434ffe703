-------------------------- MODULE DurableRunProofs --------------------------
(***************************************************************************)
(* Proofs about DurableRun, for every handler, every bound and every       *)
(* combination of faults: the type invariant; the inductive invariant that *)
(* gives at-most-once rows, no gaps, append-only history and no            *)
(* re-execution; and the three above it, of an execution with its          *)
(* compensations, of the end of a run and of its retry budget.             *)
(***************************************************************************)
EXTENDS DurableRun, WellFoundedInduction, SequenceTheorems, FiniteSetTheorems, TLAPS

\* The outcomes an execution can end with are outcomes.
LEMMA OutcomeTypes ==
    /\ Running \in Outcomes /\ Completed \in Outcomes
    /\ Failed(FALSE) \in Outcomes
    /\ \A r \in BOOLEAN : Failed(r) \in Outcomes
    /\ \A id \in Ids : Yielded(id) \in Outcomes
BY DEF Outcomes, Running, Completed, Failed, Yielded

\* encodableSteps returns a prefix that holds nothing unencodable.
LEMMA EncodableLenType ==
    ASSUME NEW s \in Seq(Steps)
    PROVE  EncodableLen(s) \in 0 .. Len(s)
<1> DEFINE Bad == {i \in 1 .. Len(s) : s[i].status = "unencodable"}
           First(i) == /\ s[i].status = "unencodable"
                       /\ \A j \in 1 .. i - 1 : s[j].status # "unencodable"
<1>1. CASE Bad # {}
  <2>1. Bad \subseteq Nat
    OBVIOUS
  <2>2. PICK i \in Bad : \A j \in Bad : ~(<<j, i>> \in OpToRel(<, Nat))
    BY <1>1, <2>1, WFMin, NatLessThanWellFounded
  <2>3. \A j \in Bad : ~(j < i)
    BY <2>1, <2>2 DEF OpToRel
  <2>4. i \in 1 .. Len(s) /\ First(i)
    BY <2>3
  <2> HIDE DEF First
  <2>5. (CHOOSE k \in 1 .. Len(s) : First(k)) \in 1 .. Len(s)
    BY <2>4
  <2> USE DEF First
  <2> QED BY <1>1, <2>5 DEF EncodableLen
<1>2. CASE Bad = {}
  BY <1>2 DEF EncodableLen
<1> QED BY <1>1, <1>2

\* A slice of a sequence of steps, element by element.
LEMMA Slice ==
    ASSUME NEW s \in Seq(Steps), NEW a \in Nat, NEW n \in Nat, n <= Len(s)
    PROVE  /\ SubSeq(s, a + 1, n) \in Seq(Steps)
           /\ Len(SubSeq(s, a + 1, n)) = IF a + 1 <= n THEN n - a ELSE 0
           /\ \A i \in 1 .. Len(SubSeq(s, a + 1, n)) :
                SubSeq(s, a + 1, n)[i] = s[a + i]
<1>1. \A i \in a + 1 .. n : s[i] \in Steps
  OBVIOUS
<1>2. a + 1 \in Int /\ n \in Int
  OBVIOUS
<1> QED BY <1>1, <1>2, SubSeqProperties

LEMMA EncodableStepsType ==
    ASSUME NEW s \in Seq(Steps)
    PROVE  /\ EncodableSteps(s) \in Seq(Steps)
           /\ Len(EncodableSteps(s)) <= Len(s)
           /\ \A i \in 1 .. Len(EncodableSteps(s)) : EncodableSteps(s)[i] = s[i]
BY EncodableLenType DEF EncodableSteps

\* What a checkpoint and the terminal update carry is a slice of the recorded
\* steps that starts at the cursor.
LEMMA SliceType ==
    ASSUME TypeOK, NEW e \in Execs
    PROVE  /\ Unsaved(e) \in Seq(Steps)
           /\ Batch(e) \in Seq(Steps)
           /\ \A t \in {EncodableSteps(Unsaved(e)), Batch(e)} :
                /\ t \in Seq(Steps)
                /\ cursor[e] <= Len(executed[e]) =>
                     cursor[e] + Len(t) <= Len(executed[e])
                /\ \A i \in 1 .. Len(t) : t[i] = executed[e][cursor[e] + i]
<1>1. executed[e] \in Seq(Steps) /\ cursor[e] \in Nat
  BY DEF TypeOK
<1>a. Len(executed[e]) \in Nat /\ Len(executed[e]) <= Len(executed[e])
  BY <1>1
<1>2. /\ Unsaved(e) \in Seq(Steps)
      /\ Len(Unsaved(e)) = IF cursor[e] + 1 <= Len(executed[e])
                           THEN Len(executed[e]) - cursor[e] ELSE 0
      /\ \A i \in 1 .. Len(Unsaved(e)) : Unsaved(e)[i] = executed[e][cursor[e] + i]
  BY <1>1, <1>a, Slice DEF Unsaved
<1> DEFINE t == Unsaved(e)
           n == IF Len(t) > CheckpointCap THEN CheckpointCap ELSE Len(t)
           b == SubSeq(t, 1, n)
<1>3. b \in Seq(Steps) /\ Len(b) <= Len(t) /\ \A i \in 1 .. Len(b) : b[i] = t[i]
  <2>a. Len(t) \in Nat
    BY <1>2
  <2>b. CheckpointCap \in Nat
    BY BoundAssumption
  <2>1. n \in Nat /\ n <= Len(t)
    BY <2>a, <2>b
  <2> HIDE DEF n
  <2> QED BY <1>2, <2>1, Slice, 0 + 1 = 1, \A i \in Nat : 0 + i = i
<1>4. Batch(e) = EncodableSteps(b)
  BY DEF Batch
<1> HIDE DEF t, n, b
<1>5. /\ EncodableSteps(t) \in Seq(Steps) /\ Len(EncodableSteps(t)) <= Len(t)
      /\ \A i \in 1 .. Len(EncodableSteps(t)) : EncodableSteps(t)[i] = t[i]
  BY <1>2, EncodableStepsType DEF t
<1>6. /\ EncodableSteps(b) \in Seq(Steps) /\ Len(EncodableSteps(b)) <= Len(b)
      /\ \A i \in 1 .. Len(EncodableSteps(b)) : EncodableSteps(b)[i] = b[i]
  BY <1>3, EncodableStepsType
<1>7. /\ EncodableSteps(b) \in Seq(Steps) /\ Len(EncodableSteps(b)) <= Len(t)
      /\ \A i \in 1 .. Len(EncodableSteps(b)) : EncodableSteps(b)[i] = t[i]
  BY <1>3, <1>6, <1>2 DEF t
<1> QED BY <1>1, <1>2, <1>4, <1>5, <1>7 DEF t

\* An update built from a slice is an update.
LEMMA UpdateType ==
    ASSUME TypeOK, NEW e \in Execs, NEW out \in Outcomes, NEW t \in Seq(Steps)
    PROVE  Update(e, out, t) \in Updates
BY DEF TypeOK, Update, Updates

\* Ids the handler's calls and the compensations claim.
LEMMA IdTypes ==
    ASSUME TypeOK, NEW e \in Execs
    PROVE  /\ \A n \in StepNames : StepId(e, n) \in Ids
           /\ pc[e] <= Len(Program) => CallName(e) \in StepNames
           /\ undo[e] \in 1 .. Len(comps[e]) => <<"compensate:", NextUndo(e)>> \in StepNames
<1>1. \A n \in StepNames : StepId(e, n) \in Ids
  BY DEF TypeOK, StepId, Ids
<1>2. ASSUME pc[e] <= Len(Program) PROVE CallName(e) \in StepNames
  <2>1. pc[e] \in 1 .. Len(Program)
    BY <1>2, ProgramAssumption DEF TypeOK
  <2>2. Program[pc[e]] \in Calls
    BY <2>1, ProgramAssumption
  <2> QED BY <2>2 DEF CallName, StepNames, Calls
<1>3. ASSUME undo[e] \in 1 .. Len(comps[e])
      PROVE  <<"compensate:", NextUndo(e)>> \in StepNames
  <2>1. comps[e][undo[e]] \in Names
    BY <1>3 DEF TypeOK
  <2> QED BY <2>1 DEF NextUndo, StepNames
<1> QED BY <1>1, <1>2, <1>3

\* The rows stay a sequence of rows when an update is stored.
LEMMA StoreRowsType ==
    ASSUME TypeOK, NEW m \in Updates
    PROVE  StoreRows(m) \in Seq(Rows)
<1>1. m.offset \in Nat /\ m.steps \in Seq(Steps) /\ Len(m.steps) \in Nat
  BY DEF Updates
<1>2. rows \in Seq(Rows) /\ Len(rows) \in Nat
  BY DEF TypeOK
<1> DEFINE top == m.offset + Len(m.steps)
           n == IF top > Len(rows) THEN top ELSE Len(rows)
           row(i) == IF i > m.offset /\ i <= top THEN m.steps[i - m.offset]
                     ELSE IF i <= Len(rows) THEN rows[i]
                     ELSE [id |-> NoId, status |-> "missing"]
<1>3. n \in Nat
  BY <1>1, <1>2
<1>4. ASSUME NEW i \in 1 .. n PROVE row(i) \in Rows
  <2>1. CASE i > m.offset /\ i <= top
    <3>1. i - m.offset \in 1 .. Len(m.steps)
      BY <1>1, <1>3, <2>1
    <3>2. m.steps[i - m.offset] \in Steps
      BY <1>1, <3>1
    <3> QED BY <2>1, <3>2 DEF Rows
  <2>2. CASE ~(i > m.offset /\ i <= top) /\ i <= Len(rows)
    <3>1. rows[i] \in Rows
      BY <1>2, <1>3, <2>2
    <3> QED BY <2>2, <3>1
  <2>3. CASE ~(i > m.offset /\ i <= top) /\ ~(i <= Len(rows))
    BY <2>3 DEF Rows
  <2> QED BY <2>1, <2>2, <2>3
<1>5. StoreRows(m) = [i \in 1 .. n |-> row(i)]
  BY DEF StoreRows
<1> HIDE DEF n, row
<1> QED BY <1>3, <1>4, <1>5

LEMMA TypeInit == Init => TypeOK
<1> SUFFICES ASSUME Init PROVE TypeOK
  OBVIOUS
<1>1. Running \in Outcomes
  BY OutcomeTypes
<1>2. /\ rows \in Seq(Rows) /\ status \in {"ready", "running", "waiting"} \cup Final
      /\ seq \in 0 .. MaxExec /\ attempt \in Nat \ {0} /\ waiting \in Ids \cup {NoId}
      /\ net \in SUBSET Updates
  <2>a. MaxExec \in Nat
    BY BoundAssumption
  <2>1. 0 \in 0 .. MaxExec
    BY <2>a
  <2>2. rows = <<>> /\ status = "ready" /\ seq = 0 /\ attempt = 1 /\ waiting = NoId /\ net = {}
    BY DEF Init
  <2>3. rows \in Seq(Rows)
    BY <2>2
  <2> QED BY <2>1, <2>2, <2>3
<1>3. /\ phase \in [Execs -> Phases]
      /\ memo \in [Execs -> [completed : SUBSET Ids, failed : SUBSET Ids]]
      /\ base \in [Execs -> Nat] /\ try \in [Execs -> Nat \ {0}]
      /\ pc \in [Execs -> Nat \ {0}] /\ cur \in [Execs -> Ids \cup {NoId}]
  BY DEF Init, Phases
<1>4. counters \in [Execs -> [StepNames -> Nat]]
  BY DEF Init
<1>5. /\ executed \in [Execs -> Seq(Steps)] /\ comps \in [Execs -> Seq(Names)]
      /\ undo \in [Execs -> Nat] /\ outcome \in [Execs -> Outcomes]
      /\ cancelled \in [Execs -> BOOLEAN]
      /\ ckpt \in [Execs -> {"off", "ticking", "putting", "done"}]
      /\ cursor \in [Execs -> Nat] /\ put \in [Execs -> Updates \cup {NoMsg}]
  BY <1>1 DEF Init
<1>6. /\ status # "waiting"
      /\ \A e \in Execs : phase[e] = "unassigned" /\ undo[e] = 0 /\ Len(comps[e]) = 0
  BY DEF Init
<1> QED BY <1>2, <1>3, <1>4, <1>5, <1>6 DEF TypeOK

LEMMA TypeNext == TypeOK /\ [Next]_vars => TypeOK'
<1> SUFFICES ASSUME TypeOK, [Next]_vars PROVE TypeOK'
  OBVIOUS
<1>1. CASE Assign
  <2>1. /\ IdsWith(rows, "completed") \subseteq Ids
        /\ IdsWith(rows, "failed") \subseteq Ids
    <3>1. ASSUME NEW i \in DOMAIN rows, rows[i].status \in {"completed", "failed"}
          PROVE  rows[i].id \in Ids
      <4>1. rows[i] \in Rows
        BY DEF TypeOK
      <4> QED BY <3>1, <4>1 DEF Rows, Steps
    <3> QED BY <3>1 DEF IdsWith
  <2>2. seq' \in Execs
    <3>1. MaxExec \in Nat /\ seq \in 0 .. MaxExec
      BY BoundAssumption DEF TypeOK
    <3> QED BY <1>1, <3>1 DEF Assign, Execs
  <2>3. memo' \in [Execs -> [completed : SUBSET Ids, failed : SUBSET Ids]]
    BY <1>1, <2>1, <2>2 DEF Assign, TypeOK
  <2> QED BY <1>1, <2>2, <2>3 DEF Assign, TypeOK, Phases, Execs
<1>2. CASE LeaseExpires
  BY <1>2 DEF LeaseExpires, TypeOK, local
<1>3. ASSUME NEW st \in {"completed", "failed"}, Wake(st) PROVE TypeOK'
  <2>1. rows' \in Seq(Rows)
    BY <1>3 DEF Wake, TypeOK, Rows, Steps, Statuses
  <2> QED BY <1>3, <2>1 DEF Wake, TypeOK, local
<1>4. ASSUME NEW m \in net, EngineHandles(m)
      PROVE  /\ rows' \in Seq(Rows) /\ status' \in {"ready", "running", "waiting"} \cup Final
             /\ seq' = seq /\ attempt' \in Nat \ {0}
             /\ waiting' \in Ids \cup {NoId} /\ (status' = "waiting" => waiting' \in Ids)
  <2>1. m \in Updates /\ m.outcome \in Outcomes
    BY DEF TypeOK, Updates
  <2>2. CASE ~Current(m.seq)
    BY <1>4, <2>2 DEF EngineHandles, engine, TypeOK
  <2>3. CASE Current(m.seq)
    <3>1. RecordOutcome(m) /\ seq' = seq
      BY <1>4, <2>3 DEF EngineHandles
    <3>2. rows' \in Seq(Rows)
      BY <2>1, <3>1, StoreRowsType DEF RecordOutcome
    <3>3. m.outcome.kind \in {"none", "completed", "failed", "yielded"}
      BY <2>1 DEF Outcomes
    <3>4. status' \in {"ready", "running", "waiting"} \cup Final
      BY <3>1, <3>3 DEF RecordOutcome, Final
    <3>5. status' = "waiting" => m.outcome.kind = "yielded"
      BY <3>1, <3>3 DEF RecordOutcome
    <3>6. waiting' \in Ids \cup {NoId} /\ (status' = "waiting" => waiting' \in Ids)
      BY <2>1, <3>1, <3>5 DEF RecordOutcome, Outcomes
    <3>7. attempt' \in Nat \ {0}
      BY <3>1 DEF RecordOutcome, TypeOK
    <3> QED BY <3>1, <3>2, <3>4, <3>6, <3>7
  <2> QED BY <2>2, <2>3
<1>5. ASSUME NEW m \in net, PutAnswered(m) PROVE TypeOK'
  <2>1. EngineHandles(m)
    BY <1>5 DEF PutAnswered
  <2>2. m.seq \in Execs /\ Len(m.steps) \in Nat
    BY DEF TypeOK, Updates
  <2>3. cancelled' \in [Execs -> BOOLEAN]
    BY <1>5, <2>2 DEF PutAnswered, TypeOK
  <2>4. /\ net' \in SUBSET Updates /\ put' \in [Execs -> Updates \cup {NoMsg}]
        /\ phase' \in [Execs -> Phases]
        /\ \A e \in Execs : phase'[e] \in {"body", "undoing"} => phase[e] \in {"body", "undoing"}
        /\ ckpt' \in [Execs -> {"off", "ticking", "putting", "done"}]
        /\ cursor' \in [Execs -> Nat]
    <3>1. /\ net \in SUBSET Updates /\ put \in [Execs -> Updates \cup {NoMsg}]
          /\ phase \in [Execs -> Phases] /\ cursor \in [Execs -> Nat]
          /\ ckpt \in [Execs -> {"off", "ticking", "putting", "done"}]
      BY DEF TypeOK
    <3>2. net' = net \ {m} /\ put' = [put EXCEPT ![m.seq] = NoMsg]
      BY <1>5 DEF PutAnswered
    <3>3. CASE phase[m.seq] = "reporting"
      <4>1. phase' = [phase EXCEPT ![m.seq] = "exited"] /\ ckpt' = ckpt /\ cursor' = cursor
        BY <1>5, <3>3 DEF PutAnswered
      <4> QED BY <2>2, <3>1, <3>2, <4>1 DEF Phases
    <3>4. CASE phase[m.seq] # "reporting"
      <4>1. /\ ckpt' = [ckpt EXCEPT ![m.seq] = "ticking"] /\ phase' = phase
            /\ cursor' = [cursor EXCEPT ![m.seq] = cursor[m.seq] + Len(m.steps)]
        BY <1>5, <3>4 DEF PutAnswered
      <4> QED BY <2>2, <3>1, <3>2, <4>1
    <3> QED BY <3>3, <3>4
  <2>5. UNCHANGED <<memo, base, try, pc, cur, counters, executed, comps, undo, outcome>>
    BY <1>5 DEF PutAnswered
  <2> QED BY <1>4, <2>1, <2>3, <2>4, <2>5 DEF TypeOK
<1>6. ASSUME NEW m \in net, PutUnanswered(m) PROVE TypeOK'
  <2>1. EngineHandles(m)
    BY <1>6 DEF PutUnanswered
  <2> QED BY <1>4, <1>6, <2>1 DEF PutUnanswered, TypeOK, local
<1>7. ASSUME NEW e \in Execs, PutGivesUp(e) PROVE TypeOK'
  BY <1>7 DEF PutGivesUp, TypeOK, engine, Phases
<1>8. ASSUME NEW e \in Execs, AckAssignment(e) \/ AckFails(e) PROVE TypeOK'
  BY <1>8 DEF AckAssignment, AckFails, TypeOK, engine, Phases
<1>9. ASSUME NEW e \in Execs, FunctionNotFound(e) PROVE TypeOK'
  <2>1. Failed(FALSE) \in Outcomes
    BY OutcomeTypes
  <2>3. <<>> \in Seq(Steps)
    OBVIOUS
  <2>2. Update(e, Failed(FALSE), <<>>) \in Updates
    BY <2>1, <2>3, UpdateType
  <2> QED BY <1>9, <2>1, <2>2 DEF FunctionNotFound, Send, TypeOK, engine, Phases
<1>10. ASSUME NEW e \in Execs, Run(e) PROVE TypeOK'
  <2>1. CallName(e) \in StepNames /\ StepId(e, CallName(e)) \in Ids
    BY <1>10, IdTypes DEF Run, AtCall
  <2>2. counters' \in [Execs -> [StepNames -> Nat]]
    BY <1>10, <2>1 DEF Run, ClaimId, TypeOK
  <2>3. /\ pc' \in [Execs -> Nat \ {0}] /\ phase' \in [Execs -> Phases]
        /\ cur' \in [Execs -> Ids \cup {NoId}]
        /\ \A f \in Execs : phase'[f] \in {"body", "undoing"} => cur'[f] \in Ids
    <3>1. /\ pc \in [Execs -> Nat \ {0}] /\ phase \in [Execs -> Phases]
          /\ cur \in [Execs -> Ids \cup {NoId}]
          /\ \A f \in Execs : phase[f] \in {"body", "undoing"} => cur[f] \in Ids
      BY DEF TypeOK
    <3>2. \/ pc' = [pc EXCEPT ![e] = pc[e] + 1] /\ phase' = phase /\ cur' = cur
          \/ /\ phase' = [phase EXCEPT ![e] = "body"] /\ pc' = pc
             /\ cur' = [cur EXCEPT ![e] = StepId(e, CallName(e))]
      BY <1>10 DEF Run
    <3> QED BY <2>1, <3>1, <3>2 DEF Phases
  <2>4. UNCHANGED <<engine, net, memo, base, try, executed, comps, undo,
                    outcome, cancelled, ckpt, cursor, put>>
    BY <1>10 DEF Run
  <2> QED BY <2>2, <2>3, <2>4 DEF TypeOK, engine
<1>11. ASSUME NEW e \in Execs, NEW op, NEW raises, Await(e, op, raises) PROVE TypeOK'
  <2>1. CallName(e) \in StepNames /\ StepId(e, CallName(e)) \in Ids
    BY <1>11, IdTypes DEF Await, AtCall
  <2>2. Failed(FALSE) \in Outcomes /\ Yielded(StepId(e, CallName(e))) \in Outcomes
    BY <2>1, OutcomeTypes
  <2>3. counters' \in [Execs -> [StepNames -> Nat]]
    BY <1>11, <2>1 DEF Await, ClaimId, TypeOK
  <2>4. /\ pc' \in [Execs -> Nat \ {0}] /\ phase' \in [Execs -> Phases]
        /\ \A f \in Execs : phase'[f] \in {"body", "undoing"} => phase[f] \in {"body", "undoing"}
        /\ outcome' \in [Execs -> Outcomes]
    <3>1. /\ pc \in [Execs -> Nat \ {0}] /\ phase \in [Execs -> Phases]
          /\ outcome \in [Execs -> Outcomes]
      BY DEF TypeOK
    <3>2. \/ pc' = [pc EXCEPT ![e] = pc[e] + 1] /\ phase' = phase /\ outcome' = outcome
          \/ /\ phase' = [phase EXCEPT ![e] = "settling"] /\ pc' = pc
             /\ \E out \in Outcomes : outcome' = [outcome EXCEPT ![e] = out]
      BY <1>11, <2>2 DEF Await, HandlerEnds
    <3>3. outcome' \in [Execs -> Outcomes]
      BY <3>1, <3>2
    <3>4. pc' \in [Execs -> Nat \ {0}]
      BY <3>1, <3>2
    <3> QED BY <3>1, <3>2, <3>3, <3>4 DEF Phases
  <2>5. UNCHANGED <<engine, net, memo, base, try, cur, executed, comps, undo,
                    cancelled, ckpt, cursor, put>>
    BY <1>11 DEF Await
  <2> QED BY <2>3, <2>4, <2>5 DEF TypeOK, engine
<1>12. ASSUME NEW e \in Execs, Compensate(e) PROVE TypeOK'
  <2>1. Program[pc[e]] \in Calls
    BY <1>12, ProgramAssumption DEF Compensate, TypeOK
  <2>2. Program[pc[e]].name \in Names
    BY <2>1 DEF Calls
  <2>3. comps' \in [Execs -> Seq(Names)] /\ \A f \in Execs : Len(comps'[f]) >= Len(comps[f])
    BY <1>12, <2>2 DEF Compensate, TypeOK
  <2>4. \A f \in Execs : undo[f] <= Len(comps'[f])
    <3>1. \A f \in Execs : undo[f] \in Nat /\ undo[f] <= Len(comps[f])
      BY DEF TypeOK
    <3>2. \A f \in Execs : comps[f] \in Seq(Names) /\ comps'[f] \in Seq(Names)
      BY <2>3 DEF TypeOK
    <3>3. \A f \in Execs : Len(comps[f]) \in Nat /\ Len(comps'[f]) \in Nat
      BY <3>2
    <3> QED BY <2>3, <3>1, <3>3
  <2>5. pc' \in [Execs -> Nat \ {0}]
    BY SMTT(40), <1>12 DEF Compensate, TypeOK
  <2>6. UNCHANGED <<engine, net, memo, base, try, phase, cur, counters,
                    executed, undo, outcome, cancelled, ckpt, cursor, put>>
    BY <1>12 DEF Compensate
  <2> QED BY <2>3, <2>4, <2>5, <2>6 DEF TypeOK, engine
<1>13. ASSUME NEW e \in Execs, NEW st \in Statuses, Record(e, st), cur[e] \in Ids
       PROVE  executed' \in [Execs -> Seq(Steps)]
  <2>1. [id |-> cur[e], status |-> st] \in Steps
    BY <1>13 DEF Steps
  <2>2. executed[e] \in Seq(Steps)
    BY DEF TypeOK
  <2>3. Append(executed[e], [id |-> cur[e], status |-> st]) \in Seq(Steps)
    BY <2>1, <2>2, AppendProperties
  <2> QED BY <1>13, <2>3 DEF Record, TypeOK
<1>14. ASSUME NEW e \in Execs, NEW st \in {"completed", "unencodable"}, RunSucceeds(e, st)
       PROVE  TypeOK'
  <2>1. executed' \in [Execs -> Seq(Steps)]
    BY <1>13, <1>14 DEF RunSucceeds, TypeOK, Statuses
  <2>2. /\ pc' \in [Execs -> Nat \ {0}] /\ phase' \in [Execs -> Phases]
        /\ cur' \in [Execs -> Ids \cup {NoId}]
        /\ \A f \in Execs : phase'[f] \in {"body", "undoing"} => cur'[f] \in Ids
    BY <1>14 DEF RunSucceeds, TypeOK, Phases
  <2>3. UNCHANGED <<engine, net, memo, base, try, counters, comps, undo,
                    outcome, cancelled, ckpt, cursor, put>>
    BY <1>14 DEF RunSucceeds
  <2> QED BY <2>1, <2>2, <2>3 DEF TypeOK, engine
<1>15. ASSUME NEW e \in Execs, NEW r \in BOOLEAN, RunFails(e, r) PROVE TypeOK'
  <2>1. executed' \in [Execs -> Seq(Steps)]
    BY <1>13, <1>15 DEF RunFails, TypeOK, Statuses
  <2>2. Failed(r) \in Outcomes
    BY OutcomeTypes
  <2> QED BY <1>15, <2>1, <2>2 DEF RunFails, HandlerEnds, TypeOK, engine, Phases
<1>16. ASSUME NEW e \in Execs, NEW out \in Outcomes, HandlerReturns(e, out) PROVE TypeOK'
  BY <1>16 DEF HandlerReturns, HandlerEnds, TypeOK, engine, Phases
<1>17. ASSUME NEW e \in Execs, NEW b \in BOOLEAN, Settle(e, b) PROVE TypeOK'
  <2>a. Failed(FALSE) \in Outcomes
    BY OutcomeTypes
  <2>b. outcome[e] \in Outcomes /\ Len(comps[e]) \in Nat
    BY DEF TypeOK
  <2>1. Failed(FALSE) \in Outcomes /\ outcome[e] \in Outcomes /\ Len(comps[e]) \in Nat
    BY <2>a, <2>b
  <2>2. outcome' \in [Execs -> Outcomes]
    <3>1. \/ outcome' = outcome
          \/ outcome' = [outcome EXCEPT ![e] = Failed(FALSE)]
          \/ outcome' = [outcome EXCEPT ![e] = outcome[e]]
      BY <1>17 DEF Settle
    <3>2. outcome \in [Execs -> Outcomes]
      BY DEF TypeOK
    <3> QED BY <2>1, <3>1, <3>2
  <2>3. phase' \in [Execs -> Phases] /\ \A f \in Execs : phase'[f] \in {"body", "undoing"} =>
            phase[f] \in {"body", "undoing"}
    BY <1>17 DEF Settle, TypeOK, Phases
  <2>4. undo' \in [Execs -> Nat] /\ \A f \in Execs : undo'[f] <= Len(comps[f])
    <3>1. \/ undo' = undo \/ undo' = [undo EXCEPT ![e] = Len(comps[e])]
          \/ undo' = [undo EXCEPT ![e] = 0]
      BY <1>17 DEF Settle
    <3>2. undo \in [Execs -> Nat] /\ \A f \in Execs : undo[f] <= Len(comps[f])
      BY DEF TypeOK
    <3> QED BY <2>b, <3>1, <3>2
  <2>5. UNCHANGED <<engine, net, memo, base, try, pc, cur, counters, executed,
                    comps, cancelled, ckpt, cursor, put>>
    BY <1>17 DEF Settle
  <2> QED BY <2>2, <2>3, <2>4, <2>5 DEF TypeOK, engine
<1>18. ASSUME NEW e \in Execs, Undo(e) PROVE TypeOK'
  <2> DEFINE n == <<"compensate:", NextUndo(e)>>
  <2>1. undo[e] \in 1 .. Len(comps[e])
    BY <1>18 DEF Undo, TypeOK
  <2>2. n \in StepNames /\ StepId(e, n) \in Ids
    BY <2>1, IdTypes
  <2> HIDE DEF n
  <2>3. counters' \in [Execs -> [StepNames -> Nat]]
    BY <1>18, <2>2 DEF Undo, ClaimId, TypeOK, n
  <2>4. /\ phase' \in [Execs -> Phases] /\ cur' \in [Execs -> Ids \cup {NoId}]
        /\ \A f \in Execs : phase'[f] \in {"body", "undoing"} => cur'[f] \in Ids
    <3>1. /\ phase \in [Execs -> Phases] /\ cur \in [Execs -> Ids \cup {NoId}]
          /\ \A f \in Execs : phase[f] \in {"body", "undoing"} => cur[f] \in Ids
      BY DEF TypeOK
    <3>2. \/ phase' = phase /\ cur' = cur
          \/ /\ phase' = [phase EXCEPT ![e] = "undoing"]
             /\ cur' = [cur EXCEPT ![e] = StepId(e, n)]
      BY <1>18 DEF Undo, n
    <3> QED BY <2>2, <3>1, <3>2 DEF Phases
  <2>5. undo' \in [Execs -> Nat] /\ \A f \in Execs : undo'[f] <= Len(comps[f])
    BY <1>18, <2>1 DEF Undo, TypeOK
  <2>6. UNCHANGED <<engine, net, memo, base, try, pc, executed, comps, outcome,
                    cancelled, ckpt, cursor, put>>
    BY <1>18 DEF Undo
  <2> QED BY <2>3, <2>4, <2>5, <2>6 DEF TypeOK, engine
<1>19. ASSUME NEW e \in Execs, NEW st \in {"completed", "failed"}, UndoReturns(e, st)
       PROVE  TypeOK'
  <2>1. executed' \in [Execs -> Seq(Steps)]
    BY <1>13, <1>19 DEF UndoReturns, TypeOK, Statuses
  <2> QED BY <1>19, <2>1 DEF UndoReturns, TypeOK, engine, Phases
<1>20. ASSUME NEW e \in Execs, UndoEnds(e) \/ YieldUnsent(e) PROVE TypeOK'
  BY <1>20 DEF UndoEnds, YieldUnsent, TypeOK, engine, Phases
<1>21. ASSUME NEW e \in Execs, Report(e) PROVE TypeOK'
  <2> DEFINE m == Update(e, Reported(e), EncodableSteps(Unsaved(e)))
  <2>1. Reported(e) \in Outcomes
    BY OutcomeTypes DEF Reported, TypeOK
  <2>2. m \in Updates
    BY <2>1, SliceType, UpdateType
  <2> HIDE DEF m
  <2>3. /\ net' \in SUBSET Updates /\ put' \in [Execs -> Updates \cup {NoMsg}]
        /\ phase' \in [Execs -> Phases] /\ outcome' \in [Execs -> Outcomes]
        /\ \A f \in Execs : phase'[f] \in {"body", "undoing"} => phase[f] \in {"body", "undoing"}
    <3>1. /\ net \in SUBSET Updates /\ put \in [Execs -> Updates \cup {NoMsg}]
          /\ phase \in [Execs -> Phases] /\ outcome \in [Execs -> Outcomes]
      BY DEF TypeOK
    <3>2. \/ /\ phase' = [phase EXCEPT ![e] = "exited"]
             /\ net' = net /\ put' = put /\ outcome' = outcome
          \/ /\ phase' = [phase EXCEPT ![e] = "reporting"]
             /\ net' = net \cup {m} /\ put' = [put EXCEPT ![e] = m]
             /\ outcome' = [outcome EXCEPT ![e] = Reported(e)]
      BY <1>21 DEF Report, Send, m
    <3> QED BY <2>1, <2>2, <3>1, <3>2 DEF Phases
  <2>4. UNCHANGED <<engine, memo, base, try, pc, cur, counters, executed, comps,
                    undo, cancelled, ckpt, cursor>>
    BY <1>21 DEF Report
  <2> QED BY <2>3, <2>4 DEF TypeOK, engine
<1>22. ASSUME NEW e \in Execs, Flush(e) PROVE TypeOK'
  <2>1. Update(e, Running, Batch(e)) \in Updates
    BY SliceType, UpdateType, OutcomeTypes
  <2> QED BY <1>22, <2>1 DEF Flush, Send, TypeOK, engine
<1>23. ASSUME NEW e \in Execs, CheckpointerStops(e) \/ Cancel(e) \/ Crash(e) PROVE TypeOK'
  <2>1. CASE CheckpointerStops(e)
    BY <2>1 DEF CheckpointerStops, TypeOK, engine
  <2>2. CASE Cancel(e)
    BY <2>2 DEF Cancel, TypeOK, engine
  <2>3. CASE Crash(e)
    BY <2>3 DEF Crash, TypeOK, engine, Phases
  <2> QED BY <1>23, <2>1, <2>2, <2>3
<1>24. CASE UNCHANGED vars
  BY <1>24 DEF vars, engine, local, TypeOK
<1>25. ASSUME NEW e \in Execs, HandlerSteps(e) \/ HandlerErrs(e) PROVE TypeOK'
  BY <1>8, <1>9, <1>10, <1>11, <1>12, <1>14, <1>15, <1>16, <1>17, <1>18, <1>19, <1>20,
     <1>21, <1>25, OutcomeTypes
     DEF HandlerSteps, HandlerErrs, Sleep, WaitForEvent, Invoke, InvokeAsync
<1> QED BY <1>1, <1>2, <1>3, <1>5, <1>6, <1>7, <1>22, <1>23, <1>24, <1>25
        DEF Next, EngineSteps

\* Type correctness of the run, the executions and the updates under way.
THEOREM TypeCorrect == Spec => []TypeOK
BY TypeInit, TypeNext, PTL DEF Spec

-----------------------------------------------------------------------------
(* The stages of an execution. *)

\* An execution a step leaves alone keeps its stage.
LEMMA StageFrame ==
    ASSUME NEW f \in Execs, StageOK(f), seq' = seq,
           phase'[f] = phase[f], counters'[f] = counters[f], executed'[f] = executed[f],
           cursor'[f] = cursor[f], put'[f] = put[f], outcome'[f] = outcome[f],
           ckpt'[f] = ckpt[f], base'[f] = base[f]
    PROVE  StageOK(f)'
BY DEF StageOK, Untouched

LEMMA StagesInit == Init => StagesOK
BY DEF Init, StagesOK, StageOK, Untouched, Running

LEMMA StagesNext == TypeOK /\ StagesOK /\ [Next]_vars => StagesOK'
<1> SUFFICES ASSUME TypeOK, StagesOK, [Next]_vars PROVE StagesOK'
  OBVIOUS
<1>t. /\ phase \in [Execs -> Phases] /\ counters \in [Execs -> [StepNames -> Nat]]
      /\ executed \in [Execs -> Seq(Steps)] /\ cursor \in [Execs -> Nat]
      /\ put \in [Execs -> Updates \cup {NoMsg}] /\ outcome \in [Execs -> Outcomes]
      /\ ckpt \in [Execs -> {"off", "ticking", "putting", "done"}]
      /\ base \in [Execs -> Nat] /\ cur \in [Execs -> Ids \cup {NoId}]
      /\ cancelled \in [Execs -> BOOLEAN]
  BY DEF TypeOK
<1>1. CASE Assign
  <2>1. seq \in Nat /\ seq' = seq + 1
    BY <1>1 DEF Assign, TypeOK
  <2>2. ASSUME NEW f \in Execs PROVE StageOK(f)'
    <3>1. StageOK(f) /\ f \in Nat
      BY DEF StagesOK, Execs
    <3>2. CASE f = seq + 1
      BY <1>t, <1>1, <2>1, <3>1, <3>2 DEF Assign, StageOK, Untouched, Running
    <3>3. CASE f # seq + 1
      BY <1>t, <1>1, <2>1, <3>1, <3>3 DEF Assign, StageOK, Untouched
    <3> QED BY <3>2, <3>3
  <2> QED BY <2>2 DEF StagesOK
<1>2. CASE LeaseExpires \/ UNCHANGED vars \/ \E st \in {"completed", "failed"} : Wake(st)
  BY <1>2, StageFrame DEF LeaseExpires, Wake, vars, engine, local, StagesOK
<1>3. ASSUME NEW m \in net, PutAnswered(m) PROVE StagesOK'
  <2>1. m.seq \in Execs /\ seq' = seq
    BY <1>3 DEF TypeOK, Updates, PutAnswered, EngineHandles, engine
  <2>2. StageOK(m.seq)'
    <3> DEFINE e == m.seq
    <3>a. m # NoMsg
      BY NullAssumption DEF TypeOK
    <3>1. StageOK(e) /\ put'[e] = NoMsg /\ put[e] = m /\ m # NoMsg
      BY <1>t, <1>3, <2>1, <3>a DEF StagesOK, PutAnswered
    <3>2. /\ counters'[e] = counters[e] /\ executed'[e] = executed[e]
          /\ outcome'[e] = outcome[e] /\ base'[e] = base[e]
      BY <1>3 DEF PutAnswered
    <3>3. ~(e > seq) /\ phase[e] # "acking"
      BY <3>1 DEF StageOK, Untouched
    <3>4. CASE phase[e] = "reporting"
      <4>1. phase'[e] = "exited" /\ ckpt'[e] = ckpt[e]
        BY <1>t, <1>3, <2>1, <3>4 DEF PutAnswered
      <4> QED BY <2>1, <3>1, <3>2, <3>3, <4>1 DEF StageOK
    <3>5. CASE phase[e] # "reporting"
      <4>1. phase'[e] = phase[e] /\ ckpt'[e] = "ticking"
        BY <1>t, <1>3, <2>1, <3>5 DEF PutAnswered
      <4> QED BY <2>1, <3>1, <3>2, <3>3, <3>5, <4>1 DEF StageOK
    <3> QED BY <3>4, <3>5
  <2>3. ASSUME NEW f \in Execs, f # m.seq PROVE StageOK(f)'
    BY <1>t, <1>3, <2>1, <2>3, StageFrame DEF StagesOK, PutAnswered
  <2> QED BY <2>2, <2>3 DEF StagesOK
<1>4. ASSUME NEW m \in net, PutUnanswered(m) PROVE StagesOK'
  <2>1. seq' = seq
    BY <1>4 DEF PutUnanswered, EngineHandles, engine
  <2> QED BY <1>4, <2>1, StageFrame DEF StagesOK, PutUnanswered, local
<1>5. ASSUME NEW e \in Execs, StageOK(e)', UNCHANGED engine,
             \A f \in Execs : f # e =>
                /\ phase'[f] = phase[f] /\ counters'[f] = counters[f]
                /\ executed'[f] = executed[f] /\ cursor'[f] = cursor[f]
                /\ put'[f] = put[f] /\ outcome'[f] = outcome[f]
                /\ ckpt'[f] = ckpt[f] /\ base'[f] = base[f]
      PROVE  StagesOK'
  <2>1. ASSUME NEW f \in Execs, f # e PROVE StageOK(f)'
    BY <1>5, <2>1, StageFrame DEF StagesOK, engine
  <2> QED BY <1>5, <2>1 DEF StagesOK
<1>6. ASSUME NEW e \in Execs, PutGivesUp(e) PROVE StagesOK'
  <2>1. StageOK(e)'
    BY <1>t, <1>6 DEF StagesOK, StageOK, Untouched, PutGivesUp, engine
  <2> QED BY <1>t, <1>5, <1>6, <2>1 DEF PutGivesUp
<1>7. ASSUME NEW e \in Execs, AckAssignment(e) \/ AckFails(e) \/ CheckpointerStops(e) \/ UndoEnds(e) \/ YieldUnsent(e)
      PROVE  StagesOK'
  <2>1. StageOK(e)'
    BY <1>t, <1>7 DEF StagesOK, StageOK, Untouched, AckAssignment, AckFails, CheckpointerStops,
                      UndoEnds, YieldUnsent, engine
  <2> QED BY <1>t, <1>5, <1>7, <2>1 DEF AckAssignment, AckFails, CheckpointerStops, UndoEnds, YieldUnsent
<1>8. ASSUME NEW e \in Execs, FunctionNotFound(e) PROVE StagesOK'
  <2>1. StageOK(e)'
    BY <1>t, <1>8 DEF StagesOK, StageOK, Untouched, FunctionNotFound, Send, Update, Failed, engine
  <2> QED BY <1>t, <1>5, <1>8, <2>1 DEF FunctionNotFound, Send
<1>9. ASSUME NEW e \in Execs, Run(e) \/ Compensate(e) \/ Undo(e) PROVE StagesOK'
  <2>1. StageOK(e)'
    BY <1>t, <1>9 DEF StagesOK, StageOK, Untouched, Run, Compensate, Undo, AtCall, ClaimId, engine
  <2> QED BY <1>t, <1>5, <1>9, <2>1 DEF Run, Compensate, Undo, ClaimId
<1>10. ASSUME NEW e \in Execs, NEW op, NEW raises, Await(e, op, raises) PROVE StagesOK'
  <2>1. StageOK(e)'
    BY <1>t, <1>10 DEF StagesOK, StageOK, Untouched, Await, AtCall, HandlerEnds, ClaimId, engine
  <2> QED BY <1>t, <1>5, <1>10, <2>1 DEF Await, HandlerEnds, ClaimId
<1>11. ASSUME NEW e \in Execs, NEW st, RunSucceeds(e, st) \/ UndoReturns(e, st) PROVE StagesOK'
  <2>1. StageOK(e)'
    BY <1>t, <1>11 DEF StagesOK, StageOK, Untouched, RunSucceeds, UndoReturns, Record, engine
  <2> QED BY <1>t, <1>5, <1>11, <2>1 DEF RunSucceeds, UndoReturns, Record
<1>12. ASSUME NEW e \in Execs, NEW r, RunFails(e, r) PROVE StagesOK'
  <2>1. StageOK(e)'
    BY <1>t, <1>12 DEF StagesOK, StageOK, Untouched, RunFails, HandlerEnds, Record, Failed, engine
  <2> QED BY <1>t, <1>5, <1>12, <2>1 DEF RunFails, HandlerEnds, Record
<1>13. ASSUME NEW e \in Execs, NEW out, HandlerReturns(e, out) PROVE StagesOK'
  <2>1. StageOK(e)'
    BY <1>t, <1>13 DEF StagesOK, StageOK, Untouched, HandlerReturns, HandlerEnds, engine
  <2> QED BY <1>t, <1>5, <1>13, <2>1 DEF HandlerReturns, HandlerEnds
<1>14. ASSUME NEW e \in Execs, NEW b, Settle(e, b) PROVE StagesOK'
  <2>1. StageOK(e)'
    BY <1>t, <1>14 DEF StagesOK, StageOK, Untouched, Settle, Failed, engine
  <2> QED BY <1>t, <1>5, <1>14, <2>1 DEF Settle
<1>15. ASSUME NEW e \in Execs, Report(e) PROVE StagesOK'
  <2>1. StageOK(e)'
    <3>1. /\ StageOK(e) /\ phase[e] = "finishing" /\ ckpt[e] = "done" /\ ckpt'[e] = "done"
          /\ put[e] = NoMsg /\ seq' = seq
      BY <1>15 DEF StagesOK, StageOK, Report, engine
    <3>2. ~(e > seq)
      BY <3>1 DEF StageOK
    <3>3. CASE cancelled[e]
      BY <1>t, <1>15, <3>1, <3>2, <3>3 DEF StageOK, Report
    <3>4. CASE ~cancelled[e]
      <4>1. phase'[e] = "reporting" /\ put'[e].seq = e
        BY <1>t, <1>15, <3>4 DEF Report, Send, Update
      <4> QED BY <3>1, <3>2, <4>1 DEF StageOK
    <3> QED BY <3>3, <3>4
  <2> QED BY <1>t, <1>5, <1>15, <2>1 DEF Report, Send
<1>16. ASSUME NEW e \in Execs, Flush(e) PROVE StagesOK'
  <2>1. StageOK(e)'
    BY <1>t, <1>16 DEF StagesOK, StageOK, Untouched, Flush, Send, Update, engine
  <2> QED BY <1>t, <1>5, <1>16, <2>1 DEF Flush, Send
<1>17. ASSUME NEW e \in Execs, Cancel(e) \/ Crash(e) PROVE StagesOK'
  <2>1. StageOK(e)'
    BY <1>t, <1>17 DEF StagesOK, StageOK, Untouched, Cancel, Crash, engine
  <2> QED BY <1>t, <1>5, <1>17, <2>1 DEF Cancel, Crash
<1>18. ASSUME NEW e \in Execs, HandlerSteps(e) \/ HandlerErrs(e) PROVE StagesOK'
  BY <1>7, <1>8, <1>9, <1>10, <1>11, <1>12, <1>13, <1>14, <1>15, <1>18
     DEF HandlerSteps, HandlerErrs, Sleep, WaitForEvent, Invoke, InvokeAsync
<1> QED BY <1>1, <1>2, <1>3, <1>4, <1>6, <1>7, <1>16, <1>17, <1>18 DEF Next, EngineSteps

-----------------------------------------------------------------------------
(* Step ids are claimed once. *)

\* Claiming more ids, and leaving a body or an outcome, keep ids fresh.
LEMMA FreshFrame ==
    ASSUME TypeOK, NEW f \in Execs, FreshOK(f),
           executed'[f] = executed[f], memo'[f] = memo[f],
           \A n \in StepNames : counters'[f][n] \in Nat /\ counters'[f][n] >= counters[f][n],
           phase'[f] \in {"body", "undoing"} => phase[f] \in {"body", "undoing"} /\ cur'[f] = cur[f],
           outcome'[f].kind = "yielded" => outcome'[f] = outcome[f]
    PROVE  FreshOK(f)'
<1>1. counters[f] \in [StepNames -> Nat]
  BY DEF TypeOK
<1>2. ASSUME NEW id \in Ids, id[2] < counters[f][id[1]] PROVE id[2] < counters'[f][id[1]]
  <2>1. id[1] \in StepNames /\ id[2] \in Nat
    BY DEF Ids
  <2> QED BY <1>1, <1>2, <2>1
<1>3. ASSUME NEW id \in Ids, Fresh(f, id) PROVE Fresh(f, id)'
  BY <1>2, <1>3 DEF Fresh
<1>4. (phase[f] \in {"body", "undoing"} => Fresh(f, cur[f]))'
  BY <1>3 DEF FreshOK, TypeOK
<1>5. outcome'[f].kind = "yielded" => outcome[f].id \in Ids
  BY DEF TypeOK, Outcomes
<1>6. (outcome[f].kind = "yielded" => Fresh(f, outcome[f].id))'
  <2> SUFFICES ASSUME outcome'[f].kind = "yielded"
               PROVE  Fresh(f, outcome[f].id)'
    OBVIOUS
  <2>1. PICK id : id = outcome[f].id
    OBVIOUS
  <2>2. Fresh(f, id)'
    BY <1>3, <1>5, <2>1 DEF FreshOK
  <2> QED BY <2>1, <2>2
<1>7. \A i \in DOMAIN executed[f] : executed[f][i].id \in Ids
  <2>1. \A i \in DOMAIN executed[f] : executed[f][i] \in Steps
    BY DEF TypeOK
  <2> QED BY <2>1 DEF Steps
<1>8. \A i \in DOMAIN executed[f] :
         executed[f][i].id[2] < counters'[f][executed[f][i].id[1]]
  BY <1>2, <1>7 DEF FreshOK
<1> QED BY <1>4, <1>6, <1>8 DEF FreshOK

\* An id that no counter has passed is fresh, unless it is memoized.
LEMMA ClaimFresh ==
    ASSUME TypeOK, NEW e \in Execs, FreshOK(e), NEW n \in StepNames,
           StepId(e, n) \notin memo[e].completed, ClaimId(e, n),
           memo'[e] = memo[e], executed'[e] = executed[e], NEW id, id = StepId(e, n)
    PROVE  Fresh(e, id)'
<1>1. counters \in [Execs -> [StepNames -> Nat]] /\ executed[e] \in Seq(Steps)
  BY DEF TypeOK
<1>2. counters'[e][n] = counters[e][n] + 1
  BY <1>1 DEF ClaimId
<1>3. id[1] = n /\ id[2] = counters[e][n]
  BY DEF StepId
<1>4. id[2] < counters'[e][id[1]]
  BY <1>1, <1>2, <1>3
<1>5. ASSUME NEW i \in DOMAIN executed[e] PROVE executed[e][i].id # id
  <2>1. executed[e][i].id[2] < counters[e][executed[e][i].id[1]]
    BY DEF FreshOK
  <2> QED BY <1>1, <1>3, <2>1
<1> QED BY <1>4, <1>5 DEF Fresh

\* Counters only grow.
LEMMA ClaimGrows ==
    ASSUME TypeOK, NEW e \in Execs, NEW n \in StepNames, ClaimId(e, n), NEW f \in Execs,
           NEW k \in StepNames
    PROVE  counters'[f][k] \in Nat /\ counters'[f][k] >= counters[f][k]
<1>1. counters \in [Execs -> [StepNames -> Nat]]
  BY DEF TypeOK
<1>2. counters' = [counters EXCEPT ![e] = [counters[e] EXCEPT ![n] = counters[e][n] + 1]]
  BY DEF ClaimId
<1>3. CASE f = e /\ k = n
  BY <1>1, <1>2, <1>3
<1>4. CASE ~(f = e /\ k = n)
  <2>1. counters'[f][k] = counters[f][k]
    BY <1>1, <1>2, <1>4
  <2> QED BY <1>1, <2>1
<1> QED BY <1>3, <1>4

\* Recording the body's id moves it from cur to the recorded steps.
LEMMA RecordFresh ==
    ASSUME TypeOK, NEW e \in Execs, FreshOK(e), NEW st, Record(e, st), Fresh(e, cur[e]),
           memo'[e] = memo[e], counters'[e] = counters[e],
           phase'[e] \notin {"body", "undoing"}, outcome'[e].kind # "yielded"
    PROVE  FreshOK(e)'
<1>1. executed[e] \in Seq(Steps) /\ executed \in [Execs -> Seq(Steps)]
  BY DEF TypeOK
<1> DEFINE r == [id |-> cur[e], status |-> st]
<1>2. executed'[e] = Append(executed[e], r)
  BY <1>1 DEF Record
<1>3. r.id = cur[e]
  OBVIOUS
<1> HIDE DEF r
<1>4. /\ DOMAIN executed'[e] = 1 .. Len(executed[e]) + 1
      /\ \A i \in 1 .. Len(executed[e]) : executed'[e][i] = executed[e][i]
      /\ executed'[e][Len(executed[e]) + 1] = r
  BY <1>1, <1>2
<1>5. DOMAIN executed[e] = 1 .. Len(executed[e]) /\ Len(executed[e]) \in Nat
  BY <1>1
<1>6. ASSUME NEW i \in DOMAIN executed'[e]
      PROVE  /\ executed'[e][i].id[2] < counters[e][executed'[e][i].id[1]]
             /\ executed'[e][i].id \notin memo[e].completed
             /\ \A j \in DOMAIN executed'[e] :
                  executed'[e][j].id = executed'[e][i].id => i = j
  <2> DEFINE L == Len(executed[e])
  <2>a. /\ \A k \in 1 .. L : /\ executed[e][k].id[2] < counters[e][executed[e][k].id[1]]
                             /\ executed[e][k].id \notin memo[e].completed
                             /\ executed[e][k].id # cur[e]
        /\ \A k, j \in 1 .. L : executed[e][j].id = executed[e][k].id => k = j
    BY <1>5 DEF FreshOK, Fresh
  <2>b. cur[e][2] < counters[e][cur[e][1]] /\ cur[e] \notin memo[e].completed
    BY DEF Fresh
  <2>c. /\ \A k \in 1 .. L : executed'[e][k].id = executed[e][k].id
        /\ executed'[e][L + 1].id = cur[e]
    BY <1>3, <1>4
  <2>d. L \in Nat /\ DOMAIN executed'[e] = 1 .. L + 1
    BY <1>4, <1>5
  <2> HIDE DEF L
  <2>1. CASE i \in 1 .. L
    <3>1. \A j \in 1 .. L + 1 : executed'[e][j].id = executed'[e][i].id => i = j
      BY <2>1, <2>a, <2>c, <2>d
    <3> QED BY <2>1, <2>a, <2>c, <2>d, <3>1
  <2>2. CASE i = L + 1
    <3>1. \A j \in 1 .. L + 1 : executed'[e][j].id = executed'[e][i].id => i = j
      BY <2>2, <2>a, <2>c, <2>d
    <3> QED BY <2>2, <2>b, <2>c, <2>d, <3>1
  <2> QED BY <2>1, <2>2, <2>d
<1> QED BY <1>6 DEF FreshOK

LEMMA FreshInit == Init => IdsFresh
BY DEF Init, IdsFresh, FreshOK, Running

LEMMA FreshNext == TypeOK /\ StagesOK /\ IdsFresh /\ [Next]_vars => IdsFresh'
<1> SUFFICES ASSUME TypeOK, StagesOK, IdsFresh, [Next]_vars PROVE IdsFresh'
  OBVIOUS
<1>t. /\ phase \in [Execs -> Phases] /\ counters \in [Execs -> [StepNames -> Nat]]
      /\ outcome \in [Execs -> Outcomes] /\ cur \in [Execs -> Ids \cup {NoId}]
      /\ memo \in [Execs -> [completed : SUBSET Ids, failed : SUBSET Ids]]
      /\ executed \in [Execs -> Seq(Steps)]
  BY DEF TypeOK
<1>q. \A f \in Execs, k \in StepNames : counters[f][k] \in Nat /\ counters[f][k] >= counters[f][k]
  BY <1>t
<1>f. \A f \in Execs : FreshOK(f) /\ StageOK(f)
  BY DEF IdsFresh, StagesOK
<1>1. CASE Assign
  <2>1. ASSUME NEW f \in Execs PROVE FreshOK(f)'
    <3>1. seq \in Nat /\ seq' = seq + 1 /\ f \in Nat
      BY <1>1 DEF Assign, TypeOK, Execs
    <3>2. CASE f = seq + 1
      <4>1. executed[f] = <<>> /\ outcome[f] = Running /\ phase'[f] = "acking"
        BY <1>t, <1>f, <1>1, <3>1, <3>2 DEF StageOK, Untouched, Assign
      <4> QED BY <1>1, <4>1 DEF FreshOK, Assign, Running
    <3>3. CASE f # seq + 1
      <4>1. memo'[f] = memo[f] /\ phase'[f] = phase[f]
        BY <1>t, <1>1, <3>1, <3>3 DEF Assign
      <4>2. UNCHANGED <<executed, counters, cur, outcome>>
        BY <1>1 DEF Assign
      <4> QED BY <1>f, <1>q, <4>1, <4>2, FreshFrame
    <3> QED BY <3>2, <3>3
  <2> QED BY <2>1 DEF IdsFresh
\* Steps that touch neither ids nor bodies.
<1>2. ASSUME UNCHANGED <<memo, counters, executed, cur, outcome>>,
             \A f \in Execs : phase'[f] \in {"body", "undoing"} => phase[f] \in {"body", "undoing"}
      PROVE  IdsFresh'
  BY <1>2, <1>f, <1>q, FreshFrame DEF IdsFresh
<1>3. CASE LeaseExpires \/ UNCHANGED vars \/ \E st \in {"completed", "failed"} : Wake(st)
  BY <1>2, <1>3 DEF LeaseExpires, Wake, vars, engine, local
<1>4. ASSUME NEW m \in net, PutAnswered(m) \/ PutUnanswered(m) PROVE IdsFresh'
  BY <1>t, <1>2, <1>4 DEF PutAnswered, PutUnanswered, local
<1>5. ASSUME NEW e \in Execs,
             \/ PutGivesUp(e) \/ AckAssignment(e) \/ AckFails(e) \/ Compensate(e)
             \/ UndoEnds(e) \/ YieldUnsent(e) \/ Flush(e) \/ CheckpointerStops(e) \/ Cancel(e) \/ Crash(e)
      PROVE  IdsFresh'
  BY <1>t, <1>2, <1>5 DEF PutGivesUp, AckAssignment, AckFails, Compensate, UndoEnds, YieldUnsent, Flush,
     CheckpointerStops, Cancel, Crash
\* Steps that end the handler or change its outcome.
<1>6. ASSUME NEW e \in Execs, UNCHANGED <<memo, counters, executed, cur>>,
             \A f \in Execs : phase'[f] \in {"body", "undoing"} => phase[f] \in {"body", "undoing"},
             \A f \in Execs : outcome'[f].kind = "yielded" => outcome'[f] = outcome[f]
      PROVE  IdsFresh'
  BY <1>6, <1>f, <1>q, FreshFrame DEF IdsFresh
<1>7. ASSUME NEW e \in Execs, FunctionNotFound(e) PROVE IdsFresh'
  BY <1>t, <1>6, <1>7 DEF FunctionNotFound, Failed
<1>8. ASSUME NEW e \in Execs, NEW out, out.kind # "yielded", HandlerReturns(e, out) PROVE IdsFresh'
  BY <1>t, <1>6, <1>8 DEF HandlerReturns, HandlerEnds
<1>9. ASSUME NEW e \in Execs, NEW b, Settle(e, b) PROVE IdsFresh'
  <2>1. \A f \in Execs : phase'[f] \in {"body", "undoing"} => phase[f] \in {"body", "undoing"}
    BY <1>t, <1>9 DEF Settle
  <2>2. \A f \in Execs : outcome'[f].kind = "yielded" => outcome'[f] = outcome[f]
    <3>1. \/ outcome' = outcome
          \/ outcome' = [outcome EXCEPT ![e] = Failed(FALSE)]
          \/ outcome' = [outcome EXCEPT ![e] = outcome[e]]
      BY <1>9 DEF Settle
    <3> QED BY <1>t, <3>1 DEF Failed
  <2> QED BY <1>6, <1>9, <2>1, <2>2 DEF Settle
<1>r. ASSUME NEW e \in Execs, Report(e) PROVE IdsFresh'
  <2>1. \A f \in Execs : phase'[f] \in {"body", "undoing"} => phase[f] \in {"body", "undoing"}
    BY <1>t, <1>r DEF Report
  <2>2. \A f \in Execs : outcome'[f].kind = "yielded" => outcome'[f] = outcome[f]
    <3>1. \/ outcome' = outcome
          \/ outcome' = [outcome EXCEPT ![e] = Failed(FALSE)]
          \/ outcome' = [outcome EXCEPT ![e] = outcome[e]]
      BY <1>r DEF Report, Reported
    <3> QED BY <1>t, <3>1 DEF Failed
  <2> QED BY <1>6, <1>r, <2>1, <2>2 DEF Report
\* Steps that claim an id.
<1>10. ASSUME NEW e \in Execs, NEW n \in StepNames, ClaimId(e, n), UNCHANGED <<memo, executed>>,
              FreshOK(e)',
              \A f \in Execs : f # e => /\ phase'[f] = phase[f] /\ cur'[f] = cur[f]
                                       /\ outcome'[f] = outcome[f]
       PROVE  IdsFresh'
  <2>1. ASSUME NEW f \in Execs, f # e PROVE FreshOK(f)'
    BY <1>f, <1>10, <2>1, ClaimGrows, FreshFrame
  <2> QED BY <1>10, <2>1 DEF IdsFresh
<1>11. ASSUME NEW e \in Execs, NEW n \in StepNames, ClaimId(e, n), UNCHANGED <<memo, executed, outcome>>,
              outcome[e].kind # "yielded",
              \/ phase' = phase /\ cur' = cur
              \/ /\ StepId(e, n) \notin memo[e].completed
                 /\ cur' = [cur EXCEPT ![e] = StepId(e, n)]
                 /\ \E p \in {"body", "undoing"} : phase' = [phase EXCEPT ![e] = p]
       PROVE  IdsFresh'
  <2>1. \A f \in Execs : f # e => phase'[f] = phase[f] /\ cur'[f] = cur[f]
    BY <1>t, <1>11
  <2>2. FreshOK(e)'
    <3>1. CASE phase' = phase /\ cur' = cur
      BY <1>f, <1>11, <3>1, ClaimGrows, FreshFrame
    <3>2. CASE /\ StepId(e, n) \notin memo[e].completed
               /\ cur' = [cur EXCEPT ![e] = StepId(e, n)]
      <4>1. PICK id : id = StepId(e, n)
        OBVIOUS
      <4>2. cur'[e] = id
        BY <1>t, <3>2, <4>1
      <4>3. Fresh(e, id)'
        BY <1>f, <1>11, <3>2, <4>1, ClaimFresh
      <4>4. Fresh(e, cur[e])'
        BY <4>2, <4>3
      <4>5. FreshOK(e) /\ \A k \in StepNames : counters'[e][k] \in Nat /\ counters'[e][k] >= counters[e][k]
        BY <1>f, <1>11, ClaimGrows
      <4>6. \A i \in DOMAIN executed[e] :
               executed[e][i].id[2] < counters'[e][executed[e][i].id[1]]
        <5>1. ASSUME NEW i \in DOMAIN executed[e]
              PROVE  executed[e][i].id[1] \in StepNames /\ executed[e][i].id[2] \in Nat
          <6>1. executed[e][i] \in Steps
            BY <1>t
          <6> QED BY <6>1 DEF Steps, Ids
        <5> QED BY <1>t, <4>5, <5>1 DEF FreshOK
      <4> QED BY <1>11, <4>4, <4>5, <4>6 DEF FreshOK
    <3> QED BY <1>11, <3>1, <3>2
  <2> QED BY <1>10, <1>11, <2>1, <2>2
<1>12. ASSUME NEW e \in Execs, Run(e) PROVE IdsFresh'
  <2>1. CallName(e) \in StepNames
    BY <1>12, IdTypes DEF Run, AtCall
  <2>2. outcome[e].kind # "yielded"
    BY <1>f, <1>12 DEF Run, AtCall, StageOK
  <2> QED BY <1>11, <1>12, <2>1, <2>2 DEF Run, Memoized
<1>13. ASSUME NEW e \in Execs, Undo(e) PROVE IdsFresh'
  <2>1. undo[e] \in 1 .. Len(comps[e])
    BY <1>13 DEF Undo, TypeOK
  <2>2. <<"compensate:", NextUndo(e)>> \in StepNames
    BY <2>1, IdTypes
  <2>3. outcome[e].kind # "yielded"
    BY <1>f, <1>13 DEF Undo, StageOK
  <2> QED BY <1>11, <1>13, <2>2, <2>3 DEF Undo, Memoized
<1>14. ASSUME NEW e \in Execs, NEW op, NEW raises, Await(e, op, raises) PROVE IdsFresh'
  <2>1. CallName(e) \in StepNames
    BY <1>14, IdTypes DEF Await, AtCall
  <2>2. outcome[e].kind # "yielded" /\ phase[e] = "handler"
    BY <1>f, <1>14 DEF Await, AtCall, StageOK
  <2>3. ClaimId(e, CallName(e)) /\ UNCHANGED <<memo, executed, cur>>
    BY <1>14 DEF Await
  <2>4. PICK id : id = StepId(e, CallName(e))
    OBVIOUS
  <2>5. \/ phase' = phase /\ outcome' = outcome
        \/ /\ phase' = [phase EXCEPT ![e] = "settling"]
           /\ outcome' = [outcome EXCEPT ![e] = Failed(FALSE)]
        \/ /\ phase' = [phase EXCEPT ![e] = "settling"]
           /\ outcome' = [outcome EXCEPT ![e] = Yielded(id)]
           /\ id \notin memo[e].completed
    BY <1>14, <2>4 DEF Await, HandlerEnds, Memoized
  <2>6. \A f \in Execs : f # e => phase'[f] = phase[f] /\ outcome'[f] = outcome[f]
    BY <1>t, <2>5
  <2>7. phase'[e] \notin {"body", "undoing"}
    BY <1>t, <2>2, <2>5
  <2>8. CASE outcome'[e].kind # "yielded"
    <3>1. FreshOK(e)'
      BY <1>f, <2>1, <2>3, <2>7, <2>8, ClaimGrows, FreshFrame
    <3> QED BY <1>10, <2>1, <2>3, <2>6, <3>1
  <2>9. CASE outcome'[e].kind = "yielded"
    <3>1. outcome'[e] = Yielded(id) /\ id \notin memo[e].completed
      BY <1>t, <2>2, <2>5, <2>9 DEF Failed
    <3>2. Fresh(e, id)'
      BY <1>f, <2>1, <2>3, <2>4, <3>1, ClaimFresh
    <3>3. Fresh(e, outcome[e].id)'
      BY <3>1, <3>2 DEF Yielded
    <3>4. FreshOK(e) /\ \A k \in StepNames : counters'[e][k] \in Nat /\ counters'[e][k] >= counters[e][k]
      BY <1>f, <2>1, <2>3, ClaimGrows
    <3>5. \A i \in DOMAIN executed[e] :
             executed[e][i].id[2] < counters'[e][executed[e][i].id[1]]
      <4>1. ASSUME NEW i \in DOMAIN executed[e]
            PROVE  executed[e][i].id[1] \in StepNames /\ executed[e][i].id[2] \in Nat
        <5>1. executed[e][i] \in Steps
          BY <1>t
        <5> QED BY <5>1 DEF Steps, Ids
      <4> QED BY <1>t, <3>4, <4>1 DEF FreshOK
    <3>6. FreshOK(e)'
      BY <2>3, <2>7, <3>3, <3>4, <3>5 DEF FreshOK
    <3> QED BY <1>10, <2>1, <2>3, <2>6, <3>6
  <2> QED BY <2>8, <2>9
\* Steps that record the body's result.
<1>15. ASSUME NEW e \in Execs, NEW st, Record(e, st), phase[e] \in {"body", "undoing"},
              UNCHANGED <<memo, counters>>,
              phase'[e] \notin {"body", "undoing"}, outcome'[e].kind # "yielded",
              \A f \in Execs : f # e => /\ phase'[f] = phase[f] /\ cur'[f] = cur[f]
                                       /\ outcome'[f] = outcome[f]
       PROVE  IdsFresh'
  <2>1. FreshOK(e)'
    BY <1>f, <1>15, RecordFresh DEF FreshOK
  <2>2. ASSUME NEW f \in Execs, f # e PROVE FreshOK(f)'
    <3>1. executed'[f] = executed[f]
      BY <1>t, <1>15, <2>2 DEF Record
    <3> QED BY <1>f, <1>q, <1>15, <2>2, <3>1, FreshFrame
  <2> QED BY <2>1, <2>2 DEF IdsFresh
<1>16. ASSUME NEW e \in Execs, NEW st, RunSucceeds(e, st) \/ UndoReturns(e, st) PROVE IdsFresh'
  <2>1. phase[e] \in {"body", "undoing"} /\ outcome[e].kind # "yielded"
    BY <1>f, <1>16 DEF RunSucceeds, UndoReturns, StageOK
  <2>2. /\ Record(e, st) /\ UNCHANGED <<memo, counters, outcome>>
        /\ cur' = [cur EXCEPT ![e] = NoId]
        /\ \E p \in {"handler", "compensating"} : phase' = [phase EXCEPT ![e] = p]
    BY <1>16 DEF RunSucceeds, UndoReturns
  <2>3. /\ phase'[e] \notin {"body", "undoing"}
        /\ \A f \in Execs : f # e => phase'[f] = phase[f] /\ cur'[f] = cur[f]
    BY <1>t, <2>2
  <2> QED BY <1>15, <2>1, <2>2, <2>3
<1>17. ASSUME NEW e \in Execs, NEW r, RunFails(e, r) PROVE IdsFresh'
  <2>1. /\ Record(e, "failed") /\ UNCHANGED <<memo, counters>> /\ phase[e] = "body"
        /\ cur' = [cur EXCEPT ![e] = NoId] /\ phase' = [phase EXCEPT ![e] = "settling"]
        /\ outcome' = [outcome EXCEPT ![e] = Failed(r)]
    BY <1>17 DEF RunFails, HandlerEnds
  <2>2. /\ phase'[e] \notin {"body", "undoing"} /\ outcome'[e].kind # "yielded"
        /\ \A f \in Execs : f # e => /\ phase'[f] = phase[f] /\ cur'[f] = cur[f]
                                    /\ outcome'[f] = outcome[f]
    BY <1>t, <2>1 DEF Failed
  <2> QED BY <1>15, <2>1, <2>2
<1>18. ASSUME NEW e \in Execs, HandlerSteps(e) \/ HandlerErrs(e) PROVE IdsFresh'
  <2>1. Completed.kind # "yielded" /\ \A r \in BOOLEAN : Failed(r).kind # "yielded"
    BY DEF Completed, Failed
  <2> QED BY <1>5, <1>7, <1>8, <1>9, <1>r, <1>12, <1>13, <1>14, <1>16, <1>17, <1>18, <2>1
      DEF HandlerSteps, HandlerErrs, Sleep, WaitForEvent, Invoke, InvokeAsync
<1> QED BY <1>1, <1>3, <1>4, <1>5, <1>18 DEF Next, EngineSteps

-----------------------------------------------------------------------------
(* Updates carry slices of what their execution recorded. *)

\* What a step may do to an execution without spoiling its updates.
Extends(f) ==
    /\ base'[f] = base[f]
    /\ executed'[f] \in Seq(Steps) /\ Len(executed[f]) <= Len(executed'[f])
    /\ \A i \in 1 .. Len(executed[f]) : executed'[f][i] = executed[f][i]
    /\ phase[f] \in {"reporting", "exited"} =>
         phase'[f] \in {"reporting", "exited"} /\ outcome'[f] = outcome[f]

LEMMA SliceFrame ==
    ASSUME TypeOK, NEW m \in Updates, SliceOf(m), seq' \in Nat, seq' >= seq, Extends(m.seq)
    PROVE  SliceOf(m)'
<1>1. /\ m.seq \in Execs /\ m.seq \in Nat /\ m.offset \in Nat /\ m.steps \in Seq(Steps)
      /\ Len(m.steps) \in Nat
  BY DEF Updates, Execs
<1> DEFINE e == m.seq
<1>2. base[e] \in Nat /\ executed[e] \in Seq(Steps) /\ seq \in Nat
  BY <1>1 DEF TypeOK
<1>3. Len(executed[e]) \in Nat /\ Len(executed'[e]) \in Nat
  BY <1>2 DEF Extends
<1>4. m.seq <= seq' /\ m.offset >= base'[e]
  BY <1>1, <1>2 DEF SliceOf, Extends
<1>5. m.offset + Len(m.steps) <= base'[e] + Len(executed'[e])
  <2>1. m.offset + Len(m.steps) <= base[e] + Len(executed[e])
    BY DEF SliceOf
  <2>2. base'[e] = base[e] /\ Len(executed[e]) <= Len(executed'[e])
    BY DEF Extends
  <2>3. \A a, b, c, d, x \in Nat : a + b <= c + d /\ d <= x => a + b <= c + x
    OBVIOUS
  <2> QED BY <1>1, <1>2, <1>3, <2>1, <2>2, <2>3
<1>6. ASSUME NEW i \in 1 .. Len(m.steps)
      PROVE  m.steps[i] = executed'[e][m.offset - base'[e] + i]
  <2>1. m.offset >= base[e] /\ m.offset + Len(m.steps) <= base[e] + Len(executed[e])
    BY DEF SliceOf
  <2>2. \A a, b, c, d, j \in Nat : a >= b /\ a + c <= b + d /\ j \in 1 .. c
            => a - b + j \in 1 .. d
    OBVIOUS
  <2>3. i \in Nat
    BY <1>1
  <2>4. m.offset - base[e] + i \in 1 .. Len(executed[e])
    BY <1>1, <1>2, <1>3, <2>1, <2>2, <2>3
  <2>5. m.steps[i] = executed[e][m.offset - base[e] + i]
    BY DEF SliceOf
  <2> QED BY <2>4, <2>5 DEF Extends
<1>7. m.outcome.kind # "none" => m.outcome = outcome'[e] /\ phase'[e] \in {"reporting", "exited"}
  BY DEF SliceOf, Extends
<1> QED BY <1>4, <1>5, <1>6, <1>7 DEF SliceOf

\* An update built by Update is a slice when its execution is under way.
LEMMA SendsSlice ==
    ASSUME TypeOK, NEW e \in Execs, NEW out \in Outcomes, NEW t \in Seq(Steps),
           e <= seq, cursor[e] <= Len(executed[e]),
           cursor[e] + Len(t) <= Len(executed[e]),
           \A i \in 1 .. Len(t) : t[i] = executed[e][cursor[e] + i],
           seq' = seq, base'[e] = base[e], executed'[e] = executed[e],
           out.kind # "none" => phase'[e] = "reporting" /\ outcome'[e] = out,
           NEW m, m = Update(e, out, t)
    PROVE  SliceOf(m)'
<1>1. /\ base[e] \in Nat /\ cursor[e] \in Nat /\ executed[e] \in Seq(Steps)
      /\ Len(executed[e]) \in Nat /\ Len(t) \in Nat /\ e \in Nat /\ seq \in Nat
  BY DEF TypeOK, Execs
<1>2. m.seq = e /\ m.outcome = out /\ m.offset = base[e] + cursor[e] /\ m.steps = t
  BY DEF Update
<1>3. \A i \in 1 .. Len(t) : m.offset - base[e] + i = cursor[e] + i
  BY <1>1, <1>2
<1>4. m.offset >= base[e] /\ m.offset + Len(m.steps) <= base[e] + Len(executed[e])
  BY <1>1, <1>2
<1> QED BY <1>2, <1>3, <1>4 DEF SliceOf

LEMMA SlicesInit == Init => UpdatesAreSlices
BY DEF Init, UpdatesAreSlices

LEMMA SlicesNext == TypeOK /\ StagesOK /\ UpdatesAreSlices /\ [Next]_vars => UpdatesAreSlices'
<1> SUFFICES ASSUME TypeOK, StagesOK, UpdatesAreSlices, [Next]_vars PROVE UpdatesAreSlices'
  OBVIOUS
<1>t. /\ phase \in [Execs -> Phases] /\ base \in [Execs -> Nat] /\ seq \in Nat
      /\ outcome \in [Execs -> Outcomes] /\ executed \in [Execs -> Seq(Steps)]
      /\ put \in [Execs -> Updates \cup {NoMsg}] /\ net \in SUBSET Updates
      /\ cursor \in [Execs -> Nat]
  BY DEF TypeOK
<1>l. \A f \in Execs : Len(executed[f]) \in Nat /\ cursor[f] <= Len(executed[f]) /\ f \in Nat
  BY <1>t DEF UpdatesAreSlices, Execs
<1>s. \A f \in Execs : StageOK(f)
  BY DEF StagesOK
<1>a. \A f \in Execs : phase[f] # "unassigned" => f <= seq
  BY <1>s, <1>t, <1>l DEF StageOK
<1>k. \A m \in Updates : SliceOf(m) => m.seq \in Execs /\ m.seq <= seq
  BY DEF SliceOf, Updates
\* The shape of every step: old updates stay slices, new ones are slices.
<1>1. ASSUME seq' \in Nat, seq' >= seq, \A f \in Execs : f <= seq => Extends(f),
             \A m \in net' : m \in net \/ SliceOf(m)',
             \A f \in Execs : put'[f] \in {put[f], NoMsg} \/ SliceOf(put[f])',
             \A f \in Execs : cursor'[f] <= Len(executed'[f])
      PROVE  UpdatesAreSlices'
  <2>1. ASSUME NEW m \in Updates, SliceOf(m) PROVE SliceOf(m)'
    BY <1>1, <1>k, <2>1, SliceFrame
  <2>2. \A m \in net' : SliceOf(m)'
    BY <1>1, <1>t, <2>1 DEF UpdatesAreSlices
  <2>3. ASSUME NEW f \in Execs, put'[f] # NoMsg PROVE SliceOf(put[f])'
    <3>1. CASE put'[f] = put[f]
      <4>1. PICK m : m = put[f]
        OBVIOUS
      <4>2. m \in Updates /\ SliceOf(m)
        BY <1>t, <2>3, <3>1, <4>1 DEF UpdatesAreSlices
      <4>3. SliceOf(m)'
        BY <2>1, <4>2
      <4> QED BY <3>1, <4>1, <4>3
    <3> QED BY <1>1, <2>3, <3>1
  <2> QED BY <1>1, <2>2, <2>3 DEF UpdatesAreSlices
\* A step that sends nothing and moves no cursor.
<1>2. ASSUME seq' = seq, \A f \in Execs : Extends(f), net' \subseteq net, cursor' = cursor,
             \A f \in Execs : put'[f] \in {put[f], NoMsg}
      PROVE  UpdatesAreSlices'
  <2>1. ASSUME NEW f \in Execs PROVE cursor'[f] <= Len(executed'[f])
    <3>1. Len(executed'[f]) \in Nat /\ Len(executed[f]) <= Len(executed'[f])
      BY <1>2 DEF Extends
    <3> QED BY <1>t, <1>l, <1>2, <3>1
  <2> QED BY <1>1, <1>2, <1>t, <2>1
\* An execution that keeps its steps and outcome.
<1>e. ASSUME NEW f \in Execs, base'[f] = base[f], executed'[f] = executed[f],
             phase[f] \in {"reporting", "exited"} =>
               phase'[f] \in {"reporting", "exited"} /\ outcome'[f] = outcome[f]
      PROVE  Extends(f)
  BY <1>t, <1>l, <1>e DEF Extends
<1>3. CASE Assign
  <2>1. seq' = seq + 1 /\ UNCHANGED <<net, put, cursor, executed, outcome>>
    BY <1>3 DEF Assign
  <2>2. ASSUME NEW f \in Execs, f <= seq PROVE Extends(f)
    <3>1. base'[f] = base[f] /\ phase'[f] = phase[f]
      BY <1>t, <1>l, <1>3, <2>1, <2>2 DEF Assign
    <3> QED BY <1>e, <2>1, <3>1
  <2> QED BY <1>1, <1>t, <1>l, <2>1, <2>2
<1>4. CASE LeaseExpires \/ UNCHANGED vars \/ \E st \in {"completed", "failed"} : Wake(st)
  <2>1. UNCHANGED <<seq, net, put, cursor, executed, outcome, phase, base>>
    BY <1>4 DEF LeaseExpires, Wake, vars, engine, local
  <2> QED BY <1>2, <1>e, <2>1
<1>5. ASSUME NEW m \in net, PutAnswered(m) PROVE UpdatesAreSlices'
  <2> DEFINE e == m.seq
  <2>1. /\ e \in Execs /\ put[e] = m /\ m # NoMsg /\ m \in Updates /\ Len(m.steps) \in Nat
        /\ m.offset \in Nat
    BY <1>t, <1>5, NullAssumption DEF Updates, PutAnswered
  <2>2. /\ seq' = seq /\ net' = net \ {m} /\ put' = [put EXCEPT ![e] = NoMsg]
        /\ UNCHANGED <<base, executed, outcome>>
    BY <1>5 DEF PutAnswered, EngineHandles, engine
  <2>3. CASE phase[e] = "reporting"
    <3>1. phase' = [phase EXCEPT ![e] = "exited"] /\ cursor' = cursor
      BY <1>5, <2>3 DEF PutAnswered
    <3>2. \A f \in Execs : Extends(f)
      BY <1>t, <1>e, <2>2, <3>1
    <3> QED BY <1>t, <1>2, <2>2, <3>1, <3>2
  <2>4. CASE phase[e] # "reporting"
    <3>1. phase' = phase /\ cursor' = [cursor EXCEPT ![e] = cursor[e] + Len(m.steps)]
      BY <1>5, <2>4 DEF PutAnswered
    <3>2. \A f \in Execs : Extends(f)
      BY <1>e, <2>2, <3>1
    <3>3. m.offset = base[e] + cursor[e]
      BY <1>s, <2>1, <2>4 DEF StageOK
    <3>4. SliceOf(m)
      BY DEF UpdatesAreSlices
    <3>5. cursor[e] + Len(m.steps) <= Len(executed[e])
      <4>1. m.offset + Len(m.steps) <= base[e] + Len(executed[e])
        BY <3>4 DEF SliceOf
      <4>2. base[e] \in Nat /\ cursor[e] \in Nat /\ Len(executed[e]) \in Nat
        BY <1>t, <1>l, <2>1
      <4> QED BY <2>1, <3>3, <4>1, <4>2
    <3>6. \A f \in Execs : cursor'[f] <= Len(executed'[f])
      BY <1>t, <1>l, <2>1, <2>2, <3>1, <3>5
    <3> QED BY <1>t, <1>1, <2>2, <3>2, <3>6
  <2> QED BY <2>3, <2>4
<1>6. ASSUME NEW m \in net, PutUnanswered(m) PROVE UpdatesAreSlices'
  <2>1. /\ seq' = seq /\ net' = net \ {m}
        /\ UNCHANGED <<put, base, executed, outcome, phase, cursor>>
    BY <1>6 DEF PutUnanswered, EngineHandles, engine, local
  <2> QED BY <1>2, <1>e, <2>1
<1>7. ASSUME NEW e \in Execs,
             \/ PutGivesUp(e) \/ AckAssignment(e) \/ AckFails(e) \/ Compensate(e) \/ Run(e)
             \/ Undo(e) \/ UndoEnds(e) \/ YieldUnsent(e) \/ CheckpointerStops(e) \/ Cancel(e) \/ Crash(e)
      PROVE  UpdatesAreSlices'
  <2>1. /\ UNCHANGED <<seq, net, base, executed, outcome, cursor>>
        /\ put' = put \/ put' = [put EXCEPT ![e] = NoMsg]
    BY <1>7 DEF PutGivesUp, AckAssignment, AckFails, Compensate, Run, Undo, UndoEnds, YieldUnsent,
       CheckpointerStops, Cancel, Crash, engine
  <2>2. \A f \in Execs : phase[f] \in {"reporting", "exited"} => phase'[f] \in {"reporting", "exited"}
    BY <1>t, <1>7 DEF PutGivesUp, AckAssignment, AckFails, Compensate, Run, Undo, UndoEnds, YieldUnsent,
       CheckpointerStops, Cancel, Crash, AtCall
  <2> QED BY <1>t, <1>2, <1>e, <2>1, <2>2
\* Steps that end the handler or settle its outcome.
<1>8. ASSUME NEW e \in Execs, phase[e] \notin {"reporting", "exited"},
             UNCHANGED <<seq, net, base, executed, put, cursor>>,
             \A f \in Execs : f # e => phase'[f] = phase[f] /\ outcome'[f] = outcome[f]
      PROVE  UpdatesAreSlices'
  <2>1. \A f \in Execs : Extends(f)
    BY <1>e, <1>8
  <2> QED BY <1>2, <1>8, <2>1
<1>9. ASSUME NEW e \in Execs, NEW op, NEW raises, Await(e, op, raises) PROVE UpdatesAreSlices'
  BY <1>t, <1>8, <1>9 DEF Await, AtCall, HandlerEnds, engine
<1>10. ASSUME NEW e \in Execs, NEW out, HandlerReturns(e, out) PROVE UpdatesAreSlices'
  BY <1>t, <1>8, <1>10 DEF HandlerReturns, HandlerEnds, engine
<1>11. ASSUME NEW e \in Execs, NEW b, Settle(e, b) PROVE UpdatesAreSlices'
  <2>1. \A f \in Execs : f # e => phase'[f] = phase[f] /\ outcome'[f] = outcome[f]
    BY <1>t, <1>11 DEF Settle
  <2> QED BY <1>8, <1>11, <2>1 DEF Settle, engine
\* Steps that record a result.
<1>12. ASSUME NEW e \in Execs, NEW st \in Statuses, Record(e, st), cur[e] \in Ids,
              phase[e] \in {"body", "undoing"}, UNCHANGED <<seq, net, base, put, cursor>>,
              \A f \in Execs : f # e => phase'[f] = phase[f] /\ outcome'[f] = outcome[f]
       PROVE  UpdatesAreSlices'
  <2> DEFINE r == [id |-> cur[e], status |-> st]
  <2>1. r \in Steps
    BY <1>12 DEF Steps
  <2>2. executed' = [executed EXCEPT ![e] = Append(executed[e], r)]
    BY <1>12 DEF Record
  <2> HIDE DEF r
  <2>3. ASSUME NEW f \in Execs PROVE Extends(f)
    <3>1. CASE f = e
      BY <1>t, <1>l, <1>12, <2>1, <2>2, <3>1 DEF Extends
    <3>2. CASE f # e
      BY <1>t, <1>e, <1>12, <2>2, <3>2
    <3> QED BY <3>1, <3>2
  <2> QED BY <1>2, <1>12, <2>3
<1>13. ASSUME NEW e \in Execs, NEW st \in Statuses, RunSucceeds(e, st) \/ UndoReturns(e, st)
       PROVE  UpdatesAreSlices'
  BY <1>t, <1>12, <1>13 DEF RunSucceeds, UndoReturns, TypeOK, engine
<1>14. ASSUME NEW e \in Execs, NEW r, RunFails(e, r) PROVE UpdatesAreSlices'
  BY <1>t, <1>12, <1>14 DEF RunFails, HandlerEnds, TypeOK, engine, Statuses
\* Steps that send an update.
<1>15. ASSUME NEW e \in Execs, NEW m, SliceOf(m)', Send(e, m),
              UNCHANGED <<seq, base, executed, cursor>>,
              \A f \in Execs : phase[f] \in {"reporting", "exited"} =>
                phase'[f] \in {"reporting", "exited"} /\ outcome'[f] = outcome[f]
       PROVE  UpdatesAreSlices'
  <2>1. net' = net \cup {m} /\ put' = [put EXCEPT ![e] = m]
    BY <1>15 DEF Send
  <2>2. \A f \in Execs : Extends(f)
    BY <1>e, <1>15
  <2>3. \A f \in Execs : put'[f] = put[f] \/ (f = e /\ put'[e] = m)
    BY <1>t, <2>1
  <2>4. SliceOf(put[e])' \/ put'[e] # m
    BY <1>15
  <2>5. \A f \in Execs : put'[f] \in {put[f], NoMsg} \/ SliceOf(put[f])'
    BY <2>3, <2>4
  <2> QED BY <1>t, <1>l, <1>1, <1>15, <2>1, <2>2, <2>5
<1>16. ASSUME NEW e \in Execs, FunctionNotFound(e) PROVE UpdatesAreSlices'
  <2>1. PICK m : m = Update(e, Failed(FALSE), <<>>)
    OBVIOUS
  <2>2. /\ Send(e, m) /\ UNCHANGED <<seq, base, executed, cursor>> /\ phase[e] = "acking"
        /\ phase' = [phase EXCEPT ![e] = "reporting"]
        /\ outcome' = [outcome EXCEPT ![e] = Failed(FALSE)]
    BY <1>16, <2>1 DEF FunctionNotFound, engine
  <2> DEFINE t == <<>>
  <2>a. Failed(FALSE) \in Outcomes
    BY OutcomeTypes
  <2>b. t \in Seq(Steps) /\ Len(t) = 0
    OBVIOUS
  <2>c. \A i \in 1 .. Len(t) : t[i] = executed[e][cursor[e] + i]
    BY <2>b
  <2>4. phase'[e] = "reporting" /\ outcome'[e] = Failed(FALSE) /\ e <= seq
    BY <1>t, <1>a, <2>2
  <2>5. cursor[e] + Len(t) <= Len(executed[e])
    BY <1>t, <1>l, <2>b
  <2> HIDE DEF t
  <2>6. SliceOf(m)'
    BY <1>l, <2>1, <2>2, <2>a, <2>b, <2>c, <2>4, <2>5, SendsSlice DEF t
  <2> QED BY <1>t, <1>15, <2>2, <2>6
<1>17. ASSUME NEW e \in Execs, Report(e) PROVE UpdatesAreSlices'
  <2>1. CASE cancelled[e]
    <3>1. /\ UNCHANGED <<seq, net, base, executed, put, cursor, outcome>>
          /\ phase[e] = "finishing" /\ phase' = [phase EXCEPT ![e] = "exited"]
      BY <1>17, <2>1 DEF Report, engine
    <3> QED BY <1>t, <1>8, <3>1
  <2>2. CASE ~cancelled[e]
    <3> DEFINE t == EncodableSteps(Unsaved(e))
    <3>1. PICK m : m = Update(e, Reported(e), t)
      OBVIOUS
    <3>2. /\ Send(e, m) /\ UNCHANGED <<seq, base, executed, cursor>>
          /\ phase[e] = "finishing" /\ phase' = [phase EXCEPT ![e] = "reporting"]
          /\ outcome' = [outcome EXCEPT ![e] = Reported(e)]
      BY <1>17, <2>2, <3>1 DEF Report, engine
    <3>3. /\ t \in Seq(Steps) /\ cursor[e] + Len(t) <= Len(executed[e])
          /\ \A i \in 1 .. Len(t) : t[i] = executed[e][cursor[e] + i]
      BY <1>l, SliceType
    <3> HIDE DEF t
    <3>4. phase'[e] = "reporting" /\ outcome'[e] = Reported(e) /\ e <= seq
      BY <1>t, <1>a, <3>2
    <3>o. Reported(e) \in Outcomes
      BY <1>t, OutcomeTypes DEF Reported
    <3>5. SliceOf(m)'
      BY <1>l, <3>1, <3>2, <3>3, <3>4, <3>o, SendsSlice
    <3> QED BY <1>t, <1>15, <3>2, <3>5
  <2> QED BY <2>1, <2>2
<1>18. ASSUME NEW e \in Execs, Flush(e) PROVE UpdatesAreSlices'
  <2> DEFINE t == Batch(e)
  <2>1. PICK m : m = Update(e, Running, t)
    OBVIOUS
  <2>2. /\ Send(e, m) /\ UNCHANGED <<seq, base, executed, cursor, outcome, phase>>
        /\ ckpt[e] = "ticking"
    BY <1>18, <2>1 DEF Flush, engine
  <2>3. /\ t \in Seq(Steps) /\ cursor[e] + Len(t) <= Len(executed[e])
        /\ \A i \in 1 .. Len(t) : t[i] = executed[e][cursor[e] + i]
    BY <1>l, SliceType
  <2> HIDE DEF t
  <2>4. Running \in Outcomes /\ Running.kind = "none"
    BY OutcomeTypes DEF Running
  <2>5. e <= seq
    BY <1>s, <1>t, <1>l, <2>2 DEF StageOK, Untouched
  <2>6. SliceOf(m)'
    BY <1>l, <2>1, <2>2, <2>3, <2>4, <2>5, SendsSlice
  <2> QED BY <1>15, <2>2, <2>6
<1>19. ASSUME NEW e \in Execs, HandlerSteps(e) \/ HandlerErrs(e) PROVE UpdatesAreSlices'
  BY <1>7, <1>9, <1>10, <1>11, <1>13, <1>14, <1>16, <1>17, <1>19
     DEF HandlerSteps, HandlerErrs, Sleep, WaitForEvent, Invoke, InvokeAsync, Statuses
<1> QED BY <1>3, <1>4, <1>5, <1>6, <1>7, <1>18, <1>19 DEF Next, EngineSteps

-----------------------------------------------------------------------------
(* The stored rows. *)

\* Storing an update of the execution that holds the run keeps every row and
\* adds what the execution recorded next.
LEMMA Stored ==
    ASSUME TypeOK, UpdatesAreSlices, RowsMatch, NEW m \in net, Current(m.seq),
           NEW r, r = StoreRows(m)
    PROVE  /\ r \in Seq(Rows) /\ Len(rows) <= Len(r) /\ m.offset + Len(m.steps) <= Len(r)
           /\ \A i \in 1 .. Len(rows) : r[i] = rows[i]
           /\ Holds(m.seq, r)
<1> DEFINE e == m.seq
           B == base[e]
           L == Len(rows)
           o == m.offset
           k == Len(m.steps)
           x == executed[e]
<1>1. m \in Updates /\ e \in Execs /\ o \in Nat /\ m.steps \in Seq(Steps) /\ k \in Nat
  BY DEF TypeOK, Updates
<1>2. B \in Nat /\ rows \in Seq(Rows) /\ L \in Nat /\ x \in Seq(Steps) /\ Len(x) \in Nat
  BY <1>1 DEF TypeOK
<1>3. r \in Seq(Rows)
  BY <1>1, StoreRowsType
<1>4. /\ o >= B /\ o + k <= B + Len(x)
      /\ \A i \in 1 .. k : m.steps[i] = x[o - B + i]
  BY DEF UpdatesAreSlices, SliceOf
<1>5. /\ B <= L /\ L <= B + Len(x) /\ o <= L
      /\ \A i \in B + 1 .. L : rows[i] = x[i - B]
      /\ \A i \in 1 .. B : rows[i].status = "completed" => rows[i].id \in memo[e].completed
  BY <1>1 DEF RowsMatch, Holds
<1>6. PICK n : n = IF o + k > L THEN o + k ELSE L
  OBVIOUS
<1>7. n \in Nat /\ L <= n /\ o + k <= n /\ n <= B + Len(x)
  BY <1>1, <1>2, <1>4, <1>5, <1>6
<1>8. r = [i \in 1 .. n |-> IF i > o /\ i <= o + k THEN m.steps[i - o]
                            ELSE IF i <= L THEN rows[i]
                            ELSE [id |-> NoId, status |-> "missing"]]
  BY <1>6 DEF StoreRows
<1>9. Len(r) = n
  BY <1>3, <1>7, <1>8
<1> HIDE DEF e, B, L, o, k, x
<1>10. \A i \in 1 .. k : o + i - B = o - B + i
  BY <1>1, <1>2
<1>11. ASSUME NEW i \in 1 .. n, i > o, i <= o + k PROVE r[i] = x[i - B] /\ i > B
  <2>1. r[i] = m.steps[i - o]
    BY <1>8, <1>11
  <2>2. i - o \in 1 .. k /\ o - B + (i - o) = i - B /\ i > B
    BY <1>1, <1>2, <1>4, <1>7, <1>11
  <2> QED BY <1>4, <2>1, <2>2
<1>12. ASSUME NEW i \in 1 .. n, ~(i > o /\ i <= o + k) PROVE r[i] = rows[i] /\ i <= L
  <2>1. i <= L
    BY <1>1, <1>2, <1>5, <1>6, <1>7, <1>12
  <2> QED BY <1>8, <1>12, <2>1
<1>13. ASSUME NEW i \in 1 .. L PROVE r[i] = rows[i]
  <2>1. i \in 1 .. n
    BY <1>2, <1>7
  <2>2. CASE i > o /\ i <= o + k
    <3>1. r[i] = x[i - B] /\ i \in B + 1 .. L
      BY <1>2, <1>11, <2>1, <2>2
    <3> QED BY <1>5, <3>1
  <2> QED BY <1>12, <2>1, <2>2
<1>14. ASSUME NEW i \in B + 1 .. n PROVE r[i] = x[i - B]
  <2>1. i \in 1 .. n
    BY <1>2, <1>7
  <2>2. CASE i > o /\ i <= o + k
    BY <1>11, <2>1, <2>2
  <2>3. CASE ~(i > o /\ i <= o + k)
    <3>1. r[i] = rows[i] /\ i <= L
      BY <1>12, <2>1, <2>3
    <3>2. i \in B + 1 .. L
      BY <1>2, <1>7, <3>1
    <3> QED BY <1>5, <3>1, <3>2
  <2> QED BY <2>2, <2>3
<1>15. ASSUME NEW i \in 1 .. B, r[i].status = "completed" PROVE r[i].id \in memo[e].completed
  <2>1. i \in 1 .. L
    BY <1>2, <1>5
  <2> QED BY <1>5, <1>13, <1>15, <2>1
<1>16. B <= n
  BY <1>2, <1>5, <1>7
<1>17. Holds(e, r)
  BY <1>7, <1>9, <1>14, <1>15, <1>16 DEF Holds, B, x
<1> QED BY <1>3, <1>7, <1>9, <1>13, <1>17 DEF e, L, o, k

\* What an execution holds has a completed row for no fresh id, no two
\* completed rows of one id, and no hole, if its first rows have not.
LEMMA HeldRows ==
    ASSUME TypeOK, IdsFresh, NEW e \in Execs, NEW r \in Seq(Rows), Holds(e, r)
    PROVE  /\ \A id : Fresh(e, id) => id \notin IdsWith(r, "completed")
           /\ \A i \in DOMAIN r : i > base[e] => r[i].status # "missing"
           /\ OnceIn(r, 1 .. base[e]) => OnceIn(r, DOMAIN r)
<1> DEFINE B == base[e]
           x == executed[e]
<1>1. /\ B \in Nat /\ x \in Seq(Steps) /\ Len(x) \in Nat /\ Len(r) \in Nat
      /\ DOMAIN r = 1 .. Len(r) /\ DOMAIN x = 1 .. Len(x)
  BY DEF TypeOK
<1>2. /\ B <= Len(r) /\ Len(r) <= B + Len(x)
      /\ \A i \in B + 1 .. Len(r) : r[i] = x[i - B]
      /\ \A i \in 1 .. B : r[i].status = "completed" => r[i].id \in memo[e].completed
  BY DEF Holds
<1>3. /\ \A i \in 1 .. Len(x) : x[i].id \notin memo[e].completed
      /\ \A i, j \in 1 .. Len(x) : x[j].id = x[i].id => i = j
  BY <1>1 DEF IdsFresh, FreshOK
<1>4. \A id : Fresh(e, id) => /\ id \notin memo[e].completed
                              /\ \A i \in 1 .. Len(x) : x[i].id # id
  BY <1>1 DEF Fresh
<1>x. \A i \in 1 .. Len(x) : x[i].status # "missing"
  <2>1. \A i \in 1 .. Len(x) : x[i] \in Steps
    BY <1>1
  <2> QED BY <2>1 DEF Steps, Statuses
<1> HIDE DEF B, x
<1>5. ASSUME NEW i \in 1 .. Len(r)
      PROVE  \/ i \in 1 .. B
             \/ i > B /\ i - B \in 1 .. Len(x) /\ r[i] = x[i - B]
  <2>1. CASE i <= B
    BY <1>1, <2>1
  <2>2. CASE i > B
    <3>1. i \in B + 1 .. Len(r) /\ i - B \in 1 .. Len(x)
      BY <1>1, <1>2, <2>2
    <3> QED BY <1>2, <2>2, <3>1
  <2> QED BY <1>1, <2>1, <2>2
<1>6. ASSUME NEW id, Fresh(e, id), NEW i \in 1 .. Len(r), r[i].status = "completed"
      PROVE  r[i].id # id
  BY <1>2, <1>4, <1>5, <1>6
<1>7. \A id : Fresh(e, id) => id \notin IdsWith(r, "completed")
  BY <1>1, <1>6 DEF IdsWith
<1>8. \A i \in DOMAIN r : i > B => r[i].status # "missing"
  BY <1>1, <1>5, <1>x
<1>9. ASSUME OnceIn(r, 1 .. B),
             NEW i \in 1 .. Len(r), NEW j \in 1 .. Len(r),
             r[i].status = "completed", r[j].status = "completed", r[i].id = r[j].id
      PROVE  i = j
  <2>1. CASE i \in 1 .. B /\ j \in 1 .. B
    BY <1>9, <2>1 DEF OnceIn
  <2>2. CASE i \in 1 .. B /\ j \notin 1 .. B
    BY <1>2, <1>3, <1>5, <1>9, <2>2
  <2>3. CASE i \notin 1 .. B /\ j \in 1 .. B
    BY <1>2, <1>3, <1>5, <1>9, <2>3
  <2>4. CASE i \notin 1 .. B /\ j \notin 1 .. B
    <3>1. i - B \in 1 .. Len(x) /\ j - B \in 1 .. Len(x) /\ x[i - B].id = x[j - B].id
      BY <1>5, <1>9, <2>4
    <3>2. i - B = j - B
      BY <1>3, <3>1
    <3> QED BY <1>1, <3>2
  <2> QED BY <2>1, <2>2, <2>3, <2>4
<1>10. OnceIn(r, 1 .. B) => OnceIn(r, DOMAIN r)
  BY <1>1, <1>9 DEF OnceIn
<1> QED BY <1>7, <1>8, <1>10 DEF B

\* What a step of one execution does to the recorded steps and the updates
\* under way: steps are only appended, and an update is sent from the cursor.
LEMMA LocalStep ==
    ASSUME TypeOK, NEW e \in Execs,
           \/ HandlerSteps(e) \/ HandlerErrs(e) \/ PutGivesUp(e) \/ Flush(e)
           \/ CheckpointerStops(e) \/ Cancel(e) \/ Crash(e)
    PROVE  /\ UNCHANGED <<engine, memo, base, cursor>>
           /\ \A f \in Execs : /\ Len(executed[f]) <= Len(executed'[f])
                               /\ Len(executed'[f]) \in Nat
                               /\ \A i \in 1 .. Len(executed[f]) : executed'[f][i] = executed[f][i]
           /\ \A m \in net' : m \in net \/ m.offset = base[m.seq] + cursor[m.seq]
<1> DEFINE Grows == \A f \in Execs :
             /\ Len(executed[f]) <= Len(executed'[f]) /\ Len(executed'[f]) \in Nat
             /\ \A i \in 1 .. Len(executed[f]) : executed'[f][i] = executed[f][i]
           Quiet == UNCHANGED <<engine, memo, base, cursor>>
           Sends == \A m \in net' : m \in net \/ m.offset = base[m.seq] + cursor[m.seq]
<1>t. executed \in [Execs -> Seq(Steps)]
  BY DEF TypeOK
<1>l. \A f \in Execs : Len(executed[f]) \in Nat /\ Len(executed[f]) <= Len(executed[f])
  BY <1>t
<1>g. ASSUME executed' = executed PROVE Grows
  BY <1>l, <1>g
<1>1. ASSUME \/ AckAssignment(e) \/ AckFails(e) \/ Run(e) \/ Compensate(e)
             \/ (\E b \in BOOLEAN : Settle(e, b)) \/ Undo(e) \/ UndoEnds(e) \/ YieldUnsent(e) \/ PutGivesUp(e)
             \/ CheckpointerStops(e) \/ Cancel(e) \/ Crash(e)
      PROVE  Quiet /\ executed' = executed /\ net' = net
  BY <1>1 DEF AckAssignment, AckFails, Run, Compensate, Settle, Undo, UndoEnds, YieldUnsent, PutGivesUp,
     CheckpointerStops, Cancel, Crash
<1>2. ASSUME NEW op, NEW raises, Await(e, op, raises)
      PROVE  Quiet /\ executed' = executed /\ net' = net
  BY <1>2 DEF Await
<1>3. ASSUME NEW out, HandlerReturns(e, out)
      PROVE  Quiet /\ executed' = executed /\ net' = net
  BY <1>3 DEF HandlerReturns
<1>4. ASSUME NEW out, NEW t, Send(e, Update(e, out, t)) PROVE Sends
  BY <1>4 DEF Send, Update
<1>5. ASSUME FunctionNotFound(e) \/ Report(e) \/ Flush(e)
      PROVE  Quiet /\ executed' = executed /\ Sends
  <2>1. Quiet /\ executed' = executed
    BY <1>5 DEF FunctionNotFound, Report, Flush
  <2>2. CASE FunctionNotFound(e) \/ Flush(e)
    BY <1>4, <2>2 DEF FunctionNotFound, Flush
  <2>3. CASE Report(e)
    BY <1>4, <2>3 DEF Report
  <2> QED BY <1>5, <2>1, <2>2, <2>3
<1>6. ASSUME NEW st, Record(e, st) PROVE Grows
  <2>1. ASSUME NEW f \in Execs
        PROVE  /\ Len(executed[f]) <= Len(executed'[f]) /\ Len(executed'[f]) \in Nat
               /\ \A i \in 1 .. Len(executed[f]) : executed'[f][i] = executed[f][i]
    <3> DEFINE r == [id |-> cur[e], status |-> st]
    <3>1. executed' = [executed EXCEPT ![e] = Append(executed[e], r)]
      BY <1>6 DEF Record
    <3> HIDE DEF r
    <3>2. CASE f = e
      BY <1>t, <1>l, <3>1, <3>2
    <3>3. CASE f # e
      BY <1>t, <1>l, <3>1, <3>3
    <3> QED BY <3>2, <3>3
  <2> QED BY <2>1
<1>7. ASSUME \/ \E st \in {"completed", "unencodable"} : RunSucceeds(e, st)
             \/ \E r \in BOOLEAN : RunFails(e, r)
             \/ \E st \in {"completed", "failed"} : UndoReturns(e, st)
      PROVE  Quiet /\ Grows /\ net' = net
  BY <1>6, <1>7 DEF RunSucceeds, RunFails, UndoReturns
<1>8. net' = net => Sends
  OBVIOUS
<1> HIDE DEF Grows, Quiet, Sends
<1>9. Quiet /\ Grows /\ Sends
  BY <1>g, <1>1, <1>2, <1>3, <1>5, <1>7, <1>8
     DEF HandlerSteps, HandlerErrs, Sleep, WaitForEvent, Invoke, InvokeAsync
<1> QED BY <1>9 DEF Grows, Quiet, Sends

StoredInv == RowsMatch /\ WaitsForNew /\ CompletedOnce /\ NoGap

LEMMA StoredInit == Init => StoredInv
BY DEF Init, StoredInv, RowsMatch, WaitsForNew, CompletedOnce, OnceIn, NoGap, Current

\* What an update of the execution that holds the run does to the rows.
LEMMA StoredUpdate ==
    ASSUME TypeOK, StagesOK, IdsFresh, UpdatesAreSlices, StoredInv, NEW m \in net,
           EngineHandles(m), net' \subseteq net, UNCHANGED <<base, memo, executed>>,
           \A f \in Execs : \/ cursor'[f] = cursor[f]
                            \/ /\ f = m.seq
                               /\ base[f] + cursor'[f] = m.offset + Len(m.steps)
    PROVE  StoredInv'
<1>1. m \in Updates /\ m.seq \in Execs /\ m.offset \in Nat /\ Len(m.steps) \in Nat
  BY DEF TypeOK, Updates
<1>t. rows \in Seq(Rows) /\ Len(rows) \in Nat
  BY DEF TypeOK
<1>2. CASE ~Current(m.seq)
  <2>1. UNCHANGED <<rows, status, seq, waiting>>
    BY <1>2 DEF EngineHandles, engine
  <2>2. \A f \in Execs : Current(f) => cursor'[f] = cursor[f]
    BY <1>2
  <2>3. RowsMatch'
    BY <2>1, <2>2 DEF StoredInv, RowsMatch, Holds, Current
  <2> QED BY <2>1, <2>3 DEF StoredInv, WaitsForNew, CompletedOnce, NoGap
<1>3. CASE Current(m.seq)
  <2>1. RecordOutcome(m) /\ seq' = seq /\ m.seq = seq /\ status = "running"
    BY <1>3 DEF EngineHandles, Current
  <2>2. PICK r : r = StoreRows(m)
    OBVIOUS
  <2>3. rows' = r
    BY <2>1, <2>2 DEF RecordOutcome
  <2>4. /\ r \in Seq(Rows) /\ Len(rows) <= Len(r) /\ m.offset + Len(m.steps) <= Len(r)
        /\ \A i \in 1 .. Len(rows) : r[i] = rows[i]
        /\ Holds(m.seq, r) /\ Len(r) \in Nat
    BY <1>3, <2>2, Stored DEF StoredInv
  <2>5. Holds(m.seq, r)'
    BY <2>4 DEF Holds
  <2>6. RowsMatch'
    <3> SUFFICES ASSUME NEW f \in Execs, Current(f)'
                 PROVE  (/\ Holds(f, rows) /\ base[f] + cursor[f] <= Len(rows)
                         /\ \A u \in net : u.seq = f => u.offset <= Len(rows))'
      BY DEF RowsMatch
    <3>1. f = m.seq
      BY <2>1 DEF Current
    <3>2. base[f] + cursor[f] <= Len(rows) /\ \A u \in net : u.seq = f => u.offset <= Len(rows)
      BY <1>3, <3>1 DEF StoredInv, RowsMatch
    <3>3. base[f] \in Nat /\ cursor[f] \in Nat /\ \A u \in net : u.offset \in Nat
      BY DEF TypeOK, Updates
    <3>4. base[f] + cursor'[f] <= Len(r)
      <4>1. CASE cursor'[f] = cursor[f]
        BY <1>t, <2>4, <3>2, <3>3, <4>1
      <4>2. CASE base[f] + cursor'[f] = m.offset + Len(m.steps)
        BY <2>4, <4>2
      <4> QED BY <4>1, <4>2
    <3>5. \A u \in net' : u.seq = f => u.offset <= Len(r)
      BY <1>t, <2>4, <3>2, <3>3
    <3> QED BY <2>3, <2>5, <3>1, <3>4, <3>5
  <2>7. /\ DOMAIN rows = 1 .. Len(rows) /\ DOMAIN r = 1 .. Len(r) /\ base[m.seq] \in Nat
        /\ base[m.seq] <= Len(rows)
    BY <1>1, <1>3, <1>t, <2>4 DEF TypeOK, StoredInv, RowsMatch, Holds
  <2>8. \A i \in 1 .. base[m.seq] : i \in DOMAIN rows /\ r[i] = rows[i]
    BY <1>t, <2>4, <2>7
  <2>h. /\ \A id : Fresh(m.seq, id) => id \notin IdsWith(r, "completed")
        /\ \A i \in DOMAIN r : i > base[m.seq] => r[i].status # "missing"
        /\ OnceIn(r, 1 .. base[m.seq]) => OnceIn(r, DOMAIN r)
    BY <1>1, <2>4, HeldRows
  <2>9. CompletedOnce'
    <3>1. OnceIn(r, 1 .. base[m.seq])
      BY <2>8 DEF StoredInv, CompletedOnce, OnceIn
    <3> QED BY <2>3, <2>h, <3>1 DEF CompletedOnce
  <2>10. NoGap'
    <3>1. ASSUME NEW i \in DOMAIN r PROVE r[i].status # "missing"
      <4>1. CASE i \in 1 .. base[m.seq]
        BY <2>8, <4>1 DEF StoredInv, NoGap
      <4>2. CASE i \notin 1 .. base[m.seq]
        <5>1. i > base[m.seq]
          BY <2>7, <2>4, <4>2
        <5> QED BY <2>h, <5>1
      <4> QED BY <4>1, <4>2
    <3> QED BY <2>3, <3>1 DEF NoGap
  <2>11. WaitsForNew'
    <3> SUFFICES ASSUME status' = "waiting" PROVE waiting' \notin IdsWith(r, "completed")
      BY <2>3 DEF WaitsForNew
    <3>1. m.outcome \in Outcomes
      BY <1>1 DEF Updates
    <3>2. m.outcome.kind \in {"none", "completed", "failed", "yielded"}
      BY <3>1 DEF Outcomes
    <3>3. m.outcome.kind = "yielded"
      BY <2>1, <3>2 DEF RecordOutcome
    <3>4. m.outcome = outcome[m.seq]
      BY <3>3 DEF UpdatesAreSlices, SliceOf
    <3>5. Fresh(m.seq, outcome[m.seq].id)
      BY <1>1, <3>3, <3>4 DEF IdsFresh, FreshOK
    <3>6. waiting' = outcome[m.seq].id
      BY <2>1, <3>4 DEF RecordOutcome
    <3> QED BY <2>h, <3>5, <3>6
  <2> QED BY <2>6, <2>9, <2>10, <2>11 DEF StoredInv
<1> QED BY <1>2, <1>3

LEMMA StoredNext ==
    TypeOK /\ StagesOK /\ IdsFresh /\ UpdatesAreSlices /\ StoredInv /\ [Next]_vars => StoredInv'
<1> SUFFICES ASSUME TypeOK, StagesOK, IdsFresh, UpdatesAreSlices, StoredInv, [Next]_vars
             PROVE  StoredInv'
  OBVIOUS
<1>t. /\ rows \in Seq(Rows) /\ Len(rows) \in Nat /\ DOMAIN rows = 1 .. Len(rows)
      /\ base \in [Execs -> Nat] /\ cursor \in [Execs -> Nat] /\ seq \in Nat
      /\ memo \in [Execs -> [completed : SUBSET Ids, failed : SUBSET Ids]]
      /\ executed \in [Execs -> Seq(Steps)] /\ net \subseteq Updates
  BY DEF TypeOK
<1>1. CASE Assign
  <2>1. /\ UNCHANGED <<rows, net, executed, cursor>> /\ seq' = seq + 1 /\ status' = "running"
        /\ memo' = [memo EXCEPT ![seq + 1] =
                      [completed |-> IdsWith(rows, "completed"),
                       failed |-> IdsWith(rows, "failed") \cap InvokeIds]]
        /\ base' = [base EXCEPT ![seq + 1] = Len(rows)]
    BY <1>1 DEF Assign
  <2>2. RowsMatch'
    <3> SUFFICES ASSUME NEW f \in Execs, Current(f)'
                 PROVE  (/\ Holds(f, rows) /\ base[f] + cursor[f] <= Len(rows)
                         /\ \A u \in net : u.seq = f => u.offset <= Len(rows))'
      BY DEF RowsMatch
    <3>1. f = seq + 1 /\ f \in Nat
      BY <2>1 DEF Current, Execs
    <3>2. executed[f] = <<>> /\ cursor[f] = 0
      BY <1>t, <3>1 DEF StagesOK, StageOK, Untouched
    <3>3. /\ base'[f] = Len(rows) /\ memo'[f].completed = IdsWith(rows, "completed")
          /\ Len(executed'[f]) = 0 /\ cursor'[f] = 0 /\ rows' = rows
      BY <1>t, <2>1, <3>1, <3>2
    <3>4. \A i \in 1 .. Len(rows) : rows[i].status = "completed" => rows[i].id \in IdsWith(rows, "completed")
      BY <1>t DEF IdsWith
    <3>5. Holds(f, rows)'
      BY <1>t, <3>3, <3>4 DEF Holds
    <3>6. \A u \in net : u.seq # f
      BY <1>t, <3>1 DEF UpdatesAreSlices, SliceOf, Updates, Execs
    <3> QED BY <1>t, <2>1, <3>3, <3>5, <3>6
  <2> QED BY <2>1, <2>2 DEF StoredInv, WaitsForNew, CompletedOnce, NoGap
<1>2. CASE LeaseExpires
  <2>1. status' = "ready" /\ rows' = rows
    BY <1>2 DEF LeaseExpires
  <2> QED BY <2>1 DEF StoredInv, RowsMatch, Current, WaitsForNew, CompletedOnce, NoGap
<1>3. ASSUME NEW st \in {"completed", "failed"}, Wake(st) PROVE StoredInv'
  <2> DEFINE w == [id |-> waiting, status |-> st]
  <2>1. status = "waiting" /\ status' = "ready" /\ rows' = Append(rows, w)
    BY <1>3 DEF Wake
  <2>2. waiting \notin IdsWith(rows, "completed")
    BY <2>1 DEF StoredInv, WaitsForNew
  <2>3. w.id = waiting /\ w.status \in {"completed", "failed"}
    OBVIOUS
  <2> HIDE DEF w
  <2>4. /\ DOMAIN rows' = 1 .. Len(rows) + 1
        /\ \A i \in 1 .. Len(rows) : rows'[i] = rows[i]
        /\ rows'[Len(rows) + 1] = w
    BY <1>t, <2>1
  <2>p. \A i \in DOMAIN rows' : i \in 1 .. Len(rows) \/ i = Len(rows) + 1
    <3>1. \A k \in Nat : \A i \in 1 .. k + 1 : i \in 1 .. k \/ i = k + 1
      OBVIOUS
    <3> QED BY <1>t, <2>4, <3>1
  <2>5. \A i \in 1 .. Len(rows) : rows[i].status = "completed" => rows[i].id # w.id
    BY <1>t, <2>2, <2>3 DEF IdsWith
  <2>6. OnceIn(rows', DOMAIN rows')
    <3>1. OnceIn(rows, 1 .. Len(rows))
      BY <1>t DEF StoredInv, CompletedOnce
    <3> QED BY <2>4, <2>5, <2>p, <3>1 DEF OnceIn
  <2>7. \A i \in DOMAIN rows' : rows'[i].status # "missing"
    <3>2. \A i \in 1 .. Len(rows) : rows[i].status # "missing"
      BY <1>t DEF StoredInv, NoGap
    <3> QED BY <2>3, <2>4, <2>p, <3>2
  <2> QED BY <2>1, <2>6, <2>7 DEF StoredInv, RowsMatch, Current, WaitsForNew, CompletedOnce, NoGap
<1>4. ASSUME NEW m \in net, PutAnswered(m) PROVE StoredInv'
  <2>1. EngineHandles(m) /\ net' \subseteq net /\ UNCHANGED <<base, memo, executed>>
    BY <1>4 DEF PutAnswered
  <2>2. ASSUME NEW f \in Execs
        PROVE  \/ cursor'[f] = cursor[f]
               \/ f = m.seq /\ base[f] + cursor'[f] = m.offset + Len(m.steps)
    <3>1. m.seq \in Execs /\ put[m.seq] = m /\ m # NoMsg /\ Len(m.steps) \in Nat
      BY <1>t, <1>4, NullAssumption DEF PutAnswered, Updates
    <3>2. CASE phase[m.seq] = "reporting"
      BY <1>4, <3>2 DEF PutAnswered
    <3>3. CASE phase[m.seq] # "reporting"
      <4>1. cursor' = [cursor EXCEPT ![m.seq] = cursor[m.seq] + Len(m.steps)]
        BY <1>4, <3>3 DEF PutAnswered
      <4>2. m.offset = base[m.seq] + cursor[m.seq]
        BY <3>1, <3>3 DEF StagesOK, StageOK
      <4>3. CASE f = m.seq
        <5>1. base[f] \in Nat /\ cursor[f] \in Nat /\ cursor'[f] = cursor[f] + Len(m.steps)
          BY <1>t, <4>1, <4>3
        <5> QED BY <3>1, <4>2, <4>3, <5>1
      <4>4. CASE f # m.seq
        BY <1>t, <4>1, <4>4
      <4> QED BY <4>3, <4>4
    <3> QED BY <3>2, <3>3
  <2> QED BY <2>1, <2>2, StoredUpdate
<1>5. ASSUME NEW m \in net, PutUnanswered(m) PROVE StoredInv'
  <2>1. EngineHandles(m) /\ net' \subseteq net /\ UNCHANGED <<base, memo, executed, cursor>>
    BY <1>5 DEF PutUnanswered, local
  <2> QED BY <2>1, StoredUpdate
<1>6. ASSUME UNCHANGED <<engine, memo, base, cursor>>,
             \A f \in Execs : /\ Len(executed[f]) <= Len(executed'[f])
                              /\ Len(executed'[f]) \in Nat
                              /\ \A i \in 1 .. Len(executed[f]) : executed'[f][i] = executed[f][i],
             \A m \in net' : m \in net \/ m.offset = base[m.seq] + cursor[m.seq]
      PROVE  StoredInv'
  <2>1. UNCHANGED <<rows, status, seq, waiting>>
    BY <1>6 DEF engine
  <2>2. ASSUME NEW f \in Execs, Current(f)
        PROVE  (/\ Holds(f, rows) /\ base[f] + cursor[f] <= Len(rows)
                /\ \A u \in net : u.seq = f => u.offset <= Len(rows))'
    <3>1. /\ Holds(f, rows) /\ base[f] + cursor[f] <= Len(rows)
          /\ \A u \in net : u.seq = f => u.offset <= Len(rows)
      BY <2>2 DEF StoredInv, RowsMatch
    <3>2. /\ Len(executed[f]) \in Nat /\ base[f] \in Nat
          /\ Len(executed[f]) <= Len(executed'[f]) /\ Len(executed'[f]) \in Nat
          /\ \A i \in 1 .. Len(executed[f]) : executed'[f][i] = executed[f][i]
      BY <1>t, <1>6
    <3>3. Len(rows) <= base[f] + Len(executed'[f])
      BY <1>t, <3>1, <3>2 DEF Holds
    <3>4. ASSUME NEW i \in base[f] + 1 .. Len(rows) PROVE rows[i] = executed'[f][i - base[f]]
      <4>1. i - base[f] \in 1 .. Len(executed[f])
        BY <1>t, <3>1, <3>2 DEF Holds
      <4> QED BY <3>1, <3>2, <4>1 DEF Holds
    <3>5. Holds(f, rows)'
      BY <1>6, <2>1, <3>1, <3>3, <3>4 DEF Holds
    <3>6. \A u \in net' : u.seq = f => u.offset <= Len(rows)
      BY <1>6, <3>1
    <3> QED BY <1>6, <2>1, <3>1, <3>5, <3>6
  <2>3. RowsMatch'
    BY <2>1, <2>2 DEF RowsMatch, Current
  <2> QED BY <2>1, <2>3 DEF StoredInv, WaitsForNew, CompletedOnce, NoGap
<1>7. CASE UNCHANGED vars
  <2>1. UNCHANGED <<engine, memo, base, cursor, executed, net>>
    BY <1>7 DEF vars, local
  <2>2. \A f \in Execs : Len(executed[f]) <= Len(executed'[f]) /\ Len(executed'[f]) \in Nat
    BY <1>t, <2>1
  <2> QED BY <1>6, <2>1, <2>2
<1>8. ASSUME NEW e \in Execs,
             \/ HandlerSteps(e) \/ HandlerErrs(e) \/ PutGivesUp(e) \/ Flush(e)
             \/ CheckpointerStops(e) \/ Cancel(e) \/ Crash(e)
      PROVE  StoredInv'
  BY <1>6, <1>8, LocalStep
<1> QED BY <1>1, <1>2, <1>3, <1>4, <1>5, <1>7, <1>8 DEF Next, EngineSteps

-----------------------------------------------------------------------------
(* The theorems. *)

\* The inductive invariant of the run holds for every handler, every number of
\* executions and every combination of faults.
THEOREM DurableInvariant == Spec => []DurableInv
<1> DEFINE I == TypeOK /\ StagesOK /\ IdsFresh /\ UpdatesAreSlices /\ StoredInv
<1>1. Init => I
  BY TypeInit, StagesInit, FreshInit, SlicesInit, StoredInit
<1>2. I /\ [Next]_vars => I'
  BY TypeNext, StagesNext, FreshNext, SlicesNext, StoredNext
<1>3. I => DurableInv
  BY DEF StoredInv, DurableInv
<1> HIDE DEF I
<1> QED BY <1>1, <1>2, <1>3, PTL DEF Spec

\* No completed step or compensation is run again by the execution that holds
\* the run (runWithStepID and executeCompensations consult completedSteps).
THEOREM NeverReexecuted == Spec => []NoReexecution
<1>1. ASSUME TypeOK, DurableInv PROVE NoReexecution
  <2> SUFFICES ASSUME NEW e \in Execs, Current(e), phase[e] \in {"body", "undoing"}
               PROVE  cur[e] \notin IdsWith(rows, "completed")
    BY DEF NoReexecution
  <2>1. Holds(e, rows) /\ rows \in Seq(Rows)
    BY <1>1 DEF DurableInv, RowsMatch, TypeOK
  <2>2. Fresh(e, cur[e])
    BY <1>1 DEF DurableInv, IdsFresh, FreshOK
  <2> QED BY <1>1, <2>1, <2>2, HeldRows DEF DurableInv
<1> QED BY <1>1, TypeCorrect, DurableInvariant, PTL

\* Each step has at most one completed row, whatever was resent or came late.
THEOREM StepsCompleteOnce == Spec => []CompletedOnce
<1>1. DurableInv => CompletedOnce
  BY DEF DurableInv
<1> QED BY <1>1, DurableInvariant, PTL

\* The offsets of checkpoints and terminal updates never leave a hole.
THEOREM RowsHaveNoGap == Spec => []NoGap
<1>1. DurableInv => NoGap
  BY DEF DurableInv
<1> QED BY <1>1, DurableInvariant, PTL

\* Rows are kept by every step.
LEMMA RowsGrow ==
    ASSUME TypeOK, DurableInv, [Next]_vars
    PROVE  [Len(rows') >= Len(rows) /\ \A i \in DOMAIN rows : rows'[i] = rows[i]]_rows
<1> DEFINE A == Len(rows') >= Len(rows) /\ \A i \in DOMAIN rows : rows'[i] = rows[i]
<1>t. rows \in Seq(Rows) /\ Len(rows) \in Nat /\ DOMAIN rows = 1 .. Len(rows)
  BY DEF TypeOK
<1>1. ASSUME NEW m \in net, EngineHandles(m) PROVE [A]_rows
  <2>1. CASE Current(m.seq)
    <3>1. rows' = StoreRows(m)
      BY <1>1, <2>1 DEF EngineHandles, RecordOutcome
    <3>2. PICK r : r = StoreRows(m)
      OBVIOUS
    <3>3. r \in Seq(Rows) /\ Len(rows) <= Len(r) /\ \A i \in 1 .. Len(rows) : r[i] = rows[i]
      BY <2>1, <3>2, Stored DEF DurableInv
    <3> QED BY <1>t, <3>1, <3>2, <3>3
  <2>2. CASE ~Current(m.seq)
    BY <1>1, <2>2 DEF EngineHandles, engine
  <2> QED BY <2>1, <2>2
<1>2. ASSUME NEW st, Wake(st) PROVE A
  <2> DEFINE w == [id |-> waiting, status |-> st]
  <2>1. rows' = Append(rows, w)
    BY <1>2 DEF Wake
  <2> HIDE DEF w
  <2> QED BY <1>t, <2>1
<1>3. ASSUME NEW m \in net, PutAnswered(m) \/ PutUnanswered(m) PROVE [A]_rows
  BY <1>1, <1>3 DEF PutAnswered, PutUnanswered
<1>4. ASSUME Assign \/ LeaseExpires \/ UNCHANGED vars PROVE [A]_rows
  BY <1>4 DEF Assign, LeaseExpires, vars, engine
<1>5. ASSUME NEW e \in Execs,
             \/ HandlerSteps(e) \/ HandlerErrs(e) \/ PutGivesUp(e) \/ Flush(e)
             \/ CheckpointerStops(e) \/ Cancel(e) \/ Crash(e)
      PROVE  rows' = rows
  BY <1>5, LocalStep DEF engine
<1> HIDE DEF A
<1>6. [A]_rows
  BY <1>2, <1>3, <1>4, <1>5 DEF Next, EngineSteps
<1> QED BY <1>6 DEF A

\* The stored history of a run is never rewritten or shortened.
THEOREM HistoryIsAppendOnly == Spec => RowsAppendOnly
<1>1. TypeOK /\ DurableInv /\ [Next]_vars
      => [Len(rows') >= Len(rows) /\ \A i \in DOMAIN rows : rows'[i] = rows[i]]_rows
  BY RowsGrow
<1> QED BY <1>1, TypeCorrect, DurableInvariant, PTL DEF Spec, RowsAppendOnly


-----------------------------------------------------------------------------
(* How an execution ends: sagas, and what its terminal update carries. *)

\* The handler registers a compensation for a name once.
RegistersOnce ==
    \A i, j \in DOMAIN Program :
        /\ Program[i].op = "compensate" /\ Program[j].op = "compensate"
        /\ Program[i].name = Program[j].name
        => i = j

Encodes == "unencodable" \notin Faults
CompName(n) == <<"compensate:", n>>
BeforeUndo == {"unassigned", "acking", "handler", "body", "settling"}

\* The ids the execution need not run (again), and whether all its compensations
\* are among them.
Tried(e) == memo[e].completed \cup {executed[e][i].id : i \in DOMAIN executed[e]}
Covered(e) == \A a \in DOMAIN comps[e] : CompensationId(comps[e][a]) \in Tried(e)
EndsTerminally(e) ==
    outcome[e].kind = "failed" /\ IsTerminalFailure(outcome[e].retryable, try[e])

\* Compensations are claimed once the handler has ended in a terminal failure, one
\* after the other; every claim is followed by a record.
UndoOK(e) ==
    /\ phase[e] \in {"unassigned", "acking"} => comps[e] = <<>> /\ pc[e] = 1
    /\ phase[e] \in BeforeUndo => \A n \in Names : counters[e][CompName(n)] = 0
    /\ phase[e] \in {"compensating", "undoing"} => EndsTerminally(e)
    /\ phase[e] \in {"compensating", "undoing", "finishing"} =>
         \A n \in Names : counters[e][CompName(n)] > 0 =>
            \/ CompensationId(n) \in Tried(e)
            \/ phase[e] = "undoing" /\ cur[e] = CompensationId(n)
    /\ phase[e] \in {"compensating", "undoing"} \/ (phase[e] = "finishing" /\ EndsTerminally(e)) =>
         \A a \in DOMAIN comps[e] :
            a > undo[e] \/ phase[e] = "finishing" => counters[e][CompName(comps[e][a])] > 0
    /\ Encodes => \A i \in DOMAIN executed[e] : executed[e][i].status # "unencodable"

\* The registered names differ.
NamesOnce(e) ==
    /\ \A a \in DOMAIN comps[e] : \E k \in DOMAIN Program :
          k < pc[e] /\ Program[k].op = "compensate" /\ Program[k].name = comps[e][a]
    /\ \A a, b \in DOMAIN comps[e] : comps[e][a] = comps[e][b] => a = b

\* The recorded compensations are the last ones registered, latest first.
LatestFirst(e, i) ==
    \A j \in 1 .. i - 1 : IsCompensation(executed[e][j].id) =>
        \E a, b \in DOMAIN comps[e] :
            /\ a > b
            /\ executed[e][j].id = CompensationId(comps[e][a])
            /\ executed[e][i].id = CompensationId(comps[e][b])
Visited(e, id) ==
    \E a \in DOMAIN comps[e] :
        /\ a > undo[e] /\ id = CompensationId(comps[e][a])
        /\ phase[e] = "undoing" => a > undo[e] + 1
ReverseOK(e) ==
    /\ phase[e] \in {"compensating", "undoing"} =>
         \A a \in 1 .. undo[e] : counters[e][CompName(comps[e][a])] = 0
    /\ phase[e] = "undoing" =>
         undo[e] < Len(comps[e]) /\ cur[e] = CompensationId(comps[e][undo[e] + 1])
    /\ \A i \in DOMAIN executed[e] : IsCompensation(executed[e][i].id) =>
         EndsTerminally(e) /\ Visited(e, executed[e][i].id) /\ LatestFirst(e, i)

\* The calls before the k-th that take an id of the name.
Called(k, n) == {j \in 1 .. k - 1 : Program[j].op # "compensate" /\ Program[j].name = n}

\* A call the handler is past is stored or recorded, and its ids are the program's.
PassedOK(e) ==
    /\ phase[e] \in {"unassigned", "acking", "handler", "body"} => \A n \in Names :
         counters[e][<<"", n>>] =
             Cardinality(Called(IF phase[e] = "body" THEN pc[e] + 1 ELSE pc[e], n))
    /\ phase[e] = "body" =>
         pc[e] \in DOMAIN Program /\ Program[pc[e]].op = "run" /\ cur[e] = ProgramId(pc[e])
    /\ \A k \in DOMAIN Program : k < pc[e] /\ Program[k].op # "compensate" =>
         \/ ProgramId(k) \in memo[e].completed
         \/ \E i \in DOMAIN executed[e] :
               executed[e][i].id = ProgramId(k) /\ executed[e][i].status \in {"completed", "unencodable"}
    /\ outcome[e].kind = "completed" =>
         /\ phase[e] \notin {"handler", "body"} /\ pc[e] > Len(Program)
         /\ phase[e] \in {"finishing", "reporting"} =>
              \A i \in DOMAIN executed[e] : executed[e][i].status # "unencodable"

\* A terminal update with nothing unencodable carries all that is unsaved, and the
\* execution that fails a run has covered its compensations.
TerminalOK(m) ==
    LET e == m.seq IN
    /\ m.outcome.kind = "completed" \/ (m.outcome.kind = "failed" /\ Encodes) =>
         /\ m.offset + Len(m.steps) = base[e] + Len(executed[e])
         /\ \A i \in DOMAIN executed[e] : executed[e][i].status # "unencodable"
    /\ m.outcome.kind = "completed" => pc[e] > Len(Program)
    /\ m.outcome.kind = "failed" /\ Encodes /\ EndsTerminally(e) => Covered(e)

\* The engine's side: what the execution was given is stored, its attempt is the
\* run's, and a run that has ended has what its last execution did.
EndOK ==
    /\ \A e \in Execs : Current(e) =>
         memo[e].completed \subseteq IdsWith(rows, "completed") /\ try[e] = attempt
    /\ CompletedRunIsDurable
    /\ status \in {"completed", "failed"} => seq \in Execs /\ phase[seq] \in {"reporting", "exited"}
    /\ status = "failed" /\ Encodes =>
         /\ Covered(seq)
         /\ \A i \in DOMAIN executed[seq] : \E j \in DOMAIN rows : rows[j] = executed[seq][i]

SagaInv ==
    \A e \in Execs : /\ UndoOK(e) /\ PassedOK(e)
                     /\ RegistersOnce => NamesOnce(e) /\ ReverseOK(e)
EndInv == (\A m \in net : TerminalOK(m)) /\ EndOK


\* What the steps of an execution do to it, one kind of step after the other.
Given(e) == UNCHANGED <<memo[e], base[e], try[e]>>
Rests(e) ==
    /\ phase'[e] \in {phase[e], "exited"}
    /\ UNCHANGED <<pc[e], cur[e], counters[e], executed[e], comps[e], undo[e], outcome[e]>>
Begins(e) ==
    /\ phase[e] = "acking"
    /\ \/ phase'[e] = "handler" /\ UNCHANGED outcome[e]
       \/ phase'[e] = "reporting" /\ outcome'[e] = Failed(FALSE)
    /\ UNCHANGED <<pc[e], cur[e], counters[e], executed[e], comps[e], undo[e]>>
Claims(e, n) ==
    /\ counters'[e] = [counters[e] EXCEPT ![n] = @ + 1]
    /\ UNCHANGED <<executed[e], comps[e]>>
MakesCall(e) ==
    /\ phase[e] = "handler" /\ pc[e] \in DOMAIN Program /\ Program[pc[e]].op # "compensate"
    /\ Claims(e, CallName(e)) /\ UNCHANGED undo[e]
    /\ \/ /\ Memoized(e, StepId(e, CallName(e)))
          /\ pc'[e] = pc[e] + 1 /\ UNCHANGED <<phase[e], cur[e], outcome[e]>>
       \/ /\ Program[pc[e]].op = "run" /\ phase'[e] = "body" /\ cur'[e] = StepId(e, CallName(e))
          /\ UNCHANGED <<pc[e], outcome[e]>>
       \/ phase'[e] = "settling" /\ outcome'[e].kind \in {"failed", "yielded"} /\ UNCHANGED <<pc[e], cur[e]>>
Records(e, st) ==
    /\ executed'[e] = Append(executed[e], [id |-> cur[e], status |-> st])
    /\ UNCHANGED <<counters[e], comps[e], undo[e]>>
BodyReturns(e) ==
    /\ phase[e] = "body"
    /\ \/ /\ \E st \in {"completed", "unencodable"} : Records(e, st) /\ (st = "unencodable" => ~Encodes)
          /\ pc'[e] = pc[e] + 1 /\ phase'[e] = "handler" /\ UNCHANGED outcome[e]
       \/ /\ Records(e, "failed")
          /\ phase'[e] = "settling" /\ outcome'[e].kind = "failed" /\ UNCHANGED pc[e]
Registers(e) ==
    /\ phase[e] = "handler" /\ pc[e] \in DOMAIN Program /\ Program[pc[e]].op = "compensate"
    /\ comps'[e] = Append(comps[e], Program[pc[e]].name) /\ pc'[e] = pc[e] + 1
    /\ UNCHANGED <<phase[e], cur[e], counters[e], executed[e], undo[e], outcome[e]>>
Returns(e) ==
    /\ phase[e] = "handler" /\ phase'[e] = "settling"
    /\ outcome'[e].kind = "failed" \/ (outcome'[e].kind = "completed" /\ pc[e] > Len(Program))
    /\ UNCHANGED <<pc[e], cur[e], counters[e], executed[e], comps[e], undo[e]>>
Settles(e) ==
    /\ phase[e] = "settling"
    /\ \/ phase'[e] = "compensating" /\ undo'[e] = Len(comps[e]) /\ EndsTerminally(e)'
       \/ phase'[e] = "finishing" /\ undo'[e] = 0 /\ (EndsTerminally(e)' => comps[e] = <<>>)
    /\ outcome'[e].kind = "completed" =>
         /\ outcome[e].kind = "completed"
         /\ \A i \in DOMAIN executed[e] : executed[e][i].status # "unencodable"
    /\ UNCHANGED <<pc[e], cur[e], counters[e], executed[e], comps[e]>>
Undoes(e) ==
    /\ phase[e] = "compensating" /\ undo[e] > 0 /\ undo'[e] = undo[e] - 1
    /\ Claims(e, CompName(comps[e][undo[e]]))
    /\ \/ Memoized(e, StepId(e, CompName(comps[e][undo[e]]))) /\ UNCHANGED <<phase[e], cur[e]>>
       \/ phase'[e] = "undoing" /\ cur'[e] = StepId(e, CompName(comps[e][undo[e]]))
    /\ UNCHANGED <<pc[e], outcome[e]>>
Undone(e) ==
    /\ phase[e] = "undoing" /\ phase'[e] = "compensating"
    /\ \E st \in {"completed", "failed"} : Records(e, st)
    /\ UNCHANGED <<pc[e], outcome[e]>>
UndoDone(e) ==
    /\ phase[e] = "compensating" /\ phase'[e] = "finishing" /\ undo[e] = 0
    /\ UNCHANGED <<pc[e], cur[e], counters[e], executed[e], comps[e], undo[e], outcome[e]>>
Reports(e) ==
    /\ phase[e] = "finishing" /\ phase'[e] = "reporting" /\ outcome'[e] = Reported(e)
    /\ UNCHANGED <<pc[e], cur[e], counters[e], executed[e], comps[e], undo[e]>>
Moves(e) ==
    /\ Given(e)
    /\ \/ Rests(e) \/ Begins(e) \/ MakesCall(e) \/ BodyReturns(e) \/ Registers(e) \/ Returns(e)
       \/ Settles(e) \/ Undoes(e) \/ Undone(e) \/ UndoDone(e) \/ Reports(e)
LocalSteps(e) ==
    \/ HandlerSteps(e) \/ HandlerErrs(e) \/ PutGivesUp(e) \/ Flush(e)
    \/ CheckpointerStops(e) \/ Cancel(e) \/ Crash(e)

\* An execution moves in these ways only, and alone.
LEMMA LocalMoves ==
    ASSUME TypeOK, NEW e \in Execs, LocalSteps(e)
    PROVE  Moves(e) /\ \A f \in Execs \ {e} : Given(f) /\ Rests(f) /\ phase'[f] = phase[f]
<1>t. /\ phase \in [Execs -> Phases] /\ counters \in [Execs -> [StepNames -> Nat]]
      /\ executed \in [Execs -> Seq(Steps)] /\ comps \in [Execs -> Seq(Names)]
      /\ undo \in [Execs -> Nat] /\ pc \in [Execs -> Nat \ {0}] /\ cur \in [Execs -> Ids \cup {NoId}]
      /\ outcome \in [Execs -> Outcomes]
  BY DEF TypeOK
<1> DEFINE Alone == \A f \in Execs \ {e} : Given(f) /\ Rests(f) /\ phase'[f] = phase[f]
<1>p. \A k \in Nat \ {0} : k <= Len(Program) => k \in DOMAIN Program
  BY ProgramAssumption
<1>g. UNCHANGED <<memo, base, try>>
  BY DEF LocalSteps, HandlerSteps, HandlerErrs, AckAssignment, FunctionNotFound, AckFails, Run, Compensate,
     Sleep, WaitForEvent, Invoke, InvokeAsync, Await, RunSucceeds, RunFails, HandlerReturns, Settle, Undo,
     UndoEnds, UndoReturns, Report, YieldUnsent, PutGivesUp, Flush, CheckpointerStops, Cancel, Crash
<1>1. ASSUME AckFails(e) \/ YieldUnsent(e) \/ PutGivesUp(e) \/ Flush(e) \/ CheckpointerStops(e) \/ Cancel(e) \/ Crash(e)
      PROVE  Rests(e) /\ Alone
  BY <1>t, <1>g, <1>1 DEF AckFails, YieldUnsent, PutGivesUp, Flush, CheckpointerStops, Cancel, Crash, Rests, Given
<1>2. ASSUME AckAssignment(e) \/ FunctionNotFound(e) PROVE Begins(e) /\ Alone
  BY <1>t, <1>g, <1>2 DEF AckAssignment, FunctionNotFound, Begins, Rests, Given
<1>3. ASSUME NEW n \in StepNames, ClaimId(e, n), UNCHANGED <<executed, comps>>
      PROVE  Claims(e, n) /\ \A f \in Execs \ {e} : counters'[f] = counters[f]
  BY <1>t, <1>3 DEF ClaimId, Claims
<1>4. ASSUME Run(e) PROVE MakesCall(e) /\ Alone
  <2>1. pc[e] \in DOMAIN Program /\ Program[pc[e]].op = "run" /\ phase[e] = "handler"
    BY <1>t, <1>p, <1>4 DEF Run, AtCall
  <2>2. Claims(e, CallName(e)) /\ \A f \in Execs \ {e} : counters'[f] = counters[f]
    BY <1>3, <1>4, IdTypes DEF Run, AtCall
  <2> QED
    BY <1>t, <1>g, <1>4, <2>1, <2>2 DEF Run, MakesCall, Rests, Given
<1>5. ASSUME NEW op, NEW raises, op # "compensate", Await(e, op, raises) PROVE MakesCall(e) /\ Alone
  <2>1. pc[e] \in DOMAIN Program /\ Program[pc[e]].op # "compensate" /\ phase[e] = "handler"
    BY <1>t, <1>p, <1>5 DEF Await, AtCall
  <2>2. Claims(e, CallName(e)) /\ \A f \in Execs \ {e} : counters'[f] = counters[f]
    BY <1>3, <1>5, IdTypes DEF Await, AtCall
  <2>3. CASE phase' = phase
    BY <1>t, <1>g, <1>5, <2>1, <2>2, <2>3 DEF Await, HandlerEnds, MakesCall, Rests, Given
  <2>4. ASSUME NEW out, out.kind \in {"failed", "yielded"}, HandlerEnds(e, out), UNCHANGED pc
        PROVE  MakesCall(e) /\ Alone
    BY <1>t, <1>g, <1>5, <2>1, <2>2, <2>4 DEF Await, HandlerEnds, MakesCall, Rests, Given
  <2> QED
    BY <1>5, <2>3, <2>4 DEF Await, Failed, Yielded
<1>6. ASSUME NEW st, Record(e, st), UNCHANGED <<counters, comps, undo>>
      PROVE  Records(e, st) /\ \A f \in Execs \ {e} : executed'[f] = executed[f]
  BY <1>t, <1>6 DEF Record, Records
<1>7. ASSUME NEW st \in {"completed", "unencodable"}, RunSucceeds(e, st) PROVE BodyReturns(e) /\ Alone
  <2>1. Records(e, st) /\ \A f \in Execs \ {e} : executed'[f] = executed[f]
    BY <1>6, <1>7 DEF RunSucceeds
  <2> QED
    BY <1>t, <1>g, <1>7, <2>1 DEF RunSucceeds, BodyReturns, Rests, Given, Encodes
<1>8. ASSUME NEW r \in BOOLEAN, RunFails(e, r) PROVE BodyReturns(e) /\ Alone
  <2>1. Records(e, "failed") /\ \A f \in Execs \ {e} : executed'[f] = executed[f]
    BY <1>6, <1>8 DEF RunFails
  <2> QED
    BY <1>t, <1>g, <1>8, <2>1 DEF RunFails, HandlerEnds, BodyReturns, Rests, Given, Failed
<1>9. ASSUME Compensate(e) PROVE Registers(e) /\ Alone
  BY <1>t, <1>g, <1>p, <1>9 DEF Compensate, Registers, Rests, Given
<1>10. ASSUME NEW out, out.kind \in {"failed", "completed"}, HandlerReturns(e, out) PROVE Returns(e) /\ Alone
  BY <1>t, <1>g, <1>10 DEF HandlerReturns, HandlerEnds, Returns, Rests, Given
<1>11. ASSUME NEW b \in BOOLEAN, Settle(e, b) PROVE (Rests(e) \/ Settles(e)) /\ Alone
  <2> DEFINE bad == \/ ~b \/ \E i \in DOMAIN executed[e] : executed[e][i].status = "unencodable"
             out == IF outcome[e].kind # "failed" /\ bad THEN Failed(FALSE) ELSE outcome[e]
             compensates == /\ out.kind = "failed" /\ comps[e] # <<>>
                            /\ IsTerminalFailure(out.retryable, try[e])
  <2>1. phase[e] = "settling" /\ UNCHANGED <<pc, cur, counters, executed, comps>>
    BY <1>11 DEF Settle
  <2>2. CASE cancelled[e]
    BY <1>t, <1>g, <1>11, <2>1, <2>2 DEF Settle, Rests, Given
  <2>3. CASE ~cancelled[e]
    <3>1. /\ outcome' = [outcome EXCEPT ![e] = out]
          /\ phase' = [phase EXCEPT ![e] = IF compensates THEN "compensating" ELSE "finishing"]
          /\ undo' = [undo EXCEPT ![e] = IF compensates THEN Len(comps[e]) ELSE 0]
      BY <1>11, <2>3 DEF Settle
    <3>2. out.kind = "completed" => outcome[e].kind = "completed" /\ ~bad
      BY DEF Failed
    <3> HIDE DEF out
    <3>3. /\ outcome'[e] = out /\ phase'[e] = (IF compensates THEN "compensating" ELSE "finishing")
          /\ undo'[e] = IF compensates THEN Len(comps[e]) ELSE 0
          /\ Alone
      BY <1>t, <1>g, <2>1, <3>1 DEF Rests, Given
    <3>4. EndsTerminally(e)' <=> out.kind = "failed" /\ IsTerminalFailure(out.retryable, try[e])
      BY <1>g, <3>3 DEF EndsTerminally, IsTerminalFailure
    <3>5. Settles(e)
      BY <2>1, <3>2, <3>3, <3>4 DEF Settles
    <3> QED
      BY <3>3, <3>5
  <2> QED
    BY <2>2, <2>3
<1>12. ASSUME Undo(e) PROVE Undoes(e) /\ Alone
  <2>1. undo[e] \in 1 .. Len(comps[e])
    BY <1>t, <1>12 DEF Undo, TypeOK
  <2>2. Claims(e, CompName(comps[e][undo[e]])) /\ \A f \in Execs \ {e} : counters'[f] = counters[f]
    BY <1>3, <1>12, <2>1, IdTypes DEF Undo, CompName, NextUndo
  <2> QED
    BY <1>t, <1>g, <1>12, <2>1, <2>2 DEF Undo, Undoes, Rests, Given, CompName, NextUndo
<1>13. ASSUME NEW st \in {"completed", "failed"}, UndoReturns(e, st) PROVE Undone(e) /\ Alone
  <2>1. Records(e, st) /\ \A f \in Execs \ {e} : executed'[f] = executed[f]
    BY <1>6, <1>13 DEF UndoReturns
  <2> QED
    BY <1>t, <1>g, <1>13, <2>1 DEF UndoReturns, Undone, Rests, Given
<1>14. ASSUME UndoEnds(e) PROVE (Rests(e) \/ UndoDone(e)) /\ Alone
  BY <1>t, <1>g, <1>14 DEF UndoEnds, UndoDone, Rests, Given
<1>15. ASSUME Report(e) PROVE (Rests(e) \/ Reports(e)) /\ Alone
  BY <1>t, <1>g, <1>15 DEF Report, Reports, Rests, Given
<1>16. ASSUME HandlerErrs(e) \/ HandlerReturns(e, Completed) \/ HandlerReturns(e, Failed(TRUE))
       PROVE  Returns(e) /\ Alone
  <2>1. Completed.kind = "completed" /\ Failed(TRUE).kind = "failed" /\ \A r \in BOOLEAN : Failed(r).kind = "failed"
    BY DEF Completed, Failed
  <2>2. \A out : out.kind \in {"failed", "completed"} /\ HandlerReturns(e, out) => Returns(e) /\ Alone
    BY <1>10
  <2> HIDE DEF Alone
  <2> QED
    BY <1>16, <2>1, <2>2 DEF HandlerErrs
<1>17. ASSUME Sleep(e) \/ WaitForEvent(e) \/ Invoke(e) \/ InvokeAsync(e) PROVE MakesCall(e) /\ Alone
  BY <1>5, <1>17 DEF Sleep, WaitForEvent, Invoke, InvokeAsync
<1>18. Given(e)
  BY <1>g DEF Given
<1> HIDE DEF Alone
<1>19. Moves(e) /\ Alone
  BY <1>1, <1>2, <1>4, <1>7, <1>8, <1>9, <1>11, <1>12, <1>13, <1>14, <1>15, <1>16, <1>17, <1>18
     DEF Moves, LocalSteps, HandlerSteps
<1> QED
  BY <1>19 DEF Alone

\* Three of its steps send something.
LEMMA QuietSteps ==
    ASSUME NEW e \in Execs, LocalSteps(e), ~(FunctionNotFound(e) \/ Flush(e) \/ Report(e))
    PROVE  net' = net
BY DEF LocalSteps, HandlerSteps, HandlerErrs, AckAssignment, AckFails, Run, Compensate, Sleep, WaitForEvent,
   Invoke, InvokeAsync, Await, RunSucceeds, RunFails, HandlerReturns, Settle, Undo, UndoEnds, UndoReturns,
   YieldUnsent, PutGivesUp, CheckpointerStops, Cancel, Crash

\* A record adds one id to those tried.
LEMMA RecordTried ==
    ASSUME TypeOK, NEW e \in Execs, NEW st, Records(e, st), memo'[e] = memo[e]
    PROVE  /\ Tried(e) \subseteq Tried(e)' /\ cur[e] \in Tried(e)'
           /\ Len(executed'[e]) = Len(executed[e]) + 1 /\ DOMAIN executed'[e] = 1 .. Len(executed[e]) + 1
           /\ \A i \in 1 .. Len(executed[e]) : executed'[e][i] = executed[e][i]
           /\ executed'[e][Len(executed[e]) + 1] = [id |-> cur[e], status |-> st]
<1>1. executed[e] \in Seq(Steps) /\ Len(executed[e]) \in Nat /\ DOMAIN executed[e] = 1 .. Len(executed[e])
  BY DEF TypeOK
<1> DEFINE r == [id |-> cur[e], status |-> st]
<1>2. executed'[e] = Append(executed[e], r) /\ r.id = cur[e]
  BY DEF Records
<1> HIDE DEF r
<1>3. /\ Len(executed'[e]) = Len(executed[e]) + 1 /\ DOMAIN executed'[e] = 1 .. Len(executed[e]) + 1
      /\ \A i \in 1 .. Len(executed[e]) : executed'[e][i] = executed[e][i]
      /\ executed'[e][Len(executed[e]) + 1] = r
  BY <1>1, <1>2
<1>4. Len(executed[e]) + 1 \in DOMAIN executed'[e] /\ DOMAIN executed[e] \subseteq DOMAIN executed'[e]
  BY <1>1, <1>3
<1>5. Tried(e) \subseteq Tried(e)'
  BY <1>1, <1>3, <1>4 DEF Tried
<1>6. cur[e] \in Tried(e)'
  BY <1>2, <1>3, <1>4 DEF Tried
<1> QED
  BY <1>3, <1>5, <1>6 DEF r

\* A claim changes one counter.
LEMMA ClaimsOne ==
    ASSUME TypeOK, NEW e \in Execs, NEW n \in StepNames, Claims(e, n)
    PROVE  /\ counters'[e][n] = counters[e][n] + 1 /\ counters[e][n] \in Nat
           /\ \A k \in StepNames \ {n} : counters'[e][k] = counters[e][k]
BY DEF TypeOK, Claims

\* Compensations are not calls.
LEMMA NamesApart ==
    ASSUME TypeOK, NEW e \in Execs
    PROVE  /\ \A n \in Names : CompName(n) \in StepNames /\ <<"", n>> \in StepNames
           /\ \A n \in Names : counters[e][CompName(n)] \in Nat
           /\ pc[e] \in DOMAIN Program => CallName(e) \in StepNames /\ \A n \in Names : CompName(n) # CallName(e)
           /\ \A a \in DOMAIN comps[e] : comps[e][a] \in Names
           /\ undo[e] > 0 => undo[e] \in DOMAIN comps[e]
<1>1. \A n \in Names : CompName(n) \in StepNames /\ <<"", n>> \in StepNames
  BY DEF CompName, StepNames
<1>2. pc[e] \in DOMAIN Program => CallName(e) \in StepNames /\ \A n \in Names : CompName(n) # CallName(e)
  <2>1. pc[e] \in DOMAIN Program => pc[e] <= Len(Program)
    BY ProgramAssumption
  <2> QED
    BY <2>1, IdTypes DEF CompName, CallName
<1>3. counters[e] \in [StepNames -> Nat] /\ comps[e] \in Seq(Names) /\ undo[e] \in Nat /\ undo[e] <= Len(comps[e])
  BY DEF TypeOK
<1>4. \A n \in Names : counters[e][CompName(n)] \in Nat
  BY <1>1, <1>3
<1>5. /\ \A a \in DOMAIN comps[e] : comps[e][a] \in Names
      /\ undo[e] > 0 => undo[e] \in DOMAIN comps[e]
  BY <1>3
<1> QED
  BY <1>1, <1>2, <1>4, <1>5

\* The compensations of an execution.
LEMMA UndoStep ==
    ASSUME TypeOK, NEW e \in Execs, UndoOK(e), Moves(e)
    PROVE  UndoOK(e)'
<1>g. UNCHANGED <<memo[e], try[e]>>
  BY DEF Moves, Given
<1>t. /\ phase[e] \in Phases /\ counters[e] \in [StepNames -> Nat] /\ undo[e] \in Nat
      /\ comps[e] \in Seq(Names) /\ executed[e] \in Seq(Steps)
      /\ DOMAIN comps[e] = 1 .. Len(comps[e]) /\ DOMAIN executed[e] = 1 .. Len(executed[e])
      /\ Len(executed[e]) \in Nat /\ Len(comps[e]) \in Nat
  BY DEF TypeOK
<1>n. /\ \A n \in Names : CompName(n) \in StepNames /\ counters[e][CompName(n)] \in Nat
      /\ \A a \in DOMAIN comps[e] : comps[e][a] \in Names
  BY NamesApart
<1>s. UNCHANGED executed[e] => Tried(e)' = Tried(e)
  BY <1>g DEF Tried
<1>o. UNCHANGED outcome[e] => EndsTerminally(e)' = EndsTerminally(e)
  BY <1>g DEF EndsTerminally, IsTerminalFailure
<1>c. \A n : CompensationId(n)' = CompensationId(n) /\ CompName(n)' = CompName(n) /\ Encodes' = Encodes
  BY DEF CompensationId, CompName, Encodes
<1>1. CASE Rests(e)
  BY <1>1, <1>s, <1>o, <1>c DEF Rests, UndoOK, BeforeUndo
<1>2. CASE Begins(e)
  BY <1>2, <1>c DEF Begins, UndoOK, BeforeUndo
<1>3. CASE MakesCall(e)
  <2>1. \A n \in Names : counters'[e][CompName(n)] = counters[e][CompName(n)]
    BY <1>3, ClaimsOne, NamesApart DEF MakesCall
  <2>2. phase[e] = "handler" /\ phase'[e] \in {"handler", "body", "settling"} /\ UNCHANGED <<executed[e], comps[e]>>
    BY <1>3 DEF MakesCall, Claims
  <2> QED
    BY <2>1, <2>2, <1>c DEF UndoOK, BeforeUndo
<1>4. CASE BodyReturns(e)
  <2>1. /\ phase[e] = "body" /\ phase'[e] \in {"handler", "settling"} /\ UNCHANGED <<counters[e], comps[e]>>
    BY <1>4 DEF BodyReturns, Records
  <2>2. PICK st : Records(e, st) /\ (st = "unencodable" => ~Encodes)
    BY <1>4 DEF BodyReturns
  <2>3. ASSUME Encodes, NEW i \in DOMAIN executed'[e] PROVE executed'[e][i].status # "unencodable"
    <3>1. /\ DOMAIN executed'[e] = 1 .. Len(executed[e]) + 1
          /\ \A j \in 1 .. Len(executed[e]) : executed'[e][j] = executed[e][j]
          /\ executed'[e][Len(executed[e]) + 1] = [id |-> cur[e], status |-> st]
      BY <1>g, <2>2, RecordTried
    <3>2. CASE i \in 1 .. Len(executed[e])
      BY <1>t, <2>3, <3>1, <3>2 DEF UndoOK
    <3>3. CASE i = Len(executed[e]) + 1
      BY <2>2, <2>3, <3>1, <3>3
    <3> QED
      BY <1>t, <2>3, <3>1, <3>2, <3>3
  <2> QED
    BY <2>1, <2>3, <1>c DEF UndoOK, BeforeUndo
<1>5. CASE Registers(e) \/ Returns(e)
  BY <1>5, <1>c DEF Registers, Returns, UndoOK, BeforeUndo
<1>6. CASE Settles(e)
  <2>1. \A n \in Names : counters'[e][CompName(n)] = 0
    BY <1>6 DEF Settles, UndoOK, BeforeUndo
  <2>2. phase'[e] \in {"compensating", "finishing"} /\ UNCHANGED <<executed[e], comps[e]>>
    BY <1>6 DEF Settles
  <2>3. phase'[e] = "compensating" => EndsTerminally(e)' /\ undo'[e] = Len(comps[e])
    BY <1>6 DEF Settles
  <2>4. phase'[e] = "finishing" /\ EndsTerminally(e)' => comps'[e] = <<>>
    BY <1>6 DEF Settles
  <2> QED
    BY <1>t, <2>1, <2>2, <2>3, <2>4, <1>c DEF UndoOK, BeforeUndo
<1>7. CASE Undoes(e)
  <2> DEFINE k == comps[e][undo[e]]
  <2>1. undo[e] \in DOMAIN comps[e] /\ k \in Names /\ CompName(k) \in StepNames
    BY <1>7, <1>n, NamesApart DEF Undoes
  <2>2. /\ counters'[e][CompName(k)] = counters[e][CompName(k)] + 1
        /\ \A n \in Names : n # k => counters'[e][CompName(n)] = counters[e][CompName(n)]
    BY <1>7, <1>n, <2>1, ClaimsOne DEF Undoes, CompName
  <2>3. /\ phase[e] = "compensating" /\ phase'[e] \in {"compensating", "undoing"}
        /\ UNCHANGED <<executed[e], comps[e], outcome[e]>> /\ undo'[e] = undo[e] - 1
    BY <1>7 DEF Undoes, Claims
  <2>4. \/ StepId(e, CompName(k)) \in memo[e].completed
        \/ phase'[e] = "undoing" /\ cur'[e] = StepId(e, CompName(k))
    BY <1>7 DEF Undoes, Memoized
  <2> HIDE DEF k
  <2>5. ASSUME NEW n \in Names, counters'[e][CompName(n)] > 0
        PROVE  CompensationId(n) \in Tried(e) \/ (phase'[e] = "undoing" /\ cur'[e] = CompensationId(n))
    <3>1. CASE counters[e][CompName(n)] > 0
      BY <2>3, <3>1 DEF UndoOK
    <3>2. CASE ~(counters[e][CompName(n)] > 0)
      <4>1. n = k /\ counters[e][CompName(k)] = 0
        BY <1>n, <2>2, <2>5, <3>2
      <4>2. StepId(e, CompName(k)) = CompensationId(n)
        BY <4>1 DEF StepId, CompensationId, CompName
      <4> QED
        BY <2>4, <4>2 DEF Tried
    <3> QED
      BY <3>1, <3>2
  <2>6. ASSUME NEW a \in DOMAIN comps[e], a > undo'[e] PROVE counters'[e][CompName(comps[e][a])] > 0
    <3>1. a = undo[e] \/ a > undo[e]
      BY <1>t, <2>3, <2>6
    <3>2. CASE a = undo[e]
      BY <1>n, <2>1, <2>2, <3>2 DEF k
    <3>3. CASE a > undo[e]
      <4>1. counters[e][CompName(comps[e][a])] > 0 /\ comps[e][a] \in Names
        BY <1>n, <2>3, <3>3 DEF UndoOK
      <4> QED
        BY <1>n, <2>1, <2>2, <4>1
    <3> QED
      BY <3>1, <3>2, <3>3
  <2> QED
    BY <1>c, <1>o, <1>s, <2>3, <2>5, <2>6 DEF UndoOK, BeforeUndo
<1>8. CASE Undone(e)
  <2>1. /\ phase[e] = "undoing" /\ phase'[e] = "compensating"
        /\ UNCHANGED <<counters[e], comps[e], undo[e], outcome[e]>>
    BY <1>8 DEF Undone, Records
  <2>2. PICK st \in {"completed", "failed"} : Records(e, st)
    BY <1>8 DEF Undone
  <2>3. Tried(e) \subseteq Tried(e)' /\ cur[e] \in Tried(e)'
    BY <1>g, <2>2, RecordTried
  <2>4. \A n \in Names : counters[e][CompName(n)] > 0 => CompensationId(n) \in Tried(e)'
    BY <2>1, <2>3 DEF UndoOK
  <2>5. ASSUME Encodes, NEW i \in DOMAIN executed'[e] PROVE executed'[e][i].status # "unencodable"
    <3>1. /\ DOMAIN executed'[e] = 1 .. Len(executed[e]) + 1
          /\ \A j \in 1 .. Len(executed[e]) : executed'[e][j] = executed[e][j]
          /\ executed'[e][Len(executed[e]) + 1] = [id |-> cur[e], status |-> st]
      BY <1>g, <2>2, RecordTried
    <3>2. CASE i \in 1 .. Len(executed[e])
      BY <1>t, <2>5, <3>1, <3>2 DEF UndoOK
    <3>3. CASE i = Len(executed[e]) + 1
      BY <2>2, <2>5, <3>1, <3>3
    <3> QED
      BY <1>t, <2>5, <3>1, <3>2, <3>3
  <2> QED
    BY <1>c, <1>o, <2>1, <2>4, <2>5 DEF UndoOK, BeforeUndo
<1>9. CASE UndoDone(e)
  BY <1>9, <1>c, <1>o, <1>s, <1>t DEF UndoDone, UndoOK, BeforeUndo
<1>10. CASE Reports(e)
  BY <1>10, <1>c DEF Reports, UndoOK, BeforeUndo
<1> QED
  BY <1>1, <1>2, <1>3, <1>4, <1>5, <1>6, <1>7, <1>8, <1>9, <1>10 DEF Moves

LEMMA NameParts == \A n \in StepNames : n[2] \in Names /\ n = <<n[1], n[2]>>
<1>1. ASSUME NEW S, NEW n \in S \X Names PROVE n[2] \in Names /\ n = <<n[1], n[2]>>
  OBVIOUS
<1> QED
  BY <1>1 DEF StepNames

\* Until the handler has ended, no compensation is recorded or running.
LEMMA NoneYet ==
    ASSUME TypeOK, NEW e \in Execs, FreshOK(e), UndoOK(e), phase[e] \in BeforeUndo
    PROVE  /\ \A i \in DOMAIN executed[e] : ~IsCompensation(executed[e][i].id)
           /\ phase[e] = "body" => ~IsCompensation(cur[e])
<1>1. ASSUME NEW id \in Ids, IsCompensation(id), id[2] < counters[e][id[1]] PROVE FALSE
  <2>1. id[1] \in StepNames /\ id[2] \in Nat
    BY DEF Ids
  <2>2. id[1][2] \in Names /\ id[1] = <<id[1][1], id[1][2]>>
    BY <2>1, NameParts
  <2>3. id[1] = CompName(id[1][2])
    BY <1>1, <2>2 DEF IsCompensation, CompName
  <2>4. \A n \in Names : counters[e][CompName(n)] = 0
    BY DEF UndoOK
  <2>5. counters[e][id[1]] = 0
    BY <2>2, <2>3, <2>4
  <2> QED
    BY <1>1, <2>1, <2>5
<1>2. \A i \in DOMAIN executed[e] : executed[e][i].id \in Ids /\ executed[e][i].id[2] < counters[e][executed[e][i].id[1]]
  <2>1. \A i \in DOMAIN executed[e] : executed[e][i] \in Steps
    BY DEF TypeOK
  <2> QED
    BY <2>1 DEF FreshOK, Steps
<1>3. phase[e] = "body" => cur[e] \in Ids /\ cur[e][2] < counters[e][cur[e][1]]
  BY DEF TypeOK, FreshOK, Fresh
<1> QED
  BY <1>1, <1>2, <1>3

\* The names of the registered compensations stay different.
LEMMA NamesStep ==
    ASSUME TypeOK, NEW e \in Execs, RegistersOnce, NamesOnce(e), Moves(e)
    PROVE  NamesOnce(e)'
<1>t. comps[e] \in Seq(Names) /\ Len(comps[e]) \in Nat /\ DOMAIN comps[e] = 1 .. Len(comps[e]) /\ pc[e] \in Nat
  BY DEF TypeOK
<1>p. DOMAIN Program \subseteq Nat /\ \A k \in DOMAIN Program : Program[k].name \in Names
  <2>1. DOMAIN Program \subseteq Nat /\ \A k \in DOMAIN Program : Program[k] \in Calls
    BY ProgramAssumption
  <2> QED
    BY <2>1 DEF Calls
<1>1. CASE UNCHANGED comps[e] /\ pc'[e] \in {pc[e], pc[e] + 1}
  BY <1>1, <1>t, <1>p DEF NamesOnce
<1>2. CASE Registers(e)
  <2> DEFINE n == Program[pc[e]].name
             r == Len(comps[e]) + 1
  <2>1. /\ pc[e] \in DOMAIN Program /\ Program[pc[e]].op = "compensate" /\ pc'[e] = pc[e] + 1
        /\ n \in Names /\ comps'[e] = Append(comps[e], n)
    BY <1>2, <1>p DEF Registers
  <2> HIDE DEF n
  <2>2. /\ DOMAIN comps'[e] = 1 .. r /\ comps'[e][r] = n
        /\ \A a \in DOMAIN comps[e] : comps'[e][a] = comps[e][a]
    BY <1>t, <2>1
  <2>3. ASSUME NEW a \in DOMAIN comps[e] PROVE comps[e][a] # n
    <3>1. PICK k \in DOMAIN Program : k < pc[e] /\ Program[k].op = "compensate" /\ Program[k].name = comps[e][a]
      BY DEF NamesOnce
    <3>2. k # pc[e]
      BY <1>p, <1>t, <3>1
    <3> QED
      BY <2>1, <3>1, <3>2 DEF RegistersOnce, n
  <2>4. \A a \in DOMAIN comps'[e] : a \in DOMAIN comps[e] \/ a = r
    BY <1>t, <2>2
  <2>5. ASSUME NEW a \in DOMAIN comps'[e]
        PROVE  \E k \in DOMAIN Program :
                  k < pc'[e] /\ Program[k].op = "compensate" /\ Program[k].name = comps'[e][a]
    <3>1. CASE a \in DOMAIN comps[e]
      <4>1. PICK k \in DOMAIN Program : k < pc[e] /\ Program[k].op = "compensate" /\ Program[k].name = comps[e][a]
        BY <3>1 DEF NamesOnce
      <4>2. k < pc'[e]
        BY <1>p, <1>t, <2>1, <4>1
      <4> QED
        BY <2>2, <3>1, <4>1, <4>2
    <3>2. CASE a = r
      <4>1. pc[e] < pc'[e]
        BY <1>t, <2>1
      <4> QED
        BY <2>1, <2>2, <3>2, <4>1 DEF n
    <3> QED
      BY <2>4, <2>5, <3>1, <3>2
  <2>6. \A a, b \in DOMAIN comps'[e] : comps'[e][a] = comps'[e][b] => a = b
    BY <2>2, <2>3, <2>4 DEF NamesOnce
  <2> QED
    BY <2>5, <2>6 DEF NamesOnce
<1>3. ~Registers(e) => UNCHANGED comps[e] /\ pc'[e] \in {pc[e], pc[e] + 1}
  BY DEF Moves, Rests, Begins, MakesCall, Claims, BodyReturns, Records, Returns, Settles, Undoes, Undone, UndoDone, Reports
<1> QED
  BY <1>1, <1>2, <1>3

\* Compensations are visited from the latest to the first, each recorded once.
LEMMA ReverseStep ==
    ASSUME TypeOK, NEW e \in Execs, FreshOK(e), UndoOK(e), NamesOnce(e), ReverseOK(e), Moves(e)
    PROVE  ReverseOK(e)'
<1>g. UNCHANGED <<memo[e], try[e]>>
  BY DEF Moves, Given
<1>t. /\ undo[e] \in Nat /\ undo[e] <= Len(comps[e]) /\ Len(comps[e]) \in Nat /\ DOMAIN comps[e] = 1 .. Len(comps[e])
      /\ Len(executed[e]) \in Nat /\ DOMAIN executed[e] = 1 .. Len(executed[e])
  BY DEF TypeOK
<1>c. \A n : CompensationId(n)' = CompensationId(n) /\ CompName(n)' = CompName(n)
  BY DEF CompensationId, CompName
<1>o. UNCHANGED outcome[e] => EndsTerminally(e)' = EndsTerminally(e)
  BY <1>g DEF EndsTerminally, IsTerminalFailure
<1> DEFINE None == \A i \in DOMAIN executed[e] : ~IsCompensation(executed[e][i].id)
<1>n. phase[e] \in BeforeUndo => None
  BY NoneYet
<1>1. CASE Rests(e)
  BY <1>1, <1>o DEF Rests, ReverseOK, Visited, LatestFirst
<1>2. ASSUME None, UNCHANGED executed[e], phase'[e] \notin {"compensating", "undoing"}
      PROVE  ReverseOK(e)'
  BY <1>2 DEF ReverseOK
<1>3. CASE Begins(e) \/ MakesCall(e) \/ Registers(e) \/ Returns(e)
  BY <1>2, <1>3, <1>n DEF Begins, MakesCall, Claims, Registers, Returns, BeforeUndo
<1>4. CASE BodyReturns(e)
  <2>1. phase[e] = "body" /\ phase'[e] \in {"handler", "settling"}
    BY <1>4 DEF BodyReturns
  <2>r. PICK st : Records(e, st)
    BY <1>4 DEF BodyReturns
  <2>2. /\ DOMAIN executed'[e] = 1 .. Len(executed[e]) + 1
        /\ \A j \in 1 .. Len(executed[e]) : executed'[e][j] = executed[e][j]
        /\ executed'[e][Len(executed[e]) + 1].id = cur[e]
    <3>1. /\ DOMAIN executed'[e] = 1 .. Len(executed[e]) + 1
          /\ \A j \in 1 .. Len(executed[e]) : executed'[e][j] = executed[e][j]
          /\ executed'[e][Len(executed[e]) + 1] = [id |-> cur[e], status |-> st]
      BY <1>g, <2>r, RecordTried
    <3> QED
      BY <3>1
  <2>3. None /\ ~IsCompensation(cur[e])
    BY <2>1, NoneYet DEF BeforeUndo
  <2>4. \A i \in DOMAIN executed'[e] : i \in DOMAIN executed[e] \/ i = Len(executed[e]) + 1
    BY <1>t, <2>2
  <2> QED
    BY <1>t, <2>1, <2>2, <2>3, <2>4 DEF ReverseOK
<1>5. CASE Settles(e)
  <2>1. phase[e] = "settling" /\ UNCHANGED <<executed[e], counters[e], comps[e]>> /\ phase'[e] # "undoing"
    BY <1>5 DEF Settles
  <2>2. \A n \in Names : counters[e][CompName(n)] = 0
    BY <2>1 DEF UndoOK, BeforeUndo
  <2>3. None
    BY <2>1, <1>n DEF BeforeUndo
  <2>4. phase'[e] = "compensating" => undo'[e] = Len(comps[e])
    BY <1>5 DEF Settles
  <2>5. phase'[e] = "compensating" => \A a \in 1 .. undo'[e] : counters'[e][CompName(comps'[e][a])] = 0
    BY <1>t, <2>1, <2>2, <2>4, NamesApart
  <2> QED
    BY <2>1, <2>3, <2>5 DEF ReverseOK
<1>6. CASE Undoes(e)
  <2> DEFINE k == comps[e][undo[e]]
  <2>1. undo[e] \in DOMAIN comps[e] /\ k \in Names /\ CompName(k) \in StepNames
    BY <1>6, NamesApart DEF Undoes
  <2>2. \A n \in Names : n # k => counters'[e][CompName(n)] = counters[e][CompName(n)]
    BY <1>6, <2>1, ClaimsOne, NamesApart DEF Undoes, CompName
  <2>3. /\ phase[e] = "compensating" /\ phase'[e] \in {"compensating", "undoing"}
        /\ UNCHANGED <<executed[e], comps[e], outcome[e]>> /\ undo'[e] = undo[e] - 1
        /\ phase'[e] = "undoing" => cur'[e] = StepId(e, CompName(k))
    BY <1>6 DEF Undoes, Claims
  <2> HIDE DEF k
  <2>4. counters[e][CompName(k)] = 0
    BY <1>t, <2>1, <2>3 DEF ReverseOK, k
  <2>5. ASSUME NEW a \in 1 .. undo'[e] PROVE counters'[e][CompName(comps[e][a])] = 0
    <3>1. a \in 1 .. undo[e] /\ a \in DOMAIN comps[e] /\ a # undo[e]
      BY <1>t, <2>1, <2>3
    <3>2. comps[e][a] # k /\ comps[e][a] \in Names
      BY <2>1, <3>1, NamesApart DEF NamesOnce, k
    <3> QED
      BY <2>2, <2>3, <3>1, <3>2 DEF ReverseOK
  <2>6. StepId(e, CompName(k)) = CompensationId(k)
    BY <2>4 DEF StepId, CompensationId, CompName
  <2>7. phase'[e] = "undoing" => undo'[e] < Len(comps[e]) /\ cur'[e] = CompensationId(comps[e][undo'[e] + 1])
    <3>1. undo'[e] + 1 = undo[e] /\ undo'[e] < Len(comps[e])
      BY <1>t, <2>1, <2>3
    <3> QED
      BY <2>3, <2>6, <3>1 DEF k
  <2>8. ASSUME NEW id, Visited(e, id) PROVE Visited(e, id)'
    <3>1. PICK a \in DOMAIN comps[e] : a > undo[e] /\ id = CompensationId(comps[e][a])
      BY <2>8 DEF Visited
    <3>2. a > undo'[e] /\ a > undo'[e] + 1
      BY <1>t, <2>1, <2>3, <3>1
    <3> QED
      BY <1>c, <2>3, <3>1, <3>2 DEF Visited
  <2>9. \A i : LatestFirst(e, i)' = LatestFirst(e, i)
    BY <2>3 DEF LatestFirst
  <2>10. EndsTerminally(e)' = EndsTerminally(e)
    BY <1>o, <2>3
  <2>11. \A i \in DOMAIN executed'[e] : IsCompensation(executed'[e][i].id) =>
           EndsTerminally(e)' /\ Visited(e, executed[e][i].id)' /\ LatestFirst(e, i)'
    BY <2>3, <2>8, <2>9, <2>10 DEF ReverseOK
  <2> QED
    BY <1>c, <2>3, <2>5, <2>7, <2>11 DEF ReverseOK
<1>7. CASE Undone(e)
  <2>0. PICK r \in Nat, u \in Nat : r = Len(executed[e]) + 1 /\ u = undo[e] + 1
    BY <1>t
  <2>1. /\ phase[e] = "undoing" /\ phase'[e] = "compensating"
        /\ UNCHANGED <<counters[e], comps[e], undo[e], outcome[e]>>
    BY <1>7 DEF Undone, Records
  <2>r. PICK st : Records(e, st)
    BY <1>7 DEF Undone
  <2>2. /\ DOMAIN executed'[e] = 1 .. r
        /\ \A j \in 1 .. Len(executed[e]) : executed'[e][j] = executed[e][j]
        /\ executed'[e][r].id = cur[e]
    <3>1. /\ DOMAIN executed'[e] = 1 .. Len(executed[e]) + 1
          /\ \A j \in 1 .. Len(executed[e]) : executed'[e][j] = executed[e][j]
          /\ executed'[e][Len(executed[e]) + 1] = [id |-> cur[e], status |-> st]
      BY <1>g, <2>r, RecordTried
    <3> QED
      BY <2>0, <3>1
  <2>3. cur[e] = CompensationId(comps[e][u]) /\ u \in DOMAIN comps[e] /\ u > undo[e]
    BY <1>t, <2>0, <2>1 DEF ReverseOK
  <2>4. EndsTerminally(e)'
    BY <1>o, <2>1 DEF UndoOK
  <2>5. ASSUME NEW i \in 1 .. Len(executed[e]), IsCompensation(executed[e][i].id)
        PROVE  Visited(e, executed[e][i].id)' /\ LatestFirst(e, i)'
    <3>1. Visited(e, executed[e][i].id) /\ LatestFirst(e, i)
      BY <1>t, <2>5 DEF ReverseOK
    <3>2. PICK a \in DOMAIN comps[e] : a > undo[e] /\ executed[e][i].id = CompensationId(comps[e][a])
      BY <3>1 DEF Visited
    <3>3. executed'[e][i].id = CompensationId(comps'[e][a]) /\ a \in DOMAIN comps'[e] /\ a > undo'[e]
      BY <2>1, <2>2, <2>5, <3>2
    <3>4. Visited(e, executed[e][i].id)'
      BY <1>c, <2>1, <3>3 DEF Visited
    <3>5. \A j \in 1 .. i - 1 : j \in 1 .. Len(executed[e])
      BY <1>t
    <3>6. LatestFirst(e, i)'
      BY <1>c, <2>1, <2>2, <2>5, <3>1, <3>5 DEF LatestFirst
    <3> QED
      BY <3>4, <3>6
  <2>6. Visited(e, executed[e][r].id)' /\ LatestFirst(e, r)'
    <3>1. Visited(e, executed[e][r].id)'
      BY <1>c, <2>1, <2>2, <2>3 DEF Visited
    <3>2. ASSUME NEW j \in 1 .. r - 1, IsCompensation(executed'[e][j].id)
          PROVE  \E a, b \in DOMAIN comps'[e] : /\ a > b
                    /\ executed'[e][j].id = CompensationId(comps'[e][a])
                    /\ executed'[e][r].id = CompensationId(comps'[e][b])
      <4>1. j \in 1 .. Len(executed[e]) /\ executed'[e][j] = executed[e][j]
        BY <1>t, <2>0, <2>2
      <4>2. Visited(e, executed[e][j].id)
        BY <1>t, <3>2, <4>1 DEF ReverseOK
      <4>3. PICK a \in DOMAIN comps[e] : a > u /\ executed[e][j].id = CompensationId(comps[e][a])
        BY <2>0, <2>1, <4>2 DEF Visited
      <4> QED
        BY <2>1, <2>2, <2>3, <4>1, <4>3
    <3>3. LatestFirst(e, r)'
      BY <1>c, <3>2 DEF LatestFirst
    <3> QED
      BY <3>1, <3>3
  <2>7. \A i \in DOMAIN executed'[e] : i \in 1 .. Len(executed[e]) \/ i = r
    BY <1>t, <2>0, <2>2
  <2>8. \A a \in 1 .. undo'[e] : counters'[e][CompName(comps'[e][a])] = 0
    BY <2>1 DEF ReverseOK
  <2>9. \A i \in DOMAIN executed'[e] : IsCompensation(executed'[e][i].id) =>
           EndsTerminally(e)' /\ Visited(e, executed[e][i].id)' /\ LatestFirst(e, i)'
    BY <2>2, <2>4, <2>5, <2>6, <2>7
  <2> QED
    BY <1>c, <2>1, <2>8, <2>9 DEF ReverseOK
<1>8. CASE UndoDone(e)
  BY <1>8, <1>c, <1>o DEF UndoDone, ReverseOK, Visited, LatestFirst
<1>9. CASE Reports(e)
  <2>1. EndsTerminally(e) => EndsTerminally(e)'
    BY <1>9, <1>g DEF Reports, Reported, EndsTerminally, IsTerminalFailure, Failed
  <2> QED
    BY <1>9, <1>c, <2>1 DEF Reports, ReverseOK, Visited, LatestFirst
<1> QED
  BY <1>1, <1>3, <1>4, <1>5, <1>6, <1>7, <1>8, <1>9 DEF Moves

\* Passing a call takes one number of its name, passing a registration none.
LEMMA CalledGrows ==
    ASSUME NEW k \in DOMAIN Program, NEW n
    PROVE  /\ Cardinality(Called(k, n)) \in Nat
           /\ Program[k].op # "compensate" /\ Program[k].name = n =>
                Cardinality(Called(k + 1, n)) = Cardinality(Called(k, n)) + 1
           /\ ~(Program[k].op # "compensate" /\ Program[k].name = n) => Called(k + 1, n) = Called(k, n)
<1>1. k \in Nat /\ k > 0
  BY ProgramAssumption
<1>2. Called(k, n) \subseteq 1 .. k - 1 /\ k \notin Called(k, n)
  BY <1>1 DEF Called
<1>3. IsFiniteSet(Called(k, n))
  <2>1. IsFiniteSet(1 .. k - 1)
    BY <1>1, FS_Interval
  <2> QED
    BY <1>2, <2>1, FS_Subset
<1>4. Cardinality(Called(k, n)) \in Nat
  BY <1>3, FS_CardinalityType
<1>5. ASSUME Program[k].op # "compensate", Program[k].name = n PROVE Called(k + 1, n) = Called(k, n) \cup {k}
  BY <1>1, <1>5 DEF Called
<1>6. ASSUME ~(Program[k].op # "compensate" /\ Program[k].name = n) PROVE Called(k + 1, n) = Called(k, n)
  BY <1>1, <1>6 DEF Called
<1>7. Cardinality(Called(k, n) \cup {k}) = Cardinality(Called(k, n)) + 1
  BY <1>2, <1>3, FS_AddElement
<1> QED
  BY <1>4, <1>5, <1>6, <1>7

LEMMA ProgramIdIs ==
    ASSUME NEW k
    PROVE  ProgramId(k) = <<<<"", Program[k].name>>, Cardinality(Called(k, Program[k].name))>>
BY DEF ProgramId, Called

\* The calls a handler is past are stored or recorded under the program's ids.
LEMMA PassedStep ==
    ASSUME TypeOK, NEW e \in Execs, StageOK(e), UndoOK(e), PassedOK(e), Moves(e)
    PROVE  PassedOK(e)'
<1>g. UNCHANGED memo[e]
  BY DEF Moves, Given
<1>t. /\ phase[e] \in Phases /\ counters[e] \in [StepNames -> Nat] /\ pc[e] \in Nat
      /\ Len(executed[e]) \in Nat /\ DOMAIN executed[e] = 1 .. Len(executed[e]) /\ DOMAIN Program \subseteq Nat
  BY ProgramAssumption DEF TypeOK
<1>c. /\ \A k : ProgramId(k)' = ProgramId(k)
      /\ \A k, n : Called(k, n)' = Called(k, n)
  BY DEF ProgramId, Called
<1> DEFINE Done(k, x) == \/ ProgramId(k) \in memo[e].completed
                         \/ \E i \in DOMAIN x : x[i].id = ProgramId(k) /\ x[i].status \in {"completed", "unencodable"}
           Past(p, x) == \A k \in DOMAIN Program : k < p /\ Program[k].op # "compensate" => Done(k, x)
           Sound(x) == \A i \in DOMAIN x : x[i].status # "unencodable"
           Numbered(c, k) == \A n \in Names : c[<<"", n>>] = Cardinality(Called(k, n))
<1>d. /\ PassedOK(e) <=>
           /\ phase[e] \in {"unassigned", "acking", "handler", "body"} =>
                Numbered(counters[e], IF phase[e] = "body" THEN pc[e] + 1 ELSE pc[e])
           /\ phase[e] = "body" =>
                pc[e] \in DOMAIN Program /\ Program[pc[e]].op = "run" /\ cur[e] = ProgramId(pc[e])
           /\ Past(pc[e], executed[e])
           /\ outcome[e].kind = "completed" =>
                /\ phase[e] \notin {"handler", "body"} /\ pc[e] > Len(Program)
                /\ phase[e] \in {"finishing", "reporting"} => Sound(executed[e])
      /\ PassedOK(e)' <=>
           /\ phase'[e] \in {"unassigned", "acking", "handler", "body"} =>
                Numbered(counters'[e], IF phase'[e] = "body" THEN pc'[e] + 1 ELSE pc'[e])
           /\ phase'[e] = "body" =>
                pc'[e] \in DOMAIN Program /\ Program[pc'[e]].op = "run" /\ cur'[e] = ProgramId(pc'[e])
           /\ Past(pc'[e], executed'[e])
           /\ outcome'[e].kind = "completed" =>
                /\ phase'[e] \notin {"handler", "body"} /\ pc'[e] > Len(Program)
                /\ phase'[e] \in {"finishing", "reporting"} => Sound(executed'[e])
  BY <1>g, <1>c DEF PassedOK
<1>w. ASSUME NEW st, Records(e, st)
      PROVE  /\ Past(pc[e], executed'[e])
             /\ st \in {"completed", "unencodable"} /\ cur[e] = ProgramId(pc[e]) => Done(pc[e], executed'[e])
  <2>1. /\ DOMAIN executed'[e] = 1 .. Len(executed[e]) + 1
        /\ \A j \in 1 .. Len(executed[e]) : executed'[e][j] = executed[e][j]
        /\ executed'[e][Len(executed[e]) + 1] = [id |-> cur[e], status |-> st]
    BY <1>g, <1>w, RecordTried
  <2>2. \A i \in DOMAIN executed[e] : i \in DOMAIN executed'[e] /\ executed'[e][i] = executed[e][i]
    BY <1>t, <2>1
  <2>3. Len(executed[e]) + 1 \in DOMAIN executed'[e]
    BY <1>t, <2>1
  <2>4. Past(pc[e], executed[e])
    BY <1>d
  <2>5. \A k : Done(k, executed[e]) => Done(k, executed'[e])
    BY <2>2
  <2> QED
    BY <2>1, <2>3, <2>4, <2>5
<1>z. \A p : Past(pc[e], p) /\ (pc[e] \in DOMAIN Program /\ Program[pc[e]].op # "compensate" => Done(pc[e], p))
              => Past(pc[e] + 1, p)
  <2>1. \A k \in DOMAIN Program : k < pc[e] + 1 => k < pc[e] \/ k = pc[e]
    BY <1>t
  <2> HIDE DEF Done
  <2> QED
    BY <2>1
<1> HIDE DEF Done, Past, Sound
<1>1. CASE Rests(e)
  BY <1>1, <1>d DEF Rests
<1>2. CASE Begins(e)
  <2>1. outcome[e].kind = "none"
    BY <1>2 DEF Begins, StageOK, Untouched, Running
  <2>2. Failed(FALSE).kind = "failed"
    BY DEF Failed
  <2> QED
    BY <1>2, <1>d, <2>1, <2>2 DEF Begins
<1>3. CASE MakesCall(e)
  <2>1. /\ phase[e] = "handler" /\ pc[e] \in DOMAIN Program /\ Program[pc[e]].op # "compensate"
        /\ UNCHANGED executed[e]
    BY <1>3 DEF MakesCall, Claims
  <2>2. Program[pc[e]].name \in Names /\ CallName(e) = <<"", Program[pc[e]].name>> /\ CallName(e) \in StepNames
    <3>1. Program[pc[e]] \in Calls
      BY <2>1, ProgramAssumption
    <3> QED
      BY <2>1, <3>1, NamesApart DEF Calls, CallName
  <2>3. Numbered(counters[e], pc[e])
    BY <2>1, <1>d
  <2>4. StepId(e, CallName(e)) = ProgramId(pc[e])
    BY <2>2, <2>3, ProgramIdIs DEF StepId
  <2>5. Numbered(counters'[e], pc[e] + 1)
    <3>1. /\ counters'[e][CallName(e)] = counters[e][CallName(e)] + 1
          /\ \A n \in StepNames \ {CallName(e)} : counters'[e][n] = counters[e][n]
      BY <1>3, <2>2, ClaimsOne DEF MakesCall
    <3>2. ASSUME NEW n \in Names PROVE counters'[e][<<"", n>>] = Cardinality(Called(pc[e] + 1, n))
      <4>1. CASE n = Program[pc[e]].name
        <5>1. counters[e][CallName(e)] = Cardinality(Called(pc[e], n)) /\ CallName(e) = <<"", n>>
          BY <2>2, <2>3, <4>1
        <5>2. Cardinality(Called(pc[e] + 1, n)) = Cardinality(Called(pc[e], n)) + 1
          BY <2>1, <4>1, CalledGrows
        <5> QED
          BY <3>1, <5>1, <5>2
      <4>2. CASE n # Program[pc[e]].name
        <5>1. <<"", n>> \in StepNames \ {CallName(e)}
          <6>1. <<"", n>> \in StepNames
            BY NamesApart
          <6>2. <<"", n>> # <<"", Program[pc[e]].name>>
            BY <4>2
          <6> QED
            BY <2>2, <6>1, <6>2
        <5> QED
          BY <2>1, <2>3, <3>1, <4>2, <5>1, CalledGrows
      <4> QED
        BY <4>1, <4>2
    <3> QED
      BY <3>2
  <2> HIDE DEF Numbered
  <2>6. outcome[e].kind # "completed" /\ Past(pc[e], executed[e])
    BY <2>1, <1>d
  <2>7. Memoized(e, StepId(e, CallName(e))) => Past(pc[e] + 1, executed[e])
    BY <2>4, <2>6, <1>z DEF Memoized, Done
  <2> QED
    BY <1>3, <1>d, <2>1, <2>4, <2>5, <2>6, <2>7 DEF MakesCall
<1>4. CASE BodyReturns(e)
  <2>1. phase[e] = "body" /\ UNCHANGED counters[e] /\ \E st : Records(e, st)
    BY <1>4 DEF BodyReturns, Records
  <2>2. /\ Numbered(counters[e], pc[e] + 1) /\ cur[e] = ProgramId(pc[e])
        /\ outcome[e].kind # "completed"
    BY <2>1, <1>d
  <2>3. Past(pc[e], executed'[e])
    BY <2>1, <1>w
  <2> HIDE DEF Numbered
  <2>4. CASE pc'[e] = pc[e] + 1 /\ phase'[e] = "handler" /\ UNCHANGED outcome[e]
    <3>1. \E st \in {"completed", "unencodable"} : Records(e, st)
      BY <1>4, <2>4 DEF BodyReturns
    <3>2. Done(pc[e], executed'[e])
      BY <3>1, <2>2, <1>w
    <3> QED
      BY <1>d, <1>z, <2>1, <2>2, <2>3, <2>4, <3>2
  <2>5. CASE phase'[e] = "settling" /\ outcome'[e].kind = "failed" /\ UNCHANGED pc[e]
    BY <1>d, <2>3, <2>5
  <2> QED
    BY <1>4, <2>4, <2>5 DEF BodyReturns
<1>5. CASE Registers(e)
  <2>1. /\ phase[e] = "handler" /\ pc[e] \in DOMAIN Program /\ Program[pc[e]].op = "compensate" /\ pc'[e] = pc[e] + 1
        /\ UNCHANGED <<phase[e], counters[e], executed[e], outcome[e]>>
    BY <1>5 DEF Registers
  <2>2. Numbered(counters'[e], pc[e] + 1)
    BY <1>d, <2>1, CalledGrows
  <2>3. Past(pc[e] + 1, executed[e])
    BY <1>d, <1>z, <2>1
  <2> HIDE DEF Numbered
  <2> QED
    BY <1>d, <2>1, <2>2, <2>3
<1> HIDE DEF Numbered
<1>6. CASE Returns(e)
  BY <1>6, <1>d DEF Returns
<1>7. CASE Settles(e)
  BY <1>7, <1>d DEF Settles, Sound
<1>8. CASE Undoes(e)
  BY <1>8, <1>d DEF Undoes, Claims
<1>9. CASE Undone(e)
  <2>1. Past(pc[e], executed'[e])
    BY <1>9, <1>w DEF Undone
  <2> QED
    BY <1>9, <1>d, <2>1 DEF Undone
<1>10. CASE UndoDone(e)
  BY <1>10, <1>d DEF UndoDone, UndoOK, EndsTerminally
<1>11. CASE Reports(e)
  <2>1. outcome'[e].kind = "completed" => outcome[e].kind = "completed"
    BY <1>11 DEF Reports, Reported, Failed
  <2> QED
    BY <1>11, <1>d, <2>1 DEF Reports
<1> QED
  BY <1>1, <1>2, <1>3, <1>4, <1>5, <1>6, <1>7, <1>8, <1>9, <1>10, <1>11 DEF Moves

\* Being assigned changes only what an execution is given.
Assigned(e) ==
    /\ phase[e] = "unassigned" /\ phase'[e] = "acking" /\ Untouched(e)
    /\ UNCHANGED <<pc[e], cur[e], counters[e], executed[e], comps[e], undo[e], outcome[e]>>

\* Every step assigns an execution or moves it.
LEMMA EveryoneMoves ==
    ASSUME TypeOK, StagesOK, [Next]_vars, NEW f \in Execs
    PROVE  Moves(f) \/ (Assign /\ f = seq' /\ Assigned(f))
<1>1. CASE Assign
  <2>1. seq' = seq + 1 /\ seq' \in Execs /\ seq \in Nat
    <3>1. seq \in 0 .. MaxExec /\ seq < MaxExec /\ seq' = seq + 1
      BY <1>1 DEF Assign, TypeOK
    <3>2. MaxExec \in Nat
      BY BoundAssumption
    <3> QED
      BY <3>1, <3>2 DEF Execs
  <2>2. CASE f = seq'
    <3>1. phase[f] = "unassigned" /\ Untouched(f)
      BY <2>1, <2>2 DEF StagesOK, StageOK
    <3>2. phase'[f] = "acking"
      BY <1>1, <2>2 DEF Assign, TypeOK
    <3> QED
      BY <1>1, <2>2, <3>1, <3>2 DEF Assign, Assigned
  <2>3. CASE f # seq'
    BY <1>1, <2>1, <2>3 DEF Assign, TypeOK, Moves, Given, Rests
  <2> QED
    BY <2>2, <2>3
<1>2. CASE LeaseExpires \/ (\E st : Wake(st)) \/ UNCHANGED vars
  BY <1>2 DEF LeaseExpires, Wake, vars, local, Moves, Given, Rests
<1>3. ASSUME NEW m \in net, PutAnswered(m) \/ PutUnanswered(m) PROVE Moves(f)
  <2>1. m.seq \in Execs
    BY DEF TypeOK, Updates
  <2>2. CASE PutAnswered(m)
    BY <2>1, <2>2 DEF PutAnswered, TypeOK, Moves, Given, Rests
  <2>3. CASE PutUnanswered(m)
    BY <2>3 DEF PutUnanswered, local, Moves, Given, Rests
  <2> QED
    BY <1>3, <2>2, <2>3
<1>4. ASSUME NEW e \in Execs, LocalSteps(e) PROVE Moves(f)
  <2>1. Moves(e) /\ \A g \in Execs \ {e} : Given(g) /\ Rests(g)
    BY <1>4, LocalMoves
  <2> QED
    BY <2>1 DEF Moves
<1> QED
  BY <1>1, <1>2, <1>3, <1>4 DEF Next, EngineSteps, LocalSteps

LEMMA SagaInit == Init => SagaInv
<1> SUFFICES ASSUME Init, NEW e \in Execs
             PROVE  UndoOK(e) /\ PassedOK(e) /\ NamesOnce(e) /\ ReverseOK(e)
  BY DEF SagaInv
<1>1. /\ phase[e] = "unassigned" /\ counters[e] = [n \in StepNames |-> 0] /\ executed[e] = <<>> /\ comps[e] = <<>>
      /\ pc[e] = 1 /\ undo[e] = 0 /\ outcome[e].kind = "none"
  BY DEF Init, Running
<1>2. \A n \in Names : counters[e][CompName(n)] = 0 /\ counters[e][<<"", n>>] = 0
  BY <1>1 DEF CompName, StepNames
<1>3. \A n : Cardinality(Called(1, n)) = 0
  <2>1. \A n : Called(1, n) = {}
    BY DEF Called
  <2> QED
    BY <2>1, FS_EmptySet
<1>4. \A k \in DOMAIN Program : ~(k < 1)
  BY ProgramAssumption
<1>d. DOMAIN executed[e] = {} /\ DOMAIN comps[e] = {}
  BY <1>1
<1>5. UndoOK(e)
  <2>1. \A i \in DOMAIN executed[e] : executed[e][i].status # "unencodable"
    BY <1>d
  <2>2. phase[e] \notin {"compensating", "undoing", "finishing"}
    BY <1>1
  <2> QED
    BY <1>1, <1>2, <2>1, <2>2 DEF UndoOK
<1>6. PassedOK(e)
  BY <1>1, <1>2, <1>3, <1>4 DEF PassedOK
<1>7. NamesOnce(e) /\ ReverseOK(e)
  BY <1>1 DEF NamesOnce, ReverseOK
<1> QED
  BY <1>5, <1>6, <1>7

LEMMA SagaNext == TypeOK /\ StagesOK /\ IdsFresh /\ SagaInv /\ [Next]_vars => SagaInv'
<1> SUFFICES ASSUME TypeOK, StagesOK, IdsFresh, SagaInv, [Next]_vars, NEW e \in Execs
             PROVE  /\ UndoOK(e)' /\ PassedOK(e)'
                    /\ RegistersOnce => NamesOnce(e)' /\ ReverseOK(e)'
  BY DEF SagaInv, RegistersOnce
<1>1. /\ StageOK(e) /\ FreshOK(e) /\ UndoOK(e) /\ PassedOK(e)
      /\ RegistersOnce => NamesOnce(e) /\ ReverseOK(e)
  BY DEF StagesOK, IdsFresh, SagaInv
<1>2. CASE Moves(e)
  BY <1>1, <1>2, UndoStep, PassedStep, NamesStep, ReverseStep
<1>3. CASE Assigned(e)
  <2>1. /\ phase[e] = "unassigned" /\ phase'[e] = "acking" /\ executed[e] = <<>> /\ comps[e] = <<>> /\ pc[e] = 1
        /\ outcome[e].kind = "none"
    BY <1>1, <1>3 DEF Assigned, Untouched, UndoOK, Running
  <2>2. UNCHANGED <<pc[e], cur[e], counters[e], executed[e], comps[e], undo[e], outcome[e]>>
    BY <1>3 DEF Assigned
  <2>3. \A k \in DOMAIN Program : ~(k < 1)
    BY ProgramAssumption
  <2>4. UndoOK(e)'
    BY <1>1, <2>1, <2>2 DEF UndoOK, BeforeUndo
  <2>5. PassedOK(e)'
    BY <1>1, <2>1, <2>2, <2>3 DEF PassedOK
  <2>6. NamesOnce(e)' /\ ReverseOK(e)'
    BY <2>1, <2>2 DEF NamesOnce, ReverseOK
  <2> QED
    BY <2>4, <2>5, <2>6
<1> QED
  BY <1>2, <1>3, EveryoneMoves

\* The compensations of an execution follow the handler: they run only after a
\* terminal failure, the last registered first, and the calls the handler is past
\* are stored or recorded.
THEOREM SagaInvariant == Spec => []SagaInv
<1>1. TypeOK /\ DurableInv /\ SagaInv /\ [Next]_vars => SagaInv'
  BY SagaNext DEF DurableInv
<1> QED
  BY <1>1, SagaInit, TypeCorrect, DurableInvariant, PTL DEF Spec

\* Compensations run in reverse registration order and only after the handler
\* ended in a terminal failure (executeCompensations), for every handler that
\* registers a compensation for a name once.
THEOREM SagaRunsBackwards ==
    ASSUME RegistersOnce
    PROVE  Spec => []CompensatesInReverse
<1>1. SagaInv => CompensatesInReverse
  BY DEF SagaInv, ReverseOK, EndsTerminally, LatestFirst, CompensatesInReverse
<1> QED
  BY <1>1, SagaInvariant, PTL

-----------------------------------------------------------------------------
(* What the terminal update carries, and what the engine has when a run ends. *)

\* Nothing is cut off steps that can all be encoded.
LEMMA AllEncode ==
    ASSUME NEW s \in Seq(Steps), \A i \in 1 .. Len(s) : s[i].status # "unencodable"
    PROVE  Len(EncodableSteps(s)) = Len(s)
<1>1. EncodableLen(s) = Len(s)
  BY DEF EncodableLen
<1>2. Len(s) \in Nat /\ Len(s) <= Len(s) /\ 0 + 1 = 1
  OBVIOUS
<1>3. Len(SubSeq(s, 1, Len(s))) = Len(s)
  BY <1>2, Slice
<1> QED
  BY <1>1, <1>3 DEF EncodableSteps

\* An execution that has reported keeps what it did.
LEMMA KeepsItsEnd ==
    ASSUME NEW e \in Execs, Moves(e), phase[e] \in {"reporting", "exited"}
    PROVE  /\ UNCHANGED <<memo[e], base[e], try[e], pc[e], executed[e], comps[e], outcome[e]>>
           /\ phase'[e] \in {"reporting", "exited"}
<1>1. Rests(e)
  BY DEF Moves, Begins, MakesCall, BodyReturns, Registers, Returns, Settles, Undoes, Undone, UndoDone, Reports
<1> QED
  BY <1>1 DEF Moves, Given, Rests

\* What is said of a terminal update depends on its sender alone.
LEMMA TerminalFrame ==
    ASSUME NEW m, TerminalOK(m),
           UNCHANGED <<memo[m.seq], base[m.seq], try[m.seq], pc[m.seq], executed[m.seq], comps[m.seq], outcome[m.seq]>>
    PROVE  TerminalOK(m)'
BY DEF TerminalOK, Covered, Tried, EndsTerminally, IsTerminalFailure, Encodes

LEMMA TerminalNext ==
    ASSUME TypeOK, StagesOK, UpdatesAreSlices, SagaInv, \A m \in net : TerminalOK(m), [Next]_vars
    PROVE  \A m \in net' : TerminalOK(m)'
<1>1. ASSUME NEW m \in net PROVE TerminalOK(m)'
  <2>1. m.seq \in Execs /\ SliceOf(m)
    BY DEF TypeOK, Updates, UpdatesAreSlices
  <2>2. CASE m.outcome.kind \in {"completed", "failed"}
    <3>1. phase[m.seq] \in {"reporting", "exited"}
      BY <2>1, <2>2 DEF SliceOf
    <3>2. Moves(m.seq)
      BY <2>1, <3>1, EveryoneMoves DEF Assigned
    <3> QED
      BY <2>1, <3>1, <3>2, KeepsItsEnd, TerminalFrame
  <2>3. CASE m.outcome.kind \notin {"completed", "failed"}
    BY <2>3 DEF TerminalOK
  <2> QED
    BY <2>2, <2>3
<1>2. ASSUME NEW e \in Execs, NEW out, NEW t, NEW m, m = Update(e, out, t), TerminalOK(m)', Send(e, m)
      PROVE  \A k \in net' : TerminalOK(k)'
  BY <1>1, <1>2 DEF Send
<1>3. ASSUME NEW e \in Execs, FunctionNotFound(e) PROVE \A m \in net' : TerminalOK(m)'
  <2>1. PICK m : m = Update(e, Failed(FALSE), <<>>)
    OBVIOUS
  <2>2. /\ UNCHANGED <<base, executed, comps>> /\ Send(e, m)
    BY <1>3, <2>1 DEF FunctionNotFound
  <2>3. executed[e] = <<>> /\ cursor[e] = 0 /\ comps[e] = <<>>
    BY <1>3 DEF FunctionNotFound, StagesOK, StageOK, Untouched, SagaInv, UndoOK
  <2>4. m.seq = e /\ m.offset = base[e] + cursor[e] /\ m.steps = <<>> /\ m.outcome.kind = "failed"
    BY <2>1 DEF Update, Failed
  <2>5. m.offset + Len(m.steps) = base[e] + Len(executed[e]) /\ DOMAIN executed[e] = {} /\ DOMAIN comps[e] = {}
    BY <2>3, <2>4 DEF TypeOK
  <2>6. TerminalOK(m)'
    BY <2>2, <2>4, <2>5 DEF TerminalOK, Covered
  <2> QED
    BY <1>2, <2>1, <2>2, <2>6
<1>4. ASSUME NEW e \in Execs, Flush(e) PROVE \A m \in net' : TerminalOK(m)'
  <2>1. PICK m : m = Update(e, Running, Batch(e))
    OBVIOUS
  <2>2. m.outcome.kind = "none"
    BY <2>1 DEF Update, Running
  <2>3. TerminalOK(m)'
    BY <2>2 DEF TerminalOK
  <2> QED
    BY <1>2, <1>4, <2>1, <2>3 DEF Flush
<1>5. ASSUME NEW e \in Execs, Report(e), ~cancelled[e] PROVE \A m \in net' : TerminalOK(m)'
  <2> DEFINE t == EncodableSteps(Unsaved(e))
  <2>1. PICK m : m = Update(e, Reported(e), t)
    OBVIOUS
  <2>2. /\ phase[e] = "finishing" /\ Send(e, m) /\ outcome'[e] = Reported(e)
        /\ UNCHANGED <<memo, base, try, pc, executed, comps>>
    BY <1>5, <2>1 DEF Report, TypeOK
  <2>3. m.seq = e /\ m.offset = base[e] + cursor[e] /\ m.steps = t /\ m.outcome = Reported(e)
    BY <2>1 DEF Update
  <2>4. UndoOK(e) /\ PassedOK(e)
    BY DEF SagaInv
  <2> DEFINE Sound == \A i \in DOMAIN executed[e] : executed[e][i].status # "unencodable"
  <2>5. Encodes => Sound
    BY <2>4 DEF UndoOK
  <2>6. m.outcome.kind = "completed" => outcome[e].kind = "completed" /\ Sound /\ pc[e] > Len(Program)
    BY <2>2, <2>3, <2>4 DEF PassedOK, Reported, Failed
  <2>7. /\ executed[e] \in Seq(Steps) /\ Len(executed[e]) \in Nat /\ DOMAIN executed[e] = 1 .. Len(executed[e])
        /\ cursor[e] \in Nat /\ base[e] \in Nat /\ cursor[e] <= Len(executed[e])
    BY DEF TypeOK, UpdatesAreSlices
  <2>8. /\ Unsaved(e) \in Seq(Steps)
        /\ Len(Unsaved(e)) = Len(executed[e]) - cursor[e]
        /\ \A i \in 1 .. Len(Unsaved(e)) : Unsaved(e)[i] = executed[e][cursor[e] + i]
    <3>1. Len(executed[e]) <= Len(executed[e])
      BY <2>7
    <3>2. /\ Unsaved(e) \in Seq(Steps)
          /\ Len(Unsaved(e)) = IF cursor[e] + 1 <= Len(executed[e]) THEN Len(executed[e]) - cursor[e] ELSE 0
          /\ \A i \in 1 .. Len(Unsaved(e)) : Unsaved(e)[i] = executed[e][cursor[e] + i]
      BY <2>7, <3>1, Slice DEF Unsaved
    <3> QED
      BY <2>7, <3>2
  <2>9. Sound => \A i \in 1 .. Len(Unsaved(e)) : Unsaved(e)[i].status # "unencodable"
    <3>1. \A i \in 1 .. Len(Unsaved(e)) : cursor[e] + i \in DOMAIN executed[e]
      BY <2>7, <2>8
    <3> QED
      BY <2>8, <3>1
  <2>10. Sound => m.offset + Len(m.steps) = base[e] + Len(executed[e])
    BY <2>3, <2>7, <2>8, <2>9, AllEncode
  <2>11. ASSUME Encodes, m.outcome.kind = "failed", EndsTerminally(e)' PROVE Covered(e)'
    <3>1. \A i \in DOMAIN Unsaved(e) : Unsaved(e)[i].status # "unencodable"
      BY <2>5, <2>8, <2>9, <2>11
    <3>2. Reported(e) = outcome[e]
      BY <3>1 DEF Reported
    <3>3. EndsTerminally(e)
      BY <2>2, <2>11, <3>2 DEF EndsTerminally, IsTerminalFailure
    <3>4. ASSUME NEW a \in DOMAIN comps[e] PROVE CompensationId(comps[e][a]) \in Tried(e)
      <4>1. counters[e][CompName(comps[e][a])] > 0 /\ comps[e][a] \in Names
        BY <2>2, <2>4, <3>3, NamesApart DEF UndoOK
      <4> QED
        BY <2>2, <2>4, <4>1 DEF UndoOK
    <3> QED
      BY <2>2, <3>4 DEF Covered, Tried
  <2>12. TerminalOK(m)'
    BY <2>2, <2>3, <2>5, <2>6, <2>10, <2>11 DEF TerminalOK, Encodes
  <2> HIDE DEF t
  <2> QED
    BY <1>2, <2>1, <2>2, <2>12
<1>6. ASSUME net' \subseteq net PROVE \A m \in net' : TerminalOK(m)'
  BY <1>1, <1>6
<1>7. ASSUME NEW e \in Execs, LocalSteps(e) PROVE \A m \in net' : TerminalOK(m)'
  <2>1. CASE Report(e) /\ cancelled[e]
    BY <1>6, <2>1 DEF Report
  <2> QED
    BY <1>3, <1>4, <1>5, <1>6, <1>7, <2>1, QuietSteps
<1>8. CASE EngineSteps \/ (\E m \in net : PutAnswered(m) \/ PutUnanswered(m)) \/ UNCHANGED vars
  BY <1>6, <1>8 DEF EngineSteps, Assign, LeaseExpires, Wake, PutAnswered, PutUnanswered, vars
<1> QED
  BY <1>7, <1>8 DEF Next, LocalSteps

\* Rows that grow keep their ids.
LEMMA IdsKept ==
    ASSUME NEW r \in Seq(Rows), NEW q \in Seq(Rows), Len(r) <= Len(q), \A i \in 1 .. Len(r) : q[i] = r[i]
    PROVE  IdsWith(r, "completed") \subseteq IdsWith(q, "completed")
<1>1. DOMAIN r = 1 .. Len(r) /\ DOMAIN q = 1 .. Len(q) /\ Len(r) \in Nat /\ Len(q) \in Nat
  OBVIOUS
<1>2. \A i \in DOMAIN r : i \in DOMAIN q /\ q[i] = r[i]
  BY <1>1
<1> QED
  BY <1>2 DEF IdsWith

\* A terminal update that carries all that is unsaved leaves every recorded step
\* stored.
AllIn(e, r) == \A i \in DOMAIN executed[e] : \E j \in DOMAIN r : r[j] = executed[e][i]
LEMMA AllStored ==
    ASSUME TypeOK, UpdatesAreSlices, RowsMatch, NEW m \in net, Current(m.seq), NEW r, r = StoreRows(m),
           m.offset + Len(m.steps) = base[m.seq] + Len(executed[m.seq])
    PROVE  AllIn(m.seq, r)
<1> DEFINE e == m.seq
<1>1. /\ e \in Execs /\ base[e] \in Nat /\ Len(executed[e]) \in Nat /\ DOMAIN executed[e] = 1 .. Len(executed[e])
  BY DEF TypeOK, Updates
<1>2. r \in Seq(Rows) /\ m.offset + Len(m.steps) <= Len(r) /\ Holds(e, r)
  BY Stored
<1>3. Len(r) \in Nat /\ DOMAIN r = 1 .. Len(r) /\ base[e] + Len(executed[e]) <= Len(r)
  BY <1>2
<1> HIDE DEF e
<1>4. ASSUME NEW i \in DOMAIN executed[e] PROVE \E j \in DOMAIN r : r[j] = executed[e][i]
  <2>1. PICK k \in Nat : k = base[e] + i
    BY <1>1
  <2>2. k \in base[e] + 1 .. Len(r) /\ k \in DOMAIN r /\ k - base[e] = i
    BY <1>1, <1>3, <2>1
  <2>3. r[k] = executed[e][k - base[e]]
    BY <1>2, <2>2 DEF Holds
  <2> QED
    BY <2>2, <2>3
<1> QED
  BY <1>4 DEF e, AllIn

LEMMA EndInit == Init => EndInv
BY DEF Init, EndInv, EndOK, Current, CompletedRunIsDurable

\* What an update of the execution that holds the run makes of a run that ends.
LEMMA EndRecorded ==
    ASSUME TypeOK, DurableInv, SagaInv, EndInv, NEW m \in net, Current(m.seq), RecordOutcome(m), seq' = seq,
           UNCHANGED <<memo, base, try, pc, executed, comps, outcome>>,
           phase[m.seq] \in {"reporting", "exited"} => phase'[m.seq] \in {"reporting", "exited"}
    PROVE  EndOK'
<1> DEFINE e == m.seq
<1>1. /\ m \in Updates /\ e \in Execs /\ e = seq /\ m.outcome \in Outcomes /\ SliceOf(m) /\ TerminalOK(m)
      /\ UpdatesAreSlices /\ RowsMatch
  BY DEF TypeOK, Updates, Current, DurableInv, UpdatesAreSlices, EndInv
<1>2. memo[e].completed \subseteq IdsWith(rows, "completed") /\ try[e] = attempt
  BY <1>1 DEF EndInv, EndOK
<1>3. rows' = StoreRows(m)
  BY DEF RecordOutcome
<1>4. PICK r : r = StoreRows(m)
  OBVIOUS
<1>5. IdsWith(rows, "completed") \subseteq IdsWith(r, "completed")
  <2>1. r \in Seq(Rows) /\ Len(rows) <= Len(r) /\ \A i \in 1 .. Len(rows) : r[i] = rows[i]
    BY <1>1, <1>4, Stored
  <2> QED
    BY <2>1, IdsKept DEF TypeOK
<1>s. ASSUME m.offset + Len(m.steps) = base[e] + Len(executed[e])
      PROVE  AllIn(e, r)
  <2>1. UpdatesAreSlices /\ RowsMatch
    BY <1>1
  <2> QED
    BY <1>4, <1>s, <2>1, AllStored
<1>6. m.outcome.kind # "none" => m.outcome = outcome[e] /\ phase[e] \in {"reporting", "exited"}
  BY <1>1 DEF SliceOf
<1>7. m.outcome.kind \in {"none", "completed", "failed", "yielded"} /\ m.outcome.retryable \in BOOLEAN
  BY <1>1 DEF Outcomes
<1> HIDE DEF e
<1>8. CASE m.outcome.kind = "none"
  <2>1. status' = "running" /\ attempt' = attempt
    BY <1>8 DEF RecordOutcome
  <2> QED
    BY <1>1, <1>2, <1>3, <1>4, <1>5, <2>1 DEF EndOK, Current, CompletedRunIsDurable
<1>9. CASE m.outcome.kind = "completed"
  <2>1. status' = "completed"
    BY <1>9 DEF RecordOutcome
  <2>2. /\ m.offset + Len(m.steps) = base[e] + Len(executed[e]) /\ pc[e] > Len(Program)
        /\ \A i \in DOMAIN executed[e] : executed[e][i].status # "unencodable"
    BY <1>1, <1>9 DEF TerminalOK, e
  <2>3. \A i \in DOMAIN executed[e] : \E j \in DOMAIN r : r[j] = executed[e][i]
    BY <1>s, <2>2 DEF AllIn
  <2>4. ASSUME NEW k \in DOMAIN Program, Program[k].op # "compensate"
        PROVE  ProgramId(k) \in IdsWith(r, "completed")
    <3>1. k < pc[e]
      BY <1>1, <2>2, ProgramAssumption DEF TypeOK
    <3>2. \/ ProgramId(k) \in memo[e].completed
          \/ \E i \in DOMAIN executed[e] :
                executed[e][i].id = ProgramId(k) /\ executed[e][i].status \in {"completed", "unencodable"}
      BY <1>1, <2>4, <3>1 DEF SagaInv, PassedOK
    <3>3. ASSUME NEW i \in DOMAIN executed[e], executed[e][i].id = ProgramId(k),
                 executed[e][i].status \in {"completed", "unencodable"}
          PROVE  ProgramId(k) \in IdsWith(r, "completed")
      <4>1. PICK j \in DOMAIN r : r[j] = executed[e][i]
        BY <2>3
      <4> QED
        BY <2>2, <3>3, <4>1 DEF IdsWith
    <3> QED
      BY <1>2, <1>5, <3>2, <3>3
  <2>5. CompletedRunIsDurable'
    BY <1>3, <1>4, <2>4 DEF CompletedRunIsDurable, ProgramId
  <2> QED
    BY <1>1, <1>6, <1>9, <2>1, <2>5 DEF EndOK, Current, e
<1>10. CASE m.outcome.kind = "failed"
  <2>1. /\ status' \in {"failed", "paused", "ready"}
        /\ status' = "failed" => IsTerminalFailure(m.outcome.retryable, attempt)
    BY <1>7, <1>10 DEF RecordOutcome, IsTerminalFailure
  <2>2. ASSUME status' = "failed", Encodes
        PROVE  /\ Covered(seq)'
               /\ \A i \in DOMAIN executed'[seq'] : \E j \in DOMAIN rows' : rows'[j] = executed'[seq'][i]
    <3>1. EndsTerminally(e)
      BY <1>2, <1>6, <1>10, <2>1, <2>2 DEF EndsTerminally
    <3>2. Covered(e) /\ m.offset + Len(m.steps) = base[e] + Len(executed[e])
      BY <1>1, <1>10, <2>2, <3>1 DEF TerminalOK, e
    <3>3. \A i \in DOMAIN executed[e] : \E j \in DOMAIN r : r[j] = executed[e][i]
      BY <1>s, <3>2 DEF AllIn
    <3>4. Covered(seq)'
      BY <1>1, <3>2 DEF Covered, Tried
    <3> QED
      BY <1>1, <1>3, <1>4, <3>3, <3>4
  <2> QED
    BY <1>1, <1>6, <1>10, <2>1, <2>2 DEF EndOK, Current, CompletedRunIsDurable, Encodes, e
<1>11. CASE m.outcome.kind = "yielded"
  <2>1. status' = "waiting"
    BY <1>11 DEF RecordOutcome
  <2> QED
    BY <2>1 DEF EndOK, Current, CompletedRunIsDurable
<1> QED
  BY <1>7, <1>8, <1>9, <1>10, <1>11

LEMMA EndNext ==
    ASSUME TypeOK, DurableInv, SagaInv, EndInv, [Next]_vars
    PROVE  EndOK'
<1>e. EndOK
  BY DEF EndInv
<1>1. ASSUME UNCHANGED <<rows, status, seq, attempt>> PROVE EndOK'
  <2>1. \A e \in Execs : Moves(e)
    <3>1. ~Assign
      BY <1>1 DEF Assign
    <3> QED
      BY <3>1, EveryoneMoves DEF DurableInv
  <2>2. \A e \in Execs : UNCHANGED <<memo[e], try[e]>>
    BY <2>1 DEF Moves, Given
  <2>3. CompletedRunIsDurable'
    BY <1>e, <1>1 DEF EndOK, CompletedRunIsDurable
  <2>4. CASE status \in {"completed", "failed"}
    <3>1. seq \in Execs /\ phase[seq] \in {"reporting", "exited"}
      BY <1>e, <2>4 DEF EndOK
    <3>2. /\ UNCHANGED <<memo[seq], executed[seq], comps[seq]>>
          /\ phase'[seq] \in {"reporting", "exited"}
      BY <1>1, <2>1, <3>1, KeepsItsEnd
    <3>3. Covered(seq) => Covered(seq)'
      BY <1>1, <3>2 DEF Covered, Tried
    <3> QED
      BY <1>e, <1>1, <2>3, <2>4, <3>1, <3>2, <3>3 DEF EndOK, Current, Encodes
  <2>5. CASE status \notin {"completed", "failed"}
    BY <1>e, <1>1, <2>2, <2>3, <2>5 DEF EndOK, Current
  <2> QED
    BY <2>4, <2>5
<1>2. CASE Assign
  <2>1. status' = "running" /\ seq' = seq + 1 /\ UNCHANGED <<rows, attempt>>
    BY <1>2 DEF Assign
  <2>2. ASSUME NEW e \in Execs, e = seq' PROVE memo'[e].completed = IdsWith(rows, "completed") /\ try'[e] = attempt
    BY <1>2, <2>2 DEF Assign, TypeOK
  <2> QED
    BY <2>1, <2>2 DEF EndOK, Current, CompletedRunIsDurable
<1>3. CASE LeaseExpires \/ \E st : Wake(st)
  <2>1. status' = "ready"
    BY <1>3 DEF LeaseExpires, Wake
  <2> QED
    BY <2>1 DEF EndOK, Current, CompletedRunIsDurable
<1>4. ASSUME NEW m \in net, PutAnswered(m) \/ PutUnanswered(m) PROVE EndOK'
  <2>1. /\ EngineHandles(m) /\ UNCHANGED <<memo, base, try, pc, executed, comps, outcome>>
    BY <1>4 DEF PutAnswered, PutUnanswered, local
  <2>2. CASE Current(m.seq)
    <3>1. m.seq \in Execs
      BY DEF TypeOK, Updates
    <3>2. phase[m.seq] \in {"reporting", "exited"} => phase'[m.seq] \in {"reporting", "exited"}
      BY <1>4, <3>1 DEF PutAnswered, PutUnanswered, local, TypeOK
    <3>3. RecordOutcome(m) /\ seq' = seq
      BY <2>1, <2>2 DEF EngineHandles
    <3> QED
      BY <2>1, <2>2, <3>2, <3>3, EndRecorded
  <2>3. CASE ~Current(m.seq)
    BY <1>1, <2>1, <2>3 DEF EngineHandles, engine
  <2> QED
    BY <2>2, <2>3
<1>5. ASSUME NEW e \in Execs, LocalSteps(e) PROVE EndOK'
  BY <1>1, <1>5, LocalStep DEF LocalSteps, engine
<1>6. CASE UNCHANGED vars
  BY <1>1, <1>6 DEF vars, engine
<1> QED
  BY <1>2, <1>3, <1>4, <1>5, <1>6 DEF Next, EngineSteps, LocalSteps

\* What terminal updates carry, and what the engine has when a run has ended.
THEOREM EndInvariant == Spec => []EndInv
<1>1. TypeOK /\ DurableInv /\ SagaInv /\ EndInv /\ [Next]_vars => EndInv'
  BY TerminalNext, EndNext DEF EndInv, DurableInv
<1> QED
  BY <1>1, EndInit, TypeCorrect, DurableInvariant, SagaInvariant, PTL DEF Spec

\* A run the engine shows as completed has a completed row for every durable call
\* of its handler, whatever was checkpointed, lost, resent or replayed
\* (executedStepsFrom hands the terminal update all that is unsaved).
THEOREM CompletedIsDurable == Spec => []CompletedRunIsDurable
<1>1. EndInv => CompletedRunIsDurable
  BY DEF EndInv, EndOK
<1> QED
  BY <1>1, EndInvariant, PTL

\* A run that has ended failed has tried every compensation its last execution had
\* registered, when every step's output can be encoded (an output that cannot
\* makes a retryable failure final after the compensations were decided).
THEOREM FailureCompensates ==
    ASSUME Encodes
    PROVE  Spec => []FailedRunCompensated
<1>1. ASSUME TypeOK, SagaInv, EndInv, status = "failed", NEW i \in DOMAIN comps[seq]
      PROVE  CompensationId(comps[seq][i]) \in
                memo[seq].completed \cup IdsWith(executed[seq], "completed")
                                    \cup IdsWith(executed[seq], "failed")
  <2>1. seq \in Execs /\ CompensationId(comps[seq][i]) \in Tried(seq)
    BY <1>1 DEF EndInv, EndOK, Covered
  <2>2. CASE CompensationId(comps[seq][i]) \in memo[seq].completed
    BY <2>2
  <2>3. ASSUME NEW j \in DOMAIN executed[seq], executed[seq][j].id = CompensationId(comps[seq][i])
        PROVE  executed[seq][j].id \in IdsWith(executed[seq], "completed") \cup IdsWith(executed[seq], "failed")
    <3>1. executed[seq][j].status \in Statuses
      <4>1. executed[seq][j] \in Steps
        BY <1>1, <2>1 DEF TypeOK
      <4> QED
        BY <4>1 DEF Steps
    <3>2. executed[seq][j].status # "unencodable"
      BY <1>1, <2>1 DEF SagaInv, UndoOK
    <3> QED
      BY <3>1, <3>2 DEF IdsWith, Statuses
  <2> QED
    BY <2>1, <2>2, <2>3 DEF Tried
<1>2. TypeOK /\ SagaInv /\ EndInv => FailedRunCompensated
  BY <1>1 DEF FailedRunCompensated
<1> QED
  BY <1>2, TypeCorrect, SagaInvariant, EndInvariant, PTL

\* A run that has ended failed has a stored row for every compensation its last
\* execution ran, when every step's output can be encoded.
THEOREM CompensationsAreDurable ==
    ASSUME Encodes
    PROVE  Spec => []CompensationsRecorded
<1>1. EndInv => CompensationsRecorded
  BY DEF EndInv, EndOK, CompensationsRecorded
<1> QED
  BY <1>1, EndInvariant, PTL

-----------------------------------------------------------------------------
(* What the retry budget is spent on. *)

FailedStep(s) == s.status = "failed" /\ ~IsCompensation(s.id)
HasFailed(e) == \E i \in DOMAIN executed[e] : FailedStep(executed[e][i])
Retries(out) == out.kind = "failed" /\ out.retryable

\* A failure that will be retried comes from a step of the handler, unless the job
\* was cancelled, and then it is not reported.
CauseOK(e) == Retries(outcome[e]) => cancelled[e] \/ HasFailed(e)
RetryOK(m) ==
    Retries(m.outcome) => /\ HasFailed(m.seq)
                          /\ m.offset + Len(m.steps) = base[m.seq] + Len(executed[m.seq])

\* While an execution holds the run, the attempts used up are paid for by the rows
\* it was given: its own failure has not been counted.
FailedUpTo(r, n) == {i \in 1 .. n : FailedStep(r[i])}
BudgetOK ==
    /\ AttemptsAreFailures
    /\ status = "running" =>
         seq \in Execs /\ attempt - 1 <= Cardinality(FailedUpTo(rows, base[seq]))
BudgetInv == (\A e \in Execs : CauseOK(e)) /\ (\A m \in net : RetryOK(m)) /\ BudgetOK

\* There are finitely many of them.
LEMMA FailedUpToIs ==
    ASSUME NEW r \in Seq(Rows), NEW n \in Nat
    PROVE  IsFiniteSet(FailedUpTo(r, n)) /\ Cardinality(FailedUpTo(r, n)) \in Nat
<1>1. IsFiniteSet(1 .. n)
  BY FS_Interval
<1>2. FailedUpTo(r, n) \subseteq 1 .. n
  BY DEF FailedUpTo
<1> QED
  BY <1>1, <1>2, FS_Subset, FS_CardinalityType

\* Rows that grow keep the failures they show.
LEMMA FailuresKept ==
    ASSUME NEW r \in Seq(Rows), NEW q \in Seq(Rows), Len(r) <= Len(q), \A i \in 1 .. Len(r) : q[i] = r[i],
           NEW n \in Nat, NEW k \in Nat, n <= Len(r), n <= k
    PROVE  /\ FailedUpTo(r, n) \subseteq FailedUpTo(q, k)
           /\ Cardinality(FailedUpTo(r, n)) <= Cardinality(FailedUpTo(q, k))
<1>1. ASSUME NEW i \in 1 .. n, FailedStep(r[i]) PROVE i \in 1 .. k /\ FailedStep(q[i])
  <2>1. i \in 1 .. Len(r) /\ i \in 1 .. k
    OBVIOUS
  <2> QED
    BY <1>1, <2>1
<1>2. FailedUpTo(r, n) \subseteq FailedUpTo(q, k)
  BY <1>1 DEF FailedUpTo
<1> QED
  BY <1>2, FailedUpToIs, FS_Subset

\* A recorded failure stays recorded.
LEMMA StillFailed ==
    ASSUME TypeOK, NEW e \in Execs, HasFailed(e),
           executed'[e] = executed[e] \/ \E st : Records(e, st)
    PROVE  HasFailed(e)'
<1>1. CASE executed'[e] = executed[e]
  BY <1>1 DEF HasFailed
<1>2. ASSUME NEW st, Records(e, st) PROVE HasFailed(e)'
  <2> DEFINE r == [id |-> cur[e], status |-> st]
  <2>1. executed[e] \in Seq(Steps) /\ executed'[e] = Append(executed[e], r)
    BY <1>2 DEF TypeOK, Records
  <2> HIDE DEF r
  <2>2. \A i \in DOMAIN executed[e] : i \in DOMAIN executed'[e] /\ executed'[e][i] = executed[e][i]
    BY <2>1
  <2> QED
    BY <2>2 DEF HasFailed
<1> QED
  BY <1>1, <1>2

\* How an execution can come to a failure that will be retried.
LEMMA CauseStep ==
    ASSUME TypeOK, IdsFresh, SagaInv, "error" \notin Faults, NEW e \in Execs, LocalSteps(e), CauseOK(e)
    PROVE  CauseOK(e)'
<1>t. /\ outcome \in [Execs -> Outcomes] /\ executed \in [Execs -> Seq(Steps)] /\ phase \in [Execs -> Phases]
      /\ cancelled \in [Execs -> BOOLEAN]
  BY DEF TypeOK
<1>c. cancelled[e] => cancelled'[e]
  BY <1>t DEF LocalSteps, HandlerSteps, HandlerErrs, AckAssignment, FunctionNotFound, AckFails, Run, Compensate,
     Sleep, WaitForEvent, Invoke, InvokeAsync, Await, RunSucceeds, RunFails, HandlerReturns, Settle, Undo,
     UndoEnds, UndoReturns, Report, YieldUnsent, PutGivesUp, Flush, CheckpointerStops, Cancel, Crash
<1>r. ~Retries(Failed(FALSE)) /\ ~Retries(Completed) /\ \A id : ~Retries(Yielded(id))
  BY DEF Retries, Failed, Completed, Yielded
<1>1. ASSUME Retries(outcome'[e]) => Retries(outcome[e]), executed'[e] = executed[e] \/ \E st : Records(e, st)
      PROVE  CauseOK(e)'
  BY <1>c, <1>1, StillFailed DEF CauseOK
<1>2. CASE \E r \in BOOLEAN : RunFails(e, r)
  <2> DEFINE x == [id |-> cur[e], status |-> "failed"]
  <2>1. phase[e] = "body" /\ executed'[e] = Append(executed[e], x)
    BY <1>t, <1>2 DEF RunFails, Record
  <2>2. FailedStep(x)
    BY <2>1, NoneYet DEF FailedStep, BeforeUndo, IdsFresh, SagaInv
  <2> HIDE DEF x
  <2>3. Len(executed[e]) + 1 \in DOMAIN executed'[e] /\ executed'[e][Len(executed[e]) + 1] = x
    BY <1>t, <2>1
  <2> QED
    BY <2>2, <2>3 DEF CauseOK, HasFailed
<1>3. CASE cancelled[e] /\ HandlerReturns(e, Failed(TRUE))
  BY <1>c, <1>3 DEF CauseOK
<1>4. CASE Run(e) \/ Compensate(e) \/ AckAssignment(e) \/ AckFails(e) \/ Undo(e) \/ UndoEnds(e)
           \/ YieldUnsent(e) \/ PutGivesUp(e) \/ Flush(e) \/ CheckpointerStops(e) \/ Cancel(e) \/ Crash(e)
  BY <1>1, <1>4 DEF Run, Compensate, AckAssignment, AckFails, Undo, UndoEnds, YieldUnsent, PutGivesUp, Flush,
     CheckpointerStops, Cancel, Crash
<1>5. CASE FunctionNotFound(e)
  BY <1>t, <1>r, <1>1, <1>5 DEF FunctionNotFound
<1>6. CASE Sleep(e) \/ WaitForEvent(e) \/ Invoke(e) \/ InvokeAsync(e)
  <2>1. /\ executed' = executed
        /\ outcome' = outcome \/ \E out : HandlerEnds(e, out) /\ (out = Failed(FALSE) \/ \E id : out = Yielded(id))
    BY <1>6 DEF Sleep, WaitForEvent, Invoke, InvokeAsync, Await
  <2>2. ASSUME NEW out, HandlerEnds(e, out), ~Retries(out) PROVE CauseOK(e)'
    <3>1. outcome'[e] = out
      BY <1>t, <2>2 DEF HandlerEnds
    <3> QED
      BY <1>1, <2>1, <2>2, <3>1
  <2>3. CASE outcome' = outcome
    BY <1>1, <2>1, <2>3
  <2> QED
    BY <1>r, <2>1, <2>2, <2>3
<1>7. CASE (\E st \in {"completed", "unencodable"} : RunSucceeds(e, st))
           \/ \E st \in {"completed", "failed"} : UndoReturns(e, st)
  <2>1. PICK st : Records(e, st) /\ outcome' = outcome
    BY <1>t, <1>7, LocalMoves DEF RunSucceeds, UndoReturns, Record, Records
  <2> QED
    BY <1>1, <2>1
<1>8. CASE HandlerReturns(e, Completed)
  BY <1>t, <1>r, <1>1, <1>8 DEF HandlerReturns, HandlerEnds
<1>9. CASE \E b \in BOOLEAN : Settle(e, b)
  BY <1>t, <1>r, <1>1, <1>9 DEF Settle
<1>10. CASE Report(e)
  BY <1>t, <1>r, <1>1, <1>10 DEF Report, Reported
<1> QED
  BY <1>2, <1>3, <1>4, <1>5, <1>6, <1>7, <1>8, <1>9, <1>10 DEF LocalSteps, HandlerSteps, HandlerErrs

\* The other executions and the engine leave the cause of a failure alone.
LEMMA CauseNext ==
    ASSUME TypeOK, StagesOK, IdsFresh, SagaInv, "error" \notin Faults, \A e \in Execs : CauseOK(e), [Next]_vars,
           NEW f \in Execs
    PROVE  CauseOK(f)'
<1>1. ASSUME UNCHANGED <<outcome[f], executed[f]>>, cancelled[f] => cancelled'[f] PROVE CauseOK(f)'
  BY <1>1 DEF CauseOK, HasFailed
<1>2. CASE EngineSteps \/ UNCHANGED vars
  BY <1>1, <1>2 DEF EngineSteps, Assign, LeaseExpires, Wake, vars, local
<1>3. ASSUME NEW m \in net, PutAnswered(m) \/ PutUnanswered(m) PROVE CauseOK(f)'
  <2>1. m.seq \in Execs /\ cancelled \in [Execs -> BOOLEAN]
    BY DEF TypeOK, Updates
  <2> QED
    BY <1>1, <1>3, <2>1 DEF PutAnswered, PutUnanswered, local
<1>4. ASSUME NEW e \in Execs, LocalSteps(e) PROVE CauseOK(f)'
  <2>1. CASE e = f
    BY <1>4, <2>1, CauseStep
  <2>2. CASE e # f
    <3>1. UNCHANGED <<outcome[f], executed[f]>>
      BY <1>4, <2>2, LocalMoves DEF Rests
    <3>2. cancelled'[f] = cancelled[f]
      BY <1>4, <2>2 DEF TypeOK, LocalSteps, HandlerSteps, HandlerErrs, AckAssignment, FunctionNotFound, AckFails,
         Run, Compensate, Sleep, WaitForEvent, Invoke, InvokeAsync, Await, RunSucceeds, RunFails, HandlerReturns,
         Settle, Undo, UndoEnds, UndoReturns, Report, YieldUnsent, PutGivesUp, Flush, CheckpointerStops, Cancel, Crash
    <3> QED
      BY <1>1, <3>1, <3>2
  <2> QED
    BY <2>1, <2>2
<1> QED
  BY <1>2, <1>3, <1>4 DEF Next, LocalSteps

\* The report of a failure that will be retried carries the step that failed.
LEMMA RetryNext ==
    ASSUME TypeOK, StagesOK, UpdatesAreSlices, \A e \in Execs : CauseOK(e), \A m \in net : RetryOK(m), [Next]_vars
    PROVE  \A m \in net' : RetryOK(m)'
<1>1. ASSUME NEW m \in net PROVE RetryOK(m)'
  <2>1. m.seq \in Execs /\ SliceOf(m)
    BY DEF TypeOK, Updates, UpdatesAreSlices
  <2>2. CASE Retries(m.outcome)
    <3>1. phase[m.seq] \in {"reporting", "exited"}
      BY <2>1, <2>2 DEF SliceOf, Retries
    <3>2. Moves(m.seq)
      BY <2>1, <3>1, EveryoneMoves DEF Assigned
    <3>3. UNCHANGED <<base[m.seq], executed[m.seq]>>
      BY <2>1, <3>1, <3>2, KeepsItsEnd
    <3> QED
      BY <3>3 DEF RetryOK, HasFailed
  <2> QED
    BY <2>2 DEF RetryOK
<1>2. ASSUME NEW e \in Execs, NEW m, RetryOK(m)', Send(e, m) PROVE \A k \in net' : RetryOK(k)'
  BY <1>1, <1>2 DEF Send
<1>3. ASSUME NEW e \in Execs, NEW out, NEW t, Send(e, Update(e, out, t)), ~Retries(out)
      PROVE  \A k \in net' : RetryOK(k)'
  <2>1. PICK m : m = Update(e, out, t)
    OBVIOUS
  <2>2. m.outcome = out
    BY <2>1 DEF Update
  <2> QED
    BY <1>2, <1>3, <2>1, <2>2 DEF RetryOK
<1>4. ASSUME NEW e \in Execs, FunctionNotFound(e) \/ Flush(e) PROVE \A m \in net' : RetryOK(m)'
  <2>1. ~Retries(Failed(FALSE)) /\ ~Retries(Running)
    BY DEF Retries, Failed, Running
  <2> QED
    BY <1>3, <1>4, <2>1 DEF FunctionNotFound, Flush
<1>5. ASSUME NEW e \in Execs, Report(e), ~cancelled[e] PROVE \A m \in net' : RetryOK(m)'
  <2> DEFINE t == EncodableSteps(Unsaved(e))
  <2>1. Send(e, Update(e, Reported(e), t)) /\ UNCHANGED <<base, executed>>
    BY <1>5 DEF Report
  <2>2. CASE ~Retries(Reported(e))
    BY <1>3, <2>1, <2>2
  <2>3. CASE Retries(Reported(e))
    <3>1. Reported(e) = outcome[e] /\ \A i \in DOMAIN Unsaved(e) : Unsaved(e)[i].status # "unencodable"
      BY <2>3 DEF Reported, Retries, Failed
    <3>2. HasFailed(e)
      BY <1>5, <2>3, <3>1 DEF CauseOK
    <3>3. /\ executed[e] \in Seq(Steps) /\ Len(executed[e]) \in Nat
          /\ cursor[e] \in Nat /\ base[e] \in Nat /\ cursor[e] <= Len(executed[e])
      BY DEF TypeOK, UpdatesAreSlices
    <3>4. Unsaved(e) \in Seq(Steps) /\ Len(Unsaved(e)) = Len(executed[e]) - cursor[e]
      <4>1. Len(executed[e]) <= Len(executed[e])
        BY <3>3
      <4>2. /\ Unsaved(e) \in Seq(Steps)
            /\ Len(Unsaved(e)) = IF cursor[e] + 1 <= Len(executed[e]) THEN Len(executed[e]) - cursor[e] ELSE 0
        BY <3>3, <4>1, Slice DEF Unsaved
      <4> QED
        BY <3>3, <4>2
    <3>5. Len(t) = Len(Unsaved(e))
      BY <3>1, <3>4, AllEncode
    <3> HIDE DEF t
    <3>6. PICK m : m = Update(e, Reported(e), t)
      OBVIOUS
    <3>7. m.seq = e /\ m.offset = base[e] + cursor[e] /\ m.steps = t
      BY <3>6 DEF Update
    <3>8. m.offset + Len(m.steps) = base[e] + Len(executed[e])
      BY <3>3, <3>4, <3>5, <3>7
    <3>9. RetryOK(m)'
      BY <2>1, <3>2, <3>7, <3>8 DEF RetryOK, HasFailed
    <3> QED
      BY <1>2, <2>1, <3>6, <3>9
  <2> QED
    BY <2>2, <2>3
<1>6. ASSUME net' \subseteq net PROVE \A m \in net' : RetryOK(m)'
  BY <1>1, <1>6
<1>7. ASSUME NEW e \in Execs, LocalSteps(e) PROVE \A m \in net' : RetryOK(m)'
  <2>1. CASE Report(e) /\ cancelled[e]
    BY <1>6, <2>1 DEF Report
  <2> QED
    BY <1>4, <1>5, <1>6, <1>7, <2>1, QuietSteps
<1>8. CASE EngineSteps \/ (\E m \in net : PutAnswered(m) \/ PutUnanswered(m)) \/ UNCHANGED vars
  BY <1>6, <1>8 DEF EngineSteps, Assign, LeaseExpires, Wake, PutAnswered, PutUnanswered, vars
<1> QED
  BY <1>7, <1>8 DEF Next, LocalSteps

\* A failure that is counted is paid for by a row of the execution that reports it.
LEMMA FailurePays ==
    ASSUME TypeOK, DurableInv, NEW m \in net, Current(m.seq), RetryOK(m), Retries(m.outcome), NEW r, r = StoreRows(m)
    PROVE  Cardinality(FailedUpTo(rows, base[seq])) + 1 <= Cardinality(FailedUpTo(r, Len(r)))
<1> DEFINE e == m.seq
           S == FailedUpTo(rows, base[e])
           T == FailedUpTo(r, Len(r))
<1>1. /\ e \in Execs /\ e = seq /\ base[e] \in Nat /\ rows \in Seq(Rows) /\ executed[e] \in Seq(Steps)
      /\ UpdatesAreSlices /\ RowsMatch
  BY DEF TypeOK, Updates, Current, DurableInv
<1>2. /\ r \in Seq(Rows) /\ Len(rows) <= Len(r) /\ m.offset + Len(m.steps) <= Len(r) /\ Holds(e, r)
      /\ \A i \in 1 .. Len(rows) : r[i] = rows[i]
  BY <1>1, Stored
<1>3. Len(r) \in Nat /\ Len(rows) \in Nat /\ base[e] <= Len(rows) /\ base[e] <= Len(r)
  BY <1>1, <1>2 DEF RowsMatch, Holds
<1>4. PICK i \in DOMAIN executed[e] : FailedStep(executed[e][i])
  BY DEF RetryOK, HasFailed
<1>5. i \in Nat /\ 1 <= i /\ i <= Len(executed[e]) /\ Len(executed[e]) \in Nat
  BY <1>1
<1>6. base[e] + Len(executed[e]) <= Len(r)
  BY <1>2 DEF RetryOK
<1>7. PICK j \in Nat : j = base[e] + i
  BY <1>1, <1>5
<1>8. j \in base[e] + 1 .. Len(r) /\ j \in 1 .. Len(r) /\ j - base[e] = i /\ j \notin 1 .. base[e]
  BY <1>1, <1>3, <1>5, <1>6, <1>7
<1>9. r[j] = executed[e][i]
  BY <1>2, <1>8 DEF Holds
<1>10. j \in T /\ j \notin S
  BY <1>4, <1>8, <1>9 DEF FailedUpTo
<1>11. S \subseteq T
  BY <1>1, <1>2, <1>3, FailuresKept
<1>12. IsFiniteSet(S) /\ IsFiniteSet(T) /\ Cardinality(S) \in Nat
  BY <1>1, <1>2, <1>3, FailedUpToIs
<1> HIDE DEF e, S, T
<1>13. Cardinality(S \cup {j}) = Cardinality(S) + 1
  BY <1>10, <1>12, FS_AddElement
<1>14. S \cup {j} \in SUBSET T
  BY <1>10, <1>11
<1>15. Cardinality(S \cup {j}) <= Cardinality(T)
  BY <1>12, <1>14, FS_Subset
<1> QED
  BY <1>1, <1>13, <1>15 DEF S, T, e

\* What an update of the execution that holds the run does to the budget.
LEMMA BudgetRecorded ==
    ASSUME TypeOK, DurableInv, BudgetInv, NEW m \in net, Current(m.seq), RecordOutcome(m), seq' = seq,
           UNCHANGED base, TypeOK'
    PROVE  BudgetOK'
<1> DEFINE b == base[seq]
<1>1. /\ m \in Updates /\ m.seq \in Execs /\ m.seq = seq /\ status = "running" /\ m.outcome \in Outcomes
      /\ UpdatesAreSlices /\ RowsMatch /\ RetryOK(m)
  BY DEF TypeOK, Updates, Current, DurableInv, BudgetInv
<1>2. /\ b \in Nat /\ rows \in Seq(Rows) /\ Len(rows) \in Nat /\ attempt \in Nat \ {0} /\ b <= Len(rows)
      /\ attempt - 1 <= Cardinality(FailedUpTo(rows, b))
  BY <1>1 DEF TypeOK, RowsMatch, Holds, BudgetInv, BudgetOK
<1>3. PICK r : r = StoreRows(m)
  OBVIOUS
<1>4. /\ rows' = r /\ r \in Seq(Rows) /\ Len(r) \in Nat /\ Len(rows) <= Len(r)
      /\ \A i \in 1 .. Len(rows) : r[i] = rows[i]
  BY <1>1, <1>3, Stored DEF RecordOutcome
<1> HIDE DEF b
<1>5. /\ Cardinality(FailedUpTo(rows, b)) <= Cardinality(FailedUpTo(r, b))
      /\ Cardinality(FailedUpTo(rows, b)) <= Cardinality(FailedUpTo(r, Len(r)))
  BY <1>2, <1>4, FailuresKept
<1>6. /\ Cardinality(FailedUpTo(rows, b)) \in Nat /\ Cardinality(FailedUpTo(r, b)) \in Nat
      /\ Cardinality(FailedUpTo(r, Len(r))) \in Nat
  BY <1>2, <1>4, FailedUpToIs
<1>7. FailedRows' = FailedUpTo(r, Len(r))
  BY <1>4 DEF FailedRows, FailedUpTo, FailedStep
<1>8. CASE Retries(m.outcome)
  <2>1. Cardinality(FailedUpTo(rows, b)) + 1 <= Cardinality(FailedUpTo(r, Len(r)))
    BY <1>1, <1>3, <1>8, FailurePays DEF b
  <2>2. /\ \/ status' = "ready" /\ attempt' = attempt + 1
           \/ status' \in {"failed", "paused"} /\ attempt' = attempt
    BY <1>8 DEF RecordOutcome, Retries
  <2>3. attempt' - 1 + (IF status' = "paused" THEN 1 ELSE 0) <= attempt
    BY <1>2, <2>2
  <2>4. attempt <= Cardinality(FailedUpTo(r, Len(r)))
    BY <1>2, <1>6, <2>1
  <2>5. AttemptsAreFailures'
    BY <1>2, <1>6, <1>7, <2>2, <2>3, <2>4 DEF AttemptsAreFailures
  <2> QED
    BY <2>2, <2>5 DEF BudgetOK
<1>9. CASE ~Retries(m.outcome)
  <2>1. status' \in {"running", "completed", "waiting", "failed"} /\ attempt' = attempt
    <3>1. m.outcome.kind \in {"none", "completed", "failed", "yielded"} /\ m.outcome.retryable \in BOOLEAN
      BY <1>1 DEF Outcomes
    <3> QED
      BY <1>9, <3>1 DEF RecordOutcome, Retries
  <2>2. attempt - 1 <= Cardinality(FailedUpTo(r, b)) /\ attempt - 1 <= Cardinality(FailedUpTo(r, Len(r)))
    BY <1>2, <1>5, <1>6
  <2>3. AttemptsAreFailures'
    BY <1>2, <1>7, <2>1, <2>2 DEF AttemptsAreFailures
  <2> QED
    BY <1>1, <1>4, <2>1, <2>2, <2>3 DEF BudgetOK, b
<1> QED
  BY <1>8, <1>9

LEMMA BudgetNext ==
    ASSUME TypeOK, TypeOK', DurableInv, BudgetInv, [Next]_vars
    PROVE  BudgetOK'
<1>b. BudgetOK
  BY DEF BudgetInv
<1>t. rows \in Seq(Rows) /\ Len(rows) \in Nat /\ attempt \in Nat \ {0} /\ rows' \in Seq(Rows) /\ Len(rows') \in Nat
  BY DEF TypeOK
<1>f. FailedRows = FailedUpTo(rows, Len(rows)) /\ FailedRows' = FailedUpTo(rows', Len(rows'))
  BY <1>t DEF FailedRows, FailedUpTo, FailedStep
<1>1. ASSUME UNCHANGED <<rows, status, seq, attempt>> PROVE BudgetOK'
  <2>1. \A e \in Execs : base'[e] = base[e]
    <3>1. ~Assign
      BY <1>1 DEF Assign
    <3> QED
      BY <3>1, EveryoneMoves DEF DurableInv, Moves, Given
  <2>2. AttemptsAreFailures'
    BY <1>b, <1>1 DEF BudgetOK, AttemptsAreFailures, FailedRows
  <2> QED
    BY <1>b, <1>1, <2>1, <2>2 DEF BudgetOK
<1>2. CASE Assign
  <2>1. status = "ready" /\ status' = "running" /\ seq' \in Execs /\ UNCHANGED <<rows, attempt>>
    <3>1. seq \in 0 .. MaxExec /\ seq < MaxExec /\ seq' = seq + 1 /\ MaxExec \in Nat
      BY <1>2, BoundAssumption DEF Assign, TypeOK
    <3> QED
      BY <1>2, <3>1 DEF Assign, Execs
  <2>2. base'[seq'] = Len(rows)
    BY <1>2, <2>1 DEF Assign, TypeOK
  <2>3. attempt - 1 <= Cardinality(FailedRows)
    BY <1>b, <1>t, <2>1 DEF BudgetOK, AttemptsAreFailures
  <2>4. AttemptsAreFailures'
    BY <1>t, <1>f, <2>1, <2>3 DEF AttemptsAreFailures
  <2> QED
    BY <1>f, <2>1, <2>2, <2>3, <2>4 DEF BudgetOK
<1>3. ASSUME LeaseExpires \/ \E st : Wake(st) PROVE BudgetOK'
  <2>1. status # "paused" /\ status' = "ready" /\ attempt' = attempt
    BY <1>3 DEF LeaseExpires, Wake
  <2>2. Len(rows) <= Len(rows') /\ \A i \in 1 .. Len(rows) : rows'[i] = rows[i]
    <3>1. CASE LeaseExpires
      BY <1>t, <3>1 DEF LeaseExpires
    <3>2. ASSUME NEW st, Wake(st) PROVE <2>2!1 /\ <2>2!2
      <4> DEFINE w == [id |-> waiting, status |-> st]
      <4>1. rows' = Append(rows, w)
        BY <3>2 DEF Wake
      <4> HIDE DEF w
      <4> QED
        BY <1>t, <4>1
    <3> QED
      BY <1>3, <3>1, <3>2
  <2>3. Cardinality(FailedRows) <= Cardinality(FailedRows')
    BY <1>t, <1>f, <2>2, FailuresKept
  <2>4. Cardinality(FailedRows) \in Nat /\ Cardinality(FailedRows') \in Nat
    BY <1>t, <1>f, FailedUpToIs
  <2>5. attempt - 1 <= Cardinality(FailedRows)
    BY <1>b, <1>t, <2>1 DEF BudgetOK, AttemptsAreFailures
  <2>6. AttemptsAreFailures'
    BY <1>t, <2>1, <2>3, <2>4, <2>5 DEF AttemptsAreFailures
  <2> QED
    BY <2>1, <2>6 DEF BudgetOK
<1>4. ASSUME NEW m \in net, PutAnswered(m) \/ PutUnanswered(m) PROVE BudgetOK'
  <2>1. EngineHandles(m) /\ UNCHANGED base
    BY <1>4 DEF PutAnswered, PutUnanswered, local
  <2>2. CASE Current(m.seq)
    <3>1. RecordOutcome(m) /\ seq' = seq
      BY <2>1, <2>2 DEF EngineHandles
    <3> QED
      BY <2>1, <2>2, <3>1, BudgetRecorded
  <2>3. CASE ~Current(m.seq)
    BY <1>1, <2>1, <2>3 DEF EngineHandles, engine
  <2> QED
    BY <2>2, <2>3
<1>5. ASSUME NEW e \in Execs, LocalSteps(e) PROVE BudgetOK'
  BY <1>1, <1>5, LocalStep DEF LocalSteps, engine
<1>6. CASE UNCHANGED vars
  BY <1>1, <1>6 DEF vars, engine
<1> QED
  BY <1>2, <1>3, <1>4, <1>5, <1>6 DEF Next, EngineSteps, LocalSteps

LEMMA BudgetInit == Init => BudgetInv
<1> SUFFICES ASSUME Init PROVE BudgetInv
  OBVIOUS
<1>1. \A e \in Execs : CauseOK(e)
  BY DEF Init, CauseOK, Retries, Running
<1>2. FailedRows = {}
  BY DEF Init, FailedRows
<1>3. BudgetOK
  BY <1>2, FS_EmptySet DEF Init, BudgetOK, AttemptsAreFailures
<1> QED
  BY <1>1, <1>3 DEF Init, BudgetInv

\* Every attempt used up left a failed step of its own in the stored history:
\* neither Worker.Stop, nor a crash, a lost lease, a late update or a lost answer
\* costs the run an attempt, and no failure is counted twice (execute reports
\* nothing once the job is cancelled, tail hands the failed step to the report).
\* A handler that fails outside its steps has no such row.
THEOREM OnlyFailuresSpendAttempts ==
    ASSUME "error" \notin Faults
    PROVE  Spec => []AttemptsAreFailures
<1>1. TypeOK /\ TypeOK' /\ DurableInv /\ SagaInv /\ BudgetInv /\ [Next]_vars => BudgetInv'
  <2> SUFFICES ASSUME TypeOK, TypeOK', DurableInv, SagaInv, BudgetInv, [Next]_vars
               PROVE  BudgetInv'
    OBVIOUS
  <2>1. /\ StagesOK /\ IdsFresh /\ UpdatesAreSlices
        /\ \A e \in Execs : CauseOK(e)
        /\ \A m \in net : RetryOK(m)
    BY DEF DurableInv, BudgetInv
  <2>2. \A e \in Execs : CauseOK(e)'
    BY <2>1, CauseNext
  <2>3. \A m \in net' : RetryOK(m)'
    BY <2>1, RetryNext
  <2> QED
    BY <2>2, <2>3, BudgetNext DEF BudgetInv
<1>2. BudgetInv => AttemptsAreFailures
  BY DEF BudgetInv, BudgetOK
<1> QED
  BY <1>1, <1>2, BudgetInit, TypeCorrect, DurableInvariant, SagaInvariant, PTL DEF Spec

=============================================================================
