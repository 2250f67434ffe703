--------------------------- MODULE ParallelProofs ---------------------------
(***************************************************************************)
(* Proofs about Parallel, for any tree of fan-outs, any code of the        *)
(* branches, limits and options, and any number of executions and faults:  *)
(* a step of a branch replays the row it wrote itself and never runs again *)
(* once that is stored, a failed run has undone what it completed, what    *)
(* the handler ends with does not depend on the schedule, and the warning  *)
(* about steps on the enclosing context names the right fan-out.           *)
(***************************************************************************)
EXTENDS Parallel, FiniteSetTheorems, WellFoundedInduction, TLAPS

\* The durable calls of b before the j-th that take an index of the name.
Before(b, j, n) ==
    {i \in 1 .. (j - 1) : Code(b)[i].op \in {"run", "sleep"} /\ Code(b)[i].name = n}

\* The calls with this operation, the rows that steps leave, and the ids of sleeps.
CallsOf(op) == {c \in Branches \X Nat : c[2] \in DOMAIN Code(c[1]) /\ Code(c[1])[c[2]].op = op}
StepRows == {<<IdOf(c[1], c[2]), c>> : c \in CallsOf("run")}
WaitIds == {IdOf(c[1], c[2]) : c \in CallsOf("sleep")}
WaitRows == WaitIds \X {Root}

\* createBranchContext makes the scope of a branch from the names of the fan-outs
\* around it and its index in each of them.  It has no counter: the scopes differ
\* if the fan-outs of one scope have different names.
ScopesDiffer == \A b, c \in Branches : Scope[b] = Scope[c] => b = c

\* Where the goroutines are.
Places ==
    /\ cfg \in Configs /\ next \in Nat \ {0}
    /\ at \in [Branches -> {"idle", "starting", "running", "body", "joining", "ended"}]
    /\ pc \in [Branches -> Nat \ {0}]
    /\ count \in [Branches -> [Names -> Nat]]
    /\ DOMAIN cur = Branches /\ DOMAIN res = Branches
    /\ fan \in [Fans -> {"closed", "open", "joined"}]
    /\ \A b \in Branches :
          /\ at[b] \in {"idle", "starting"} => pc[b] = 1
          /\ at[b] # "idle" => status = "running" /\ fan[FanOf(b)] # "closed"

\* What a handler ends with.
Outcomes == outcome \in {None, Ok} \/ outcome.kind \in {"error", "yield"}

\* A branch that waits for a fan-out is at the call that opened it.
JoinsFans ==
    \A b \in Branches : at[b] = "joining" => pc[b] \in DOMAIN Code(b) /\ Code(b)[pc[b]].op = "fan"

\* The call of b that takes the next index.
Pos(b) == IF at[b] = "body" THEN pc[b] + 1 ELSE pc[b]

\* The counters of a branch are the calls it has made.
Numbered ==
    \A b \in Branches : at[b] # "ended" =>
        \A n \in Names : count[b][n] = Cardinality(Before(b, Pos(b), n))

\* A body runs for a step under its own id that has no row yet.
BodiesAreNew ==
    \A b \in Branches : at[b] = "body" =>
        /\ <<b, pc[b]>> \in CallsOf("run")
        /\ cur[b] = IdOf(b, pc[b]) /\ cur[b] \notin memo

\* Rows, those on their way to the engine included, belong to the steps and
\* sleeps of the branches, and the execution was given those stored.
RowsMatch ==
    /\ rows \subseteq StepRows \cup WaitRows
    /\ executed \in Seq(StepRows)
    /\ status = "running" => memo = {r[1] : r \in rows}
    /\ \A r \in replayed : <<r[2], r[1]>> \in rows

\* What yields wait for.
YieldsWait ==
    /\ \A b \in Branches : res[b].kind = "yield" => res[b].id \in WaitIds
    /\ outcome.kind = "yield" => outcome.id \in WaitIds
    /\ status = "waiting" => awaited \in WaitIds

\* The inductive invariant, for branches that use their scopes.
StepsInv ==
    /\ Places /\ Outcomes
    /\ Scoped => JoinsFans /\ Numbered /\ BodiesAreNew /\ RowsMatch /\ YieldsWait

\* The fan-outs of a branch are not those of the handler, ...
RootsApart ==
    \A b \in Branches : \A j \in DOMAIN Code(b) : Code(b)[j].op = "fan" => ~IsRoot(Code(b)[j].fan)

\* ... and open no others.
TwoLevels ==
    /\ RootsApart
    /\ \A b \in Branches : \A j \in DOMAIN Code(b) : Code(b)[j].op = "fan" =>
          \A c \in Team(Code(b)[j].fan) : \A i \in DOMAIN Code(c) : Code(c)[i].op # "fan"

\* What a call of a branch, and a fan-out of the handler, come to.
CallResult(b, j) ==
    IF Code(b)[j].op = "fan" THEN NestedResult(Code(b)[j].fan)
    ELSE IF ~Stops(b, j) THEN Ok
    ELSE IF Code(b)[j].op = "sleep" THEN Yield(IdOf(b, j)) ELSE Failed
RootResult(i) == Pick(cfg.handler[i], [b \in Team(cfg.handler[i]) |-> BranchResult(b)])

\* Before an execution starts nothing of it is there.
Fresh ==
    status # "running" =>
        /\ next = 1 /\ outcome = None /\ ~ctxDone
        /\ \A f \in Fans : fan[f] = "closed"

\* All errors are the same.
ErrorsFailed == \A b \in Branches : res[b].kind = "error" => res[b] = Failed

\* The handler has one fan-out open at a time.
OpenRoots ==
    \A f \in Fans : fan[f] = "open" /\ IsRoot(f) =>
        next \in DOMAIN cfg.handler /\ f = cfg.handler[next] /\ outcome = None

\* A branch gets past the calls that come to Ok, and ends as it must.
BranchesAgree ==
    \A b \in Branches :
        /\ at[b] # "ended" => \A j \in 1 .. (pc[b] - 1) : CallResult(b, j) = Ok
        /\ at[b] = "ended" => res[b] = BranchResult(b)

\* So does the handler.
HandlerAgrees ==
    /\ \A i \in 1 .. (next - 1) : RootResult(i) = Ok
    /\ outcome # None => outcome = RunResult

\* The inductive invariant for the outcome.
ReportInv ==
    /\ Places /\ Outcomes /\ Fresh
    /\ Scoped => JoinsFans /\ Numbered /\ BodiesAreNew /\ ErrorsFailed
    /\ RootsApart => OpenRoots
    /\ Scoped /\ TwoLevels /\ ScheduleFree /\ ~ctxDone => BranchesAgree /\ HandlerAgrees

-----------------------------------------------------------------------------
(* Numbers and ids. *)

\* The least element of a set of numbers.
LEMMA LeastElement ==
    ASSUME NEW S \in SUBSET Nat, S # {}
    PROVE  \E m \in S : \A k \in S : m <= k
<1>1. \E m \in S : \A k \in S : ~ (<<k, m>> \in OpToRel(<, Nat))
  BY NatLessThanWellFounded, WFMin
<1>2. ASSUME NEW m \in S, NEW k \in S, ~ (<<k, m>> \in OpToRel(<, Nat)) PROVE m <= k
  BY <1>2 DEF OpToRel
<1> QED
  BY <1>1, <1>2

\* The fan-out of a branch.
LEMMA OneFan ==
    ASSUME NEW b \in Branches
    PROVE  FanOf(b) \in Fans /\ b \in Team(FanOf(b)) /\ \A g \in Fans : b \in Team(g) => g = FanOf(b)
<1>1. \E f \in Fans : \A g \in Fans : b \in Team(g) <=> g = f
  BY ParallelAssumption
<1> QED
  BY <1>1 DEF FanOf

\* The members of a fan-out are branches.
LEMMA Teams ==
    ASSUME NEW f \in Fans PROVE Team(f) \subseteq Branches
BY ParallelAssumption DEF Team

\* What a configuration gives.
LEMMA ConfigFields ==
    ASSUME cfg \in Configs
    PROVE  /\ cfg.handler \in Seq(Fans) /\ cfg.code \in [Branches -> Seq(Calls)]
           /\ cfg.failFast \in [Fans -> BOOLEAN]
           /\ \A b \in Branches : Code(b) \in Seq(Calls) /\ DOMAIN Code(b) = 1 .. Len(Code(b))
BY ParallelAssumption DEF IsConfig, Code

\* Steps and sleeps have a name.
LEMMA CallFields ==
    ASSUME NEW c \in Calls
    PROVE  /\ c.op \in {"run", "sleep", "root", "compensate", "fan"}
           /\ c.op \in {"run", "sleep", "root"} => c.name \in Names
           /\ c.op = "fan" => c.fan \in Fans
BY DEF Calls

\* Making a call takes one index of its name.
LEMMA BeforeGrows ==
    ASSUME NEW b, NEW j \in Nat \ {0}, NEW n
    PROVE  /\ IsFiniteSet(Before(b, j, n)) /\ Cardinality(Before(b, j, n)) \in Nat
           /\ Cardinality(Before(b, 1, n)) = 0
           /\ Cardinality(Before(b, j + 1, n)) =
                 Cardinality(Before(b, j, n)) +
                 (IF Code(b)[j].op \in {"run", "sleep"} /\ Code(b)[j].name = n THEN 1 ELSE 0)
<1>1. IsFiniteSet(1 .. (j - 1))
  BY FS_Interval
<1>2. IsFiniteSet(Before(b, j, n))
  <2>1. Before(b, j, n) \in SUBSET (1 .. (j - 1))
    BY DEF Before
  <2> QED
    BY <1>1, <2>1, FS_Subset
<1>3. Cardinality(Before(b, j, n)) \in Nat
  BY <1>2, FS_CardinalityType
<1>4. Cardinality(Before(b, 1, n)) = 0
  <2>1. Before(b, 1, n) = {}
    BY DEF Before
  <2> QED
    BY <2>1, FS_EmptySet
<1>5. CASE Code(b)[j].op \in {"run", "sleep"} /\ Code(b)[j].name = n
  <2>1. Before(b, j + 1, n) = Before(b, j, n) \cup {j} /\ j \notin Before(b, j, n)
    BY <1>5 DEF Before
  <2> QED
    BY <1>2, <1>3, <1>4, <1>5, <2>1, FS_AddElement
<1>6. CASE ~(Code(b)[j].op \in {"run", "sleep"} /\ Code(b)[j].name = n)
  <2>1. Before(b, j + 1, n) = Before(b, j, n)
    BY <1>6 DEF Before
  <2> QED
    BY <1>2, <1>3, <1>4, <1>6, <2>1
<1> QED
  BY <1>5, <1>6

\* The id of a call, by its parts.
LEMMA IdParts ==
    ASSUME NEW b, NEW j
    PROVE  IdOf(b, j) = <<Scope[b], Code(b)[j].name, Cardinality(Before(b, j, Code(b)[j].name))>>
BY DEF IdOf, Before

\* Two calls of one branch have different ids.
LEMMA LaterIdsDiffer ==
    ASSUME NEW b, NEW i \in Nat \ {0}, NEW j \in Nat \ {0}, i < j,
           Code(b)[i].op \in {"run", "sleep"}, IdOf(b, i) = IdOf(b, j)
    PROVE  FALSE
<1> DEFINE n == Code(b)[i].name
<1>1. Code(b)[j].name = n /\ Cardinality(Before(b, i, n)) = Cardinality(Before(b, j, n))
  BY IdParts
<1>2. Before(b, i, n) \in SUBSET Before(b, j, n) /\ i \in Before(b, j, n) /\ i \notin Before(b, i, n)
  BY DEF Before
<1>3. IsFiniteSet(Before(b, j, n))
  BY BeforeGrows
<1> HIDE DEF n
<1> QED
  BY <1>1, <1>2, <1>3, FS_Subset

\* The id tells the call.
LEMMA IdsDiffer ==
    ASSUME ScopesDiffer, cfg \in Configs,
           NEW c \in CallsOf("run") \cup CallsOf("sleep"), NEW d \in CallsOf("run") \cup CallsOf("sleep"),
           IdOf(c[1], c[2]) = IdOf(d[1], d[2])
    PROVE  c = d
<1>1. /\ c[1] \in Branches /\ d[1] \in Branches /\ c = <<c[1], c[2]>> /\ d = <<d[1], d[2]>>
      /\ c[2] \in Nat \ {0} /\ d[2] \in Nat \ {0}
      /\ Code(c[1])[c[2]].op \in {"run", "sleep"} /\ Code(d[1])[d[2]].op \in {"run", "sleep"}
  BY ConfigFields DEF CallsOf
<1>2. c[1] = d[1]
  BY <1>1, IdParts DEF ScopesDiffer
<1>3. ~(c[2] < d[2]) /\ ~(d[2] < c[2])
  BY <1>1, <1>2, LaterIdsDiffer
<1>4. c[2] = d[2]
  BY <1>1, <1>3
<1> QED
  BY <1>1, <1>2, <1>4

-----------------------------------------------------------------------------
(* Places. *)

\* The configuration never changes, and with it what is computed from it.
LEMMA ConfigStays ==
    ASSUME [Next]_vars
    PROVE  /\ cfg' = cfg /\ Scoped' = Scoped /\ StepRows' = StepRows /\ WaitIds' = WaitIds
           /\ WaitRows' = WaitRows
           /\ \A op : CallsOf(op)' = CallsOf(op)
           /\ \A b, j : IdOf(b, j)' = IdOf(b, j)
           /\ \A b, j, n : Before(b, j, n)' = Before(b, j, n)
<1>1. ASSUME EngineSteps \/ Abandoned \/ JobCancelled PROVE cfg' = cfg
  BY <1>1 DEF EngineSteps, Assign, Wake, Report, Abandoned, JobCancelled
<1>2. ASSUME HandlerSteps PROVE cfg' = cfg
  BY <1>2 DEF HandlerSteps, OpenRoot, HandlerReturns, JoinRoot, engine
<1>3. ASSUME NEW b \in Branches, BranchSteps(b) PROVE cfg' = cfg
  BY <1>3 DEF BranchSteps, Start, RunWithBranch, RunOnRoot, BodyEnds, SleepWithBranch, CompensateInBranch,
     OpenNested, BranchReturns, JoinNested, engine
<1>4. cfg' = cfg
  BY <1>1, <1>2, <1>3 DEF Next, vars, engine
<1>5. \A b, j : IdOf(b, j)' = IdOf(b, j)
  BY <1>4 DEF IdOf, Code
<1>6. \A b, j, n : Before(b, j, n)' = Before(b, j, n)
  BY <1>4 DEF Before, Code
<1>7. \A op : CallsOf(op)' = CallsOf(op)
  BY <1>4 DEF CallsOf, Code
<1>8. StepRows' = StepRows /\ WaitIds' = WaitIds
  BY <1>5, <1>7 DEF StepRows, WaitIds
<1> QED
  BY <1>4, <1>5, <1>6, <1>7, <1>8 DEF Scoped, Code, WaitRows

\* What the end of a branch changes.
LEMMA Ended ==
    ASSUME Places, NEW b \in Branches, NEW r, End(b, r)
    PROVE  /\ at' = [at EXCEPT ![b] = "ended"] /\ res' = [res EXCEPT ![b] = r]
           /\ DOMAIN res' = Branches
BY DEF Places, End

\* The members of a fan-out that is closed have not started.
LEMMA ClosedIsIdle ==
    ASSUME Places, NEW f \in Fans, fan[f] = "closed", NEW b \in Team(f)
    PROVE  b \in Branches /\ at[b] = "idle" /\ pc[b] = 1
BY OneFan, Teams DEF Places

\* Every step keeps the goroutines in their places.
LEMMA PlacesStep ==
    ASSUME Places, [Next]_vars PROVE Places'
<1>0. cfg' = cfg
  BY ConfigStays
<1>1. CASE UNCHANGED <<status, next, fan, at, pc, count, cur, res>>
  BY <1>0, <1>1 DEF Places
<1>2. CASE Assign \/ Wake
  <2>1. status # "running" /\ UNCHANGED <<next, fan, at, pc, count, cur, res>>
    BY <1>2 DEF Assign, Wake, execVars, fanVars, branchVars
  <2> QED
    BY <1>0, <2>1 DEF Places
<1>3. ASSUME NEW n, Gone(n) PROVE Places'
  BY <1>0, <1>3 DEF Places, Gone
<1>4. CASE Report \/ Abandoned
  BY <1>3, <1>4 DEF Report, Abandoned
<1>5. CASE JobCancelled \/ HandlerReturns
  BY <1>1, <1>5 DEF JobCancelled, HandlerReturns, engine, fanVars, branchVars
<1>6. ASSUME NEW f \in Fans, fan[f] = "closed", status = "running", OpenFan(f),
             NEW b, b \in Branches => at[b] = "running" /\ fan[FanOf(b)] # "closed",
             at' = [c \in Branches |-> IF c = b THEN "joining"
                                       ELSE IF c \in Team(f) THEN "starting" ELSE at[c]],
             UNCHANGED <<status, next, pc, count, cur, res>>
      PROVE  Places'
  <2>1. fan' = [fan EXCEPT ![f] = "open"]
    BY <1>6 DEF OpenFan
  <2>2. \A c \in Branches : c \in Team(f) => pc[c] = 1 /\ FanOf(c) = f
    BY <1>6, ClosedIsIdle, OneFan
  <2>3. \A c \in Branches : FanOf(c) \in Fans
    BY OneFan
  <2> QED
    BY <1>0, <1>6, <2>1, <2>2, <2>3 DEF Places
<1>7. CASE OpenRoot
  <2>1. CASE ctxDone
    BY <1>1, <1>7, <2>1 DEF OpenRoot, engine, fanVars
  <2>2. CASE ~ctxDone
    <3>1. cfg.handler[next] \in Fans
      BY <1>7, ConfigFields DEF Places, OpenRoot
    <3>2. PICK b : b \notin Branches
      BY NoSetContainsEverything
    <3> QED
      BY <1>6, <1>7, <2>2, <3>1, <3>2 DEF OpenRoot, engine
  <2> QED
    BY <2>1, <2>2
<1>8. ASSUME NEW f \in Fans, Joined(f) PROVE fan' = [fan EXCEPT ![f] = "joined"]
  BY <1>8 DEF Joined
<1>9. ASSUME NEW f \in Fans, JoinRoot(f) PROVE Places'
  <2>1. /\ fan' = [fan EXCEPT ![f] = "joined"] /\ next' \in {next, next + 1}
        /\ UNCHANGED <<status, at, pc, count, cur, res>>
    BY <1>9, <1>8 DEF JoinRoot, engine, branchVars
  <2> QED
    BY <1>0, <2>1 DEF Places
<1>10. ASSUME NEW b \in Branches, NEW r, End(b, r), at[b] \notin {"idle", "starting"},
              UNCHANGED <<status, next, pc, count>>, DOMAIN cur' = Branches,
              \A c \in Branches : fan[FanOf(c)] # "closed" => fan'[FanOf(c)] # "closed",
              fan' \in [Fans -> {"closed", "open", "joined"}]
       PROVE  Places'
  BY <1>0, <1>10, Ended DEF Places
<1>11. ASSUME NEW b \in Branches, BranchSteps(b) PROVE Places'
  <2>0. at[b] # "idle" /\ UNCHANGED <<status, next>>
    BY <1>11 DEF BranchSteps, Start, RunWithBranch, RunOnRoot, BodyEnds, SleepWithBranch, CompensateInBranch,
       OpenNested, BranchReturns, JoinNested, AtCall, ContextError, engine, execVars
  <2>1. CASE Start(b)
    <3>1. /\ at' \in {[at EXCEPT ![b] = "ended"], [at EXCEPT ![b] = "running"]}
          /\ DOMAIN res' = DOMAIN res /\ UNCHANGED <<fan, pc, count, cur>>
      BY <2>1 DEF Start
    <3> QED
      BY <1>0, <2>0, <3>1 DEF Places
  <2>2. CASE /\ at[b] = "running" /\ ContextError(b) /\ UNCHANGED fan
    BY <1>10, <2>0, <2>2 DEF ContextError, Places
  <2>3. ASSUME at[b] = "running", NEW id, RunOrReplay(b, id), UNCHANGED <<fan, res>>,
               count' \in [Branches -> [Names -> Nat]]
        PROVE  Places'
    <3>1. \/ pc' = [pc EXCEPT ![b] = @ + 1] /\ UNCHANGED <<at, cur>>
          \/ at' = [at EXCEPT ![b] = "body"] /\ cur' = [cur EXCEPT ![b] = id] /\ UNCHANGED pc
      BY <2>3 DEF RunOrReplay
    <3>2. CASE pc' = [pc EXCEPT ![b] = @ + 1] /\ UNCHANGED <<at, cur>>
      BY <1>0, <2>0, <2>3, <3>2 DEF Places
    <3>3. CASE at' = [at EXCEPT ![b] = "body"] /\ cur' = [cur EXCEPT ![b] = id] /\ UNCHANGED pc
      BY <1>0, <2>0, <2>3, <3>3 DEF Places
    <3> QED
      BY <3>1, <3>2, <3>3
  <2>4. CallName(b) \in Names /\ count[b] \in [Names -> Nat] => [count EXCEPT ![b][CallName(b)] = @ + 1] \in [Branches -> [Names -> Nat]]
    BY DEF Places
  <2>5. AtCall(b, "run") \/ AtCall(b, "sleep") => CallName(b) \in Names
    BY ConfigFields, CallFields DEF AtCall, CallName, Places
  <2>6. CASE RunWithBranch(b)
    BY <2>2, <2>3, <2>4, <2>5, <2>6 DEF RunWithBranch, AtCall, Places
  <2>7. CASE RunOnRoot(b)
    BY <2>2, <2>3, <2>7 DEF RunOnRoot, AtCall, Places
  <2>8. CASE BodyEnds(b)
    <3>1. CASE Call(b) \in cfg.fails
      BY <1>10, <2>0, <2>8, <3>1 DEF BodyEnds, Places
    <3>2. CASE Call(b) \notin cfg.fails
      <4>1. /\ pc' = [pc EXCEPT ![b] = @ + 1] /\ at' = [at EXCEPT ![b] = "running"]
            /\ cur' = [cur EXCEPT ![b] = NoId] /\ UNCHANGED <<fan, count, res>>
        BY <2>8, <3>2 DEF BodyEnds
      <4> QED
        BY <1>0, <2>0, <4>1 DEF Places
    <3> QED
      BY <3>1, <3>2
  <2>9. CASE SleepWithBranch(b)
    <3>1. CASE ContextError(b)
      BY <2>2, <2>9, <3>1 DEF SleepWithBranch, AtCall
    <3>2. CASE ~ContextError(b)
      <4>1. /\ count' \in [Branches -> [Names -> Nat]] /\ at[b] = "running" /\ UNCHANGED <<fan, cur>>
            /\ \/ pc' = [pc EXCEPT ![b] = @ + 1] /\ UNCHANGED <<at, res>>
               \/ End(b, Yield(BranchStepId(b))) /\ UNCHANGED pc
        BY <2>4, <2>5, <2>9, <3>2 DEF SleepWithBranch, AtCall, Places
      <4>2. CASE pc' = [pc EXCEPT ![b] = @ + 1] /\ UNCHANGED <<at, res>>
        BY <1>0, <2>0, <4>1, <4>2 DEF Places
      <4>3. CASE End(b, Yield(BranchStepId(b))) /\ UNCHANGED pc
        <5>1. at' = [at EXCEPT ![b] = "ended"] /\ DOMAIN res' = Branches
          BY <4>3, Ended
        <5> QED
          BY <1>0, <2>0, <4>1, <4>3, <5>1 DEF Places
      <4> QED
        BY <4>1, <4>2, <4>3
    <3> QED
      BY <3>1, <3>2
  <2>10. CASE CompensateInBranch(b)
    <3>1. pc' = [pc EXCEPT ![b] = @ + 1] /\ at[b] = "running" /\ UNCHANGED <<fan, at, count, cur, res>>
      BY <2>10 DEF CompensateInBranch, AtCall, fanVars
    <3> QED
      BY <1>0, <2>0, <3>1 DEF Places
  <2>11. CASE OpenNested(b)
    <3>1. CASE ctxDone
      BY <1>10, <2>0, <2>11, <3>1 DEF OpenNested, AtCall, Places
    <3>2. CASE ~ctxDone
      <4>1. AtCall(b, "fan") /\ Code(b)[pc[b]].fan \in Fans
        BY <2>11, ConfigFields, CallFields DEF OpenNested, AtCall, Places
      <4>2. status = "running" /\ at[b] = "running" /\ fan[FanOf(b)] # "closed"
        BY <2>0, <4>1 DEF Places, AtCall
      <4> QED
        BY <1>6, <2>0, <2>11, <3>2, <4>1, <4>2 DEF OpenNested
    <3> QED
      BY <3>1, <3>2
  <2>12. CASE BranchReturns(b)
    BY <1>10, <2>0, <2>12 DEF BranchReturns, Places, execVars
  <2>13. CASE JoinNested(b)
    <3> DEFINE f == Code(b)[pc[b]].fan
    <3>1. /\ at[b] = "joining" /\ fan' = [fan EXCEPT ![f] = "joined"] /\ UNCHANGED <<count, cur>>
          /\ \/ at' = [at EXCEPT ![b] = "running"] /\ pc' = [pc EXCEPT ![b] = @ + 1] /\ UNCHANGED res
             \/ End(b, FanResult(f)) /\ UNCHANGED pc
      BY <2>13 DEF JoinNested, Joined
    <3>2. /\ fan' \in [Fans -> {"closed", "open", "joined"}]
          /\ \A c \in Branches : fan[FanOf(c)] # "closed" => fan'[FanOf(c)] # "closed"
      BY <3>1, OneFan DEF Places
    <3> HIDE DEF f
    <3>3. CASE at' = [at EXCEPT ![b] = "running"] /\ pc' = [pc EXCEPT ![b] = @ + 1] /\ UNCHANGED res
      BY <1>0, <2>0, <3>1, <3>2, <3>3 DEF Places
    <3>4. CASE End(b, FanResult(f)) /\ UNCHANGED pc
      BY <1>10, <2>0, <3>1, <3>2, <3>4 DEF Places
    <3> QED
      BY <3>1, <3>3, <3>4
  <2> QED
    BY <1>11, <2>1, <2>6, <2>7, <2>8, <2>9, <2>10, <2>11, <2>12, <2>13 DEF BranchSteps
<1>12. CASE UNCHANGED vars
  BY <1>1, <1>12 DEF vars, engine, execVars, fanVars, branchVars
<1> QED
  BY <1>2, <1>4, <1>5, <1>7, <1>9, <1>11, <1>12 DEF Next, EngineSteps, HandlerSteps

-----------------------------------------------------------------------------
(* The parts of the invariant. *)

\* A fan-out that does not return normally returns the result of one of its
\* branches.
LEMMA FanResults ==
    ASSUME NEW f \in Fans, FanResult(f) # Ok
    PROVE  \E b \in Team(f) : FanResult(f) = res[b] /\ res[b].kind \in {"yield", "error"}
<1> DEFINE Of(kind) == {i \in DOMAIN Members[f] : res[Members[f][i]].kind = kind}
           First(S) == CHOOSE i \in S : \A j \in S : i <= j
<1>1. DOMAIN Members[f] \subseteq Nat /\ \A i \in DOMAIN Members[f] : Members[f][i] \in Team(f)
  BY ParallelAssumption DEF Team
<1>2. ASSUME NEW kind, Of(kind) # {} PROVE First(Of(kind)) \in Of(kind)
  <2>1. Of(kind) \in SUBSET Nat
    BY <1>1
  <2>2. \E m \in Of(kind) : \A k \in Of(kind) : m <= k
    BY <1>2, <2>1, LeastElement
  <2> HIDE DEF Of
  <2> QED
    BY <2>2
<1>3. CASE Of("yield") # {}
  <2>1. FanResult(f) = res[Members[f][First(Of("yield"))]]
    BY <1>3 DEF FanResult
  <2>2. First(Of("yield")) \in DOMAIN Members[f] /\ res[Members[f][First(Of("yield"))]].kind = "yield"
    BY <1>2, <1>3
  <2> QED
    BY <1>1, <2>1, <2>2
<1>4. CASE Of("yield") = {} /\ Of("error") # {}
  <2>1. FanResult(f) = res[Members[f][First(Of("error"))]]
    BY <1>4 DEF FanResult
  <2>2. First(Of("error")) \in DOMAIN Members[f] /\ res[Members[f][First(Of("error"))]].kind = "error"
    BY <1>2, <1>4
  <2> QED
    BY <1>1, <2>1, <2>2
<1>5. CASE Of("yield") = {} /\ Of("error") = {}
  BY <1>5 DEF FanResult
<1> QED
  BY <1>3, <1>4, <1>5

\* A step changes the place of one branch and those of a fan-out it opens.
LEMMA BranchMoves ==
    ASSUME Places, JoinsFans, Scoped, Next, NEW b \in Branches
    PROVE  \/ UNCHANGED <<at[b], pc[b], count[b], cur[b]>>
           \/ at'[b] = "idle" /\ pc'[b] = 1 /\ count'[b] = [n \in Names |-> 0]
           \/ at'[b] = "ended"
           \/ at'[b] \notin {"ended", "body"} /\ at[b] # "ended" /\ Pos(b)' = Pos(b) /\ UNCHANGED count[b]
           \/ /\ at[b] = "running" /\ AtCall(b, "run") /\ ~ctxDone
              /\ RunWithBranch(b) /\ RunOrReplay(b, BranchStepId(b))
              /\ count' = [count EXCEPT ![b][CallName(b)] = @ + 1]
           \/ /\ at[b] = "running" /\ AtCall(b, "sleep") /\ at'[b] = "running"
              /\ pc'[b] = pc[b] + 1 /\ count' = [count EXCEPT ![b][CallName(b)] = @ + 1]
           \/ /\ at[b] \in {"running", "joining"} /\ at'[b] = "running"
              /\ pc'[b] = pc[b] + 1 /\ UNCHANGED count[b]
              /\ pc[b] \in DOMAIN Code(b) /\ Code(b)[pc[b]].op \in {"compensate", "fan"}
<1>1. CASE UNCHANGED <<at, pc, count, cur>>
  BY <1>1
<1>2. CASE Assign \/ Wake \/ JobCancelled \/ HandlerReturns \/ \E f \in Fans : JoinRoot(f)
  BY <1>1, <1>2 DEF Assign, Wake, JobCancelled, HandlerReturns, JoinRoot, branchVars
<1>3. CASE Report \/ Abandoned
  BY <1>3 DEF Report, Abandoned, Gone
<1>4. CASE OpenRoot
  <2>1. CASE ctxDone
    BY <1>1, <1>4, <2>1 DEF OpenRoot
  <2>2. CASE ~ctxDone
    <3>1. /\ cfg.handler[next] \in Fans /\ fan[cfg.handler[next]] = "closed" /\ UNCHANGED <<pc, count, cur>>
          /\ at' = [c \in Branches |-> IF c \in Team(cfg.handler[next]) THEN "starting" ELSE at[c]]
      BY <1>4, <2>2, ConfigFields DEF Places, OpenRoot
    <3>2. b \in Team(cfg.handler[next]) => at[b] = "idle"
      BY <3>1, ClosedIsIdle
    <3> QED
      BY <3>1, <3>2 DEF Pos
  <2> QED
    BY <2>1, <2>2
<1>5. ASSUME NEW c \in Branches, BranchSteps(c), c # b
      PROVE  \/ UNCHANGED <<at[b], pc[b], count[b], cur[b]>>
             \/ at'[b] \notin {"ended", "body"} /\ at[b] # "ended" /\ Pos(b)' = Pos(b) /\ UNCHANGED count[b]
  <2>1. CASE OpenNested(c)
    <3>1. CASE ctxDone
      BY <1>5, <2>1, <3>1, Ended DEF OpenNested, Places
    <3>2. CASE ~ctxDone
      <4> DEFINE f == Code(c)[pc[c]].fan
      <4>1. /\ fan[f] = "closed" /\ UNCHANGED <<pc, count, cur>> /\ AtCall(c, "fan")
            /\ at' = [d \in Branches |-> IF d = c THEN "joining"
                                         ELSE IF d \in Team(f) THEN "starting" ELSE at[d]]
        BY <2>1, <3>2 DEF OpenNested
      <4>2. f \in Fans
        BY <4>1, ConfigFields, CallFields DEF AtCall, Places
      <4>3. b \in Team(f) => at[b] = "idle"
        BY <4>1, <4>2, ClosedIsIdle
      <4> HIDE DEF f
      <4> QED
        BY <1>5, <4>1, <4>3 DEF Pos
    <3> QED
      BY <3>1, <3>2
  <2>2. ASSUME NEW r, End(c, r) PROVE UNCHANGED at[b]
    BY <1>5, <2>2, Ended DEF Places
  <2>3. CASE Start(c) \/ BodyEnds(c) \/ SleepWithBranch(c) \/ CompensateInBranch(c) \/ BranchReturns(c)
             \/ JoinNested(c)
    BY <1>5, <2>2, <2>3 DEF Start, BodyEnds, SleepWithBranch, CompensateInBranch, BranchReturns, JoinNested,
       ContextError, Places
  <2>4. CASE RunWithBranch(c) \/ RunOnRoot(c)
    BY <1>5, <2>2, <2>4 DEF RunWithBranch, RunOnRoot, RunOrReplay, ContextError, Places
  <2> QED
    BY <1>5, <2>1, <2>3, <2>4 DEF BranchSteps
<1>6. ASSUME NEW r, End(b, r) PROVE at'[b] = "ended"
  BY <1>6, Ended DEF Places
<1>7. CASE Start(b)
  BY <1>7 DEF Start, Pos, Places
<1>8. CASE RunWithBranch(b)
  BY <1>6, <1>8 DEF RunWithBranch, ContextError, AtCall
<1>9. CASE RunOnRoot(b)
  BY <1>9, ConfigFields DEF RunOnRoot, AtCall, Scoped, Places
<1>10. CASE BodyEnds(b)
  BY <1>6, <1>10 DEF BodyEnds, Pos, Places
<1>11. CASE SleepWithBranch(b)
  BY <1>6, <1>11 DEF SleepWithBranch, ContextError, AtCall, Places
<1>12. CASE CompensateInBranch(b)
  <2>1. pc[b] \in DOMAIN Code(b)
    BY <1>12, ConfigFields DEF CompensateInBranch, AtCall, Places
  <2> QED
    BY <1>12, <2>1 DEF CompensateInBranch, AtCall, Places
<1>13. CASE OpenNested(b)
  BY <1>6, <1>13 DEF OpenNested, AtCall, Pos, Places
<1>14. CASE BranchReturns(b)
  BY <1>6, <1>14 DEF BranchReturns
<1>15. CASE JoinNested(b)
  BY <1>6, <1>15 DEF JoinNested, JoinsFans, Places
<1> QED
  BY <1>2, <1>3, <1>4, <1>5, <1>7, <1>8, <1>9, <1>10, <1>11, <1>12, <1>13, <1>14, <1>15
     DEF Next, EngineSteps, HandlerSteps, BranchSteps

\* Only OpenNested makes a branch wait for a fan-out.
LEMMA JoinsFansStep ==
    ASSUME Places, JoinsFans, Next PROVE JoinsFans'
<1>0. cfg' = cfg /\ \A b : Code(b)' = Code(b)
  BY ConfigStays DEF Code
<1> SUFFICES ASSUME NEW b \in Branches, at'[b] = "joining"
             PROVE  pc'[b] \in DOMAIN Code(b) /\ Code(b)[pc'[b]].op = "fan"
  BY <1>0 DEF JoinsFans
<1>1. CASE UNCHANGED <<at[b], pc[b]>>
  BY <1>1 DEF JoinsFans
<1>2. CASE Assign \/ Wake \/ JobCancelled \/ HandlerReturns \/ \E f \in Fans : JoinRoot(f)
  BY <1>1, <1>2 DEF Assign, Wake, JobCancelled, HandlerReturns, JoinRoot, branchVars
<1>3. CASE Report \/ Abandoned
  BY <1>3 DEF Report, Abandoned, Gone
<1>4. CASE OpenRoot
  BY <1>1, <1>4 DEF OpenRoot, Places
<1>5. ASSUME NEW c \in Branches, NEW r, End(c, r) PROVE at'[c] = "ended" /\ (b # c => UNCHANGED at[b])
  BY <1>5, Ended DEF Places
<1>6. ASSUME NEW c \in Branches, OpenNested(c)
      PROVE  UNCHANGED <<at[b], pc[b]>> \/ (c = b /\ UNCHANGED pc /\ AtCall(b, "fan"))
  <2>1. CASE ctxDone
    BY <1>5, <1>6, <2>1 DEF OpenNested
  <2>2. CASE ~ctxDone
    BY <1>6, <2>2 DEF OpenNested, Places
  <2> QED
    BY <2>1, <2>2
<1>7. ASSUME NEW c \in Branches, BranchSteps(c), ~OpenNested(c) PROVE UNCHANGED <<at[b], pc[b]>>
  <2>1. CASE Start(c) \/ BodyEnds(c) \/ SleepWithBranch(c) \/ CompensateInBranch(c) \/ BranchReturns(c)
             \/ JoinNested(c)
    BY <1>5, <2>1 DEF Start, BodyEnds, SleepWithBranch, CompensateInBranch, BranchReturns, JoinNested,
       ContextError, AtCall, Places
  <2>2. CASE RunWithBranch(c) \/ RunOnRoot(c)
    BY <1>5, <2>2 DEF RunWithBranch, RunOnRoot, RunOrReplay, ContextError, AtCall, Places
  <2> QED
    BY <1>7, <2>1, <2>2 DEF BranchSteps
<1>8. AtCall(b, "fan") => pc[b] \in DOMAIN Code(b) /\ Code(b)[pc[b]].op = "fan"
  BY ConfigFields DEF AtCall, Places
<1> QED
  BY <1>1, <1>2, <1>3, <1>4, <1>6, <1>7, <1>8 DEF Next, EngineSteps, HandlerSteps, BranchSteps

\* A call has its own id.
LEMMA OwnId ==
    ASSUME Places, Numbered, NEW b \in Branches, NEW op \in {"run", "sleep"}, AtCall(b, op)
    PROVE  /\ <<b, pc[b]>> \in CallsOf(op) /\ CallName(b) \in Names
           /\ BranchStepId(b) = IdOf(b, pc[b])
<1>1. <<b, pc[b]>> \in CallsOf(op)
  BY ConfigFields DEF Places, AtCall, CallsOf
<1>2. CallName(b) \in Names
  BY ConfigFields, CallFields DEF Places, AtCall, CallName
<1>3. count[b][CallName(b)] = Cardinality(Before(b, pc[b], CallName(b)))
  BY <1>2 DEF Numbered, AtCall, Pos
<1> QED
  BY <1>1, <1>2, <1>3, IdParts DEF BranchStepId, CallName

\* The counters stay the calls made.
LEMMA NumberedStep ==
    ASSUME Places, JoinsFans, Numbered, Scoped, Next PROVE Numbered'
<1>0. Places' /\ \A b, j, n : Before(b, j, n)' = Before(b, j, n)
  BY PlacesStep, ConfigStays
<1> SUFFICES ASSUME NEW b \in Branches, at'[b] # "ended", NEW n \in Names
             PROVE  count'[b][n] = Cardinality(Before(b, Pos(b)', n))
  BY <1>0 DEF Numbered
<1>1. CASE at[b] # "ended" /\ Pos(b)' = Pos(b) /\ UNCHANGED count[b]
  BY <1>1 DEF Numbered
<1>2. CASE at'[b] = "idle" /\ pc'[b] = 1 /\ count'[b] = [m \in Names |-> 0]
  BY <1>2, BeforeGrows DEF Pos
<1>3. ASSUME at[b] \in {"running", "joining"}, Pos(b)' = pc[b] + 1,
             count'[b][n] = count[b][n] +
                (IF Code(b)[pc[b]].op \in {"run", "sleep"} /\ Code(b)[pc[b]].name = n THEN 1 ELSE 0)
      PROVE  count'[b][n] = Cardinality(Before(b, Pos(b)', n))
  <2>1. count[b][n] = Cardinality(Before(b, pc[b], n)) /\ pc[b] \in Nat \ {0}
    BY <1>3 DEF Numbered, Pos, Places
  <2> QED
    BY <1>3, <2>1, BeforeGrows
<1>4. ASSUME NEW op \in {"run", "sleep"}, AtCall(b, op), count' = [count EXCEPT ![b][CallName(b)] = @ + 1]
      PROVE  count'[b][n] = count[b][n] +
                (IF Code(b)[pc[b]].op \in {"run", "sleep"} /\ Code(b)[pc[b]].name = n THEN 1 ELSE 0)
  <2>1. CallName(b) \in Names /\ count \in [Branches -> [Names -> Nat]]
    BY <1>4, OwnId DEF Places
  <2> QED
    BY <1>4, <2>1 DEF AtCall, CallName
<1>5. CASE /\ at[b] = "running" /\ AtCall(b, "run") /\ RunOrReplay(b, BranchStepId(b))
           /\ count' = [count EXCEPT ![b][CallName(b)] = @ + 1]
  <2>1. Pos(b)' = pc[b] + 1
    BY <1>5 DEF RunOrReplay, Pos, Places
  <2> QED
    BY <1>3, <1>4, <1>5, <2>1
<1>6. CASE /\ at[b] = "running" /\ AtCall(b, "sleep") /\ at'[b] = "running"
           /\ pc'[b] = pc[b] + 1 /\ count' = [count EXCEPT ![b][CallName(b)] = @ + 1]
  BY <1>3, <1>4, <1>6 DEF Pos
<1>7. CASE /\ at[b] \in {"running", "joining"} /\ at'[b] = "running"
           /\ pc'[b] = pc[b] + 1 /\ UNCHANGED count[b]
           /\ pc[b] \in DOMAIN Code(b) /\ Code(b)[pc[b]].op \in {"compensate", "fan"}
  <2>1. count[b][n] \in Nat
    BY DEF Places
  <2> QED
    BY <1>3, <1>7, <2>1 DEF Pos
<1>8. CASE UNCHANGED <<at[b], pc[b], count[b], cur[b]>>
  BY <1>1, <1>8 DEF Pos
<1> QED
  BY <1>1, <1>2, <1>5, <1>6, <1>7, <1>8, BranchMoves

\* The handler ends as its fan-outs do.
LEMMA OutcomesStep ==
    ASSUME Outcomes, Next PROVE Outcomes'
<1>1. CASE UNCHANGED outcome
  BY <1>1 DEF Outcomes, None, Ok
<1>2. CASE Assign \/ Wake \/ JobCancelled
  BY <1>1, <1>2 DEF Assign, Wake, JobCancelled, execVars
<1>3. CASE Report \/ Abandoned
  BY <1>3 DEF Report, Abandoned, Gone, Outcomes, None
<1>4. CASE OpenRoot \/ HandlerReturns
  BY <1>1, <1>4 DEF OpenRoot, HandlerReturns, Outcomes, Failed, Ok
<1>5. ASSUME NEW f \in Fans, JoinRoot(f) PROVE Outcomes'
  <2>1. UNCHANGED outcome \/ (outcome' = FanResult(f) /\ FanResult(f) # Ok)
    BY <1>5 DEF JoinRoot
  <2> QED
    BY <1>1, <2>1, FanResults DEF Outcomes
<1>6. ASSUME NEW b \in Branches, BranchSteps(b) PROVE UNCHANGED outcome
  BY <1>6 DEF BranchSteps, Start, RunWithBranch, RunOnRoot, BodyEnds, SleepWithBranch, CompensateInBranch,
     OpenNested, BranchReturns, JoinNested, ContextError, execVars
<1> QED
  BY <1>1, <1>2, <1>3, <1>4, <1>5, <1>6 DEF Next, EngineSteps, HandlerSteps

\* What an execution was given does not change while a branch runs.
LEMMA MemoStays ==
    ASSUME Places, Outcomes, Next
    PROVE  /\ memo' = memo \/ \A b \in Branches : at'[b] = "idle"
           /\ rows \subseteq rows'
           /\ status' = "running" => (status = "running" /\ UNCHANGED <<memo, rows>>) \/ Assign
<1>1. CASE Assign
  BY <1>1 DEF Assign, branchVars, Places
<1>2. CASE Wake
  BY <1>2 DEF Wake, execVars
<1>3. CASE Report \/ Abandoned
  <2>1. status' # "running"
    BY <1>3 DEF Report, Abandoned, Outcomes, None, Ok
  <2>2. /\ \A b \in Branches : at'[b] = "idle"
        /\ rows \subseteq rows'
    BY <1>3 DEF Report, Abandoned, Gone
  <2> QED
    BY <2>1, <2>2
<1>4. CASE JobCancelled \/ HandlerSteps
  BY <1>4 DEF JobCancelled, HandlerSteps, OpenRoot, HandlerReturns, JoinRoot, engine
<1>5. ASSUME NEW b \in Branches, BranchSteps(b) PROVE UNCHANGED <<memo, rows, status>>
  BY <1>5 DEF BranchSteps, Start, RunWithBranch, RunOnRoot, BodyEnds, SleepWithBranch, CompensateInBranch,
     OpenNested, BranchReturns, JoinNested, ContextError, engine, execVars
<1> QED
  BY <1>1, <1>2, <1>3, <1>4, <1>5 DEF Next, EngineSteps

\* A body starts only for a step without a row.
LEMMA BodiesStep ==
    ASSUME Places, Outcomes, JoinsFans, Numbered, BodiesAreNew, Scoped, Next PROVE BodiesAreNew'
<1>0. \A b, j : IdOf(b, j)' = IdOf(b, j)
  BY ConfigStays
<1>1. CallsOf("run")' = CallsOf("run")
  BY ConfigStays
<1> SUFFICES ASSUME NEW b \in Branches, at'[b] = "body"
             PROVE  /\ <<b, pc'[b]>> \in CallsOf("run")
                    /\ cur'[b] = IdOf(b, pc'[b]) /\ cur'[b] \notin memo'
  BY <1>0, <1>1 DEF BodiesAreNew
<1>2. memo' = memo
  BY MemoStays
<1>3. CASE UNCHANGED <<at[b], pc[b], count[b], cur[b]>>
  BY <1>2, <1>3 DEF BodiesAreNew
<1>4. CASE AtCall(b, "run") /\ RunOrReplay(b, BranchStepId(b))
  <2>1. <<b, pc[b]>> \in CallsOf("run") /\ BranchStepId(b) = IdOf(b, pc[b])
    BY <1>4, OwnId
  <2>2. UNCHANGED pc[b] /\ cur'[b] = BranchStepId(b) /\ BranchStepId(b) \notin memo
    BY <1>4 DEF RunOrReplay, AtCall, Places
  <2> QED
    BY <1>2, <2>1, <2>2
<1> QED
  BY <1>3, <1>4, BranchMoves

\* A call replays the row it wrote itself.
LEMMA ReplaysOwnRow ==
    ASSUME ScopesDiffer, Places, Numbered, RowsMatch, NEW b \in Branches, AtCall(b, "run"),
           BranchStepId(b) \in memo
    PROVE  <<BranchStepId(b), <<b, pc[b]>>>> \in rows
<1>1. <<b, pc[b]>> \in CallsOf("run") /\ BranchStepId(b) = IdOf(b, pc[b])
  BY OwnId
<1>2. status = "running"
  BY DEF Places, AtCall
<1>3. PICK r \in rows : r[1] = BranchStepId(b)
  BY <1>2 DEF RowsMatch
<1>4. CASE r \in StepRows
  <2>1. PICK c \in CallsOf("run") : r = <<IdOf(c[1], c[2]), c>>
    BY <1>4 DEF StepRows
  <2>2. c = <<b, pc[b]>>
    <3>1. IdOf(c[1], c[2]) = IdOf(<<b, pc[b]>>[1], <<b, pc[b]>>[2])
      BY <1>1, <1>3, <2>1
    <3> QED
      BY <1>1, <3>1, IdsDiffer DEF Places
  <2> QED
    BY <1>1, <1>3, <2>1, <2>2
<1>5. CASE r \in WaitRows
  <2>1. PICK c \in CallsOf("sleep") : r[1] = IdOf(c[1], c[2])
    BY <1>5 DEF WaitRows, WaitIds
  <2>2. c = <<b, pc[b]>>
    <3>1. IdOf(c[1], c[2]) = IdOf(<<b, pc[b]>>[1], <<b, pc[b]>>[2])
      BY <1>1, <1>3, <2>1
    <3> QED
      BY <1>1, <3>1, IdsDiffer DEF Places
  <2> QED
    BY <1>1, <2>1, <2>2 DEF CallsOf
<1> QED
  BY <1>3, <1>4, <1>5 DEF RowsMatch

\* Rows stay those of the calls.
LEMMA RowsStep ==
    ASSUME ScopesDiffer, Places, Outcomes, JoinsFans, Numbered, BodiesAreNew, RowsMatch, YieldsWait, Scoped, Next
    PROVE  RowsMatch'
<1>0. StepRows' = StepRows /\ WaitRows' = WaitRows
  BY ConfigStays
<1>1. CASE UNCHANGED <<rows, executed, status, memo, replayed>>
  BY <1>0, <1>1 DEF RowsMatch
<1>2. CASE Assign
  BY <1>0, <1>2 DEF RowsMatch, Assign, history
<1>3. CASE Wake
  <2>1. <<awaited, Root>> \in WaitRows
    BY <1>3 DEF Wake, YieldsWait, WaitRows
  <2> QED
    BY <1>0, <1>3, <2>1 DEF RowsMatch, Wake, execVars, history
<1>4. CASE Report \/ Abandoned
  <2>1. status' # "running"
    BY <1>4 DEF Report, Abandoned, Outcomes, None, Ok
  <2>2. PICK n \in 0 .. Len(executed) : Gone(n)
    <3>1. Len(executed) \in 0 .. Len(executed)
      BY DEF RowsMatch
    <3> QED
      BY <1>4, <3>1 DEF Report, Abandoned
  <2>3. \A i \in 1 .. n : executed[i] \in StepRows
    BY <2>2 DEF RowsMatch
  <2>4. rows' \subseteq StepRows \cup WaitRows /\ executed' = <<>> /\ replayed' = {}
    BY <2>2, <2>3 DEF Gone, RowsMatch
  <2> QED
    BY <1>0, <2>1, <2>4 DEF RowsMatch
<1>5. CASE JobCancelled \/ HandlerSteps
  BY <1>1, <1>5 DEF JobCancelled, HandlerSteps, OpenRoot, HandlerReturns, JoinRoot, engine, history
<1>6. ASSUME NEW b \in Branches, RunWithBranch(b) PROVE RowsMatch'
  <2>1. CASE ContextError(b)
    BY <1>1, <1>6, <2>1 DEF RunWithBranch, ContextError, engine, execVars
  <2>2. CASE RunOrReplay(b, BranchStepId(b)) /\ UNCHANGED execVars
    <3>1. UNCHANGED <<rows, executed, status, memo>> /\ AtCall(b, "run")
      BY <1>6, <2>2 DEF RunWithBranch, engine, execVars
    <3>2. \/ UNCHANGED replayed
          \/ /\ BranchStepId(b) \in memo
             /\ replayed' = replayed \cup {<<<<b, pc[b]>>, BranchStepId(b)>>}
      BY <2>2 DEF RunOrReplay, Call
    <3>3. BranchStepId(b) \in memo => <<BranchStepId(b), <<b, pc[b]>>>> \in rows
      BY <3>1, ReplaysOwnRow
    <3> QED
      BY <1>0, <3>1, <3>2, <3>3 DEF RowsMatch
  <2> QED
    BY <1>6, <2>1, <2>2 DEF RunWithBranch
<1>7. ASSUME NEW b \in Branches, RunOnRoot(b) PROVE FALSE
  BY <1>7, ConfigFields DEF RunOnRoot, AtCall, Scoped, Places
<1>8. ASSUME NEW b \in Branches, BodyEnds(b) PROVE RowsMatch'
  <2>1. UNCHANGED <<rows, status, memo, replayed>>
    BY <1>8 DEF BodyEnds, engine, history
  <2>2. UNCHANGED executed \/ executed' = Append(executed, <<cur[b], <<b, pc[b]>>>>)
    BY <1>8 DEF BodyEnds, Call
  <2>3. <<cur[b], <<b, pc[b]>>>> \in StepRows
    <3>1. <<b, pc[b]>> \in CallsOf("run") /\ cur[b] = IdOf(b, pc[b])
      BY <1>8 DEF BodyEnds, BodiesAreNew
    <3> QED
      BY <3>1 DEF StepRows
  <2>4. executed' \in Seq(StepRows)
    <3>1. executed \in Seq(StepRows) /\ Append(executed, <<cur[b], <<b, pc[b]>>>>) \in Seq(StepRows)
      BY <2>3 DEF RowsMatch
    <3> QED
      BY <2>2, <3>1
  <2> QED
    BY <1>0, <2>1, <2>4 DEF RowsMatch
<1>9. ASSUME NEW b \in Branches,
             Start(b) \/ SleepWithBranch(b) \/ CompensateInBranch(b) \/ OpenNested(b) \/ BranchReturns(b)
             \/ JoinNested(b)
      PROVE  RowsMatch'
  BY <1>1, <1>9 DEF Start, SleepWithBranch, CompensateInBranch, OpenNested, BranchReturns, JoinNested,
     ContextError, engine, execVars, history
<1> QED
  BY <1>2, <1>3, <1>4, <1>5, <1>6, <1>7, <1>8, <1>9 DEF Next, EngineSteps, BranchSteps

\* A yield waits for a sleep of a branch.
LEMMA YieldsStep ==
    ASSUME Places, Outcomes, JoinsFans, Numbered, YieldsWait, Scoped, Next PROVE YieldsWait'
<1>0. WaitIds' = WaitIds
  BY ConfigStays
<1>1. CASE UNCHANGED <<res, outcome, status, awaited>>
  BY <1>0, <1>1 DEF YieldsWait
<1>2. CASE Assign \/ Wake \/ JobCancelled
  BY <1>0, <1>2 DEF YieldsWait, Assign, Wake, JobCancelled, execVars, branchVars
<1>3. ASSUME NEW n, Gone(n), status' = "waiting" => awaited' \in WaitIds PROVE YieldsWait'
  BY <1>0, <1>3 DEF YieldsWait, Gone, None
<1>4. CASE Report
  <2>1. status' = "waiting" => outcome.kind = "yield"
    BY <1>4 DEF Report, Outcomes, None, Ok
  <2> QED
    BY <1>3, <1>4, <2>1 DEF Report, YieldsWait
<1>5. CASE Abandoned
  BY <1>3, <1>5 DEF Abandoned
<1>6. CASE OpenRoot \/ HandlerReturns
  BY <1>0, <1>1, <1>6 DEF YieldsWait, OpenRoot, HandlerReturns, Failed, Ok, engine, branchVars
<1>7. ASSUME NEW f \in Fans PROVE FanResult(f).kind = "yield" => FanResult(f).id \in WaitIds
  <2>1. CASE FanResult(f) = Ok
    BY <2>1 DEF Ok
  <2>2. CASE FanResult(f) # Ok
    BY <2>2, FanResults, Teams DEF YieldsWait
  <2> QED
    BY <2>1, <2>2
<1>8. ASSUME NEW f \in Fans, JoinRoot(f) PROVE YieldsWait'
  <2>1. UNCHANGED outcome \/ outcome' = FanResult(f)
    BY <1>8 DEF JoinRoot
  <2> QED
    BY <1>0, <1>7, <1>8, <2>1 DEF YieldsWait, JoinRoot, engine, branchVars
<1>9. ASSUME NEW b \in Branches, NEW r, r.kind = "yield" => r.id \in WaitIds, res' = [res EXCEPT ![b] = r],
             UNCHANGED <<outcome, status, awaited>>
      PROVE  YieldsWait'
  BY <1>0, <1>9 DEF YieldsWait, Places
<1>10. ASSUME NEW b \in Branches, BranchSteps(b) PROVE YieldsWait'
  <2>0. UNCHANGED <<outcome, status, awaited>>
    BY <1>10 DEF BranchSteps, Start, RunWithBranch, RunOnRoot, BodyEnds, SleepWithBranch, CompensateInBranch,
       OpenNested, BranchReturns, JoinNested, ContextError, engine, execVars
  <2>1. CASE Start(b)
    BY <1>1, <1>9, <2>0, <2>1 DEF Start, Skipped, Failed
  <2>2. ASSUME NEW r, r.kind # "yield", End(b, r) PROVE YieldsWait'
    BY <1>9, <2>0, <2>2, Ended
  <2>3. CASE RunWithBranch(b) \/ RunOnRoot(b) \/ BodyEnds(b) \/ CompensateInBranch(b) \/ OpenNested(b)
             \/ BranchReturns(b)
    BY <1>1, <2>0, <2>2, <2>3 DEF RunWithBranch, RunOnRoot, BodyEnds, CompensateInBranch, OpenNested,
       BranchReturns, ContextError, Failed, Ok
  <2>4. CASE SleepWithBranch(b)
    <3>1. CASE ContextError(b) \/ UNCHANGED res
      BY <1>1, <2>0, <2>2, <3>1 DEF ContextError, Failed
    <3>2. CASE End(b, Yield(BranchStepId(b)))
      <4>1. AtCall(b, "sleep")
        BY <2>4 DEF SleepWithBranch
      <4>2. BranchStepId(b) \in WaitIds
        <5>1. <<b, pc[b]>> \in CallsOf("sleep") /\ BranchStepId(b) = IdOf(b, pc[b])
          BY <4>1, OwnId
        <5> QED
          BY <5>1 DEF WaitIds
      <4> QED
        BY <1>9, <2>0, <3>2, <4>2, Ended DEF Yield
    <3> QED
      BY <2>4, <3>1, <3>2 DEF SleepWithBranch
  <2>5. CASE JoinNested(b)
    <3>1. UNCHANGED res \/ End(b, FanResult(Code(b)[pc[b]].fan))
      BY <2>5 DEF JoinNested
    <3>2. Code(b)[pc[b]].fan \in Fans
      BY <2>5, ConfigFields, CallFields DEF JoinNested, JoinsFans, Places
    <3> QED
      BY <1>1, <1>7, <1>9, <2>0, <3>1, <3>2, Ended
  <2> QED
    BY <1>10, <2>1, <2>3, <2>4, <2>5 DEF BranchSteps
<1> QED
  BY <1>2, <1>4, <1>5, <1>6, <1>8, <1>10 DEF Next, EngineSteps, HandlerSteps

-----------------------------------------------------------------------------
(* Results. *)

\* A run starts without rows and with every branch idle.
LEMMA StepsInit ==
    ASSUME Init PROVE StepsInv
<1>1. Places /\ Outcomes
  BY DEF Init, Places, Outcomes
<1>2. Numbered
  <2>1. ASSUME NEW b, NEW n PROVE Cardinality(Before(b, 1, n)) = 0
    <3>1. 1 \in Nat \ {0}
      OBVIOUS
    <3> QED
      BY <3>1, BeforeGrows
  <2>2. \A b \in Branches : Pos(b) = 1 /\ \A n \in Names : count[b][n] = 0
    BY DEF Init, Pos
  <2> QED
    BY <2>1, <2>2 DEF Numbered
<1>3. JoinsFans /\ BodiesAreNew /\ RowsMatch /\ YieldsWait
  BY DEF Init, JoinsFans, BodiesAreNew, RowsMatch, YieldsWait, None
<1> QED
  BY <1>1, <1>2, <1>3 DEF StepsInv

\* Every step keeps the invariant.
LEMMA StepsStep ==
    ASSUME ScopesDiffer, StepsInv, [Next]_vars PROVE StepsInv'
<1>0. Scoped' = Scoped
  BY ConfigStays
<1>1. CASE Next
  BY <1>0, <1>1, PlacesStep, OutcomesStep, JoinsFansStep, NumberedStep, BodiesStep, RowsStep, YieldsStep
     DEF StepsInv
<1>2. CASE UNCHANGED vars
  <2>1. Places' /\ Outcomes'
    BY <1>2, PlacesStep DEF StepsInv, Outcomes, None, Ok, vars, execVars
  <2>2. ASSUME Scoped PROVE JoinsFans' /\ Numbered'
    BY <1>2, <2>2, ConfigStays
       DEF StepsInv, JoinsFans, Numbered, Pos, Code, vars, engine, execVars, branchVars, history
  <2>3. ASSUME Scoped PROVE BodiesAreNew' /\ RowsMatch' /\ YieldsWait'
    BY <1>2, <2>3, ConfigStays
       DEF StepsInv, BodiesAreNew, RowsMatch, YieldsWait, vars, engine, execVars, branchVars, history
  <2> QED
    BY <1>0, <2>1, <2>2, <2>3 DEF StepsInv
<1> QED
  BY <1>1, <1>2

\* If the fan-outs of one scope have different names, a step of a branch replays
\* the row it wrote itself and does not run again once that is stored, for any
\* tree of fan-outs and any order in which goroutines of any number of executions
\* claim their ids (generateStepID, createBranchContext).
THEOREM ReplayIsExact ==
    ASSUME ScopesDiffer PROVE Spec => []StepsKeepTheirRows
<1>1. Init => StepsInv
  BY StepsInit
<1>2. StepsInv /\ [Next]_vars => StepsInv'
  BY StepsStep
<1>3. ASSUME StepsInv PROVE StepsKeepTheirRows
  <2>1. ASSUME Scoped, NEW b \in Branches, at[b] = "body", NEW r \in rows, r[2] = <<b, pc[b]>> PROVE FALSE
    <3>1. /\ <<b, pc[b]>> \in CallsOf("run") /\ cur[b] = IdOf(b, pc[b]) /\ cur[b] \notin memo
          /\ memo = {q[1] : q \in rows} /\ r \in StepRows \cup WaitRows
      BY <1>3, <2>1 DEF StepsInv, BodiesAreNew, RowsMatch, Places
    <3>2. <<b, pc[b]>> # Root
      BY <2>1, <1>3, ParallelAssumption DEF StepsInv, Places
    <3>3. r \in StepRows
      BY <2>1, <3>1, <3>2 DEF WaitRows
    <3>4. r[1] = IdOf(b, pc[b])
      BY <2>1, <3>3 DEF StepRows
    <3> QED
      BY <3>1, <3>4
  <2> QED
    BY <1>3, <2>1 DEF StepsKeepTheirRows, StepsInv, RowsMatch, Call
<1> QED
  BY <1>1, <1>2, <1>3, PTL DEF Spec


-----------------------------------------------------------------------------
(* The outcome does not depend on the schedule. *)

\* The least element is unique.
LEMMA TheLeast ==
    ASSUME NEW S \in SUBSET Nat, NEW m \in S, \A k \in S : m <= k
    PROVE  (CHOOSE i \in S : \A k \in S : i <= k) = m
<1>1. \A i \in S : (\A k \in S : i <= k) => i = m
  OBVIOUS
<1> QED
  BY <1>1

\* A branch ends with the first result that is not Ok.
LEMMA FirstResult ==
    ASSUME cfg \in Configs, NEW b \in Branches, NEW j \in Nat \ {0},
           \A i \in 1 .. (j - 1) : CallResult(b, i) = Ok
    PROVE  /\ j \in DOMAIN Code(b) /\ CallResult(b, j) # Ok => BranchResult(b) = CallResult(b, j)
           /\ j > Len(Code(b)) => BranchResult(b) = Ok
<1> DEFINE S == {i \in DOMAIN Code(b) : CallResult(b, i) # Ok}
           first == CHOOSE i \in S : \A k \in S : i <= k
<1>1. BranchResult(b) = IF S = {} THEN Ok ELSE CallResult(b, first)
  BY DEF BranchResult, CallResult
<1>2. DOMAIN Code(b) = 1 .. Len(Code(b)) /\ Len(Code(b)) \in Nat
  BY ConfigFields
<1>3. \A i \in S : i >= j /\ i <= Len(Code(b))
  BY <1>2
<1>4. ASSUME j \in DOMAIN Code(b), CallResult(b, j) # Ok PROVE BranchResult(b) = CallResult(b, j)
  <2>1. S \in SUBSET Nat /\ j \in S /\ \A k \in S : j <= k
    BY <1>2, <1>3, <1>4
  <2>2. first = j
    <3> HIDE DEF S
    <3> QED
      BY <2>1, TheLeast
  <2> QED
    BY <1>1, <2>1, <2>2
<1>5. ASSUME j > Len(Code(b)) PROVE S = {}
  BY <1>2, <1>3, <1>5
<1> QED
  BY <1>1, <1>4, <1>5

\* The handler ends with the first fan-out that does not return normally.
LEMMA FirstFan ==
    ASSUME cfg \in Configs, NEW j \in Nat \ {0}, \A i \in 1 .. (j - 1) : RootResult(i) = Ok
    PROVE  /\ j \in DOMAIN cfg.handler /\ RootResult(j) # Ok => RunResult = RootResult(j)
           /\ j > Len(cfg.handler) => RunResult = Ok
<1> DEFINE S == {i \in DOMAIN cfg.handler : RootResult(i) # Ok}
           first == CHOOSE i \in S : \A k \in S : i <= k
<1>1. RunResult = IF S = {} THEN Ok ELSE RootResult(first)
  BY DEF RunResult, RootResult
<1>2. DOMAIN cfg.handler = 1 .. Len(cfg.handler) /\ Len(cfg.handler) \in Nat
  BY ConfigFields
<1>3. \A i \in S : i >= j /\ i <= Len(cfg.handler)
  BY <1>2
<1>4. ASSUME j \in DOMAIN cfg.handler, RootResult(j) # Ok PROVE RunResult = RootResult(j)
  <2>1. S \in SUBSET Nat /\ j \in S /\ \A k \in S : j <= k
    BY <1>2, <1>3, <1>4
  <2>2. first = j
    <3> HIDE DEF S
    <3> QED
      BY <2>1, TheLeast
  <2> QED
    BY <1>1, <2>1, <2>2
<1>5. ASSUME j > Len(cfg.handler) PROVE S = {}
  BY <1>2, <1>3, <1>5
<1> QED
  BY <1>1, <1>4, <1>5

\* A branch that opens no fan-out.
LEMMA LeafIsBranch ==
    ASSUME cfg \in Configs, NEW b \in Branches, \A j \in DOMAIN Code(b) : Code(b)[j].op # "fan"
    PROVE  LeafResult(b) = BranchResult(b)
<1> DEFINE S == {j \in DOMAIN Code(b) : Stops(b, j)}
           T == {j \in DOMAIN Code(b) : CallResult(b, j) # Ok}
           first == CHOOSE i \in S : \A k \in S : i <= k
<1>1. \A j \in DOMAIN Code(b) :
         CallResult(b, j) = IF ~Stops(b, j) THEN Ok
                            ELSE IF Code(b)[j].op = "sleep" THEN Yield(IdOf(b, j)) ELSE Failed
  BY DEF CallResult
<1>2. S = T
  BY <1>1 DEF Ok, Yield, Failed
<1>3. LeafResult(b) = IF S = {} THEN Ok
                      ELSE IF Code(b)[first].op = "sleep" THEN Yield(IdOf(b, first)) ELSE Failed
  BY DEF LeafResult
<1>4. BranchResult(b) = IF T = {} THEN Ok ELSE CallResult(b, CHOOSE i \in T : \A k \in T : i <= k)
  BY DEF BranchResult, CallResult
<1>5. BranchResult(b) = IF S = {} THEN Ok ELSE CallResult(b, first)
  <2> HIDE DEF S, T
  <2> QED
    BY <1>2, <1>4
<1>6. ASSUME S # {} PROVE first \in S
  <2>1. S \in SUBSET Nat
    BY ConfigFields
  <2> HIDE DEF S
  <2> QED
    BY <1>6, <2>1, LeastElement
<1>7. CASE S = {}
  BY <1>3, <1>5, <1>7
<1>8. CASE S # {}
  <2>1. first \in DOMAIN Code(b) /\ Stops(b, first)
    BY <1>6, <1>8
  <2> HIDE DEF first, S
  <2> QED
    BY <1>1, <1>3, <1>5, <1>8, <2>1
<1> QED
  BY <1>7, <1>8

\* What a fan-out returns is what is picked from the results of its branches.
LEMMA PickIs ==
    ASSUME ErrorsFailed, NEW f \in Fans, NEW r, \A b \in Team(f) : res[b] = r[b]
    PROVE  FanResult(f) = Pick(f, r)
<1> DEFINE Of(kind) == {i \in DOMAIN Members[f] : res[Members[f][i]].kind = kind}
           Off(kind) == {i \in DOMAIN Members[f] : r[Members[f][i]].kind = kind}
           First(S) == CHOOSE i \in S : \A j \in S : i <= j
<1>1. DOMAIN Members[f] \subseteq Nat /\ \A i \in DOMAIN Members[f] : Members[f][i] \in Team(f)
  BY ParallelAssumption DEF Team
<1>2. \A i \in DOMAIN Members[f] : res[Members[f][i]] = r[Members[f][i]]
  BY <1>1
<1>3. Of("yield") = Off("yield") /\ Of("error") = Off("error")
  BY <1>2
<1>4. ASSUME NEW kind, Of(kind) # {} PROVE First(Of(kind)) \in Of(kind)
  <2>1. Of(kind) \in SUBSET Nat
    BY <1>1
  <2>2. \E m \in Of(kind) : \A k \in Of(kind) : m <= k
    BY <1>4, <2>1, LeastElement
  <2> HIDE DEF Of
  <2> QED
    BY <2>2
<1>5. FanResult(f) = IF Of("yield") # {} THEN res[Members[f][First(Of("yield"))]]
                     ELSE IF cfg.failFast[f] /\ Of("error") # {} THEN res[Members[f][First(Of("error"))]]
                     ELSE Ok
  BY DEF FanResult
<1>6. Pick(f, r) = IF Off("yield") # {} THEN r[Members[f][First(Off("yield"))]]
                   ELSE IF cfg.failFast[f] /\ Off("error") # {} THEN Failed
                   ELSE Ok
  BY DEF Pick
<1>7. ASSUME Of("yield") # {}
      PROVE  res[Members[f][First(Of("yield"))]] = r[Members[f][First(Of("yield"))]]
  BY <1>2, <1>4, <1>7
<1>8. ASSUME Of("error") # {} PROVE res[Members[f][First(Of("error"))]] = Failed
  <2>1. First(Of("error")) \in DOMAIN Members[f] /\ res[Members[f][First(Of("error"))]].kind = "error"
    BY <1>4, <1>8
  <2> QED
    BY <1>1, <2>1, Teams DEF ErrorsFailed
<1> HIDE DEF Of, Off, First
<1> QED
  BY <1>3, <1>5, <1>6, <1>7, <1>8

\* Results depend on the configuration and on the rows the execution was given.
LEMMA ResultsStay ==
    ASSUME cfg' = cfg, memo' = memo
    PROVE  /\ \A b, j : CallResult(b, j)' = CallResult(b, j)
           /\ \A b : BranchResult(b)' = BranchResult(b)
           /\ \A i : RootResult(i)' = RootResult(i)
           /\ RunResult' = RunResult
<1>1. \A b : Code(b)' = Code(b)
  BY DEF Code
<1>2. \A b, j : IdOf(b, j)' = IdOf(b, j)
  BY <1>1 DEF IdOf
<1>3. \A b, j : Stops(b, j)' = Stops(b, j)
  BY <1>1, <1>2 DEF Stops
<1>4. \A b : LeafResult(b)' = LeafResult(b)
  BY <1>1, <1>2, <1>3 DEF LeafResult, Yield
<1>5. \A f, r : Pick(f, r)' = Pick(f, r)
  BY DEF Pick
<1>6. \A f : NestedResult(f)' = NestedResult(f)
  BY <1>4, <1>5 DEF NestedResult
<1>7. \A b, j : CallResult(b, j)' = CallResult(b, j)
  BY <1>1, <1>2, <1>3, <1>6 DEF CallResult, Yield
<1>8. ASSUME NEW b PROVE BranchResult(b)' = BranchResult(b)
  <2> DEFINE S == {j \in DOMAIN Code(b) : CallResult(b, j) # Ok}
             By == IF S = {} THEN Ok ELSE CallResult(b, CHOOSE i \in S : \A k \in S : i <= k)
  <2>1. BranchResult(b) = By
    BY DEF BranchResult, CallResult
  <2>2. BranchResult(b)' = By'
    BY DEF BranchResult, CallResult
  <2>3. S' = S
    BY <1>1, <1>7 DEF Ok
  <2>4. By' = By
    <3> HIDE DEF S
    <3> QED
      BY <1>7, <2>3 DEF Ok
  <2> QED
    BY <2>1, <2>2, <2>4
<1>9. \A i : RootResult(i)' = RootResult(i)
  BY <1>5, <1>8 DEF RootResult
<1>10. RunResult' = RunResult
  <2> DEFINE S == {i \in DOMAIN cfg.handler : RootResult(i) # Ok}
             By == IF S = {} THEN Ok ELSE RootResult(CHOOSE i \in S : \A k \in S : i <= k)
  <2>1. RunResult = By
    BY DEF RunResult, RootResult
  <2>2. RunResult' = By'
    BY DEF RunResult, RootResult
  <2>3. S' = S
    BY <1>9 DEF Ok
  <2>4. By' = By
    <3> HIDE DEF S
    <3> QED
      BY <1>9, <2>3 DEF Ok
  <2> QED
    BY <2>1, <2>2, <2>4
<1> QED
  BY <1>7, <1>8, <1>9, <1>10


\* Nothing of an execution is there before it starts or after it is over.
LEMMA FreshStep ==
    ASSUME Places, Outcomes, Fresh, Next PROVE Fresh'
<1>1. CASE UNCHANGED <<status, next, outcome, ctxDone, fan>>
  BY <1>1 DEF Fresh, None
<1>2. CASE Assign
  BY <1>2 DEF Fresh, Assign
<1>3. CASE Wake
  BY <1>3 DEF Fresh, Wake, execVars, fanVars, None
<1>4. CASE Report \/ Abandoned
  BY <1>4 DEF Fresh, Report, Abandoned, Gone, None
<1>5. ASSUME status = "running", UNCHANGED status PROVE Fresh'
  BY <1>5 DEF Fresh
<1>6. ASSUME JobCancelled \/ OpenRoot \/ HandlerReturns PROVE Fresh'
  BY <1>5, <1>6 DEF JobCancelled, OpenRoot, HandlerReturns, engine
<1>7. ASSUME NEW f \in Fans, JoinRoot(f) PROVE Fresh'
  <2>1. fan[f] = "open" /\ UNCHANGED status
    BY <1>7 DEF JoinRoot, Joined, engine
  <2> QED
    BY <1>5, <2>1 DEF Fresh
<1>8. ASSUME NEW b \in Branches, BranchSteps(b) PROVE Fresh'
  <2>1. at[b] # "idle" /\ UNCHANGED status
    BY <1>8 DEF BranchSteps, Start, RunWithBranch, RunOnRoot, BodyEnds, SleepWithBranch, CompensateInBranch,
       OpenNested, BranchReturns, JoinNested, AtCall, engine
  <2> QED
    BY <1>5, <2>1 DEF Places
<1> QED
  BY <1>2, <1>3, <1>4, <1>6, <1>7, <1>8 DEF Next, EngineSteps, HandlerSteps

\* What an action of a branch leaves alone, and what the others do to branches.
LEMMA BranchFrame ==
    ASSUME NEW b \in Branches, BranchSteps(b)
    PROVE  UNCHANGED <<cfg, status, memo, next, outcome, ctxDone>>
<1>1. CASE Start(b) \/ BranchReturns(b) \/ SleepWithBranch(b)
  BY <1>1 DEF Start, BranchReturns, SleepWithBranch, ContextError, engine, execVars
<1>2. CASE RunWithBranch(b) \/ RunOnRoot(b)
  BY <1>2 DEF RunWithBranch, RunOnRoot, ContextError, engine, execVars
<1>3. CASE BodyEnds(b) \/ CompensateInBranch(b) \/ OpenNested(b) \/ JoinNested(b)
  BY <1>3 DEF BodyEnds, CompensateInBranch, OpenNested, JoinNested, engine
<1> QED
  BY <1>1, <1>2, <1>3 DEF BranchSteps

\* Errors stay the same.
LEMMA ErrorsStep ==
    ASSUME Places, JoinsFans, ErrorsFailed, Next PROVE ErrorsFailed'
<1>1. CASE UNCHANGED res
  BY <1>1 DEF ErrorsFailed, Failed
<1>2. CASE Assign \/ Wake \/ JobCancelled \/ OpenRoot \/ HandlerReturns \/ \E f \in Fans : JoinRoot(f)
  BY <1>1, <1>2 DEF Assign, Wake, JobCancelled, OpenRoot, HandlerReturns, JoinRoot, branchVars
<1>3. CASE Report \/ Abandoned
  BY <1>3 DEF Report, Abandoned, Gone, ErrorsFailed, None
<1>4. ASSUME NEW b \in Branches, NEW r, r.kind = "error" => r = Failed, res' = [res EXCEPT ![b] = r]
      PROVE  ErrorsFailed'
  BY <1>4 DEF ErrorsFailed, Failed, Places
<1>5. ASSUME NEW b \in Branches, BranchSteps(b) PROVE ErrorsFailed'
  <2>1. CASE Start(b)
    BY <1>1, <1>4, <2>1 DEF Start, Skipped, Failed
  <2>2. ASSUME NEW r, r.kind = "error" => r = Failed, End(b, r) PROVE ErrorsFailed'
    BY <1>4, <2>2, Ended
  <2>3. CASE RunWithBranch(b) \/ RunOnRoot(b) \/ BodyEnds(b) \/ CompensateInBranch(b) \/ OpenNested(b)
             \/ BranchReturns(b) \/ SleepWithBranch(b)
    BY <1>1, <2>2, <2>3 DEF RunWithBranch, RunOnRoot, BodyEnds, CompensateInBranch, OpenNested,
       BranchReturns, SleepWithBranch, ContextError, Failed, Ok, Yield
  <2>4. CASE JoinNested(b)
    <3> DEFINE f == Code(b)[pc[b]].fan
    <3>1. UNCHANGED res \/ (FanResult(f) # Ok /\ End(b, FanResult(f)))
      BY <2>4 DEF JoinNested
    <3>2. f \in Fans
      BY <2>4, ConfigFields, CallFields DEF JoinNested, JoinsFans, Places
    <3>3. ASSUME FanResult(f) # Ok PROVE FanResult(f).kind = "error" => FanResult(f) = Failed
      BY <3>2, <3>3, FanResults, Teams DEF ErrorsFailed
    <3> HIDE DEF f
    <3> QED
      BY <1>1, <2>2, <3>1, <3>3
  <2> QED
    BY <1>5, <2>1, <2>3, <2>4 DEF BranchSteps
<1> QED
  BY <1>2, <1>3, <1>5 DEF Next, EngineSteps, HandlerSteps

\* The handler waits for the fan-out it opened.
LEMMA OpenRootsStep ==
    ASSUME Places, RootsApart, OpenRoots, Next PROVE OpenRoots'
<1>0. cfg' = cfg /\ \A f : IsRoot(f)' = IsRoot(f)
  BY ConfigStays DEF IsRoot
<1> SUFFICES ASSUME NEW f \in Fans, fan'[f] = "open", IsRoot(f)
             PROVE  next' \in DOMAIN cfg.handler /\ f = cfg.handler[next'] /\ outcome' = None
  BY <1>0 DEF OpenRoots, None
<1>1. CASE fan[f] = "open" /\ UNCHANGED <<next, outcome>>
  BY <1>1 DEF OpenRoots
<1>2. CASE Assign \/ Wake \/ JobCancelled
  BY <1>1, <1>2 DEF Assign, Wake, JobCancelled, execVars, fanVars
<1>3. CASE Report \/ Abandoned
  BY <1>3 DEF Report, Abandoned, Gone
<1>4. CASE OpenRoot
  <2>1. next \in DOMAIN cfg.handler /\ cfg.handler[next] \in Fans
    BY <1>4, ConfigFields DEF OpenRoot, Places
  <2>2. fan[cfg.handler[next]] = "closed" /\ outcome = None /\ UNCHANGED next
    BY <1>4 DEF OpenRoot
  <2>3. fan[f] # "open"
    BY <2>2 DEF OpenRoots
  <2>4. ~ctxDone /\ fan' = [fan EXCEPT ![cfg.handler[next]] = "open"] /\ UNCHANGED outcome
    BY <1>4, <2>3 DEF OpenRoot, OpenFan, fanVars
  <2>5. f = cfg.handler[next]
    BY <2>1, <2>3, <2>4 DEF Places
  <2> QED
    BY <2>1, <2>2, <2>4, <2>5
<1>5. CASE HandlerReturns
  <2>1. fan[f] = "open" /\ next > Len(cfg.handler)
    BY <1>5 DEF HandlerReturns, fanVars
  <2>2. next \in DOMAIN cfg.handler
    BY <2>1 DEF OpenRoots
  <2> QED
    BY <2>1, <2>2, ConfigFields DEF Places
<1>6. ASSUME NEW g \in Fans, JoinRoot(g) PROVE FALSE
  <2>1. fan[g] = "open" /\ IsRoot(g) /\ fan' = [fan EXCEPT ![g] = "joined"]
    BY <1>6 DEF JoinRoot, Joined
  <2>2. f # g /\ fan[f] = "open"
    BY <2>1 DEF Places
  <2> QED
    BY <2>1, <2>2 DEF OpenRoots
<1>7. ASSUME NEW b \in Branches, BranchSteps(b) PROVE fan[f] = "open" /\ UNCHANGED <<next, outcome>>
  <2>1. UNCHANGED <<next, outcome>>
    BY <1>7, BranchFrame
  <2>2. CASE OpenNested(b)
    <3>1. UNCHANGED fan \/ fan' = [fan EXCEPT ![Code(b)[pc[b]].fan] = "open"]
      BY <2>2 DEF OpenNested, OpenFan
    <3>2. pc[b] \in DOMAIN Code(b) /\ Code(b)[pc[b]].op = "fan"
      BY <2>2, ConfigFields DEF OpenNested, AtCall, Places
    <3>3. Code(b)[pc[b]].fan # f
      BY <3>2 DEF RootsApart
    <3> QED
      BY <2>1, <3>1, <3>3 DEF Places
  <2>3. CASE JoinNested(b)
    BY <2>1, <2>3 DEF JoinNested, Joined, Places
  <2>4. CASE ~OpenNested(b) /\ ~JoinNested(b)
    BY <1>7, <2>1, <2>4 DEF BranchSteps, Start, RunWithBranch, RunOnRoot, BodyEnds, SleepWithBranch,
       CompensateInBranch, BranchReturns, fanVars
  <2> QED
    BY <2>2, <2>3, <2>4
<1> QED
  BY <1>1, <1>2, <1>3, <1>4, <1>5, <1>6, <1>7 DEF Next, EngineSteps, HandlerSteps


\* A nested fan-out returns what its branches come to.
LEMMA NestedAgrees ==
    ASSUME Places, JoinsFans, ErrorsFailed, TwoLevels, BranchesAgree, NEW b \in Branches, JoinNested(b)
    PROVE  FanResult(Code(b)[pc[b]].fan) = CallResult(b, pc[b])
<1> DEFINE f == Code(b)[pc[b]].fan
           r == [c \in Team(f) |-> LeafResult(c)]
<1>1. pc[b] \in DOMAIN Code(b) /\ Code(b)[pc[b]].op = "fan"
  BY DEF JoinNested, JoinsFans
<1>2. f \in Fans
  BY <1>1, ConfigFields, CallFields DEF Places
<1>3. \A c \in Team(f) : c \in Branches /\ at[c] = "ended"
  BY <1>2, Teams DEF JoinNested, Joined
<1>4. \A c \in Team(f) : \A i \in DOMAIN Code(c) : Code(c)[i].op # "fan"
  BY <1>1 DEF TwoLevels
<1>5. \A c \in Team(f) : res[c] = LeafResult(c)
  BY <1>3, <1>4, LeafIsBranch DEF BranchesAgree, Places
<1>6. CallResult(b, pc[b]) = Pick(f, r)
  BY <1>1 DEF CallResult, NestedResult
<1>7. \A c \in Team(f) : res[c] = r[c]
  BY <1>5
<1> HIDE DEF f, r
<1> QED
  BY <1>2, <1>6, <1>7, PickIs DEF f

\* A step of a branch takes it past a call that comes to Ok, or ends it as it must.
LEMMA BranchProgress ==
    ASSUME Places, JoinsFans, Numbered, BodiesAreNew, ErrorsFailed, TwoLevels, Scoped, ScheduleFree,
           ~ctxDone, BranchesAgree, NEW b \in Branches, BranchSteps(b)
    PROVE  \/ at'[b] # "ended" /\ pc'[b] = pc[b]
           \/ at'[b] # "ended" /\ pc'[b] = pc[b] + 1 /\ CallResult(b, pc[b]) = Ok
           \/ at'[b] = "ended" /\ res'[b] = BranchResult(b)
<1>0. at[b] # "ended"
  BY DEF BranchSteps, Start, RunWithBranch, RunOnRoot, BodyEnds, SleepWithBranch, CompensateInBranch,
     OpenNested, BranchReturns, JoinNested, AtCall
<1>1. cfg \in Configs /\ pc[b] \in Nat \ {0} /\ \A i \in 1 .. (pc[b] - 1) : CallResult(b, i) = Ok
  BY <1>0 DEF Places, BranchesAgree
<1>2. ASSUME NEW r, End(b, r), r = BranchResult(b) PROVE at'[b] = "ended" /\ res'[b] = BranchResult(b)
  BY <1>2, Ended DEF Places
<1>3. ASSUME NEW op, AtCall(b, op) PROVE pc[b] \in DOMAIN Code(b) /\ Code(b)[pc[b]].op = op
  BY <1>1, <1>3, ConfigFields DEF AtCall
<1>4. ASSUME pc[b] \in DOMAIN Code(b), CallResult(b, pc[b]) # Ok
      PROVE  BranchResult(b) = CallResult(b, pc[b])
  BY <1>1, <1>4, FirstResult
<1>5. CASE Start(b)
  <2>1. FanOf(b) \in Fans
    BY OneFan
  <2>2. ~Skips(b)
    BY <1>1, <2>1 DEF Skips, ScheduleFree
  <2> QED
    BY <1>5, <2>2 DEF Start, Places
<1>6. CASE RunWithBranch(b)
  <2>1. AtCall(b, "run") /\ RunOrReplay(b, BranchStepId(b))
    BY <1>6 DEF RunWithBranch, ContextError
  <2>2. BranchStepId(b) = IdOf(b, pc[b]) /\ Code(b)[pc[b]].op = "run"
    BY <2>1, <1>3, OwnId
  <2>3. CASE BranchStepId(b) \in memo
    <3>1. CallResult(b, pc[b]) = Ok
      BY <2>2, <2>3 DEF CallResult, Stops
    <3>2. at' = at /\ pc' = [pc EXCEPT ![b] = @ + 1]
      BY <2>1, <2>3 DEF RunOrReplay
    <3> QED
      BY <1>0, <3>1, <3>2 DEF Places
  <2>4. CASE BranchStepId(b) \notin memo
    BY <2>1, <2>4 DEF RunOrReplay, Places
  <2> QED
    BY <2>3, <2>4
<1>7. CASE RunOnRoot(b)
  BY <1>3, <1>7 DEF RunOnRoot, Scoped
<1>8. CASE BodyEnds(b)
  <2>1. /\ pc[b] \in DOMAIN Code(b) /\ Code(b)[pc[b]].op = "run" /\ IdOf(b, pc[b]) \notin memo
    BY <1>8 DEF BodyEnds, BodiesAreNew, CallsOf
  <2>2. CASE <<b, pc[b]>> \in cfg.fails
    <3>1. CallResult(b, pc[b]) = Failed
      BY <2>1, <2>2 DEF CallResult, Stops
    <3>2. End(b, Failed)
      BY <1>8, <2>2 DEF BodyEnds, Call
    <3>3. Failed # Ok
      BY DEF Failed, Ok
    <3> QED
      BY <1>2, <1>4, <2>1, <3>1, <3>2, <3>3
  <2>3. CASE <<b, pc[b]>> \notin cfg.fails
    <3>1. CallResult(b, pc[b]) = Ok
      BY <2>1, <2>3 DEF CallResult, Stops
    <3>2. at' = [at EXCEPT ![b] = "running"] /\ pc' = [pc EXCEPT ![b] = @ + 1]
      BY <1>8, <2>3 DEF BodyEnds, Call
    <3> QED
      BY <3>1, <3>2 DEF Places
  <2> QED
    BY <2>2, <2>3
<1>9. CASE SleepWithBranch(b)
  <2>1. AtCall(b, "sleep")
    BY <1>9 DEF SleepWithBranch
  <2>2. /\ BranchStepId(b) = IdOf(b, pc[b]) /\ Code(b)[pc[b]].op = "sleep" /\ pc[b] \in DOMAIN Code(b)
    BY <2>1, <1>3, OwnId
  <2>3. CASE BranchStepId(b) \in memo
    <3>1. CallResult(b, pc[b]) = Ok
      BY <2>2, <2>3 DEF CallResult, Stops
    <3>2. at' = at /\ pc' = [pc EXCEPT ![b] = @ + 1]
      BY <1>9, <2>3 DEF SleepWithBranch, ContextError
    <3> QED
      BY <1>0, <3>1, <3>2 DEF Places
  <2>4. CASE BranchStepId(b) \notin memo
    <3>1. CallResult(b, pc[b]) = Yield(BranchStepId(b))
      BY <2>2, <2>4 DEF CallResult, Stops
    <3>2. End(b, Yield(BranchStepId(b)))
      BY <1>9, <2>4 DEF SleepWithBranch, ContextError
    <3>3. Yield(BranchStepId(b)) # Ok
      BY DEF Yield, Ok
    <3> QED
      BY <1>2, <1>4, <2>2, <3>1, <3>2, <3>3
  <2> QED
    BY <2>3, <2>4
<1>10. CASE CompensateInBranch(b)
  <2>1. Code(b)[pc[b]].op = "compensate"
    BY <1>3, <1>10 DEF CompensateInBranch
  <2>2. CallResult(b, pc[b]) = Ok
    BY <2>1 DEF CallResult, Stops
  <2> QED
    BY <1>0, <1>10, <2>2 DEF CompensateInBranch, Places
<1>11. CASE OpenNested(b)
  BY <1>11 DEF OpenNested
<1>12. CASE BranchReturns(b)
  <2>1. pc[b] > Len(Code(b)) /\ End(b, Ok)
    BY <1>12 DEF BranchReturns
  <2>2. BranchResult(b) = Ok
    BY <1>1, <2>1, FirstResult
  <2> QED
    BY <1>2, <2>1, <2>2
<1>13. CASE JoinNested(b)
  <2> DEFINE r == FanResult(Code(b)[pc[b]].fan)
  <2>1. r = CallResult(b, pc[b]) /\ pc[b] \in DOMAIN Code(b)
    BY <1>13, NestedAgrees DEF JoinNested, JoinsFans
  <2>2. CASE r = Ok
    <3>1. at' = [at EXCEPT ![b] = "running"] /\ pc' = [pc EXCEPT ![b] = @ + 1]
      BY <1>13, <2>2 DEF JoinNested
    <3> QED
      BY <2>1, <2>2, <3>1 DEF Places
  <2>3. CASE r # Ok
    <3>1. End(b, r)
      BY <1>13, <2>3 DEF JoinNested
    <3> HIDE DEF r
    <3> QED
      BY <1>2, <1>4, <2>1, <2>3, <3>1
  <2> QED
    BY <2>2, <2>3
<1> QED
  BY <1>5, <1>6, <1>7, <1>8, <1>9, <1>10, <1>11, <1>12, <1>13 DEF BranchSteps

\* And what it does to the others.
LEMMA OthersStay ==
    ASSUME Places, NEW b \in Branches, BranchSteps(b), NEW c \in Branches, c # b
    PROVE  /\ UNCHANGED <<pc[c], res[c]>>
           /\ UNCHANGED at[c] \/ (at[c] = "idle" /\ at'[c] = "starting")
<1>1. ASSUME NEW r, End(b, r) PROVE UNCHANGED <<at[c], res[c]>>
  BY <1>1, Ended DEF Places
<1>2. CASE OpenNested(b)
  <2>1. CASE ctxDone
    BY <1>1, <1>2, <2>1 DEF OpenNested
  <2>2. CASE ~ctxDone
    <3> DEFINE f == Code(b)[pc[b]].fan
    <3>1. /\ fan[f] = "closed" /\ UNCHANGED <<pc, res>> /\ AtCall(b, "fan")
          /\ at' = [d \in Branches |-> IF d = b THEN "joining"
                                       ELSE IF d \in Team(f) THEN "starting" ELSE at[d]]
      BY <1>2, <2>2 DEF OpenNested
    <3>2. f \in Fans
      BY <3>1, ConfigFields, CallFields DEF AtCall, Places
    <3>3. c \in Team(f) => at[c] = "idle"
      BY <3>1, <3>2, ClosedIsIdle
    <3> HIDE DEF f
    <3> QED
      BY <3>1, <3>3
  <2> QED
    BY <2>1, <2>2
<1>3. CASE Start(b) \/ BodyEnds(b) \/ SleepWithBranch(b) \/ CompensateInBranch(b) \/ BranchReturns(b)
           \/ JoinNested(b)
  BY <1>1, <1>3 DEF Start, BodyEnds, SleepWithBranch, CompensateInBranch, BranchReturns, JoinNested,
     ContextError, Places
<1>4. CASE RunWithBranch(b) \/ RunOnRoot(b)
  BY <1>1, <1>4 DEF RunWithBranch, RunOnRoot, RunOrReplay, ContextError, Places
<1> QED
  BY <1>2, <1>3, <1>4 DEF BranchSteps


\* Every step keeps the branches and the handler in agreement with their results.
LEMMA AgreeStep ==
    ASSUME Places, Outcomes, Fresh, ErrorsFailed, JoinsFans, Numbered, BodiesAreNew, OpenRoots,
           Scoped, TwoLevels, ScheduleFree, ~ctxDone => BranchesAgree /\ HandlerAgrees, Next, ~ctxDone'
    PROVE  BranchesAgree' /\ HandlerAgrees'
<1>0. cfg' = cfg /\ Places'
  BY ConfigStays, PlacesStep
<1>1. ASSUME \A b \in Branches : at'[b] = "idle" /\ pc'[b] = 1, next' = 1, outcome' = None
      PROVE  BranchesAgree' /\ HandlerAgrees'
  BY <1>1 DEF BranchesAgree, HandlerAgrees, None
<1>2. CASE Report \/ Abandoned
  <2>1. (\A b \in Branches : at'[b] = "idle" /\ pc'[b] = 1) /\ next' = 1 /\ outcome' = None
    BY <1>2 DEF Report, Abandoned, Gone
  <2> QED
    BY <1>1, <2>1
<1>3. CASE Assign
  <2>1. status # "running" /\ UNCHANGED <<at, pc, next, outcome>>
    BY <1>3 DEF Assign, branchVars
  <2>2. \A b \in Branches : at[b] = "idle" /\ pc[b] = 1
    BY <2>1 DEF Places
  <2> QED
    BY <1>1, <2>1, <2>2 DEF Fresh
<1>4. ASSUME memo' = memo, ctxDone' = ctxDone
      PROVE  /\ BranchesAgree /\ HandlerAgrees
             /\ \A b, j : CallResult(b, j)' = CallResult(b, j)
             /\ \A b : BranchResult(b)' = BranchResult(b)
             /\ \A i : RootResult(i)' = RootResult(i)
             /\ RunResult' = RunResult /\ Ok' = Ok /\ None' = None
  BY <1>0, <1>4, ResultsStay DEF Ok, None
<1>5. ASSUME memo' = memo, ctxDone' = ctxDone, UNCHANGED <<pc, res>>,
             \A b \in Branches : UNCHANGED at[b] \/ (at[b] # "ended" /\ at'[b] # "ended")
      PROVE  BranchesAgree'
  BY <1>4, <1>5 DEF BranchesAgree
<1>6. ASSUME memo' = memo, ctxDone' = ctxDone, UNCHANGED <<next, outcome>> PROVE HandlerAgrees'
  BY <1>4, <1>6 DEF HandlerAgrees
<1>7. CASE Wake
  BY <1>5, <1>6, <1>7 DEF Wake, execVars, branchVars
<1>8. CASE JobCancelled
  BY <1>8 DEF JobCancelled
<1>9. CASE OpenRoot
  <2>1. memo' = memo /\ ctxDone' = ctxDone /\ UNCHANGED <<next, pc, res>>
    BY <1>9 DEF OpenRoot
  <2>2. /\ cfg.handler[next] \in Fans /\ fan[cfg.handler[next]] = "closed" /\ UNCHANGED outcome
        /\ at' = [c \in Branches |-> IF c \in Team(cfg.handler[next]) THEN "starting" ELSE at[c]]
    BY <1>9, <2>1, ConfigFields DEF OpenRoot, Places
  <2>3. \A c \in Team(cfg.handler[next]) : at[c] = "idle"
    BY <2>2, ClosedIsIdle
  <2>4. \A b \in Branches : UNCHANGED at[b] \/ (at[b] # "ended" /\ at'[b] # "ended")
    BY <2>2, <2>3
  <2> QED
    BY <1>5, <1>6, <2>1, <2>2, <2>4
<1>10. CASE HandlerReturns
  <2>1. /\ memo' = memo /\ ctxDone' = ctxDone /\ UNCHANGED <<next, at, pc, res>>
        /\ next > Len(cfg.handler) /\ outcome' = Ok
    BY <1>10 DEF HandlerReturns, branchVars
  <2>2. RunResult = Ok
    BY <1>4, <2>1, FirstFan DEF HandlerAgrees, Places
  <2> QED
    BY <1>4, <1>5, <2>1, <2>2 DEF HandlerAgrees
<1>11. ASSUME NEW f \in Fans, JoinRoot(f) PROVE BranchesAgree' /\ HandlerAgrees'
  <2> DEFINE r == [b \in Team(f) |-> BranchResult(b)]
  <2>1. /\ memo' = memo /\ ctxDone' = ctxDone /\ UNCHANGED <<at, pc, res>>
        /\ fan[f] = "open" /\ IsRoot(f) /\ \A b \in Team(f) : at[b] = "ended"
    BY <1>11 DEF JoinRoot, Joined, branchVars
  <2>2. next \in DOMAIN cfg.handler /\ f = cfg.handler[next] /\ outcome = None
    BY <2>1 DEF OpenRoots
  <2>3. \A b \in Team(f) : res[b] = r[b]
    BY <1>4, <2>1, Teams DEF BranchesAgree
  <2>4. FanResult(f) = RootResult(next)
    <3>1. RootResult(next) = Pick(f, r)
      BY <2>2 DEF RootResult
    <3> HIDE DEF r
    <3> QED
      BY <2>3, <3>1, PickIs
  <2>5. HandlerAgrees'
    <3>1. CASE FanResult(f) = Ok
      <4>1. next' = next + 1 /\ UNCHANGED outcome
        BY <1>11, <3>1 DEF JoinRoot
      <4>2. \A i \in 1 .. next : RootResult(i) = Ok
        <5>1. RootResult(next) = Ok /\ \A i \in 1 .. (next - 1) : RootResult(i) = Ok
          BY <1>4, <2>1, <2>4, <3>1 DEF HandlerAgrees
        <5>2. \A i \in 1 .. next : i = next \/ i \in 1 .. (next - 1)
          BY DEF Places
        <5> QED
          BY <5>1, <5>2
      <4> QED
        BY <1>4, <2>1, <2>2, <4>1, <4>2 DEF HandlerAgrees, Places
    <3>2. CASE FanResult(f) # Ok
      <4>1. next' = next /\ outcome' = FanResult(f)
        BY <1>11, <3>2 DEF JoinRoot
      <4>2. RunResult = RootResult(next)
        BY <1>4, <2>1, <2>2, <2>4, <3>2, FirstFan DEF HandlerAgrees, Places
      <4> QED
        BY <1>4, <2>1, <2>4, <4>1, <4>2 DEF HandlerAgrees
    <3> QED
      BY <3>1, <3>2
  <2> QED
    BY <1>5, <2>1, <2>5
<1>12. ASSUME NEW b \in Branches, BranchSteps(b) PROVE BranchesAgree' /\ HandlerAgrees'
  <2>1. UNCHANGED <<memo, ctxDone, next, outcome>>
    BY <1>12, BranchFrame
  <2>2. \/ at'[b] # "ended" /\ pc'[b] = pc[b]
        \/ at'[b] # "ended" /\ pc'[b] = pc[b] + 1 /\ CallResult(b, pc[b]) = Ok
        \/ at'[b] = "ended" /\ res'[b] = BranchResult(b)
    BY <1>4, <1>12, <2>1, BranchProgress
  <2>3. at[b] # "ended"
    BY <1>12 DEF BranchSteps, Start, RunWithBranch, RunOnRoot, BodyEnds, SleepWithBranch, CompensateInBranch,
       OpenNested, BranchReturns, JoinNested, AtCall
  <2>4. pc[b] \in Nat \ {0} /\ \A j \in 1 .. (pc[b] - 1) : CallResult(b, j) = Ok
    BY <1>4, <2>1, <2>3 DEF BranchesAgree, Places
  <2>5. at'[b] # "ended" => \A j \in 1 .. (pc'[b] - 1) : CallResult(b, j) = Ok
    BY <2>2, <2>4
  <2>6. ASSUME NEW c \in Branches, c # b
        PROVE  /\ at'[c] # "ended" => \A j \in 1 .. (pc'[c] - 1) : CallResult(c, j) = Ok
               /\ at'[c] = "ended" => res'[c] = BranchResult(c)
    BY <1>4, <1>12, <2>1, <2>6, OthersStay DEF BranchesAgree
  <2>7. BranchesAgree'
    BY <1>4, <2>1, <2>2, <2>5, <2>6 DEF BranchesAgree
  <2> QED
    BY <1>6, <2>1, <2>7
<1> QED
  BY <1>2, <1>3, <1>7, <1>8, <1>9, <1>10, <1>11, <1>12 DEF Next, EngineSteps, HandlerSteps

\* A run starts in agreement.
LEMMA ReportInit ==
    ASSUME Init PROVE ReportInv
<1>1. Places /\ Outcomes /\ (Scoped => JoinsFans /\ Numbered /\ BodiesAreNew)
  BY StepsInit DEF StepsInv
<1>2. Fresh /\ ErrorsFailed
  BY DEF Init, Fresh, ErrorsFailed, None
<1>3. OpenRoots /\ BranchesAgree /\ HandlerAgrees
  BY DEF Init, OpenRoots, BranchesAgree, HandlerAgrees
<1> QED
  BY <1>1, <1>2, <1>3 DEF ReportInv


\* Every step keeps it.
LEMMA ReportStep ==
    ASSUME ReportInv, [Next]_vars PROVE ReportInv'
<1>0. /\ cfg' = cfg /\ Scoped' = Scoped /\ ScheduleFree' = ScheduleFree
      /\ TwoLevels' = TwoLevels /\ RootsApart' = RootsApart
  <2>1. cfg' = cfg /\ Scoped' = Scoped
    BY ConfigStays
  <2> QED
    BY <2>1 DEF TwoLevels, RootsApart, ScheduleFree, IsRoot, Code
<1>1. CASE Next
  <2>1. Places' /\ Outcomes' /\ Fresh'
    BY <1>1, PlacesStep, OutcomesStep, FreshStep DEF ReportInv
  <2>2. ASSUME Scoped PROVE JoinsFans' /\ Numbered' /\ BodiesAreNew' /\ ErrorsFailed'
    BY <1>1, <2>2, JoinsFansStep, NumberedStep, BodiesStep, ErrorsStep DEF ReportInv
  <2>3. ASSUME RootsApart PROVE OpenRoots'
    BY <1>1, <2>3, OpenRootsStep DEF ReportInv
  <2>4. ASSUME Scoped, TwoLevels, ScheduleFree, ~ctxDone' PROVE BranchesAgree' /\ HandlerAgrees'
    <3>1. RootsApart
      BY <2>4 DEF TwoLevels
    <3> QED
      BY <1>1, <2>4, <3>1, AgreeStep DEF ReportInv
  <2> QED
    BY <1>0, <2>1, <2>2, <2>3, <2>4 DEF ReportInv
<1>2. CASE UNCHANGED vars
  <2>0. UNCHANGED <<status, memo, next, outcome, ctxDone, fan, at, pc, count, cur, res>>
    BY <1>2 DEF vars, engine, execVars, fanVars, branchVars
  <2>1. Places' /\ Outcomes' /\ Fresh'
    BY <2>0, PlacesStep DEF ReportInv, Outcomes, None, Ok, Fresh
  <2>2. ASSUME Scoped PROVE JoinsFans' /\ Numbered'
    BY <1>0, <2>0, <2>2, ConfigStays DEF ReportInv, JoinsFans, Numbered, Pos, Code
  <2>3. ASSUME Scoped PROVE BodiesAreNew' /\ ErrorsFailed'
    <3>1. \A b, j : IdOf(b, j)' = IdOf(b, j)
      BY ConfigStays
    <3>2. CallsOf("run")' = CallsOf("run")
      BY ConfigStays
    <3> QED
      BY <2>0, <2>3, <3>1, <3>2 DEF ReportInv, BodiesAreNew, ErrorsFailed, Failed
  <2>4. ASSUME RootsApart PROVE OpenRoots'
    BY <1>0, <2>0, <2>4 DEF ReportInv, OpenRoots, IsRoot, None
  <2>5. ASSUME Scoped, TwoLevels, ScheduleFree, ~ctxDone PROVE BranchesAgree' /\ HandlerAgrees'
    <3>1. /\ \A b, j : CallResult(b, j)' = CallResult(b, j)
          /\ \A b : BranchResult(b)' = BranchResult(b)
          /\ \A i : RootResult(i)' = RootResult(i)
          /\ RunResult' = RunResult
      BY <1>0, <2>0, ResultsStay
    <3> QED
      BY <2>0, <2>5, <3>1 DEF ReportInv, BranchesAgree, HandlerAgrees, Ok, None
  <2> QED
    BY <1>0, <2>0, <2>1, <2>2, <2>3, <2>4, <2>5 DEF ReportInv
<1> QED
  BY <1>1, <1>2

\* For two levels of fan-outs (see TwoLevels): which yield or error the handler ends
\* with is what the branches come to one after the other, in whatever order their
\* goroutines ran (parallel.go: the first yield by index wins, then the first error).
THEOREM ScheduleFreeReport ==
    Spec => [](TwoLevels => ReportIsScheduleFree)
<1>1. Init => ReportInv
  BY ReportInit
<1>2. ReportInv /\ [Next]_vars => ReportInv'
  BY ReportStep
<1>3. ReportInv => (TwoLevels => ReportIsScheduleFree)
  BY DEF ReportInv, HandlerAgrees, ReportIsScheduleFree
<1> QED
  BY <1>1, <1>2, <1>3, PTL DEF Spec

-----------------------------------------------------------------------------
(* Undoing a failed run: what the executions of a run did. *)

\* A branch with all its calls in S, and one with a call in F.
Finished(S, b) == \A j \in DOMAIN Code(b) : <<b, j>> \in S
Erred(F, b) == \E j \in DOMAIN Code(b) : <<b, j>> \in F
UpTo(S, b, j) == \A i \in 1 .. (j - 1) : <<b, i>> \in S

\* A fan-out whose branches came to their end without a yield, and one that
\* returned normally.
FanSettled(S, F, f) == \A b \in Team(f) : Finished(S, b) \/ Erred(F, b)
FanPassed(S, F, f) ==
    FanSettled(S, F, f) /\ (cfg.failFast[f] => \A b \in Team(f) : Finished(S, b))

\* A call some execution got past.
WasPassed(S, F, O, b, j) ==
    /\ b \in Branches /\ j \in DOMAIN Code(b) /\ FanOf(b) \in O /\ UpTo(S, b, j)
    /\ Code(b)[j].op = "run" => <<b, j>> \notin cfg.fails
    /\ Code(b)[j].op = "sleep" => \E r \in rows : r[1] = IdOf(b, j)
    /\ Code(b)[j].op = "fan" => FanPassed(S, F, Code(b)[j].fan)

\* A call that returned an error to its branch.
WasError(S, F, b, j) ==
    /\ b \in Branches /\ j \in DOMAIN Code(b) /\ UpTo(S, b, j)
    /\ \/ Code(b)[j].op = "run" /\ <<b, j>> \in cfg.fails
       \/ /\ Code(b)[j].op = "fan" /\ cfg.failFast[Code(b)[j].fan]
          /\ FanSettled(S, F, Code(b)[j].fan) /\ \E m \in Team(Code(b)[j].fan) : Erred(F, m)

\* A fan-out some execution opened, in the handler or in a branch of a fan-out that
\* has a smaller rank.
WasOpened(S, F, O, L, f) ==
    \/ \E h \in DOMAIN cfg.handler :
          cfg.handler[h] = f /\ \A i \in 1 .. (h - 1) : FanPassed(S, F, cfg.handler[i])
    \/ \E b \in Branches : \E k \in DOMAIN Code(b) :
          /\ Code(b)[k].op = "fan" /\ Code(b)[k].fan = f
          /\ FanOf(b) \in O /\ L[FanOf(b)] < L[f] /\ UpTo(S, b, k)

\* The calls passed and the errors of all executions whose job context was not done,
\* and the fan-outs they opened.
Past(S, F, O, L) ==
    /\ S \subseteq Branches \X Nat /\ F \subseteq Branches \X Nat /\ O \subseteq Fans /\ L \in [Fans -> Nat]
    /\ \A c \in S : WasPassed(S, F, O, c[1], c[2])
    /\ \A c \in F : c \notin S /\ WasError(S, F, c[1], c[2])
    /\ \A f \in O : WasOpened(S, F, O, L, f)

\* The rows are of calls passed.
RowsPassed(S) ==
    /\ \A r \in rows : r[2] # Root => r[2] \in S
    /\ \A i \in DOMAIN executed : executed[i][2] \in S

\* A branch got to where it is by calls passed, unless its job context is done, and
\* to the body of a step even then.
Reached(S, O) ==
    /\ \A f \in Fans : fan[f] # "closed" => f \in O
    /\ \A b \in Branches : ~ctxDone \/ at[b] = "body" => UpTo(S, b, pc[b])

\* A branch ends at its last call, or at one that no execution has passed.
EndsAgree(S, F) ==
    \A b \in Branches : at[b] = "ended" =>
        /\ res[b].kind \in {"ok", "error", "yield"}
        /\ res[b].kind = "ok" => pc[b] > Len(Code(b))
        /\ res[b].kind # "ok" => pc[b] \in DOMAIN Code(b) /\ <<b, pc[b]>> \notin S
        /\ res[b].kind = "error" <=> <<b, pc[b]>> \in F

HandlerPassed(S, F) == \A i \in 1 .. (next - 1) : FanPassed(S, F, cfg.handler[i])

\* This execution agrees with what all did.
Present(S, F, O) ==
    RowsPassed(S) /\ Reached(S, O) /\ (~ctxDone => EndsAgree(S, F) /\ HandlerPassed(S, F))

\* The fan-outs a branch or the handler is past, or ended at, are joined.
JoinsDone ==
    /\ \A f \in Fans : fan[f] = "joined" => \A b \in Team(f) : at[b] = "ended"
    /\ \A b \in Branches : \A i \in DOMAIN Code(b) :
          i < pc[b] /\ Code(b)[i].op = "fan" => fan[Code(b)[i].fan] = "joined"
    /\ \A i \in DOMAIN cfg.handler : i < next => fan[cfg.handler[i]] = "joined"
    /\ \A b \in Branches : at[b] = "ended" /\ pc[b] \in DOMAIN Code(b) =>
          /\ Code(b)[pc[b]].op # "compensate"
          /\ Code(b)[pc[b]].op = "fan" => fan[Code(b)[pc[b]].fan] = "joined"
    /\ outcome.kind = "error" =>
          /\ next \in DOMAIN cfg.handler /\ fan[cfg.handler[next]] = "joined"
          /\ cfg.failFast[cfg.handler[next]]
          /\ \E b \in Team(cfg.handler[next]) : res[b].kind = "error"

\* The compensations a branch is past are registered.
Registered ==
    \A b \in Branches : \A i \in DOMAIN Code(b) :
        i < pc[b] /\ Code(b)[i].op = "compensate" => \E k \in DOMAIN comps : comps[k] = <<b, i - 1>>

\* The inductive invariant.
UndoneInv ==
    /\ StepsInv /\ Fresh
    /\ RootsApart => OpenRoots
    /\ comps \in Seq(Branches \X Nat)
    /\ Scoped /\ ScheduleFree /\ RootsApart =>
          /\ ~ctxDone => JoinsDone /\ Registered
          /\ \E S, F, O, L : Past(S, F, O, L) /\ Present(S, F, O)
          /\ FailedRunIsUndone

-----------------------------------------------------------------------------
\* What was passed stays so.
LEMMA MorePassed ==
    ASSUME NEW S, NEW F, NEW S1, NEW F1, S \subseteq S1, F \subseteq F1
    PROVE  /\ \A b : Finished(S, b) => Finished(S1, b)
           /\ \A b : Erred(F, b) => Erred(F1, b)
           /\ \A b, j : UpTo(S, b, j) => UpTo(S1, b, j)
           /\ \A f : FanSettled(S, F, f) => FanSettled(S1, F1, f)
           /\ \A f : FanPassed(S, F, f) => FanPassed(S1, F1, f)
<1>1. /\ \A b : Finished(S, b) => Finished(S1, b)
      /\ \A b : Erred(F, b) => Erred(F1, b)
      /\ \A b, j : UpTo(S, b, j) => UpTo(S1, b, j)
  BY DEF Finished, Erred, UpTo
<1>2. \A f : FanSettled(S, F, f) => FanSettled(S1, F1, f)
  BY <1>1 DEF FanSettled
<1> QED
  BY <1>1, <1>2 DEF FanPassed

\* One more call, ...
LEMMA PastCall ==
    ASSUME NEW S, NEW F, NEW O, NEW L, Past(S, F, O, L), NEW b \in Branches, NEW j \in Nat,
           WasPassed(S, F, O, b, j), <<b, j>> \notin F
    PROVE  Past(S \cup {<<b, j>>}, F, O, L)
<1> DEFINE S1 == S \cup {<<b, j>>}
<1>0. S \subseteq S1 /\ <<b, j>> \in S1 /\ (\A c \in S1 : c \in S \/ c = <<b, j>>)
      /\ S1 \subseteq Branches \X Nat
  BY DEF Past
<1> HIDE DEF S1
<1>1. /\ \A d, k : UpTo(S, d, k) => UpTo(S1, d, k)
      /\ \A d : Finished(S, d) => Finished(S1, d)
      /\ \A f : FanSettled(S, F, f) => FanSettled(S1, F, f)
      /\ \A f : FanPassed(S, F, f) => FanPassed(S1, F, f)
  BY <1>0, MorePassed
<1>2. \A d, k : WasPassed(S, F, O, d, k) => WasPassed(S1, F, O, d, k)
  BY <1>1 DEF WasPassed
<1>3. \A d, k : WasError(S, F, d, k) => WasError(S1, F, d, k)
  BY <1>1 DEF WasError
<1>4. \A f : WasOpened(S, F, O, L, f) => WasOpened(S1, F, O, L, f)
  BY <1>1 DEF WasOpened
<1>5. \A c \in S1 : WasPassed(S1, F, O, c[1], c[2])
  BY <1>0, <1>2 DEF Past
<1>6. \A c \in F : c \notin S1 /\ WasError(S1, F, c[1], c[2])
  BY <1>0, <1>3 DEF Past
<1>7. \A f \in O : WasOpened(S1, F, O, L, f)
  BY <1>4 DEF Past
<1> QED
  BY <1>0, <1>5, <1>6, <1>7 DEF Past, S1

\* ... one more error, ...
LEMMA PastError ==
    ASSUME NEW S, NEW F, NEW O, NEW L, Past(S, F, O, L), NEW b \in Branches, NEW j \in Nat,
           WasError(S, F, b, j), <<b, j>> \notin S
    PROVE  Past(S, F \cup {<<b, j>>}, O, L)
<1> DEFINE F1 == F \cup {<<b, j>>}
<1>0. F \subseteq F1 /\ <<b, j>> \in F1 /\ (\A c \in F1 : c \in F \/ c = <<b, j>>)
      /\ F1 \subseteq Branches \X Nat
  BY DEF Past
<1> HIDE DEF F1
<1>1. /\ \A d : Erred(F, d) => Erred(F1, d)
      /\ \A f : FanSettled(S, F, f) => FanSettled(S, F1, f)
      /\ \A f : FanPassed(S, F, f) => FanPassed(S, F1, f)
  BY <1>0, MorePassed
<1>2. \A d, k : WasPassed(S, F, O, d, k) => WasPassed(S, F1, O, d, k)
  BY <1>1 DEF WasPassed
<1>3. \A d, k : WasError(S, F, d, k) => WasError(S, F1, d, k)
  BY <1>1 DEF WasError
<1>4. \A f : WasOpened(S, F, O, L, f) => WasOpened(S, F1, O, L, f)
  BY <1>1 DEF WasOpened
<1>5. \A c \in F1 : c \notin S /\ WasError(S, F1, c[1], c[2])
  BY <1>0, <1>3 DEF Past
<1> QED
  BY <1>0, <1>2, <1>4, <1>5 DEF Past, F1

\* ... one more fan-out of the handler, or of a branch, ...
LEMMA PastRoot ==
    ASSUME NEW S, NEW F, NEW O, NEW L, Past(S, F, O, L), NEW h \in DOMAIN cfg.handler,
           cfg.handler[h] \in Fans, \A i \in 1 .. (h - 1) : FanPassed(S, F, cfg.handler[i])
    PROVE  Past(S, F, O \cup {cfg.handler[h]}, L)
<1> DEFINE f == cfg.handler[h]
           O1 == O \cup {f}
<1>0. O \subseteq O1 /\ O1 \subseteq Fans /\ \A g \in O1 : g \in O \/ g = f
  BY DEF Past
<1>1. WasOpened(S, F, O1, L, f)
  BY DEF WasOpened
<1> HIDE DEF O1
<1>2. \A d, k : WasPassed(S, F, O, d, k) => WasPassed(S, F, O1, d, k)
  BY <1>0 DEF WasPassed
<1>3. \A g : WasOpened(S, F, O, L, g) => WasOpened(S, F, O1, L, g)
  BY <1>0 DEF WasOpened
<1>4. \A g \in O1 : WasOpened(S, F, O1, L, g)
  BY <1>0, <1>1, <1>3 DEF Past
<1> QED
  BY <1>0, <1>2, <1>4 DEF Past, O1

LEMMA PastNested ==
    ASSUME NEW S, NEW F, NEW O, NEW L, Past(S, F, O, L), NEW b \in Branches, NEW k \in DOMAIN Code(b),
           Code(b)[k].op = "fan", Code(b)[k].fan \in Fans, FanOf(b) \in O, UpTo(S, b, k)
    PROVE  \E L1 : Past(S, F, O \cup {Code(b)[k].fan}, L1)
<1> DEFINE f == Code(b)[k].fan
           O1 == O \cup {f}
           L1 == [L EXCEPT ![f] = L[FanOf(b)] + 1]
<1>1. CASE f \in O
  <2>1. O1 = O
    BY <1>1
  <2> QED
    BY <2>1
<1>2. CASE f \notin O
  <2>0. O \subseteq O1 /\ O1 \subseteq Fans /\ \A g \in O1 : g \in O \/ g = f
    BY DEF Past
  <2>1. L1 \in [Fans -> Nat] /\ L1[f] = L[FanOf(b)] + 1 /\ \A g \in O : L1[g] = L[g] /\ L[g] \in Nat
    BY <1>2 DEF Past
  <2> HIDE DEF O1, L1, f
  <2>2. WasOpened(S, F, O1, L1, f)
    <3>1. FanOf(b) \in O1 /\ L1[FanOf(b)] < L1[f]
      BY <2>0, <2>1
    <3> QED
      BY <3>1 DEF WasOpened, f
  <2>3. \A d, i : WasPassed(S, F, O, d, i) => WasPassed(S, F, O1, d, i)
    BY <2>0 DEF WasPassed
  <2>4. \A g \in O : WasOpened(S, F, O, L, g) => WasOpened(S, F, O1, L1, g)
    BY <2>0, <2>1 DEF WasOpened
  <2>5. \A g \in O1 : WasOpened(S, F, O1, L1, g)
    BY <2>0, <2>2, <2>4 DEF Past
  <2>6. Past(S, F, O1, L1)
    BY <2>0, <2>1, <2>3, <2>5 DEF Past
  <2> QED
    BY <2>6 DEF O1, f
<1> QED
  BY <1>1, <1>2

\* ... and more rows.
LEMMA PastStays ==
    ASSUME NEW S, NEW F, NEW O, NEW L, Past(S, F, O, L), cfg' = cfg, rows \subseteq rows'
    PROVE  /\ Past(S, F, O, L)'
           /\ \A b, j : UpTo(S, b, j)' <=> UpTo(S, b, j)
           /\ \A f : FanPassed(S, F, f)' <=> FanPassed(S, F, f)
<1>0. \A b : Code(b)' = Code(b)
  BY DEF Code
<1>1. \A b, j : UpTo(S, b, j)' <=> UpTo(S, b, j)
  BY DEF UpTo
<1>2. \A f : FanSettled(S, F, f)' <=> FanSettled(S, F, f)
  BY <1>0 DEF FanSettled, Finished, Erred
<1>3. \A f : FanPassed(S, F, f)' <=> FanPassed(S, F, f)
  BY <1>0, <1>2 DEF FanPassed, Finished
<1>4. \A b, j : IdOf(b, j)' = IdOf(b, j)
  BY <1>0 DEF IdOf
<1>5. \A b, j : WasPassed(S, F, O, b, j) => WasPassed(S, F, O, b, j)'
  BY <1>0, <1>1, <1>3, <1>4 DEF WasPassed
<1>6. \A b, j : WasError(S, F, b, j) => WasError(S, F, b, j)'
  BY <1>0, <1>1, <1>2 DEF WasError, Erred
<1>7. \A f : WasOpened(S, F, O, L, f) => WasOpened(S, F, O, L, f)'
  BY <1>0, <1>1, <1>3 DEF WasOpened
<1>8. Past(S, F, O, L)'
  BY <1>5, <1>6, <1>7 DEF Past
<1> QED
  BY <1>1, <1>3, <1>8

-----------------------------------------------------------------------------
(* What a branch does to it. *)

\* When a fan-out yields and when it returns an error.
LEMMA FanKinds ==
    ASSUME NEW f \in Fans
    PROVE  /\ FanResult(f) # Ok => FanResult(f).kind \in {"yield", "error"}
           /\ FanResult(f).kind = "yield" => \E b \in Team(f) : res[b].kind = "yield"
           /\ FanResult(f).kind # "yield" => \A b \in Team(f) : res[b].kind # "yield"
           /\ FanResult(f).kind = "error" =>
                 cfg.failFast[f] /\ \E b \in Team(f) : res[b].kind = "error"
           /\ FanResult(f) = Ok /\ cfg.failFast[f] => \A b \in Team(f) : res[b].kind # "error"
<1> DEFINE Of(kind) == {i \in DOMAIN Members[f] : res[Members[f][i]].kind = kind}
           First(S) == CHOOSE i \in S : \A j \in S : i <= j
<1>1. /\ FanResult(f) # Ok =>
            \E b \in Team(f) : FanResult(f) = res[b] /\ res[b].kind \in {"yield", "error"}
      /\ Ok.kind = "ok"
  BY FanResults DEF Ok
<1>2. \A kind : Of(kind) = {} => \A b \in Team(f) : res[b].kind # kind
  BY DEF Team
<1>3. \A kind : Of(kind) # {} => \E b \in Team(f) : res[b].kind = kind
  BY DEF Team
<1>4. ASSUME NEW kind, Of(kind) # {} PROVE res[Members[f][First(Of(kind))]].kind = kind
  <2>1. Of(kind) \in SUBSET Nat
    BY ParallelAssumption
  <2>2. \E m \in Of(kind) : \A k \in Of(kind) : m <= k
    BY <1>4, <2>1, LeastElement
  <2>3. First(Of(kind)) \in Of(kind)
    <3> HIDE DEF Of
    <3> QED
      BY <2>2
  <2> QED
    BY <2>3
<1>5. FanResult(f) = IF Of("yield") # {} THEN res[Members[f][First(Of("yield"))]]
                     ELSE IF cfg.failFast[f] /\ Of("error") # {} THEN res[Members[f][First(Of("error"))]]
                     ELSE Ok
  BY DEF FanResult
<1>6. Of("yield") # {} => res[Members[f][First(Of("yield"))]].kind = "yield"
  BY <1>4
<1>7. Of("error") # {} => res[Members[f][First(Of("error"))]].kind = "error"
  BY <1>4
<1> HIDE DEF Of, First
<1> QED
  BY <1>1, <1>2, <1>3, <1>5, <1>6, <1>7

\* A branch of a fan-out that has been joined or is about to be comes to its end as
\* the executions before.
LEMMA MemberEnds ==
    ASSUME NEW S, NEW F, NEW O, NEW L, Past(S, F, O, L), cfg \in Configs, NEW b \in Branches,
           pc[b] \in Nat \ {0}, at[b] = "ended", UpTo(S, b, pc[b]), EndsAgree(S, F)
    PROVE  /\ res[b].kind \in {"ok", "error", "yield"}
           /\ res[b].kind = "ok" => Finished(S, b)
           /\ res[b].kind = "error" => Erred(F, b)
           /\ res[b].kind # "ok" => ~Finished(S, b)
           /\ res[b].kind = "yield" => ~Erred(F, b)
<1>1. /\ res[b].kind \in {"ok", "error", "yield"}
      /\ res[b].kind = "ok" => pc[b] > Len(Code(b))
      /\ res[b].kind # "ok" => pc[b] \in DOMAIN Code(b) /\ <<b, pc[b]>> \notin S
      /\ res[b].kind = "error" <=> <<b, pc[b]>> \in F
  BY DEF EndsAgree
<1>2. Len(Code(b)) \in Nat /\ DOMAIN Code(b) = 1 .. Len(Code(b))
  BY ConfigFields
<1>3. res[b].kind = "ok" => Finished(S, b)
  BY <1>1, <1>2 DEF Finished, UpTo
<1>4. res[b].kind = "yield" => ~Erred(F, b)
  <2> SUFFICES ASSUME res[b].kind = "yield", NEW j \in DOMAIN Code(b), <<b, j>> \in F PROVE FALSE
    BY DEF Erred
  <2>1. <<b, j>> \notin S /\ UpTo(S, b, j)
    BY DEF Past, WasError
  <2>2. ~(j < pc[b]) /\ ~(pc[b] < j)
    BY <1>1, <1>2, <2>1 DEF UpTo
  <2>3. j # pc[b]
    BY <1>1
  <2> QED
    BY <1>2, <2>2, <2>3
<1> QED
  BY <1>1, <1>3, <1>4 DEF Finished, Erred

\* What a fan-out that is joined came to in the executions before.
LEMMA FanEnds ==
    ASSUME NEW S, NEW F, NEW O, NEW L, Past(S, F, O, L), Places, Reached(S, O), EndsAgree(S, F), ~ctxDone,
           NEW f \in Fans, \A b \in Team(f) : at[b] = "ended"
    PROVE  /\ FanResult(f) = Ok => FanPassed(S, F, f)
           /\ FanResult(f).kind = "error" =>
                 /\ cfg.failFast[f] /\ FanSettled(S, F, f) /\ \E b \in Team(f) : Erred(F, b)
                 /\ \E b \in Team(f) : ~Finished(S, b)
           /\ FanResult(f).kind = "yield" => ~FanSettled(S, F, f)
<1>1. ASSUME NEW b \in Team(f)
      PROVE  /\ res[b].kind \in {"ok", "error", "yield"}
             /\ res[b].kind = "ok" => Finished(S, b)
             /\ res[b].kind = "error" => Erred(F, b)
             /\ res[b].kind # "ok" => ~Finished(S, b)
             /\ res[b].kind = "yield" => ~Erred(F, b)
  <2>1. b \in Branches /\ at[b] = "ended" /\ pc[b] \in Nat \ {0} /\ cfg \in Configs
    BY Teams DEF Places
  <2>2. UpTo(S, b, pc[b])
    BY <2>1 DEF Reached
  <2> QED
    BY <2>1, <2>2, MemberEnds
<1>2. Ok.kind = "ok"
  BY DEF Ok
<1> QED
  BY <1>1, <1>2, FanKinds DEF FanPassed, FanSettled

\* A call that has a row was passed.
LEMMA ReplayPassed ==
    ASSUME NEW S, RowsPassed(S), ScopesDiffer, Places, Numbered, RowsMatch, NEW b \in Branches,
           AtCall(b, "run"), BranchStepId(b) \in memo
    PROVE  <<b, pc[b]>> \in S
<1>1. <<BranchStepId(b), <<b, pc[b]>>>> \in rows
  BY ReplaysOwnRow
<1>2. <<b, pc[b]>> # Root
  BY ParallelAssumption DEF Places
<1> QED
  BY <1>1, <1>2 DEF RowsPassed

\* How a branch gets past a call.
Passes(b) ==
    /\ pc[b] \in DOMAIN Code(b) /\ pc'[b] = pc[b] + 1 /\ at'[b] = "running" /\ UNCHANGED res
    /\ \/ /\ Code(b)[pc[b]].op = "run" /\ AtCall(b, "run") /\ BranchStepId(b) \in memo
          /\ UNCHANGED <<executed, comps, fan>>
       \/ /\ Code(b)[pc[b]].op = "run" /\ <<b, pc[b]>> \notin cfg.fails /\ at[b] = "body"
          /\ executed' = Append(executed, <<cur[b], <<b, pc[b]>>>>) /\ UNCHANGED <<comps, fan>>
       \/ /\ Code(b)[pc[b]].op = "sleep" /\ IdOf(b, pc[b]) \in memo /\ UNCHANGED <<executed, comps, fan>>
       \/ /\ Code(b)[pc[b]].op = "compensate" /\ comps' = Append(comps, <<b, pc[b] - 1>>)
          /\ UNCHANGED <<executed, fan>>
       \/ /\ Code(b)[pc[b]].op = "fan" /\ Joined(Code(b)[pc[b]].fan) /\ FanResult(Code(b)[pc[b]].fan) = Ok
          /\ UNCHANGED <<executed, comps>>

\* How it ends.
Ends(b) ==
    /\ UNCHANGED <<pc, executed, comps>>
    /\ at' = [at EXCEPT ![b] = "ended"]
    /\ \/ res' = [res EXCEPT ![b] = Ok] /\ pc[b] > Len(Code(b)) /\ UNCHANGED fan
       \/ /\ pc[b] \in DOMAIN Code(b)
          /\ \/ /\ Code(b)[pc[b]].op = "run" /\ <<b, pc[b]>> \in cfg.fails
                /\ res' = [res EXCEPT ![b] = Failed] /\ UNCHANGED fan
             \/ /\ Code(b)[pc[b]].op = "sleep" /\ IdOf(b, pc[b]) \notin memo
                /\ res' = [res EXCEPT ![b] = Yield(IdOf(b, pc[b]))] /\ UNCHANGED fan
             \/ /\ Code(b)[pc[b]].op = "fan" /\ Joined(Code(b)[pc[b]].fan)
                /\ FanResult(Code(b)[pc[b]].fan) # Ok
                /\ res' = [res EXCEPT ![b] = FanResult(Code(b)[pc[b]].fan)]

\* What else it does.
Waits(b) ==
    /\ UNCHANGED <<pc, res, executed, comps>> /\ at'[b] \notin {"ended", "idle"}
    /\ \/ UNCHANGED fan
       \/ /\ pc[b] \in DOMAIN Code(b) /\ Code(b)[pc[b]].op = "fan"
          /\ fan[Code(b)[pc[b]].fan] = "closed" /\ fan' = [fan EXCEPT ![Code(b)[pc[b]].fan] = "open"]
          /\ at' = [c \in Branches |-> IF c = b THEN "joining"
                                       ELSE IF c \in Team(Code(b)[pc[b]].fan) THEN "starting" ELSE at[c]]

\* Those are all, while the job context is not done.
LEMMA BranchWork ==
    ASSUME Places, JoinsFans, Numbered, BodiesAreNew, Scoped, ScheduleFree,
           ~ctxDone, NEW b \in Branches, BranchSteps(b)
    PROVE  Passes(b) \/ Ends(b) \/ Waits(b)
<1>1. cfg \in Configs /\ pc[b] \in Nat \ {0}
  BY DEF Places
<1>2. ASSUME NEW r, End(b, r) PROVE at' = [at EXCEPT ![b] = "ended"] /\ res' = [res EXCEPT ![b] = r]
  BY <1>2, Ended
<1>3. ASSUME NEW op, AtCall(b, op) PROVE pc[b] \in DOMAIN Code(b) /\ Code(b)[pc[b]].op = op
  BY <1>1, <1>3, ConfigFields DEF AtCall
<1>5. CASE Start(b)
  <2>1. FanOf(b) \in Fans
    BY OneFan
  <2>2. ~Skips(b)
    BY <1>1, <2>1 DEF Skips, ScheduleFree
  <2>3. /\ at' = [at EXCEPT ![b] = "running"] /\ UNCHANGED <<res, pc, executed, comps, fan>>
    BY <1>5, <2>2 DEF Start, execVars
  <2> QED
    BY <2>3 DEF Places, Waits
<1>6. CASE RunWithBranch(b)
  <2>1. /\ AtCall(b, "run") /\ RunOrReplay(b, BranchStepId(b))
        /\ UNCHANGED <<executed, comps, fan, res>>
    BY <1>6 DEF RunWithBranch, ContextError, execVars
  <2>2. pc[b] \in DOMAIN Code(b) /\ Code(b)[pc[b]].op = "run" /\ at[b] = "running"
    BY <2>1, <1>3 DEF AtCall
  <2>3. CASE BranchStepId(b) \in memo
    <3>2. at' = at /\ pc' = [pc EXCEPT ![b] = @ + 1]
      BY <2>1, <2>3 DEF RunOrReplay
    <3>3. pc'[b] = pc[b] + 1 /\ at'[b] = "running"
      BY <2>2, <3>2 DEF Places
    <3> QED
      BY <2>1, <2>2, <2>3, <3>3 DEF Passes
  <2>4. CASE BranchStepId(b) \notin memo
    <3>1. at' = [at EXCEPT ![b] = "body"] /\ UNCHANGED pc
      BY <2>1, <2>4 DEF RunOrReplay
    <3>2. at'[b] = "body"
      BY <3>1 DEF Places
    <3> QED
      BY <2>1, <3>1, <3>2 DEF Waits
  <2> QED
    BY <2>3, <2>4
<1>7. CASE RunOnRoot(b)
  BY <1>3, <1>7 DEF RunOnRoot, Scoped
<1>8. CASE BodyEnds(b)
  <2>1. /\ pc[b] \in DOMAIN Code(b) /\ Code(b)[pc[b]].op = "run" /\ at[b] = "body"
        /\ UNCHANGED <<comps, fan>>
    BY <1>8 DEF BodyEnds, BodiesAreNew, CallsOf
  <2>2. CASE <<b, pc[b]>> \in cfg.fails
    <3>2. End(b, Failed) /\ UNCHANGED <<pc, executed>>
      BY <1>8, <2>2 DEF BodyEnds, Call
    <3>3. at' = [at EXCEPT ![b] = "ended"] /\ res' = [res EXCEPT ![b] = Failed]
      BY <1>2, <3>2
    <3> QED
      BY <2>1, <2>2, <3>2, <3>3 DEF Ends
  <2>3. CASE <<b, pc[b]>> \notin cfg.fails
    <3>2. /\ at' = [at EXCEPT ![b] = "running"] /\ pc' = [pc EXCEPT ![b] = @ + 1] /\ UNCHANGED res
          /\ executed' = Append(executed, <<cur[b], <<b, pc[b]>>>>)
      BY <1>8, <2>3 DEF BodyEnds, Call
    <3>3. at'[b] = "running" /\ pc'[b] = pc[b] + 1
      BY <3>2 DEF Places
    <3> QED
      BY <2>1, <2>3, <3>2, <3>3 DEF Passes
  <2> QED
    BY <2>2, <2>3
<1>9. CASE SleepWithBranch(b)
  <2>1. AtCall(b, "sleep") /\ UNCHANGED <<executed, comps, fan>>
    BY <1>9 DEF SleepWithBranch, ContextError, execVars
  <2>2. /\ BranchStepId(b) = IdOf(b, pc[b]) /\ Code(b)[pc[b]].op = "sleep" /\ pc[b] \in DOMAIN Code(b)
        /\ at[b] = "running"
    BY <2>1, <1>3, OwnId DEF AtCall
  <2>3. CASE BranchStepId(b) \in memo
    <3>2. at' = at /\ pc' = [pc EXCEPT ![b] = @ + 1] /\ UNCHANGED res
      BY <1>9, <2>3 DEF SleepWithBranch, ContextError
    <3>3. at'[b] = "running" /\ pc'[b] = pc[b] + 1
      BY <2>2, <3>2 DEF Places
    <3> QED
      BY <2>1, <2>2, <2>3, <3>2, <3>3 DEF Passes
  <2>4. CASE BranchStepId(b) \notin memo
    <3>2. End(b, Yield(IdOf(b, pc[b]))) /\ UNCHANGED pc
      BY <1>9, <2>2, <2>4 DEF SleepWithBranch, ContextError
    <3>3. at' = [at EXCEPT ![b] = "ended"] /\ res' = [res EXCEPT ![b] = Yield(IdOf(b, pc[b]))]
      BY <1>2, <3>2
    <3> QED
      BY <2>1, <2>2, <2>4, <3>2, <3>3 DEF Ends
  <2> QED
    BY <2>3, <2>4
<1>10. CASE CompensateInBranch(b)
  <2>1. /\ pc[b] \in DOMAIN Code(b) /\ Code(b)[pc[b]].op = "compensate"
    BY <1>3, <1>10 DEF CompensateInBranch
  <2>2. /\ at[b] = "running" /\ comps' = Append(comps, <<b, pc[b] - 1>>)
        /\ pc' = [pc EXCEPT ![b] = @ + 1] /\ UNCHANGED <<executed, fan, at, res>>
    BY <1>10 DEF CompensateInBranch, AtCall, fanVars
  <2>3. pc'[b] = pc[b] + 1 /\ at'[b] = "running"
    BY <2>2 DEF Places
  <2> QED
    BY <2>1, <2>2, <2>3 DEF Passes
<1>11. CASE OpenNested(b)
  <2>1. /\ pc[b] \in DOMAIN Code(b) /\ Code(b)[pc[b]].op = "fan"
    BY <1>3, <1>11 DEF OpenNested
  <2>2. /\ fan[Code(b)[pc[b]].fan] = "closed" /\ fan' = [fan EXCEPT ![Code(b)[pc[b]].fan] = "open"]
        /\ at' = [c \in Branches |-> IF c = b THEN "joining"
                                     ELSE IF c \in Team(Code(b)[pc[b]].fan) THEN "starting" ELSE at[c]]
        /\ UNCHANGED <<pc, res, executed, comps>>
    BY <1>11 DEF OpenNested, OpenFan
  <2>3. at'[b] = "joining"
    BY <2>2
  <2> QED
    BY <2>1, <2>2, <2>3 DEF Waits
<1>12. CASE BranchReturns(b)
  <2>1. pc[b] > Len(Code(b)) /\ End(b, Ok) /\ UNCHANGED <<pc, executed, comps, fan>>
    BY <1>12 DEF BranchReturns, execVars
  <2> QED
    BY <1>2, <2>1 DEF Ends
<1>13. CASE JoinNested(b)
  <2> DEFINE f == Code(b)[pc[b]].fan
  <2>1. /\ pc[b] \in DOMAIN Code(b) /\ Code(b)[pc[b]].op = "fan" /\ Joined(f)
        /\ UNCHANGED <<executed, comps>>
    BY <1>13 DEF JoinNested, JoinsFans
  <2>2. CASE FanResult(f) = Ok
    <3>1. at' = [at EXCEPT ![b] = "running"] /\ pc' = [pc EXCEPT ![b] = @ + 1] /\ UNCHANGED res
      BY <1>13, <2>2 DEF JoinNested
    <3>2. pc'[b] = pc[b] + 1 /\ at'[b] = "running"
      BY <3>1 DEF Places
    <3> QED
      BY <2>1, <2>2, <3>1, <3>2 DEF Passes
  <2>3. CASE FanResult(f) # Ok
    <3>1. End(b, FanResult(f)) /\ UNCHANGED pc
      BY <1>13, <2>3 DEF JoinNested
    <3>2. at' = [at EXCEPT ![b] = "ended"] /\ res' = [res EXCEPT ![b] = FanResult(f)]
      BY <1>2, <3>1
    <3> QED
      BY <2>1, <2>3, <3>1, <3>2 DEF Ends
  <2> QED
    BY <2>2, <2>3
<1> QED
  BY <1>5, <1>6, <1>7, <1>8, <1>9, <1>10, <1>11, <1>12, <1>13 DEF BranchSteps

\* A step takes a branch past a call.
LEMMA OnePassed ==
    ASSUME NEW S, NEW F, NEW O, NEW L, Past(S, F, O, L), Present(S, F, O), Places, RowsMatch,
           NEW b \in Branches, BranchSteps(b), NEW j \in Nat, j = pc[b],
           WasPassed(S, F, O, b, j), <<b, j>> \notin F,
           pc'[b] = pc[b] + 1, at'[b] = "running", UNCHANGED <<cfg, rows, res>>,
           \A f \in Fans : fan'[f] # "closed" => fan[f] # "closed",
           UNCHANGED executed \/ executed' = Append(executed, <<cur[b], <<b, j>>>>)
    PROVE  Past(S \cup {<<b, j>>}, F, O, L)' /\ Present(S \cup {<<b, j>>}, F, O)'
<1> DEFINE S1 == S \cup {<<b, j>>}
<1>1. S \subseteq S1 /\ <<b, j>> \in S1 /\ \A c \in S1 : c \in S \/ c = <<b, j>>
  OBVIOUS
<1>2. Past(S1, F, O, L)
  BY PastCall
<1> HIDE DEF S1
<1>3. UNCHANGED <<next, ctxDone>> /\ UNCHANGED cfg /\ rows \subseteq rows'
  BY BranchFrame
<1>4. /\ Past(S1, F, O, L)' /\ \A d, k : UpTo(S1, d, k)' <=> UpTo(S1, d, k)
      /\ \A f : FanPassed(S1, F, f)' <=> FanPassed(S1, F, f)
  BY <1>2, <1>3, PastStays
<1>5. /\ \A d, k : UpTo(S, d, k) => UpTo(S1, d, k)
      /\ \A f : FanPassed(S, F, f) => FanPassed(S1, F, f)
  BY <1>1, MorePassed
<1>6. RowsPassed(S1)'
  <2>1. \A i \in DOMAIN executed' : executed'[i][2] \in S1
    <3>1. CASE UNCHANGED executed
      BY <1>1, <3>1 DEF Present, RowsPassed
    <3>2. CASE executed' = Append(executed, <<cur[b], <<b, j>>>>)
      <4>1. /\ executed \in Seq(StepRows) /\ DOMAIN executed = 1 .. Len(executed)
            /\ \A i \in DOMAIN executed : executed[i][2] \in S
        BY DEF RowsMatch, Present, RowsPassed
      <4>2. \A i \in DOMAIN executed' : (i \in DOMAIN executed /\ executed'[i] = executed[i])
                                        \/ executed'[i] = <<cur[b], <<b, j>>>>
        BY <3>2, <4>1
      <4> QED
        BY <1>1, <4>1, <4>2
    <3> QED
      BY <3>1, <3>2
  <2> QED
    BY <1>1, <2>1 DEF Present, RowsPassed
<1>7. ASSUME NEW d \in Branches, d # b
      PROVE  /\ UNCHANGED <<pc[d], res[d]>>
             /\ at'[d] \in {"body", "ended"} => at[d] = at'[d]
  BY <1>7, OthersStay
<1>8. Reached(S1, O)'
  <2>1. \A f \in Fans : fan'[f] # "closed" => f \in O
    BY DEF Present, Reached
  <2>2. ASSUME NEW d \in Branches, ~ctxDone \/ at'[d] = "body" PROVE UpTo(S1, d, pc'[d])
    <3>1. CASE d # b
      BY <1>5, <1>7, <2>2, <3>1 DEF Present, Reached
    <3>2. CASE d = b
      <4>1. UpTo(S, b, j)
        BY DEF WasPassed
      <4>2. \A i \in 1 .. (pc'[b] - 1) : i \in 1 .. (j - 1) \/ i = j
        OBVIOUS
      <4> QED
        BY <1>1, <3>2, <4>1, <4>2 DEF UpTo
    <3> QED
      BY <3>1, <3>2
  <2> QED
    BY <1>3, <1>4, <2>1, <2>2 DEF Reached
<1>9. ASSUME ~ctxDone PROVE EndsAgree(S1, F)' /\ HandlerPassed(S1, F)'
  <2>0. Code(b)' = Code(b) /\ \A d : Code(d)' = Code(d)
    BY DEF Code
  <2>1. ASSUME NEW d \in Branches, at'[d] = "ended"
        PROVE  /\ at[d] = "ended" /\ UNCHANGED <<pc[d], res[d]>>
               /\ <<d, pc[d]>> \in S1 => <<d, pc[d]>> \in S
    BY <1>1, <1>7, <2>1
  <2>2. EndsAgree(S1, F)'
    BY <1>9, <2>0, <2>1 DEF EndsAgree, Present
  <2>3. HandlerPassed(S1, F)'
    BY <1>3, <1>4, <1>5, <1>9 DEF HandlerPassed, Present
  <2> QED
    BY <2>2, <2>3
<1> QED
  BY <1>3, <1>4, <1>6, <1>8, <1>9 DEF Present, S1

\* A call that is passed again was no error.
LEMMA PassesStep ==
    ASSUME NEW S, NEW F, NEW O, NEW L, Past(S, F, O, L), Present(S, F, O), ScopesDiffer,
           Places, Numbered, RowsMatch, ~ctxDone, NEW b \in Branches, BranchSteps(b), UNCHANGED rows, Passes(b)
    PROVE  \E S1 : Past(S1, F, O, L)' /\ Present(S1, F, O)'
<1>1. PICK j \in Nat : j = pc[b]
  BY DEF Places
<1>2. cfg \in Configs /\ UNCHANGED cfg /\ at[b] # "idle" /\ status = "running"
  <2>1. at[b] # "idle"
    BY DEF BranchSteps, Start, RunWithBranch, RunOnRoot, BodyEnds, SleepWithBranch, CompensateInBranch,
       OpenNested, BranchReturns, JoinNested, AtCall
  <2> QED
    BY <2>1, BranchFrame DEF Places
<1>3. FanOf(b) \in O /\ UpTo(S, b, j) /\ j \in DOMAIN Code(b)
  BY <1>1, <1>2, OneFan DEF Places, Present, Reached, Passes
<1> DEFINE c == Code(b)[j]
<1>4. c \in Calls /\ (c.op = "fan" => c.fan \in Fans)
  BY <1>2, <1>3, ConfigFields, CallFields
<1>5. UNCHANGED executed \/ executed' = Append(executed, <<cur[b], <<b, j>>>>)
  BY <1>1 DEF Passes
<1>6. \A f \in Fans : fan'[f] # "closed" => fan[f] # "closed"
  <2>1. UNCHANGED fan \/ (c.op = "fan" /\ Joined(c.fan))
    BY <1>1 DEF Passes
  <2> QED
    BY <1>4, <2>1 DEF Joined, Places
<1>7. WasPassed(S, F, O, b, j) /\ <<b, j>> \notin F
  <2>1. CASE AtCall(b, "run") /\ BranchStepId(b) \in memo
    <3>1. <<b, j>> \in S
      BY <1>1, <2>1, ReplayPassed DEF Present
    <3> QED
      BY <3>1 DEF Past
  <2>2. ASSUME NEW op, c.op = op, op \in {"run", "sleep", "compensate"}, op = "run" => <<b, j>> \notin cfg.fails
        PROVE  <<b, j>> \notin F
    BY <2>2 DEF Past, WasError
  <2>3. CASE c.op = "run" /\ <<b, j>> \notin cfg.fails
    BY <1>3, <2>2, <2>3 DEF WasPassed
  <2>4. CASE c.op = "sleep" /\ IdOf(b, j) \in memo
    <3>1. \E r \in rows : r[1] = IdOf(b, j)
      BY <1>2, <2>4 DEF RowsMatch
    <3> QED
      BY <1>3, <2>2, <2>4, <3>1 DEF WasPassed
  <2>5. CASE c.op = "compensate"
    BY <1>3, <2>2, <2>5 DEF WasPassed
  <2>6. CASE c.op = "fan" /\ Joined(c.fan) /\ FanResult(c.fan) = Ok
    <3>1. FanPassed(S, F, c.fan)
      <4>1. \A d \in Team(c.fan) : at[d] = "ended"
        BY <2>6 DEF Joined
      <4> QED
        BY <1>4, <2>6, <4>1, FanEnds DEF Present
    <3>2. WasPassed(S, F, O, b, j)
      BY <1>3, <2>6, <3>1 DEF WasPassed
    <3>3. <<b, j>> \notin F
      <4> SUFFICES ASSUME <<b, j>> \in F PROVE FALSE
        OBVIOUS
      <4>1. cfg.failFast[c.fan] /\ \E m \in Team(c.fan) : Erred(F, m)
        BY <2>6 DEF Past, WasError
      <4>2. PICK m \in Team(c.fan) : Erred(F, m)
        BY <4>1
      <4>3. Finished(S, m)
        BY <3>1, <4>1 DEF FanPassed
      <4> QED
        BY <4>2, <4>3 DEF Finished, Erred, Past
    <3> QED
      BY <3>2, <3>3
  <2> QED
    BY <1>1, <2>1, <2>3, <2>4, <2>5, <2>6 DEF Passes
<1>8. Past(S \cup {<<b, j>>}, F, O, L)' /\ Present(S \cup {<<b, j>>}, F, O)'
  BY <1>1, <1>2, <1>5, <1>6, <1>7, OnePassed DEF Passes
<1> QED
  BY <1>8

\* A branch ends where no execution got past, and with an error only where all that
\* get there do.
LEMMA EndsStep ==
    ASSUME NEW S, NEW F, NEW O, NEW L, Past(S, F, O, L), Present(S, F, O),
           Places, RowsMatch, ~ctxDone, NEW b \in Branches, BranchSteps(b), UNCHANGED rows, Ends(b)
    PROVE  \E F1 : Past(S, F1, O, L)' /\ Present(S, F1, O)'
<1>1. PICK j \in Nat \ {0} : j = pc[b]
  BY DEF Places
<1>2. cfg \in Configs /\ UNCHANGED <<cfg, next, ctxDone>> /\ at[b] # "idle" /\ status = "running"
  <2>1. at[b] # "idle"
    BY DEF BranchSteps, Start, RunWithBranch, RunOnRoot, BodyEnds, SleepWithBranch, CompensateInBranch,
       OpenNested, BranchReturns, JoinNested, AtCall
  <2> QED
    BY <2>1, BranchFrame DEF Places
<1>3. UpTo(S, b, j)
  BY <1>1 DEF Present, Reached
<1> DEFINE c == Code(b)[j]
           r == res'[b]
<1>4. j \in DOMAIN Code(b) => c \in Calls /\ (c.op = "fan" => c.fan \in Fans)
  BY <1>2, ConfigFields, CallFields
<1>5. /\ UNCHANGED <<pc, executed>> /\ \A d \in Branches : d # b => UNCHANGED <<at[d], res[d]>>
      /\ at'[b] = "ended"
  BY DEF Ends, Places
<1>6. \A f \in Fans : fan'[f] # "closed" => fan[f] # "closed"
  <2>1. UNCHANGED fan \/ (j \in DOMAIN Code(b) /\ c.op = "fan" /\ Joined(c.fan))
    BY <1>1 DEF Ends
  <2> QED
    BY <1>4, <2>1 DEF Joined, Places
<1>7. /\ r.kind \in {"ok", "error", "yield"}
      /\ r.kind = "ok" => j > Len(Code(b))
      /\ r.kind # "ok" => j \in DOMAIN Code(b) /\ <<b, j>> \notin S
      /\ r.kind = "error" => WasError(S, F, b, j)
      /\ r.kind # "error" => <<b, j>> \notin F
  <2>0. \A x : [res EXCEPT ![b] = x][b] = x
    BY DEF Places
  <2>1. CASE r = Ok /\ j > Len(Code(b))
    <3>1. j \notin DOMAIN Code(b) /\ r.kind = "ok"
      BY <1>2, <2>1, ConfigFields DEF Ok
    <3> QED
      BY <2>1, <3>1 DEF Past, WasError
  <2>2. CASE j \in DOMAIN Code(b) /\ c.op = "run" /\ <<b, j>> \in cfg.fails /\ r = Failed
    <3>1. r.kind = "error" /\ WasError(S, F, b, j)
      BY <1>3, <2>2 DEF Failed, WasError
    <3>2. <<b, j>> \notin S
      BY <2>2 DEF Past, WasPassed
    <3> QED
      BY <2>2, <3>1, <3>2
  <2>3. CASE j \in DOMAIN Code(b) /\ c.op = "sleep" /\ IdOf(b, j) \notin memo /\ r = Yield(IdOf(b, j))
    <3>1. r.kind = "yield"
      BY <2>3 DEF Yield
    <3>2. <<b, j>> \notin S
      BY <1>2, <2>3 DEF Past, WasPassed, RowsMatch
    <3>3. <<b, j>> \notin F
      BY <2>3 DEF Past, WasError
    <3> QED
      BY <2>3, <3>1, <3>2, <3>3
  <2>4. CASE /\ j \in DOMAIN Code(b) /\ c.op = "fan" /\ Joined(c.fan) /\ FanResult(c.fan) # Ok
             /\ r = FanResult(c.fan)
    <3>1. /\ FanResult(c.fan).kind = "error" =>
               /\ cfg.failFast[c.fan] /\ FanSettled(S, F, c.fan) /\ \E m \in Team(c.fan) : Erred(F, m)
               /\ \E m \in Team(c.fan) : ~Finished(S, m)
          /\ FanResult(c.fan).kind = "yield" => ~FanSettled(S, F, c.fan)
      <4>1. \A d \in Team(c.fan) : at[d] = "ended"
        BY <2>4 DEF Joined
      <4> QED
        BY <1>4, <2>4, <4>1, FanEnds DEF Present
    <3>2. r.kind \in {"yield", "error"}
      BY <1>4, <2>4, FanKinds
    <3>3. <<b, j>> \notin S
      <4> SUFFICES ASSUME <<b, j>> \in S PROVE FALSE
        OBVIOUS
      <4>1. FanPassed(S, F, c.fan)
        BY <2>4 DEF Past, WasPassed
      <4> QED
        BY <2>4, <3>1, <3>2, <4>1 DEF FanPassed
    <3>4. r.kind = "error" => WasError(S, F, b, j)
      BY <1>3, <2>4, <3>1 DEF WasError
    <3>5. r.kind = "yield" => <<b, j>> \notin F
      BY <2>4, <3>1 DEF Past, WasError
    <3> QED
      BY <2>4, <3>2, <3>3, <3>4, <3>5
  <2> QED
    BY <1>1, <2>0, <2>1, <2>2, <2>3, <2>4 DEF Ends
<1>8. ASSUME NEW F1, F \subseteq F1, \A d \in F1 : d \in F \/ d = <<b, j>>,
             r.kind = "error" <=> <<b, j>> \in F1, Past(S, F1, O, L)
      PROVE  Past(S, F1, O, L)' /\ Present(S, F1, O)'
  <2>1. /\ Past(S, F1, O, L)' /\ \A d, k : UpTo(S, d, k)' <=> UpTo(S, d, k)
        /\ \A f : FanPassed(S, F1, f)' <=> FanPassed(S, F1, f)
    BY <1>2, <1>8, PastStays
  <2>2. \A f : FanPassed(S, F, f) => FanPassed(S, F1, f)
    BY <1>8, MorePassed
  <2>3. RowsPassed(S)'
    BY <1>5 DEF Present, RowsPassed
  <2>4. Reached(S, O)'
    <3>1. \A f \in Fans : fan'[f] # "closed" => f \in O
      BY <1>6 DEF Present, Reached
    <3>2. \A d \in Branches : ~ctxDone' \/ at'[d] = "body" => UpTo(S, d, pc'[d])
      BY <1>5 DEF Present, Reached
    <3> QED
      BY <2>1, <3>1, <3>2 DEF Reached
  <2>5. HandlerPassed(S, F1)'
    BY <1>2, <2>1, <2>2 DEF HandlerPassed, Present
  <2>6. EndsAgree(S, F1)'
    <3>0. \A d : Code(d)' = Code(d)
      BY <1>2 DEF Code
    <3>1. ASSUME NEW d \in Branches, at'[d] = "ended"
          PROVE  /\ res'[d].kind \in {"ok", "error", "yield"}
                 /\ res'[d].kind = "ok" => pc'[d] > Len(Code(d))
                 /\ res'[d].kind # "ok" => pc'[d] \in DOMAIN Code(d) /\ <<d, pc'[d]>> \notin S
                 /\ res'[d].kind = "error" <=> <<d, pc'[d]>> \in F1
      <4>1. CASE d = b
        BY <1>1, <1>5, <1>7, <1>8, <4>1
      <4>2. CASE d # b
        <5>1. at[d] = "ended" /\ UNCHANGED <<pc[d], res[d]>>
          BY <1>5, <3>1, <4>2
        <5>2. <<d, pc[d]>> \in F1 <=> <<d, pc[d]>> \in F
          BY <1>8, <4>2
        <5> QED
          BY <5>1, <5>2 DEF Present, EndsAgree
      <4> QED
        BY <4>1, <4>2
    <3> QED
      BY <3>0, <3>1 DEF EndsAgree
  <2> QED
    BY <1>2, <2>1, <2>3, <2>4, <2>5, <2>6 DEF Present
<1>9. CASE r.kind = "error"
  <2>1. Past(S, F \cup {<<b, j>>}, O, L)
    BY <1>7, <1>9, PastError
  <2>2. Past(S, F \cup {<<b, j>>}, O, L)' /\ Present(S, F \cup {<<b, j>>}, O)'
    BY <1>8, <1>9, <2>1
  <2> QED
    BY <2>2
<1>10. CASE r.kind # "error"
  <2>1. Past(S, F, O, L)' /\ Present(S, F, O)'
    BY <1>7, <1>8, <1>10
  <2> QED
    BY <2>1
<1> QED
  BY <1>9, <1>10

\* A step that takes no branch past a call and ends none.
LEMMA NoneMoves ==
    ASSUME NEW S, NEW F, NEW O, NEW O1, NEW L1, Past(S, F, O1, L1), Present(S, F, O),
           cfg' = cfg, rows \subseteq rows', ctxDone => ctxDone',
           ~ctxDone' => UNCHANGED <<pc, res>>,
           \A d \in Branches : ~ctxDone' /\ at'[d] = "ended" => at[d] = "ended",
           \A d \in Branches : ctxDone' /\ at'[d] = "body" => at[d] = "body" /\ UNCHANGED pc[d],
           \A f \in Fans : fan'[f] # "closed" => f \in O1,
           RowsPassed(S)', ~ctxDone' => \A i \in 1 .. (next' - 1) : FanPassed(S, F, cfg.handler[i])
    PROVE  Past(S, F, O1, L1)' /\ Present(S, F, O1)'
<1>1. /\ Past(S, F, O1, L1)' /\ \A d, k : UpTo(S, d, k)' <=> UpTo(S, d, k)
      /\ \A f : FanPassed(S, F, f)' <=> FanPassed(S, F, f)
  BY PastStays
<1>2. Reached(S, O1)'
  <2>1. ASSUME NEW d \in Branches, ~ctxDone' \/ at'[d] = "body" PROVE UpTo(S, d, pc'[d])
    BY <2>1 DEF Present, Reached
  <2> QED
    BY <1>1, <2>1 DEF Reached
<1>3. ASSUME ~ctxDone' PROVE EndsAgree(S, F)' /\ HandlerPassed(S, F)'
  <2>1. EndsAgree(S, F)'
    <3>1. \A d : Code(d)' = Code(d)
      BY DEF Code
    <3> QED
      BY <1>3, <3>1 DEF Present, EndsAgree
  <2>2. HandlerPassed(S, F)'
    BY <1>1, <1>3 DEF HandlerPassed
  <2> QED
    BY <2>1, <2>2
<1> QED
  BY <1>1, <1>2, <1>3 DEF Present

\* A branch opens a fan-out, or only moves on.
LEMMA WaitsStep ==
    ASSUME NEW S, NEW F, NEW O, NEW L, Past(S, F, O, L), Present(S, F, O),
           Places, ~ctxDone, NEW b \in Branches, BranchSteps(b), UNCHANGED rows, Waits(b)
    PROVE  \E O1, L1 : Past(S, F, O1, L1)' /\ Present(S, F, O1)'
<1>1. cfg \in Configs /\ UNCHANGED <<cfg, next, ctxDone>> /\ at[b] # "idle" /\ pc[b] \in Nat \ {0}
  <2>1. at[b] # "idle"
    BY DEF BranchSteps, Start, RunWithBranch, RunOnRoot, BodyEnds, SleepWithBranch, CompensateInBranch,
       OpenNested, BranchReturns, JoinNested, AtCall
  <2> QED
    BY <2>1, BranchFrame DEF Places
<1>2. /\ UNCHANGED <<pc, res, executed>> /\ at'[b] # "ended"
      /\ \A d \in Branches : at'[d] = "ended" => at[d] = "ended"
  <2>1. UNCHANGED <<pc, res, executed>> /\ at'[b] # "ended"
    BY DEF Waits
  <2> QED
    BY <2>1, OthersStay
<1>3. RowsPassed(S)'
  BY <1>2 DEF Present, RowsPassed
<1>4. \A i \in 1 .. (next' - 1) : FanPassed(S, F, cfg.handler[i])
  BY <1>1 DEF Present, HandlerPassed
<1>5. ASSUME NEW O1, NEW L1, Past(S, F, O1, L1), \A f \in Fans : fan'[f] # "closed" => f \in O1
      PROVE  Past(S, F, O1, L1)' /\ Present(S, F, O1)'
  BY <1>1, <1>2, <1>3, <1>4, <1>5, NoneMoves
<1>6. CASE UNCHANGED fan
  <2>1. \A f \in Fans : fan'[f] # "closed" => f \in O
    BY <1>6 DEF Present, Reached
  <2>2. Past(S, F, O, L)' /\ Present(S, F, O)'
    BY <1>5, <2>1
  <2> QED
    BY <2>2
<1>7. CASE /\ pc[b] \in DOMAIN Code(b) /\ Code(b)[pc[b]].op = "fan"
           /\ fan' = [fan EXCEPT ![Code(b)[pc[b]].fan] = "open"]
  <2>1. PICK k : k = pc[b]
    OBVIOUS
  <2>2. PICK f : f = Code(b)[k].fan
    OBVIOUS
  <2>3. f \in Fans
    BY <1>1, <1>7, <2>1, <2>2, ConfigFields, CallFields
  <2>4. FanOf(b) \in O /\ UpTo(S, b, k)
    BY <1>1, <2>1, OneFan DEF Places, Present, Reached
  <2>5. PICK L1 : Past(S, F, O \cup {f}, L1)
    BY <1>7, <2>1, <2>2, <2>3, <2>4, PastNested
  <2>6. \A g \in Fans : fan'[g] # "closed" => g \in O \cup {f}
    BY <1>7, <2>1, <2>2 DEF Present, Reached, Places
  <2>7. Past(S, F, O \cup {f}, L1)' /\ Present(S, F, O \cup {f})'
    BY <1>5, <2>5, <2>6
  <2> QED
    BY <2>7
<1> QED
  BY <1>6, <1>7 DEF Waits

\* When the job context is done only the bodies that still run count.
LEMMA DoneStep ==
    ASSUME NEW S, NEW F, NEW O, NEW L, Past(S, F, O, L), Present(S, F, O),
           Places, JoinsFans, BodiesAreNew, RowsMatch, Scoped, ctxDone, NEW b \in Branches, BranchSteps(b),
           UNCHANGED rows
    PROVE  \E S1 : Past(S1, F, O, L)' /\ Present(S1, F, O)'
<1>1. cfg \in Configs /\ UNCHANGED <<cfg, next, ctxDone>> /\ at[b] # "idle"
  <2>1. at[b] # "idle"
    BY DEF BranchSteps, Start, RunWithBranch, RunOnRoot, BodyEnds, SleepWithBranch, CompensateInBranch,
       OpenNested, BranchReturns, JoinNested, AtCall
  <2> QED
    BY <2>1, BranchFrame DEF Places
<1>2. \A f \in Fans : fan'[f] # "closed" => fan[f] # "closed"
  <2>1. CASE JoinNested(b)
    BY <2>1 DEF JoinNested, Joined, Places
  <2>2. CASE ~JoinNested(b)
    <3>1. UNCHANGED fan
      BY <2>2 DEF BranchSteps, Start, RunWithBranch, RunOnRoot, BodyEnds, SleepWithBranch, CompensateInBranch,
         OpenNested, BranchReturns, fanVars
    <3> QED
      BY <3>1
  <2> QED
    BY <2>1, <2>2
<1>3. CASE BodyEnds(b) /\ <<b, pc[b]>> \notin cfg.fails
  <2>1. PICK j \in Nat : j = pc[b]
    BY DEF Places
  <2>2. /\ at[b] = "body" /\ pc'[b] = pc[b] + 1 /\ at'[b] = "running" /\ UNCHANGED res
        /\ executed' = Append(executed, <<cur[b], <<b, j>>>>)
    BY <1>3, <2>1 DEF BodyEnds, Call, Places
  <2>3. j \in DOMAIN Code(b) /\ Code(b)[j].op = "run"
    BY <2>1, <2>2 DEF BodiesAreNew, CallsOf
  <2>4. FanOf(b) \in O /\ UpTo(S, b, j)
    BY <1>1, <2>1, <2>2, OneFan DEF Places, Present, Reached
  <2>5. WasPassed(S, F, O, b, j)
    BY <1>3, <2>1, <2>3, <2>4 DEF WasPassed
  <2>6. <<b, j>> \notin F
    BY <1>3, <2>1, <2>3 DEF Past, WasError
  <2>7. Past(S \cup {<<b, j>>}, F, O, L)' /\ Present(S \cup {<<b, j>>}, F, O)'
    BY <1>1, <1>2, <2>1, <2>2, <2>5, <2>6, OnePassed
  <2> QED
    BY <2>7
<1>4. CASE ~(BodyEnds(b) /\ <<b, pc[b]>> \notin cfg.fails)
  <2>1. UNCHANGED executed
    BY <1>4 DEF BranchSteps, Start, RunWithBranch, RunOnRoot, BodyEnds, SleepWithBranch, CompensateInBranch,
       OpenNested, BranchReturns, JoinNested, ContextError, Call, execVars
  <2>2. RowsPassed(S)'
    BY <2>1 DEF Present, RowsPassed
  <2>3. ASSUME NEW d \in Branches, at'[d] = "body" PROVE at[d] = "body" /\ UNCHANGED pc[d]
    <3>1. Next
      BY DEF Next
    <3> QED
      BY <2>3, <3>1, BranchMoves
  <2>4. \A f \in Fans : fan'[f] # "closed" => f \in O
    BY <1>2 DEF Present, Reached
  <2>5. Past(S, F, O, L)' /\ Present(S, F, O)'
    BY <1>1, <2>2, <2>3, <2>4, NoneMoves
  <2> QED
    BY <2>5
<1> QED
  BY <1>3, <1>4

\* The end of an execution leaves its rows.
LEMMA GoneStep ==
    ASSUME NEW S, NEW F, NEW O, NEW L, Past(S, F, O, L), Present(S, F, O), RowsMatch, cfg' = cfg,
           NEW n \in 0 .. Len(executed), Gone(n)
    PROVE  Past(S, F, O, L)' /\ Present(S, F, O)'
<1>1. rows \subseteq rows' /\ executed' = <<>> /\ rows' = rows \cup {executed[i] : i \in 1 .. n}
  BY DEF Gone
<1>2. /\ Past(S, F, O, L)' /\ \A d, k : UpTo(S, d, k)' <=> UpTo(S, d, k)
  BY <1>1, PastStays
<1>3. RowsPassed(S)'
  <2>1. \A i \in 1 .. n : i \in DOMAIN executed
    BY DEF RowsMatch
  <2>2. \A r \in rows' : r[2] # Root => r[2] \in S
    BY <1>1, <2>1 DEF Present, RowsPassed
  <2> QED
    BY <1>1, <2>2 DEF RowsPassed
<1>4. /\ \A b \in Branches : pc'[b] = 1 /\ at'[b] = "idle"
      /\ next' = 1 /\ \A f \in Fans : fan'[f] = "closed"
  BY DEF Gone
<1>5. \A b \in Branches : UpTo(S, b, pc'[b])
  BY <1>4 DEF UpTo
<1>6. Reached(S, O)'
  BY <1>2, <1>4, <1>5 DEF Reached
<1>7. EndsAgree(S, F)' /\ HandlerPassed(S, F)'
  BY <1>4 DEF EndsAgree, HandlerPassed
<1> QED
  BY <1>2, <1>3, <1>6, <1>7 DEF Present

\* Every step agrees with what the executions did before.
LEMMA PastStep ==
    ASSUME NEW S, NEW F, NEW O, NEW L, Past(S, F, O, L), Present(S, F, O), ScopesDiffer,
           Places, Outcomes, Fresh, JoinsFans, Numbered, BodiesAreNew, RowsMatch, OpenRoots,
           Scoped, ScheduleFree, Next
    PROVE  \E S1, F1, O1, L1 : Past(S1, F1, O1, L1)' /\ Present(S1, F1, O1)'
<1>0. cfg' = cfg /\ cfg \in Configs /\ rows \subseteq rows'
  BY ConfigStays, MemoStays DEF Places
<1>1. CASE Report \/ Abandoned
  <2>1. PICK n \in 0 .. Len(executed) : Gone(n)
    <3>1. Len(executed) \in 0 .. Len(executed)
      BY DEF RowsMatch
    <3> QED
      BY <1>1, <3>1 DEF Report, Abandoned
  <2>2. Past(S, F, O, L)' /\ Present(S, F, O)'
    BY <1>0, <2>1, GoneStep
  <2> QED
    BY <2>2
<1>2. ASSUME NEW O1, Past(S, F, O1, L), UNCHANGED <<pc, res, executed>>,
             ctxDone => ctxDone', rows' = rows \/ rows' = rows \cup {<<awaited, Root>>},
             \A d \in Branches : at'[d] \in {"ended", "body"} => UNCHANGED at[d],
             \A f \in Fans : fan'[f] # "closed" => f \in O1,
             ~ctxDone' => \A i \in 1 .. (next' - 1) : FanPassed(S, F, cfg.handler[i])
      PROVE  \E S1, F1, O2, L1 : Past(S1, F1, O2, L1)' /\ Present(S1, F1, O2)'
  <2>1. RowsPassed(S)'
    BY <1>2 DEF Present, RowsPassed
  <2>2. Past(S, F, O1, L)' /\ Present(S, F, O1)'
    BY <1>0, <1>2, <2>1, NoneMoves
  <2> QED
    BY <2>2
<1>3. /\ \A f \in Fans : fan[f] # "closed" => f \in O
      /\ ~ctxDone => \A i \in 1 .. (next - 1) : FanPassed(S, F, cfg.handler[i])
  BY DEF Present, Reached, HandlerPassed
<1>4. CASE Assign
  <2>1. UNCHANGED <<pc, res, executed, ctxDone, rows, at, fan, next>>
    BY <1>4 DEF Assign, branchVars, fanVars
  <2> QED
    BY <1>2, <1>3, <2>1
<1>5. CASE Wake
  <2>1. /\ UNCHANGED <<pc, res, executed, ctxDone, at, fan, next>>
        /\ rows' = rows \cup {<<awaited, Root>>}
    BY <1>5 DEF Wake, branchVars, fanVars, execVars
  <2> QED
    BY <1>2, <1>3, <2>1
<1>6. CASE JobCancelled
  <2>1. UNCHANGED <<pc, res, executed, rows, at, fan, next>> /\ ctxDone'
    BY <1>6 DEF JobCancelled, branchVars, fanVars
  <2> QED
    BY <1>2, <1>3, <2>1
<1>7. CASE HandlerReturns
  <2>1. UNCHANGED <<pc, res, executed, ctxDone, rows, at, fan, next>>
    BY <1>7 DEF HandlerReturns, branchVars, fanVars, engine
  <2> QED
    BY <1>2, <1>3, <2>1
<1>8. CASE OpenRoot
  <2>1. UNCHANGED <<pc, res, executed, ctxDone, rows, next>>
    BY <1>8 DEF OpenRoot, engine
  <2>2. CASE ctxDone
    <3>1. UNCHANGED <<at, fan>>
      BY <1>8, <2>2 DEF OpenRoot, fanVars
    <3> QED
      BY <1>2, <1>3, <2>1, <3>1
  <2>3. CASE ~ctxDone
    <3>1. PICK h : h = next
      OBVIOUS
    <3>2. PICK f : f = cfg.handler[h]
      OBVIOUS
    <3>3. h \in DOMAIN cfg.handler /\ f \in Fans
      BY <1>0, <1>8, <3>1, <3>2, ConfigFields DEF OpenRoot, Places
    <3>4. /\ fan[f] = "closed" /\ fan' = [fan EXCEPT ![f] = "open"]
          /\ at' = [d \in Branches |-> IF d \in Team(f) THEN "starting" ELSE at[d]]
      BY <1>8, <2>3, <3>1, <3>2 DEF OpenRoot, OpenFan
    <3>5. Past(S, F, O \cup {f}, L)
      BY <1>3, <2>3, <3>1, <3>2, <3>3, PastRoot
    <3>6. \A g \in Fans : fan'[g] # "closed" => g \in O \cup {f}
      BY <1>3, <3>4 DEF Places
    <3>7. \A d \in Branches : at'[d] \in {"ended", "body"} => UNCHANGED at[d]
      BY <3>4
    <3> QED
      BY <1>2, <1>3, <2>1, <3>5, <3>6, <3>7
  <2> QED
    BY <2>2, <2>3
<1>9. ASSUME NEW f \in Fans, JoinRoot(f)
      PROVE  \E S1, F1, O1, L1 : Past(S1, F1, O1, L1)' /\ Present(S1, F1, O1)'
  <2>1. /\ UNCHANGED <<pc, res, executed, ctxDone, rows, at>>
        /\ fan[f] = "open" /\ IsRoot(f) /\ fan' = [fan EXCEPT ![f] = "joined"]
        /\ \A b \in Team(f) : at[b] = "ended"
    BY <1>9 DEF JoinRoot, Joined, engine, branchVars
  <2>2. next \in Nat \ {0} /\ f = cfg.handler[next]
    BY <2>1 DEF OpenRoots, Places
  <2>3. next' = next \/ (next' = next + 1 /\ FanResult(f) = Ok)
    BY <1>9 DEF JoinRoot
  <2>4. ~ctxDone /\ FanResult(f) = Ok => FanPassed(S, F, f)
    BY <2>1, FanEnds DEF Present
  <2>5. ~ctxDone => \A i \in 1 .. (next' - 1) : FanPassed(S, F, cfg.handler[i])
    <3>1. \A i \in 1 .. next : i = next \/ i \in 1 .. (next - 1)
      BY <2>2
    <3> QED
      BY <1>3, <2>2, <2>3, <2>4, <3>1
  <2>6. \A g \in Fans : fan'[g] # "closed" => g \in O
    BY <1>3, <2>1 DEF Places
  <2> QED
    BY <1>2, <2>1, <2>5, <2>6
<1>10. ASSUME NEW b \in Branches, BranchSteps(b)
       PROVE  \E S1, F1, O1, L1 : Past(S1, F1, O1, L1)' /\ Present(S1, F1, O1)'
  <2>1. UNCHANGED rows
    BY <1>10 DEF BranchSteps, Start, RunWithBranch, RunOnRoot, BodyEnds, SleepWithBranch, CompensateInBranch,
       OpenNested, BranchReturns, JoinNested, engine
  <2>2. CASE ctxDone
    <3>1. PICK S1 : Past(S1, F, O, L)' /\ Present(S1, F, O)'
      BY <1>10, <2>1, <2>2, DoneStep
    <3> QED
      BY <3>1
  <2>3. CASE ~ctxDone
    <3>1. Passes(b) \/ Ends(b) \/ Waits(b)
      BY <1>10, <2>3, BranchWork
    <3>2. CASE Passes(b)
      <4>1. PICK S1 : Past(S1, F, O, L)' /\ Present(S1, F, O)'
        BY <1>10, <2>1, <2>3, <3>2, PassesStep
      <4> QED
        BY <4>1
    <3>3. CASE Ends(b)
      <4>1. PICK F1 : Past(S, F1, O, L)' /\ Present(S, F1, O)'
        BY <1>10, <2>1, <2>3, <3>3, EndsStep
      <4> QED
        BY <4>1
    <3>4. CASE Waits(b)
      <4>1. PICK O1, L1 : Past(S, F, O1, L1)' /\ Present(S, F, O1)'
        BY <1>10, <2>1, <2>3, <3>4, WaitsStep
      <4> QED
        BY <4>1
    <3> QED
      BY <3>1, <3>2, <3>3, <3>4
  <2> QED
    BY <2>2, <2>3
<1> QED
  BY <1>1, <1>4, <1>5, <1>6, <1>7, <1>8, <1>9, <1>10 DEF Next, EngineSteps, HandlerSteps

-----------------------------------------------------------------------------
(* Joins, compensations, and the end of a run that fails. *)

\* What a step of a branch does to the fan-outs and to the branches that ended.
LEMMA JoinsFrame ==
    ASSUME Places, ~ctxDone, NEW b \in Branches, BranchSteps(b), Passes(b) \/ Ends(b) \/ Waits(b)
    PROVE  /\ at[b] # "ended"
           /\ \A d \in Branches : d # b => UNCHANGED <<pc[d], res[d]>>
           /\ \A d \in Branches : d # b => (at'[d] = "ended" <=> at[d] = "ended")
           /\ \A f \in Fans : fan[f] = "joined" => fan'[f] = "joined"
           /\ \A f \in Fans : fan'[f] = "joined" =>
                 fan[f] = "joined" \/ \A d \in Team(f) : at[d] = "ended"
<1>1. at[b] # "ended"
  BY DEF BranchSteps, Start, RunWithBranch, RunOnRoot, BodyEnds, SleepWithBranch, CompensateInBranch,
     OpenNested, BranchReturns, JoinNested, AtCall
<1>2. ASSUME NEW d \in Branches, d # b
      PROVE  UNCHANGED <<pc[d], res[d]>> /\ (at'[d] = "ended" <=> at[d] = "ended")
  BY <1>2, OthersStay
<1>3. \/ UNCHANGED fan
      \/ \E f : fan[f] = "closed" /\ fan' = [fan EXCEPT ![f] = "open"]
      \/ \E f : Joined(f)
  BY DEF Passes, Ends, Waits
<1>4. ASSUME NEW f \in Fans
      PROVE  /\ fan[f] = "joined" => fan'[f] = "joined"
             /\ fan'[f] = "joined" => fan[f] = "joined" \/ \A d \in Team(f) : at[d] = "ended"
  BY <1>3 DEF Joined, Places
<1> QED
  BY <1>1, <1>2, <1>4

\* The fan-outs behind the branches and the handler stay joined.
LEMMA JoinsDoneStep ==
    ASSUME Places, Outcomes, Fresh, JoinsFans, Numbered, BodiesAreNew, OpenRoots, Scoped, ScheduleFree,
           ~ctxDone => JoinsDone, Next, ~ctxDone'
    PROVE  JoinsDone'
<1>0. cfg' = cfg /\ cfg \in Configs /\ \A b : Code(b)' = Code(b)
  BY ConfigStays DEF Code, Places
<1>1. CASE Report \/ Abandoned
  <2>1. /\ \A b \in Branches : pc'[b] = 1 /\ at'[b] = "idle"
        /\ next' = 1 /\ outcome' = None /\ \A f \in Fans : fan'[f] = "closed"
    BY <1>1 DEF Report, Abandoned, Gone
  <2>2. \A b \in Branches : DOMAIN Code(b) \subseteq Nat \ {0}
    BY <1>0, ConfigFields
  <2>3. DOMAIN cfg.handler \subseteq Nat \ {0}
    BY <1>0, ConfigFields
  <2>4. outcome'.kind = "none"
    BY <2>1 DEF None
  <2> QED
    BY <1>0, <2>1, <2>2, <2>3, <2>4 DEF JoinsDone
<1>2. CASE Assign \/ Wake
  <2>1. UNCHANGED <<at, pc, res, fan, next, outcome, ctxDone>>
    BY <1>2 DEF Assign, Wake, branchVars, fanVars, execVars
  <2> QED
    BY <1>0, <2>1 DEF JoinsDone
<1>3. CASE JobCancelled
  BY <1>3 DEF JobCancelled
<1>4. CASE HandlerReturns
  <2>1. UNCHANGED <<at, pc, res, fan, next, ctxDone>> /\ outcome' = Ok
    BY <1>4 DEF HandlerReturns, branchVars, fanVars
  <2>2. outcome'.kind = "ok"
    BY <2>1 DEF Ok
  <2> QED
    BY <1>0, <2>1, <2>2 DEF JoinsDone
<1>5. CASE OpenRoot
  <2> DEFINE f == cfg.handler[next]
  <2>1. UNCHANGED <<pc, res, next, ctxDone>> /\ ~ctxDone
    BY <1>5 DEF OpenRoot
  <2>2. f \in Fans
    BY <1>0, <1>5, ConfigFields DEF OpenRoot, Places
  <2>3. /\ fan[f] = "closed" /\ fan' = [fan EXCEPT ![f] = "open"] /\ UNCHANGED outcome
        /\ at' = [d \in Branches |-> IF d \in Team(f) THEN "starting" ELSE at[d]]
    BY <1>5, <2>1 DEF OpenRoot, OpenFan
  <2>4. \A d \in Team(f) : at[d] = "idle"
    BY <2>2, <2>3, ClosedIsIdle
  <2> HIDE DEF f
  <2>5. /\ \A g \in Fans : fan'[g] = "joined" <=> fan[g] = "joined"
        /\ \A d \in Branches : at'[d] = "ended" <=> at[d] = "ended"
    BY <2>2, <2>3, <2>4 DEF Places
  <2>6. \A g \in Fans : Team(g) \subseteq Branches
    BY Teams
  <2>7. /\ \A d \in Branches : \A i \in DOMAIN Code(d) : Code(d)[i].op = "fan" => Code(d)[i].fan \in Fans
        /\ \A i \in DOMAIN cfg.handler : cfg.handler[i] \in Fans
    BY <1>0, ConfigFields, CallFields
  <2> QED
    BY <1>0, <2>1, <2>3, <2>5, <2>6, <2>7 DEF JoinsDone
<1>6. ASSUME NEW f \in Fans, JoinRoot(f) PROVE JoinsDone'
  <2>1. /\ UNCHANGED <<pc, res, ctxDone, at>> /\ ~ctxDone
        /\ fan[f] = "open" /\ IsRoot(f) /\ fan' = [fan EXCEPT ![f] = "joined"]
        /\ \A b \in Team(f) : at[b] = "ended"
    BY <1>6 DEF JoinRoot, Joined, branchVars
  <2>2. next \in Nat \ {0} /\ next \in DOMAIN cfg.handler /\ f = cfg.handler[next] /\ outcome = None
    BY <2>1 DEF OpenRoots, Places
  <2>3. \/ next' = next + 1 /\ outcome' = None
        \/ next' = next /\ outcome' = FanResult(f)
    BY <1>6, <2>2 DEF JoinRoot
  <2>4. outcome'.kind = "error" =>
            next' = next /\ cfg.failFast[f] /\ \E b \in Team(f) : res[b].kind = "error"
    <3>1. None.kind = "none"
      BY DEF None
    <3> QED
      BY <2>3, <3>1, FanKinds
  <2>5. \A g \in Fans : (fan[g] = "joined" => fan'[g] = "joined") /\ (fan'[g] = "joined" => fan[g] = "joined" \/ g = f)
    BY <2>1 DEF Places
  <2>6. fan'[f] = "joined"
    BY <2>1 DEF Places
  <2>7. /\ \A d \in Branches : \A i \in DOMAIN Code(d) : Code(d)[i].op = "fan" => Code(d)[i].fan \in Fans
        /\ \A i \in DOMAIN cfg.handler : cfg.handler[i] \in Fans /\ i \in Nat
    BY <1>0, ConfigFields, CallFields
  <2>8. \A i \in DOMAIN cfg.handler : i < next' => fan'[cfg.handler[i]] = "joined"
    <3>1. \A i \in Nat : i < next' => i < next \/ i = next
      BY <2>2, <2>3
    <3> QED
      BY <2>1, <2>2, <2>5, <2>6, <2>7, <3>1 DEF JoinsDone
  <2>9. outcome'.kind = "error" =>
            /\ next' \in DOMAIN cfg.handler /\ fan'[cfg.handler[next']] = "joined"
            /\ cfg.failFast[cfg.handler[next']]
            /\ \E b \in Team(cfg.handler[next']) : res'[b].kind = "error"
    BY <2>1, <2>2, <2>4, <2>6
  <2> QED
    BY <1>0, <2>1, <2>5, <2>7, <2>8, <2>9 DEF JoinsDone
<1>7. ASSUME NEW b \in Branches, BranchSteps(b) PROVE JoinsDone'
  <2>1. UNCHANGED <<next, outcome, ctxDone>> /\ ~ctxDone
    BY <1>7, BranchFrame
  <2>2. Passes(b) \/ Ends(b) \/ Waits(b)
    BY <1>7, <2>1, BranchWork
  <2>3. /\ at[b] # "ended"
        /\ \A d \in Branches : d # b => UNCHANGED <<pc[d], res[d]>>
        /\ \A d \in Branches : d # b => (at'[d] = "ended" <=> at[d] = "ended")
        /\ \A f \in Fans : fan[f] = "joined" => fan'[f] = "joined"
        /\ \A f \in Fans : fan'[f] = "joined" => fan[f] = "joined" \/ \A d \in Team(f) : at[d] = "ended"
    BY <1>7, <2>1, <2>2, JoinsFrame
  <2>4. /\ \A d \in Branches : \A i \in DOMAIN Code(d) :
              i \in Nat /\ (Code(d)[i].op = "fan" => Code(d)[i].fan \in Fans)
        /\ \A i \in DOMAIN cfg.handler : cfg.handler[i] \in Fans
        /\ \A f \in Fans : Team(f) \subseteq Branches
    BY <1>0, ConfigFields, CallFields, Teams
  <2>5. \A f \in Fans : fan'[f] = "joined" => \A d \in Team(f) : at'[d] = "ended"
    BY <2>1, <2>3, <2>4 DEF JoinsDone
  <2>6. ASSUME NEW d \in Branches, NEW i \in DOMAIN Code(d), i < pc'[d], Code(d)[i].op = "fan"
        PROVE  fan'[Code(d)[i].fan] = "joined"
    <3>1. CASE i < pc[d]
      BY <2>1, <2>3, <2>4, <2>6, <3>1 DEF JoinsDone
    <3>2. CASE ~(i < pc[d])
      <4>1. d = b
        BY <2>3, <2>6, <3>2
      <4>2. Passes(b) /\ i = pc[b]
        BY <2>2, <2>4, <2>6, <3>2, <4>1 DEF Passes, Ends, Waits, Places
      <4>3. Joined(Code(b)[i].fan)
        BY <2>6, <4>1, <4>2 DEF Passes
      <4> QED
        BY <2>4, <2>6, <4>1, <4>3 DEF Joined, Places
    <3> QED
      BY <3>1, <3>2
  <2>7. ASSUME NEW d \in Branches, at'[d] = "ended", pc'[d] \in DOMAIN Code(d)
        PROVE  /\ Code(d)[pc'[d]].op # "compensate"
               /\ Code(d)[pc'[d]].op = "fan" => fan'[Code(d)[pc'[d]].fan] = "joined"
    <3>1. CASE d # b
      BY <2>1, <2>3, <2>4, <2>7, <3>1 DEF JoinsDone
    <3>2. CASE d = b
      <4>1. Ends(b) /\ UNCHANGED pc
        BY <2>2, <2>7, <3>2 DEF Passes, Ends, Waits
      <4>2. pc[b] \in DOMAIN Code(b) /\ ~(pc[b] > Len(Code(b)))
        BY <1>0, <2>7, <3>2, <4>1, ConfigFields
      <4>3. Code(b)[pc[b]].op \in {"run", "sleep"} \/ (Code(b)[pc[b]].op = "fan" /\ Joined(Code(b)[pc[b]].fan))
        BY <4>1, <4>2 DEF Ends
      <4> QED
        BY <2>4, <3>2, <4>1, <4>2, <4>3 DEF Joined, Places
    <3> QED
      BY <3>1, <3>2
  <2>8. outcome'.kind = "error" =>
            /\ next' \in DOMAIN cfg.handler /\ fan'[cfg.handler[next']] = "joined"
            /\ cfg.failFast[cfg.handler[next']]
            /\ \E d \in Team(cfg.handler[next']) : res'[d].kind = "error"
    <3> SUFFICES ASSUME outcome'.kind = "error"
                 PROVE  /\ next' \in DOMAIN cfg.handler /\ fan'[cfg.handler[next']] = "joined"
                        /\ cfg.failFast[cfg.handler[next']]
                        /\ \E d \in Team(cfg.handler[next']) : res'[d].kind = "error"
      OBVIOUS
    <3>1. /\ next \in DOMAIN cfg.handler /\ fan[cfg.handler[next]] = "joined"
          /\ cfg.failFast[cfg.handler[next]]
          /\ \E d \in Team(cfg.handler[next]) : res[d].kind = "error"
      BY <2>1 DEF JoinsDone
    <3>2. \A d \in Team(cfg.handler[next]) : d \in Branches /\ at[d] = "ended" /\ d # b
      BY <2>1, <2>3, <2>4, <3>1 DEF JoinsDone
    <3> QED
      BY <2>1, <2>3, <2>4, <3>1, <3>2
  <2>9. \A i \in DOMAIN cfg.handler : i < next' => fan'[cfg.handler[i]] = "joined"
    BY <2>1, <2>3, <2>4 DEF JoinsDone
  <2> QED
    BY <1>0, <2>5, <2>6, <2>7, <2>8, <2>9 DEF JoinsDone
<1> QED
  BY <1>1, <1>2, <1>3, <1>4, <1>5, <1>6, <1>7 DEF Next, EngineSteps, HandlerSteps

\* Compensations are registered by the calls of the branches.
LEMMA CompsStep ==
    ASSUME Places, comps \in Seq(Branches \X Nat), Next PROVE comps' \in Seq(Branches \X Nat)
<1>1. CASE Report \/ Abandoned
  <2>1. comps' = <<>>
    BY <1>1 DEF Report, Abandoned, Gone
  <2> QED
    BY <2>1
<1>2. CASE Assign \/ Wake \/ JobCancelled \/ HandlerSteps
  BY <1>2 DEF Assign, Wake, JobCancelled, HandlerSteps, OpenRoot, HandlerReturns, JoinRoot, execVars
<1>3. ASSUME NEW b \in Branches, BranchSteps(b) PROVE comps' \in Seq(Branches \X Nat)
  <2>1. CASE CompensateInBranch(b)
    <3>1. <<b, pc[b] - 1>> \in Branches \X Nat
      BY DEF Places
    <3> QED
      BY <2>1, <3>1 DEF CompensateInBranch
  <2>2. CASE ~CompensateInBranch(b)
    BY <1>3, <2>2 DEF BranchSteps, Start, RunWithBranch, RunOnRoot, BodyEnds, SleepWithBranch,
       OpenNested, BranchReturns, JoinNested, ContextError, execVars
  <2> QED
    BY <2>1, <2>2
<1> QED
  BY <1>1, <1>2, <1>3 DEF Next, EngineSteps

LEMMA RegisteredStep ==
    ASSUME Places, JoinsFans, Numbered, BodiesAreNew, Scoped, ScheduleFree, comps \in Seq(Branches \X Nat),
           ~ctxDone => Registered, Next, ~ctxDone'
    PROVE  Registered'
<1>0. cfg' = cfg /\ cfg \in Configs /\ \A b : Code(b)' = Code(b)
  BY ConfigStays DEF Code, Places
<1>1. CASE Report \/ Abandoned
  <2>1. \A b \in Branches : pc'[b] = 1
    BY <1>1 DEF Report, Abandoned, Gone
  <2>2. \A b \in Branches : DOMAIN Code(b) \subseteq Nat \ {0}
    BY <1>0, ConfigFields
  <2> QED
    BY <1>0, <2>1, <2>2 DEF Registered
<1>2. CASE Assign \/ Wake \/ HandlerSteps
  <2>1. UNCHANGED <<pc, comps, ctxDone>>
    BY <1>2 DEF Assign, Wake, HandlerSteps, OpenRoot, HandlerReturns, JoinRoot, execVars, branchVars
  <2> QED
    BY <1>0, <2>1 DEF Registered
<1>3. CASE JobCancelled
  BY <1>3 DEF JobCancelled
<1>4. ASSUME NEW b \in Branches, BranchSteps(b) PROVE Registered'
  <2>1. UNCHANGED ctxDone /\ ~ctxDone
    BY <1>4, BranchFrame
  <2>2. Passes(b) \/ Ends(b) \/ Waits(b)
    BY <1>4, <2>1, BranchWork
  <2>3. UNCHANGED comps \/ comps' = Append(comps, <<b, pc[b] - 1>>)
    BY <2>2 DEF Passes, Ends, Waits
  <2>4. \A k \in DOMAIN comps : k \in DOMAIN comps' /\ comps'[k] = comps[k]
    <3>1. <<b, pc[b] - 1>> \in Branches \X Nat
      BY DEF Places
    <3>2. CASE UNCHANGED comps
      BY <3>2
    <3>3. CASE comps' = Append(comps, <<b, pc[b] - 1>>)
      BY <3>1, <3>3
    <3> QED
      BY <2>3, <3>2, <3>3
  <2>5. ASSUME NEW d \in Branches, NEW i \in DOMAIN Code(d), i < pc'[d], Code(d)[i].op = "compensate"
        PROVE  \E k \in DOMAIN comps' : comps'[k] = <<d, i - 1>>
    <3>0. i \in Nat
      BY <1>0, ConfigFields
    <3>1. CASE i < pc[d]
      BY <2>1, <2>4, <2>5, <3>1 DEF Registered
    <3>2. CASE ~(i < pc[d])
      <4>1. d = b
        BY <1>4, <2>5, <3>2, OthersStay
      <4>2. Passes(b) /\ i = pc[b]
        BY <2>2, <2>5, <3>0, <3>2, <4>1 DEF Passes, Ends, Waits, Places
      <4>3. comps' = Append(comps, <<b, pc[b] - 1>>)
        BY <2>5, <4>1, <4>2 DEF Passes
      <4>4. Len(comps) + 1 \in DOMAIN comps' /\ comps'[Len(comps) + 1] = <<d, i - 1>>
        BY <4>1, <4>2, <4>3
      <4> QED
        BY <4>4
    <3> QED
      BY <3>1, <3>2
  <2> QED
    BY <1>0, <2>5 DEF Registered
<1> QED
  BY <1>1, <1>2, <1>3, <1>4 DEF Next, EngineSteps

\* When the handler ends with an error, the last execution has opened and joined every
\* fan-out that some execution opened.
LEMMA AllJoined ==
    ASSUME NEW S, NEW F, NEW O, NEW L, Past(S, F, O, L), Present(S, F, O), Places, JoinsDone,
           ~ctxDone, outcome.kind = "error", NEW f \in O
    PROVE  fan[f] = "joined"
<1> SUFFICES ASSUME fan[f] # "joined" PROVE FALSE
  OBVIOUS
<1>0. /\ cfg \in Configs /\ O \subseteq Fans /\ L \in [Fans -> Nat] /\ next \in Nat \ {0}
      /\ \A g \in O : WasOpened(S, F, O, L, g)
  BY DEF Past, Places
<1> DEFINE R == {L[g] : g \in {h \in O : fan[h] # "joined"}}
<1>1. R \in SUBSET Nat /\ R # {}
  BY <1>0
<1>2. PICK m \in R : \A k \in R : m <= k
  BY <1>1, LeastElement
<1>3. PICK g \in O : fan[g] # "joined" /\ L[g] = m
  BY <1>2
<1>4. ASSUME NEW h \in O, L[h] < L[g] PROVE fan[h] = "joined"
  <2>1. fan[h] # "joined" => L[h] \in R
    BY <1>4
  <2>2. L[h] \in Nat /\ L[g] \in Nat
    BY <1>0
  <2> HIDE DEF R
  <2> QED
    BY <1>2, <1>3, <1>4, <2>1, <2>2
<1>5. ASSUME NEW h \in DOMAIN cfg.handler, cfg.handler[h] = g,
             \A i \in 1 .. (h - 1) : FanPassed(S, F, cfg.handler[i])
      PROVE  FALSE
  <2>1. /\ next \in DOMAIN cfg.handler /\ fan[cfg.handler[next]] = "joined"
        /\ cfg.failFast[cfg.handler[next]] /\ cfg.handler[next] \in Fans
        /\ \E b \in Team(cfg.handler[next]) : res[b].kind = "error"
    BY <1>0, ConfigFields DEF JoinsDone
  <2>2. ~(h < next)
    BY <1>3, <1>5 DEF JoinsDone
  <2>3. h # next
    BY <1>3, <1>5, <2>1
  <2>4. next \in 1 .. (h - 1)
    BY <1>0, <2>2, <2>3, ConfigFields
  <2>5. PICK b \in Team(cfg.handler[next]) : res[b].kind = "error"
    BY <2>1
  <2>6. b \in Branches /\ at[b] = "ended"
    BY <2>1, <2>5, Teams DEF JoinsDone
  <2>7. pc[b] \in DOMAIN Code(b) /\ <<b, pc[b]>> \notin S
    BY <2>5, <2>6 DEF Present, EndsAgree
  <2>8. Finished(S, b)
    BY <1>5, <2>1, <2>4 DEF FanPassed
  <2> QED
    BY <2>7, <2>8 DEF Finished
<1>6. ASSUME NEW b \in Branches, NEW k \in DOMAIN Code(b), Code(b)[k].op = "fan", Code(b)[k].fan = g,
             FanOf(b) \in O, L[FanOf(b)] < L[g], UpTo(S, b, k)
      PROVE  FALSE
  <2>1. at[b] = "ended" /\ pc[b] \in Nat \ {0}
    BY <1>0, <1>4, <1>6, OneFan DEF JoinsDone, Places
  <2>2. k \in Nat /\ k <= Len(Code(b)) /\ Len(Code(b)) \in Nat
    BY <1>0, ConfigFields
  <2>3. ~(pc[b] < k)
    <3> SUFFICES ASSUME pc[b] < k PROVE FALSE
      OBVIOUS
    <3>1. <<b, pc[b]>> \in S
      BY <1>6, <2>1, <2>2 DEF UpTo
    <3>2. res[b].kind = "ok" => pc[b] > Len(Code(b))
      BY <2>1 DEF Present, EndsAgree
    <3>3. res[b].kind # "ok" => <<b, pc[b]>> \notin S
      BY <2>1 DEF Present, EndsAgree
    <3> QED
      BY <2>1, <2>2, <3>1, <3>2, <3>3
  <2>4. pc[b] # k
    BY <1>3, <1>6, <2>1 DEF JoinsDone
  <2>5. ~(k < pc[b])
    BY <1>3, <1>6 DEF JoinsDone
  <2> QED
    BY <2>1, <2>2, <2>3, <2>4, <2>5
<1> QED
  BY <1>0, <1>3, <1>5, <1>6 DEF WasOpened

\* A run that fails has registered the compensation of every step that is stored.
LEMMA UndoneStep ==
    ASSUME NEW S, NEW F, NEW O, NEW L, Past(S, F, O, L), Present(S, F, O),
           Places, Outcomes, RowsMatch, ~ctxDone => JoinsDone /\ Registered,
           FailedRunIsUndone, Scoped, ScheduleFree, Next
    PROVE  FailedRunIsUndone'
<1>0. cfg' = cfg /\ cfg \in Configs /\ (\A b : Code(b)' = Code(b)) /\ Scoped' /\ ScheduleFree'
  BY ConfigStays DEF Code, Places, ScheduleFree
<1> SUFFICES ASSUME status' = "failed", NEW c \in Compensated' PROVE c \in undone'
  BY DEF FailedRunIsUndone
<1>1. CASE UNCHANGED <<status, rows, undone>>
  <2>1. c \in Compensated
    BY <1>0, <1>1 DEF Compensated
  <2> QED
    BY <1>0, <1>1, <2>1 DEF FailedRunIsUndone
<1>2. CASE Report
  <2>1. status = "running" /\ outcome # None /\ ~ctxDone /\ Gone(Len(executed))
    BY <1>2 DEF Report
  <2>2. outcome.kind = "error"
    BY <1>2 DEF Report, Outcomes, None, Ok
  <2>3. undone' = {comps[i] : i \in DOMAIN comps}
    BY <1>2, <2>2 DEF Report
  <2>4. PICK r \in rows' : r[2] = c
    BY DEF Compensated
  <2>5. c # Root /\ c[2] < Len(Code(c[1])) /\ Code(c[1])[c[2] + 1].op = "compensate"
    BY <1>0 DEF Compensated
  <2>6. c \in S
    <3>1. r \in rows \/ \E i \in 1 .. Len(executed) : r = executed[i]
      BY <2>1, <2>4 DEF Gone
    <3>2. 1 .. Len(executed) = DOMAIN executed
      BY DEF RowsMatch
    <3> QED
      BY <2>4, <2>5, <3>1, <3>2 DEF Present, RowsPassed
  <2>7. PICK b \in Branches, j \in Nat : c = <<b, j>>
    BY <2>6 DEF Past
  <2>8. WasPassed(S, F, O, b, j)
    BY <2>6, <2>7 DEF Past
  <2>9. /\ j \in DOMAIN Code(b) /\ UpTo(S, b, j) /\ FanOf(b) \in O
        /\ j \in Nat \ {0} /\ DOMAIN Code(b) = 1 .. Len(Code(b)) /\ Len(Code(b)) \in Nat
    BY <1>0, <2>8, ConfigFields DEF WasPassed
  <2>10. j < Len(Code(b)) /\ Code(b)[j + 1].op = "compensate"
    BY <2>5, <2>7
  <2>11. fan[FanOf(b)] = "joined"
    BY <2>1, <2>2, <2>9, AllJoined
  <2>12. at[b] = "ended" /\ pc[b] \in Nat \ {0}
    BY <2>1, <2>11, OneFan DEF JoinsDone, Places
  <2>13. ~(pc[b] <= j)
    <3> SUFFICES ASSUME pc[b] <= j PROVE FALSE
      OBVIOUS
    <3>1. <<b, pc[b]>> \in S
      BY <2>6, <2>7, <2>9, <2>12 DEF UpTo
    <3>2. res[b].kind = "ok" => pc[b] > Len(Code(b))
      BY <2>1, <2>12 DEF Present, EndsAgree
    <3>3. res[b].kind # "ok" => <<b, pc[b]>> \notin S
      BY <2>1, <2>12 DEF Present, EndsAgree
    <3> QED
      BY <2>9, <2>12, <3>1, <3>2, <3>3
  <2>14. pc[b] # j + 1
    BY <2>1, <2>9, <2>10, <2>12 DEF JoinsDone
  <2>15. j + 1 < pc[b] /\ j + 1 \in DOMAIN Code(b) /\ (j + 1) - 1 = j
    BY <2>9, <2>10, <2>12, <2>13, <2>14
  <2>16. \E k \in DOMAIN comps : comps[k] = <<b, (j + 1) - 1>>
    BY <2>1, <2>10, <2>15 DEF Registered
  <2> QED
    BY <2>3, <2>7, <2>15, <2>16
<1>3. CASE Assign \/ Wake \/ Abandoned
  BY <1>3 DEF Assign, Wake, Abandoned
<1>4. CASE JobCancelled \/ HandlerSteps
  BY <1>1, <1>4 DEF JobCancelled, HandlerSteps, OpenRoot, HandlerReturns, JoinRoot, engine, history
<1>5. ASSUME NEW b \in Branches, BranchSteps(b) PROVE UNCHANGED <<status, rows, undone>>
  BY <1>5 DEF BranchSteps, Start, RunWithBranch, RunOnRoot, BodyEnds, SleepWithBranch, CompensateInBranch,
     OpenNested, BranchReturns, JoinNested, engine, history
<1> QED
  BY <1>1, <1>2, <1>3, <1>4, <1>5 DEF Next, EngineSteps

\* A run starts with nothing done.
LEMMA UndoneInit ==
    ASSUME Init PROVE UndoneInv
<1>1. StepsInv /\ Places
  BY StepsInit DEF StepsInv
<1>2. Fresh /\ OpenRoots /\ comps \in Seq(Branches \X Nat) /\ FailedRunIsUndone
  BY DEF Init, Fresh, OpenRoots, FailedRunIsUndone
<1>3. \A b \in Branches : DOMAIN Code(b) \subseteq Nat \ {0}
  BY <1>1, ConfigFields DEF Places
<1>4. DOMAIN cfg.handler \subseteq Nat \ {0}
  BY <1>1, ConfigFields DEF Places
<1>5. JoinsDone /\ Registered
  BY <1>3, <1>4 DEF Init, JoinsDone, Registered, None
<1>6. PICK L : L = [f \in Fans |-> 0]
  OBVIOUS
<1>7. Past({}, {}, {}, L)
  BY <1>6 DEF Past
<1>8. Present({}, {}, {})
  BY DEF Init, Present, RowsPassed, Reached, EndsAgree, HandlerPassed, UpTo
<1> QED
  BY <1>1, <1>2, <1>5, <1>7, <1>8 DEF UndoneInv

\* Every step keeps the invariant.
LEMMA UndoneInvStep ==
    ASSUME ScopesDiffer, UndoneInv, [Next]_vars PROVE UndoneInv'
<1>0. /\ cfg' = cfg /\ Scoped' = Scoped /\ ScheduleFree' = ScheduleFree /\ RootsApart' = RootsApart
      /\ \A b : Code(b)' = Code(b)
  <2>1. cfg' = cfg /\ Scoped' = Scoped
    BY ConfigStays
  <2> QED
    BY <2>1 DEF RootsApart, ScheduleFree, IsRoot, Code
<1>1. StepsInv'
  BY StepsStep DEF UndoneInv
<1>2. CASE Next
  <2>1. Places /\ Outcomes /\ Fresh /\ comps \in Seq(Branches \X Nat)
    BY DEF UndoneInv, StepsInv
  <2>2. Fresh' /\ comps' \in Seq(Branches \X Nat)
    BY <1>2, <2>1, FreshStep, CompsStep
  <2>3. RootsApart => OpenRoots'
    BY <1>2, <2>1, OpenRootsStep DEF UndoneInv
  <2>4. ASSUME Scoped, ScheduleFree, RootsApart
        PROVE  /\ ~ctxDone' => JoinsDone' /\ Registered'
               /\ \E S, F, O, L : Past(S, F, O, L)' /\ Present(S, F, O)'
               /\ FailedRunIsUndone'
    <3>1. /\ JoinsFans /\ Numbered /\ BodiesAreNew /\ RowsMatch /\ OpenRoots /\ FailedRunIsUndone
          /\ ~ctxDone => JoinsDone /\ Registered
          /\ \E S, F, O, L : Past(S, F, O, L) /\ Present(S, F, O)
      BY <2>4 DEF UndoneInv, StepsInv
    <3>2. PICK S, F, O, L : Past(S, F, O, L) /\ Present(S, F, O)
      BY <3>1
    <3>3. ~ctxDone' => JoinsDone'
      BY <1>2, <2>1, <2>4, <3>1, JoinsDoneStep
    <3>4. ~ctxDone' => Registered'
      BY <1>2, <2>1, <2>4, <3>1, RegisteredStep
    <3>5. \E S1, F1, O1, L1 : Past(S1, F1, O1, L1)' /\ Present(S1, F1, O1)'
      BY <1>2, <2>1, <2>4, <3>1, <3>2, PastStep
    <3>6. FailedRunIsUndone'
      BY <1>2, <2>1, <2>4, <3>1, <3>2, UndoneStep
    <3> QED
      BY <3>3, <3>4, <3>5, <3>6
  <2> QED
    BY <1>0, <1>1, <2>2, <2>3, <2>4 DEF UndoneInv
<1>3. CASE UNCHANGED vars
  <2>0. UNCHANGED <<rows, status, memo, next, outcome, ctxDone, executed, comps, fan, at, pc, count, cur, res,
                    undone>>
    BY <1>3 DEF vars, engine, execVars, fanVars, branchVars, history
  <2>1. Fresh' /\ comps' \in Seq(Branches \X Nat)
    BY <2>0 DEF UndoneInv, Fresh, None
  <2>2. RootsApart => OpenRoots'
    BY <1>0, <2>0 DEF UndoneInv, OpenRoots, IsRoot, None
  <2>3. ASSUME ~ctxDone => JoinsDone /\ Registered PROVE ~ctxDone' => JoinsDone' /\ Registered'
    BY <1>0, <2>0, <2>3 DEF JoinsDone, Registered
  <2>4. ASSUME FailedRunIsUndone PROVE FailedRunIsUndone'
    BY <1>0, <2>0, <2>4 DEF FailedRunIsUndone, Compensated
  <2>5. ASSUME NEW S, NEW F, NEW O, NEW L, Past(S, F, O, L), Present(S, F, O)
        PROVE  Past(S, F, O, L)' /\ Present(S, F, O)'
    <3>1. /\ \A f \in Fans : fan'[f] # "closed" => f \in O
          /\ ~ctxDone' => \A i \in 1 .. (next' - 1) : FanPassed(S, F, cfg.handler[i])
      BY <2>0, <2>5 DEF Present, Reached, HandlerPassed
    <3>2. RowsPassed(S)'
      BY <2>0, <2>5 DEF Present, RowsPassed
    <3> QED
      BY <1>0, <2>0, <2>5, <3>1, <3>2, NoneMoves
  <2>6. ASSUME \E S, F, O, L : Past(S, F, O, L) /\ Present(S, F, O)
        PROVE  \E S, F, O, L : Past(S, F, O, L)' /\ Present(S, F, O)'
    BY <2>5, <2>6
  <2> QED
    BY <1>0, <1>1, <2>1, <2>2, <2>3, <2>4, <2>6 DEF UndoneInv
<1> QED
  BY <1>2, <1>3

\* For fan-outs nested to any depth, if those of one scope have different names: a run
\* that fails has undone every step that is stored and has a compensation, whichever
\* execution completed it (CompensateInBranch).  What an execution has passed every
\* later one passes again before it can fail: Past is that history, Present what ties
\* the execution under way to it.
THEOREM FailedRunUndone ==
    ASSUME ScopesDiffer PROVE Spec => [](RootsApart => FailedRunIsUndone)
<1>1. Init => UndoneInv
  BY UndoneInit
<1>2. UndoneInv /\ [Next]_vars => UndoneInv'
  BY UndoneInvStep
<1>3. UndoneInv => (RootsApart => FailedRunIsUndone)
  BY DEF UndoneInv, FailedRunIsUndone
<1> QED
  BY <1>1, <1>2, <1>3, PTL DEF Spec

-----------------------------------------------------------------------------
(* The warning about steps on the enclosing context. *)

\* A fan-out is opened by the branches of one place only.
FansApart ==
    \A b, c \in Branches : \A i \in DOMAIN Code(b) : \A j \in DOMAIN Code(c) :
        Code(b)[i].op = "fan" /\ Code(c)[j].op = "fan" /\ Code(b)[i].fan = Code(c)[j].fan => b = c

\* The prefix of a branch is not empty: its ids do not look like the handler's.
ScopesApart == \A b \in Branches : Scope[b] # Root

\* A fan-out is joined when its branches have ended, and one that is open in a
\* branch has this branch waiting for it.
FanTree ==
    /\ \A f \in Fans : fan[f] = "joined" => \A b \in Team(f) : at[b] = "ended"
    /\ \A f \in Fans : fan[f] = "open" /\ ~IsRoot(f) =>
          \E b \in Branches : at[b] = "joining" /\ Code(b)[pc[b]].fan = f
    /\ \A f \in Fans : fan[f] # "closed" /\ ~IsRoot(f) =>
          \E b \in Branches : \E j \in DOMAIN Code(b) :
              Code(b)[j].op = "fan" /\ Code(b)[j].fan = f /\ fan[FanOf(b)] # "closed"

\* fanOutDepth is the number of the fan-outs that are open.
OpenFans == {f \in Fans : fan[f] = "open"}
DepthCounts == IsFiniteSet(OpenFans) /\ depth = Cardinality(OpenFans)

\* The claims counted since a fan-out of the handler was opened are those of its
\* branches.
ClaimsCount ==
    /\ claims \in Nat /\ claimsBefore \in [Fans -> Nat] /\ DOMAIN myDepth = Fans
    /\ \A c \in claimed : c[2][1] \in Branches /\ fan[FanOf(c[2][1])] # "closed"
    /\ \A f \in Fans : <<f, "claims">> \in warned => fan[f] = "joined"
    /\ \A f \in Fans : fan[f] = "open" /\ IsRoot(f) =>
          /\ myDepth[f] = 1 /\ claimsBefore[f] <= claims
          /\ claimsBefore[f] < claims <=> RootClaim(f)

\* The inductive invariant for the warning.
WarnsInv ==
    /\ Places /\ Outcomes /\ JoinsFans
    /\ TwoLevels /\ FansApart =>
          OpenRoots /\ FanTree /\ DepthCounts /\ ClaimsCount /\ WarnsTheRightFanOut

\* A branch at work is in a fan-out of the handler that is open.
LEMMA UnderRoot ==
    ASSUME Places, JoinsFans, FanTree, TwoLevels,
           NEW b \in Branches, at[b] \notin {"idle", "ended"}
    PROVE  \E r \in Fans : IsRoot(r) /\ fan[r] = "open" /\ InFan(r, b)
<1>1. ASSUME NEW c \in Branches, at[c] \notin {"idle", "ended"}
      PROVE  FanOf(c) \in Fans /\ c \in Team(FanOf(c)) /\ fan[FanOf(c)] = "open"
  BY <1>1, OneFan DEF Places, FanTree
<1>2. CASE IsRoot(FanOf(b))
  BY <1>1, <1>2 DEF InFan
<1>3. CASE ~IsRoot(FanOf(b))
  <2>1. PICK c \in Branches : at[c] = "joining" /\ Code(c)[pc[c]].fan = FanOf(b)
    BY <1>1, <1>3 DEF FanTree
  <2>2. pc[c] \in DOMAIN Code(c) /\ Code(c)[pc[c]].op = "fan"
    BY <2>1 DEF JoinsFans
  <2>3. IsRoot(FanOf(c))
    <3> SUFFICES ASSUME ~IsRoot(FanOf(c)) PROVE FALSE
      OBVIOUS
    <3>1. PICK d \in Branches : at[d] = "joining" /\ Code(d)[pc[d]].fan = FanOf(c)
      BY <1>1, <2>1 DEF FanTree
    <3>2. pc[d] \in DOMAIN Code(d) /\ Code(d)[pc[d]].op = "fan"
      BY <3>1 DEF JoinsFans
    <3> QED
      BY <1>1, <2>1, <2>2, <3>1, <3>2 DEF TwoLevels
  <2>4. InFan(FanOf(c), b)
    BY <1>1, <2>1, <2>2 DEF InFan
  <2> QED
    BY <1>1, <2>1, <2>3, <2>4
<1> QED
  BY <1>2, <1>3

\* A branch is in one fan-out of the handler.
LEMMA OneRoot ==
    ASSUME cfg \in Configs, RootsApart, FansApart, NEW b \in Branches,
           NEW f \in Fans, IsRoot(f), InFan(f, b), NEW r \in Fans, IsRoot(r), InFan(r, b)
    PROVE  f = r
<1>1. ASSUME NEW g \in Fans, NEW c \in Team(g), NEW j \in DOMAIN Code(c), Code(c)[j].op = "fan",
             b \in Team(Code(c)[j].fan)
      PROVE  c \in Branches /\ FanOf(c) = g /\ Code(c)[j].fan = FanOf(b) /\ ~IsRoot(FanOf(b))
  <2>1. c \in Branches
    BY <1>1, Teams
  <2>2. Code(c)[j] \in Calls
    BY <1>1, <2>1, ConfigFields
  <2>3. Code(c)[j].fan \in Fans
    BY <1>1, <2>2, CallFields
  <2> QED
    BY <1>1, <2>1, <2>3, OneFan DEF RootsApart
<1>2. CASE b \in Team(f)
  BY <1>1, <1>2, OneFan DEF InFan
<1>3. CASE b \in Team(r)
  BY <1>1, <1>3, OneFan DEF InFan
<1>4. CASE b \notin Team(f) /\ b \notin Team(r)
  <2>1. PICK c \in Team(f) : \E j \in DOMAIN Code(c) : Code(c)[j].op = "fan" /\ b \in Team(Code(c)[j].fan)
    BY <1>4 DEF InFan
  <2>2. PICK d \in Team(r) : \E j \in DOMAIN Code(d) : Code(d)[j].op = "fan" /\ b \in Team(Code(d)[j].fan)
    BY <1>4 DEF InFan
  <2>3. PICK i \in DOMAIN Code(c) : Code(c)[i].op = "fan" /\ b \in Team(Code(c)[i].fan)
    BY <2>1
  <2>4. PICK j \in DOMAIN Code(d) : Code(d)[j].op = "fan" /\ b \in Team(Code(d)[j].fan)
    BY <2>2
  <2>5. c \in Branches /\ d \in Branches /\ c = d /\ FanOf(c) = f /\ FanOf(d) = r
    BY <1>1, <2>3, <2>4 DEF FansApart
  <2> QED
    BY <2>5
<1> QED
  BY <1>2, <1>3, <1>4

\* So every fan-out of the handler that a branch at work is in is open.
LEMMA InOpenFan ==
    ASSUME Places, JoinsFans, FanTree, TwoLevels, FansApart,
           NEW b \in Branches, at[b] \notin {"idle", "ended"},
           NEW f \in Fans, IsRoot(f), InFan(f, b)
    PROVE  fan[f] = "open"
BY UnderRoot, OneRoot DEF Places, TwoLevels

\* When the handler is about to open a fan-out none is open.
LEMMA NoneOpen ==
    ASSUME Places, JoinsFans, FanTree, TwoLevels, OpenRoots, fan[cfg.handler[next]] # "open"
    PROVE  OpenFans = {}
<1>1. ASSUME NEW r \in Fans, fan[r] = "open", IsRoot(r) PROVE FALSE
  BY <1>1 DEF OpenRoots
<1> SUFFICES ASSUME NEW f \in Fans, fan[f] = "open" PROVE FALSE
  BY DEF OpenFans
<1>2. PICK b \in Branches : at[b] = "joining"
  BY <1>1 DEF FanTree
<1>3. PICK r \in Fans : IsRoot(r) /\ fan[r] = "open"
  BY <1>2, UnderRoot
<1> QED
  BY <1>1, <1>3

\* What stays when no fan-out is opened or joined.
counters == <<fan, depth, myDepth, claimsBefore, warned>>

\* A step of a branch claims an id for itself, opens a fan-out or joins one.
LEMMA BranchClaims ==
    ASSUME Places, JoinsFans, NEW b \in Branches, BranchSteps(b)
    PROVE  /\ at[b] \notin {"idle", "ended"}
           /\ \/ /\ UNCHANGED <<counters, claims>> /\ at[b] # "joining"
                 /\ \/ UNCHANGED claimed
                    \/ \E id : id[1] = Scope[b] /\ claimed' = claimed \cup {<<id, Call(b)>>}
              \/ /\ UNCHANGED counters /\ at[b] # "joining"
                 /\ claims' = IF depth > 0 THEN claims + 1 ELSE claims
                 /\ \E id : id[1] = Root /\ claimed' = claimed \cup {<<id, Call(b)>>}
              \/ /\ UNCHANGED <<claims, claimed, pc>> /\ AtCall(b, "fan")
                 /\ fan[Code(b)[pc[b]].fan] = "closed" /\ OpenFan(Code(b)[pc[b]].fan)
                 /\ at'[b] = "joining"
              \/ /\ UNCHANGED <<claims, claimed, myDepth, claimsBefore>> /\ at[b] = "joining"
                 /\ Joined(Code(b)[pc[b]].fan)
<1>1. CASE Start(b) \/ BranchReturns(b) \/ BodyEnds(b) \/ CompensateInBranch(b)
  BY <1>1 DEF Start, BranchReturns, BodyEnds, CompensateInBranch, AtCall, execVars, fanVars, history, counters
<1>2. ASSUME at[b] = "running", ContextError(b), UNCHANGED <<fan, myDepth, claimsBefore, warned>>
      PROVE  UNCHANGED <<counters, claims, claimed>>
  BY <1>2 DEF ContextError, execVars, counters
<1>3. BranchStepId(b)[1] = Scope[b] /\ RootStepId(b)[1] = Root
  BY DEF BranchStepId, RootStepId
<1>4. CASE RunWithBranch(b)
  <2>1. at[b] = "running" /\ UNCHANGED <<fan, myDepth, claimsBefore, warned>>
    BY <1>4 DEF RunWithBranch, AtCall
  <2>2. CASE ContextError(b)
    BY <1>2, <2>1, <2>2
  <2>3. CASE ~ContextError(b)
    <3>1. claimed' = claimed \cup {<<BranchStepId(b), Call(b)>>} /\ UNCHANGED <<depth, claims>>
      BY <1>4, <2>3 DEF RunWithBranch, RunOrReplay, execVars
    <3> QED
      BY <1>3, <2>1, <3>1 DEF counters
  <2> QED
    BY <2>2, <2>3
<1>5. CASE SleepWithBranch(b)
  <2>1. at[b] = "running" /\ UNCHANGED <<fan, myDepth, claimsBefore, warned>>
    BY <1>5 DEF SleepWithBranch, AtCall
  <2>2. CASE ContextError(b)
    BY <1>2, <2>1, <2>2
  <2>3. CASE ~ContextError(b)
    <3>1. claimed' = claimed \cup {<<BranchStepId(b), Call(b)>>} /\ UNCHANGED <<depth, claims>>
      BY <1>5, <2>3 DEF SleepWithBranch, execVars
    <3> QED
      BY <1>3, <2>1, <3>1 DEF counters
  <2> QED
    BY <2>2, <2>3
<1>6. CASE RunOnRoot(b)
  <2>1. at[b] = "running" /\ UNCHANGED <<fan, myDepth, claimsBefore, warned>>
    BY <1>6 DEF RunOnRoot, AtCall
  <2>2. CASE ContextError(b)
    BY <1>2, <2>1, <2>2
  <2>3. CASE ~ContextError(b)
    <3>1. /\ claimed' = claimed \cup {<<RootStepId(b), Call(b)>>} /\ UNCHANGED depth
          /\ claims' = IF depth > 0 THEN claims + 1 ELSE claims
      BY <1>6, <2>3 DEF RunOnRoot, RunOrReplay
    <3> QED
      BY <1>3, <2>1, <3>1 DEF counters
  <2> QED
    BY <2>2, <2>3
<1>7. CASE OpenNested(b)
  <2>1. at[b] = "running" /\ AtCall(b, "fan") /\ UNCHANGED <<claims, claimed, pc>>
    BY <1>7 DEF OpenNested, AtCall, history
  <2>2. CASE ctxDone
    BY <1>7, <2>1, <2>2 DEF OpenNested, counters
  <2>3. CASE ~ctxDone
    BY <1>7, <2>1, <2>3 DEF OpenNested
  <2> QED
    BY <2>2, <2>3
<1>8. CASE JoinNested(b)
  BY <1>8 DEF JoinNested, history
<1> QED
  BY <1>1, <1>4, <1>5, <1>6, <1>7, <1>8 DEF BranchSteps

\* The fan-out of a call.
LEMMA FanOfCall ==
    ASSUME Places, NEW b \in Branches, AtCall(b, "fan") \/ (at[b] = "joining" /\ JoinsFans)
    PROVE  /\ pc[b] \in DOMAIN Code(b) /\ Code(b)[pc[b]].op = "fan" /\ Code(b)[pc[b]].fan \in Fans
           /\ RootsApart => ~IsRoot(Code(b)[pc[b]].fan)
<1>1. pc[b] \in DOMAIN Code(b) /\ Code(b)[pc[b]].op = "fan"
  BY ConfigFields DEF Places, AtCall, JoinsFans
<1>2. Code(b)[pc[b]] \in Calls
  BY <1>1, ConfigFields DEF Places
<1> QED
  BY <1>1, <1>2, CallFields DEF RootsApart

\* What the steps outside the branches do to fan-outs and claims.
LEMMA OtherClaims ==
    ASSUME Places, Next, ~(\E b \in Branches : BranchSteps(b))
    PROVE  \/ UNCHANGED <<counters, claims, claimed, at, pc>> /\ outcome' \in {outcome, Ok, Failed}
              /\ (outcome' = Ok => outcome \in {None, Ok})
           \/ \E n : Gone(n)
           \/ /\ outcome = None /\ UNCHANGED <<claims, claimed, pc, outcome>>
              /\ next \in DOMAIN cfg.handler /\ cfg.handler[next] \in Fans
              /\ fan[cfg.handler[next]] = "closed" /\ OpenFan(cfg.handler[next])
              /\ at' = [b \in Branches |-> IF b \in Team(cfg.handler[next]) THEN "starting" ELSE at[b]]
           \/ \E f \in Fans :
                 /\ IsRoot(f) /\ Joined(f) /\ UNCHANGED <<claims, claimed, at, pc, myDepth, claimsBefore>>
                 /\ \/ FanResult(f) = Ok /\ UNCHANGED outcome
                    \/ FanResult(f) # Ok /\ outcome' = FanResult(f)
<1>1. CASE Assign \/ Wake \/ JobCancelled
  BY <1>1 DEF Assign, Wake, JobCancelled, execVars, fanVars, branchVars, history, counters, Ok, None
<1>2. CASE Report \/ Abandoned
  BY <1>2 DEF Report, Abandoned
<1>3. CASE HandlerReturns
  BY <1>3 DEF HandlerReturns, fanVars, branchVars, history, counters
<1>4. CASE OpenRoot
  <2>1. next \in DOMAIN cfg.handler /\ cfg.handler[next] \in Fans
    BY <1>4, ConfigFields DEF OpenRoot, Places
  <2>2. CASE ctxDone
    BY <1>4, <2>2 DEF OpenRoot, fanVars, history, counters, Ok, Failed
  <2>3. CASE ~ctxDone
    BY <1>4, <2>1, <2>3 DEF OpenRoot, history
  <2> QED
    BY <2>2, <2>3
<1>5. ASSUME NEW f \in Fans, JoinRoot(f)
      PROVE  /\ IsRoot(f) /\ Joined(f) /\ UNCHANGED <<claims, claimed, at, pc, myDepth, claimsBefore>>
             /\ \/ FanResult(f) = Ok /\ UNCHANGED outcome
                \/ FanResult(f) # Ok /\ outcome' = FanResult(f)
  BY <1>5 DEF JoinRoot, branchVars, history
<1> QED
  BY <1>1, <1>2, <1>3, <1>4, <1>5 DEF Next, EngineSteps, HandlerSteps

\* A step opens one fan-out, joins one, ends the execution or leaves them all.
LEMMA FanSteps ==
    ASSUME Places, JoinsFans, Next
    PROVE  \/ UNCHANGED <<fan, depth>>
           \/ \E n : Gone(n)
           \/ \E f \in Fans : fan[f] = "closed" /\ OpenFan(f)
           \/ \E f \in Fans : Joined(f)
<1>1. ASSUME NEW b \in Branches, BranchSteps(b)
      PROVE  \/ UNCHANGED <<fan, depth>>
             \/ \E f \in Fans : fan[f] = "closed" /\ OpenFan(f)
             \/ \E f \in Fans : Joined(f)
  BY <1>1, BranchClaims, FanOfCall DEF counters
<1>2. CASE ~(\E b \in Branches : BranchSteps(b))
  BY <1>2, OtherClaims DEF counters
<1> QED
  BY <1>1, <1>2

\* The depth goes with the fan-outs.
LEMMA DepthStep ==
    ASSUME Places, JoinsFans, DepthCounts, Next PROVE DepthCounts'
<1>1. CASE UNCHANGED <<fan, depth>>
  BY <1>1 DEF DepthCounts, OpenFans
<1>2. ASSUME NEW n, Gone(n) PROVE DepthCounts'
  <2>1. OpenFans' = {} /\ depth' = 0
    BY <1>2 DEF Gone, OpenFans
  <2> QED
    BY <2>1, FS_EmptySet DEF DepthCounts
<1>3. ASSUME NEW f \in Fans, fan[f] = "closed", OpenFan(f) PROVE DepthCounts'
  <2>1. OpenFans' = OpenFans \cup {f} /\ f \notin OpenFans /\ depth' = depth + 1
    BY <1>3 DEF OpenFan, OpenFans, Places
  <2> QED
    BY <2>1, FS_AddElement DEF DepthCounts
<1>4. ASSUME NEW f \in Fans, Joined(f) PROVE DepthCounts'
  <2>1. OpenFans' = OpenFans \ {f} /\ f \in OpenFans /\ depth' = depth - 1
    BY <1>4 DEF Joined, OpenFans, Places
  <2> QED
    BY <2>1, FS_RemoveElement DEF DepthCounts
<1> QED
  BY <1>1, <1>2, <1>3, <1>4, FanSteps

\* A branch that has ended stays so until the execution is over.
LEMMA EndedStays ==
    ASSUME Places, JoinsFans, Next, NEW b \in Branches, at[b] = "ended"
    PROVE  at'[b] = "ended" \/ \E n : Gone(n)
<1>1. ASSUME NEW c \in Branches, BranchSteps(c) PROVE at'[b] = "ended"
  <2>1. b # c
    BY <1>1, BranchClaims
  <2> QED
    BY <1>1, <2>1, OthersStay
<1>2. CASE ~(\E c \in Branches : BranchSteps(c))
  BY <1>2, OtherClaims, ClosedIsIdle DEF Places
<1> QED
  BY <1>1, <1>2

\* A branch that waits does so until its fan-out is joined.
LEMMA WaitingStays ==
    ASSUME Places, JoinsFans, Next, NEW b \in Branches, at[b] = "joining"
    PROVE  \/ at'[b] = "joining" /\ pc'[b] = pc[b]
           \/ Joined(Code(b)[pc[b]].fan)
           \/ \E n : Gone(n)
<1>1. CASE BranchSteps(b)
  BY <1>1, BranchClaims DEF AtCall
<1>2. ASSUME NEW c \in Branches, BranchSteps(c), c # b PROVE at'[b] = "joining" /\ pc'[b] = pc[b]
  BY <1>2, OthersStay
<1>3. CASE ~(\E c \in Branches : BranchSteps(c))
  BY <1>3, OtherClaims, ClosedIsIdle DEF Places
<1> QED
  BY <1>1, <1>2, <1>3

\* The fan-outs stay nested.
LEMMA FanTreeStep ==
    ASSUME Places, JoinsFans, RootsApart, FanTree, Next PROVE FanTree'
<1>0. cfg' = cfg /\ (\A b : Code(b)' = Code(b)) /\ \A f : IsRoot(f)' = IsRoot(f)
  BY ConfigStays DEF Code, IsRoot
<1>1. ASSUME NEW n, Gone(n) PROVE FanTree'
  BY <1>1 DEF Gone, FanTree
<1> SUFFICES ASSUME ~(\E n : Gone(n)) PROVE FanTree'
  BY <1>1
<1>2. \A f \in Fans : \/ fan'[f] = fan[f]
                      \/ fan[f] = "closed" /\ fan'[f] = "open" /\ OpenFan(f)
                      \/ fan[f] = "open" /\ fan'[f] = "joined" /\ Joined(f)
  BY FanSteps DEF OpenFan, Joined, Places
<1>3. \A f \in Fans : fan[f] # "closed" => fan'[f] # "closed"
  BY <1>2
<1>4. ASSUME NEW f \in Fans, fan'[f] = "joined", NEW b \in Team(f) PROVE at'[b] = "ended"
  <2>1. b \in Branches
    BY <1>4, Teams
  <2>2. at[b] = "ended"
    BY <1>2, <1>4 DEF Joined, FanTree
  <2> QED
    BY <2>1, <2>2, EndedStays
<1>5. ASSUME NEW f \in Fans, fan[f] = "closed", fan'[f] = "open", ~IsRoot(f)
      PROVE  \E b \in Branches : /\ at'[b] = "joining" /\ pc'[b] = pc[b] /\ Code(b)[pc[b]].fan = f
                                 /\ pc[b] \in DOMAIN Code(b) /\ Code(b)[pc[b]].op = "fan"
                                 /\ fan[FanOf(b)] # "closed"
  <2>1. ASSUME NEW b \in Branches, BranchSteps(b)
        PROVE  /\ at'[b] = "joining" /\ pc'[b] = pc[b] /\ Code(b)[pc[b]].fan = f
               /\ pc[b] \in DOMAIN Code(b) /\ Code(b)[pc[b]].op = "fan"
               /\ fan[FanOf(b)] # "closed"
    <3>1. at[b] # "idle" /\ fan[FanOf(b)] # "closed"
      BY <2>1, BranchClaims DEF Places
    <3>2. ~UNCHANGED fan
      BY <1>5
    <3>3. ~(at[b] = "joining" /\ Joined(Code(b)[pc[b]].fan))
      BY <1>5, FanOfCall DEF Joined, Places
    <3>4. /\ AtCall(b, "fan") /\ OpenFan(Code(b)[pc[b]].fan) /\ UNCHANGED pc /\ at'[b] = "joining"
      BY <2>1, <3>2, <3>3, BranchClaims DEF counters
    <3>5. pc[b] \in DOMAIN Code(b) /\ Code(b)[pc[b]].op = "fan" /\ Code(b)[pc[b]].fan \in Fans
      BY <3>4, FanOfCall
    <3>6. Code(b)[pc[b]].fan = f
      BY <1>5, <3>4, <3>5 DEF OpenFan, Places
    <3> QED
      BY <3>1, <3>4, <3>5, <3>6
  <2>2. CASE ~(\E b \in Branches : BranchSteps(b))
    <3>1. \/ UNCHANGED fan
          \/ /\ next \in DOMAIN cfg.handler /\ cfg.handler[next] \in Fans
             /\ fan' = [fan EXCEPT ![cfg.handler[next]] = "open"]
          \/ \E g \in Fans : fan' = [fan EXCEPT ![g] = "joined"]
      BY <2>2, OtherClaims DEF OpenFan, Joined, counters
    <3>2. f # cfg.handler[next] \/ next \notin DOMAIN cfg.handler
      BY <1>5 DEF IsRoot
    <3> QED
      BY <1>5, <3>1, <3>2 DEF Places
  <2> QED
    BY <2>1, <2>2
<1>6. ASSUME NEW f \in Fans, fan'[f] = "open", ~IsRoot(f)
      PROVE  \E b \in Branches : at'[b] = "joining" /\ Code(b)[pc'[b]].fan = f
  <2>1. CASE fan[f] = "closed"
    BY <1>5, <1>6, <2>1
  <2>2. CASE fan[f] = "open"
    <3>1. PICK b \in Branches : at[b] = "joining" /\ Code(b)[pc[b]].fan = f
      BY <1>6, <2>2 DEF FanTree
    <3>2. ~Joined(f)
      BY <1>6 DEF Joined, Places
    <3> QED
      BY <3>1, <3>2, WaitingStays
  <2> QED
    BY <1>2, <1>6, <2>1, <2>2
<1>7. ASSUME NEW f \in Fans, fan'[f] # "closed", ~IsRoot(f)
      PROVE  \E b \in Branches : \E j \in DOMAIN Code(b) :
                Code(b)[j].op = "fan" /\ Code(b)[j].fan = f /\ fan'[FanOf(b)] # "closed"
  <2>1. CASE fan[f] = "closed"
    <3>1. PICK b \in Branches : /\ Code(b)[pc[b]].fan = f /\ fan[FanOf(b)] # "closed"
                                /\ pc[b] \in DOMAIN Code(b) /\ Code(b)[pc[b]].op = "fan"
      BY <1>2, <1>5, <1>7, <2>1
    <3> QED
      BY <1>3, <3>1, OneFan
  <2>2. CASE fan[f] # "closed"
    <3>1. PICK b \in Branches : \E j \in DOMAIN Code(b) :
              Code(b)[j].op = "fan" /\ Code(b)[j].fan = f /\ fan[FanOf(b)] # "closed"
      BY <1>7, <2>2 DEF FanTree
    <3> QED
      BY <1>3, <3>1, OneFan
  <2> QED
    BY <2>1, <2>2
<1> QED
  BY <1>0, <1>4, <1>6, <1>7 DEF FanTree

\* No claim is in a fan-out of the handler that is closed.
LEMMA NoEarlyClaim ==
    ASSUME Places, FanTree, TwoLevels, FansApart, ClaimsCount,
           NEW f \in Fans, IsRoot(f), fan[f] = "closed"
    PROVE  ~RootClaim(f)
<1> SUFFICES ASSUME NEW c \in claimed, InFan(f, c[2][1]) PROVE FALSE
  BY DEF RootClaim
<1> DEFINE b == c[2][1]
<1>1. b \in Branches /\ fan[FanOf(b)] # "closed"
  BY DEF ClaimsCount
<1>2. b \notin Team(f)
  BY <1>1, OneFan
<1>3. PICK d \in Team(f) : \E j \in DOMAIN Code(d) : Code(d)[j].op = "fan" /\ b \in Team(Code(d)[j].fan)
  BY <1>2 DEF InFan
<1>4. PICK j \in DOMAIN Code(d) : Code(d)[j].op = "fan" /\ b \in Team(Code(d)[j].fan)
  BY <1>3
<1>5. d \in Branches /\ FanOf(d) = f
  BY Teams, OneFan
<1>6. Code(d)[j] \in Calls
  BY <1>4, <1>5, ConfigFields DEF Places
<1>7. Code(d)[j].fan \in Fans /\ Code(d)[j].fan = FanOf(b) /\ ~IsRoot(FanOf(b))
  BY <1>1, <1>4, <1>5, <1>6, CallFields, OneFan DEF TwoLevels, RootsApart
<1>8. PICK e \in Branches : \E i \in DOMAIN Code(e) :
          Code(e)[i].op = "fan" /\ Code(e)[i].fan = FanOf(b) /\ fan[FanOf(e)] # "closed"
  BY <1>1, <1>7 DEF FanTree
<1>9. e = d
  BY <1>4, <1>5, <1>7, <1>8 DEF FansApart
<1> QED
  BY <1>5, <1>8, <1>9

\* What a fan-out is told of claims when it is joined.
LEMMA WarningsAre ==
    ASSUME NEW f, NEW g
    PROVE  /\ <<g, "claims">> \in Warnings(f) => g = f /\ EnclosingClaimsFor(f) > 0
           /\ EnclosingClaimsFor(f) > 0 /\ ~cfg.skipCheck[f] =>
                 Warned(cfg.name[f]) \/ <<f, "claims">> \in Warnings(f)
BY DEF Warnings

\* A claim counts for the fan-out of the handler the branch is in.
LEMMA ClaimsStep ==
    ASSUME Places, JoinsFans, TwoLevels, FansApart, ScopesApart, OpenRoots, FanTree, DepthCounts,
           ClaimsCount, Next
    PROVE  ClaimsCount'
<1>0. cfg' = cfg /\ (\A f, b : InFan(f, b)' = InFan(f, b)) /\ \A f : IsRoot(f)' = IsRoot(f)
  BY ConfigStays DEF Code, IsRoot, InFan
<1>1. ASSUME NEW n, Gone(n) PROVE ClaimsCount'
  BY <1>1 DEF Gone, ClaimsCount
<1>2. CASE UNCHANGED <<counters, claims, claimed>>
  <2>1. \A f : RootClaim(f)' = RootClaim(f)
    BY <1>0, <1>2 DEF RootClaim
  <2> QED
    BY <1>0, <1>2, <2>1 DEF ClaimsCount, counters
<1>3. ASSUME NEW f \in Fans, fan[f] = "closed", OpenFan(f), UNCHANGED <<claims, claimed>>,
             IsRoot(f) => depth = 0
      PROVE  ClaimsCount'
  <2>1. \A g : RootClaim(g)' = RootClaim(g)
    BY <1>0, <1>3 DEF RootClaim
  <2>2. /\ fan' = [fan EXCEPT ![f] = "open"] /\ myDepth' = [myDepth EXCEPT ![f] = depth + 1]
        /\ claimsBefore' = [claimsBefore EXCEPT ![f] = claims] /\ warned' = warned
    BY <1>3 DEF OpenFan
  <2>3. \A b \in Branches : FanOf(b) \in Fans
    BY OneFan
  <2>4. claims' \in Nat /\ claimsBefore' \in [Fans -> Nat] /\ DOMAIN myDepth' = Fans
    BY <1>3, <2>2 DEF ClaimsCount
  <2>5. \A c \in claimed' : c[2][1] \in Branches /\ fan'[FanOf(c[2][1])] # "closed"
    BY <1>3, <2>2, <2>3 DEF ClaimsCount, Places
  <2>6. \A g \in Fans : <<g, "claims">> \in warned' => fan'[g] = "joined"
    BY <1>3, <2>2 DEF ClaimsCount, Places
  <2>7. ASSUME NEW g \in Fans, fan'[g] = "open", IsRoot(g)
        PROVE  /\ myDepth'[g] = 1 /\ claimsBefore'[g] <= claims'
               /\ claimsBefore'[g] < claims' <=> RootClaim(g)
    <3>1. CASE g = f
      <4>1. ~RootClaim(f)
        BY <1>3, <2>7, <3>1, NoEarlyClaim
      <4>2. myDepth'[f] = 1 /\ claimsBefore'[f] = claims /\ claims' = claims /\ claims \in Nat
        BY <1>3, <2>2, <2>7, <3>1 DEF ClaimsCount
      <4> QED
        BY <3>1, <4>1, <4>2
    <3>2. CASE g # f
      <4>1. /\ fan[g] = "open" /\ myDepth'[g] = myDepth[g] /\ claimsBefore'[g] = claimsBefore[g]
            /\ claims' = claims
        BY <1>3, <2>2, <2>7, <3>2 DEF ClaimsCount, Places
      <4> QED
        BY <2>7, <4>1 DEF ClaimsCount
    <3> QED
      BY <3>1, <3>2
  <2> QED
    BY <1>0, <2>1, <2>4, <2>5, <2>6, <2>7 DEF ClaimsCount
<1>4. ASSUME NEW f \in Fans, Joined(f), UNCHANGED <<claims, claimed, myDepth, claimsBefore>>
      PROVE  ClaimsCount'
  <2>1. \A g : RootClaim(g)' = RootClaim(g)
    BY <1>0, <1>4 DEF RootClaim
  <2>2. fan' = [fan EXCEPT ![f] = "joined"] /\ warned' \subseteq warned \cup Warnings(f)
    BY <1>4 DEF Joined
  <2>3. \A b \in Branches : FanOf(b) \in Fans
    BY OneFan
  <2>4. \A c \in claimed' : c[2][1] \in Branches /\ fan'[FanOf(c[2][1])] # "closed"
    BY <1>4, <2>2, <2>3 DEF ClaimsCount, Places
  <2>5. \A g \in Fans : <<g, "claims">> \in warned' => fan'[g] = "joined"
    <3>1. \A g : <<g, "claims">> \in Warnings(f) => g = f
      BY WarningsAre
    <3> QED
      BY <2>2, <3>1 DEF ClaimsCount, Places
  <2>6. ASSUME NEW g \in Fans, fan'[g] = "open", IsRoot(g)
        PROVE  /\ myDepth'[g] = 1 /\ claimsBefore'[g] <= claims'
               /\ claimsBefore'[g] < claims' <=> RootClaim(g)
    BY <1>4, <2>2, <2>6 DEF ClaimsCount, Places
  <2> QED
    BY <1>0, <1>4, <2>1, <2>4, <2>5, <2>6 DEF ClaimsCount
<1>5. ASSUME NEW b \in Branches, at[b] \notin {"idle", "ended"}, NEW id, UNCHANGED counters,
             claimed' = claimed \cup {<<id, Call(b)>>},
             \/ id[1] # Root /\ UNCHANGED claims
             \/ id[1] = Root /\ claims' = IF depth > 0 THEN claims + 1 ELSE claims
      PROVE  ClaimsCount'
  <2>1. PICK r \in Fans : IsRoot(r) /\ fan[r] = "open" /\ InFan(r, b)
    BY <1>5, UnderRoot
  <2>2. depth > 0
    <3>1. OpenFans # {} /\ IsFiniteSet(OpenFans)
      BY <2>1 DEF OpenFans, DepthCounts
    <3>2. Cardinality(OpenFans) \in Nat /\ Cardinality(OpenFans) # 0
      BY <3>1, FS_CardinalityType, FS_EmptySet
    <3> QED
      BY <3>2 DEF DepthCounts
  <2>3. Call(b)[1] = b /\ fan[FanOf(b)] # "closed"
    BY <1>5 DEF Call, Places
  <2>4. \A c \in claimed' : c[2][1] \in Branches /\ fan'[FanOf(c[2][1])] # "closed"
    <3>1. fan' = fan
      BY <1>5 DEF counters
    <3> QED
      BY <1>5, <2>3, <3>1 DEF ClaimsCount
  <2>5. \A f \in Fans : fan[f] = "open" /\ IsRoot(f) => f = r
    BY <2>1 DEF OpenRoots
  <2>6. CASE id[1] # Root /\ UNCHANGED claims
    <3>1. \A f : RootClaim(f)' <=> RootClaim(f)
      BY <1>0, <1>5, <2>6 DEF RootClaim
    <3> QED
      BY <1>0, <1>5, <2>4, <2>6, <3>1 DEF ClaimsCount, counters
  <2>7. CASE id[1] = Root /\ claims' = claims + 1
    <3>1. RootClaim(r)'
      <4>1. <<id, Call(b)>> \in claimed' /\ <<id, Call(b)>>[1][1] = Root /\ InFan(r, <<id, Call(b)>>[2][1])
        BY <1>5, <2>1, <2>3, <2>7
      <4> QED
        BY <1>0, <4>1 DEF RootClaim
    <3>2. claims \in Nat /\ claimsBefore[r] \in Nat /\ claimsBefore[r] <= claims /\ myDepth[r] = 1
      BY <2>1 DEF ClaimsCount
    <3>3. claims' \in Nat /\ claimsBefore[r] < claims'
      BY <2>7, <3>2
    <3> QED
      BY <1>0, <1>5, <2>4, <2>5, <3>1, <3>2, <3>3 DEF ClaimsCount, counters
  <2> QED
    BY <1>5, <2>2, <2>6, <2>7
<1>6. ASSUME NEW b \in Branches, BranchSteps(b) PROVE ClaimsCount'
  <2>1. Scope[b] # Root
    BY DEF ScopesApart
  <2>2. at[b] \notin {"idle", "ended"}
    BY <1>6, BranchClaims
  <2>3. CASE UNCHANGED <<counters, claims>> /\ \E id : id[1] = Scope[b] /\ claimed' = claimed \cup {<<id, Call(b)>>}
    BY <1>5, <2>1, <2>2, <2>3
  <2>4. CASE /\ UNCHANGED counters /\ claims' = IF depth > 0 THEN claims + 1 ELSE claims
             /\ \E id : id[1] = Root /\ claimed' = claimed \cup {<<id, Call(b)>>}
    BY <1>5, <2>2, <2>4
  <2>5. CASE /\ UNCHANGED <<claims, claimed>> /\ AtCall(b, "fan")
             /\ fan[Code(b)[pc[b]].fan] = "closed" /\ OpenFan(Code(b)[pc[b]].fan)
    BY <1>3, <2>5, FanOfCall DEF TwoLevels
  <2>6. CASE /\ UNCHANGED <<claims, claimed, myDepth, claimsBefore>> /\ at[b] = "joining"
             /\ Joined(Code(b)[pc[b]].fan)
    BY <1>4, <2>6, FanOfCall
  <2> QED
    BY <1>2, <1>6, <2>3, <2>4, <2>5, <2>6, BranchClaims
<1>7. CASE ~(\E b \in Branches : BranchSteps(b))
  <2>1. ASSUME fan[cfg.handler[next]] = "closed" PROVE depth = 0
    BY <2>1, NoneOpen, FS_EmptySet DEF DepthCounts
  <2> QED
    BY <1>1, <1>2, <1>3, <1>4, <1>7, <2>1, OtherClaims
<1> QED
  BY <1>6, <1>7

\* What WarnsTheRightFanOut says of one fan-out.
WarnedRightly(f) ==
    /\ <<f, "claims">> \in warned => RootClaim(f)
    /\ RootClaim(f) /\ ~cfg.skipCheck[f] => Warned(cfg.name[f])

\* The warning is right when a fan-out is joined and stays so.
LEMMA WarnsStep ==
    ASSUME Places, Outcomes, JoinsFans, TwoLevels, FansApart, ScopesApart, OpenRoots, FanTree,
           ClaimsCount, WarnsTheRightFanOut, Next
    PROVE  WarnsTheRightFanOut'
<1>0. cfg' = cfg /\ (\A f, b : InFan(f, b)' = InFan(f, b)) /\ \A f : IsRoot(f)' = IsRoot(f)
  BY ConfigStays DEF Code, IsRoot, InFan
<1> SUFFICES ASSUME NEW f \in Fans, IsRoot(f), fan'[f] = "joined", outcome' \in {None, Ok}
             PROVE  WarnedRightly(f)'
  BY <1>0 DEF WarnsTheRightFanOut, WarnedRightly, None, Ok
<1>1. ASSUME outcome \in {None, Ok}, fan[f] = "joined" PROVE WarnedRightly(f)
  BY <1>1 DEF WarnsTheRightFanOut, WarnedRightly
<1>2. UNCHANGED claimed => RootClaim(f)' = RootClaim(f)
  BY <1>0 DEF RootClaim
<1>3. ~(\E n : Gone(n))
  BY DEF Gone
<1>6. ASSUME outcome \in {None, Ok}, fan[f] = "joined", RootClaim(f)' = RootClaim(f),
             warned \subseteq warned', <<f, "claims">> \in warned' => <<f, "claims">> \in warned
      PROVE  WarnedRightly(f)'
  <2>1. Warned(cfg.name[f]) => Warned(cfg.name[f])'
    BY <1>0, <1>6 DEF Warned
  <2> QED
    BY <1>0, <1>1, <1>6, <2>1 DEF WarnedRightly
<1>4. ASSUME NEW b \in Branches, BranchSteps(b) PROVE WarnedRightly(f)'
  <2>1. outcome \in {None, Ok} /\ at[b] \notin {"idle", "ended"} /\ Scope[b] # Root
    BY <1>4, BranchFrame, BranchClaims DEF ScopesApart
  <2>2. CASE UNCHANGED <<counters, claimed>>
    BY <1>2, <1>6, <2>1, <2>2 DEF counters
  <2>3. ASSUME NEW id, UNCHANGED counters, claimed' = claimed \cup {<<id, Call(b)>>}
        PROVE  WarnedRightly(f)'
    <3>1. fan[f] = "joined" /\ warned' = warned
      BY <2>3 DEF counters
    <3>2. ~InFan(f, b)
      BY <2>1, <3>1, InOpenFan
    <3>3. <<id, Call(b)>>[2][1] = b
      BY DEF Call
    <3>4. RootClaim(f)' = RootClaim(f)
      BY <1>0, <2>3, <3>2, <3>3 DEF RootClaim
    <3> QED
      BY <1>6, <2>1, <3>1, <3>4
  <2>4. CASE /\ UNCHANGED claimed /\ AtCall(b, "fan") /\ OpenFan(Code(b)[pc[b]].fan)
    <3>1. Code(b)[pc[b]].fan # f
      BY <2>4, FanOfCall DEF TwoLevels
    <3>2. fan[f] = "joined" /\ warned' = warned
      BY <2>4, <3>1 DEF OpenFan, Places
    <3> QED
      BY <1>2, <1>6, <2>1, <2>4, <3>2
  <2>5. CASE UNCHANGED claimed /\ at[b] = "joining" /\ Joined(Code(b)[pc[b]].fan)
    <3>1. Code(b)[pc[b]].fan # f
      BY <2>5, FanOfCall DEF TwoLevels
    <3>2. fan[f] = "joined" /\ warned' \in {warned, warned \cup Warnings(Code(b)[pc[b]].fan)}
      BY <2>5, <3>1 DEF Joined, Places
    <3>3. <<f, "claims">> \in warned' => <<f, "claims">> \in warned
      <4>1. \A g : <<g, "claims">> \in Warnings(Code(b)[pc[b]].fan) => g = Code(b)[pc[b]].fan
        BY WarningsAre
      <4> QED
        BY <3>1, <3>2, <4>1
    <3> QED
      BY <1>2, <1>6, <2>1, <2>5, <3>2, <3>3
  <2> QED
    BY <1>4, <2>2, <2>3, <2>4, <2>5, BranchClaims
<1>5. CASE ~(\E b \in Branches : BranchSteps(b))
  <2>1. Failed \notin {None, Ok}
    BY DEF Failed, None, Ok
  <2>2. CASE /\ UNCHANGED <<counters, claimed>> /\ outcome' \in {outcome, Ok, Failed}
             /\ (outcome' = Ok => outcome \in {None, Ok})
    BY <1>2, <1>6, <2>1, <2>2 DEF counters
  <2>3. CASE /\ outcome = None /\ UNCHANGED claimed
             /\ fan[cfg.handler[next]] = "closed" /\ OpenFan(cfg.handler[next])
    <3>1. fan[f] = "joined" /\ warned' = warned
      BY <2>3 DEF OpenFan, Places
    <3> QED
      BY <1>2, <1>6, <2>3, <3>1
  <2>4. ASSUME NEW g \in Fans, IsRoot(g), Joined(g), UNCHANGED claimed,
               \/ FanResult(g) = Ok /\ UNCHANGED outcome
               \/ FanResult(g) # Ok /\ outcome' = FanResult(g)
        PROVE  WarnedRightly(f)'
    <3>1. fan[g] = "open" /\ outcome = None
      BY <2>4 DEF Joined, OpenRoots
    <3>2. FanResult(g) = Ok
      BY <2>4, FanResults DEF None, Ok
    <3>3. fan' = [fan EXCEPT ![g] = "joined"] /\ warned' = warned \cup Warnings(g)
      BY <2>4, <3>2 DEF Joined
    <3>4. CASE g # f
      <4>1. fan[f] = "joined" /\ (<<f, "claims">> \in warned' => <<f, "claims">> \in warned)
        <5>1. \A h : <<h, "claims">> \in Warnings(g) => h = g
          BY WarningsAre
        <5> QED
          BY <3>3, <3>4, <5>1 DEF Places
      <4> QED
        BY <1>2, <1>6, <2>4, <3>1, <3>3, <4>1
    <3>5. CASE g = f
      <4>1. <<f, "claims">> \notin warned
        BY <3>1, <3>5 DEF ClaimsCount
      <4>2. /\ myDepth[f] = 1 /\ claimsBefore[f] \in Nat /\ claims \in Nat
            /\ claimsBefore[f] < claims <=> RootClaim(f)
        BY <3>1, <3>5 DEF ClaimsCount
      <4>3. EnclosingClaimsFor(f) > 0 <=> RootClaim(f)
        BY <4>2 DEF EnclosingClaimsFor
      <4>4. <<f, "claims">> \in warned' => RootClaim(f)
        BY <3>3, <3>5, <4>1, <4>3, WarningsAre
      <4>5. ASSUME RootClaim(f), ~cfg.skipCheck[f] PROVE Warned(cfg.name[f])'
        <5>1. Warned(cfg.name[f]) \/ <<f, "claims">> \in Warnings(f)
          BY <4>3, <4>5, WarningsAre
        <5>2. <<f, "claims">>[1] = f
          OBVIOUS
        <5> QED
          BY <1>0, <3>3, <3>5, <5>1, <5>2 DEF Warned
      <4> QED
        BY <1>0, <1>2, <2>4, <4>4, <4>5 DEF WarnedRightly
    <3> QED
      BY <3>4, <3>5
  <2> QED
    BY <1>3, <1>5, <2>2, <2>3, <2>4, OtherClaims
<1> QED
  BY <1>4, <1>5

\* An execution starts with no fan-out and no claim.
LEMMA WarnsInit ==
    ASSUME Init PROVE WarnsInv
<1>1. Places /\ Outcomes
  BY StepsInit DEF StepsInv
<1>2. JoinsFans /\ OpenRoots /\ FanTree /\ ClaimsCount /\ WarnsTheRightFanOut
  BY DEF Init, JoinsFans, OpenRoots, FanTree, ClaimsCount, WarnsTheRightFanOut
<1>3. OpenFans = {} /\ depth = 0
  BY DEF Init, OpenFans
<1>4. DepthCounts
  BY <1>3, FS_EmptySet DEF DepthCounts
<1> QED
  BY <1>1, <1>2, <1>4 DEF WarnsInv

\* Every step keeps the invariant.
LEMMA WarnsInvStep ==
    ASSUME ScopesApart, WarnsInv, [Next]_vars PROVE WarnsInv'
<1>0. cfg' = cfg /\ (\A b : Code(b)' = Code(b)) /\ \A f : IsRoot(f)' = IsRoot(f)
  BY ConfigStays DEF Code, IsRoot
<1>1. TwoLevels' = TwoLevels /\ FansApart' = FansApart
  BY <1>0 DEF TwoLevels, RootsApart, FansApart
<1>2. CASE Next
  <2>1. Places' /\ Outcomes' /\ JoinsFans'
    BY <1>2, PlacesStep, OutcomesStep, JoinsFansStep DEF WarnsInv
  <2>2. ASSUME TwoLevels, FansApart
        PROVE  OpenRoots' /\ FanTree' /\ DepthCounts' /\ ClaimsCount' /\ WarnsTheRightFanOut'
    <3>1. /\ Places /\ Outcomes /\ JoinsFans /\ RootsApart
          /\ OpenRoots /\ FanTree /\ DepthCounts /\ ClaimsCount /\ WarnsTheRightFanOut
      BY <2>2 DEF WarnsInv, TwoLevels
    <3> QED
      BY <1>2, <2>2, <3>1, OpenRootsStep, FanTreeStep, DepthStep, ClaimsStep, WarnsStep
  <2> QED
    BY <1>1, <2>1, <2>2 DEF WarnsInv
<1>3. CASE UNCHANGED vars
  <2>1. Places' /\ Outcomes' /\ JoinsFans'
    <3>1. UNCHANGED <<cfg, next, at, pc, count, cur, res, fan, status, outcome>>
      BY <1>3 DEF vars, engine, execVars, fanVars, branchVars
    <3> QED
      BY <1>0, <3>1, PlacesStep DEF WarnsInv, Outcomes, JoinsFans, None, Ok
  <2>2. /\ OpenRoots' = OpenRoots /\ FanTree' = FanTree /\ DepthCounts' = DepthCounts
        /\ ClaimsCount' = ClaimsCount /\ WarnsTheRightFanOut' = WarnsTheRightFanOut
    <3>1. /\ UNCHANGED <<next, outcome, depth, claims, fan, myDepth, claimsBefore, warned, at, pc, claimed>>
      BY <1>3 DEF vars, execVars, fanVars, branchVars, history
    <3>2. \A f, b : InFan(f, b)' = InFan(f, b)
      BY <1>0 DEF InFan
    <3>3. OpenRoots' = OpenRoots /\ FanTree' = FanTree
      BY <1>0, <3>1 DEF OpenRoots, FanTree, None
    <3>4. DepthCounts' = DepthCounts
      BY <3>1 DEF DepthCounts, OpenFans
    <3>5. ClaimsCount' = ClaimsCount
      BY <1>0, <3>1, <3>2 DEF ClaimsCount, RootClaim
    <3>6. WarnsTheRightFanOut' = WarnsTheRightFanOut
      BY <1>0, <3>1, <3>2 DEF WarnsTheRightFanOut, RootClaim, Warned, None, Ok
    <3> QED
      BY <3>3, <3>4, <3>5, <3>6
  <2> QED
    BY <1>1, <2>1, <2>2 DEF WarnsInv
<1> QED
  BY <1>2, <1>3

\* The warning about steps on the enclosing context names a fan-out of the handler
\* only if such a step was claimed in one of its branches, or in those of the
\* fan-outs they open; and one where it was, which returned normally and did not opt
\* out, is named or shares its name with one that was.  enclosingClaims is one
\* counter of the execution, but while it counts exactly one fan-out of the handler
\* is open, and fanOutDepth is 1 for that one only (enclosingClaimsFor).
THEOREM WarnsRightly ==
    ASSUME ScopesApart PROVE Spec => [](TwoLevels /\ FansApart => WarnsTheRightFanOut)
<1>1. Init => WarnsInv
  BY WarnsInit
<1>2. WarnsInv /\ [Next]_vars => WarnsInv'
  BY WarnsInvStep
<1>3. WarnsInv => (TwoLevels /\ FansApart => WarnsTheRightFanOut)
  BY DEF WarnsInv
<1> QED
  BY <1>1, <1>2, <1>3, PTL DEF Spec

=============================================================================
