------------------------------ MODULE Parallel ------------------------------
(***************************************************************************)
(* Fan-outs (parallel.go, the branch contexts of step.go): Parallel and    *)
(* Map in a handler, ParallelWithBranch and MapWithBranch in a branch.     *)
(* Every branch is a goroutine; the run pauses and is replayed, so a       *)
(* handler is executed several times with the rows stored before.          *)
(*                                                                         *)
(* DurableRun models how steps are stored.  Here the executions of one     *)
(* run follow each other and the engine, which is not part of the          *)
(* repository, stores the completed steps of an execution: all of them     *)
(* when it reports, a prefix when it dies or loses its job.                *)
(***************************************************************************)
EXTENDS Naturals, Sequences, FiniteSets

CONSTANTS
    Fans, Branches,
    Members,    \* the branches of each fan-out, by index
    Names,      \* names user code gives to steps and fan-outs
    Scope,      \* the scope prefix of each branch: the path of names and indices
    Configs,    \* what may differ between runs, see IsConfig
    MaxExecs,   \* bound on the executions of the run
    MaxFaults,  \* bound on crashes and ended job contexts
    NoId, Root

\* A durable call of a branch.  "root" is Run on the enclosing function's
\* context, which compiles in a branch as well.
Calls ==
    [op : {"run", "sleep", "root"}, name : Names]
    \cup [op : {"compensate"}] \cup [op : {"fan"}, fan : Fans]

\* The handler (its fan-outs in order), the code of the branches, the name and the
\* options of each fan-out (Concurrency, OnError, SkipScopedClientCheck), and the
\* calls whose body fails.
IsConfig(g) ==
    /\ DOMAIN g = {"handler", "code", "name", "limit", "failFast", "skipCheck", "fails"}
    /\ g.handler \in Seq(Fans)
    /\ g.code \in [Branches -> Seq(Calls)]
    /\ g.name \in [Fans -> Names]
    /\ g.limit \in [Fans -> Nat]
    /\ g.failFast \in [Fans -> BOOLEAN] /\ g.skipCheck \in [Fans -> BOOLEAN]
    /\ g.fails \subseteq Branches \X Nat

Team(f) == {Members[f][i] : i \in DOMAIN Members[f]}

\* Every branch is of one fan-out, and Root is not the name of a call.
ASSUME ParallelAssumption ==
    /\ Members \in [Fans -> Seq(Branches) \ {<<>>}]
    /\ \A g \in Configs : IsConfig(g)
    /\ \A b \in Branches : \E f \in Fans : \A g \in Fans : b \in Team(g) <=> g = f
    /\ DOMAIN Scope = Branches
    /\ MaxExecs \in Nat \ {0} /\ MaxFaults \in Nat
    /\ Root \notin Branches \X Nat

FanOf(b) == CHOOSE f \in Fans : b \in Team(f)

VARIABLES
    cfg,        \* the configuration of this run
    \* the engine
    rows,       \* the stored step rows: pairs of a step id and the call that wrote it
    status,     \* "ready", "running", "waiting", "completed" or "failed"
    awaited,    \* the id a yielded run waits for
    execs, faults,
    \* the execution
    memo,       \* completedSteps
    next,       \* the next fan-out of the handler
    outcome,    \* what the handler ended with
    ctxDone,    \* the job context is done
    executed,   \* executedSteps that completed, in order
    comps,      \* registered compensations, in order
    rootCount,  \* stepCounters of the execution
    depth, claims,          \* fanOutDepth, enclosingClaims
    \* its fan-outs
    fan,        \* "closed", "open" or "joined"
    cancelled,  \* cancelled
    myDepth, claimsBefore,
    warned,     \* the fan-outs warned about enclosing claims, and the inert ones
    \* its branches
    at, pc, count, cur, res, used,
    \* history
    replayed,   \* pairs of a call and the id it replayed in this execution
    claimed,    \* pairs of an id and the call that claimed it in this execution
    undone      \* the compensations that ran

engine == <<cfg, rows, status, awaited, execs, faults>>
execVars == <<memo, next, outcome, ctxDone, executed, comps, rootCount, depth, claims>>
fanVars == <<fan, cancelled, myDepth, claimsBefore, warned>>
branchVars == <<at, pc, count, cur, res, used>>
history == <<replayed, claimed, undone>>
vars == <<engine, execVars, fanVars, branchVars, history>>

Ok == [kind |-> "ok", id |-> NoId]
Failed == [kind |-> "error", id |-> NoId]
Yield(id) == [kind |-> "yield", id |-> id]
Skipped == [kind |-> "skipped", id |-> NoId]
None == [kind |-> "none", id |-> NoId]

Code(b) == cfg.code[b]

Init ==
    /\ cfg \in Configs
    /\ rows = {} /\ status = "ready" /\ awaited = NoId /\ execs = 0 /\ faults = 0
    /\ memo = {} /\ next = 1 /\ outcome = None /\ ctxDone = FALSE
    /\ executed = <<>> /\ comps = <<>> /\ rootCount = [n \in Names |-> 0]
    /\ depth = 0 /\ claims = 0
    /\ fan = [f \in Fans |-> "closed"] /\ cancelled = [f \in Fans |-> FALSE]
    /\ myDepth = [f \in Fans |-> 0] /\ claimsBefore = [f \in Fans |-> 0] /\ warned = {}
    /\ at = [b \in Branches |-> "idle"] /\ pc = [b \in Branches |-> 1]
    /\ count = [b \in Branches |-> [n \in Names |-> 0]]
    /\ cur = [b \in Branches |-> NoId] /\ res = [b \in Branches |-> None]
    /\ used = [b \in Branches |-> FALSE]
    /\ replayed = {} /\ claimed = {} /\ undone = {}

Fault == faults < MaxFaults /\ faults' = faults + 1
-----------------------------------------------------------------------------
(* The engine: it assigns the run, stores what an execution reports, and    *)
(* wakes a run that waits.                                                 *)

Assign ==
    /\ status = "ready" /\ execs < MaxExecs
    /\ status' = "running" /\ execs' = execs + 1
    /\ memo' = {r[1] : r \in rows}
    /\ UNCHANGED <<cfg, rows, awaited, faults, next, outcome, ctxDone, executed, comps,
                   rootCount, depth, claims, fanVars, branchVars, history>>

Wake ==
    /\ status = "waiting"
    /\ status' = "ready" /\ awaited' = NoId
    /\ rows' = rows \cup {<<awaited, Root>>}
    /\ UNCHANGED <<cfg, execs, faults, execVars, fanVars, branchVars, history>>

\* The execution is over: nothing of it is left but its rows.
Gone(stored) ==
    /\ rows' = rows \cup {executed[i] : i \in 1..stored}
    /\ memo' = {} /\ next' = 1 /\ outcome' = None /\ ctxDone' = FALSE
    /\ executed' = <<>> /\ comps' = <<>> /\ rootCount' = [n \in Names |-> 0]
    /\ depth' = 0 /\ claims' = 0
    /\ fan' = [f \in Fans |-> "closed"] /\ cancelled' = [f \in Fans |-> FALSE]
    /\ myDepth' = [f \in Fans |-> 0] /\ claimsBefore' = [f \in Fans |-> 0] /\ warned' = {}
    /\ at' = [b \in Branches |-> "idle"] /\ pc' = [b \in Branches |-> 1]
    /\ count' = [b \in Branches |-> [n \in Names |-> 0]]
    /\ cur' = [b \in Branches |-> NoId] /\ res' = [b \in Branches |-> None]
    /\ used' = [b \in Branches |-> FALSE]
    /\ replayed' = {} /\ claimed' = {}

\* The outcome is reported; a run that fails runs its compensations first.
Report ==
    /\ status = "running" /\ outcome # None /\ ~ctxDone
    /\ status' = CASE outcome.kind = "ok" -> "completed"
                   [] outcome.kind = "yield" -> "waiting"
                   [] outcome.kind = "error" -> "failed"
    /\ awaited' = outcome.id
    /\ undone' = IF outcome.kind = "error" THEN {comps[i] : i \in DOMAIN comps} ELSE {}
    /\ Gone(Len(executed))
    /\ UNCHANGED <<cfg, execs, faults>>

\* The worker dies, or its job context ended and it reports nothing.
Abandoned ==
    /\ status = "running"
    /\ \/ Fault
       \/ outcome # None /\ ctxDone /\ UNCHANGED faults
    /\ status' = "ready"
    /\ \E n \in 0..Len(executed) : Gone(n)
    /\ UNCHANGED <<cfg, awaited, execs, undone>>

JobCancelled ==
    /\ status = "running" /\ outcome = None /\ ~ctxDone /\ Fault
    /\ ctxDone' = TRUE
    /\ UNCHANGED <<cfg, rows, status, awaited, execs, memo, next, outcome, executed, comps,
                   rootCount, depth, claims, fanVars, branchVars, history>>
-----------------------------------------------------------------------------
(* Opening a fan-out, and its branches' start. *)

OpenFan(f) ==
    /\ depth' = depth + 1
    /\ myDepth' = [myDepth EXCEPT ![f] = depth + 1]
    /\ claimsBefore' = [claimsBefore EXCEPT ![f] = claims]
    /\ fan' = [fan EXCEPT ![f] = "open"]
    /\ UNCHANGED <<cancelled, warned>>

\* Parallel in the handler.
OpenRoot ==
    /\ status = "running" /\ outcome = None /\ next <= Len(cfg.handler)
    /\ LET f == cfg.handler[next] IN
       /\ fan[f] = "closed"
       /\ IF ctxDone
          THEN outcome' = Failed /\ UNCHANGED <<depth, fanVars, at>>
          ELSE /\ OpenFan(f) /\ UNCHANGED outcome
               /\ at' = [b \in Branches |-> IF b \in Team(f) THEN "starting" ELSE at[b]]
    /\ UNCHANGED <<engine, memo, next, ctxDone, executed, comps, rootCount, claims, pc, count,
                   cur, res, used, history>>

IsRoot(f) == \E i \in DOMAIN cfg.handler : cfg.handler[i] = f

\* The branch ends with r; a yield cancels its fan-out, an error if OnError is
\* failFast.
End(b, r) ==
    LET f == FanOf(b) IN
    /\ at' = [at EXCEPT ![b] = "ended"]
    /\ res' = [res EXCEPT ![b] = r]
    /\ cancelled' = [cancelled EXCEPT ![f] =
                        @ \/ r.kind = "yield" \/ (r.kind = "error" /\ cfg.failFast[f])]

\* Mutant: a branch that has ended keeps its slot.
HoldsSlot_Leaks(b) == at[b] \notin {"idle", "starting"}

HoldsSlot(b) == at[b] \in {"running", "body", "joining"}

\* Mutant: the flag is read whether or not there is a limit.
Skips_Always(b) ==
    cancelled[FanOf(b)] /\ cfg.failFast[FanOf(b)]

\* Only a branch that queued for the semaphore is skipped.
Skips(b) ==
    cfg.limit[FanOf(b)] > 0 /\ cancelled[FanOf(b)] /\ cfg.failFast[FanOf(b)]

\* The goroutine of the branch gets its slot, and looks at the flag and, in
\* Parallel, at the job context.
Start(b) ==
    LET f == FanOf(b) IN
    /\ at[b] = "starting"
    /\ cfg.limit[f] > 0 => Cardinality({c \in Team(f) : HoldsSlot(c)}) < cfg.limit[f]
    /\ \/ /\ Skips(b)
          /\ at' = [at EXCEPT ![b] = "ended"] /\ res' = [res EXCEPT ![b] = Skipped]
          /\ UNCHANGED cancelled
       \/ /\ ~Skips(b) /\ IsRoot(f) /\ ctxDone
          /\ at' = [at EXCEPT ![b] = "ended"] /\ res' = [res EXCEPT ![b] = Failed]
          /\ UNCHANGED cancelled
       \/ /\ ~Skips(b) /\ ~(IsRoot(f) /\ ctxDone)
          /\ at' = [at EXCEPT ![b] = "running"]
          /\ UNCHANGED <<res, cancelled>>
    /\ UNCHANGED <<engine, execVars, fan, myDepth, claimsBefore, warned, pc, count, cur,
                   used, history>>
-----------------------------------------------------------------------------
(* The durable calls of a branch. *)

AtCall(b, op) ==
    /\ at[b] = "running" /\ pc[b] <= Len(Code(b)) /\ Code(b)[pc[b]].op = op

Call(b) == <<b, pc[b]>>
CallName(b) == Code(b)[pc[b]].name

\* Every durable call fails when the job context is done.
ContextError(b) ==
    /\ ctxDone
    /\ End(b, Failed)
    /\ UNCHANGED <<execVars, pc, count, cur, replayed, claimed>>

\* Mutant: branch steps are numbered by the run's counters.
BranchStepId_Shared(b) == <<Scope[b], CallName(b), rootCount[CallName(b)]>>

\* generateStepID of the branch: its scope, the name and the index.
BranchStepId(b) == <<Scope[b], CallName(b), count[b][CallName(b)]>>
RootStepId(b) == <<Root, CallName(b), rootCount[CallName(b)]>>

\* A completed row is replayed, anything else runs the body.
RunOrReplay(b, id) ==
    /\ claimed' = claimed \cup {<<id, Call(b)>>}
    /\ IF id \in memo
       THEN /\ pc' = [pc EXCEPT ![b] = @ + 1]
            /\ replayed' = replayed \cup {<<Call(b), id>>}
            /\ UNCHANGED <<at, cur>>
       ELSE /\ at' = [at EXCEPT ![b] = "body"]
            /\ cur' = [cur EXCEPT ![b] = id]
            /\ UNCHANGED <<pc, replayed>>

\* RunWithBranch.
RunWithBranch(b) ==
    /\ AtCall(b, "run")
    /\ used' = [used EXCEPT ![b] = TRUE]
    /\ \/ ContextError(b)
       \/ /\ ~ctxDone
          /\ RunOrReplay(b, BranchStepId(b))
          /\ count' = [count EXCEPT ![b][CallName(b)] = @ + 1]
          /\ UNCHANGED <<execVars, cancelled, res>>
    /\ UNCHANGED <<engine, fan, myDepth, claimsBefore, warned, undone>>

\* Run on the enclosing context: the index comes from the run's own counter.
RunOnRoot(b) ==
    /\ AtCall(b, "root")
    /\ UNCHANGED used
    /\ \/ ContextError(b)
       \/ /\ ~ctxDone
          /\ RunOrReplay(b, RootStepId(b))
          /\ rootCount' = [rootCount EXCEPT ![CallName(b)] = @ + 1]
          /\ claims' = IF depth > 0 THEN claims + 1 ELSE claims
          /\ UNCHANGED <<memo, next, outcome, ctxDone, executed, comps, depth, count,
                         cancelled, res>>
    /\ UNCHANGED <<engine, fan, myDepth, claimsBefore, warned, undone>>

\* The body returns: a completed step is recorded, an error ends the branch (a
\* failed row is never replayed and is left out).
BodyEnds(b) ==
    /\ at[b] = "body"
    /\ cur' = [cur EXCEPT ![b] = NoId]
    /\ IF Call(b) \in cfg.fails
       THEN /\ End(b, Failed)
            /\ UNCHANGED <<executed, pc>>
       ELSE /\ executed' = Append(executed, <<cur[b], Call(b)>>)
            /\ pc' = [pc EXCEPT ![b] = @ + 1]
            /\ at' = [at EXCEPT ![b] = "running"]
            /\ UNCHANGED <<cancelled, res>>
    /\ UNCHANGED <<engine, memo, next, outcome, ctxDone, comps, rootCount, depth, claims, fan,
                   myDepth, claimsBefore, warned, count, used, history>>

\* SleepWithBranch and the waits: passed if the engine has the row, a yield
\* otherwise.
SleepWithBranch(b) ==
    /\ AtCall(b, "sleep")
    /\ \/ ContextError(b) /\ UNCHANGED used
       \/ /\ ~ctxDone
          /\ used' = [used EXCEPT ![b] = TRUE]
          /\ count' = [count EXCEPT ![b][CallName(b)] = @ + 1]
          /\ claimed' = claimed \cup {<<BranchStepId(b), Call(b)>>}
          /\ IF BranchStepId(b) \in memo
             THEN pc' = [pc EXCEPT ![b] = @ + 1] /\ UNCHANGED <<at, res, cancelled>>
             ELSE End(b, Yield(BranchStepId(b))) /\ UNCHANGED pc
          /\ UNCHANGED <<execVars, cur, replayed>>
    /\ UNCHANGED <<engine, fan, myDepth, claimsBefore, warned, undone>>

\* CompensateInBranch: registered for the run, for the step before it.
CompensateInBranch(b) ==
    /\ AtCall(b, "compensate")
    /\ comps' = Append(comps, <<b, pc[b] - 1>>)
    /\ pc' = [pc EXCEPT ![b] = @ + 1]
    /\ used' = [used EXCEPT ![b] = TRUE]
    /\ UNCHANGED <<engine, memo, next, outcome, ctxDone, executed, rootCount, depth, claims,
                   fanVars, at, count, cur, res, history>>

\* ParallelWithBranch.
OpenNested(b) ==
    /\ AtCall(b, "fan")
    /\ IF ctxDone
       THEN /\ End(b, Failed)
            /\ UNCHANGED <<depth, fan, myDepth, claimsBefore, warned, used>>
       ELSE LET f == Code(b)[pc[b]].fan IN
            /\ fan[f] = "closed" /\ OpenFan(f)
            /\ at' = [c \in Branches |-> IF c = b THEN "joining"
                                         ELSE IF c \in Team(f) THEN "starting" ELSE at[c]]
            /\ used' = [used EXCEPT ![b] = TRUE]
            /\ UNCHANGED res
    /\ UNCHANGED <<engine, memo, next, outcome, ctxDone, executed, comps, rootCount, claims,
                   pc, count, cur, history>>

\* The callback returns.
BranchReturns(b) ==
    /\ at[b] = "running" /\ pc[b] > Len(Code(b))
    /\ End(b, Ok)
    /\ UNCHANGED <<engine, execVars, fan, myDepth, claimsBefore, warned, pc, count, cur, used,
                   history>>
-----------------------------------------------------------------------------
(* wg.Wait and what the fan-out returns. *)

\* Mutant: errors are looked at before yields.
FanResult_ErrorsFirst(f) ==
    LET Of(kind) == {i \in DOMAIN Members[f] : res[Members[f][i]].kind = kind}
        First(S) == CHOOSE i \in S : \A j \in S : i <= j
    IN  IF cfg.failFast[f] /\ Of("error") # {} THEN res[Members[f][First(Of("error"))]]
        ELSE IF Of("yield") # {} THEN res[Members[f][First(Of("yield"))]]
        ELSE Ok

\* The first yield by index, else under failFast the first error by index.
FanResult(f) ==
    LET Of(kind) == {i \in DOMAIN Members[f] : res[Members[f][i]].kind = kind}
        First(S) == CHOOSE i \in S : \A j \in S : i <= j
    IN  IF Of("yield") # {} THEN res[Members[f][First(Of("yield"))]]
        ELSE IF cfg.failFast[f] /\ Of("error") # {} THEN res[Members[f][First(Of("error"))]]
        ELSE Ok

\* Mutant: the claims of the whole execution.
EnclosingClaimsFor_All(f) == IF myDepth[f] # 1 THEN 0 ELSE claims

\* enclosingClaimsFor: only the outermost fan-out is told of them.
EnclosingClaimsFor(f) == IF myDepth[f] # 1 THEN 0 ELSE claims - claimsBefore[f]

\* shouldWarnUnscoped refuses: a fan-out of this name was warned about before.
Warned(name) == \E w \in warned : cfg.name[w[1]] = name

\* warnUnscopedBranches: enclosing claims first, then a fan-out whose branches
\* all left their scope unused.  Both are silent for a name warned about before.
Warnings(f) ==
    IF cfg.skipCheck[f] \/ Warned(cfg.name[f]) THEN {}
    ELSE IF EnclosingClaimsFor(f) > 0 THEN {<<f, "claims">>}
    ELSE IF \A b \in Team(f) : ~used[b] /\ res[b].kind \in {"ok", "skipped"}
         THEN {<<f, "inert">>} ELSE {}

Joined(f) ==
    /\ fan[f] = "open" /\ \A b \in Team(f) : at[b] = "ended"
    /\ fan' = [fan EXCEPT ![f] = "joined"]
    /\ depth' = depth - 1
    /\ warned' = IF FanResult(f) = Ok THEN warned \cup Warnings(f) ELSE warned

\* In the handler.
JoinRoot(f) ==
    /\ IsRoot(f) /\ Joined(f)
    /\ IF FanResult(f) = Ok
       THEN next' = next + 1 /\ UNCHANGED outcome
       ELSE outcome' = FanResult(f) /\ UNCHANGED next
    /\ UNCHANGED <<engine, memo, ctxDone, executed, comps, rootCount, claims, cancelled,
                   myDepth, claimsBefore, branchVars, history>>

\* In the branch that opened it: a yield goes on up, an error is returned.
JoinNested(b) ==
    /\ at[b] = "joining"
    /\ LET f == Code(b)[pc[b]].fan IN
       /\ Joined(f)
       /\ IF FanResult(f) = Ok
          THEN /\ at' = [at EXCEPT ![b] = "running"]
               /\ pc' = [pc EXCEPT ![b] = @ + 1]
               /\ UNCHANGED <<res, cancelled>>
          ELSE End(b, FanResult(f)) /\ UNCHANGED pc
    /\ UNCHANGED <<engine, memo, next, outcome, ctxDone, executed, comps, rootCount, claims,
                   myDepth, claimsBefore, count, cur, used, history>>

HandlerReturns ==
    /\ status = "running" /\ outcome = None /\ next > Len(cfg.handler)
    /\ outcome' = Ok
    /\ UNCHANGED <<engine, memo, next, ctxDone, executed, comps, rootCount, depth, claims,
                   fanVars, branchVars, history>>
-----------------------------------------------------------------------------
BranchSteps(b) ==
    \/ Start(b) \/ RunWithBranch(b) \/ RunOnRoot(b) \/ BodyEnds(b) \/ SleepWithBranch(b)
    \/ CompensateInBranch(b) \/ OpenNested(b) \/ BranchReturns(b) \/ JoinNested(b)

HandlerSteps == OpenRoot \/ HandlerReturns \/ \E f \in Fans : JoinRoot(f)

EngineSteps == Assign \/ Wake \/ Report

Next ==
    \/ EngineSteps \/ HandlerSteps \/ \E b \in Branches : BranchSteps(b)
    \/ Abandoned \/ JobCancelled

Spec == Init /\ [][Next]_vars

\* Goroutines keep going, step bodies return, and the engine goes on with the run.
FairSpec ==
    /\ Spec
    /\ WF_vars(EngineSteps) /\ WF_vars(HandlerSteps)
    /\ \A b \in Branches : WF_vars(BranchSteps(b))
    /\ WF_vars(Abandoned /\ UNCHANGED faults)
-----------------------------------------------------------------------------
(* Properties. *)

\* The outcome of a fan-out by what its branches do one after the other, whatever
\* the scheduler does: a reference for Parallel.  Nested fan-outs open no others.
IdOf(b, j) ==
    LET name == Code(b)[j].name
        before == {i \in 1..(j - 1) : Code(b)[i].op \in {"run", "sleep"} /\ Code(b)[i].name = name}
    IN  <<Scope[b], name, Cardinality(before)>>

Stops(b, j) ==
    /\ \/ Code(b)[j].op = "sleep"
       \/ Code(b)[j].op = "run" /\ <<b, j>> \in cfg.fails
    /\ IdOf(b, j) \notin memo

LeafResult(b) ==
    LET S == {j \in DOMAIN Code(b) : Stops(b, j)}
        j == CHOOSE i \in S : \A k \in S : i <= k
    IN  IF S = {} THEN Ok
        ELSE IF Code(b)[j].op = "sleep" THEN Yield(IdOf(b, j))
        ELSE Failed

Pick(f, r) ==
    LET Of(kind) == {i \in DOMAIN Members[f] : r[Members[f][i]].kind = kind}
        First(S) == CHOOSE i \in S : \A j \in S : i <= j
    IN  IF Of("yield") # {} THEN r[Members[f][First(Of("yield"))]]
        ELSE IF cfg.failFast[f] /\ Of("error") # {} THEN Failed
        ELSE Ok

NestedResult(f) == Pick(f, [b \in Team(f) |-> LeafResult(b)])

BranchResult(b) ==
    LET Result(j) == IF Code(b)[j].op = "fan" THEN NestedResult(Code(b)[j].fan)
                     ELSE IF ~Stops(b, j) THEN Ok
                     ELSE IF Code(b)[j].op = "sleep" THEN Yield(IdOf(b, j)) ELSE Failed
        S == {j \in DOMAIN Code(b) : Result(j) # Ok}
    IN  IF S = {} THEN Ok ELSE Result(CHOOSE i \in S : \A k \in S : i <= k)

RunResult ==
    LET R(i) == Pick(cfg.handler[i], [b \in Team(cfg.handler[i]) |-> BranchResult(b)])
        S == {i \in DOMAIN cfg.handler : R(i) # Ok}
    IN  IF S = {} THEN Ok ELSE R(CHOOSE i \in S : \A k \in S : i <= k)

ScheduleFree == \A f \in Fans : cfg.limit[f] = 0 \/ ~cfg.failFast[f]
Scoped == \A b \in Branches : \A j \in DOMAIN Code(b) : Code(b)[j].op # "root"

\* Which yield or error an execution reports depends on the rows it was given
\* and on what the step bodies do, never on the order the goroutines ran in, as
\* long as no branch queues for a slot of a failFast fan-out ("the reported yield
\* depend on which goroutine the scheduler ran first", #2382).
ReportIsScheduleFree ==
    outcome # None /\ ~ctxDone /\ ScheduleFree /\ Scoped => outcome = RunResult

\* A step of a branch replays the row this very step wrote, and a step whose row
\* is stored does not run again, in whatever order the goroutines of the two
\* executions claimed their ids (generateStepID, scopePrefix).
StepsKeepTheirRows ==
    Scoped =>
        /\ \A r \in replayed : <<r[2], r[1]>> \in rows
        /\ \A b \in Branches : at[b] = "body" => \A r \in rows : r[2] # Call(b)

\* The calls with a compensation whose step is stored.
Compensated ==
    {c \in {r[2] : r \in rows} \ {Root} :
        /\ c[2] < Len(Code(c[1])) /\ Code(c[1])[c[2] + 1].op = "compensate"}

\* A run that fails has undone every step that is stored and has a compensation,
\* in whichever execution and branch it completed: every branch of the last
\* execution registered its compensations again before the fan-out returned the
\* error.  Excepted are fan-outs with a limit and failFast: a branch that is skipped
\* in the queue does not register the compensations of steps it completed in an
\* earlier execution; and steps on the enclosing context, which take other ids in a
\* replay: a branch may fail before a step it completed in an earlier execution.
FailedRunIsUndone ==
    status = "failed" /\ ScheduleFree /\ Scoped => Compensated \subseteq undone

\* The warning about steps on the enclosing context is right, although one counter
\* of claims serves all fan-outs (enclosingClaimsFor): of the fan-outs of the
\* handler that returned normally it names none but those in whose branches such a
\* step was claimed, and of these it misses only one that opted out
\* (SkipScopedClientCheck) or whose name was warned about already.
InFan(f, b) ==
    \/ b \in Team(f)
    \/ \E c \in Team(f) : \E j \in DOMAIN Code(c) : Code(c)[j].op = "fan" /\ b \in Team(Code(c)[j].fan)
RootClaim(f) == \E c \in claimed : c[1][1] = Root /\ InFan(f, c[2][1])
WarnsTheRightFanOut ==
    \A f \in Fans : IsRoot(f) /\ fan[f] = "joined" /\ outcome \in {None, Ok} =>
        /\ <<f, "claims">> \in warned => RootClaim(f)
        /\ RootClaim(f) /\ ~cfg.skipCheck[f] => Warned(cfg.name[f])

\* The run ends, although every execution reports one yield at most and branches
\* share the slots of a limit.
RunEnds == status = "ready" ~> status \in {"completed", "failed"} \/ execs = MaxExecs
=============================================================================
