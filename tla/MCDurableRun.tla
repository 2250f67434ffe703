---------------------------- MODULE MCDurableRun ----------------------------
(***************************************************************************)
(* Handlers and bounds for model checking DurableRun.                      *)
(***************************************************************************)
EXTENDS DurableRun

Call(op, n) == [op |-> op, name |-> n]

\* A saga: two steps and their compensations, the second registered before its
\* step, so that both are there when it fails.
SagaProgram == <<Call("run", "a"), Call("compensate", "a"), Call("compensate", "b"),
                 Call("run", "b")>>

\* A repeated step name before a call the engine resolves.
PauseProgram == <<Call("run", "a"), Call("run", "a"), Call("invoke", "b")>>

\* Every kind of call the engine resolves, two of them under one name.
AwaitProgram == <<Call("sleep", "a"), Call("wait", "a"), Call("run", "b"),
                  Call("invokeAsync", "b")>>
=============================================================================
