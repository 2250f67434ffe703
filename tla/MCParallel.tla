----------------------------- MODULE MCParallel -----------------------------
(* Small instances of Parallel. *)
EXTENDS Parallel, TLC

Run(n) == [op |-> "run", name |-> n]
Sleep(n) == [op |-> "sleep", name |-> n]
OnRoot(n) == [op |-> "root", name |-> n]
Compensate == [op |-> "compensate"]
Fan(f) == [op |-> "fan", fan |-> f]

\* The handler opens f1, with the branches b1 and b2, and then f3, with b5; b2
\* opens f2, with b3 and b4.
MCFans == {"f1", "f2", "f3"}
MCBranches == {"b1", "b2", "b3", "b4", "b5"}
MCMembers == ("f1" :> <<"b1", "b2">>) @@ ("f2" :> <<"b3", "b4">>) @@ ("f3" :> <<"b5">>)
MCScope == [b \in MCBranches |-> b]

\* Steps in their scopes, with a sleep in two branches at a time.
ScopedCode ==
    ("b1" :> <<Sleep("z"), Run("a")>>) @@ ("b2" :> <<Fan("f2"), Run("a")>>)
    @@ ("b3" :> <<Sleep("z")>>) @@ ("b4" :> <<Run("a"), Compensate>>)
    @@ ("b5" :> <<Run("a"), Run("a")>>)

\* Some steps on the context of the handler, and a fan-out f2 that leaves its
\* scopes unused.
RootCode(last) ==
    ("b1" :> <<OnRoot("a")>>) @@ ("b2" :> <<Fan("f2")>>)
    @@ ("b3" :> <<OnRoot("a")>>) @@ ("b4" :> <<>>) @@ ("b5" :> <<last>>)

\* The fan-outs of the handler differ in name; f2 may share either's.
Config(code, name2, l1, l2, ff1, ff2, skips, fails) ==
    [handler |-> <<"f1", "f3">>, code |-> code,
     name |-> ("f1" :> "a") @@ ("f2" :> name2) @@ ("f3" :> "z"),
     limit |-> ("f1" :> l1) @@ ("f2" :> l2) @@ ("f3" :> 0),
     failFast |-> ("f1" :> ff1) @@ ("f2" :> ff2) @@ ("f3" :> TRUE),
     skipCheck |-> [f \in MCFans |-> f \in skips],
     fails |-> fails]

MCConfigs ==
    {Config(ScopedCode, "a", l, 0, ff1, ff2, {}, fails) :
        l \in {0, 1}, ff1 \in BOOLEAN, ff2 \in BOOLEAN,
        fails \in SUBSET {<<"b1", 2>>, <<"b2", 2>>, <<"b4", 1>>}}
    \cup {Config(RootCode(last), name2, 0, l, TRUE, TRUE, skips, {}) :
        last \in {Run("a"), OnRoot("a")}, name2 \in {"a", "z"}, l \in {0, 1},
        skips \in {{}, {"f1"}, {"f2"}}}
=============================================================================
