------------------------------- MODULE MCJobs -------------------------------
(***************************************************************************)
(* Small instances of the job engine.                                      *)
(***************************************************************************)
EXTENDS Jobs, TLC

CONSTANTS a, b, c

TwoUnits == {a, b}
ThreeUnits == {a, b, c}

\* Dependencies given as a set of <<d, u, v>>: v is in u->dependencies[d].
DepOf(E) == [d \in DepType |-> [u \in Unit |-> {v \in Unit : <<d, u, v>> \in E}]]

\* b starts after a and requires it.
DepRequires == DepOf({<<"after", b, a>>, <<"required_by", a, b>>})

\* b starts after a, requires it and is bound to it; a is started when b fails.
DepBinds == DepOf({<<"after", b, a>>, <<"required_by", a, b>>, <<"bound_by", a, b>>,
                   <<"on_failure", b, a>>})

\* c conflicts with a, comes after b and wants it; a is the requisite of b; c
\* is started when b fails.
DepMixed == DepOf({<<"after", c, b>>, <<"wanted_by", b, c>>, <<"conflicted_by", a, c>>,
                   <<"requisite_of", a, b>>, <<"after", b, a>>, <<"on_failure", b, c>>})

Tr(u, t, J) == [anchor |-> u, type |-> t, jobs |-> J]

\* What the transaction code makes of a request when b needs a.
TrStart == {Tr(a, "start", {<<a, "start">>}),
            Tr(b, "start", {<<a, "start">>, <<b, "start">>})}
TrStop == {Tr(a, "stop", {<<a, "stop">>, <<b, "stop">>}),
           Tr(b, "stop", {<<b, "stop">>})}
TrRestart == {Tr(a, "restart", {<<a, "restart">>, <<b, "restart">>}),
              Tr(b, "restart", {<<a, "start">>, <<b, "restart">>})}
TrReload == {Tr(u, "reload", {<<u, "reload">>}) : u \in Unit}
TrVerify == {Tr(b, "start", {<<a, "verify-active">>, <<b, "start">>})}

\* What it makes of a request in DepMixed.
TrMixed == {Tr(a, "start", {<<a, "start">>, <<c, "stop">>}),
            Tr(b, "start", {<<a, "verify-active">>, <<b, "start">>}),
            Tr(c, "start", {<<c, "start">>, <<b, "start">>, <<a, "stop">>})}

\* Two units that are only ordered.
DepOrdered == DepOf({<<"after", b, a>>})
TrSolo == {Tr(b, "start", {<<b, "start">>}), Tr(b, "stop", {<<b, "stop">>}),
           Tr(a, "start", {<<a, "start">>}), Tr(a, "stop", {<<a, "stop">>})}

TrAll == TrStart \cup TrStop \cup TrRestart \cup TrReload \cup TrVerify
TrModes == TrAll \ {Tr(a, "reload", {<<a, "reload">>})}

\* What a unit does by itself.
Progress == {<<"activating", "active">>, <<"activating", "failed">>,
             <<"activating", "inactive">>, <<"deactivating", "inactive">>,
             <<"deactivating", "failed">>, <<"reloading", "active">>}
ProgressDown == Progress \cup {<<"active", "failed">>, <<"inactive", "active">>}
\* A start that ends in inactive is done or skipped, not failed.
ProgressMixed == ProgressDown \ {<<"activating", "inactive">>}

JobSymmetry == Permutations(Job)
=============================================================================
