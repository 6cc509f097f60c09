--------------------------- MODULE MCTransaction ---------------------------
(***************************************************************************)
(* Instances of module Transaction: three units and all dependency graphs  *)
(* with a few edges of the types a run is about.                           *)
(***************************************************************************)
EXTENDS Transaction, TLC

CONSTANTS a, b, c

Units == {a, b, c}
JustC == {c}
NoUnits == {}
TwoStates == {"active", "inactive"}
Reloading == {"active", "inactive", "reloading"}
NoPropagations == {}

Edges(T) == {e \in T \X Units \X Units : e[2] # e[3]}
Graphs1(T) == {{}} \cup {{d} : d \in Edges(T)}

\* Every graph of up to three edges one of which pulls a unit in; b and c are
\* alike.
DepsPulled ==
    {{d, e, f} : d \in Edges({"requires", "wants"}),
                 e, f \in Edges({"requires", "wants", "conflicts", "part_of"})}
RequestsPulled == {<<"start", a, "fail">>, <<"start", a, "replace">>,
                   <<"stop", a, "fail">>, <<"restart", a, "replace">>}
OthersAlike == Permutations({b, c})

\* One request on top of what another one installed: requirements and
\* conflicts, or units ordered in a circle.
Circles == {{<<"after", a, b>>, <<"after", b, a>>},
            {<<"after", a, b>>, <<"after", b, c>>, <<"after", c, a>>}}
DepsInstalled ==
    {{d, e} : d \in Edges({"requires"}), e \in Edges({"requires", "conflicts"})}
    \cup {A \cup W : A \in Circles, W \in Graphs1({"requires", "wants"})}
RequestsInstalled ==
    ({"start", "stop"} \X {a, b} \X {"fail"})
    \cup {<<"start", a, "replace-irreversibly">>, <<"stop", a, "replace-irreversibly">>,
          <<"start", b, "isolate">>, <<"stop", a, "flush">>}

\* The rest of the dependency types, job types and modes, and contradictions
\* and circles at once.
DepsRest ==
    Graphs1({"following", "binds_to", "requisite", "triggers", "propagates_reload_to"})
    \cup {{<<"following", a, b>>, <<"propagates_reload_to", a, b>>},
          {<<"binds_to", b, a>>, <<"binds_to", c, b>>}}
    \cup {A \cup {<<"wants", a, c>>, d} : A \in Circles, d \in Edges({"requires", "conflicts"})}
RequestsRest ==
    ({"try-restart", "reload", "reload-or-start", "verify-active"} \X {a} \X {"replace"})
    \cup {<<"start", a, "ignore-requirements">>, <<"start", a, "ignore-dependencies">>, <<"stop", a, "triggering">>,
          <<"start", a, "isolate">>, <<"start", a, "fail">>, <<"restart", a, "replace">>}
PropagationsRest == {<<b, "replace">>}
=============================================================================
