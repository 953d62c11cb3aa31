---------------------------- MODULE MCMultiUnit ----------------------------
EXTENDS MultiUnit, TLC

\* Eight stages with the shape of templates/team.yaml: planning and its
\* confirmation; development, verification (no unit stage, so it falls out)
\* and review for every unit; a soft look at the whole; acceptance, which may
\* send the units back; a release gate, whose target lies before the units.
MCHardGates == {2, 7, 8}
MCRejectTo == (2 :> 1) @@ (7 :> 3) @@ (8 :> 1)
MCSoftGates == {6}
MCUnitStageIds == {3, 5}
MCLoopTo == (5 :> 3)
MCMaxRetries == (5 :> 1)

\* Two units: independent with the second more urgent, the first depending
\* on the second against its priority, and a cycle.
MCUnits == {1, 2}
MCSplits ==
  { [deps |-> (1 :> {} @@ 2 :> {}), priority |-> (1 :> 2 @@ 2 :> 1)],
    [deps |-> (1 :> {2} @@ 2 :> {}), priority |-> (1 :> 1 @@ 2 :> 2)],
    [deps |-> (1 :> {2} @@ 2 :> {1}), priority |-> (1 :> 1 @@ 2 :> 1)] }
=============================================================================
