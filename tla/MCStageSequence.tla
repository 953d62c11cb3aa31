-------------------------- MODULE MCStageSequence --------------------------
EXTENDS StageSequence, TLC

\* Eight stages: planning that qa and review both send back, with budgets of
\* their own, and its confirmation; then, after templates/team.yaml,
\* development, a soft confirmation, a review that loops back, acceptance.
MCHardGates == {4, 8}
MCSoftGates == {6}
MCRejectTo == (4 :> 1) @@ (8 :> 5)
MCLoopStages == {2, 3, 7}
MCLoopTo == (2 :> 1) @@ (3 :> 1) @@ (7 :> 5)
MCMaxRetries == (2 :> 2) @@ (3 :> 1) @@ (7 :> 1)
MCReview == {3, 7}
MCAcceptance == {8}
=============================================================================
