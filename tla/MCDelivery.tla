----------------------------- MODULE MCDelivery -----------------------------
EXTENDS Delivery, TLC

MCRuns == {"r1", "r2"}

Plan(way, host, tidy, squash, waits) ==
  [way |-> way, host |-> host, tidyOnFailure |-> tidy, squash |-> squash,
   waits |-> waits]

\* One run is squashed; the other is delivered in any way.
MCPlans ==
  { [r1 |-> Plan("merge", "github", FALSE, TRUE, FALSE), r2 |-> p] :
      p \in { Plan("merge", "github", FALSE, TRUE, FALSE),
              Plan("merge", "github", TRUE, TRUE, FALSE),
              Plan("merge", "github", FALSE, FALSE, FALSE),
              Plan("pull", "github", FALSE, TRUE, TRUE),
              Plan("pull", "gitlab", FALSE, TRUE, TRUE),
              Plan("pull", "gitlab", FALSE, TRUE, FALSE),
              Plan("keep", "github", FALSE, TRUE, FALSE) } }
=============================================================================
