-------------------------- MODULE MCRunLifecycle --------------------------
EXTENDS RunLifecycle, TLC

CONSTANTS create1, create2, decide1, decide2, resume1, cancel1, archive1

MCKind ==
  [r \in Requests |->
     CASE r \in {create1, create2} -> "create"
       [] r \in {decide1, decide2} -> "decide"
       [] r = resume1 -> "resume"
       [] r = cancel1 -> "cancel"
       [] OTHER -> "archive"]

\* Each rejection sends the work back before the first gate.
MCReworkOf == [g \in 1..Gates |-> 0]

MCSymmetry ==
  Permutations({create1, create2}) \cup Permutations({decide1, decide2})
=============================================================================
