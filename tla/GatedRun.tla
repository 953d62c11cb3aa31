------------------------------ MODULE GatedRun ------------------------------
(***************************************************************************)
(* What a run promises to the people who confirm it.  The hard human gates *)
(* of a pipeline are approved in their order; each approval uses up one    *)
(* answer that a human gave to that very gate while the run was paused; an *)
(* approval is withdrawn only together with all later ones; the run is     *)
(* completed only when every gate is approved, and completed is final.     *)
(***************************************************************************)
EXTENDS Integers

CONSTANT Gates   \* the gates, by their position in the pipeline, from 1 on

VARIABLES
  status,     \* what the run's report says
  approved,   \* the gates that count as approved
  answer      \* the gate an approval was given to and not yet used, or 0

vars == <<status, approved, answer>>

Resting == {"paused", "failed", "blocked"}

Init ==
  /\ status = "absent"
  /\ approved = {}
  /\ answer = 0

Begin ==
  /\ status = "absent"
  /\ status' \in {"running", "failed"}
  /\ UNCHANGED <<approved, answer>>

\* A human approves a gate; the run goes on.
Answer ==
  /\ status = "paused"
  /\ answer' \in Gates
  /\ status' = "running"
  /\ UNCHANGED approved

\* The run goes on without an approval; one that was not used is lost.
Continue ==
  /\ status \in Resting \cup {"running"}
  /\ status' = "running"
  /\ answer' = 0
  /\ UNCHANGED approved

Approve(g) ==
  /\ status = "running"
  /\ answer = g
  /\ {h \in Gates : h < g} \subseteq approved
  /\ approved' = approved \cup {g}
  /\ answer' = 0
  /\ UNCHANGED status

\* A rejection, a loopback or a crash.
Withdraw ==
  /\ status = "running"
  /\ approved' \subseteq approved
  /\ \A g \in approved', h \in approved : h < g => h \in approved'
  /\ answer' \in {answer, 0}
  /\ UNCHANGED status

Rest ==
  /\ status = "running"
  /\ status' \in Resting
  /\ answer' = 0
  /\ UNCHANGED approved

\* The record of approvals is closed with the run.
Complete ==
  /\ status = "running"
  /\ approved = Gates
  /\ status' = "completed"
  /\ approved' = {}
  /\ answer' = 0

Next ==
  \/ Begin \/ Answer \/ Continue \/ Withdraw \/ Rest \/ Complete
  \/ \E g \in Gates : Approve(g)

Spec == Init /\ [][Next]_vars

=============================================================================
