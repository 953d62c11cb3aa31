--------------------------- MODULE DeliveryProofs ---------------------------
(***************************************************************************)
(* Proofs about Delivery, for every number of runs, every configuration    *)
(* and any crashes and removals: what a run made is not destroyed, and a   *)
(* run completed by way of a pull request has one that holds its work.     *)
(***************************************************************************)
EXTENDS Delivery, TLAPS

-----------------------------------------------------------------------------
(* The inductive invariant.                                                *)

ShapeInv ==
  /\ pc = [r \in Runs |-> pc[r]] /\ status = [r \in Runs |-> status[r]]
  /\ outcome = [r \in Runs |-> outcome[r]]
  /\ tree = [r \in Runs |-> tree[r]] /\ branch = [r \in Runs |-> branch[r]]
  /\ remote = [r \in Runs |-> remote[r]] /\ checks = [r \in Runs |-> checks[r]]
  /\ ci = [r \in Runs |-> ci[r]]

Merging == {"checkout", "squash", "seal", "tidy"}
Pulling == {"push", "open", "checks"}

\* Where a worker is says how its run is delivered and what it has.
Placed(r) ==
    /\ plan[r].way \in Ways
    /\ pc[r] \in Merging => plan[r].way = "merge"
    /\ pc[r] \in Pulling => plan[r].way = "pull" /\ tree[r] # "dirty"
    /\ pc[r] # "off" => status[r] = "running"
    /\ pc[r] = "create" => tree[r] = "none"
    /\ pc[r] \notin {"off", "create"} => tree[r] # "none"
    /\ branch[r] \in {"none", "base", "work"}
    /\ tree[r] # "none" => branch[r] # "none"
    /\ pc[r] \in Merging => tree[r] # "dirty" \/ r \in refused

\* Between squash and cleanup: the work is staged or on the target, or
\* another run came by.
Unmixed(r) ==
    /\ pc[r] = "seal" =>
         \/ r \in shared
         \/ ~conflicted /\ (branch[r] = "work" => r \in staged \cup main)
    /\ (pc[r] = "tidy" /\ outcome[r] \in {"merged", "no_changes"}) =>
         (branch[r] = "work" => r \in main \cup shared \cup refused)

Excused(r) == plan[r].tidyOnFailure \/ r \in refused \cup shared \cup removed

\* WorkSurvives, and where there is no work tree the branch does not count.
Kept(r) ==
    /\ Somewhere(r) \/ Excused(r)
    /\ tree[r] = "none" => remote[r] = "work" \/ r \in main \/ Excused(r)

MayBeEmpty(r) == r \notin made \/ r \in removed \/ plan[r].tidyOnFailure

\* The way of the work to the pull request.
Offered(r) ==
    /\ (plan[r].way = "pull" /\ ~MayBeEmpty(r)) =>
         tree[r] # "none" /\ (tree[r] = "dirty" \/ branch[r] = "work")
    /\ (r \in pull /\ ~On(r, "gitlab")) => remote[r] = "work"
    /\ pc[r] = "checks" => ci[r] \in {"no_checks", "pending", "passed", "failed"}
    /\ pc[r] = "open" => remote[r] = "work" \/ MayBeEmpty(r)
    /\ (pc[r] = "checks" \/ (status[r] = "completed" /\ plan[r].way = "pull")) =>
         /\ r \in pull
         /\ remote[r] = "work" \/ (On(r, "gitlab") /\ MayBeEmpty(r))
    /\ (status[r] = "completed" /\ plan[r].way = "pull") =>
         \/ checks[r] \in {"passed", "no_checks"}
         \/ checks[r] = "unasked" /\ (~plan[r].waits \/ On(r, "github"))

PlaceInv == \A r \in Runs : Placed(r)
CheckoutInv == \A r \in Runs : Unmixed(r)
SurviveInv == \A r \in made : Kept(r)
PullInv == \A r \in Runs : Offered(r)
MadeInv == made \subseteq Runs

DeliveryInv ==
  ShapeInv /\ MadeInv /\ PlaceInv /\ CheckoutInv /\ SurviveInv /\ PullInv

-----------------------------------------------------------------------------

\* Before the first attempt there is no tree, no branch and no pull request.
LEMMA InitHolds == ASSUME Init PROVE DeliveryInv
<1>1. ShapeInv /\ MadeInv
  BY DEF Init, ShapeInv, MadeInv
<1>2. PlaceInv
  <2>1. \A r \in Runs : plan[r].way \in Ways
    BY DeliveryAssumption DEF Init
  <2> QED BY <2>1 DEF Init, PlaceInv, Placed, Merging, Pulling
<1>3. CheckoutInv
  BY DEF Init, CheckoutInv, Unmixed
<1>4. SurviveInv
  BY DEF Init, SurviveInv
<1>5. PullInv
  BY DEF Init, PullInv, Offered, MayBeEmpty
<1> QED BY <1>1, <1>2, <1>3, <1>4, <1>5 DEF DeliveryInv

\* What a step of one run leaves to the others.
Same(q) ==
  /\ plan' = plan /\ conflicted' = conflicted
  /\ pc'[q] = pc[q] /\ status'[q] = status[q] /\ outcome'[q] = outcome[q]
  /\ tree'[q] = tree[q] /\ branch'[q] = branch[q] /\ remote'[q] = remote[q]
  /\ checks'[q] = checks[q] /\ ci'[q] = ci[q]
  /\ (q \in pull') = (q \in pull) /\ (q \in made') = (q \in made)
  /\ (q \in main') = (q \in main) /\ (q \in staged') = (q \in staged)
  /\ (q \in refused') = (q \in refused) /\ (q \in shared') = (q \in shared)
  /\ (q \in removed') = (q \in removed)

\* It disturbs nothing that is said of them.
LEMMA Frame ==
  ASSUME NEW q, Same(q)
  PROVE  /\ Placed(q) => Placed(q)'
         /\ Unmixed(q) => Unmixed(q)'
         /\ Kept(q) => Kept(q)'
         /\ Offered(q) => Offered(q)'
<1>1. Placed(q) => Placed(q)'
  BY DEF Same, Placed
<1>2. Unmixed(q) => Unmixed(q)'
  BY DEF Same, Unmixed
<1>3. Kept(q) => Kept(q)'
  BY DEF Same, Kept, Excused, Somewhere
<1>4. Offered(q) => Offered(q)'
  BY DEF Same, Offered, MayBeEmpty, On
<1> QED BY <1>1, <1>2, <1>3, <1>4

\* The variables stay functions on runs.
LEMMA ShapeKept == ASSUME ShapeInv, MadeInv, Next PROVE ShapeInv'
<1> USE DEF ShapeInv, checkout, github, history
<1>1. ASSUME NEW r \in Runs, Start(r) PROVE ShapeInv'
  BY <1>1 DEF Start, Begin, Goto, At
<1>2. ASSUME NEW r \in Runs, Resume(r) PROVE ShapeInv'
  BY <1>2 DEF Resume, Begin, Goto, At
<1>3. ASSUME NEW r \in Runs, CreateTree(r) PROVE ShapeInv'
  BY <1>3 DEF CreateTree, Goto, At
<1>4. ASSUME NEW r \in Runs, CreateFails(r) PROVE ShapeInv'
  BY <1>4 DEF CreateFails, Goto, At
<1>5. ASSUME NEW r \in Runs, RunStages(r) PROVE ShapeInv'
  BY <1>5 DEF RunStages, Goto, At
<1>6. ASSUME NEW r \in Runs, Fail(r) PROVE ShapeInv'
  BY <1>6 DEF Fail, End, RemoveTree, Goto, At
<1>7. ASSUME NEW r \in Runs, Keep(r) PROVE ShapeInv'
  BY <1>7 DEF Keep, End, Goto, At
<1>8. ASSUME NEW r \in Runs, CommitWork(r) PROVE ShapeInv'
  BY <1>8 DEF CommitWork, AfterCommit, Goto, At
<1>9. ASSUME NEW r \in Runs, CommitRefused(r) PROVE ShapeInv'
  BY <1>9 DEF CommitRefused, End, Goto, At
<1>10. ASSUME NEW r \in Runs, AddFails(r) PROVE ShapeInv'
  BY <1>10 DEF AddFails, Goto, At
<1>11. ASSUME NEW r \in Runs, CheckoutTarget(r) PROVE ShapeInv'
  BY <1>11 DEF CheckoutTarget, Goto, At
<1>12. ASSUME NEW r \in Runs, SquashWork(r) PROVE ShapeInv'
  BY <1>12 DEF SquashWork, Meet, Others, Goto, At
<1>13. ASSUME NEW r \in Runs, SquashConflicts(r) PROVE ShapeInv'
  BY <1>13 DEF SquashConflicts, Meet, Others, Goto, At
<1>14. ASSUME NEW r \in Runs, SquashBlocked(r) PROVE ShapeInv'
  BY <1>14 DEF SquashBlocked, Goto, At
<1>15. ASSUME NEW r \in Runs, Seal(r) PROVE ShapeInv'
  BY <1>15 DEF Seal, Sealed, Meet, Others, Goto, At
<1>16. ASSUME NEW r \in Runs, SealNothing(r) PROVE ShapeInv'
  BY <1>16 DEF SealNothing, Sealed, Meet, Others, Goto, At
<1>17. ASSUME NEW r \in Runs, Tidy(r) PROVE ShapeInv'
  BY <1>17 DEF Tidy, End, RemoveTree, Goto, At
<1>18. ASSUME NEW r \in Runs, Push(r) PROVE ShapeInv'
  BY <1>18 DEF Push, Goto, At
<1>19. ASSUME NEW r \in Runs, PushFails(r) PROVE ShapeInv'
  BY <1>19 DEF PushFails, Refuse, End, Goto, At
<1>20. ASSUME NEW r \in Runs, OpenPull(r) PROVE ShapeInv'
  BY <1>20 DEF OpenPull, On, Goto, At
<1>21. ASSUME NEW r \in Runs, OpenFails(r) PROVE ShapeInv'
  BY <1>21 DEF OpenFails, On, Refuse, Throw, End, Goto, At
<1>22. ASSUME NEW r \in Runs, AwaitChecks(r) PROVE ShapeInv'
  BY <1>22 DEF AwaitChecks, Verdict, Conclude, Blocks, End, Goto, At
<1>23. ASSUME NEW r \in Runs, QueryFails(r) PROVE ShapeInv'
  BY <1>23 DEF QueryFails, On, Throw, Conclude, Blocks, End, Goto, At
<1>24. ASSUME NEW r \in Runs, ChecksMove(r) PROVE ShapeInv'
  BY <1>24 DEF ChecksMove, At
<1>25. ASSUME NEW r \in Runs, TimePasses(r) PROVE ShapeInv'
  BY <1>25 DEF TimePasses, At
<1>26. ASSUME NEW r \in Runs, Crash(r) PROVE ShapeInv'
  BY <1>26 DEF Crash, At, Goto
<1>27. ASSUME NEW r \in Runs, RemoveByHand(r) PROVE ShapeInv'
  BY <1>27 DEF RemoveByHand, At
<1>28. ASSUME ResetCheckout PROVE ShapeInv'
  BY <1>28 DEF ResetCheckout
<1>29. ASSUME NEW r \in Runs, MergeWork(r) PROVE ShapeInv'
  BY <1>29 DEF MergeWork, Meet, Others, Goto, At
<1>30. ASSUME NEW r \in Runs, OpenUnasked(r) PROVE ShapeInv'
  BY <1>30 DEF OpenUnasked, On, End, Goto, At
<1> QED BY <1>1, <1>2, <1>3, <1>4, <1>5, <1>6, <1>7, <1>8, <1>9, <1>10,
           <1>11, <1>12, <1>13, <1>14, <1>15, <1>16, <1>17, <1>18, <1>19,
           <1>20, <1>21, <1>22, <1>23, <1>24, <1>25, <1>26, <1>27, <1>28,
           <1>29, <1>30
        DEF Next, Worker

\* Only runs make something.
LEMMA MadeKept == ASSUME ShapeInv, MadeInv, Next PROVE MadeInv'
<1> USE DEF MadeInv, checkout, github, history
<1>1. ASSUME NEW r \in Runs, Start(r) PROVE MadeInv'
  BY <1>1 DEF Start, Begin, Goto, At
<1>2. ASSUME NEW r \in Runs, Resume(r) PROVE MadeInv'
  BY <1>2 DEF Resume, Begin, Goto, At
<1>3. ASSUME NEW r \in Runs, CreateTree(r) PROVE MadeInv'
  BY <1>3 DEF CreateTree, Goto, At
<1>4. ASSUME NEW r \in Runs, CreateFails(r) PROVE MadeInv'
  BY <1>4 DEF CreateFails, Goto, At
<1>5. ASSUME NEW r \in Runs, RunStages(r) PROVE MadeInv'
  BY <1>5 DEF RunStages, Goto, At
<1>6. ASSUME NEW r \in Runs, Fail(r) PROVE MadeInv'
  BY <1>6 DEF Fail, End, RemoveTree, Goto, At
<1>7. ASSUME NEW r \in Runs, Keep(r) PROVE MadeInv'
  BY <1>7 DEF Keep, End, Goto, At
<1>8. ASSUME NEW r \in Runs, CommitWork(r) PROVE MadeInv'
  BY <1>8 DEF CommitWork, AfterCommit, Goto, At
<1>9. ASSUME NEW r \in Runs, CommitRefused(r) PROVE MadeInv'
  BY <1>9 DEF CommitRefused, End, Goto, At
<1>10. ASSUME NEW r \in Runs, AddFails(r) PROVE MadeInv'
  BY <1>10 DEF AddFails, Goto, At
<1>11. ASSUME NEW r \in Runs, CheckoutTarget(r) PROVE MadeInv'
  BY <1>11 DEF CheckoutTarget, Goto, At
<1>12. ASSUME NEW r \in Runs, SquashWork(r) PROVE MadeInv'
  BY <1>12 DEF SquashWork, Meet, Others, Goto, At
<1>13. ASSUME NEW r \in Runs, SquashConflicts(r) PROVE MadeInv'
  BY <1>13 DEF SquashConflicts, Meet, Others, Goto, At
<1>14. ASSUME NEW r \in Runs, SquashBlocked(r) PROVE MadeInv'
  BY <1>14 DEF SquashBlocked, Goto, At
<1>15. ASSUME NEW r \in Runs, Seal(r) PROVE MadeInv'
  BY <1>15 DEF Seal, Sealed, Meet, Others, Goto, At
<1>16. ASSUME NEW r \in Runs, SealNothing(r) PROVE MadeInv'
  BY <1>16 DEF SealNothing, Sealed, Meet, Others, Goto, At
<1>17. ASSUME NEW r \in Runs, Tidy(r) PROVE MadeInv'
  BY <1>17 DEF Tidy, End, RemoveTree, Goto, At
<1>18. ASSUME NEW r \in Runs, Push(r) PROVE MadeInv'
  BY <1>18 DEF Push, Goto, At
<1>19. ASSUME NEW r \in Runs, PushFails(r) PROVE MadeInv'
  BY <1>19 DEF PushFails, Refuse, End, Goto, At
<1>20. ASSUME NEW r \in Runs, OpenPull(r) PROVE MadeInv'
  BY <1>20 DEF OpenPull, On, Goto, At
<1>21. ASSUME NEW r \in Runs, OpenFails(r) PROVE MadeInv'
  BY <1>21 DEF OpenFails, On, Refuse, Throw, End, Goto, At
<1>22. ASSUME NEW r \in Runs, AwaitChecks(r) PROVE MadeInv'
  BY <1>22 DEF AwaitChecks, Verdict, Conclude, Blocks, End, Goto, At
<1>23. ASSUME NEW r \in Runs, QueryFails(r) PROVE MadeInv'
  BY <1>23 DEF QueryFails, On, Throw, Conclude, Blocks, End, Goto, At
<1>24. ASSUME NEW r \in Runs, ChecksMove(r) PROVE MadeInv'
  BY <1>24 DEF ChecksMove, At
<1>25. ASSUME NEW r \in Runs, TimePasses(r) PROVE MadeInv'
  BY <1>25 DEF TimePasses, At
<1>26. ASSUME NEW r \in Runs, Crash(r) PROVE MadeInv'
  BY <1>26 DEF Crash, At, Goto
<1>27. ASSUME NEW r \in Runs, RemoveByHand(r) PROVE MadeInv'
  BY <1>27 DEF RemoveByHand, At
<1>28. ASSUME ResetCheckout PROVE MadeInv'
  BY <1>28 DEF ResetCheckout
<1>29. ASSUME NEW r \in Runs, MergeWork(r) PROVE MadeInv'
  BY <1>29 DEF MergeWork, Meet, Others, Goto, At
<1>30. ASSUME NEW r \in Runs, OpenUnasked(r) PROVE MadeInv'
  BY <1>30 DEF OpenUnasked, On, End, Goto, At
<1> QED BY <1>1, <1>2, <1>3, <1>4, <1>5, <1>6, <1>7, <1>8, <1>9, <1>10,
           <1>11, <1>12, <1>13, <1>14, <1>15, <1>16, <1>17, <1>18, <1>19,
           <1>20, <1>21, <1>22, <1>23, <1>24, <1>25, <1>26, <1>27, <1>28,
           <1>29, <1>30
        DEF Next, Worker

\* A worker goes where its plan leads, and takes what it has with it.
LEMMA PlaceKept == ASSUME ShapeInv, PlaceInv, Next PROVE PlaceInv'
<1> USE DEF ShapeInv, PlaceInv, Placed, Ways, Merging, Pulling, checkout, github, history
<1>1. ASSUME NEW r \in Runs, Start(r) PROVE PlaceInv'
  BY <1>1 DEF Start, Begin, Goto, At
<1>2. ASSUME NEW r \in Runs, Resume(r) PROVE PlaceInv'
  BY <1>2 DEF Resume, Begin, Goto, At
<1>3. ASSUME NEW r \in Runs, CreateTree(r) PROVE PlaceInv'
  BY <1>3 DEF CreateTree, Goto, At
<1>4. ASSUME NEW r \in Runs, CreateFails(r) PROVE PlaceInv'
  BY <1>4 DEF CreateFails, Goto, At
<1>5. ASSUME NEW r \in Runs, RunStages(r) PROVE PlaceInv'
  BY <1>5 DEF RunStages, Goto, At
<1>6. ASSUME NEW r \in Runs, Fail(r) PROVE PlaceInv'
  <2>1. /\ pc' = [pc EXCEPT ![r] = "off"] /\ status' = [status EXCEPT ![r] = "failed"]
        /\ UNCHANGED <<plan, outcome, checkout, github, history>>
        /\ pc[r] = "failing"
    BY <1>6 DEF Fail, End, Goto, At
  <2>2. \/ UNCHANGED <<tree, branch>>
        \/ /\ plan[r].tidyOnFailure
           /\ tree' = [tree EXCEPT ![r] = "none"] /\ branch' = [branch EXCEPT ![r] = "none"]
    BY <1>6 DEF Fail, RemoveTree
  <2> HIDE DEF ShapeInv, Placed
  <2>3. PlaceInv'
    <3> SUFFICES ASSUME NEW q \in Runs PROVE Placed(q)'
      BY DEF PlaceInv
    <3>0. q \in Runs => Placed(q)
      BY DEF PlaceInv
    <3>1. CASE q = r
      BY <2>1, <2>2, <3>0, <3>1 DEF ShapeInv, Placed
    <3>2. CASE q # r
      <4>1. Same(q)
        BY <2>1, <2>2, <3>2 DEF ShapeInv, Same
      <4> QED BY <3>0, <4>1, Frame
    <3> QED BY <3>1, <3>2
  <2> QED BY <2>3
<1>7. ASSUME NEW r \in Runs, Keep(r) PROVE PlaceInv'
  BY <1>7 DEF Keep, End, Goto, At
<1>8. ASSUME NEW r \in Runs, CommitWork(r) PROVE PlaceInv'
  BY <1>8 DEF CommitWork, AfterCommit, Goto, At
<1>9. ASSUME NEW r \in Runs, CommitRefused(r) PROVE PlaceInv'
  BY <1>9 DEF CommitRefused, End, Goto, At
<1>10. ASSUME NEW r \in Runs, AddFails(r) PROVE PlaceInv'
  BY <1>10 DEF AddFails, Goto, At
<1>11. ASSUME NEW r \in Runs, CheckoutTarget(r) PROVE PlaceInv'
  BY <1>11 DEF CheckoutTarget, Goto, At
<1>12. ASSUME NEW r \in Runs, SquashWork(r) PROVE PlaceInv'
  BY <1>12 DEF SquashWork, Meet, Others, Goto, At
<1>13. ASSUME NEW r \in Runs, SquashConflicts(r) PROVE PlaceInv'
  BY <1>13 DEF SquashConflicts, Meet, Others, Goto, At
<1>14. ASSUME NEW r \in Runs, SquashBlocked(r) PROVE PlaceInv'
  BY <1>14 DEF SquashBlocked, Goto, At
<1>15. ASSUME NEW r \in Runs, Seal(r) PROVE PlaceInv'
  BY <1>15 DEF Seal, Sealed, Meet, Others, Goto, At
<1>16. ASSUME NEW r \in Runs, SealNothing(r) PROVE PlaceInv'
  BY <1>16 DEF SealNothing, Sealed, Meet, Others, Goto, At
<1>17. ASSUME NEW r \in Runs, Tidy(r) PROVE PlaceInv'
  <2>1. /\ pc' = [pc EXCEPT ![r] = "off"] /\ status' = [status EXCEPT ![r] = "completed"]
        /\ UNCHANGED <<plan, outcome, checkout, github, history>>
        /\ pc[r] = "tidy"
    BY <1>17 DEF Tidy, End, Goto, At
  <2>2. \/ UNCHANGED <<tree, branch>>
        \/ /\ outcome[r] \in {"merged", "no_changes"}
           /\ tree' = [tree EXCEPT ![r] = "none"] /\ branch' = [branch EXCEPT ![r] = "none"]
    BY <1>17 DEF Tidy, RemoveTree
  <2> HIDE DEF ShapeInv, Placed
  <2>3. PlaceInv'
    <3> SUFFICES ASSUME NEW q \in Runs PROVE Placed(q)'
      BY DEF PlaceInv
    <3>0. q \in Runs => Placed(q)
      BY DEF PlaceInv
    <3>1. CASE q = r
      BY <2>1, <2>2, <3>0, <3>1 DEF ShapeInv, Placed
    <3>2. CASE q # r
      <4>1. Same(q)
        BY <2>1, <2>2, <3>2 DEF ShapeInv, Same
      <4> QED BY <3>0, <4>1, Frame
    <3> QED BY <3>1, <3>2
  <2> QED BY <2>3
<1>18. ASSUME NEW r \in Runs, Push(r) PROVE PlaceInv'
  BY <1>18 DEF Push, Goto, At
<1>19. ASSUME NEW r \in Runs, PushFails(r) PROVE PlaceInv'
  BY <1>19 DEF PushFails, Refuse, End, Goto, At
<1>20. ASSUME NEW r \in Runs, OpenPull(r) PROVE PlaceInv'
  BY <1>20 DEF OpenPull, On, Goto, At
<1>21. ASSUME NEW r \in Runs, OpenFails(r) PROVE PlaceInv'
  BY <1>21 DEF OpenFails, On, Refuse, Throw, End, Goto, At
<1>22. ASSUME NEW r \in Runs, AwaitChecks(r) PROVE PlaceInv'
  BY <1>22 DEF AwaitChecks, Verdict, Conclude, Blocks, End, Goto, At
<1>23. ASSUME NEW r \in Runs, QueryFails(r) PROVE PlaceInv'
  BY <1>23 DEF QueryFails, On, Throw, Conclude, Blocks, End, Goto, At
<1>24. ASSUME NEW r \in Runs, ChecksMove(r) PROVE PlaceInv'
  BY <1>24 DEF ChecksMove, At
<1>25. ASSUME NEW r \in Runs, TimePasses(r) PROVE PlaceInv'
  BY <1>25 DEF TimePasses, At
<1>26. ASSUME NEW r \in Runs, Crash(r) PROVE PlaceInv'
  BY <1>26 DEF Crash, At, Goto
<1>27. ASSUME NEW r \in Runs, RemoveByHand(r) PROVE PlaceInv'
  BY <1>27 DEF RemoveByHand, At
<1>28. ASSUME ResetCheckout PROVE PlaceInv'
  BY <1>28 DEF ResetCheckout
<1>29. ASSUME NEW r \in Runs, MergeWork(r) PROVE PlaceInv'
  BY <1>29 DEF MergeWork, Meet, Others, Goto, At
<1>30. ASSUME NEW r \in Runs, OpenUnasked(r) PROVE PlaceInv'
  BY <1>30 DEF OpenUnasked, On, End, Goto, At
<1> QED BY <1>1, <1>2, <1>3, <1>4, <1>5, <1>6, <1>7, <1>8, <1>9, <1>10,
           <1>11, <1>12, <1>13, <1>14, <1>15, <1>16, <1>17, <1>18, <1>19,
           <1>20, <1>21, <1>22, <1>23, <1>24, <1>25, <1>26, <1>27, <1>28,
           <1>29, <1>30
        DEF Next, Worker

\* Whoever empties the stage or stops the checkout has met those who wait.
LEMMA CheckoutKept == ASSUME ShapeInv, PlaceInv, CheckoutInv, Next PROVE CheckoutInv'
<1> USE DEF ShapeInv, PlaceInv, Placed, CheckoutInv, Unmixed, Merging, checkout, github, history
<1>1. ASSUME NEW r \in Runs, Start(r) PROVE CheckoutInv'
  BY <1>1 DEF Start, Begin, Goto, At
<1>2. ASSUME NEW r \in Runs, Resume(r) PROVE CheckoutInv'
  BY <1>2 DEF Resume, Begin, Goto, At
<1>3. ASSUME NEW r \in Runs, CreateTree(r) PROVE CheckoutInv'
  BY <1>3 DEF CreateTree, Goto, At
<1>4. ASSUME NEW r \in Runs, CreateFails(r) PROVE CheckoutInv'
  BY <1>4 DEF CreateFails, Goto, At
<1>5. ASSUME NEW r \in Runs, RunStages(r) PROVE CheckoutInv'
  BY <1>5 DEF RunStages, Goto, At
<1>6. ASSUME NEW r \in Runs, Fail(r) PROVE CheckoutInv'
  <2>1. /\ pc' = [pc EXCEPT ![r] = "off"] /\ status' = [status EXCEPT ![r] = "failed"]
        /\ UNCHANGED <<plan, outcome, checkout, github, history>>
        /\ pc[r] = "failing"
    BY <1>6 DEF Fail, End, Goto, At
  <2>2. \/ UNCHANGED <<tree, branch>>
        \/ /\ plan[r].tidyOnFailure
           /\ tree' = [tree EXCEPT ![r] = "none"] /\ branch' = [branch EXCEPT ![r] = "none"]
    BY <1>6 DEF Fail, RemoveTree
  <2> HIDE DEF ShapeInv, PlaceInv, Placed, Unmixed
  <2>3. CheckoutInv'
    <3> SUFFICES ASSUME NEW q \in Runs PROVE Unmixed(q)'
      BY DEF CheckoutInv
    <3>0. q \in Runs => Unmixed(q)
      BY DEF CheckoutInv
    <3>1. CASE q = r
      BY <2>1, <2>2, <3>0, <3>1 DEF ShapeInv, PlaceInv, Placed, Unmixed
    <3>2. CASE q # r
      <4>1. Same(q)
        BY <2>1, <2>2, <3>2 DEF ShapeInv, Same
      <4> QED BY <3>0, <4>1, Frame
    <3> QED BY <3>1, <3>2
  <2> QED BY <2>3
<1>7. ASSUME NEW r \in Runs, Keep(r) PROVE CheckoutInv'
  BY <1>7 DEF Keep, End, Goto, At
<1>8. ASSUME NEW r \in Runs, CommitWork(r) PROVE CheckoutInv'
  BY <1>8 DEF CommitWork, AfterCommit, Goto, At
<1>9. ASSUME NEW r \in Runs, CommitRefused(r) PROVE CheckoutInv'
  BY <1>9 DEF CommitRefused, End, Goto, At
<1>10. ASSUME NEW r \in Runs, AddFails(r) PROVE CheckoutInv'
  BY <1>10 DEF AddFails, Goto, At
<1>11. ASSUME NEW r \in Runs, CheckoutTarget(r) PROVE CheckoutInv'
  BY <1>11 DEF CheckoutTarget, Goto, At
<1>12. ASSUME NEW r \in Runs, SquashWork(r) PROVE CheckoutInv'
  BY <1>12 DEF SquashWork, Meet, Others, Goto, At
<1>13. ASSUME NEW r \in Runs, SquashConflicts(r) PROVE CheckoutInv'
  BY <1>13 DEF SquashConflicts, Meet, Others, Goto, At
<1>14. ASSUME NEW r \in Runs, SquashBlocked(r) PROVE CheckoutInv'
  BY <1>14 DEF SquashBlocked, Goto, At
<1>15. ASSUME NEW r \in Runs, Seal(r) PROVE CheckoutInv'
  BY <1>15 DEF Seal, Sealed, Meet, Others, Goto, At
<1>16. ASSUME NEW r \in Runs, SealNothing(r) PROVE CheckoutInv'
  BY <1>16 DEF SealNothing, Sealed, Meet, Others, Goto, At
<1>17. ASSUME NEW r \in Runs, Tidy(r) PROVE CheckoutInv'
  <2>1. /\ pc' = [pc EXCEPT ![r] = "off"] /\ status' = [status EXCEPT ![r] = "completed"]
        /\ UNCHANGED <<plan, outcome, checkout, github, history>>
        /\ pc[r] = "tidy"
    BY <1>17 DEF Tidy, End, Goto, At
  <2>2. \/ UNCHANGED <<tree, branch>>
        \/ /\ outcome[r] \in {"merged", "no_changes"}
           /\ tree' = [tree EXCEPT ![r] = "none"] /\ branch' = [branch EXCEPT ![r] = "none"]
    BY <1>17 DEF Tidy, RemoveTree
  <2> HIDE DEF ShapeInv, PlaceInv, Placed, Unmixed
  <2>3. CheckoutInv'
    <3> SUFFICES ASSUME NEW q \in Runs PROVE Unmixed(q)'
      BY DEF CheckoutInv
    <3>0. q \in Runs => Unmixed(q)
      BY DEF CheckoutInv
    <3>1. CASE q = r
      BY <2>1, <2>2, <3>0, <3>1 DEF ShapeInv, PlaceInv, Placed, Unmixed
    <3>2. CASE q # r
      <4>1. Same(q)
        BY <2>1, <2>2, <3>2 DEF ShapeInv, Same
      <4> QED BY <3>0, <4>1, Frame
    <3> QED BY <3>1, <3>2
  <2> QED BY <2>3
<1>18. ASSUME NEW r \in Runs, Push(r) PROVE CheckoutInv'
  BY <1>18 DEF Push, Goto, At
<1>19. ASSUME NEW r \in Runs, PushFails(r) PROVE CheckoutInv'
  BY <1>19 DEF PushFails, Refuse, End, Goto, At
<1>20. ASSUME NEW r \in Runs, OpenPull(r) PROVE CheckoutInv'
  BY <1>20 DEF OpenPull, On, Goto, At
<1>21. ASSUME NEW r \in Runs, OpenFails(r) PROVE CheckoutInv'
  BY <1>21 DEF OpenFails, On, Refuse, Throw, End, Goto, At
<1>22. ASSUME NEW r \in Runs, AwaitChecks(r) PROVE CheckoutInv'
  BY <1>22 DEF AwaitChecks, Verdict, Conclude, Blocks, End, Goto, At
<1>23. ASSUME NEW r \in Runs, QueryFails(r) PROVE CheckoutInv'
  BY <1>23 DEF QueryFails, On, Throw, Conclude, Blocks, End, Goto, At
<1>24. ASSUME NEW r \in Runs, ChecksMove(r) PROVE CheckoutInv'
  BY <1>24 DEF ChecksMove, At
<1>25. ASSUME NEW r \in Runs, TimePasses(r) PROVE CheckoutInv'
  BY <1>25 DEF TimePasses, At
<1>26. ASSUME NEW r \in Runs, Crash(r) PROVE CheckoutInv'
  BY <1>26 DEF Crash, At, Goto
<1>27. ASSUME NEW r \in Runs, RemoveByHand(r) PROVE CheckoutInv'
  BY <1>27 DEF RemoveByHand, At
<1>28. ASSUME ResetCheckout PROVE CheckoutInv'
  BY <1>28 DEF ResetCheckout
<1>29. ASSUME NEW r \in Runs, MergeWork(r) PROVE CheckoutInv'
  BY <1>29 DEF MergeWork, Meet, Others, Goto, At
<1>30. ASSUME NEW r \in Runs, OpenUnasked(r) PROVE CheckoutInv'
  BY <1>30 DEF OpenUnasked, On, End, Goto, At
<1> QED BY <1>1, <1>2, <1>3, <1>4, <1>5, <1>6, <1>7, <1>8, <1>9, <1>10,
           <1>11, <1>12, <1>13, <1>14, <1>15, <1>16, <1>17, <1>18, <1>19,
           <1>20, <1>21, <1>22, <1>23, <1>24, <1>25, <1>26, <1>27, <1>28,
           <1>29, <1>30
        DEF Next, Worker

\* Nothing removes the last place the work is in.
LEMMA SurviveKept == ASSUME ShapeInv, MadeInv, PlaceInv, CheckoutInv, SurviveInv, Next PROVE SurviveInv'
<1> USE DEF ShapeInv, MadeInv, PlaceInv, Placed, CheckoutInv, Unmixed, SurviveInv, Kept, Somewhere, Excused, Merging, Pulling, checkout, github, history
<1>1. ASSUME NEW r \in Runs, Start(r) PROVE SurviveInv'
  BY <1>1 DEF Start, Begin, Goto, At
<1>2. ASSUME NEW r \in Runs, Resume(r) PROVE SurviveInv'
  BY <1>2 DEF Resume, Begin, Goto, At
<1>3. ASSUME NEW r \in Runs, CreateTree(r) PROVE SurviveInv'
  BY <1>3 DEF CreateTree, Goto, At
<1>4. ASSUME NEW r \in Runs, CreateFails(r) PROVE SurviveInv'
  BY <1>4 DEF CreateFails, Goto, At
<1>5. ASSUME NEW r \in Runs, RunStages(r) PROVE SurviveInv'
  <2>1. /\ pc[r] = "stages" /\ \E at : pc' = [pc EXCEPT ![r] = at]
        /\ UNCHANGED <<plan, status, outcome, branch, checkout, github, refused, shared, removed>>
    BY <1>5 DEF RunStages, Goto, At
  <2>2. \/ made' = made \cup {r} /\ tree' = [tree EXCEPT ![r] = "dirty"]
        \/ UNCHANGED <<tree, made>>
    BY <1>5 DEF RunStages
  <2> HIDE DEF ShapeInv, PlaceInv, Placed, CheckoutInv, Unmixed, Kept
  <2>3. SurviveInv'
    <3> SUFFICES ASSUME NEW q \in made' PROVE Kept(q)'
      BY DEF SurviveInv
    <3>0. q \in made => Kept(q)
      BY DEF SurviveInv
    <3>1. CASE q = r
      BY <2>1, <2>2, <3>0, <3>1 DEF ShapeInv, PlaceInv, Placed, CheckoutInv, Unmixed, Kept
    <3>2. CASE q # r
      <4>1. Same(q) /\ q \in made
        BY <2>1, <2>2, <3>2 DEF ShapeInv, Same
      <4> QED BY <3>0, <4>1, Frame
    <3> QED BY <3>1, <3>2
  <2> QED BY <2>3
<1>6. ASSUME NEW r \in Runs, Fail(r) PROVE SurviveInv'
  <2>1. /\ pc' = [pc EXCEPT ![r] = "off"] /\ status' = [status EXCEPT ![r] = "failed"]
        /\ UNCHANGED <<plan, outcome, checkout, github, history>>
        /\ pc[r] = "failing"
    BY <1>6 DEF Fail, End, Goto, At
  <2>2. \/ UNCHANGED <<tree, branch>>
        \/ /\ plan[r].tidyOnFailure
           /\ tree' = [tree EXCEPT ![r] = "none"] /\ branch' = [branch EXCEPT ![r] = "none"]
    BY <1>6 DEF Fail, RemoveTree
  <2> HIDE DEF ShapeInv, PlaceInv, Placed, CheckoutInv, Unmixed, Kept
  <2>3. SurviveInv'
    <3> SUFFICES ASSUME NEW q \in made' PROVE Kept(q)'
      BY DEF SurviveInv
    <3>0. q \in made => Kept(q)
      BY DEF SurviveInv
    <3>1. CASE q = r
      BY <2>1, <2>2, <3>0, <3>1 DEF ShapeInv, PlaceInv, Placed, CheckoutInv, Unmixed, Kept
    <3>2. CASE q # r
      <4>1. Same(q) /\ q \in made
        BY <2>1, <2>2, <3>2 DEF ShapeInv, Same
      <4> QED BY <3>0, <4>1, Frame
    <3> QED BY <3>1, <3>2
  <2> QED BY <2>3
<1>7. ASSUME NEW r \in Runs, Keep(r) PROVE SurviveInv'
  BY <1>7 DEF Keep, End, Goto, At
<1>8. ASSUME NEW r \in Runs, CommitWork(r) PROVE SurviveInv'
  <2>1. /\ pc[r] = "commit" /\ \E at : pc' = [pc EXCEPT ![r] = at]
        /\ UNCHANGED <<plan, status, outcome, checkout, github, history>>
    BY <1>8 DEF CommitWork, Goto, At
  <2>2. \/ tree' = [tree EXCEPT ![r] = "clean"] /\ branch' = [branch EXCEPT ![r] = "work"]
        \/ UNCHANGED <<tree, branch>>
    BY <1>8 DEF CommitWork
  <2> HIDE DEF ShapeInv, PlaceInv, Placed, CheckoutInv, Unmixed, Kept
  <2>3. SurviveInv'
    <3> SUFFICES ASSUME NEW q \in made' PROVE Kept(q)'
      BY DEF SurviveInv
    <3>0. q \in made => Kept(q)
      BY DEF SurviveInv
    <3>1. CASE q = r
      BY <2>1, <2>2, <3>0, <3>1 DEF ShapeInv, PlaceInv, Placed, CheckoutInv, Unmixed, Kept
    <3>2. CASE q # r
      <4>1. Same(q) /\ q \in made
        BY <2>1, <2>2, <3>2 DEF ShapeInv, Same
      <4> QED BY <3>0, <4>1, Frame
    <3> QED BY <3>1, <3>2
  <2> QED BY <2>3
<1>9. ASSUME NEW r \in Runs, CommitRefused(r) PROVE SurviveInv'
  BY <1>9 DEF CommitRefused, End, Goto, At
<1>10. ASSUME NEW r \in Runs, AddFails(r) PROVE SurviveInv'
  BY <1>10 DEF AddFails, Goto, At
<1>11. ASSUME NEW r \in Runs, CheckoutTarget(r) PROVE SurviveInv'
  BY <1>11 DEF CheckoutTarget, Goto, At
<1>12. ASSUME NEW r \in Runs, SquashWork(r) PROVE SurviveInv'
  BY <1>12 DEF SquashWork, Meet, Others, Goto, At
<1>13. ASSUME NEW r \in Runs, SquashConflicts(r) PROVE SurviveInv'
  BY <1>13 DEF SquashConflicts, Meet, Others, Goto, At
<1>14. ASSUME NEW r \in Runs, SquashBlocked(r) PROVE SurviveInv'
  BY <1>14 DEF SquashBlocked, Goto, At
<1>15. ASSUME NEW r \in Runs, Seal(r) PROVE SurviveInv'
  BY <1>15 DEF Seal, Sealed, Meet, Others, Goto, At
<1>16. ASSUME NEW r \in Runs, SealNothing(r) PROVE SurviveInv'
  BY <1>16 DEF SealNothing, Sealed, Meet, Others, Goto, At
<1>17. ASSUME NEW r \in Runs, Tidy(r) PROVE SurviveInv'
  <2>1. /\ pc' = [pc EXCEPT ![r] = "off"] /\ status' = [status EXCEPT ![r] = "completed"]
        /\ UNCHANGED <<plan, outcome, checkout, github, history>>
        /\ pc[r] = "tidy"
    BY <1>17 DEF Tidy, End, Goto, At
  <2>2. \/ UNCHANGED <<tree, branch>>
        \/ /\ outcome[r] \in {"merged", "no_changes"}
           /\ tree' = [tree EXCEPT ![r] = "none"] /\ branch' = [branch EXCEPT ![r] = "none"]
    BY <1>17 DEF Tidy, RemoveTree
  <2> HIDE DEF ShapeInv, PlaceInv, Placed, CheckoutInv, Unmixed, Kept
  <2>3. SurviveInv'
    <3> SUFFICES ASSUME NEW q \in made' PROVE Kept(q)'
      BY DEF SurviveInv
    <3>0. q \in made => Kept(q)
      BY DEF SurviveInv
    <3>1. CASE q = r
      BY <2>1, <2>2, <3>0, <3>1 DEF ShapeInv, PlaceInv, Placed, CheckoutInv, Unmixed, Kept
    <3>2. CASE q # r
      <4>1. Same(q) /\ q \in made
        BY <2>1, <2>2, <3>2 DEF ShapeInv, Same
      <4> QED BY <3>0, <4>1, Frame
    <3> QED BY <3>1, <3>2
  <2> QED BY <2>3
<1>18. ASSUME NEW r \in Runs, Push(r) PROVE SurviveInv'
  <2>1. /\ pc[r] = "push" /\ pc' = [pc EXCEPT ![r] = "open"]
        /\ remote' = [remote EXCEPT ![r] = branch[r]]
        /\ ~(remote[r] = "work" /\ branch[r] = "base")
        /\ UNCHANGED <<plan, status, outcome, tree, branch, main, staged, conflicted, pull,
                       ci, checks, history>>
    BY <1>18 DEF Push, Goto, At
  <2>2. plan[r].way = "pull" /\ tree[r] \notin {"none", "dirty"} /\ branch[r] \in {"base", "work"}
    BY <2>1 DEF Pulling
  <2> HIDE DEF ShapeInv, PlaceInv, Placed, CheckoutInv, Unmixed, Kept
  <2>3. SurviveInv'
    <3> SUFFICES ASSUME NEW q \in made' PROVE Kept(q)'
      BY DEF SurviveInv
    <3>0. q \in made => Kept(q)
      BY DEF SurviveInv
    <3>1. CASE q = r
      BY <2>1, <2>2, <3>0, <3>1 DEF ShapeInv, PlaceInv, Placed, CheckoutInv, Unmixed, Kept
    <3>2. CASE q # r
      <4>1. Same(q) /\ q \in made
        BY <2>1, <2>2, <3>2 DEF ShapeInv, Same
      <4> QED BY <3>0, <4>1, Frame
    <3> QED BY <3>1, <3>2
  <2> QED BY <2>3
<1>19. ASSUME NEW r \in Runs, PushFails(r) PROVE SurviveInv'
  BY <1>19 DEF PushFails, Refuse, End, Goto, At
<1>20. ASSUME NEW r \in Runs, OpenPull(r) PROVE SurviveInv'
  BY <1>20 DEF OpenPull, On, Goto, At
<1>21. ASSUME NEW r \in Runs, OpenFails(r) PROVE SurviveInv'
  BY <1>21 DEF OpenFails, On, Refuse, Throw, End, Goto, At
<1>22. ASSUME NEW r \in Runs, AwaitChecks(r) PROVE SurviveInv'
  BY <1>22 DEF AwaitChecks, Verdict, Conclude, Blocks, End, Goto, At
<1>23. ASSUME NEW r \in Runs, QueryFails(r) PROVE SurviveInv'
  BY <1>23 DEF QueryFails, On, Throw, Conclude, Blocks, End, Goto, At
<1>24. ASSUME NEW r \in Runs, ChecksMove(r) PROVE SurviveInv'
  BY <1>24 DEF ChecksMove, At
<1>25. ASSUME NEW r \in Runs, TimePasses(r) PROVE SurviveInv'
  BY <1>25 DEF TimePasses, At
<1>26. ASSUME NEW r \in Runs, Crash(r) PROVE SurviveInv'
  BY <1>26 DEF Crash, At, Goto
<1>27. ASSUME NEW r \in Runs, RemoveByHand(r) PROVE SurviveInv'
  BY <1>27 DEF RemoveByHand, At
<1>28. ASSUME ResetCheckout PROVE SurviveInv'
  BY <1>28 DEF ResetCheckout
<1>29. ASSUME NEW r \in Runs, MergeWork(r) PROVE SurviveInv'
  BY <1>29 DEF MergeWork, Meet, Others, Goto, At
<1>30. ASSUME NEW r \in Runs, OpenUnasked(r) PROVE SurviveInv'
  BY <1>30 DEF OpenUnasked, On, End, Goto, At
<1> QED BY <1>1, <1>2, <1>3, <1>4, <1>5, <1>6, <1>7, <1>8, <1>9, <1>10,
           <1>11, <1>12, <1>13, <1>14, <1>15, <1>16, <1>17, <1>18, <1>19,
           <1>20, <1>21, <1>22, <1>23, <1>24, <1>25, <1>26, <1>27, <1>28,
           <1>29, <1>30
        DEF Next, Worker

\* The pushed branch holds the work from the commit to the verdict.
LEMMA PullKept == ASSUME ShapeInv, MadeInv, PlaceInv, PullInv, Next PROVE PullInv'
<1> USE DEF ShapeInv, MadeInv, PlaceInv, Placed, PullInv, Offered, MayBeEmpty, On, Merging, Pulling, checkout, github, history
<1>1. ASSUME NEW r \in Runs, Start(r) PROVE PullInv'
  BY <1>1 DEF Start, Begin, Goto, At
<1>2. ASSUME NEW r \in Runs, Resume(r) PROVE PullInv'
  BY <1>2 DEF Resume, Begin, Goto, At
<1>3. ASSUME NEW r \in Runs, CreateTree(r) PROVE PullInv'
  <2>1. /\ pc[r] = "create"
        /\ \/ pc' = [pc EXCEPT ![r] = "commit"]
           \/ pc' = [pc EXCEPT ![r] = "stages"]
        /\ UNCHANGED <<plan, status, outcome, checkout, github, history>>
    BY <1>3 DEF CreateTree, Goto, At
  <2>2. tree' = [tree EXCEPT ![r] = "clean"] /\ branch' = [branch EXCEPT ![r] = "base"]
    BY <1>3 DEF CreateTree
  <2> HIDE DEF ShapeInv, PlaceInv, Placed, Offered
  <2>3. PullInv'
    <3> SUFFICES ASSUME NEW q \in Runs PROVE Offered(q)'
      BY DEF PullInv
    <3>0. q \in Runs => Offered(q)
      BY DEF PullInv
    <3>1. CASE q = r
      BY <2>1, <2>2, <3>0, <3>1 DEF ShapeInv, PlaceInv, Placed, Offered
    <3>2. CASE q # r
      <4>1. Same(q)
        BY <2>1, <2>2, <3>2 DEF ShapeInv, Same
      <4> QED BY <3>0, <4>1, Frame
    <3> QED BY <3>1, <3>2
  <2> QED BY <2>3
<1>4. ASSUME NEW r \in Runs, CreateFails(r) PROVE PullInv'
  BY <1>4 DEF CreateFails, Goto, At
<1>5. ASSUME NEW r \in Runs, RunStages(r) PROVE PullInv'
  BY <1>5 DEF RunStages, Goto, At
<1>6. ASSUME NEW r \in Runs, Fail(r) PROVE PullInv'
  <2>1. /\ pc' = [pc EXCEPT ![r] = "off"] /\ status' = [status EXCEPT ![r] = "failed"]
        /\ UNCHANGED <<plan, outcome, checkout, github, history>>
        /\ pc[r] = "failing"
    BY <1>6 DEF Fail, End, Goto, At
  <2>2. \/ UNCHANGED <<tree, branch>>
        \/ /\ plan[r].tidyOnFailure
           /\ tree' = [tree EXCEPT ![r] = "none"] /\ branch' = [branch EXCEPT ![r] = "none"]
    BY <1>6 DEF Fail, RemoveTree
  <2> HIDE DEF ShapeInv, PlaceInv, Placed, Offered
  <2>3. PullInv'
    <3> SUFFICES ASSUME NEW q \in Runs PROVE Offered(q)'
      BY DEF PullInv
    <3>0. q \in Runs => Offered(q)
      BY DEF PullInv
    <3>1. CASE q = r
      BY <2>1, <2>2, <3>0, <3>1 DEF ShapeInv, PlaceInv, Placed, Offered
    <3>2. CASE q # r
      <4>1. Same(q)
        BY <2>1, <2>2, <3>2 DEF ShapeInv, Same
      <4> QED BY <3>0, <4>1, Frame
    <3> QED BY <3>1, <3>2
  <2> QED BY <2>3
<1>7. ASSUME NEW r \in Runs, Keep(r) PROVE PullInv'
  BY <1>7 DEF Keep, End, Goto, At
<1>8. ASSUME NEW r \in Runs, CommitWork(r) PROVE PullInv'
  BY <1>8 DEF CommitWork, AfterCommit, Goto, At
<1>9. ASSUME NEW r \in Runs, CommitRefused(r) PROVE PullInv'
  BY <1>9 DEF CommitRefused, End, Goto, At
<1>10. ASSUME NEW r \in Runs, AddFails(r) PROVE PullInv'
  BY <1>10 DEF AddFails, Goto, At
<1>11. ASSUME NEW r \in Runs, CheckoutTarget(r) PROVE PullInv'
  BY <1>11 DEF CheckoutTarget, Goto, At
<1>12. ASSUME NEW r \in Runs, SquashWork(r) PROVE PullInv'
  BY <1>12 DEF SquashWork, Meet, Others, Goto, At
<1>13. ASSUME NEW r \in Runs, SquashConflicts(r) PROVE PullInv'
  BY <1>13 DEF SquashConflicts, Meet, Others, Goto, At
<1>14. ASSUME NEW r \in Runs, SquashBlocked(r) PROVE PullInv'
  BY <1>14 DEF SquashBlocked, Goto, At
<1>15. ASSUME NEW r \in Runs, Seal(r) PROVE PullInv'
  BY <1>15 DEF Seal, Sealed, Meet, Others, Goto, At
<1>16. ASSUME NEW r \in Runs, SealNothing(r) PROVE PullInv'
  BY <1>16 DEF SealNothing, Sealed, Meet, Others, Goto, At
<1>17. ASSUME NEW r \in Runs, Tidy(r) PROVE PullInv'
  <2>1. /\ pc' = [pc EXCEPT ![r] = "off"] /\ status' = [status EXCEPT ![r] = "completed"]
        /\ UNCHANGED <<plan, outcome, checkout, github, history>>
        /\ pc[r] = "tidy"
    BY <1>17 DEF Tidy, End, Goto, At
  <2>2. \/ UNCHANGED <<tree, branch>>
        \/ /\ outcome[r] \in {"merged", "no_changes"}
           /\ tree' = [tree EXCEPT ![r] = "none"] /\ branch' = [branch EXCEPT ![r] = "none"]
    BY <1>17 DEF Tidy, RemoveTree
  <2> HIDE DEF ShapeInv, PlaceInv, Placed, Offered
  <2>3. PullInv'
    <3> SUFFICES ASSUME NEW q \in Runs PROVE Offered(q)'
      BY DEF PullInv
    <3>0. q \in Runs => Offered(q)
      BY DEF PullInv
    <3>1. CASE q = r
      BY <2>1, <2>2, <3>0, <3>1 DEF ShapeInv, PlaceInv, Placed, Offered
    <3>2. CASE q # r
      <4>1. Same(q)
        BY <2>1, <2>2, <3>2 DEF ShapeInv, Same
      <4> QED BY <3>0, <4>1, Frame
    <3> QED BY <3>1, <3>2
  <2> QED BY <2>3
<1>18. ASSUME NEW r \in Runs, Push(r) PROVE PullInv'
  <2>1. /\ pc[r] = "push" /\ pc' = [pc EXCEPT ![r] = "open"]
        /\ remote' = [remote EXCEPT ![r] = branch[r]]
        /\ ~(remote[r] = "work" /\ branch[r] = "base")
        /\ UNCHANGED <<plan, status, outcome, tree, branch, main, staged, conflicted, pull,
                       ci, checks, history>>
    BY <1>18 DEF Push, Goto, At
  <2>2. plan[r].way = "pull" /\ tree[r] \notin {"none", "dirty"} /\ branch[r] \in {"base", "work"}
    BY <2>1 DEF Pulling
  <2> HIDE DEF ShapeInv, PlaceInv, Placed, Offered
  <2>3. PullInv'
    <3> SUFFICES ASSUME NEW q \in Runs PROVE Offered(q)'
      BY DEF PullInv
    <3>0. q \in Runs => Offered(q)
      BY DEF PullInv
    <3>1. CASE q = r
      BY <2>1, <2>2, <3>0, <3>1 DEF ShapeInv, PlaceInv, Placed, Offered
    <3>2. CASE q # r
      <4>1. Same(q)
        BY <2>1, <2>2, <3>2 DEF ShapeInv, Same
      <4> QED BY <3>0, <4>1, Frame
    <3> QED BY <3>1, <3>2
  <2> QED BY <2>3
<1>19. ASSUME NEW r \in Runs, PushFails(r) PROVE PullInv'
  BY <1>19 DEF PushFails, Refuse, End, Goto, At
<1>20. ASSUME NEW r \in Runs, OpenPull(r) PROVE PullInv'
  BY <1>20 DEF OpenPull, On, Goto, At
<1>21. ASSUME NEW r \in Runs, OpenFails(r) PROVE PullInv'
  BY <1>21 DEF OpenFails, On, Refuse, Throw, End, Goto, At
<1>22. ASSUME NEW r \in Runs, AwaitChecks(r) PROVE PullInv'
  <2>1. /\ pc[r] = "checks" /\ pc' = [pc EXCEPT ![r] = "off"]
        /\ UNCHANGED <<plan, outcome, tree, branch, checkout, remote, pull, ci, history>>
    BY <1>22 DEF AwaitChecks, Conclude, End, Goto, At
  <2>2. \E seen : /\ checks' = [checks EXCEPT ![r] = seen]
                   /\ \/ status' = [status EXCEPT ![r] = "blocked"]
                      \/ /\ status' = [status EXCEPT ![r] = "completed"]
                         /\ seen \in {"passed", "no_checks"}
    <3>1. Verdict(r, ci[r]) \in {"passed", "no_checks", "failed", "timeout"}
      BY <1>22, <2>1 DEF AwaitChecks, Verdict
    <3>2. /\ checks' = [checks EXCEPT ![r] = Verdict(r, ci[r])]
          /\ status' = [status EXCEPT ![r] =
               IF Blocks(Verdict(r, ci[r])) THEN "blocked" ELSE "completed"]
      BY <1>22 DEF AwaitChecks, Conclude, End
    <3> QED BY <3>1, <3>2 DEF Blocks
  <2> HIDE DEF ShapeInv, PlaceInv, Placed, Offered
  <2>3. PullInv'
    <3> SUFFICES ASSUME NEW q \in Runs PROVE Offered(q)'
      BY DEF PullInv
    <3>0. q \in Runs => Offered(q)
      BY DEF PullInv
    <3>1. CASE q = r
      BY <2>1, <2>2, <3>0, <3>1 DEF ShapeInv, PlaceInv, Placed, Offered
    <3>2. CASE q # r
      <4>1. Same(q)
        BY <2>1, <2>2, <3>2 DEF ShapeInv, Same
      <4> QED BY <3>0, <4>1, Frame
    <3> QED BY <3>1, <3>2
  <2> QED BY <2>3
<1>23. ASSUME NEW r \in Runs, QueryFails(r) PROVE PullInv'
  BY <1>23 DEF QueryFails, On, Throw, Conclude, Blocks, End, Goto, At
<1>24. ASSUME NEW r \in Runs, ChecksMove(r) PROVE PullInv'
  BY <1>24 DEF ChecksMove, At
<1>25. ASSUME NEW r \in Runs, TimePasses(r) PROVE PullInv'
  BY <1>25 DEF TimePasses, At
<1>26. ASSUME NEW r \in Runs, Crash(r) PROVE PullInv'
  BY <1>26 DEF Crash, At, Goto
<1>27. ASSUME NEW r \in Runs, RemoveByHand(r) PROVE PullInv'
  BY <1>27 DEF RemoveByHand, At
<1>28. ASSUME ResetCheckout PROVE PullInv'
  BY <1>28 DEF ResetCheckout
<1>29. ASSUME NEW r \in Runs, MergeWork(r) PROVE PullInv'
  BY <1>29 DEF MergeWork, Meet, Others, Goto, At
<1>30. ASSUME NEW r \in Runs, OpenUnasked(r) PROVE PullInv'
  <2>1. /\ pc[r] = "open" /\ pc' = [pc EXCEPT ![r] = "off"]
        /\ status' = [status EXCEPT ![r] = "completed"]
        /\ checks' = [checks EXCEPT ![r] = "unasked"]
        /\ ~plan[r].waits \/ plan[r].host = "github"
        /\ UNCHANGED <<plan, outcome, tree, branch, checkout, remote, ci, history>>
    BY <1>30 DEF OpenUnasked, On, End, Goto, At
  <2>2. /\ pull' = pull \cup {r}
        /\ r \in pull \/ remote[r] = "work" \/ plan[r].host = "gitlab"
    BY <1>30 DEF OpenUnasked, On
  <2> HIDE DEF ShapeInv, PlaceInv, Placed, Offered
  <2>3. PullInv'
    <3> SUFFICES ASSUME NEW q \in Runs PROVE Offered(q)'
      BY DEF PullInv
    <3>0. q \in Runs => Offered(q)
      BY DEF PullInv
    <3>1. CASE q = r
      <4>1. Offered(r) /\ ShapeInv
        BY <3>0, <3>1
      <4>2. /\ r \in pull' /\ checks'[r] = "unasked" /\ pc'[r] = "off"
            /\ remote'[r] = remote[r] /\ ci'[r] = ci[r]
            /\ tree'[r] = tree[r] /\ branch'[r] = branch[r]
            /\ plan' = plan /\ made' = made /\ removed' = removed
        BY <2>1, <2>2, <4>1 DEF ShapeInv
      <4>3. remote[r] = "work" \/ (plan[r].host = "gitlab" /\ MayBeEmpty(r))
        BY <2>1, <2>2, <4>1 DEF Offered
      <4>4. remote[r] = "work" \/ plan[r].host = "gitlab"
        BY <4>3
      <4> QED BY <2>1, <3>1, <4>1, <4>2, <4>3, <4>4 DEF Offered
    <3>2. CASE q # r
      <4>0. (q \in pull') = (q \in pull)
        BY <2>2, <3>2
      <4>1. Same(q)
        <5>1. /\ pc'[q] = pc[q] /\ status'[q] = status[q] /\ checks'[q] = checks[q]
              /\ plan' = plan /\ conflicted' = conflicted
          BY <2>1, <3>2 DEF ShapeInv
        <5> QED BY <2>1, <4>0, <5>1 DEF Same
      <4> QED BY <3>0, <4>1, Frame
    <3> QED BY <3>1, <3>2
  <2> QED BY <2>3
<1> QED BY <1>1, <1>2, <1>3, <1>4, <1>5, <1>6, <1>7, <1>8, <1>9, <1>10,
           <1>11, <1>12, <1>13, <1>14, <1>15, <1>16, <1>17, <1>18, <1>19,
           <1>20, <1>21, <1>22, <1>23, <1>24, <1>25, <1>26, <1>27, <1>28,
           <1>29, <1>30
        DEF Next, Worker

\* What DeliveryInv says holds in every state the system reaches.
THEOREM DeliveryIsInvariant == Spec => []DeliveryInv
<1>1. Init => DeliveryInv
  BY InitHolds
<1>2. DeliveryInv /\ [Next]_vars => DeliveryInv'
  <2> SUFFICES ASSUME DeliveryInv, [Next]_vars PROVE DeliveryInv'
    OBVIOUS
  <2>1. CASE Next
    BY <2>1, ShapeKept, MadeKept, PlaceKept, CheckoutKept, SurviveKept, PullKept
       DEF DeliveryInv
  <2>2. CASE UNCHANGED vars
    <3>1. ShapeInv' /\ MadeInv'
      BY <2>2 DEF DeliveryInv, ShapeInv, MadeInv, vars, checkout, github, history
    <3>2. ASSUME NEW q PROVE Same(q)
      BY <2>2 DEF Same, vars, checkout, github, history
    <3>3. /\ PlaceInv' /\ CheckoutInv' /\ PullInv'
      BY <3>2, Frame DEF DeliveryInv, PlaceInv, CheckoutInv, PullInv
    <3>4. SurviveInv'
      <4>1. made' = made
        BY <2>2 DEF vars, history
      <4> QED BY <3>2, <4>1, Frame DEF DeliveryInv, SurviveInv
    <3> QED BY <3>1, <3>3, <3>4 DEF DeliveryInv
  <2> QED BY <2>1, <2>2
<1> QED BY <1>1, <1>2, PTL DEF Spec

-----------------------------------------------------------------------------
(* The theorems.                                                           *)

\* What a run made is never destroyed, by any number of runs that deliver and
\* die at any step, within the exceptions WorkSurvives names.
THEOREM WorkIsKept == Spec => []WorkSurvives
<1>1. DeliveryInv => WorkSurvives
  BY DEF DeliveryInv, SurviveInv, Kept, Excused, WorkSurvives
<1> QED BY <1>1, DeliveryIsInvariant, PTL

\* A run completed by way of a pull request has one, with its work, and no
\* check that was looked at failed.
THEOREM PullRequestsAreWhole == Spec => []PullRequestIsWhole
<1>1. DeliveryInv => PullRequestIsWhole
  BY DEF DeliveryInv, PullInv, Offered, MayBeEmpty, PullRequestIsWhole
<1> QED BY <1>1, DeliveryIsInvariant, PTL

-----------------------------------------------------------------------------
(* Types.                                                                  *)

\* The end of the wait for checks keeps the types, whatever was seen.
LEMMA ConcludeTyped ==
  ASSUME TypeOK, NEW r \in Runs,
         NEW seen \in (Stands \ {"pending"}) \cup {"unknown", "timeout"},
         Conclude(r, seen)
  PROVE  TypeOK'
<1>1. checks' \in [Runs -> (Stands \ {"pending"}) \cup {"unasked", "unknown", "timeout"}]
  BY DEF TypeOK, Conclude
<1>2. status' \in [Runs -> {"absent", "running", "completed", "failed", "blocked"}]
  BY DEF TypeOK, Conclude, End
<1> QED BY <1>1, <1>2 DEF TypeOK, Conclude, End, Goto, checkout, history

\* Every step keeps the types.
LEMMA TypeKept == ASSUME TypeOK, Next PROVE TypeOK'
<1> USE DEF TypeOK, checkout, github, history
<1>1. ASSUME NEW r \in Runs, Start(r) PROVE TypeOK'
  BY <1>1 DEF Start, Begin, At, Goto
<1>2. ASSUME NEW r \in Runs, Resume(r) PROVE TypeOK'
  BY <1>2, DeliveryAssumption DEF Resume, Begin, At, Goto
<1>3. ASSUME NEW r \in Runs, CreateTree(r) PROVE TypeOK'
  BY <1>3 DEF CreateTree, At, Goto
<1>4. ASSUME NEW r \in Runs, CreateFails(r) PROVE TypeOK'
  BY <1>4 DEF CreateFails, At, Goto
<1>5. ASSUME NEW r \in Runs, RunStages(r) PROVE TypeOK'
  BY <1>5 DEF RunStages, At, Goto
<1>6. ASSUME NEW r \in Runs, Fail(r) PROVE TypeOK'
  BY <1>6 DEF Fail, RemoveTree, End, At, Goto
<1>7. ASSUME NEW r \in Runs, Keep(r) PROVE TypeOK'
  BY <1>7 DEF Keep, End, At, Goto
<1>8. ASSUME NEW r \in Runs, CommitWork(r) PROVE TypeOK'
  BY <1>8 DEF CommitWork, AfterCommit, At, Goto
<1>9. ASSUME NEW r \in Runs, CommitRefused(r) PROVE TypeOK'
  BY <1>9 DEF CommitRefused, End, At, Goto
<1>10. ASSUME NEW r \in Runs, AddFails(r) PROVE TypeOK'
  BY <1>10 DEF AddFails, At, Goto
<1>11. ASSUME NEW r \in Runs, CheckoutTarget(r) PROVE TypeOK'
  BY <1>11 DEF CheckoutTarget, At, Goto
<1>12. ASSUME NEW r \in Runs, SquashWork(r) PROVE TypeOK'
  BY <1>12 DEF SquashWork, Meet, Others, At, Goto
<1>13. ASSUME NEW r \in Runs, SquashConflicts(r) PROVE TypeOK'
  BY <1>13 DEF SquashConflicts, Meet, Others, At, Goto
<1>14. ASSUME NEW r \in Runs, SquashBlocked(r) PROVE TypeOK'
  BY <1>14 DEF SquashBlocked, At, Goto
<1>15. ASSUME NEW r \in Runs, Seal(r) PROVE TypeOK'
  BY <1>15 DEF Seal, Sealed, Meet, Others, At, Goto
<1>16. ASSUME NEW r \in Runs, SealNothing(r) PROVE TypeOK'
  BY <1>16 DEF SealNothing, Sealed, Meet, Others, At, Goto
<1>17. ASSUME NEW r \in Runs, Tidy(r) PROVE TypeOK'
  BY <1>17 DEF Tidy, RemoveTree, End, At, Goto
<1>18. ASSUME NEW r \in Runs, Push(r) PROVE TypeOK'
  BY <1>18 DEF Push, At, Goto
<1>19. ASSUME NEW r \in Runs, PushFails(r) PROVE TypeOK'
  BY <1>19 DEF PushFails, Refuse, End, At, Goto
<1>20. ASSUME NEW r \in Runs, OpenPull(r) PROVE TypeOK'
  BY <1>20 DEF OpenPull, Stands, At, Goto
<1>21. ASSUME NEW r \in Runs, OpenFails(r) PROVE TypeOK'
  BY <1>21 DEF OpenFails, Refuse, Throw, End, At, Goto
<1>22. ASSUME NEW r \in Runs, AwaitChecks(r) PROVE TypeOK'
  <2> DEFINE seen == Verdict(r, ci[r])
  <2>1. seen \in (Stands \ {"pending"}) \cup {"unknown", "timeout"}
    BY <1>22 DEF AwaitChecks, Verdict, Stands
  <2>2. Conclude(r, seen)
    BY <1>22 DEF AwaitChecks
  <2> HIDE DEF seen
  <2> QED BY <2>1, <2>2, ConcludeTyped
<1>23. ASSUME NEW r \in Runs, QueryFails(r) PROVE TypeOK'
  <2>1. CASE Conclude(r, "unknown")
    BY <2>1, ConcludeTyped
  <2>2. CASE Conclude(r, "no_checks")
    BY <2>2, ConcludeTyped DEF Stands
  <2>3. CASE Throw(r)
    BY <2>3 DEF Throw, Goto
  <2> QED BY <1>23, <2>1, <2>2, <2>3 DEF QueryFails
<1>24. ASSUME NEW r \in Runs, ChecksMove(r) PROVE TypeOK'
  BY <1>24 DEF ChecksMove, Stands, At
<1>25. ASSUME NEW r \in Runs, TimePasses(r) PROVE TypeOK'
  BY <1>25 DEF TimePasses, At
<1>26. ASSUME NEW r \in Runs, Crash(r) PROVE TypeOK'
  BY <1>26, DeliveryAssumption DEF Crash, At, Goto
<1>27. ASSUME NEW r \in Runs, RemoveByHand(r) PROVE TypeOK'
  BY <1>27, DeliveryAssumption DEF RemoveByHand, At
<1>28. ASSUME ResetCheckout PROVE TypeOK'
  BY <1>28 DEF ResetCheckout
<1>29. ASSUME NEW r \in Runs, MergeWork(r) PROVE TypeOK'
  BY <1>29 DEF MergeWork, Meet, Others, Goto, At
<1>30. ASSUME NEW r \in Runs, OpenUnasked(r) PROVE TypeOK'
  BY <1>30 DEF OpenUnasked, On, End, Goto, At
<1> QED BY <1>1, <1>2, <1>3, <1>4, <1>5, <1>6, <1>7, <1>8, <1>9, <1>10,
           <1>11, <1>12, <1>13, <1>14, <1>15, <1>16, <1>17, <1>18, <1>19, <1>20,
           <1>21, <1>22, <1>23, <1>24, <1>25, <1>26, <1>27, <1>28,
           <1>29, <1>30
        DEF Next, Worker

\* Every variable keeps its type, for any runs, plans and mishaps.
THEOREM TypeCorrect == Spec => []TypeOK
<1>1. Init => TypeOK
  <2> SUFFICES ASSUME Init PROVE TypeOK
    OBVIOUS
  <2>1. 0 \in 0..MaxMishaps
    BY DeliveryAssumption
  <2>2. /\ pc \in [Runs -> {"off"}] /\ status \in [Runs -> {"absent"}]
        /\ outcome \in [Runs -> {"none"}] /\ tree \in [Runs -> {"none"}]
        /\ branch \in [Runs -> {"none"}] /\ remote \in [Runs -> {"none"}]
        /\ ci \in [Runs -> {"none"}] /\ checks \in [Runs -> {"none"}]
    BY DEF Init
  <2> QED BY <2>1, <2>2 DEF Init, TypeOK, Stands
<1>2. TypeOK /\ [Next]_vars => TypeOK'
  <2> SUFFICES ASSUME TypeOK, [Next]_vars PROVE TypeOK'
    OBVIOUS
  <2>1. CASE Next
    BY <2>1, TypeKept
  <2>2. CASE UNCHANGED vars
    BY <2>2 DEF TypeOK, vars, checkout, github, history
  <2> QED BY <2>1, <2>2
<1> QED BY <1>1, <1>2, PTL DEF Spec

-----------------------------------------------------------------------------
(* How far an attempt is from its end.                                     *)

\* The places a worker still passes, at most.
PlacesLeft(r) ==
  CASE pc[r] = "off" -> 0
    [] pc[r] = "failing" -> 1
    [] pc[r] \in {"tidy", "checks"} -> 2
    [] pc[r] \in {"seal", "open"} -> 3
    [] pc[r] \in {"squash", "push"} -> 4
    [] pc[r] = "checkout" -> 5
    [] pc[r] = "commit" -> 6
    [] pc[r] = "stages" -> 7
    [] pc[r] = "create" -> 8

\* They, and the time that the checks of the remote have.
Ahead(r) == 2 * PlacesLeft(r) + (IF r \in late THEN 0 ELSE 1)

Goes(r) == Worker(r) \/ QueryFails(r) \/ Crash(r)

\* What is left is never less than nothing.
LEMMA AheadType ==
  ASSUME TypeOK, NEW r \in Runs
  PROVE  Ahead(r) \in Nat /\ PlacesLeft(r) \in 0..8
BY DEF TypeOK, Ahead, PlacesLeft

\* Where a worker goes is where it then is.
LEMMA Arrives ==
  ASSUME TypeOK, NEW r \in Runs, NEW place, Goto(r, place)
  PROVE  pc'[r] = place
BY DEF TypeOK, Goto

\* The places, one after the other.
LEMMA FewerAhead ==
  ASSUME NEW r, NEW place, pc'[r] = place,
         \/ pc[r] \in {"create", "stages"} /\ place \in {"off", "commit", "failing"}
         \/ pc[r] = "create" /\ place = "stages"
         \/ pc[r] = "commit" /\ place \in {"off", "checkout", "push", "failing"}
         \/ pc[r] = "checkout" /\ place \in {"squash", "failing"}
         \/ pc[r] = "squash" /\ place \in {"seal", "tidy"}
         \/ pc[r] = "seal" /\ place = "tidy"
         \/ pc[r] = "push" /\ place = "open"
         \/ pc[r] = "open" /\ place \in {"off", "failing", "checks"}
         \/ pc[r] = "checks" /\ place \in {"off", "failing"}
         \/ /\ pc[r] \in {"create", "stages", "commit", "checkout", "squash", "seal",
                           "tidy", "push", "open", "checks", "failing"}
            /\ place = "off"
  PROVE  PlacesLeft(r)' < PlacesLeft(r)
BY DEF PlacesLeft

\* A worker goes to a place with fewer behind it, and leaves the time alone.
LEMMA WorkerGoesOn ==
  ASSUME TypeOK, NEW r \in Runs, pc[r] # "off", Goes(r)
  PROVE  /\ late' = late
         /\ \E place : Goto(r, place)
         /\ PlacesLeft(r)' < PlacesLeft(r)
<1>1. CASE CreateTree(r) \/ CreateFails(r) \/ RunStages(r)
  <2>1. /\ late' = late /\ pc[r] \in {"create", "stages"}
        /\ \E place \in {"off", "stages", "commit", "failing"} :
             (pc[r] = "stages" => place # "stages") /\ Goto(r, place)
    BY <1>1 DEF CreateTree, CreateFails, RunStages, At, github
  <2> QED BY <2>1, Arrives, FewerAhead
<1>2. CASE Keep(r) \/ CommitWork(r) \/ CommitRefused(r) \/ AddFails(r)
  <2>1. /\ late' = late /\ pc[r] = "commit"
        /\ \E place \in {"off", "checkout", "push", "failing"} : Goto(r, place)
    BY <1>2 DEF Keep, CommitWork, CommitRefused, AddFails, AfterCommit, At, End, github
  <2> QED BY <2>1, Arrives, FewerAhead
<1>3. CASE CheckoutTarget(r)
  <2>1. /\ late' = late /\ pc[r] = "checkout"
        /\ \E place \in {"squash", "failing"} : Goto(r, place)
    BY <1>3 DEF CheckoutTarget, At, github
  <2> QED BY <2>1, Arrives, FewerAhead
<1>4. CASE \/ SquashWork(r) \/ MergeWork(r)
          \/ SquashConflicts(r) \/ SquashBlocked(r)
  <2>1. /\ late' = late /\ pc[r] = "squash"
        /\ \E place \in {"seal", "tidy"} : Goto(r, place)
    BY <1>4 DEF SquashWork, MergeWork, SquashConflicts, SquashBlocked, At, github
  <2> QED BY <2>1, Arrives, FewerAhead
<1>5. CASE Seal(r) \/ SealNothing(r)
  <2>1. late' = late /\ pc[r] = "seal" /\ Goto(r, "tidy")
    BY <1>5 DEF Seal, SealNothing, Sealed, At, github
  <2> QED BY <2>1, Arrives, FewerAhead
<1>6. CASE Fail(r) \/ Tidy(r) \/ PushFails(r) \/ AwaitChecks(r) \/ Crash(r)
  <2>1. late' = late /\ Goto(r, "off")
    BY <1>6 DEF Fail, Tidy, PushFails, Refuse, AwaitChecks, Conclude, Crash, End, github
  <2>2. pc[r] \in {"create", "stages", "commit", "checkout", "squash", "seal",
                  "tidy", "push", "open", "checks", "failing"}
    BY DEF TypeOK
  <2> QED BY <2>1, <2>2, Arrives, FewerAhead
<1>7. CASE Push(r)
  <2>1. late' = late /\ pc[r] = "push" /\ Goto(r, "open")
    BY <1>7 DEF Push, At
  <2> QED BY <2>1, Arrives, FewerAhead
<1>8. CASE OpenPull(r) \/ OpenUnasked(r) \/ OpenFails(r) \/ QueryFails(r)
  <2>1. /\ late' = late /\ pc[r] \in {"open", "checks"}
        /\ \E place \in {"off", "failing", "checks"} :
             (pc[r] = "checks" => place # "checks") /\ Goto(r, place)
    BY <1>8 DEF OpenPull, OpenUnasked, OpenFails, QueryFails, Refuse, Throw, Conclude,
               End, At, github
  <2> QED BY <2>1, Arrives, FewerAhead
<1> QED BY <1>1, <1>2, <1>3, <1>4, <1>5, <1>6, <1>7, <1>8 DEF Goes, Worker

\* A step of a run leaves what lies ahead of another as it was.
LEMMA OthersKeepTheirs ==
  ASSUME TypeOK, NEW r \in Runs, NEW q \in Runs, q # r,
         NEW place, Goto(q, place),
         late' \in {late, late \ {q}, late \cup {q}}
  PROVE  Ahead(r)' = Ahead(r)
<1>1. pc'[r] = pc[r] /\ (r \in late' <=> r \in late)
  BY DEF TypeOK, Goto
<1> QED BY <1>1 DEF Ahead, PlacesLeft

\* Every step of the worker of a run, and the time that passes, bring its
\* attempt nearer to its end, by a natural number that nothing else raises or
\* lowers: no other run, no check of the remote that begins again, nobody who
\* resets the checkout.  Once the time has passed, the worker that asks for the
\* checks has its answer.  (run, _deliver_pr, wait_ci.)
THEOREM AttemptDescends ==
  Spec => [][\A r \in Runs : pc[r] # "off" =>
               /\ Ahead(r) \in Nat
               /\ IF Goes(r) \/ TimePasses(r) THEN Ahead(r)' < Ahead(r)
                  ELSE Ahead(r)' = Ahead(r)
               /\ r \in late => Verdict(r, ci[r]) # "pending"]_vars
<1>1. ASSUME TypeOK, Next, NEW r \in Runs, pc[r] # "off"
      PROVE  /\ Ahead(r) \in Nat
             /\ IF Goes(r) \/ TimePasses(r) THEN Ahead(r)' < Ahead(r)
                ELSE Ahead(r)' = Ahead(r)
             /\ r \in late => Verdict(r, ci[r]) # "pending"
  <2>1. Ahead(r) \in Nat /\ PlacesLeft(r) \in 0..8
    BY <1>1, AheadType
  <2>2. r \in late => Verdict(r, ci[r]) # "pending"
    BY DEF Verdict
  <2>3. ASSUME Goes(r) PROVE Ahead(r)' < Ahead(r)
    <3>1. PICK place : /\ late' = late
                       /\ Goto(r, place)
                       /\ PlacesLeft(r)' < PlacesLeft(r)
      BY <1>1, <2>3, WorkerGoesOn
    <3>2. PlacesLeft(r)' \in 0..8
      BY <1>1, TypeKept DEF TypeOK, PlacesLeft
    <3> QED BY <2>1, <3>1, <3>2 DEF Ahead
  <2>4. ASSUME TimePasses(r) PROVE Ahead(r)' < Ahead(r)
    <3>1. r \notin late /\ r \in late' /\ pc' = pc
      BY <2>4 DEF TimePasses
    <3>2. PlacesLeft(r)' = PlacesLeft(r)
      BY <3>1 DEF PlacesLeft
    <3> QED BY <2>1, <3>1, <3>2 DEF Ahead
  <2>5. ASSUME ~Goes(r), ~TimePasses(r) PROVE Ahead(r)' = Ahead(r)
    <3>1. CASE ResetCheckout \/ \E q \in Runs : ChecksMove(q) \/ RemoveByHand(q)
      <4>1. pc' = pc /\ late' = late
        BY <3>1 DEF ResetCheckout, ChecksMove, RemoveByHand, github
      <4> QED BY <4>1 DEF Ahead, PlacesLeft
    <3>2. ASSUME NEW q \in Runs, Start(q) \/ Resume(q) PROVE Ahead(r)' = Ahead(r)
      <4>1. PICK place : Goto(q, place) /\ late' = late \ {q} /\ pc[q] = "off"
        BY <3>2 DEF Start, Resume, Begin, At
      <4> QED BY <1>1, <4>1, OthersKeepTheirs
    <3>3. ASSUME NEW q \in Runs, q # r, TimePasses(q) PROVE Ahead(r)' = Ahead(r)
      <4>1. pc' = pc /\ late' = late \cup {q}
        BY <3>3 DEF TimePasses
      <4>2. r \in late' <=> r \in late
        BY <3>3, <4>1
      <4> QED BY <4>1, <4>2 DEF Ahead, PlacesLeft
    <3>4. ASSUME NEW q \in Runs, q # r, Goes(q) PROVE Ahead(r)' = Ahead(r)
      <4>1. pc[q] # "off" => late' = late /\ \E place : Goto(q, place)
        BY <1>1, <3>4, WorkerGoesOn
      <4>2. pc[q] # "off"
        BY <3>4 DEF Goes, Worker, QueryFails, Crash, CreateTree, CreateFails, RunStages,
                    Fail, Keep, CommitWork, CommitRefused, AddFails, CheckoutTarget,
                    SquashWork, MergeWork, SquashConflicts, SquashBlocked, Seal,
                    SealNothing, Tidy, Push, PushFails, OpenPull, OpenUnasked, OpenFails,
                    AwaitChecks, At
      <4>3. PICK place : Goto(q, place)
        BY <4>1, <4>2
      <4> QED BY <1>1, <3>4, <4>1, <4>2, <4>3, OthersKeepTheirs
    <3> QED BY <1>1, <2>5, <3>1, <3>2, <3>3, <3>4 DEF Next, Goes
  <2> QED BY <2>1, <2>2, <2>3, <2>4, <2>5
<1>2. TypeOK /\ [Next]_vars =>
        [\A r \in Runs : pc[r] # "off" =>
           /\ Ahead(r) \in Nat
           /\ IF Goes(r) \/ TimePasses(r) THEN Ahead(r)' < Ahead(r)
              ELSE Ahead(r)' = Ahead(r)
           /\ r \in late => Verdict(r, ci[r]) # "pending"]_vars
  BY <1>1
<1> QED BY <1>2, TypeCorrect, PTL DEF Spec

=============================================================================
