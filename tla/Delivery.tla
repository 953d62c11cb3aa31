------------------------------ MODULE Delivery ------------------------------
(***************************************************************************)
(* From the work tree of a run to the branch everyone works on             *)
(* (src/engine/worktree.py, pr_manager.py and the end of                   *)
(* orchestrator.run): a run gets a work tree and a branch of its own; when *)
(* its stages are over, its work is squashed or merged into the target     *)
(* branch, in the one checkout all runs share, or pushed and offered as a  *)
(* pull request whose checks may be awaited.  Runs deliver at the same     *)
(* time, workers die, commits are refused, and people clean up.            *)
(*                                                                         *)
(* git, the remote and the checks are modelled as far as the code looks at *)
(* them.  The stages of a run are a single step here (see StageSequence).  *)
(***************************************************************************)
EXTENDS Integers, FiniteSets

CONSTANTS
  Runs,        \* run ids
  Plans,       \* how the runs may be configured to deliver
  MaxMishaps   \* bound: crashes, resumes and removals

Ways == {"merge", "pull", "keep"}
Hosts == {"github", "gitlab"}

ASSUME DeliveryAssumption ==
  /\ IsFiniteSet(Runs)
  /\ Plans \subseteq [Runs -> [way : Ways, host : Hosts, tidyOnFailure : BOOLEAN,
                              squash : BOOLEAN, waits : BOOLEAN]]
  /\ MaxMishaps \in Nat

VARIABLES
  plan,       \* the configuration of each run
  pc,         \* where the worker of a run is; "off" when there is none
  status,     \* report.status
  developed,  \* the stages of the run are in its checkpoint
  outcome,    \* merge_result
  tree,       \* the work tree of a run: missing, clean, or with changes
  branch,     \* what its branch holds: missing, the base, or the work
  main,       \* runs whose work is on the target branch
  staged,     \* runs whose work is staged in the shared checkout
  conflicted, \* the shared checkout has unmerged paths
  remote,     \* what the pushed branch holds
  pull,       \* runs that have a pull request
  ci,         \* the checks of the pull request, on the remote
  checks,     \* the verdict on them when the worker last stopped asking
  late,       \* runs whose check_timeout has passed
  made,       \* history: runs whose stages made something
  refused,    \* history: runs one of whose commits was refused
  shared,     \* history: runs that were in the checkout with another
  removed,    \* history: runs whose work tree was removed by hand
  mishaps     \* bookkeeping of the bound

checkout == <<main, staged, conflicted>>
github == <<remote, pull, ci, checks, late>>
history == <<made, refused, shared, removed>>
vars == <<plan, pc, status, developed, outcome, tree, branch, checkout, github,
          history, mishaps>>

Stands == {"none", "no_checks", "pending", "passed", "failed"}

TypeOK ==
  /\ plan \in Plans
  /\ pc \in [Runs -> {"off", "create", "stages", "commit", "checkout", "squash",
                      "seal", "tidy", "push", "open", "checks", "failing"}]
  /\ status \in [Runs -> {"absent", "running", "completed", "failed", "blocked"}]
  /\ developed \subseteq Runs
  /\ outcome \in [Runs -> {"none", "merged", "no_changes", "conflict", "skipped"}]
  /\ tree \in [Runs -> {"none", "clean", "dirty"}]
  /\ branch \in [Runs -> {"none", "base", "work"}]
  /\ main \subseteq Runs /\ staged \subseteq Runs /\ conflicted \in BOOLEAN
  /\ remote \in [Runs -> {"none", "base", "work"}]
  /\ pull \subseteq Runs
  /\ ci \in [Runs -> Stands]
  /\ checks \in [Runs -> (Stands \ {"pending"}) \cup {"unasked", "unknown", "timeout"}]
  /\ late \subseteq Runs
  /\ made \subseteq Runs /\ refused \subseteq Runs
  /\ shared \subseteq Runs /\ removed \subseteq Runs
  /\ mishaps \in 0..MaxMishaps

Init ==
  /\ plan \in Plans
  /\ pc = [r \in Runs |-> "off"]
  /\ status = [r \in Runs |-> "absent"]
  /\ developed = {}
  /\ outcome = [r \in Runs |-> "none"]
  /\ tree = [r \in Runs |-> "none"] /\ branch = [r \in Runs |-> "none"]
  /\ main = {} /\ staged = {} /\ conflicted = FALSE
  /\ remote = [r \in Runs |-> "none"] /\ pull = {}
  /\ ci = [r \in Runs |-> "none"] /\ checks = [r \in Runs |-> "none"] /\ late = {}
  /\ made = {} /\ refused = {} /\ shared = {} /\ removed = {}
  /\ mishaps = 0

-----------------------------------------------------------------------------
(* The steps of a worker.                                                  *)

At(r, place) == pc[r] = place
Goto(r, place) == pc' = [pc EXCEPT ![r] = place]

\* The end of an attempt that is not an exception.
End(r, st) ==
  /\ Goto(r, "off")
  /\ status' = [status EXCEPT ![r] = st]

\* A work tree is removed by force, and its branch with it.
RemoveTree(r) ==
  /\ tree' = [tree EXCEPT ![r] = "none"]
  /\ branch' = [branch EXCEPT ![r] = "none"]

Begin(r) ==
  /\ Goto(r, IF tree[r] = "none" THEN "create"
             ELSE IF r \in developed THEN "commit" ELSE "stages")
  /\ status' = [status EXCEPT ![r] = "running"]
  /\ outcome' = [outcome EXCEPT ![r] = "none"]
  /\ late' = late \ {r}
  /\ UNCHANGED <<plan, developed, tree, branch, checkout, remote, pull, ci,
                 checks, history>>

Start(r) ==
  /\ At(r, "off") /\ status[r] = "absent"
  /\ Begin(r)
  /\ UNCHANGED mishaps

Resume(r) ==
  /\ At(r, "off") /\ status[r] \in {"running", "failed", "blocked"}
  /\ mishaps < MaxMishaps /\ mishaps' = mishaps + 1
  /\ Begin(r)

\* create: an old branch of that name is deleted, whatever it holds.  A
\* resume whose work tree is gone does the same and then passes over the
\* stages.
CreateTree(r) ==
  /\ At(r, "create")
  /\ tree' = [tree EXCEPT ![r] = "clean"]
  /\ branch' = [branch EXCEPT ![r] = "base"]
  /\ Goto(r, IF r \in developed THEN "commit" ELSE "stages")
  /\ UNCHANGED <<plan, status, developed, outcome, checkout, github, history, mishaps>>

\* It raises outside the try of run(): the report stays at "running".
CreateFails(r) ==
  /\ At(r, "create")
  /\ Goto(r, "off")
  /\ branch' = [branch EXCEPT ![r] = IF r \in removed THEN @ ELSE "none"]
  /\ UNCHANGED <<plan, status, developed, outcome, tree, checkout, github, history,
                 mishaps>>

\* Agents edit the work tree; they do not commit.
RunStages(r) ==
  /\ At(r, "stages")
  /\ \/ /\ developed' = developed \cup {r}
        /\ Goto(r, "commit")
        /\ \/ /\ tree' = [tree EXCEPT ![r] = "dirty"]
              /\ made' = made \cup {r}
           \/ UNCHANGED <<tree, made>>
     \/ /\ Goto(r, "failing")
        /\ UNCHANGED <<developed, tree, made>>
  /\ UNCHANGED <<plan, status, outcome, branch, checkout, github, refused, shared,
                 removed, mishaps>>

\* The except branch of run().
Fail(r) ==
  /\ At(r, "failing")
  /\ End(r, "failed")
  /\ IF plan[r].tidyOnFailure THEN RemoveTree(r) ELSE UNCHANGED <<tree, branch>>
  /\ UNCHANGED <<plan, developed, outcome, checkout, github, history, mishaps>>

\* worktree.merge_on_success and ci_cd.create_pr are both off.
Keep(r) ==
  /\ At(r, "commit") /\ plan[r].way = "keep"
  /\ outcome' = [outcome EXCEPT ![r] = "skipped"]
  /\ End(r, "completed")
  /\ UNCHANGED <<plan, developed, tree, branch, checkout, github, history, mishaps>>

AfterCommit(r) == IF plan[r].way = "merge" THEN "checkout" ELSE "push"

CommitWork(r) ==
  /\ At(r, "commit") /\ plan[r].way # "keep"
  /\ Goto(r, AfterCommit(r))
  /\ IF tree[r] = "dirty"
     THEN /\ tree' = [tree EXCEPT ![r] = "clean"]
          /\ branch' = [branch EXCEPT ![r] = "work"]
     ELSE UNCHANGED <<tree, branch>>
  /\ UNCHANGED <<plan, status, developed, outcome, checkout, github, history, mishaps>>

\* A hook refuses the commit.  merge() does not look, _deliver_pr does.
CommitRefused(r) ==
  /\ At(r, "commit") /\ tree[r] = "dirty"
  /\ \/ /\ plan[r].way = "merge"
        /\ Goto(r, "checkout")
        /\ UNCHANGED status
     \/ /\ plan[r].way = "pull"
        /\ End(r, "failed")
  /\ refused' = refused \cup {r}
  /\ UNCHANGED <<plan, developed, outcome, tree, branch, checkout, github, made,
                 shared, removed, mishaps>>

\* git add fails.
AddFails(r) ==
  /\ At(r, "commit") /\ tree[r] = "dirty" /\ plan[r].way # "keep"
  /\ Goto(r, "failing")
  /\ UNCHANGED <<plan, status, developed, outcome, tree, branch, checkout, github,
                 history, mishaps>>

-----------------------------------------------------------------------------
(* Merging in the shared checkout (WorktreeManager.merge).                 *)

\* The switch to the target branch may fail, and raises; with unmerged paths
\* it always does.
CheckoutTarget(r) ==
  /\ At(r, "checkout")
  /\ \/ ~conflicted /\ Goto(r, "squash")
     \/ Goto(r, "failing")
  /\ UNCHANGED <<plan, status, developed, outcome, tree, branch, checkout, github,
                 history, mishaps>>

Others(r) == {q \in Runs \ {r} : pc[q] \in {"squash", "seal"}}

Meet(r) ==
  shared' = IF Others(r) = {} /\ ~conflicted THEN shared
            ELSE shared \cup {r} \cup Others(r)

\* What merge --squash stages; nothing, if there is nothing new.
SquashWork(r) ==
  /\ At(r, "squash") /\ plan[r].squash /\ ~conflicted
  /\ staged' = IF branch[r] = "work" /\ r \notin main THEN staged \cup {r} ELSE staged
  /\ Goto(r, "seal")
  /\ Meet(r)
  /\ UNCHANGED <<plan, status, developed, outcome, tree, branch, main, conflicted,
                 github, made, refused, removed, mishaps>>

\* Any other merge_strategy is a plain merge, which makes its commit itself:
\* the commit that follows finds nothing, and says "no_changes".
MergeWork(r) ==
  /\ At(r, "squash") /\ ~plan[r].squash /\ ~conflicted
  /\ main' = IF branch[r] = "work" THEN main \cup {r} ELSE main
  /\ Goto(r, "seal")
  /\ Meet(r)
  /\ UNCHANGED <<plan, status, developed, outcome, tree, branch, staged, conflicted,
                 github, made, refused, removed, mishaps>>

\* A conflict, or changes of another run in the way.  A merge is aborted; a
\* squash cannot be, so the unmerged paths of its conflict stay in the checkout.
SquashConflicts(r) ==
  /\ At(r, "squash")
  /\ branch[r] = "work" /\ r \notin main
  /\ \/ plan[r].squash /\ conflicted' = TRUE
     \/ (~plan[r].squash \/ staged # {}) /\ UNCHANGED conflicted
  /\ outcome' = [outcome EXCEPT ![r] = "conflict"]
  /\ Goto(r, "tidy")
  /\ Meet(r)
  /\ UNCHANGED <<plan, status, developed, tree, branch, main, staged, github, made,
                 refused, removed, mishaps>>

SquashBlocked(r) ==
  /\ At(r, "squash") /\ conflicted
  /\ branch[r] # "work" \/ r \in main
  /\ outcome' = [outcome EXCEPT ![r] = "conflict"]
  /\ Goto(r, "tidy")
  /\ UNCHANGED <<plan, status, developed, tree, branch, checkout, github, history,
                 mishaps>>

Sealed(r, as) ==
  /\ outcome' = [outcome EXCEPT ![r] = as]
  /\ Goto(r, "tidy")
  /\ Meet(r)
  /\ UNCHANGED <<plan, status, developed, tree, branch, conflicted, github, made,
                 removed, mishaps>>

\* The commit takes what is staged, whoever staged it.
Seal(r) ==
  /\ At(r, "seal") /\ ~conflicted /\ staged # {}
  /\ main' = main \cup staged /\ staged' = {}
  /\ Sealed(r, "merged")
  /\ UNCHANGED refused

\* Any failure of the commit is taken for "nothing to commit".
SealNothing(r) ==
  /\ At(r, "seal")
  /\ \/ /\ conflicted \/ staged = {}
        /\ UNCHANGED refused
     \/ /\ ~conflicted /\ staged # {}
        /\ refused' = refused \cup {r}
  /\ Sealed(r, "no_changes")
  /\ UNCHANGED <<main, staged>>

\* Mutant: the work tree goes after a conflict too.
TidyAlways(r) ==
  /\ At(r, "tidy")
  /\ RemoveTree(r)
  /\ End(r, "completed")
  /\ UNCHANGED <<plan, developed, outcome, checkout, github, history, mishaps>>

\* auto_cleanup.  The run is completed whatever the merge came to.
Tidy(r) ==
  /\ At(r, "tidy")
  /\ IF outcome[r] \in {"merged", "no_changes"} THEN RemoveTree(r)
     ELSE UNCHANGED <<tree, branch>>
  /\ End(r, "completed")
  /\ UNCHANGED <<plan, developed, outcome, checkout, github, history, mishaps>>

-----------------------------------------------------------------------------
(* A pull request (_deliver_pr, PRManager and its two providers).          *)

On(r, host) == plan[r].host = host

\* What is not caught: the connection to GitLab, the command git.
Throw(r) ==
  /\ Goto(r, "failing")
  /\ UNCHANGED <<plan, status, developed, outcome, tree, branch, checkout, github,
                 history, mishaps>>

Refuse(r) ==
  /\ End(r, "failed")
  /\ UNCHANGED <<plan, developed, outcome, tree, branch, checkout, github, history,
                 mishaps>>

\* The remote refuses a branch that does not contain what it has.
Push(r) ==
  /\ At(r, "push")
  /\ ~(remote[r] = "work" /\ branch[r] = "base")
  /\ remote' = [remote EXCEPT ![r] = branch[r]]
  /\ Goto(r, "open")
  /\ UNCHANGED <<plan, status, developed, outcome, tree, branch, checkout, pull,
                 ci, checks, late, history, mishaps>>

PushFails(r) == At(r, "push") /\ Refuse(r)

\* An existing pull request is taken up; GitHub opens none without a difference.
OpenPull(r) ==
  /\ At(r, "open") /\ plan[r].waits
  /\ r \in pull \/ remote[r] = "work" \/ On(r, "gitlab")
  /\ pull' = pull \cup {r}
  /\ \E now \in {"no_checks", "pending"} : ci' = [ci EXCEPT ![r] = now]
  /\ Goto(r, "checks")
  /\ UNCHANGED <<plan, status, developed, outcome, tree, branch, checkout, remote,
                 checks, late, history, mishaps>>

\* wait_for_checks is off, or the answer of gh to the creation holds no number:
\* the run is completed, and nobody looks at the checks.
OpenUnasked(r) ==
  /\ At(r, "open")
  /\ r \in pull \/ remote[r] = "work" \/ On(r, "gitlab")
  /\ ~plan[r].waits \/ (On(r, "github") /\ r \notin pull)
  /\ pull' = pull \cup {r}
  /\ checks' = [checks EXCEPT ![r] = "unasked"]
  /\ End(r, "completed")
  /\ UNCHANGED <<plan, developed, outcome, tree, branch, checkout, remote, ci, late,
                 history, mishaps>>

\* GitLab refuses a second one, when looking for the first has failed.
OpenFails(r) ==
  /\ At(r, "open")
  /\ \/ (r \notin pull \/ On(r, "gitlab")) /\ Refuse(r)
     \/ On(r, "gitlab") /\ Throw(r)

\* Mutant: the time is not looked at.
VerdictInTime(r, seen) == seen

\* wait_ci: checks that are not over are asked for again until time is up.
Verdict(r, seen) == IF seen = "pending" /\ r \in late THEN "timeout" ELSE seen

\* Mutant: only failed checks block.
BlocksOnFailure(seen) == seen = "failed"

Blocks(seen) == seen \in {"failed", "unknown", "timeout"}

Conclude(r, seen) ==
  /\ checks' = [checks EXCEPT ![r] = seen]
  /\ End(r, IF Blocks(seen) THEN "blocked" ELSE "completed")
  /\ UNCHANGED <<plan, developed, outcome, tree, branch, checkout, remote, pull, ci,
                 late, history, mishaps>>

\* While the verdict is "pending" the worker sleeps and asks again.
AwaitChecks(r) ==
  /\ At(r, "checks") /\ Verdict(r, ci[r]) # "pending"
  /\ Conclude(r, Verdict(r, ci[r]))

\* A query that fails ends the wait.  It is "unknown" on GitHub; an error
\* GitLab answers with is taken for "no checks", which is as good as passed.
QueryFails(r) ==
  /\ At(r, "checks")
  /\ \/ Conclude(r, "unknown")
     \/ On(r, "gitlab") /\ Conclude(r, "no_checks")
     \/ On(r, "gitlab") /\ Throw(r)

\* The checks of the remote begin and end; nothing says that they do.
ChecksMove(r) ==
  /\ At(r, "checks") /\ ci[r] \in {"no_checks", "pending"}
  /\ \E now \in {"pending", "passed", "failed"} \ {ci[r]} :
       ci' = [ci EXCEPT ![r] = now]
  /\ UNCHANGED <<plan, pc, status, developed, outcome, tree, branch, checkout, remote,
                 pull, checks, late, history, mishaps>>

TimePasses(r) ==
  /\ At(r, "checks") /\ r \notin late
  /\ late' = late \cup {r}
  /\ UNCHANGED <<plan, pc, status, developed, outcome, tree, branch, checkout, remote,
                 pull, ci, checks, history, mishaps>>

-----------------------------------------------------------------------------
(* Mishaps and people.                                                     *)

Crash(r) ==
  /\ ~At(r, "off")
  /\ mishaps < MaxMishaps /\ mishaps' = mishaps + 1
  /\ Goto(r, "off")
  /\ UNCHANGED <<plan, status, developed, outcome, tree, branch, checkout, github,
                 history>>

RemoveByHand(r) ==
  /\ At(r, "off") /\ tree[r] # "none"
  /\ mishaps < MaxMishaps /\ mishaps' = mishaps + 1
  /\ tree' = [tree EXCEPT ![r] = "none"]
  /\ removed' = removed \cup {r}
  /\ UNCHANGED <<plan, pc, status, developed, outcome, branch, checkout, github, made,
                 refused, shared>>

\* Nothing but a person clears the unmerged paths of the shared checkout.
ResetCheckout ==
  /\ conflicted
  /\ conflicted' = FALSE /\ staged' = {}
  /\ UNCHANGED <<plan, pc, status, developed, outcome, tree, branch, main, github,
                 history, mishaps>>

Worker(r) ==
  \/ CreateTree(r) \/ CreateFails(r) \/ RunStages(r) \/ Fail(r) \/ Keep(r)
  \/ CommitWork(r) \/ CommitRefused(r) \/ AddFails(r)
  \/ CheckoutTarget(r) \/ SquashWork(r) \/ MergeWork(r)
  \/ SquashConflicts(r) \/ SquashBlocked(r)
  \/ Seal(r) \/ SealNothing(r) \/ Tidy(r)
  \/ Push(r) \/ PushFails(r) \/ OpenPull(r) \/ OpenUnasked(r) \/ OpenFails(r)
  \/ AwaitChecks(r)

Next ==
  \/ \E r \in Runs : \/ Start(r) \/ Resume(r) \/ Worker(r) \/ QueryFails(r)
                     \/ ChecksMove(r) \/ TimePasses(r) \/ Crash(r) \/ RemoveByHand(r)
  \/ ResetCheckout

Spec == Init /\ [][Next]_vars

\* A worker that lives goes on, and time passes.
FairSpec == Spec /\ \A r \in Runs : WF_vars(Worker(r)) /\ WF_vars(TimePasses(r))

-----------------------------------------------------------------------------
(* Properties.                                                             *)

Somewhere(r) ==
  tree[r] = "dirty" \/ branch[r] = "work" \/ remote[r] = "work" \/ r \in main

\* The work of a run is never destroyed: it is in its work tree, on its
\* branch, pushed, or on the target branch.  Not promised of a run that asked
\* for its failures to be tidied away, and not kept where a commit was
\* refused, where another run was in the checkout, or where someone removed
\* the work tree.  (WorktreeManager.merge, cleanup, create.)
WorkSurvives ==
  \A r \in made :
    \/ Somewhere(r)
    \/ plan[r].tidyOnFailure
    \/ r \in refused \cup shared \cup removed

\* A run that is completed by way of a pull request has one, with all its
\* work, and its checks did not fail, in whatever attempt that was.  A request
\* with no work in it takes GitLab, and a run that made nothing or whose work
\* tree was removed; checks nobody looked at take a run that was not to wait,
\* or a request of GitHub whose number is not known.  (_deliver_pr.)
PullRequestIsWhole ==
  \A r \in Runs :
    (status[r] = "completed" /\ plan[r].way = "pull") =>
      /\ r \in pull
      /\ \/ remote[r] = "work"
         \/ On(r, "gitlab") /\ (r \notin made \/ r \in removed \/ plan[r].tidyOnFailure)
      /\ \/ checks[r] \in {"passed", "no_checks"}
         \/ checks[r] = "unasked" /\ (~plan[r].waits \/ On(r, "github"))

\* Every attempt to deliver ends, however long the checks take.  (wait_ci.)
DeliveryEnds == \A r \in Runs : pc[r] # "off" ~> pc[r] = "off"

\* A run that was to be merged and is completed is on the target branch:
\* docs/spec_1.0.md says that a pipeline that passed is squashed into main,
\* and that a conflict pauses it.  (orchestrator.run, after merge.)
CompletedIsMerged ==
  \A r \in made :
    (status[r] = "completed" /\ plan[r].way = "merge") => r \in main
=============================================================================
