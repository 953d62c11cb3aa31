--------------------------- MODULE StageSequence ---------------------------
(***************************************************************************)
(* One pipeline run in "single" mode: Orchestrator.run and                 *)
(* Orchestrator._run_stage_sequence (src/engine/orchestrator.py), the two  *)
(* files they keep in the run's directory (checkpoint.json, report.json),  *)
(* and the entry points that start the run and resume it.  The worker      *)
(* process may die between any two steps; memory is then lost and the      *)
(* files stay.  One worker at a time: what several jobs do to one run is   *)
(* the subject of a module of its own.                                     *)
(*                                                                         *)
(* Stages are their positions 1..N.  What a stage produces is abstracted   *)
(* to its outcome.  Statuses "completed" and "skipped" of a stage run are  *)
(* one here, the sequence treats them alike.                               *)
(***************************************************************************)
EXTENDS Integers, Sequences, SequencesExt

CONSTANTS
  N,            \* number of stages of the pipeline
  HardGates,    \* human_review stages that need an explicit decision
  SoftGates,    \* the other human_review stages
  RejectTo,     \* reject_to of each hard gate
  LoopStages,   \* agent stages with loopback_to and loopback_trigger
  LoopTo,       \* their loopback_to
  MaxRetries,   \* their max_retries
  ReviewStages, \* those whose review-report.json is examined as well
  Sigs,         \* non-empty error signatures of a change request
  Acceptance,   \* the gates whose decision is recorded on the task board
  MaxResumes    \* bound: how often a run is resumed

Stages == 1..N
AgentStages == Stages \ (HardGates \cup SoftGates)

(* Neither the loader nor the orchestrator checks where reject_to and      *)
(* loopback_to point; every shipped pipeline points them backwards.        *)
ASSUME PipelineAssumption ==
  /\ N \in Nat
  /\ HardGates \subseteq Stages
  /\ SoftGates \subseteq Stages \ HardGates
  /\ LoopStages \subseteq AgentStages
  /\ ReviewStages \subseteq LoopStages
  /\ Acceptance \subseteq HardGates
  /\ RejectTo \in [HardGates -> Stages]
  /\ LoopTo \in [LoopStages -> Stages]
  /\ MaxRetries \in [LoopStages -> Nat]
  /\ MaxResumes \in Nat

ASSUME BackwardAssumption ==
  /\ \A g \in HardGates : RejectTo[g] <= g
  /\ \A s \in LoopStages : LoopTo[s] <= s

ASSUME SigsAssumption ==
  Sigs \cap {"pass", "failed", "waiting", "rejected", "structured",
             "unsigned", "none"} = {}

\* A textual change request carries an error signature, perhaps empty.
Textual == Sigs \cup {"unsigned"}
ChangeRequests == Textual \cup {"structured"}

\* What a stage comes to; whether its output requests changes is what the words
\* of its loopback_trigger find in it.
Outcomes == {"pass", "failed", "waiting", "rejected"} \cup ChangeRequests

\* A decision as the human submits it.  "misdirected" is a rejection that
\* names a target other than the gate's reject_to.
Verdicts == {"approved", "rejected", "misdirected"}
Decisions == [stage : Stages, verdict : Verdicts]
NoDecision == [stage |-> 0, verdict |-> "none"]

RunStatuses == {"absent", "running", "paused", "completed", "failed", "blocked"}
StageStatuses == {"none", "completed", "failed", "waiting"}

VARIABLES
  pc,          \* where the worker is; "off" when no process runs
  index,       \* the loop's position
  done,        \* completed_stages
  decisions,   \* report.human_decisions, in memory
  pending,     \* pending_human_decision
  skipDone,    \* skip_completed
  skips,       \* skip_set
  loopCounts,  \* loop_counts
  lastSig,     \* last entry of loopback_errors, per stage
  runs,        \* last status per stage of report.stages, in memory
  outcome,     \* what the stage that just ran came to
  verdict,     \* report.status in memory once the sequence has returned
  ckpt,        \* checkpoint.json
  report,      \* report.json
  resumes,     \* bookkeeping of the bound
  result       \* history: what the latest run of each stage established

memory == <<index, done, decisions, pending, skipDone, skips, loopCounts,
            lastSig, runs, outcome, verdict>>
vars == <<pc, memory, ckpt, report, resumes, result>>

NoRuns == [s \in Stages |-> "none"]
NoCkpt == [state |-> "none", done |-> {}, decisions |-> <<>>]

TypeOK ==
  /\ pc \in {"off", "top", "settle", "check", "waiting", "deliver",
             "finish", "final", "raise"}
  /\ index \in 1..(N + 1)
  /\ done \subseteq Stages
  /\ decisions \in Seq(Decisions)
  /\ pending \in Decisions \cup {NoDecision}
  /\ skipDone \in BOOLEAN
  /\ skips \subseteq Stages \ HardGates
  /\ loopCounts \in [LoopStages -> Nat]
  /\ lastSig \in [LoopStages -> Textual \cup {"none"}]
  /\ runs \in [Stages -> StageStatuses]
  /\ outcome \in Outcomes
  /\ verdict \in {"running", "completed", "failed", "blocked"}
  /\ ckpt \in [state : {"none", "saved", "torn"}, done : SUBSET Stages,
               decisions : Seq(Decisions)]
  /\ report \in [status : RunStatuses, decisions : Seq(Decisions),
                 last : [Stages -> StageStatuses]]
  /\ resumes \in Nat
  /\ result \in [Stages -> {"none", "stands", "changes"}]

Init ==
  /\ pc = "off"
  /\ index = 1
  /\ done = {}
  /\ decisions = <<>>
  /\ pending = NoDecision
  /\ skipDone = FALSE
  /\ skips = {}
  /\ loopCounts = [s \in LoopStages |-> 0]
  /\ lastSig = [s \in LoopStages |-> "none"]
  /\ runs = NoRuns
  /\ outcome = "pass"
  /\ verdict = "running"
  /\ ckpt = NoCkpt
  /\ report = [status |-> "absent", decisions |-> <<>>, last |-> NoRuns]
  /\ resumes = 0
  /\ result = [s \in Stages |-> "none"]

-----------------------------------------------------------------------------
(* Starting and resuming.                                                  *)

\* What run() and the head of _run_stage_sequence set up.
Launch(restored, past, decision, chosen) ==
  /\ pc' = "top"
  /\ index' = 1
  /\ done' = restored
  /\ decisions' = past
  /\ pending' = decision
  /\ skips' = chosen
  /\ loopCounts' = [s \in LoopStages |-> 0]
  /\ lastSig' = [s \in LoopStages |-> "none"]
  /\ runs' = NoRuns
  /\ outcome' = "pass"
  /\ verdict' = "running"
  /\ report' = [status |-> "running", decisions |-> past, last |-> NoRuns]

\* A new run, with the stages the caller chose to skip.
Start ==
  /\ pc = "off"
  /\ report.status = "absent"
  /\ \E chosen \in SUBSET (Stages \ HardGates) :
       Launch({}, <<>>, NoDecision, chosen)
  /\ skipDone' = FALSE
  /\ UNCHANGED <<ckpt, resumes, result>>

\* A selection that would skip a hard gate is refused before any stage runs.
StartRefused ==
  /\ pc = "off"
  /\ report.status = "absent"
  /\ HardGates # {}
  /\ report' = [report EXCEPT !.status = "failed"]
  /\ UNCHANGED <<pc, memory, ckpt, resumes, result>>

\* Mutant: the decisions of the checkpoint are not loaded.
RelaunchForgetful(decision) ==
  /\ pc = "off"
  /\ ckpt.state = "saved"
  /\ resumes < MaxResumes
  /\ resumes' = resumes + 1
  /\ skipDone' = TRUE
  /\ Launch(ckpt.done, <<>>, decision, {})
  /\ UNCHANGED <<ckpt, result>>

\* An unreadable checkpoint makes run() start afresh, which fails on the
\* existing directory before it writes anything: no step of this module.
Relaunch(decision) ==
  /\ pc = "off"
  /\ ckpt.state = "saved"
  /\ resumes < MaxResumes
  /\ resumes' = resumes + 1
  /\ skipDone' = TRUE
  /\ Launch(ckpt.done, ckpt.decisions, decision, {})
  /\ UNCHANGED <<ckpt, result>>

\* POST /runs/{id}/resume and the command line: no decision.
Resume ==
  /\ report.status \in {"running", "paused", "failed", "blocked"}
  /\ Relaunch(NoDecision)

\* POST /runs/{id}/human-decision for the stage the report shows waiting.
Decide ==
  /\ report.status = "paused"
  /\ \E g \in HardGates \cup SoftGates, v \in Verdicts :
       /\ report.last[g] = "waiting"
       /\ Relaunch([stage |-> g, verdict |-> v])

-----------------------------------------------------------------------------
(* The loop.                                                               *)

Before(s) == 1..(s - 1)
Saved(d, ds) == [state |-> "saved", done |-> d, decisions |-> ds]

\* At the head of the loop, with a stage that is not merely passed over.
AtStage(kind) ==
  /\ pc = "top"
  /\ index \in kind
  /\ ~(skipDone /\ index \in done)
  /\ index \notin skips

PassOver ==
  /\ pc = "top"
  /\ index \in Stages
  /\ skipDone /\ index \in done
  /\ runs' = [runs EXCEPT ![index] = "completed"]
  /\ index' = index + 1
  /\ UNCHANGED <<pc, done, decisions, pending, skipDone, skips, loopCounts,
                 lastSig, outcome, verdict, ckpt, report, resumes, result>>

SkipChosen ==
  /\ pc = "top"
  /\ index \in Stages \cap skips
  /\ ~(skipDone /\ index \in done)
  /\ runs' = [runs EXCEPT ![index] = "completed"]
  /\ done' = done \cup {index}
  /\ ckpt' = Saved(done', decisions)
  /\ report' = [report EXCEPT !.last = runs']
  /\ result' = [result EXCEPT ![index] = "stands"]
  /\ index' = index + 1
  /\ UNCHANGED <<pc, decisions, pending, skipDone, skips, loopCounts,
                 lastSig, outcome, verdict, resumes>>

\* The duration limit, or an input artifact that does not fit its schema.
Stopped ==
  /\ pc = "top"
  /\ index \in Stages
  /\ pc' = "raise"
  /\ UNCHANGED <<memory, ckpt, report, resumes, result>>

\* Mutant: a rejection becomes the status of the stage.
StatusOfRejection(o) == IF o \in {"failed", "waiting", "rejected"} THEN o ELSE "completed"

StatusOf(o) == IF o \in {"failed", "waiting"} THEN o ELSE "completed"
Established(o) == IF o = "pass" THEN "stands"
                  ELSE IF o \in ChangeRequests THEN "changes" ELSE "none"

\* A stage has run: its entry is in the report, and whatever later stages
\* had produced rests on output that has been replaced.
Ran(o, ds) ==
  /\ outcome' = o
  /\ decisions' = ds
  /\ skipDone' = FALSE
  /\ runs' = [runs EXCEPT ![index] = StatusOf(o)]
  /\ report' = [report EXCEPT !.decisions = ds, !.last = runs']
  /\ result' = [s \in Stages |->
                  IF s < index THEN result[s]
                  ELSE IF s = index THEN Established(o) ELSE "none"]
  /\ pc' = "settle"
  /\ UNCHANGED <<index, done, skips, loopCounts, lastSig, verdict, ckpt,
                 resumes>>

RunAgent ==
  /\ AtStage(AgentStages)
  /\ \E o \in {"pass", "failed"}
           \cup (IF index \in LoopStages THEN Textual ELSE {})
           \cup (IF index \in ReviewStages THEN {"structured"} ELSE {}) : Ran(o, decisions)
  /\ UNCHANGED pending

\* A soft gate looks at the command-line flags and the terminal, never at
\* the pending decision.
RunSoftGate ==
  /\ AtStage(SoftGates)
  /\ \E o \in {"pass", "failed", "waiting"} : Ran(o, decisions)
  /\ UNCHANGED pending

\* Mutant: the gate is approved by default.
AwaitNothing ==
  /\ AtStage(HardGates)
  /\ pending = NoDecision
  /\ Ran("pass", decisions)
  /\ UNCHANGED pending

AwaitDecision ==
  /\ AtStage(HardGates)
  /\ pending = NoDecision
  /\ Ran("waiting", decisions)
  /\ UNCHANGED pending

\* normalize_decision: another gate's decision, or another target.
RefuseDecision ==
  /\ AtStage(HardGates)
  /\ pending # NoDecision
  /\ pending.stage # index \/ pending.verdict = "misdirected"
  /\ pending' = NoDecision
  /\ Ran("failed", decisions)

TakeDecision ==
  /\ AtStage(HardGates)
  /\ pending.stage = index
  /\ pending.verdict # "misdirected"
  /\ pending' = NoDecision
  /\ Ran(IF pending.verdict = "approved" THEN "pass" ELSE "rejected",
         Append(decisions, pending))

-----------------------------------------------------------------------------
(* After the stage: checkpoint, loop back or go on.                        *)

Raise ==
  /\ pc' = "raise"
  /\ UNCHANGED <<index, done, decisions, pending, skipDone, skips, runs,
                 outcome, verdict, ckpt, report, resumes, result>>

\* Mutant: the target's stage alone is forgotten.
LoopBackOneStage(target) ==
  /\ done' = done \ {target}
  /\ ckpt' = Saved(done', decisions)
  /\ index' = target
  /\ pc' = "top"
  /\ UNCHANGED <<decisions, pending, skipDone, skips, runs, outcome, verdict,
                 report, resumes, result>>

\* Forget everything from the target on, save that, and continue there.
LoopBack(target) ==
  /\ done' = done \cap Before(target)
  /\ ckpt' = Saved(done', decisions)
  /\ index' = target
  /\ pc' = "top"
  /\ UNCHANGED <<decisions, pending, skipDone, skips, runs, outcome, verdict,
                 report, resumes, result>>

\* Mutant: the waiting gate is saved as completed.
PauseBeyondGate ==
  /\ pc = "settle" /\ outcome = "waiting"
  /\ ckpt' = Saved(done \cup {index}, decisions)
  /\ pc' = "waiting"
  /\ UNCHANGED <<memory, report, resumes, result>>

Pause ==
  /\ pc = "settle" /\ outcome = "waiting"
  /\ ckpt' = Saved(done, decisions)
  /\ pc' = "waiting"
  /\ UNCHANGED <<memory, report, resumes, result>>

StageFailed ==
  /\ pc = "settle" /\ outcome = "failed"
  /\ Raise
  /\ UNCHANGED <<loopCounts, lastSig>>

\* Mutant: a rejected gate counts as completed.
RejectedAnyway ==
  /\ pc = "settle" /\ outcome = "rejected"
  /\ done' = done \cup {index}
  /\ ckpt' = Saved(done', decisions)
  /\ index' = index + 1
  /\ pc' = "top"
  /\ UNCHANGED <<decisions, pending, skipDone, skips, loopCounts, lastSig,
                 runs, outcome, verdict, report, resumes, result>>

Rejected ==
  /\ pc = "settle" /\ outcome = "rejected"
  /\ LoopBack(RejectTo[index])
  /\ UNCHANGED <<loopCounts, lastSig>>

\* The task board does not take the rejection of the final gate.
RejectionUnrecorded ==
  /\ pc = "settle" /\ outcome = "rejected"
  /\ index \in Acceptance
  /\ Raise
  /\ UNCHANGED <<loopCounts, lastSig>>

StageCompleted ==
  /\ pc = "settle" /\ outcome \in {"pass"} \cup ChangeRequests
  /\ done' = done \cup {index}
  /\ ckpt' = Saved(done', decisions)
  /\ pc' = "check"
  /\ UNCHANGED <<index, decisions, pending, skipDone, skips, loopCounts,
                 lastSig, runs, outcome, verdict, report, resumes, result>>

\* Mutant: the structured review is not examined.
GoOnUnexamined ==
  /\ pc = "check" /\ outcome \in {"pass", "structured"}
  /\ index' = index + 1
  /\ pc' = "top"
  /\ UNCHANGED <<done, decisions, pending, skipDone, skips, loopCounts,
                 lastSig, runs, outcome, verdict, ckpt, report, resumes, result>>

GoOn ==
  /\ pc = "check" /\ outcome = "pass"
  /\ index' = index + 1
  /\ pc' = "top"
  /\ UNCHANGED <<done, decisions, pending, skipDone, skips, loopCounts,
                 lastSig, runs, outcome, verdict, ckpt, report, resumes, result>>

Repeated == outcome \in Sigs /\ lastSig[index] = outcome

\* Mutant: loopbacks are not counted.
Uncounted ==
  /\ pc = "check" /\ outcome \in ChangeRequests
  /\ loopCounts' = loopCounts
  /\ lastSig' = IF outcome \in Textual
                THEN [lastSig EXCEPT ![index] = outcome] ELSE lastSig

\* The signature is appended only while the budget lasts, and only for a
\* textual change request.
Counted ==
  /\ pc = "check" /\ outcome \in ChangeRequests
  /\ loopCounts' = [loopCounts EXCEPT ![index] = @ + 1]
  /\ lastSig' = IF outcome \in Textual /\ loopCounts'[index] <= MaxRetries[index]
                THEN [lastSig EXCEPT ![index] = outcome] ELSE lastSig

ChangesRequested ==
  /\ Counted
  /\ loopCounts'[index] <= MaxRetries[index]
  /\ ~Repeated
  /\ LoopBack(LoopTo[index])

\* Out of retries, or the same error twice running.
GiveUp ==
  /\ Counted
  /\ loopCounts'[index] > MaxRetries[index] \/ Repeated
  /\ Raise

\* The task board does not take the event of a qa or review loopback.
RequestUnrecorded ==
  /\ Counted
  /\ loopCounts'[index] <= MaxRetries[index]
  /\ ~Repeated
  /\ Raise

-----------------------------------------------------------------------------
(* The end of run().                                                       *)

Exit(status) ==
  /\ pc' = "off"
  /\ report' = [status |-> status, decisions |-> decisions, last |-> runs]
  /\ UNCHANGED <<memory, ckpt, resumes, result>>

ReturnPaused ==
  /\ pc = "waiting"
  /\ Exit("paused")

\* Mutant: the loop ends one stage early.
SequenceCutShort ==
  /\ pc = "top" /\ index = N
  /\ pc' = "deliver"
  /\ UNCHANGED <<memory, ckpt, report, resumes, result>>

SequenceCompleted ==
  /\ pc = "top" /\ index = N + 1
  /\ pc' = "deliver"
  /\ UNCHANGED <<memory, ckpt, report, resumes, result>>

\* Worktree, pull request or merge: completed, blocked by CI, or failed.
Deliver ==
  /\ pc = "deliver"
  /\ verdict' \in {"completed", "blocked", "failed"}
  /\ pc' = "finish"
  /\ UNCHANGED <<index, done, decisions, pending, skipDone, skips, loopCounts,
                 lastSig, runs, outcome, ckpt, report, resumes, result>>

DeliverRaises ==
  /\ pc = "deliver"
  /\ Raise
  /\ UNCHANGED <<loopCounts, lastSig>>

Approved(ds, g) ==
  \E i \in DOMAIN ds :
    /\ ds[i] = [stage |-> g, verdict |-> "approved"]
    /\ \A j \in DOMAIN ds : j > i => ds[j].stage # g

\* The task board does not take the acceptance.
AcceptanceUnrecorded ==
  /\ pc = "finish" /\ verdict = "completed"
  /\ \E g \in Acceptance, i \in DOMAIN decisions :
       decisions[i] = [stage |-> g, verdict |-> "approved"]
  /\ Raise
  /\ UNCHANGED <<loopCounts, lastSig>>

Finish ==
  /\ pc = "finish"
  /\ ckpt' = IF verdict = "completed" THEN NoCkpt ELSE ckpt
  /\ pc' = "final"
  /\ UNCHANGED <<memory, report, resumes, result>>

ReturnFinal ==
  /\ pc = "final"
  /\ Exit(verdict)

ReturnFailed ==
  /\ pc = "raise"
  /\ Exit("failed")

-----------------------------------------------------------------------------
\* Steps whose next effect is a write of checkpoint.json, which truncates
\* the file before it writes it.
Saving ==
  \/ pc = "top" /\ index \in Stages \cap skips /\ ~(skipDone /\ index \in done)
  \/ pc = "settle" /\ outcome # "failed"
  \/ pc = "check" /\ outcome \in ChangeRequests

\* The process dies: a job timeout, a cancellation, the machine.
Crash ==
  /\ pc # "off"
  /\ pc' = "off"
  /\ \/ UNCHANGED ckpt
     \/ Saving /\ ckpt' = [NoCkpt EXCEPT !.state = "torn"]
  /\ UNCHANGED <<memory, report, resumes, result>>

Worker ==
  \/ PassOver \/ SkipChosen \/ Stopped
  \/ RunAgent \/ RunSoftGate \/ AwaitDecision \/ RefuseDecision \/ TakeDecision
  \/ Pause \/ StageFailed \/ Rejected \/ RejectionUnrecorded \/ StageCompleted
  \/ GoOn \/ ChangesRequested \/ GiveUp \/ RequestUnrecorded
  \/ ReturnPaused \/ SequenceCompleted \/ Deliver \/ DeliverRaises
  \/ AcceptanceUnrecorded \/ Finish \/ ReturnFinal \/ ReturnFailed

Next == Start \/ StartRefused \/ Resume \/ Decide \/ Worker \/ Crash

Spec == Init /\ [][Next]_vars

\* A live process goes on to its next step.
FairSpec == Spec /\ WF_vars(Worker)

-----------------------------------------------------------------------------
(* Properties.                                                             *)

\* Whatever the loop or the checkpoint counts as completed was produced by a
\* run of that stage that no later run of an earlier stage has outdated:
\* loopbacks, rejections, crashes and resumes never leave a stage counted
\* whose input has been rewritten since (orchestrator.py 401, 546, 614, 669).
CompletedRestsOnCurrentWork ==
  /\ pc \in {"top", "settle", "check", "deliver"} =>
       \A s \in done : result[s] # "none"
  /\ \A s \in ckpt.done : result[s] # "none"

\* No stage runs beyond a hard gate whose latest decision, in the history the
\* run itself keeps, is not an approval given to the current work
\* (human_gate.py normalize_decision, orchestrator.py 461-487, 520-560).
NoWorkPastAnOpenGate ==
  pc = "settle" =>
    \A g \in HardGates \cap Before(index) :
      Approved(decisions, g) /\ result[g] = "stands"

\* A run reported completed has every hard gate approved in its report, every
\* stage run on current work, and every stage in the report (orchestrator.py
\* 291-341).
CompletedRunIsSound ==
  report.status = "completed" =>
    /\ \A g \in HardGates : Approved(report.decisions, g)
    /\ \A s \in Stages : result[s] # "none" /\ report.last[s] = "completed"

\* A paused run stands at exactly one gate, and its checkpoint makes the next
\* attempt arrive there: everything before the gate counted, the gate not
\* (orchestrator.py 493-505, api/routes/runs.py 537-551).
PausedRunStandsAtItsGate ==
  report.status = "paused" =>
    /\ ckpt.state = "saved"
    /\ \E g \in HardGates \cup SoftGates :
         /\ {s \in Stages : report.last[s] = "waiting"} = {g}
         /\ ckpt.done = Before(g)

\* In an attempt that was not resumed, a stage that asked for changes is never
\* left behind: nothing after it runs before it has run again and passed
\* (orchestrator.py 580-690).
FirstAttemptReworks ==
  resumes = 0 /\ pc = "settle" =>
    \A s \in Before(index) : result[s] = "stands"

\* A checkpoint only ever adds decisions to those of the one it replaces
\* (orchestrator.py 205, 1268).
CheckpointKeepsDecisions ==
  [][ckpt.state = "saved" /\ ckpt'.state = "saved" =>
       IsPrefix(ckpt.decisions, ckpt'.decisions)]_vars

\* Loopbacks do not keep a worker busy for ever: an attempt ends, in a return
\* or in a crash, because each stage's requests are counted and no rejection
\* is taken twice (orchestrator.py 581-585, 643-647, 487).
AttemptEnds == []<>(pc = "off")

\* The run keeps the promise GatedRun states.  While a worker lives, the
\* approvals that count are those in its memory, with the one it has just
\* accepted; when it is gone, those of the checkpoint.
ApprovedGates ==
  IF pc = "off" THEN HardGates \cap ckpt.done
  ELSE HardGates \cap (done \cup IF pc = "settle" /\ outcome = "pass"
                                THEN {index} ELSE {})

UnusedApproval ==
  IF pc # "off" /\ pending.verdict = "approved" /\ pending.stage \in HardGates
  THEN pending.stage ELSE 0

Promise == INSTANCE GatedRun WITH
  Gates <- HardGates, status <- report.status,
  approved <- ApprovedGates, answer <- UnusedApproval

PromiseKept == Promise!Spec

-----------------------------------------------------------------------------
(* The inductive invariant behind these properties.                        *)

\* What kind of stage can have come to the outcome that is being settled.
OutcomeInv ==
  pc \in {"settle", "check"} =>
    /\ index \in Stages
    /\ outcome = "waiting" => index \in HardGates \cup SoftGates
    /\ outcome = "rejected" => index \in HardGates
    /\ outcome \in ChangeRequests => index \in LoopStages
    /\ pc = "check" => outcome \in {"pass"} \cup ChangeRequests

\* A whole prefix of the pipeline: every stage before stage k.
IsPrefixOfPipeline(d) == \E k \in 1..(N + 1) : d = Before(k)

\* Where the loop is and what it counts as completed.
PositionInv ==
  /\ pc = "waiting" => index \in Stages
  /\ pc = "top" /\ skipDone =>
       \E k \in 1..(N + 1) : done = Before(k) /\ index <= k
  /\ pc = "top" /\ ~skipDone => done = Before(index)
  /\ pc \in {"settle", "waiting"} => done = Before(index) /\ ~skipDone
  /\ pc = "check" => done = Before(index + 1) /\ ~skipDone
  /\ pc \in {"deliver", "finish", "final"} => done = Stages /\ index = N + 1
  /\ IsPrefixOfPipeline(ckpt.done)

\* How the files relate to memory and to each other.
FilesInv ==
  /\ pc # "off" => report.status = "running" /\ ckpt.state # "torn"
  /\ pc \notin {"off", "final"} => /\ ckpt.done = done
                                  /\ IsPrefix(ckpt.decisions, decisions)
  /\ pc \in {"finish", "final"} => verdict # "running"
  /\ pc = "final" => ckpt.done = IF verdict = "completed" THEN {} ELSE done
  /\ report.status = "absent" => ckpt = NoCkpt /\ resumes = 0
  /\ ckpt.state # "saved" => ckpt = [NoCkpt EXCEPT !.state = ckpt.state]

\* What counts as completed stands on current work and approved gates.
CurrentInv ==
  /\ pc # "off" => \A s \in done : result[s] # "none"
  /\ pc # "off" => \A g \in HardGates \cap done :
                     Approved(decisions, g) /\ result[g] = "stands"
  /\ \A s \in ckpt.done : result[s] # "none"
  /\ \A g \in HardGates \cap ckpt.done :
       Approved(ckpt.decisions, g) /\ result[g] = "stands"
  /\ pc \in {"settle", "check"} => result[index] = Established(outcome)
  /\ pc \in {"settle", "check"} /\ index \in HardGates /\ outcome = "pass" =>
       Approved(decisions, index)

\* What the stage runs of the report say.
RunsInv ==
  /\ pc \in {"top", "settle", "check", "deliver", "finish", "final"} =>
       \A s \in Before(index) : runs[s] = "completed"
  /\ pc \in {"settle", "check"} => runs[index] = StatusOf(outcome)
  /\ pc \in {"top", "settle", "check"} =>
       \A s \in Stages : runs[s] = "waiting" =>
                           pc = "settle" /\ s = index
  /\ pc = "waiting" => /\ ckpt.state = "saved"
                      /\ index \in HardGates \cup SoftGates
                      /\ {s \in Stages : runs[s] = "waiting"} = {index}

\* In an attempt that was not resumed nothing is left behind.
FirstAttemptInv ==
  resumes = 0 /\ pc \in {"top", "settle", "check"} =>
    ~skipDone /\ \A s \in Before(index) : result[s] = "stands"

Inductive ==
  /\ TypeOK
  /\ OutcomeInv
  /\ PositionInv
  /\ FilesInv
  /\ CurrentInv
  /\ RunsInv
  /\ FirstAttemptInv
  /\ CompletedRunIsSound
  /\ PausedRunStandsAtItsGate

-----------------------------------------------------------------------------
(* What the documents say and the code does otherwise.                     *)

\* A problem the qa or review stage found goes back to development, so no run
\* is completed over one (docs/superpowers/specs/2026-04-30-agent-
\* collaboration-workflow-design.md 200 and 222).  The stage is saved as
\* completed before its verdict is looked at (orchestrator.py 562-580), so an
\* attempt that resumes passes over it.
ChangeRequestsAreReworked ==
  report.status = "completed" => \A s \in Stages : result[s] = "stands"

\* A run that was interrupted beyond its first stage can be taken up again
\* from its checkpoint (docs/superpowers/superpower-analysis.md 323).  The
\* file is truncated before it is written, and removed before the report says
\* completed.
InterruptedRunCanResume ==
  pc = "off" /\ report.status = "running"
    /\ (\E s \in Stages \ {1} : report.last[s] = "completed")
  => ckpt.state = "saved"

=============================================================================
