----------------------------- MODULE MultiUnit -----------------------------
(***************************************************************************)
(* One pipeline run in "multi-unit" mode (src/engine/orchestrator.py,      *)
(* src/engine/requirement_splitter.py): a requirement too large for one    *)
(* prompt is split into units; the stages before the unit stages run once, *)
(* the unit stages run for every unit in the order of the dependencies,    *)
(* the stages after them run once on the whole.  All of them share one     *)
(* checkpoint.json and one work tree; the worker may die between any two   *)
(* steps.                                                                  *)
(*                                                                         *)
(* The inner detail of a stage sequence (skip_stages, error signatures, a  *)
(* torn checkpoint, the crash between a completed stage and its loopback)  *)
(* is the subject of StageSequence; here a stage settles in one step.      *)
(***************************************************************************)
EXTENDS Integers, Sequences, SequencesExt, FiniteSets

CONSTANTS
  N,            \* number of stages of the pipeline
  HardGates,    \* human_review stages that need an explicit decision
  SoftGates,    \* the other human_review stages
  RejectTo,     \* reject_to of each hard gate
  UnitStageIds, \* runner.unit_stage_ids
  LoopTo,       \* loopback_to, of the stages that have one
  MaxRetries,   \* their max_retries
  Units,        \* ids of the units, as integers
  Splits,       \* the splits of a requirement that are considered
  MaxResumes    \* bound: how often a run is resumed

Stages == 1..N
LoopStages == DOMAIN LoopTo

(* A split names for each unit the units it depends on and its priority;   *)
(* parse_requirement_units sees to it that there are units, that their ids *)
(* are distinct and that they depend on known units, not that the          *)
(* dependencies have no cycle.                                             *)
ASSUME MultiUnitAssumption ==
  /\ N \in Nat
  /\ HardGates \subseteq Stages
  /\ SoftGates \subseteq Stages \ HardGates
  /\ RejectTo \in [HardGates -> Stages]
  /\ UnitStageIds \subseteq Stages
  /\ LoopTo \in [LoopStages -> Stages]
  /\ LoopStages \subseteq Stages
  /\ MaxRetries \in [LoopStages -> Nat]
  /\ Units \subseteq Nat /\ Units # {} /\ IsFiniteSet(Units)
  /\ Splits \subseteq [deps : [Units -> SUBSET Units], priority : [Units -> Int]]
  /\ MaxResumes \in Nat

(* _unit_stages refuses a hard gate among the unit stages and an empty     *)
(* selection: such a configuration fails every run it starts.              *)
UnitStages == UnitStageIds \ SoftGates

ASSUME UnitStagesAssumption ==
  /\ UnitStageIds \cap HardGates = {}
  /\ UnitStages # {}

\* Nothing checks that work is sent back, not ahead; forward loopbacks and
\* rejections are left out.
ASSUME BackwardAssumption ==
  /\ \A g \in HardGates : RejectTo[g] <= g
  /\ \A s \in LoopStages : LoopTo[s] <= s

\* _partition_multi_unit_stages.  A stage between two unit stages that is
\* not one of them belongs to no part and never runs.
Pre == {s \in Stages : \A u \in UnitStages : s < u}
Post == {s \in Stages : \A u \in UnitStages : s > u}
Parts == [pre |-> Pre, unit |-> UnitStages, post |-> Post]

\* Stages are run in their order; "end" is beyond the last.
End == N + 1
NextIn(part, s) ==
  LET later == {t \in part : t > s} IN
  IF later = {} THEN End ELSE CHOOSE t \in later : \A r \in later : t <= r
First(part) == NextIn(part, 0)

Verdicts == {"approved", "rejected", "misdirected"}
Decisions == [stage : Stages, verdict : Verdicts]
NoDecision == [stage |-> 0, verdict |-> "none"]
Outcomes == {"pass", "changes", "failed", "waiting", "rejected"}

VARIABLES
  split,       \* requirement-units.json
  summary,     \* what the combined reports say of each unit
  phase,       \* which part the worker is in; "off" when no process runs
  step,        \* "top" before a stage, "settle" after it
  pos,         \* the stage the sequence is at
  unit,        \* the unit being worked on, 0 for none
  visited,     \* units the loop over ordered_units has passed
  done,        \* completed_stages of the run
  progress,    \* report.units
  decisions,   \* report.human_decisions
  pending,     \* the decision the attempt was started with, until it is used
  resume,      \* resume, as the loop over the units is told
  skipDone,    \* skip_completed of the current sequence
  loops,       \* loop_counts of the current sequence
  outcome,     \* what the stage that just ran came to
  ckpt,        \* checkpoint.json
  report,      \* report.json: the status, and the gate that is waiting
  resumes,     \* bookkeeping of the bound
  result,      \* history: stages of Pre and Post whose output is current
  work,        \* history: per unit, the unit stages whose output is current
  owed,        \* history: units a rejection sent back and not yet redone
  displaced    \* history: the checkpoint was left to one unit by a crash

place == <<phase, step, pos, unit, visited>>
memory == <<done, progress, decisions, pending, resume, skipDone, loops, outcome>>
history == <<result, work, owed, displaced>>
files == <<split, summary>>
vars == <<files, place, memory, ckpt, report, resumes, history>>

ProgressStatuses == {"pending", "in_progress", "completed", "failed"}
Progress == [Units -> [status : ProgressStatuses, done : SUBSET UnitStages]]
Fresh == [u \in Units |-> [status |-> "pending", done |-> {}]]
NoLoops == [s \in LoopStages |-> 0]
NoCkpt == [exists |-> FALSE, done |-> {}, progress |-> Fresh, decisions |-> <<>>]

TypeOK ==
  /\ split \in [deps : [Units -> SUBSET Units], priority : [Units -> Int]]
  /\ summary \in [Units -> ProgressStatuses \cup {"none"}]
  /\ phase \in {"off", "pre", "units", "unit", "post", "loopback", "waiting",
                "deliver", "raise"}
  /\ step \in {"top", "settle"}
  /\ pos \in 0..End
  /\ unit \in Units \cup {0}
  /\ visited \subseteq Units
  /\ done \subseteq Stages
  /\ progress \in Progress
  /\ decisions \in Seq(Decisions)
  /\ pending \in Decisions \cup {NoDecision}
  /\ resume \in BOOLEAN /\ skipDone \in BOOLEAN
  /\ loops \in [LoopStages -> Nat]
  /\ outcome \in Outcomes
  /\ ckpt \in [exists : BOOLEAN, done : SUBSET Stages, progress : Progress,
               decisions : Seq(Decisions)]
  /\ report \in [status : {"absent", "running", "paused", "completed",
                           "failed", "blocked"},
                 waiting : Stages \cup {0}]
  /\ resumes \in Nat
  /\ result \subseteq Stages
  /\ work \in [Units -> SUBSET UnitStages]
  /\ owed \subseteq Units
  /\ displaced \in BOOLEAN

-----------------------------------------------------------------------------
(* The order of the units.                                                 *)

\* The units that are ordered after n rounds of _order_requirement_units.
Ordered(deps) ==
  LET after[n \in Nat] ==
        IF n = 0 THEN {}
        ELSE after[n - 1] \cup {u \in Units : deps[u] \subseteq after[n - 1]}
  IN after

Cyclic(deps) == Ordered(deps)[Cardinality(Units)] # Units

\* Mutant: priority alone orders the units.
PrecedesByPriority(u, v) ==
  \/ split.priority[u] < split.priority[v]
  \/ split.priority[u] = split.priority[v] /\ u < v

\* Rounds first, priority and id within a round.
Precedes(u, v) ==
  LET after == Ordered(split.deps)
      Round(w) == CHOOSE n \in 1..Cardinality(Units) :
                    w \in after[n] /\ w \notin after[n - 1] IN
  \/ Round(u) < Round(v)
  \/ /\ Round(u) = Round(v)
     /\ \/ split.priority[u] < split.priority[v]
        \/ split.priority[u] = split.priority[v] /\ u < v

\* The unit the loop over ordered_units comes to next.
NextUnit(u) ==
  /\ u \in Units \ visited
  /\ \A v \in Units \ visited : v = u \/ Precedes(u, v)

-----------------------------------------------------------------------------
(* Starting and resuming.                                                  *)

Init ==
  /\ split \in Splits /\ summary = [u \in Units |-> "none"]
  /\ phase = "off" /\ step = "top" /\ pos = 0 /\ unit = 0 /\ visited = {}
  /\ done = {} /\ progress = Fresh /\ decisions = <<>> /\ pending = NoDecision
  /\ resume = FALSE /\ skipDone = FALSE /\ loops = NoLoops /\ outcome = "pass"
  /\ ckpt = NoCkpt
  /\ report = [status |-> "absent", waiting |-> 0]
  /\ resumes = 0
  /\ result = {} /\ work = [u \in Units |-> {}] /\ owed = {}
  /\ displaced = FALSE

\* Enter a sequence of stages.
Enter(part, skip) ==
  /\ phase' = part /\ step' = "top" /\ pos' = First(Parts[part])
  /\ skipDone' = skip
  /\ loops' = NoLoops

\* run() up to the first stage.
Launch(restored, decision, again) ==
  /\ Enter("pre", again)
  /\ unit' = 0 /\ visited' = {}
  /\ done' = restored.done
  /\ progress' = restored.progress
  /\ decisions' = restored.decisions
  /\ pending' = decision
  /\ resume' = again
  /\ outcome' = "pass"
  /\ report' = [status |-> "running", waiting |-> 0]
  /\ UNCHANGED <<files, ckpt, history>>

Start ==
  /\ phase = "off" /\ report.status = "absent"
  /\ Launch(NoCkpt, NoDecision, FALSE)
  /\ UNCHANGED resumes

\* split_requirement raises outside the try of run(): report.json stays at
\* "running" with nobody at work and no checkpoint to resume from.
SplitFails ==
  /\ phase = "off" /\ report.status = "absent"
  /\ report' = [report EXCEPT !.status = "running"]
  /\ UNCHANGED <<files, place, memory, ckpt, resumes, history>>

Relaunch(decision) ==
  /\ phase = "off" /\ ckpt.exists
  /\ resumes < MaxResumes
  /\ resumes' = resumes + 1
  /\ Launch(ckpt, decision, TRUE)

Resume ==
  /\ report.status \in {"running", "paused", "failed", "blocked"}
  /\ Relaunch(NoDecision)

Decide ==
  /\ report.status = "paused"
  /\ \E v \in Verdicts : Relaunch([stage |-> report.waiting, verdict |-> v])

-----------------------------------------------------------------------------
(* A stage of the current sequence.                                        *)

Running == phase \in {"pre", "unit", "post"}
InUnit == phase = "unit"
Part == Parts[phase]

\* completed_stages as the sequence is given it: the unit's own list while a
\* unit is worked on.
Counted == IF InUnit THEN progress[unit].done ELSE done

Saved(counted, prog) ==
  [exists |-> TRUE, done |-> counted, progress |-> prog, decisions |-> decisions]

\* completed_stages := counted, and the checkpoint with it.
CountAndSave(counted) ==
  IF InUnit
  THEN /\ progress' = [progress EXCEPT ![unit].done = counted]
       /\ ckpt' = Saved(counted, progress')
       /\ UNCHANGED done
  ELSE /\ done' = counted
       /\ ckpt' = Saved(counted, progress)
       /\ UNCHANGED progress

PassOver ==
  /\ Running /\ step = "top" /\ pos \in Part
  /\ skipDone /\ pos \in Counted
  /\ pos' = NextIn(Part, pos)
  /\ UNCHANGED <<files, phase, step, unit, visited, memory, ckpt, report,
                 resumes, history>>

\* An exception out of a sequence.  A unit is marked failed and the list of
\* the run is saved again; the other parts save nothing.
Raise ==
  /\ phase' = "raise"
  /\ IF InUnit
     THEN /\ progress' = [progress EXCEPT ![unit].status = "failed"]
          /\ ckpt' = Saved(done, progress')
     ELSE UNCHANGED <<progress, ckpt>>
  /\ UNCHANGED <<files, step, pos, unit, visited, done, decisions, pending,
                 resume, skipDone, outcome, report, resumes, history>>

\* The duration limit, or an input artifact that does not fit its schema.
Stopped ==
  /\ Running /\ step = "top" /\ pos \in Part
  /\ Raise
  /\ UNCHANGED loops

\* What the run of a stage replaces: its own output, that of every later
\* stage, and that of the units that follow in the shared work tree.
Produce(ok) ==
  IF InUnit
  THEN /\ work' = [u \in Units |->
                     IF u = unit
                     THEN {s \in work[u] : s < pos} \cup (IF ok THEN {pos} ELSE {})
                     ELSE IF Precedes(u, unit) THEN work[u] ELSE {}]
       /\ result' = result \ Post
  ELSE /\ result' = {s \in result : s < pos} \cup (IF ok THEN {pos} ELSE {})
       /\ work' = IF phase = "pre" THEN [u \in Units |-> {}] ELSE work

Run(o, decs) ==
  /\ outcome' = o
  /\ decisions' = decs
  /\ step' = "settle"
  /\ skipDone' = FALSE
  /\ ckpt' = IF InUnit THEN Saved(progress[unit].done, progress) ELSE ckpt
  /\ report' = [report EXCEPT !.waiting = IF o = "waiting" THEN pos ELSE @]
  /\ Produce(o \in {"pass", "changes"})
  /\ UNCHANGED <<files, phase, pos, unit, visited, done, progress, resume, loops,
                 resumes, owed, displaced>>

AtStage(kind) ==
  /\ Running /\ step = "top" /\ pos \in Part \cap kind
  /\ ~(skipDone /\ pos \in Counted)

RunStage ==
  /\ AtStage(Stages \ HardGates)
  /\ \E o \in {"pass", "failed"}
           \cup (IF pos \in LoopStages THEN {"changes"} ELSE {})
           \cup (IF pos \in SoftGates THEN {"waiting"} ELSE {}) : Run(o, decisions)
  /\ UNCHANGED pending

\* _decision_for_stages: the decision reaches only the part its gate is in.
Offered == IF pending.stage \in Part THEN pending ELSE NoDecision

\* Mutant: a gate without a decision is taken as approved.
AwaitNothing ==
  /\ AtStage(HardGates)
  /\ Offered = NoDecision
  /\ Run("pass", decisions)
  /\ UNCHANGED pending

AwaitDecision ==
  /\ AtStage(HardGates)
  /\ Offered = NoDecision
  /\ Run("waiting", decisions)
  /\ UNCHANGED pending

RefuseDecision ==
  /\ AtStage(HardGates)
  /\ Offered # NoDecision
  /\ Offered.stage # pos \/ Offered.verdict = "misdirected"
  /\ pending' = NoDecision
  /\ Run("failed", decisions)

\* Mutant: whatever was decided approves the gate.
TakeAnyDecision ==
  /\ AtStage(HardGates)
  /\ Offered.stage = pos
  /\ Offered.verdict # "misdirected"
  /\ pending' = NoDecision
  /\ Run("pass", Append(decisions, pending))

TakeDecision ==
  /\ AtStage(HardGates)
  /\ Offered.stage = pos
  /\ Offered.verdict # "misdirected"
  /\ pending' = NoDecision
  /\ Run(IF pending.verdict = "approved" THEN "pass" ELSE "rejected",
         Append(decisions, pending))

-----------------------------------------------------------------------------
(* After the stage.                                                        *)

GoTo(target) ==
  /\ step' = "top" /\ pos' = target
  /\ UNCHANGED <<files, phase, unit, visited, decisions, pending, resume,
                 skipDone, outcome, report, resumes, history>>

Settling(o) == Running /\ step = "settle" /\ outcome = o

Pause ==
  /\ Settling("waiting")
  /\ CountAndSave(Counted)
  /\ phase' = "waiting"
  /\ UNCHANGED <<files, step, pos, unit, visited, decisions, pending, resume,
                 skipDone, loops, outcome, report, resumes, history>>

StageFailed ==
  /\ Settling("failed")
  /\ Raise
  /\ UNCHANGED loops

StageCompleted ==
  /\ Settling("pass")
  /\ CountAndSave(Counted \cup {pos})
  /\ GoTo(NextIn(Part, pos))
  /\ UNCHANGED loops

\* Forget the target and what follows it, as far as this sequence goes.
BackTo(target) ==
  /\ CountAndSave((Counted \cup (IF outcome = "changes" THEN {pos} ELSE {}))
                    \ {s \in Part : s >= target})
  /\ GoTo(target)

\* Mutant: loopbacks are not counted.
ChangesUncounted ==
  /\ Settling("changes")
  /\ loops' = loops
  /\ LoopTo[pos] \in Part
  /\ BackTo(LoopTo[pos])

ChangesRequested ==
  /\ Settling("changes")
  /\ loops' = [loops EXCEPT ![pos] = @ + 1]
  /\ loops'[pos] <= MaxRetries[pos]
  /\ LoopTo[pos] \in Part
  /\ BackTo(LoopTo[pos])

\* Out of retries, or a target outside this sequence.
GiveUp ==
  /\ Settling("changes")
  /\ loops' = [loops EXCEPT ![pos] = @ + 1]
  /\ loops'[pos] > MaxRetries[pos] \/ LoopTo[pos] \notin Part
  /\ Raise

RejectedWithin ==
  /\ Settling("rejected")
  /\ RejectTo[pos] \in Part
  /\ BackTo(RejectTo[pos])
  /\ UNCHANGED loops

\* external_reject_targets: the units are to be redone.
RejectedToUnits ==
  /\ Settling("rejected")
  /\ phase = "post" /\ RejectTo[pos] \in UnitStages
  /\ ckpt' = Saved(done, progress)
  /\ phase' = "loopback"
  /\ owed' = Units
  /\ UNCHANGED <<files, step, pos, unit, visited, memory, report, resumes,
                 result, work, displaced>>

RejectedNowhere ==
  /\ Settling("rejected")
  /\ RejectTo[pos] \notin Part
  /\ phase = "post" => RejectTo[pos] \notin UnitStages
  /\ Raise
  /\ UNCHANGED loops

-----------------------------------------------------------------------------
(* Between the sequences.                                                  *)

AtEnd(part) == phase = part /\ step = "top" /\ pos = End

\* _run_requirement_units begins.
EnterUnits ==
  /\ AtEnd("pre")
  /\ phase' = IF Cyclic(split.deps) THEN "raise" ELSE "units"
  /\ visited' = {}
  /\ UNCHANGED <<files, step, pos, unit, memory, ckpt, report, resumes, history>>

Completed(u) == progress[u].status = "completed"

PassUnit(u) ==
  /\ phase = "units" /\ NextUnit(u)
  /\ Completed(u)
  /\ visited' = visited \cup {u}
  /\ UNCHANGED <<files, phase, step, pos, unit, memory, ckpt, report, resumes,
                 history>>

\* The check for incomplete dependencies is part of the guard: with the units
\* in their order it never raises (DependenciesFirst).
BeginUnit(u) ==
  /\ phase = "units" /\ NextUnit(u)
  /\ ~Completed(u)
  /\ \A d \in split.deps[u] : Completed(d)
  /\ unit' = u
  /\ progress' = [progress EXCEPT ![u].status = "in_progress"]
  /\ ckpt' = Saved(done, progress')
  /\ Enter("unit", resume /\ progress[u].done # {})
  /\ UNCHANGED <<files, visited, done, decisions, pending, resume, outcome,
                 report, resumes, history>>

EndUnit ==
  /\ AtEnd("unit")
  /\ progress' = [progress EXCEPT ![unit].status = "completed"]
  /\ ckpt' = Saved(done, progress')
  /\ visited' = visited \cup {unit}
  /\ unit' = 0
  /\ phase' = "units"
  /\ owed' = owed \ {unit}
  /\ UNCHANGED <<files, step, pos, done, decisions, pending, resume, skipDone,
                 loops, outcome, report, resumes, result, work, displaced>>

\* _write_unit_summary_artifacts: the combined reports name the state of every
\* unit, but say "passed" and "Approve" of the whole whatever that is.
Summarized == [u \in Units |-> progress[u].status]

\* The unit stages count as completed; the next save tells the checkpoint.
EndUnits ==
  /\ phase = "units" /\ visited = Units
  /\ summary' = Summarized
  /\ done' = done \cup UnitStages
  /\ IF Post = {} THEN /\ phase' = "deliver"
                       /\ UNCHANGED <<step, pos, skipDone, loops>>
     ELSE Enter("post", TRUE)
  /\ UNCHANGED <<split, unit, visited, progress, decisions, pending, resume,
                 outcome, ckpt, report, resumes, history>>

\* Mutant: the units keep their progress when a rejection sends them back.
ResetUnitsKeptProgress ==
  /\ phase = "loopback"
  /\ done' = done \ UnitStages
  /\ ckpt' = Saved(done', progress)
  /\ resume' = FALSE
  /\ pending' = NoDecision
  /\ visited' = {}
  /\ phase' = "units"
  /\ UNCHANGED <<files, step, pos, unit, progress, decisions, skipDone, loops,
                 outcome, report, resumes, history>>

\* Only the ids of the unit stages leave completed_stages.
ResetUnits ==
  /\ phase = "loopback"
  /\ progress' = Fresh
  /\ done' = done \ UnitStages
  /\ ckpt' = Saved(done', Fresh)
  /\ resume' = FALSE
  /\ pending' = NoDecision
  /\ visited' = {}
  /\ phase' = "units"
  /\ UNCHANGED <<files, step, pos, unit, decisions, skipDone, loops, outcome,
                 report, resumes, history>>

EndPost ==
  /\ AtEnd("post")
  /\ phase' = "deliver"
  /\ UNCHANGED <<files, step, pos, unit, visited, memory, ckpt, report, resumes,
                 history>>

-----------------------------------------------------------------------------
(* The end of run(), and the death of the process.                         *)

Exit(status) ==
  /\ phase' = "off"
  /\ report' = [report EXCEPT !.status = status]
  /\ UNCHANGED <<files, step, pos, unit, visited, memory, resumes, history>>

ReturnPaused == phase = "waiting" /\ Exit("paused") /\ UNCHANGED ckpt
ReturnFailed == phase = "raise" /\ Exit("failed") /\ UNCHANGED ckpt

Deliver ==
  /\ phase = "deliver"
  /\ \/ Exit("completed") /\ ckpt' = NoCkpt
     \/ \E s \in {"blocked", "failed"} : Exit(s) /\ UNCHANGED ckpt

\* In a unit the checkpoint holds the unit's list from the first stage on; in
\* the loopback it holds the rejection and the progress it will undo.
Crash ==
  /\ phase # "off"
  /\ phase' = "off"
  /\ displaced' = (displaced \/ phase \in {"unit", "loopback"})
  /\ UNCHANGED <<files, step, pos, unit, visited, memory, ckpt, report, resumes,
                 result, work, owed>>

Worker ==
  \/ PassOver \/ Stopped \/ RunStage
  \/ AwaitDecision \/ RefuseDecision \/ TakeDecision
  \/ Pause \/ StageFailed \/ StageCompleted \/ ChangesRequested \/ GiveUp
  \/ RejectedWithin \/ RejectedToUnits \/ RejectedNowhere
  \/ EnterUnits \/ (\E u \in Units : PassUnit(u) \/ BeginUnit(u))
  \/ EndUnit \/ EndUnits \/ ResetUnits \/ EndPost \/ ReturnPaused \/ ReturnFailed \/ Deliver

Next == Start \/ SplitFails \/ Resume \/ Decide \/ Worker \/ Crash

Spec == Init /\ [][Next]_vars
\* A live process goes on to its next step.
FairSpec == Spec /\ WF_vars(Worker)

-----------------------------------------------------------------------------
(* Properties.                                                             *)

Approved(g) ==
  \E i \in DOMAIN decisions :
    /\ decisions[i] = [stage |-> g, verdict |-> "approved"]
    /\ \A j \in DOMAIN decisions : j > i => decisions[j].stage # g

\* The loop over the units meets no unit before all it depends on are
\* completed and, after a rejection, redone: in any attempt, with whatever
\* progress a checkpoint restored (orchestrator.py 863-880, 951-969).
DependenciesFirst ==
  LET Due(u) == \A d \in split.deps[u] : Completed(d) /\ d \notin owed IN
  /\ phase = "units" => \A u \in Units : NextUnit(u) /\ ~Completed(u) => Due(u)
  /\ InUnit => Due(unit)

\* No unit is worked on unless every gate before the units has been approved,
\* and approved for the plan as it is now, however often the run crashed and
\* was resumed (tests/test_engine.py 1293: the global confirmation comes
\* before the development of the units).
NoUnitWorkPastAnOpenGate ==
  InUnit /\ step = "settle" => \A g \in Pre \cap HardGates : Approved(g) /\ g \in result

\* What is put to the final stages is whole: every unit has been through every
\* unit stage since the plan was made, since the units before it were done and
\* since the last rejection.  A worker that died inside a unit or between a
\* rejection and the reset left a checkpoint for which this does not hold
\* (orchestrator.py 744-800).
WholeWorkIsJudged ==
  phase = "post" /\ step = "settle" /\ ~displaced =>
    /\ owed = {}
    /\ Pre \subseteq result
    /\ \A u \in Units : work[u] = UnitStages /\ summary[u] = "completed"

\* Retries, rejections and the loop over the units do not keep a worker busy
\* for ever (orchestrator.py 581-585, 744-806).
AttemptEnds == []<>(phase = "off")

\* The run keeps the promise GatedRun states, in multi-unit mode too.
ApprovedGates ==
  IF phase = "off" THEN HardGates \cap ckpt.done
  ELSE HardGates \cap (done \cup IF step = "settle" /\ outcome = "pass" /\ ~InUnit
                                THEN {pos} ELSE {})

UnusedApproval ==
  IF phase # "off" /\ pending.verdict = "approved" /\ pending.stage \in HardGates
  THEN pending.stage ELSE 0

Promise == INSTANCE GatedRun WITH
  Gates <- HardGates, status <- report.status,
  approved <- ApprovedGates, answer <- UnusedApproval

PromiseKept == Promise!Spec

-----------------------------------------------------------------------------
(* What a test says of the checkpoint and the code does otherwise.         *)

\* A run that stopped inside a unit resumes in that unit: its checkpoint still
\* counts the stages that ran before the units (tests/test_engine.py 1518:
\* the unit's progress is kept so that a resume finds the exact place).
InterruptedUnitResumesInPlace ==
  phase = "off" /\ ckpt.exists
    /\ (\E u \in Units : ckpt.progress[u].status = "in_progress")
  => Pre \subseteq ckpt.done

=============================================================================
