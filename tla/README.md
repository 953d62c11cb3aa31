# A verification of ai-team-platform in TLA+

The platform runs pipelines of AI agents over a repository.  A pipeline is a
list of stages; some run agents, some wait for a human (*gates*), some send the
work back to an earlier stage (*loopbacks*).  The orchestrator
(`src/engine/orchestrator.py`) drives one run; the API (`src/api`) and the
command line start, resume, decide, cancel and archive runs; jobs travel
through a Redis queue to workers; a run's state is kept in files of its output
directory (`checkpoint.json`, `report.json`), on a task board
(`.ai/harness`), in a database and in an event stream.

This directory holds models of that behaviour (TLA+ modules), the
configurations under which TLC checks them, and proofs of theorems that TLAPS
checks.  References such as *401* without a file are lines of
`src/engine/orchestrator.py`.

## 1. Inventory

| component | state | operations | hard part | module |
|---|---|---|---|---|
| stage sequence (`orchestrator.py` 159-694) | position, completed stages, decisions, skip flags, loop counters; `checkpoint.json`, `report.json` | start, resume, decide, run a stage, loop back, pause, deliver, return | crash between any two writes, resume, stale work after a loopback, gates | StageSequence |
| requirement units (708-969, `requirement_splitter.py`) | unit progress, shared checkpoint | split, order, run each unit, post stages, loop back to the units | partial completion, rejection across units, one checkpoint for two lists | MultiUnit |
| develop loop (1491-1700), `quality_gates.py`, `harness_checks.py` | retry count, gate results, rounds | run agents, run gates, send back, verify | what the gates saw against what is passed on | StageWork |
| agent runner (`agent_runner.py`) | child processes, output files | start, read, time out, collect | silent agents, agents that outlive the worker, threads | StageWork |
| contracts and readiness (`artifact_contracts.py`, `release_readiness.py`) | JSON files, the verdict | extract, validate, judge | artifacts of an earlier turn, a verdict from a rebuilt report | StageWork |
| run lifecycle (`api/routes/runs.py`, `api/runtime.py`, `task_queue.py`, `tasks.py`) | jobs, the Redis job key, database row | create, resume, decide, cancel, retry, archive, failure callbacks | check-then-enqueue, two jobs of one run, cancel against a running job, last writer wins | RunLifecycle |
| task board (`task_board.py`) | lock file, task records, event files, snapshot | record an event, rebuild | lock by exclusive creation, time-out, death inside the lock | TaskBoard |
| work trees and delivery (`worktree.py`, `pr_manager.py`, 229-235, 296-342) | work trees, branches, the shared checkout, pull requests | create, commit, squash or merge, push, open, await checks, clean up | two runs in one checkout, refused commits, conflicts, a retry of what was done | Delivery |
| settings, pipelines, configuration (`config.py`, `routes/settings.py`, `routes/pipelines.py`) | rows, the file of a run | show, save, reset, create, update, delete, materialise, load | masks that come back, overtaken saves, edits between two attempts | Catalog |
| event delivery (`events.py`, `api/ws.py`, `RunDetail.tsx`) | run_events, channel, connection, page | publish, write, history, subscribe, fetch again | gap between history and subscription, writers that overtake each other | EventStream |
| repository (`persistence/repository.py`) | rows | upsert a report, create, read | late writes | RunLifecycle, Catalog |
| webhooks, connection pool, migrations, scanner, observation, other routes | - | - | - | none, see section 11 |

How they meet: a request of the API puts a job in the queue; a worker takes it
and drives the stage sequence (or the units), whose stages run agents and
gates; a run that is over is delivered from its work tree.  Each step leaves
its traces in `checkpoint.json`, `report.json`, the row of the run, the task
board and the event stream, from which the next attempt, the next request and
the page of the run are served.  The modules cut along these files: what one
module treats as a single step is the subject of another, and every section
below says which.

`PROJECT.json` lists every component with its files and its status, and the
hazards with the line where each one bites.

## 2. Plan

Order: what loses or falsifies a run's outcome first.

1. **StageSequence** with the abstract **GatedRun** it implements: modelled, checked, proved.
2. **TaskBoard**: the lock file, the records, the event files, the snapshot;
   modelled, checked, proved, with the abstract **AtomicBoard** it implements.
3. **RunLifecycle**: API, queue, several workers, report, checkpoint, row;
   modelled, checked, proved.  The run status machine of `models.py` 20-30 is not an
   abstraction it implements: section 12 says where it does not.
4. **MultiUnit**, a second implementation of GatedRun: modelled, checked, proved.
5. **StageWork**: agents, artifacts, gates, verdict; modelled, checked, proved.
6. **Delivery**, **Catalog**, **EventStream**: modelled, checked, proved.

Every safety property and every action property that a run checks is a theorem,
and so are the three refinements.  Five modules have theorems about what makes an
attempt, a job or a request end: four an `AttemptDescends`, RunLifecycle
`JobsDescend`, `HandlersDescend` and `WaitingHasAnEnd`.

Left: the fallback of an agent to another model; a second attempt in
EventStream; two launches of one run id in Catalog; a rank for the connection of
EventStream.

## 3. StageSequence

### Correspondence

| variable | code |
|---|---|
| `pc` | where the worker is: head of the loop (`top`), after a stage (`settle`), after its checkpoint (`check`), returned waiting, delivering, finishing, in the handler of line 345 (`raise`), no process (`off`) |
| `index`, `done`, `decisions`, `pending`, `skipDone`, `skips`, `loopCounts`, `lastSig` | `index`, `completed_stages`, `report.human_decisions`, `pending_human_decision`, `skip_completed`, `skip_set`, `loop_counts`, the last entry of `loopback_errors` |
| `runs` | the last status of each stage in `report.stages` |
| `ckpt`, `report` | the two files; `ckpt.state` is `torn` after a crash inside `write_text` |
| `result` | history: what the latest run of a stage established, reset for later stages whenever an earlier one runs again |
| `resumes` | bookkeeping of the bound |

One action per step between two writes of a file: `Start`, `Resume`, `Decide`
(the entry points), `PassOver`, `SkipChosen`, `Stopped`, `RunAgent`,
`RunSoftGate`, `AwaitDecision`, `RefuseDecision`, `TakeDecision` (the loop),
`Pause`, `StageFailed`, `Rejected`, `StageCompleted`, `GoOn`,
`ChangesRequested`, `GiveUp` and the refusals of the task board (after a
stage), `Deliver`, `Finish` and the returns.  `Crash` is possible at every step.

Abstractions.  A stage's output is its outcome: passed, failed, waiting,
rejected, or a change request with an error signature.  Statuses `completed`
and `skipped` of a stage run are one.  A write of `report.json` is atomic (the
code writes it in place; its readers are modelled elsewhere).  One worker at a
time.  `only_stage`, which no pipeline with hard gates admits, and multi-unit
runs are left out.

Assumption `BackwardAssumption`: `reject_to` and `loopback_to` point backwards.
Nothing in the loader checks it; all shipped templates satisfy it.

### Runs

* `sequence`: eight stages in the shape of `templates/team.yaml`, with a
  planning part added: planning, two stages that both loop back to it with
  budgets of their own, a confirmation; development, a soft gate, a review that
  loops back at most once, an acceptance that rejects back to development.
  Two error signatures, so that a loopback may or may not repeat the last.  Five resumes allow a full tour:
  two pauses, a rejection, a crash and a retry.  Checked: completed stages stand
  on current work, nothing runs beyond an open gate, completed and paused
  reports mean what they say, checkpoints keep decisions, an attempt that was
  not resumed leaves no change request behind, the run implements `GatedRun`,
  and, with fairness, every attempt ends.

Symmetry is not used: the stages are ordered.  The bounds: the number of stages
is fixed by the configuration and `MaxResumes` bounds the attempts; loop counts
are bounded by the code.  `CHECK_DEADLOCK FALSE` because a run really stops.

Fairness is `WF_vars(Worker)`: a live process takes its next step; crashes need
no fairness.  So the run shows that the loops end, provided that every stage
does.  Stages end under the assumptions of section 7: an agent that talks is
ended by its timeout, a silent one, or one that never takes its prompt, is not
(section 12), and a gate without a timeout is ended only with its job, by the
`job_timeout` of 24 hours that RQ keeps.

### GatedRun

What a run promises to the people who confirm it: hard gates are approved in
order, each by an answer given to that gate while the run was paused; an
approval falls only with all later ones; a run is completed only with all gates
approved, and then for good.  The mapping (`StageSequence`, end of the
properties): `status` is the report's status; `approved` is the gates among the
completed stages (of memory while a worker lives, of the checkpoint otherwise)
together with a gate just approved; `answer` is the approval the worker was
started with and has not used.

### Proofs (StageSequenceProofs)

For every pipeline, number of stages and resumes that satisfies the assumptions
of the module, TLAPS checks: `TypeCorrect`, `CompletedIsCurrent`, `GatesHold`,
`CompletionIsSound`, `PausedAtTheGate`, `FirstAttemptLeavesNothing`,
`DecisionsAccumulate` and the refinement `PromiseIsKept`.

All rest on the inductive invariant `Inductive` of StageSequence.  The
properties alone are not inductive: that completed work is current after a
loopback needs that the completed stages form a prefix of the pipeline
(`PositionInv`), that the checkpoint agrees with memory (`FilesInv`), that an
outcome can come only from the stages that produce it (`OutcomeInv`), and what
the report's entries say (`RunsInv`).  Each conjunct has a lemma that every
action preserves it.

`AttemptDescends` is the argument behind `AttemptEnds`.  `Rank` is a tuple of
naturals: the attempt's one decision, in three stages of use (`Turn`), the part
of `run()` the worker is in (`Stretch`), the loopbacks the budgets still allow
(`RetriesLeft`, the cardinality of a finite set), the stages ahead
(`StagesLeft`) and the writes ahead in this one (`StepsLeft`).  Every step of an
attempt lowers it in the lexicographic order, which is well founded
(`DescentEnds`).  A loopback raises the stages ahead and pays with a retry; a
rejection raises them too and pays with the decision, which can be used once.

Only model-checked: `AttemptEnds` itself (liveness).  What the rank does not say
is that a live worker always has a step to take.

## 4. TaskBoard

`src/engine/task_board.py` 146-338 and what it calls.  Workers record the events
of a run, the API those of requests; all of them meet only in the files under
`.ai/harness`.

### Correspondence

Each call of `record_task_event` is a process (`Calls`); those that arrive
through `POST /task-board/events` are `Public`.  `pc[c]` says which write a call
has done last.

| variable | code |
|---|---|
| `event` | the arguments of the call; for a request also the name the event file gets (`created_at` and `event_id` are the caller's) |
| `record` | the record a call holds between reading and replacing its file |
| `seen` | what `build_snapshot` has read |
| `lock` | `.ai/harness/.task-board.lock`, with the call that created it |
| `records` | `.ai/harness/tasks/<slug>.json`: state and `state_history` |
| `log` | `.ai/harness/task-events/*.json`: missing, created and still empty, written |
| `snapshot` | `.ai/harness/task-board.json` |

| action | code |
|---|---|
| `Submit`, `Refuse` | the validation before the lock, and the route's own refusal of `accepted` |
| `Enter`, `GiveUp` | `_board_lock`: exclusive creation, or the deadline |
| `Load`, `Store` | read and apply; write beside and rename |
| `CreateEvent`, `EventExists`, `WriteEvent` | exclusive creation of the event file, its failure, its content |
| `Collect`, `SaveSnapshot` | `build_snapshot` |
| `Leave` | the `finally` of the lock, after success or an exception |
| `Crash` | the process dies and its files stay |

Abstractions.  Of a record the state and its history are kept: the history is
the sequence of calls applied.  Every caller in the repository asks for a snapshot, so
`update_snapshot` is true.  The time-out may strike whenever the lock file
exists.  Two requests of one API process do not interleave (the body is
synchronous); those of several processes, and workers, do, and the model
allows every interleaving.

### Runs

* `board`: three concurrent calls, two of them requests that
  may pick the same name for their event file, two tasks.  No event is lost,
  an accepted record has an approved acceptance, the snapshot shows nothing
  the records do not hold and catches up when the lock is free, `AtomicBoard` is
  implemented, and, with fairness, every call that waits ends.

Two task ids with the same slug share a file: the proofs cover that case, for
any `FileOf`; the run gives each task a file of its own.

Three calls are enough for one to hold the lock, one to wait and one to come
later or have died; each property relates at most two calls and one file.
`CHECK_DEADLOCK FALSE`: all calls end.  Fairness is `WF_vars(Advance(c))` for
each call: a live process takes its next step, and one that waits polls every
few milliseconds until a deadline, so it cannot wait for ever.

Nothing removes the lock file of a process that died: `Enter` is disabled from
then on and every later call ends in its time-out.  `CallsEnd` holds because
of the deadline only; its mutant takes it away.

### AtomicBoard

What the board promises to those who use it at once: there is no lock, no copy in
memory and no event file, and a call is at most two steps.  `Record` applies an
event that is not there yet to its record as the record then is; `Publish` makes
the snapshot what all records are; `Answer` tells a call of its success, and only
if its event is recorded and published.  The mapping (`CallsTakeTurns`): records,
snapshot and events are those of TaskBoard, and the answered calls are those that
have returned.  `Store` is `Record`, `SaveSnapshot` is `Publish`, `Leave` after
success is `Answer`, and everything else, a death included, is a stutter.

### Proofs (TaskBoardProofs)

For every set of calls, tasks and files: `TypeCorrect`, `ConcurrentCallsAreKept`
(no event is lost), `NoOverwriting` (no step takes an event out of a record:
`HistoriesGrow`), `AcceptanceIsEarned`, `SnapshotIsBehind`, `SnapshotIsCurrent`
and the refinement `BoardIsAtomic`.  They rest on `BoardInv`.
`MutualExclusion` and `LockInv` say that the block has one inhabitant, alive or
dead, and the lock names it; from that `CallInv` follows: what a call
holds in memory is what its write must extend, because nobody else writes in
between.  `NothingIsLost` is inductive only with the part of `CallInv` that
covers a call that has stored its record and not yet written its event file.
`SettledInv` strengthens `SnapshotCatchesUp` to the moments before a call's first
write and after its last.  The refinement adds `TurnInv`: a call that has not
stored its record is in no history, and one that is about to leave in success
has its event in the records, which the snapshot then equals.

Only model-checked: `CallsEnd`.

## 5. RunLifecycle

One run between its clients, the job queue and the workers: `api/routes/runs.py`
234-251, 282-375, 418-434, 459-621 and 675-728, `api/runtime.py`,
`engine/task_queue.py`, `engine/tasks.py`, and of the orchestrator only where it
reads or writes what others share.

### Correspondence

| variable | code |
|---|---|
| `asked`, `copy` | where the handler of a request is; the report `_update_run_status` has loaded |
| `loop` | the handler that runs between two awaits of the API's event loop |
| `queue`, `job` | the RQ queue; of each job its RQ status, its place in `Orchestrator.run`, the decision it brings, the gates it counts as approved, the report it will write next |
| `runJob` | the Redis key `ai-team:run_job:<run id>` |
| `made`, `report`, `ckpt` | the output directory, `report.json`, `checkpoint.json` |
| `row` | the status column of `pipeline_run` |
| `starts`, `approved` | history: how often `mkdir` succeeded, for which gates the route has admitted an approval |

A request is a client's call, with what it asks for in `Kind`; its arrival
(`Create`, `Resume`, `Decide`, `Cancel`, `Archive`) runs the handler up to its
first await or outside write.  `_db_create_queued` is awaited, so others run
between the directory check of a create and its job (`InsertRow`, `StartRun`);
nothing else in these handlers awaits, so a resume, a decision, a cancel or an
archive keeps the event loop (`Keeps`) until it answers, and only workers
interleave with it.  A worker moves between the places named in `Jobs`: load
the checkpoint, make the directory, the first report, then for each gate the
stage and its report, checkpoint, and the last report; each report is two
steps, the file and the row.

What may fail is in `Faults`: `database` loses any write to the row (the code
logs it and goes on), `queue` makes Redis unavailable for a call or loses the
job key, `worker` kills a worker's process at any place.  `ForgetJob` is the
key's expiry.  `WorkerDies` and `Abandoned` are RQ's: the process of a job dies,
and the registry of started jobs notices later, or never.

Abstractions.  All that lies between two hard gates is one stage that fails or
not; loopbacks over no gate change nothing here.  A report is its status and
the gate it shows waiting.  A write of a file is atomic (StageSequence has the
torn checkpoint).  `resuming` is written nowhere in the code, so no report says
it.  A retry creates another run, as a create does.  The event a cancel records
on the task board belongs to TaskBoard.

### Runs

* `lifecycle`: one gate, one worker, five clients (create, two decisions,
  cancel, archive), database and queue faults: a paused run can be answered, a
  run nobody works on is not shown as worked on.
* `lifecycle_two`: two gates, two workers, no faults, and two creates, two
  decisions and a resume of one run: begun once, no gate passed unapproved.
* `lifecycle_live`: with fairness and dying workers, jobs end and requests are
  answered.
* `lifecycle_cancelled`: an entry of the status table that the code does not
  keep: a cancelled run is written over by its worker (`findings`).  Two more
  such entries are in section 12.

Bounds: requests are finitely many, each puts at most one job in the queue; two
of a kind are enough for every race the properties speak of, since each
relates at most two jobs and one file.  Creates, and decisions, are
interchangeable (`MCSymmetry`; not in the liveness run).  `CHECK_DEADLOCK FALSE`: the
system stops when all requests are answered.

Fairness: `WF_vars(Handler(r))`, a handler once begun goes on; `WF_vars(Progress(j))`,
a live worker takes its next step; `WF_vars(Take)`, a free worker takes the next job
(the queue is first in, first out).  Not fair: clients, faults, the expiry of
the key, and the notice of a dead job.

`QuietIsNotWorking` does not speak of runs whose worker died: the file stays at
`running`, and the failure callback writes the row alone, which the file then
overrides.  `PausedIsAnswerable` needs one worker; with two, an old job can move
the checkpoint under a paused report.

### Proofs (RunLifecycleProofs)

For any set of requests of any kinds, any number of gates and workers, and
every combination of faults: `TypeCorrect`, `RunIsStartedOnce` (from `OnceInv`:
the directory exists exactly once a worker has begun), `GatesAreApproved` and
`QuietRunsAreNotWorking`; with one worker, `PausedRunsAreAnswerable`.

`GatesAreApproved` follows the approval on its way: `ApprovalInv` says of every
place that holds one (a decision in a handler or job, a worker's memory, the
checkpoint, a loaded copy of the report, a report about to be written) that it
is covered by what was admitted; a worker adds only the gate it compared the
decision with, a rejection takes gates away because `ReworkOf[g] < g`.
`QuietRunsAreNotWorking` needs `QueueInv` (a job is in the queue once, and what
waits has not begun), `ShowsInv` (what a worker is about to report follows from
where it is) and `RunningInv` (behind a report that says running there is a
worker past its first report and before its last, or a dead one).
`PausedRunsAreAnswerable` adds `AloneInv`: with one worker, while the report says
paused no worker is between two of its own reports.

Behind `JobsEnd` and `RequestsEnd` are three theorems.  `JobsDescend`: each step
of a worker, and its death, lowers `JobAhead`, a natural number that no other
step changes.  It counts the places before the end; a passed gate leads back to
`work`, which the decision pays for: it is used once.
`HandlersDescend`: each step of a handler lowers `HandlerAhead` in the same
way.  `WaitingHasAnEnd` is about those who wait for others: `KeptInv` (a job
that waits is in the queue, also after another one was taken out of its middle;
the key names a job that was in it, so that one of the cases of `CancelJob`
applies) and `LoopInv` (the event loop is kept by the one handler that does not
give way).

Only model-checked: `JobsEnd` and `RequestsEnd` themselves.

## 6. MultiUnit

A requirement too large for one prompt is split into units
(`requirement_splitter.py`); the stages before the unit stages run once, the
unit stages run for each unit in the order of the dependencies, the rest once on
the whole (708-969).

### Correspondence

| variable | code |
|---|---|
| `split`, `summary` | `requirement-units.json`; the combined reports of the units (1007-1152) |
| `phase`, `step`, `pos` | the part of the run the worker is in (`pre`, `units`, `unit`, `post`, `loopback`, ...) and its stage |
| `unit`, `visited` | the unit worked on; those the loop over `ordered_units` has passed |
| `done`, `progress` | `completed_stages` of the run; `report.units` |
| `decisions`, `pending`, `resume`, `skipDone`, `loops` | `report.human_decisions`, `pending_human_decision`, `resume`, `skip_completed`, `loop_counts` |
| `ckpt`, `report` | the two files |
| `result`, `work`, `owed`, `displaced` | history: outputs that are current, of the run and of each unit; units a rejection sent back; whether a crash left the checkpoint to a unit |

`Start`, `SplitFails`, `Resume` and `Decide` begin an attempt.  `PassOver`,
`Stopped`, `RunStage`, `AwaitDecision`, `RefuseDecision` and `TakeDecision` are
the head of a sequence, `Pause`, `StageFailed`, `StageCompleted`,
`ChangesRequested`, `GiveUp`, `RejectedWithin`, `RejectedToUnits` and
`RejectedNowhere` what follows a stage.  Between the sequences there are
`EnterUnits`, `PassUnit`, `BeginUnit`, `EndUnit`, `EndUnits`, `ResetUnits` and
`EndPost`, at the end `ReturnPaused`, `ReturnFailed` and `Deliver`.  `Crash` is
possible anywhere.

Abstractions.  A stage settles in one step: crashes between its writes,
`skip_stages`, error signatures and the torn checkpoint are in StageSequence.
`Ordered` gives the rounds of `_order_requirement_units` as a recursive function.

### Runs

`units`: eight stages in the shape of `templates/team.yaml`: planning and its
confirmation; development, verification and review, of which the second is no
unit stage and falls out; a soft gate; an acceptance that rejects back into the
units; a release gate that rejects to the start.  Two units, with three splits:
independent, a dependency against the priorities, and a cycle.  Five resumes
allow both gates after the units to be rejected and the run to crash.  Checked:
no unit begins before what it depends on, none while the plan is unconfirmed,
the stages after the units judge whole work, GatedRun is implemented, every
attempt ends.

Two units are the fewest that depend on each other; `DependenciesFirst` and
`WholeWorkIsJudged` relate a unit to one other.  Fairness is `WF_vars(Worker)`,
as in StageSequence.  `CHECK_DEADLOCK FALSE`: a run stops.

`WholeWorkIsJudged` leaves out runs that crashed inside a unit, or between a
rejection and the reset (`displaced`): the code then misreads its checkpoint,
see section 12.

### Proofs (MultiUnitProofs)

For any pipeline, units, splits and resumes: `TypeCorrect` and
`GatesBeforeUnits`; and `UnitsKeepThePromise`, the refinement of GatedRun,
under `NoGateBetween`: every hard gate stands before or after the units.  One
that stands between two unit stages belongs to no part and is never asked.

`Inductive` adds to the types `PlaceInv` (which outcomes are possible where),
`DoneInv` (before and after the units the completed stages form a prefix, and
the checkpoint agrees with memory about gates, or, in a unit, holds none of
them) and `CurrentInv` (a gate that counts as completed is approved and
current, in memory and in the checkpoint).  The case that needs the last two is
the crash inside a unit: the next attempt starts from a list without the gates
and asks for them again.

`DependenciesComeFirst` and `WholeWork` rest on `UnitsInductive`, which adds four
parts:

* `OrderInv`: the loop over the units passes along the line, leaves completed
  units behind it, and the stages after the units begin when all are completed.
* `ListInv`: in memory and in the checkpoint, the list of a unit has no gaps, a
  completed unit has been through all unit stages, and no unit has begun
  before all that precede it are completed.  Without this of the checkpoint, a
  resume could begin in the middle of the line.
* `HonestInv`: units a rejection sent back do not count as completed, except
  between the rejection and the reset, and in what a crash there leaves behind.
* `StandInv`: until a crash displaces the checkpoint, progress of units rests on
  stages before them that are completed and on work that is current.

All of it is about one order, `Before`, so the proof has to know what the
recursive function `Ordered` computes: that the rounds of
`_order_requirement_units` put what a unit depends on into an earlier round
(`DependenciesEarlier`), and that all units are in some round unless there is a
cycle (`RoundFound`).  Since the induction theorems of the library cannot be
used, induction is over a set of natural numbers with its least element
(`Least`): the rounds are a function on `0..k` that satisfies the recursive
equation (`IsRounds`), there is one for every `k` (`RoundsExist`), only one
(`RoundsUnique`), and `Ordered` is it (`OrderedUnfolds`).

`LoopFindsAUnit`: as long as a unit is left, there is one next in line, and it
is completed or all it depends on is; the loop can pass it or begin it.  It is
the half of `AttemptEnds` that is about getting stuck between units.
`AttemptDescends` is the half that is about going on for ever: every step of an
attempt lowers `Rank` in a well-founded order.  To the rank of StageSequence it
adds the units not yet visited and whether the worker is between two of them.

Only model-checked: `AttemptEnds` itself.

## 7. StageWork

What happens inside `develop`, `verify` and the acceptance: agents as child
processes (`agent_runner.py`), their artifacts (`artifact_contracts.py`, 1807-1850),
the quality loop (1649-1700, `quality_gates.py`), the project's own checks
(`harness_checks.py`) and the verdict on the release (`release_readiness.py`).
The three stages stand in a row; which stage follows which is StageSequence's.

### Correspondence

| variable | code |
|---|---|
| `setup` | the configuration of the stage: agents, threads or in turn, `json_artifacts`, required artifacts, the kind of the gate |
| `pc`, `retry` | where the worker is; `retry_count` |
| `turn` | stage runs of develop so far, the version of its output |
| `agent` | for each agent its thread, its process (`unread` until it has taken its prompt from standard input), whether a line waits, whether its timeout has passed, its status |
| `output`, `file` | output files; the JSON files extracted from them |
| `results`, `rounds` | gate results of this round; stage runs of the loop |
| `runs`, `saved`, `status`, `done` | `report.stages` in memory and in the file, its status, the checkpoint |
| `decision`, `approved` | what the attempt brought; what `human_decisions` holds |
| `broken`, `verdict` | findings of `harness_verify`; `release-readiness.json` |
| `fresh`, `strays`, `strayed` | history: gates that saw the latest code; agents that go on with nobody to read them, and whether there were such |

The worker enters the stage (`Enter`, `EnterNothing`, `EnterRefused`,
`Blocked`), launches agents (`LaunchAgent`, `LaunchUnknown`), collects
(`Collect`, `AgentsFail`), judges (`RunGate`, `GateRaises`, `GatesPass`,
`GatesRetry`, `GatesFail`), verifies (`VerifyStage`, `VerifyRaises`) and accepts.
A thread reads (`ReadOn`, `ReadToTheEnd`, `TimeOut`) or fails (`ReadFails`): the
agent is then reported as failed, and its process may go on (`agent_runner.py`
151, 225-231).  A child takes its prompt, changes code, prints, closes its output
or ends, and goes on as a stray when its worker dies or its reading fails.

Abstractions.  A block of JSON is the number of the artifact it was written
for, 0 one that fits no schema.  Code is the set of gates that have seen it.
A configured model falls back to no other.  `Prompted` are the agents whose
runtime has the `prompt_mode` stdin: until such a process takes its prompt, the
write of it blocks its thread.  `Width` bounds the blocks an agent prints.

### Runs

`stagework`: seven setups (a single agent with two artifacts, agents in
threads, artifacts named after output files, an agent that is not configured,
in threads and in turn, no agents, two agents for an artifact of one), one agent
with its prompt on standard input, three gates, two checks, one crash, two
resumes.  Checked: gates saw the code that is
passed on, artifacts are of the last turn, a release called ready deserves it,
attempts end.  Two resumes allow a crash and an acceptance.  Three blocks for
two artifacts are one too many, one too few, or in the wrong order.

Fairness: the worker (`WF_vars(Worker)`), each thread that reads (`Reader(a)`)
and time (`TimePasses(a)`) go on.  Nothing is assumed of agents, so
`AttemptEnds` has a hypothesis: an agent that is read takes its prompt and
prints, closes its output or ends, again and again.  A silent one is never stopped
(section 12).  What the property adds to the hypothesis is the agent that talks for
ever and the quality loop; that a gate returns is part of the worker's fairness,
and for a gate without a timeout rests on RQ's `job_timeout` of 24 hours.
`CHECK_DEADLOCK FALSE`: a run stops.

`GatesJudgeLatestCode` leaves out runs an agent of which outlived its worker, or
the reading of its output (`strayed`).

### Proofs (StageWorkProofs)

For any agents, gates, checks and setups: `TypeCorrect`, `CodeIsJudged`,
`ArtifactsAreOfLastRun`, `ReadyDeserves`.  The invariant: no process runs
without a thread that reads it, and no thread outside the stage (`AgentInv`);
the checkpoint fits the place (`PlaceInv`); every result of this round is of a
gate that saw the latest code (`JudgedInv`); nothing blocking was found by a
verification that passed (`CheckedInv`); a verdict is about a run that had all
its stages (`VerdictInv`).  `AgentInv` is what makes `JudgedInv` hold: while gates
run no agent lives that could change the code.

`AttemptDescends`: every step of the worker, and every thread that is done with
its agent, or fails to read it, lowers `Rank`: the stages ahead, the retries some gate still allows,
what is ahead in the round, agents to launch, agents to read, gates to run.
Nothing else changes it, and the order is well founded, so the quality loop ends
for any gates and retries; a retry is taken only when the most generous of the
failed gates allows it (`RetryAllowed`), which is finite.

Only model-checked: `AttemptEnds` itself.  What the rank does not say is that an
agent that is read takes its prompt and prints or ends, which is the hypothesis of
`AttemptEnds`, and that time passes.

## 8. Delivery

From a run's work tree to the branch everyone works on: `worktree.py`,
`pr_manager.py` and 229-235, 296-342 of the orchestrator.

### Correspondence

| variable | code |
|---|---|
| `plan` | `worktree.merge_on_success` and `merge_strategy`, `ci_cd.create_pr` and `wait_for_checks`, the host, `cleanup_on_failure` of each run |
| `pc`, `status`, `developed`, `outcome` | where its worker is; report, checkpoint and `merge_result` |
| `tree`, `branch` | `.worktrees/<run>` and its branch |
| `main`, `staged`, `conflicted` | the target branch, the index and the unmerged paths of the checkout all runs share |
| `remote`, `pull`, `ci`, `checks`, `late` | the pushed branch, the pull request, its checks, the verdict the worker took from them, `check_timeout` |
| `made`, `refused`, `shared`, `removed` | history: runs with work; runs with a refused commit; runs that met another in the checkout; runs whose tree was removed by hand |

`Start` and `Resume` begin, `CreateTree` and `CreateFails` are
`WorktreeManager.create`, `RunStages` stands for all stages.  `CommitWork`,
`CommitRefused`, `AddFails`, `CheckoutTarget`, `SquashWork`,
`SquashConflicts`, `SquashBlocked`, `Seal`, `SealNothing` and `Tidy` are
`merge`, with `MergeWork` for every `merge_strategy` but squash: git then makes
the commit, the one that follows finds nothing to do, and the answer is
"no_changes".  `Push`, `PushFails`, `OpenPull`, `OpenUnasked`, `OpenFails`,
`AwaitChecks` and `QueryFails` are `_deliver_pr` with both hosts, `OpenUnasked`
where nobody looks at the checks: `wait_for_checks` is off, or GitHub's answer to
the creation holds no number (1910); `Keep` delivers nothing.  People
remove work trees and reset the checkout, the checks of the remote move, workers
die.

Abstractions.  git is what the code sees of it, marked external where no line
of the repository says it.  A branch holds the base or the work of its run.

### Runs

* `delivery`: two runs, one squashed, the other squashed, merged, offered as a
  pull request on either host, with or without waiting for its checks, or kept;
  three mishaps, enough for a crash, a resume and a
  removal.  Checked: work survives, a run completed by pull request has a whole
  one, attempts end.
* `delivery_merged`: `docs/spec_1.0.md` 204-205 and 232 say that a run that
  passed is merged, and that a conflict pauses it; the code completes the run
  whatever the merge came to (`findings`).

Two runs are the fewest that meet in the checkout.  Fairness: each worker goes
on, time passes while it waits.  `CHECK_DEADLOCK FALSE`: runs end.

`WorkSurvives` does not speak of runs that asked for failures to be tidied
away, nor of those with a refused commit, that met another in the checkout, or
whose tree somebody removed; see section 12.

### Proofs (DeliveryProofs)

For any number of runs: `TypeCorrect`, `WorkIsKept` and `PullRequestsAreWhole`.
The invariant says for each run what its worker's place implies (`PlaceInv`),
that a run that met no other has the checkout as it left it (`CheckoutInv`),
where its work is (`SurviveInv`) and what its pull request holds (`PullInv`).

`AttemptDescends`: for each run, every step of its worker and the time that
passes lower `Ahead(r)`, a natural number: the places a worker still passes and
whether its time is over.  No other run, no check that begins again on the remote
and nobody who resets the checkout changes it; and once the time is over the
verdict is not "pending", so the wait for checks is not what a run can be stuck
in.

Only model-checked: `DeliveryEnds` itself.

## 9. Catalog

The settings and pipelines people edit and the configuration a run is given:
`config.py`, `api/routes/settings.py`, `api/routes/pipelines.py` and the launch
in `api/routes/runs.py`.

### Correspondence

| variable | code |
|---|---|
| `row`, `pipes` | the rows of the settings and of custom pipelines |
| `form` | the answer a client has been shown, with its masks |
| `request` | the request of a client between its awaits |
| `file` | the configuration file of a run |
| `used`, `stale`, `outdated`, `offAsked`, `removed` | history: configurations the attempts of a run were given; requests overtaken since they read; clients not shown the settings since the runtime was taken away; whether no gates were asked for; runs whose file was removed |

`GetSettings`, `SendSettings`, `ReadSettings`, `SaveSettings` and
`ResetSettings`; `CreatePipeline`, `UpdatePipeline`, `DeletePipeline`,
`WritePipeline`; `WriteFails`; `Launch`, `Attempt` and `RemoveFile`.

`KeyAfter` is what a save makes of a secret.  A PUT (`_replace_preserving_masks`)
takes the runtimes as they are sent; a mask stands for what is stored, and for
nothing if nothing is.  A POST (`_merge_preserving_masks`) lays what is sent over
what is stored, and where there is nothing to lay it over, because the runtime is
not there, takes it as it is, masks included (`settings.py` 86-87, 128).

Abstractions.  A configuration is the secret of one runtime, which is not there,
has none (`Bare`) or has one, and the list of quality gates, known by the secret
it holds; the runtime is one people add, not one of the template's.  A pipeline
is its name, a text for its stages and whether its human gate is declared hard.
Masks are kept as what they are: the value that replaces a secret.

### Runs

`catalog`: two clients, two secrets, one pipeline, two texts, one run, one fault,
and three requests, the third about the settings alone (`FewRequests`).  Checked:
a mask becomes a secret only as `SecretsAreReal` says, what is not named is kept,
hard gates stay hard, attempts agree.  Every property relates at most two
requests and one row; a third request makes the row they start from, or takes it
away between a form and its return.  Clients, secrets and texts are
interchangeable, and no property is a liveness property.  `CHECK_DEADLOCK FALSE`:
the requests of the bound are used up.

`SecretsAreReal` is about a save: it stores a mask only if another overtook it, if
a mask was there already, or if it is a POST of a form shown before the runtime
was taken away (`outdated`).  In the last case the code stores "***", see
section 12.  For a PUT, and for a POST of anyone who has seen the settings since, the
property promises that no mask is stored, whatever others saved or reset.

### Proofs (CatalogProofs)

For any clients, secrets, pipelines and runs: `TypeCorrect`,
`SecretsStayReal`, `HardGatesAreHard`, `OneConfiguration`, `UnnamedStays`.  The
invariant extends each property to the requests under way: `KeyInv` to what is
about to be saved, and to forms, which show a mask only of a runtime that is there
unless they are outdated; `KeptInv` to what a request that was not overtaken is
about to write; `FileInv` to the file that later attempts read; `AskedInv`, for
the types, says that what a request carries may be saved.

## 10. EventStream

What a page that shows a run gets to see of it: `events.py`, `api/ws.py`,
`web/src/pages/RunDetail.tsx`.

### Correspondence

| variable | code |
|---|---|
| `made`, `hand` | events each thread has emitted; whether it is publishing or storing the last |
| `writing`, `rows` | daemon threads that write; `run_events` in the order of `id` |
| `worker`, `report` | the process of the job; the answer of `GET /runs/{id}` |
| `redis`, `inbox` | whether the attempt has a connection; messages that wait in the subscription |
| `line`, `history`, `shown` | the connection: where the server is with it, what it loaded, what it sent |
| `page`, `asked`, `answers` | what the page shows of the report; fetches and answers under way |

`Emit`, `Publish`, `Store`, `Write`, `WriteReport` and `Leave` are the worker's;
`Accept`, `LoadHistory`, `LoadNothing`, `LoadLegacy`, `SendHistory`,
`HistorySent`, `Subscribe` and `Forward` the server's; `Answer` and `TakeAnswer`
the page's.  `PublishFails`, `WriteFails`, `LoadFails`, `GoDeaf`, `Break` and
`AnswerFails` are the mishaps.

Abstractions.  One attempt and one page.  An event is its thread and its
number; `run:completed` is the last of the main thread.  When the task board
refuses an event after it (338), the handler emits it a second time (352): this
is left out, since the page then only asks for the report once more.

### Runs

`events`: two threads, with one and two events and the last; two mishaps.
Checked: what is shown live continues the history, and a page that connects
after the end learns of it.  Two events of a thread are enough for the order of
a thread to be broken, two mishaps for a lost write and a lost connection.

Fairness: the server (`WF_vars(Server)`) and the browser (`Answer`, `TakeAnswer`)
go on.  `EndIsLearnt` starts from a state where the bound on mishaps is used up,
so that nothing fails any more; before, each mishap may cost the page its answer.
`CHECK_DEADLOCK FALSE`: the stream ends.

### Proofs (EventStreamProofs)

For any threads and events: `TypeCorrect` and `LiveIsInOrder`.  `KnownInv`: an
event that was written, loaded or sent has left its thread; hence one that is
published later has a higher number.  `LineInv` says that nothing waits before
the subscription stands, `OrderInv` carries the order from the inbox to the page.

Only model-checked: `EndIsLearnt`.

## 11. Not modelled

* Webhooks: nothing under `src/` creates a delivery that is due.  The trigger
  route stores its row as delivered or failed, so the retries of
  `webhook_delivery.py` never have an input.
* The connection pool: what a released connection does to a pool it does not
  come from is asyncpg's, not this repository's.
* Migrations, the context scanner and code applier, observation (costs,
  metrics, audit, logs), the remaining routes: parsing, files and single
  records, without an order that matters.
* `ci_cd.py`, which nothing reaches; `only_stage`, which no pipeline with hard
  gates admits; the fallback of an agent to another model.

Every module's `TypeOK` is a theorem; only those of StageSequence and TaskBoard
are also in a run.

Beyond the prover: liveness under fairness, and `ENABLED`.  Checked by TLC only:
`AttemptEnds` (three modules), `CallsEnd`, `JobsEnd`, `RequestsEnd`,
`DeliveryEnds` and `EndIsLearnt`.  For `AttemptEnds` and `DeliveryEnds` the
theorems `AttemptDescends` prove, for every value of the constants, that an
attempt cannot take steps for ever; that it always has a step to take is what
remains with TLC.  The same holds of `JobsEnd` and `RequestsEnd` with the theorems
`JobsDescend`, `HandlersDescend` and `WaitingHasAnEnd`.

## 12. Deviations seen while modelling

Claims of documents, tests or comments that the code does not keep.  Each is a
definition at the end of its module that no configuration lists; add it to the
module's configuration and TLC shows the way there.

| definition | what the code does |
|---|---|
| `ChangeRequestsAreReworked` (StageSequence) | a stage that asked for changes is saved as completed first (562-580); a crash, or retries that are used up, and a resume goes on past it. `docs/superpowers/specs/2026-04-30-agent-collaboration-workflow-design.md` 200, 222 |
| `InterruptedRunCanResume` (StageSequence) | the checkpoint is truncated before it is written, and removed before the report says completed (1270, 1279-1282, 340, 343). `docs/superpowers/superpower-analysis.md` 323 |
| `CompletedStays` (RunLifecycle) | a cancel or an archive that read an older report overwrites a completed one (`runs.py` 709). `models.py` 26 |
| `PausedCanBeCancelled` (RunLifecycle) | the key of the job that paused the run makes the cancel fail (`runs.py` 613, `task_queue.py` 55, 248). `models.py` 23, `RunDetail.tsx` 350 |
| `InterruptedUnitResumesInPlace` (MultiUnit) | inside a unit the checkpoint holds the list of the unit. `tests/test_engine.py` 1517-1518 |
| `DefaultsOffOnlyIfAsked` (Catalog) | a save writes the template's empty list, which then counts as the user's (`config.py` 450-453). `tests/test_config.py` 434, 479 |
| `MasksAreNotStored` (Catalog) | lists are taken as they come, masks included (`settings.py` 253), and so is the secret of a runtime that is posted and not stored (86-87, 128). `tests/test_routes.py` 1528 |
| `LivePageIsCurrent` (EventStream) | `run:completed` may pass between history and subscription (`ws.py` 173-188), and it precedes the report (336, 343). `docs/spec_1.1.md` 327, 340 |

Behaviour the modules have because the code has it, and that a reader of the
code may not expect:

* StageSequence: loopback counts start empty with each attempt (384), where the
  workflow design, 490-498, wants them in `checkpoint.json`.  A decision reaches
  `report.json` (491) before `checkpoint.json` (549, 568), and the next attempt
  starts from the latter: a crash in between takes the decision out of the
  report again.
* TaskBoard: a request that repeats `event_id` and `created_at` is refused its
  event file (`task_board.py` 291) after its record was replaced (307).
* RunLifecycle: a rejection taken beside an approval (`runs.py` 538) reaches a
  worker at the next gate, which refuses it, and the run fails, where the
  workflow design, 42, wants the work sent back.
* MultiUnit: stages after the units that completed before a rejecting gate stay
  counted when the units are redone (803).  `split_requirement` and
  `WorktreeManager.create` raise outside the `try` of `run()`, so the report
  stays at running (231, 258).  The summary of the units always says passed and
  Approve.  Stages and hard gates between unit stages never run.  A cycle is
  found only when the units are ordered (962), after the stages before them.
* StageWork: a silent agent is never stopped (`agent_runner.py` 183;
  `docs/spec_1.1.md` 265, 598), nor one that never takes its prompt (151).  An
  exception while its output is read reports an agent as failed and leaves its
  process alive (225-231).  An old file named after an output file satisfies the
  check for required artifacts; a configured one does not.  Agents in threads share `_last_prompt` (72).
  Agents outlive their worker.  A required gate of a type that is not supported
  is skipped (`quality_gates.py` 267); one whose threshold does not parse takes
  the rounds so far out of the report.  A develop stage without agents is
  skipped with its required artifacts unchecked (1535-1539), and the release can
  be Ready.
* Delivery: a refused commit is ignored in a merge (`worktree.py` 110-111, 141),
  and the work tree removed with the work.  A squash that conflicts cannot be
  aborted (122).  A merge that is no squash ends as "no_changes".  A pull request
  without a number is completed without a look at its checks (1910).  A run may
  commit what another has staged.  A resume whose
  work tree is gone makes an empty one, passes over the stages and delivers
  nothing (229-231).  Checks that have not begun right after the pull request
  was opened, and an error of GitLab (`pr_manager.py` 264), count as no checks,
  which is as good as passed.
* Catalog: of two saves at once the later takes the other back
  (`settings.py` 227-275).  A POST of a form shown before the runtime was reset or
  removed stores its mask as the secret (86-87, 128).  A database that fails to answer is read as the
  template (`config.py` 57-78).  A create after a list that could not be read
  overwrites a pipeline (`pipelines.py` 436), and an update after a delete brings
  it back (478).  A run whose file is missing is resumed, silently, with the
  pipeline of the platform (`config.py` 428).  A second `POST /runs` with the same
  id overwrites the file (`runs.py` 349).
* EventStream: the threads that write events die with the process (`events.py`
  96), and their events with them.
