---------------------------- MODULE RunLifecycle ----------------------------
(***************************************************************************)
(* One run as the API (src/api/routes/runs.py), the job queue              *)
(* (src/engine/task_queue.py) and the workers (src/engine/tasks.py) handle *)
(* it.  The API is one event loop: a handler gives way to another only     *)
(* where it awaits.  Workers take the jobs of the queue, each in a process *)
(* of its own, and know nothing of each other.  All meet in the run's      *)
(* directory, its report.json and checkpoint.json, and in its row of the   *)
(* database.                                                               *)
(*                                                                         *)
(* What happens between two hard gates of the pipeline is one stage here,  *)
(* that may fail; StageSequence has the detail for one worker.             *)
(***************************************************************************)
EXTENDS Integers, Sequences, FiniteSets, SequencesExt

CONSTANTS
  Requests,  \* requests of clients; each puts at most one job in the queue
  Kind,      \* what each asks for
  Gates,     \* the number of hard gates of the pipeline
  ReworkOf,  \* the approvals that stand after each gate's rejection
  Workers,   \* how many jobs may run at once
  Faults,    \* what may fail: "queue", "database", "worker"
  Nobody     \* no request

Kinds == {"create", "resume", "decide", "cancel", "archive"}

ASSUME LifecycleAssumption ==
  /\ Kind \in [Requests -> Kinds]
  /\ Gates \in Nat
  /\ ReworkOf \in [1..Gates -> Nat]
  /\ \A g \in 1..Gates : ReworkOf[g] < g
  /\ Workers \in Nat \ {0}
  /\ Faults \subseteq {"queue", "database", "worker"}
  /\ Nobody \notin Requests

Working == {"queued", "running", "resuming"}
Terminal == {"completed", "failed", "cancelled", "archived", "blocked"}
Statuses == Working \cup Terminal \cup {"paused"}

\* A report is its status and the gate whose stage it shows waiting; 0 if none.
Reports == [status : Statuses \cup {"none"}, gate : 0..Gates]
NoReport == [status |-> "none", gate |-> 0]
Shows(status, gate) == [status |-> status, gate |-> gate]

NoCkpt == -1

Decisions == [gate : 0..Gates, answer : {"approved", "rejected", "none"}]
NoDecision == [gate |-> 0, answer |-> "none"]

VARIABLES
  asked,    \* where the handler of each request is
  copy,     \* the report a handler has loaded to change its status
  loop,     \* the request whose handler keeps the event loop, or Nobody
  queue,    \* the jobs that wait for a worker
  job,      \* the job of each request that has one
  runJob,   \* the Redis key ai-team:run_job:<run id>
  made,     \* the run's directory exists
  report,   \* report.json
  ckpt,     \* checkpoint.json: the number of gates approved, or NoCkpt
  row,      \* the status in the database
  starts,   \* history: how often the run was begun from scratch
  approved  \* history: the gates for which an approval was admitted

api == <<asked, copy, loop>>
history == <<starts, approved>>
vars == <<api, queue, job, runJob, made, report, ckpt, row, history>>

Handling == {"inserting", "inserted", "checked", "cancelling", "updating",
             "loaded", "written"}
Answered == {"done", "refused", "unavailable", "cancel_failed"}

Jobs == [status : {"none", "queued", "started", "finished", "failed", "canceled"},
         at : {"load", "mkdir", "begin", "beginSave", "work", "stage",
               "stageSave", "settle", "end", "endSave", "raised", "callback",
               "dead", "noticed", "over"},
         decision : Decisions, gates : 0..Gates, shows : Reports,
         result : {"go", "wait", "fail"}]

NoJob == [status |-> "none", at |-> "load", decision |-> NoDecision,
          gates |-> 0, shows |-> NoReport, result |-> "go"]

TypeOK ==
  /\ asked \in [Requests -> {"new"} \cup Handling \cup Answered]
  /\ copy \in [Requests -> Reports]
  /\ loop \in Requests \cup {Nobody}
  /\ queue \in Seq(Requests)
  /\ job \in [Requests -> Jobs]
  /\ runJob \in Requests \cup {Nobody}
  /\ made \in BOOLEAN
  /\ report \in Reports
  /\ ckpt \in {NoCkpt} \cup 0..Gates
  /\ row \in Statuses \cup {"none"}
  /\ starts \in Nat
  /\ approved \subseteq 1..Gates

Init ==
  /\ asked = [r \in Requests |-> "new"]
  /\ copy = [r \in Requests |-> NoReport]
  /\ loop = Nobody
  /\ queue = <<>>
  /\ job = [r \in Requests |-> NoJob]
  /\ runJob = Nobody
  /\ made = FALSE
  /\ report = NoReport
  /\ ckpt = NoCkpt
  /\ row = "none"
  /\ starts = 0
  /\ approved = {}

-----------------------------------------------------------------------------
Becomes(j, value) == job' = [job EXCEPT ![j] = value]

(* The database.  A write that fails is logged or swallowed.               *)

Saved(status) ==
  \/ row' = status
  \/ "database" \in Faults /\ row' = row

(* The API.                                                                *)

\* A new request is handled when no handler keeps the event loop.
Arrives(r, kind) == asked[r] = "new" /\ Kind[r] = kind /\ loop = Nobody

\* Mutant: the handler never gives the event loop back.
AnswerAndStay(r, answer) ==
  /\ asked' = [asked EXCEPT ![r] = answer]
  /\ UNCHANGED loop

Answer(r, answer) ==
  /\ asked' = [asked EXCEPT ![r] = answer]
  /\ loop' = Nobody

\* Goes on without giving way.
Keeps(r, at) ==
  /\ asked' = [asked EXCEPT ![r] = at]
  /\ loop' = r

Enqueue(r, decision) ==
  /\ queue' = Append(queue, r)
  /\ Becomes(r, [job[r] EXCEPT !.status = "queued", !.decision = decision])
  /\ \/ runJob' = r
     \/ "queue" \in Faults /\ runJob' = runJob

\* The directory is looked up before the handler awaits the database.
Create(r) ==
  /\ Arrives(r, "create")
  /\ Answer(r, IF made THEN "refused" ELSE "inserting")
  /\ UNCHANGED <<copy, queue, job, runJob, made, report, ckpt, row, history>>

\* create_pending: ON CONFLICT DO NOTHING.
InsertRow(r) ==
  /\ asked[r] = "inserting"
  /\ asked' = [asked EXCEPT ![r] = "inserted"]
  /\ Saved(IF row = "none" THEN "queued" ELSE row)
  /\ UNCHANGED <<copy, loop, queue, job, runJob, made, report, ckpt, history>>

StartRun(r) ==
  /\ asked[r] = "inserted"
  /\ loop = Nobody
  /\ Answer(r, "done")
  /\ Enqueue(r, NoDecision)
  /\ UNCHANGED <<copy, made, report, ckpt, row, history>>

QueueUnavailable(r) ==
  /\ "queue" \in Faults
  /\ \/ asked[r] = "inserted" /\ loop = Nobody
     \/ asked[r] = "checked"
  /\ Answer(r, "unavailable")
  /\ UNCHANGED <<copy, queue, job, runJob, made, report, ckpt, row, history>>

Resumable ==
  /\ made
  /\ ckpt # NoCkpt
  /\ report.status \in {"none", "failed", "running", "paused", "resuming", "blocked"}

Resume(r) ==
  /\ Arrives(r, "resume")
  /\ IF Resumable THEN Keeps(r, "checked") ELSE Answer(r, "refused")
  /\ UNCHANGED <<copy, queue, job, runJob, made, report, ckpt, row, history>>

\* The run is paused and the stage the client names is waiting.
Answerable ==
  /\ made
  /\ ckpt # NoCkpt
  /\ report.status = "paused"
  /\ report.gate > 0

\* The decision travels with the handler from the check to the job.
Decide(r) ==
  /\ Arrives(r, "decide")
  /\ \/ /\ Answerable
        /\ Keeps(r, "checked")
        /\ \E answer \in {"approved", "rejected"} :
             /\ Becomes(r, [job[r] EXCEPT !.decision =
                              [gate |-> report.gate, answer |-> answer]])
             /\ approved' = IF answer = "approved"
                            THEN approved \cup {report.gate} ELSE approved
     \/ /\ ~Answerable
        /\ Answer(r, "refused")
        /\ UNCHANGED <<job, approved>>
  /\ UNCHANGED <<copy, queue, runJob, made, report, ckpt, row, starts>>

ResumeRun(r) ==
  /\ asked[r] = "checked"
  /\ Answer(r, "done")
  /\ Enqueue(r, job[r].decision)
  /\ UNCHANGED <<copy, made, report, ckpt, row, history>>

\* validate_run_transition(report.status, "cancelled")
Cancellable ==
  report.status \in {"none", "queued", "running", "paused", "resuming", "blocked"}

Cancel(r) ==
  /\ Arrives(r, "cancel")
  /\ IF Cancellable THEN Keeps(r, "cancelling") ELSE Answer(r, "refused")
  /\ UNCHANGED <<copy, queue, job, runJob, made, report, ckpt, row, history>>

\* cancel_rq_job: a queued job is taken back; a started one is sent a kill
\* command under the job's id, where workers listen under their own names,
\* and counts as cancelled; anything else cannot be cancelled.  Without a key,
\* or without Redis, there is no job to cancel.
CancelJob(r) ==
  /\ asked[r] = "cancelling"
  /\ \/ /\ runJob = Nobody \/ "queue" \in Faults
        /\ IF made THEN Keeps(r, "updating") ELSE Answer(r, "refused")
        /\ UNCHANGED <<queue, job>>
     \/ /\ runJob # Nobody /\ job[runJob].status = "queued"
        /\ Keeps(r, "updating")
        /\ \E i \in 1..Len(queue) :
             queue[i] = runJob /\ queue' = RemoveAt(queue, i)
        /\ Becomes(runJob, [NoJob EXCEPT !.status = "canceled"])
     \/ /\ runJob # Nobody /\ job[runJob].status = "started"
        /\ Keeps(r, "updating")
        /\ UNCHANGED <<queue, job>>
     \/ /\ runJob # Nobody /\ job[runJob].status \in {"finished", "failed", "canceled"}
        /\ Answer(r, "cancel_failed")
        /\ UNCHANGED <<queue, job>>
  /\ UNCHANGED <<copy, runJob, made, report, ckpt, row, history>>

\* validate_run_transition(report.status, "archived")
Archivable == report.status \in {"failed", "completed", "cancelled", "blocked"}

Archive(r) ==
  /\ Arrives(r, "archive")
  /\ IF Archivable THEN Keeps(r, "updating") ELSE Answer(r, "refused")
  /\ UNCHANGED <<copy, queue, job, runJob, made, report, ckpt, row, history>>

NewStatus(r) == IF Kind[r] = "cancel" THEN "cancelled" ELSE "archived"

\* _update_run_status loads the report, writes it back with the new status ...
LoadReport(r) ==
  /\ asked[r] = "updating"
  /\ asked' = [asked EXCEPT ![r] = "loaded"]
  /\ copy' = [copy EXCEPT ![r] = report]
  /\ UNCHANGED <<loop, queue, job, runJob, made, report, ckpt, row, history>>

\* (there may be no report yet)
WriteStatus(r) ==
  /\ asked[r] = "loaded"
  /\ asked' = [asked EXCEPT ![r] = "written"]
  /\ report' = IF copy[r] = NoReport THEN report
               ELSE [copy[r] EXCEPT !.status = NewStatus(r)]
  /\ UNCHANGED <<copy, loop, queue, job, runJob, made, ckpt, row, history>>

\* ... and saves it.
SaveStatus(r) ==
  /\ asked[r] = "written"
  /\ Answer(r, "done")
  /\ copy' = [copy EXCEPT ![r] = NoReport]
  /\ Saved(NewStatus(r))
  /\ UNCHANGED <<queue, job, runJob, made, report, ckpt, history>>

\* The key lives 24 hours.
ForgetJob ==
  /\ runJob # Nobody
  /\ runJob' = Nobody
  /\ UNCHANGED <<api, queue, job, made, report, ckpt, row, history>>

-----------------------------------------------------------------------------
(* The workers.                                                            *)

\* Mutant: a failed job keeps its worker.
RunningOrFailed == {j \in Requests : job[j].status \in {"started", "failed"}}

Running == {j \in Requests : job[j].status = "started"}

Take ==
  /\ queue # <<>>
  /\ Cardinality(Running) < Workers
  /\ queue' = Tail(queue)
  /\ Becomes(Head(queue), [job[Head(queue)] EXCEPT !.status = "started"])
  /\ UNCHANGED <<api, runJob, made, report, ckpt, row, history>>

At(j, at) == job[j].status = "started" /\ job[j].at = at
Goes(j, at) == Becomes(j, [job[j] EXCEPT !.at = at])

\* A resumed run without a checkpoint starts over.
Load(j) ==
  /\ At(j, "load")
  /\ IF Kind[j] = "create" \/ ckpt = NoCkpt
     THEN Goes(j, "mkdir")
     ELSE Becomes(j, [job[j] EXCEPT !.at = "begin", !.gates = ckpt,
                                    !.shows = Shows("running", 0)])
  /\ UNCHANGED <<api, queue, runJob, made, report, ckpt, row, history>>

\* Mutant: exist_ok = True for every run.
MakeDirAgain(j) ==
  /\ At(j, "mkdir")
  /\ Becomes(j, [job[j] EXCEPT !.at = "begin", !.shows = Shows("running", 0)])
  /\ made' = TRUE
  /\ starts' = starts + 1
  /\ UNCHANGED <<api, queue, runJob, report, ckpt, row, approved>>

MakeDir(j) ==
  /\ At(j, "mkdir")
  /\ ~made
  /\ Becomes(j, [job[j] EXCEPT !.at = "begin", !.shows = Shows("running", 0)])
  /\ made' = TRUE
  /\ starts' = starts + 1
  /\ UNCHANGED <<api, queue, runJob, report, ckpt, row, approved>>

DirExists(j) ==
  /\ At(j, "mkdir")
  /\ made
  /\ Goes(j, "raised")
  /\ UNCHANGED <<api, queue, runJob, made, report, ckpt, row, history>>

IsOver(j, status) ==
  Becomes(j, [NoJob EXCEPT !.status = status, !.at = "over"])

Saves == [begin |-> "beginSave", stage |-> "stageSave", end |-> "endSave"]
Then == [beginSave |-> "work", stageSave |-> "settle", endSave |-> "over"]

\* _write_report: the file ...
WriteReport(j) ==
  \E at \in DOMAIN Saves :
    /\ At(j, at)
    /\ Goes(j, Saves[at])
    /\ report' = job[j].shows
    /\ UNCHANGED <<api, queue, runJob, made, ckpt, row, history>>

\* ... and the row.  After the last one the job is finished.
SaveReport(j) ==
  \E at \in DOMAIN Then :
    /\ At(j, at)
    /\ IF at = "endSave" THEN IsOver(j, "finished") ELSE Goes(j, Then[at])
    /\ Saved(job[j].shows.status)
    /\ UNCHANGED <<api, queue, runJob, made, report, ckpt, history>>

Ends(j, status) ==
  Becomes(j, [job[j] EXCEPT !.at = "end", !.shows = Shows(status, @.gate)])

\* The work before the next gate, or the gate itself, fails.
StageFails(j) ==
  /\ At(j, "work")
  /\ Becomes(j, [job[j] EXCEPT !.at = "stage", !.result = "fail"])
  /\ UNCHANGED <<api, queue, runJob, made, report, ckpt, row, history>>

GateOf(j) == job[j].gates + 1

\* The next gate waits for an answer.
AwaitDecision(j) ==
  /\ At(j, "work")
  /\ job[j].gates < Gates
  /\ job[j].decision = NoDecision
  /\ Becomes(j, [job[j] EXCEPT !.at = "stage", !.result = "wait",
                                !.shows = Shows("running", GateOf(j))])
  /\ UNCHANGED <<api, queue, runJob, made, report, ckpt, row, history>>

\* Mutant: the answer is not compared with the gate that waits.
ForAnyGate(j) == job[j].decision # NoDecision

\* normalize_decision
ForThisGate(j) == job[j].decision # NoDecision /\ job[j].decision.gate = GateOf(j)

TakeDecision(j) ==
  /\ At(j, "work")
  /\ job[j].gates < Gates
  /\ ForThisGate(j)
  /\ Becomes(j, [job[j] EXCEPT !.at = "stage", !.result = "go",
       !.gates = IF job[j].decision.answer = "approved"
                 THEN GateOf(j) ELSE ReworkOf[GateOf(j)],
       !.decision = NoDecision])
  /\ UNCHANGED <<api, queue, runJob, made, report, ckpt, row, history>>

RefuseDecision(j) ==
  /\ At(j, "work")
  /\ job[j].gates < Gates
  /\ job[j].decision # NoDecision
  /\ ~ForThisGate(j)
  /\ Becomes(j, [job[j] EXCEPT !.at = "stage", !.result = "fail"])
  /\ UNCHANGED <<api, queue, runJob, made, report, ckpt, row, history>>

\* Mutant: a gate that waits saves no checkpoint.
SettleUnsaved(j) ==
  /\ At(j, "settle")
  /\ \/ /\ job[j].result = "fail"
        /\ Ends(j, "failed")
        /\ UNCHANGED ckpt
     \/ /\ job[j].result = "wait"
        /\ Ends(j, "paused")
        /\ UNCHANGED ckpt
     \/ /\ job[j].result = "go"
        /\ Goes(j, "work")
        /\ ckpt' = job[j].gates
  /\ UNCHANGED <<api, queue, runJob, made, report, row, history>>

\* After the report of a stage: its checkpoint, unless it failed.
Settle(j) ==
  /\ At(j, "settle")
  /\ \/ /\ job[j].result = "fail"
        /\ Ends(j, "failed")
        /\ UNCHANGED ckpt
     \/ /\ job[j].result = "wait"
        /\ Ends(j, "paused")
        /\ ckpt' = job[j].gates
     \/ /\ job[j].result = "go"
        /\ Goes(j, "work")
        /\ ckpt' = job[j].gates
  /\ UNCHANGED <<api, queue, runJob, made, report, row, history>>

\* All gates approved and the rest of the work done: the delivery decides.
\* Only a completed run loses its checkpoint, before its last report.
Deliver(j) ==
  /\ At(j, "work")
  /\ job[j].gates = Gates
  /\ \/ Ends(j, "completed") /\ ckpt' = NoCkpt
     \/ Ends(j, "blocked") /\ UNCHANGED ckpt
     \/ Ends(j, "failed") /\ UNCHANGED ckpt
  /\ UNCHANGED <<api, queue, runJob, made, report, row, history>>

\* An exception outside the run: saved as a failure by the job ...
PersistFailure(j) ==
  /\ At(j, "raised")
  /\ Goes(j, "callback")
  /\ Saved("failed")
  /\ UNCHANGED <<api, queue, runJob, made, report, ckpt, history>>

\* ... and again by its failure callback.
FailureCallback(j) ==
  /\ At(j, "callback")
  /\ IsOver(j, "failed")
  /\ Saved("failed")
  /\ UNCHANGED <<api, queue, runJob, made, report, ckpt, history>>

\* The process of the job dies.
WorkerDies(j) ==
  /\ "worker" \in Faults
  /\ job[j].status = "started"
  /\ Becomes(j, [NoJob EXCEPT !.status = "failed", !.at = "dead"])
  /\ UNCHANGED <<api, queue, runJob, made, report, ckpt, row, history>>

\* The registry of started jobs notices, and calls the failure callback.
Abandoned(j) ==
  /\ job[j].at = "dead"
  /\ Goes(j, "noticed")
  /\ Saved("failed")
  /\ UNCHANGED <<api, queue, runJob, made, report, ckpt, history>>

-----------------------------------------------------------------------------
\* A request arrives when its client sends it; a handler, once begun, goes on.
Arrival(r) == Create(r) \/ Resume(r) \/ Decide(r) \/ Cancel(r) \/ Archive(r)

Handler(r) ==
  \/ InsertRow(r) \/ StartRun(r) \/ QueueUnavailable(r) \/ ResumeRun(r)
  \/ CancelJob(r) \/ LoadReport(r) \/ WriteStatus(r) \/ SaveStatus(r)

Progress(j) ==
  \/ Load(j) \/ MakeDir(j) \/ DirExists(j) \/ WriteReport(j)
  \/ SaveReport(j) \/ StageFails(j) \/ AwaitDecision(j) \/ TakeDecision(j)
  \/ RefuseDecision(j) \/ Settle(j) \/ Deliver(j)
  \/ PersistFailure(j) \/ FailureCallback(j)

Next ==
  \/ Take
  \/ ForgetJob
  \/ \E r \in Requests :
       \/ Arrival(r) \/ Handler(r)
       \/ Progress(r) \/ WorkerDies(r) \/ Abandoned(r)

Spec == Init /\ [][Next]_vars

\* Handlers and workers go on; a dead job need not be noticed.
FairSpec ==
  /\ Spec
  /\ WF_vars(Take)
  /\ \A r \in Requests : WF_vars(Handler(r)) /\ WF_vars(Progress(r))

-----------------------------------------------------------------------------
(* What GET /runs/{run_id} shows: the row, or the report if the row is     *)
(* stale.                                                                  *)

\* Mutant: the row is doubted only when the run is over.
StaleAtTheEnd ==
  /\ report # NoReport
  /\ row # report.status
  /\ report.status \in Terminal

Stale ==
  /\ report # NoReport
  /\ row # report.status
  /\ report.status \in Terminal \/ row \in Working

Shown == IF report # NoReport /\ (row = "none" \/ Stale)
         THEN report.status ELSE row

-----------------------------------------------------------------------------
(* Properties.                                                             *)

\* However many clients create, resume and answer, the run is begun from
\* scratch at most once (execute_pipeline, mkdir).
StartedOnce == starts <= 1

\* A gate counts as approved, in a worker's memory, in the checkpoint or in a
\* completed report, only if some client approved that very gate while the
\* route saw its stage waiting, whatever jobs ran in between.
ApprovedByAnswer ==
  /\ \A j \in Requests : 1..job[j].gates \subseteq approved
  /\ 1..ckpt \subseteq approved
  /\ report.status = "completed" => 1..Gates \subseteq approved

\* With one worker a paused report always has the checkpoint of the gate it
\* shows waiting: the answer the route takes is for the gate the worker will
\* meet (submit_human_decision against _run_human_review_stage).
PausedIsAnswerable ==
  report.status = "paused" => ckpt # NoCkpt /\ report.gate = ckpt + 1

Quiet ==
  /\ queue = <<>>
  /\ Running = {}
  /\ \A r \in Requests : asked[r] \notin Handling

\* A run nobody works on is not shown as being worked on, even if writes to
\* the database are lost (_db_detail_is_stale).  A worker that died leaves its
\* run shown as running.
QuietIsNotWorking ==
  /\ Quiet
  /\ report # NoReport
  /\ \A j \in Requests : job[j].at \notin {"dead", "noticed"}
  => Shown \notin Working

(* What these rest on.                                                     *)

QueueInv ==
  /\ \A r \in Requests :
       /\ asked[r] \in {"new", "inserting", "inserted", "checked"} =>
            job[r].status = "none"
       /\ job[r].status \in {"none", "queued"} => job[r].at = "load"
  /\ \A i \in 1..Len(queue) : job[queue[i]].status = "queued"
  /\ \A i, k \in 1..Len(queue) : queue[i] = queue[k] => i = k

OnceInv == starts = IF made THEN 1 ELSE 0

\* Approvals travel from the route to a job, to the worker's memory, to the
\* checkpoint and into reports; copies of reports included.
ApprovalInv ==
  /\ ApprovedByAnswer
  /\ \A j \in Requests :
       /\ job[j].decision.answer = "approved" =>
            job[j].decision.gate \in approved
       /\ job[j].shows.status = "completed" => 1..Gates \subseteq approved
       /\ copy[j].status = "completed" => 1..Gates \subseteq approved

Written == {"beginSave", "work", "stage", "stageSave", "settle", "end"}
Unwritten == {"load", "mkdir", "begin", "endSave", "raised", "callback"}

\* What a worker shows follows from where it is.
ShowsInv ==
  \A j \in Running :
    /\ job[j].at \in Written \cup Unwritten
    /\ job[j].at \in {"begin"} \cup (Written \ {"end"}) =>
         job[j].shows.status = "running"
    /\ job[j].at = "end" =>
         job[j].shows.status \in {"paused", "failed", "completed", "blocked"}
    /\ job[j].at \in {"stage", "stageSave", "settle"} /\ job[j].result = "wait" =>
         job[j].shows.gate = job[j].gates + 1

\* A report that says running has a worker that wrote it and is not at its
\* end, or died.
RunningInv ==
  /\ report.status \notin {"queued", "resuming"}
  /\ report.status = "running" =>
       \E j \in Requests :
         \/ job[j].status = "started" /\ job[j].at \in Written
         \/ job[j].at \in {"dead", "noticed"}

LifecycleInv ==
  TypeOK /\ QueueInv /\ OnceInv /\ ApprovalInv /\ ShowsInv /\ RunningInv

\* With one worker.
AloneInv ==
  /\ \A i, j \in Running : i = j
  /\ report.status = "paused" =>
       /\ ckpt # NoCkpt /\ report.gate = ckpt + 1
       /\ \A j \in Running : job[j].at \in Unwritten
  /\ \A j \in Running :
       job[j].at = "end" /\ job[j].shows.status = "paused" =>
         ckpt # NoCkpt /\ job[j].shows.gate = ckpt + 1

\* Every job ends, and every request is answered.
JobsEnd ==
  \A j \in Requests :
    job[j].status \in {"queued", "started"} ~>
      job[j].status \in {"finished", "failed", "canceled"}
RequestsEnd ==
  \A r \in Requests : asked[r] \in Handling ~> asked[r] \in Answered

\* A completed run is completed for good or archived (models.py 26 and
\* test_cancel_completed_raises).
CompletedStays ==
  [][report.status = "completed" => report'.status \in {"completed", "archived"}]_report

\* A cancelled run is cancelled for good or archived (models.py 27).
CancelledStays ==
  [][report.status = "cancelled" => report'.status \in {"cancelled", "archived"}]_report

\* A paused run on which no job works can be cancelled (models.py 23, and the
\* button the page of a paused run offers).
PausedCanBeCancelled ==
  [][\A r \in Requests :
       /\ asked[r] = "cancelling"
       /\ report.status = "paused"
       /\ Running = {}
       => asked'[r] # "cancel_failed"]_vars
=============================================================================
