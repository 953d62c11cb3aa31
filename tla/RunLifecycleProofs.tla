------------------------ MODULE RunLifecycleProofs ------------------------
(***************************************************************************)
(* Theorems about RunLifecycle: for any requests in any number, any number *)
(* of workers where nothing else is said, and every combination of faults. *)
(***************************************************************************)
EXTENDS RunLifecycle, TLAPS, SequenceTheorems, FiniteSetTheorems

-----------------------------------------------------------------------------
(* The type invariant.                                                     *)

\* The values that steps write into jobs.
LEMMA JobValues ==
  /\ NoJob \in Jobs
  /\ NoReport \in Reports
  /\ NoDecision \in Decisions
  /\ \A s \in Statuses \cup {"none"}, g \in 0..Gates : Shows(s, g) \in Reports
<1>1. NoReport \in Reports /\ NoDecision \in Decisions
  BY LifecycleAssumption DEF NoReport, Reports, NoDecision, Decisions
<1>2. NoJob \in Jobs
  BY <1>1, LifecycleAssumption DEF NoJob, Jobs
<1>3. \A s \in Statuses \cup {"none"}, g \in 0..Gates : Shows(s, g) \in Reports
  BY DEF Shows, Reports
<1> QED
  BY <1>1, <1>2, <1>3

\* A job that is over has nothing left of it but its status.
LEMMA JobsOver ==
  ASSUME NEW s \in {"finished", "failed", "canceled"}
  PROVE  /\ [NoJob EXCEPT !.status = s] \in Jobs
         /\ \A at \in {"over", "dead"} :
              [NoJob EXCEPT !.status = s, !.at = at] \in Jobs
<1>1. [NoJob EXCEPT !.status = s] \in Jobs
  BY JobValues DEF Jobs
<1>2. ASSUME NEW at \in {"over", "dead"}
      PROVE  [NoJob EXCEPT !.status = s, !.at = at] \in Jobs
  BY JobValues DEF Jobs
<1> QED
  BY <1>1, <1>2

Places == {"load", "mkdir", "begin", "beginSave", "work", "stage", "stageSave",
           "settle", "end", "endSave", "raised", "callback", "dead", "noticed",
           "over"}

\* What the API and the queue change of a job.
LEMMA DecisionChanges ==
  ASSUME NEW x \in Jobs, NEW d \in Decisions
  PROVE  /\ [x EXCEPT !.decision = d] \in Jobs
         /\ [x EXCEPT !.status = "queued", !.decision = d] \in Jobs
         /\ [x EXCEPT !.status = "started"] \in Jobs
<1>1. [x EXCEPT !.decision = d] \in Jobs
  BY DEF Jobs
<1>2. [x EXCEPT !.status = "queued", !.decision = d] \in Jobs
  BY DEF Jobs
<1>3. [x EXCEPT !.status = "started"] \in Jobs
  BY DEF Jobs
<1> QED
  BY <1>1, <1>2, <1>3

\* What a worker changes of its job.
LEMMA PlaceChanges ==
  ASSUME NEW x \in Jobs, NEW at \in Places
  PROVE  /\ [x EXCEPT !.at = at] \in Jobs
         /\ \A res \in {"go", "wait", "fail"} :
              [x EXCEPT !.at = at, !.result = res] \in Jobs
         /\ \A s \in Reports : [x EXCEPT !.at = at, !.shows = s] \in Jobs
<1>1. [x EXCEPT !.at = at] \in Jobs
  BY DEF Jobs, Places
<1>2. ASSUME NEW res \in {"go", "wait", "fail"}
      PROVE  [x EXCEPT !.at = at, !.result = res] \in Jobs
  BY DEF Jobs, Places
<1>3. ASSUME NEW s \in Reports
      PROVE  [x EXCEPT !.at = at, !.shows = s] \in Jobs
  BY DEF Jobs, Places
<1> QED
  BY <1>1, <1>2, <1>3

\* What the steps of a worker make of a job is a job.
LEMMA ProgressChanges ==
  ASSUME NEW x \in Jobs, NEW g \in 0..Gates, NEW s \in Reports
  PROVE  /\ [x EXCEPT !.at = "begin", !.gates = g, !.shows = s] \in Jobs
         /\ [x EXCEPT !.at = "stage", !.result = "wait", !.shows = s] \in Jobs
         /\ [x EXCEPT !.at = "stage", !.result = "go", !.gates = g,
                      !.decision = NoDecision] \in Jobs
<1>1. [x EXCEPT !.at = "begin", !.gates = g, !.shows = s] \in Jobs
  BY DEF Jobs
<1>2. [x EXCEPT !.at = "stage", !.result = "wait", !.shows = s] \in Jobs
  BY DEF Jobs
<1>3. [x EXCEPT !.at = "stage", !.result = "go", !.gates = g,
                !.decision = NoDecision] \in Jobs
  BY JobValues DEF Jobs
<1> QED
  BY <1>1, <1>2, <1>3

\* A step changes one job.
LEMMA OneJob ==
  ASSUME job \in [Requests -> Jobs], NEW j \in Requests, NEW value, Becomes(j, value)
  PROVE  /\ value \in Jobs => job' \in [Requests -> Jobs]
         /\ job'[j] = value
         /\ \A k \in Requests : k # j => job'[k] = job[k]
  BY DEF Becomes

\* Before the first request everything has its type.
LEMMA TypeInit == Init => TypeOK
<1> SUFFICES ASSUME Init PROVE TypeOK
  OBVIOUS
<1>1. job \in [Requests -> Jobs] /\ copy \in [Requests -> Reports] /\ report \in Reports
  BY JobValues DEF Init
<1>2. queue \in Seq(Requests)
  BY DEF Init
<1>3. asked \in [Requests -> {"new"} \cup Handling \cup Answered]
  BY DEF Init
<1> QED
  BY <1>1, <1>2, <1>3 DEF Init, TypeOK

\* What is left of a queue, or added to it, is a queue.
LEMMA QueueType ==
  ASSUME queue \in Seq(Requests)
  PROVE  /\ \A r \in Requests : Append(queue, r) \in Seq(Requests)
         /\ queue # <<>> => Tail(queue) \in Seq(Requests) /\ Head(queue) \in Requests
         /\ \A i \in 1..Len(queue) : RemoveAt(queue, i) \in Seq(Requests)
  BY DEF RemoveAt

\* The handlers of the API keep every variable within its type.
LEMMA HandlerTyped ==
  ASSUME TypeOK, NEW r \in Requests, Arrival(r) \/ Handler(r)
  PROVE  TypeOK'
<1>t. /\ job \in [Requests -> Jobs] /\ queue \in Seq(Requests)
      /\ report \in Reports /\ job[r] \in Jobs
  BY DEF TypeOK
<1>d. job[r].decision \in Decisions /\ NoDecision \in Decisions
  BY <1>t, JobValues DEF Jobs
<1>1. CASE Create(r)
  BY <1>1 DEF Create, TypeOK, api, history, Arrives, Answer, Handling, Answered
<1>2. CASE InsertRow(r)
  BY <1>2 DEF InsertRow, TypeOK, Saved, Statuses, Working, history, Handling
<1>3. CASE StartRun(r)
  <2>1. job' \in [Requests -> Jobs]
    BY <1>3, <1>t, <1>d, DecisionChanges, OneJob DEF StartRun, Enqueue
  <2>2. queue' \in Seq(Requests)
    BY <1>3, QueueType, <1>t DEF StartRun, Enqueue
  <2> QED
    BY <1>3, <2>1, <2>2 DEF StartRun, TypeOK, Enqueue, history, Answer, Answered
<1>4. CASE QueueUnavailable(r)
  <2>1. asked' = [asked EXCEPT ![r] = "unavailable"] /\ loop' = Nobody
    BY <1>4 DEF QueueUnavailable, Answer
  <2> QED
    BY <1>4, <2>1 DEF QueueUnavailable, TypeOK, history, Answered
<1>5. CASE Resume(r)
  BY <1>5 DEF Resume, TypeOK, history, Answer, Answered, Keeps, Handling
<1>6. CASE Decide(r)
  <2>1. CASE Answerable
    <3>1. report.gate \in 1..Gates
      BY <2>1, <1>t, LifecycleAssumption DEF Answerable, Reports
    <3>2. \A answer \in {"approved", "rejected"} :
            [gate |-> report.gate, answer |-> answer] \in Decisions
      BY <3>1 DEF Decisions
    <3>3. job' \in [Requests -> Jobs]
      BY <1>6, <2>1, <1>t, <3>2, DecisionChanges, OneJob DEF Decide
    <3>4. approved' \subseteq 1..Gates
      BY <1>6, <2>1, <3>1 DEF Decide, TypeOK
    <3>5. asked' = [asked EXCEPT ![r] = "checked"] /\ loop' = r
      BY <1>6, <2>1 DEF Decide, Keeps
    <3> QED
      BY <1>6, <3>3, <3>4, <3>5 DEF Decide, TypeOK, Handling
  <2>2. CASE ~Answerable
    <3>1. /\ asked' = [asked EXCEPT ![r] = "refused"] /\ loop' = Nobody
          /\ UNCHANGED <<job, approved>>
      BY <1>6, <2>2 DEF Decide, Answer
    <3> QED
      BY <1>6, <3>1 DEF Decide, TypeOK, Answered
  <2> QED
    BY <2>1, <2>2
<1>7. CASE ResumeRun(r)
  <2>1. job' \in [Requests -> Jobs]
    BY <1>7, <1>t, <1>d, DecisionChanges, OneJob DEF ResumeRun, Enqueue
  <2>2. queue' \in Seq(Requests)
    BY <1>7, QueueType, <1>t DEF ResumeRun, Enqueue
  <2> QED
    BY <1>7, <2>1, <2>2 DEF ResumeRun, TypeOK, Enqueue, history, Answer, Answered
<1>8. CASE Cancel(r)
  BY <1>8 DEF Cancel, TypeOK, history, Answer, Answered, Keeps, Handling
<1>9. CASE CancelJob(r)
  <2>1. runJob # Nobody => runJob \in Requests
    BY DEF TypeOK
  <2>2. job' \in [Requests -> Jobs]
    BY <1>9, <1>t, <2>1, JobsOver, OneJob DEF CancelJob
  <2>3. queue' \in Seq(Requests)
    BY <1>9, QueueType, <1>t DEF CancelJob
  <2> QED
    BY <1>9, <2>2, <2>3 DEF CancelJob, TypeOK, history, Answer, Answered, Keeps, Handling
<1>10. CASE Archive(r)
  BY <1>10 DEF Archive, TypeOK, history, Answer, Answered, Keeps, Handling
<1>11. CASE LoadReport(r)
  BY <1>11 DEF LoadReport, TypeOK, history, Handling
<1>12. CASE WriteStatus(r)
  <2>1. copy[r] \in Reports
    BY DEF TypeOK
  <2>2. [copy[r] EXCEPT !.status = NewStatus(r)] \in Reports
    BY <2>1 DEF Reports, NewStatus, Statuses, Terminal
  <2> QED
    BY <1>12, <2>2 DEF WriteStatus, TypeOK, history, Handling
<1>13. CASE SaveStatus(r)
  BY <1>13, JobValues DEF SaveStatus, TypeOK, Saved, NewStatus, Statuses,
     Terminal, history, Answer, Answered
<1> QED
  BY <1>1, <1>2, <1>3, <1>4, <1>5, <1>6, <1>7, <1>8, <1>9, <1>10, <1>11,
     <1>12, <1>13 DEF Arrival, Handler

\* A worker keeps every variable within its type.
LEMMA ProgressTyped ==
  ASSUME TypeOK, NEW j \in Requests, Progress(j)
  PROVE  TypeOK'
<1>t. /\ job \in [Requests -> Jobs] /\ job[j] \in Jobs
      /\ ckpt \in {NoCkpt} \cup 0..Gates
  BY DEF TypeOK
<1>g. /\ job[j].gates \in 0..Gates /\ job[j].shows \in Reports
      /\ job[j].shows.gate \in 0..Gates /\ job[j].shows.status \in Statuses \cup {"none"}
  BY <1>t DEF Jobs, Reports
<1>r. \A g \in 0..Gates : Shows("running", g) \in Reports
  BY JobValues DEF Statuses, Working
<1>z. Shows("running", 0) \in Reports
  BY <1>r, LifecycleAssumption
<1>e. \A s \in {"failed", "paused", "completed", "blocked"} :
        Ends(j, s) => job' \in [Requests -> Jobs]
  <2> SUFFICES ASSUME NEW s \in {"failed", "paused", "completed", "blocked"}, Ends(j, s)
               PROVE  job' \in [Requests -> Jobs]
    OBVIOUS
  <2>1. Shows(s, job[j].shows.gate) \in Reports
    BY JobValues, <1>g DEF Statuses, Terminal
  <2>2. [job[j] EXCEPT !.at = "end", !.shows = Shows(s, job[j].shows.gate)] \in Jobs
    BY <2>1, <1>t, PlaceChanges DEF Places
  <2>3. Becomes(j, [job[j] EXCEPT !.at = "end", !.shows = Shows(s, job[j].shows.gate)])
    BY DEF Ends
  <2> QED
    BY <2>2, <2>3, <1>t, OneJob
<1>a. \A at \in Places : Goes(j, at) => job' \in [Requests -> Jobs]
  BY <1>t, PlaceChanges, OneJob DEF Goes
<1>1. CASE Load(j)
  <2>1. job' \in [Requests -> Jobs]
    <3>1. CASE Kind[j] = "create" \/ ckpt = NoCkpt
      BY <1>1, <3>1, <1>a DEF Load, Places
    <3>2. CASE ~(Kind[j] = "create" \/ ckpt = NoCkpt)
      <4>1. [job[j] EXCEPT !.at = "begin", !.gates = ckpt,
                           !.shows = Shows("running", 0)] \in Jobs
        BY <3>2, <1>t, <1>z, ProgressChanges
      <4> QED
        BY <1>1, <3>2, <4>1, <1>t, OneJob DEF Load
    <3> QED
      BY <3>1, <3>2
  <2> QED
    BY <1>1, <2>1 DEF Load, TypeOK, api, history
<1>2. CASE MakeDir(j)
  <2>1. [job[j] EXCEPT !.at = "begin", !.shows = Shows("running", 0)] \in Jobs
    BY <1>t, <1>z, PlaceChanges DEF Places
  <2>2. job' \in [Requests -> Jobs]
    BY <1>2, <2>1, <1>t, OneJob DEF MakeDir
  <2> QED
    BY <1>2, <2>2 DEF MakeDir, TypeOK, api
<1>3. CASE DirExists(j)
  <2>1. job' \in [Requests -> Jobs]
    BY <1>3, <1>a DEF DirExists, Places
  <2> QED
    BY <1>3, <2>1 DEF DirExists, TypeOK, api, history
<1>4. CASE WriteReport(j)
  <2>1. job' \in [Requests -> Jobs]
    BY <1>4, <1>a DEF WriteReport, Places, Saves
  <2> QED
    BY <1>4, <2>1, <1>g DEF WriteReport, TypeOK, api, history
<1>5. CASE SaveReport(j)
  <2>1. PICK at \in DOMAIN Then :
          /\ At(j, at)
          /\ IF at = "endSave" THEN IsOver(j, "finished") ELSE Goes(j, Then[at])
          /\ Saved(job[j].shows.status)
          /\ UNCHANGED <<api, queue, runJob, made, report, ckpt, history>>
    BY <1>5 DEF SaveReport
  <2>2. job' \in [Requests -> Jobs]
    BY <2>1, <1>a, <1>t, JobsOver, OneJob DEF Then, Places, IsOver
  <2>3. row' \in Statuses \cup {"none"}
    BY <2>1, <1>g DEF Saved, TypeOK
  <2> QED
    BY <2>1, <2>2, <2>3 DEF TypeOK, api, history
<1>6. CASE StageFails(j)
  <2>1. job' \in [Requests -> Jobs]
    BY <1>6, <1>t, PlaceChanges, OneJob DEF StageFails, Places
  <2> QED
    BY <1>6, <2>1 DEF StageFails, TypeOK, api, history
<1>7. CASE AwaitDecision(j)
  <2>1. GateOf(j) \in 0..Gates
    BY <1>7, <1>g, LifecycleAssumption DEF AwaitDecision, GateOf
  <2>2. job' \in [Requests -> Jobs]
    BY <1>7, <2>1, <1>r, <1>t, ProgressChanges, OneJob DEF AwaitDecision
  <2> QED
    BY <1>7, <2>2 DEF AwaitDecision, TypeOK, api, history
<1>8. CASE TakeDecision(j)
  <2>1. GateOf(j) \in 1..Gates
    BY <1>8, <1>g, LifecycleAssumption DEF TakeDecision, GateOf
  <2>2. ReworkOf[GateOf(j)] \in 0..Gates
    BY <2>1, LifecycleAssumption
  <2>3. job' \in [Requests -> Jobs]
    <3> DEFINE g == IF job[j].decision.answer = "approved"
                    THEN GateOf(j) ELSE ReworkOf[GateOf(j)]
    <3>1. g \in 0..Gates
      BY <2>1, <2>2
    <3>2. Becomes(j, [job[j] EXCEPT !.at = "stage", !.result = "go",
                        !.gates = g, !.decision = NoDecision])
      BY <1>8 DEF TakeDecision
    <3> HIDE DEF g
    <3>3. [job[j] EXCEPT !.at = "stage", !.result = "go",
                        !.gates = g, !.decision = NoDecision] \in Jobs
      BY <3>1, <1>t, JobValues, ProgressChanges
    <3> QED
      BY <3>2, <3>3, <1>t, OneJob
  <2> QED
    BY <1>8, <2>3 DEF TakeDecision, TypeOK, api, history
<1>9. CASE RefuseDecision(j)
  <2>1. job' \in [Requests -> Jobs]
    BY <1>9, <1>t, PlaceChanges, OneJob DEF RefuseDecision, Places
  <2> QED
    BY <1>9, <2>1 DEF RefuseDecision, TypeOK, api, history
<1>10. CASE Settle(j)
  <2>1. job' \in [Requests -> Jobs]
    BY <1>10, <1>a, <1>e DEF Settle, Places
  <2> QED
    BY <1>10, <2>1, <1>g DEF Settle, TypeOK, api, history
<1>11. CASE Deliver(j)
  <2>1. job' \in [Requests -> Jobs]
    BY <1>11, <1>e DEF Deliver
  <2> QED
    BY <1>11, <2>1 DEF Deliver, TypeOK, api, history
<1>12. CASE PersistFailure(j)
  <2>1. job' \in [Requests -> Jobs]
    BY <1>12, <1>a DEF PersistFailure, Places
  <2> QED
    BY <1>12, <2>1 DEF PersistFailure, TypeOK, Saved, Statuses, Terminal, api, history
<1>13. CASE FailureCallback(j)
  <2>1. job' \in [Requests -> Jobs]
    BY <1>13, <1>t, JobsOver, OneJob DEF FailureCallback, IsOver
  <2> QED
    BY <1>13, <2>1 DEF FailureCallback, TypeOK, Saved, Statuses, Terminal, api, history
<1> QED
  BY <1>1, <1>2, <1>3, <1>4, <1>5, <1>6, <1>7, <1>8, <1>9, <1>10, <1>11,
     <1>12, <1>13 DEF Progress

\* Every step keeps every variable within its type.
LEMMA TypeNext == TypeOK /\ [Next]_vars => TypeOK'
<1> SUFFICES ASSUME TypeOK, [Next]_vars PROVE TypeOK'
  OBVIOUS
<1>t. job \in [Requests -> Jobs] /\ queue \in Seq(Requests)
  BY DEF TypeOK
<1>1. CASE Take
  <2>1. Head(queue) \in Requests /\ Tail(queue) \in Seq(Requests)
    BY <1>1, <1>t, QueueType DEF Take
  <2>2. job[Head(queue)] \in Jobs
    BY <2>1, <1>t
  <2>3. [job[Head(queue)] EXCEPT !.status = "started"] \in Jobs
    BY <2>2, JobValues, DecisionChanges
  <2>4. job' \in [Requests -> Jobs]
    BY <1>1, <2>1, <2>3, <1>t, OneJob DEF Take
  <2> QED
    BY <1>1, <2>1, <2>4 DEF Take, TypeOK, api, history
<1>2. CASE ForgetJob
  BY <1>2 DEF ForgetJob, TypeOK, api, history
<1>3. ASSUME NEW r \in Requests, WorkerDies(r) PROVE TypeOK'
  <2>1. job' \in [Requests -> Jobs]
    BY <1>3, <1>t, JobsOver, OneJob DEF WorkerDies
  <2> QED
    BY <1>3, <2>1 DEF WorkerDies, TypeOK, api, history
<1>4. ASSUME NEW r \in Requests, Abandoned(r) PROVE TypeOK'
  <2>1. job' \in [Requests -> Jobs]
    BY <1>4, <1>t, PlaceChanges, OneJob DEF Abandoned, Goes, Places
  <2> QED
    BY <1>4, <2>1 DEF Abandoned, Saved, TypeOK, api, history, Statuses, Terminal
<1>5. CASE UNCHANGED vars
  BY <1>5 DEF vars, api, history, TypeOK
<1> QED
  BY <1>1, <1>2, <1>3, <1>4, <1>5, HandlerTyped, ProgressTyped DEF Next

\* Every variable of the model keeps its type.
THEOREM TypeCorrect == Spec => []TypeOK
  BY TypeInit, TypeNext, PTL DEF Spec

-----------------------------------------------------------------------------
(* The run is begun once.                                                  *)

\* No step begins a run that was begun.
LEMMA OnceNext == OnceInv /\ [Next]_vars => OnceInv'
<1> SUFFICES ASSUME OnceInv, [Next]_vars PROVE OnceInv'
  OBVIOUS
<1>1. ASSUME NEW j \in Requests, MakeDir(j) PROVE OnceInv'
  BY <1>1 DEF MakeDir, OnceInv
<1>2. ASSUME NEW r \in Requests, Arrival(r) \/ Handler(r)
      PROVE  UNCHANGED <<made, starts>>
  BY <1>2 DEF Arrival, Handler, Create, InsertRow, StartRun, QueueUnavailable,
     Resume, Decide, ResumeRun, Cancel, CancelJob, Archive, LoadReport,
     WriteStatus, SaveStatus, history
<1>3. ASSUME NEW j \in Requests, Progress(j), ~MakeDir(j)
      PROVE  UNCHANGED <<made, starts>>
  BY <1>3 DEF Progress, Load, DirExists, WriteReport, SaveReport, StageFails,
     AwaitDecision, TakeDecision, RefuseDecision, Settle, Deliver,
     PersistFailure, FailureCallback, history
<1>4. ASSUME \/ Take \/ ForgetJob \/ UNCHANGED vars
             \/ \E r \in Requests : WorkerDies(r) \/ Abandoned(r)
      PROVE  UNCHANGED <<made, starts>>
  BY <1>4 DEF Take, ForgetJob, WorkerDies, Abandoned, vars, history
<1> QED
  BY <1>1, <1>2, <1>3, <1>4 DEF Next, OnceInv

\* However many clients create and resume a run, one worker makes its
\* directory and begins it from scratch.
THEOREM RunIsStartedOnce == Spec => []StartedOnce
<1>1. Init => OnceInv
  BY DEF Init, OnceInv
<1>2. OnceInv => StartedOnce
  BY DEF OnceInv, StartedOnce
<1> QED
  BY <1>1, <1>2, OnceNext, PTL DEF Spec

-----------------------------------------------------------------------------
(* The queue.                                                              *)

Waiting == {"new", "inserting", "inserted", "checked"}

\* What every step of a worker has in common.
LEMMA WorkerStep ==
  ASSUME TypeOK, NEW j \in Requests, Progress(j)
  PROVE  /\ job[j].status = "started"
         /\ job'[j].status \in {"started", "finished", "failed"}
         /\ \A k \in Requests : k # j => job'[k] = job[k]
         /\ UNCHANGED <<asked, copy, loop, queue, runJob>>
<1>t. /\ job \in [Requests -> Jobs] /\ job[j] \in Jobs
      /\ ckpt \in {NoCkpt} \cup 0..Gates
  BY DEF TypeOK
<1>1. job[j].status = "started"
  BY DEF Progress, Load, MakeDir, DirExists, WriteReport, SaveReport, StageFails,
     AwaitDecision, TakeDecision, RefuseDecision, Settle, Deliver,
     PersistFailure, FailureCallback, At
<1>2. UNCHANGED <<asked, copy, loop, queue, runJob>>
  BY DEF Progress, Load, MakeDir, DirExists, WriteReport, SaveReport, StageFails,
     AwaitDecision, TakeDecision, RefuseDecision, Settle, Deliver,
     PersistFailure, FailureCallback, api
<1>3. \A value : Becomes(j, value) =>
        /\ job'[j] = value
        /\ \A k \in Requests : k # j => job'[k] = job[k]
  BY <1>t, OneJob
<1>4. /\ job'[j].status \in {"started", "finished", "failed"}
      /\ \A k \in Requests : k # j => job'[k] = job[k]
  <2>1. \A at : [job[j] EXCEPT !.at = at].status = "started"
    BY <1>1, <1>t DEF Jobs
  <2>2. [job[j] EXCEPT !.at = "begin", !.shows = Shows("running", 0)].status = "started"
    BY <1>1, <1>t DEF Jobs
  <2>3. [job[j] EXCEPT !.at = "stage", !.result = "fail"].status = "started"
    BY <1>1, <1>t DEF Jobs
  <2>4. [job[j] EXCEPT !.at = "begin", !.gates = ckpt,
                       !.shows = Shows("running", 0)].status = "started"
    BY <1>1, <1>t DEF Jobs
  <2>5. [job[j] EXCEPT !.at = "stage", !.result = "wait",
                       !.shows = Shows("running", GateOf(j))].status = "started"
    BY <1>1, <1>t DEF Jobs
  <2>6. ASSUME NEW g
        PROVE  [job[j] EXCEPT !.at = "stage", !.result = "go", !.gates = g,
                              !.decision = NoDecision].status = "started"
    BY <1>1, <1>t DEF Jobs
  <2>7. ASSUME NEW status PROVE [NoJob EXCEPT !.status = status, !.at = "over"].status = status
    BY DEF NoJob
  <2>8. ASSUME NEW at, Goes(j, at)
        PROVE  /\ job'[j].status = "started"
               /\ \A k \in Requests : k # j => job'[k] = job[k]
    BY <2>1, <2>8, <1>3 DEF Goes
  <2>9. ASSUME NEW status, IsOver(j, status)
        PROVE  /\ job'[j].status = status
               /\ \A k \in Requests : k # j => job'[k] = job[k]
    BY <2>7, <2>9, <1>3 DEF IsOver
  <2>10. ASSUME NEW status, Ends(j, status)
         PROVE  /\ job'[j].status = "started"
                /\ \A k \in Requests : k # j => job'[k] = job[k]
    <3>1. Becomes(j, [job[j] EXCEPT !.at = "end", !.shows = Shows(status, job[j].shows.gate)])
      BY <2>10 DEF Ends
    <3>2. [job[j] EXCEPT !.at = "end",
                         !.shows = Shows(status, job[j].shows.gate)].status = "started"
      BY <1>1, <1>t DEF Jobs
    <3> QED
      BY <3>1, <3>2, <1>3
  <2>11. CASE Load(j)
    <3>1. CASE Goes(j, "mkdir")
      BY <3>1, <2>8
    <3>2. CASE ~Goes(j, "mkdir")
      BY <2>11, <3>2, <2>4, <1>3 DEF Load
    <3> QED
      BY <3>1, <3>2
  <2>12. CASE MakeDir(j)
    BY <2>12, <2>2, <1>3 DEF MakeDir
  <2>13. CASE DirExists(j) \/ WriteReport(j) \/ PersistFailure(j)
    BY <2>13, <2>8 DEF DirExists, WriteReport, PersistFailure
  <2>14. CASE SaveReport(j) \/ FailureCallback(j)
    BY <2>14, <2>8, <2>9 DEF SaveReport, FailureCallback
  <2>15. CASE StageFails(j) \/ RefuseDecision(j)
    BY <2>15, <2>3, <1>3 DEF StageFails, RefuseDecision
  <2>16. CASE AwaitDecision(j)
    BY <2>16, <2>5, <1>3 DEF AwaitDecision
  <2>17. CASE TakeDecision(j)
    <3> DEFINE g == IF job[j].decision.answer = "approved"
                    THEN GateOf(j) ELSE ReworkOf[GateOf(j)]
    <3>1. Becomes(j, [job[j] EXCEPT !.at = "stage", !.result = "go",
                        !.gates = g, !.decision = NoDecision])
      BY <2>17 DEF TakeDecision
    <3> HIDE DEF g
    <3> QED
      BY <3>1, <2>6, <1>3
  <2>18. CASE Settle(j) \/ Deliver(j)
    BY <2>18, <2>8, <2>10 DEF Settle, Deliver
  <2> QED
    BY <2>11, <2>12, <2>13, <2>14, <2>15, <2>16, <2>17, <2>18 DEF Progress
<1> QED
  BY <1>1, <1>2, <1>4

\* What every step of the API does to jobs: it gives a new one its decision,
\* puts it in the queue, or takes a queued one back.
LEMMA HandlerStep ==
  ASSUME TypeOK, QueueInv, NEW r \in Requests, Arrival(r) \/ Handler(r)
  PROVE  /\ \A k \in Requests : k # r => asked'[k] = asked[k]
         /\ \A k \in Requests :
              \/ job'[k] = job[k]
              \/ /\ job[k].status \in {"none", "queued"}
                 /\ job'[k].at = "load"
                 /\ job'[k].status \in {"none", "queued", "canceled"}
<1>t. job \in [Requests -> Jobs] /\ asked \in [Requests -> {"new"} \cup Handling \cup Answered]
  BY DEF TypeOK
<1>a. \A answer : Answer(r, answer) => \A k \in Requests : k # r => asked'[k] = asked[k]
  BY <1>t DEF Answer
<1>k. \A at : Keeps(r, at) => \A k \in Requests : k # r => asked'[k] = asked[k]
  BY <1>t DEF Keeps
<1>1. \A k \in Requests : k # r => asked'[k] = asked[k]
  BY <1>t, <1>a, <1>k DEF Arrival, Handler, Create, InsertRow, StartRun, QueueUnavailable,
     Resume, Decide, ResumeRun, Cancel, CancelJob, Archive, LoadReport,
     WriteStatus, SaveStatus
<1>2. ASSUME NEW d, Enqueue(r, d), asked[r] \in {"inserted", "checked"}
      PROVE  /\ \A k \in Requests : k # r => job'[k] = job[k]
             /\ job[r].status = "none" /\ job'[r].at = "load" /\ job'[r].status = "queued"
  <2>1. job[r].status = "none" /\ job[r].at = "load"
    BY <1>2 DEF QueueInv
  <2>2. Becomes(r, [job[r] EXCEPT !.status = "queued", !.decision = d])
    BY <1>2 DEF Enqueue
  <2>3. /\ [job[r] EXCEPT !.status = "queued", !.decision = d].at = "load"
        /\ [job[r] EXCEPT !.status = "queued", !.decision = d].status = "queued"
    BY <2>1, <1>t DEF Jobs
  <2> QED
    BY <2>1, <2>2, <2>3, <1>t, OneJob
<1>3. CASE StartRun(r)
  BY <1>1, <1>3, <1>2 DEF StartRun
<1>4. CASE ResumeRun(r)
  BY <1>1, <1>4, <1>2 DEF ResumeRun
<1>5. CASE Decide(r)
  <2>1. CASE Answerable
    <3>1. PICK answer \in {"approved", "rejected"} :
            Becomes(r, [job[r] EXCEPT !.decision = [gate |-> report.gate, answer |-> answer]])
      BY <1>5, <2>1 DEF Decide
    <3>2. job[r].status = "none" /\ job[r].at = "load"
      BY <1>5 DEF Decide, Arrives, QueueInv
    <3>3. /\ [job[r] EXCEPT !.decision = [gate |-> report.gate, answer |-> answer]].at = "load"
          /\ [job[r] EXCEPT !.decision = [gate |-> report.gate, answer |-> answer]].status = "none"
      BY <3>2, <1>t DEF Jobs
    <3> QED
      BY <1>1, <3>1, <3>2, <3>3, <1>t, OneJob
  <2>2. CASE ~Answerable
    BY <1>1, <1>5, <2>2 DEF Decide
  <2> QED
    BY <2>1, <2>2
<1>6. CASE CancelJob(r)
  <2>1. CASE UNCHANGED job
    BY <1>1, <2>1
  <2>2. CASE ~UNCHANGED job
    <3>1. /\ runJob # Nobody /\ job[runJob].status = "queued"
          /\ Becomes(runJob, [NoJob EXCEPT !.status = "canceled"])
      BY <1>6, <2>2 DEF CancelJob
    <3>2. runJob \in Requests
      BY <3>1 DEF TypeOK
    <3>3. /\ [NoJob EXCEPT !.status = "canceled"].at = "load"
          /\ [NoJob EXCEPT !.status = "canceled"].status = "canceled"
      BY DEF NoJob
    <3> QED
      BY <1>1, <3>1, <3>2, <3>3, <1>t, OneJob
  <2> QED
    BY <2>1, <2>2
<1>7. CASE \/ Create(r) \/ InsertRow(r) \/ QueueUnavailable(r) \/ Resume(r)
           \/ Cancel(r) \/ Archive(r) \/ LoadReport(r) \/ WriteStatus(r) \/ SaveStatus(r)
  <2>1. UNCHANGED job
    BY <1>7 DEF Create, InsertRow, QueueUnavailable, Resume, Cancel, Archive,
       LoadReport, WriteStatus, SaveStatus
  <2> QED
    BY <1>1, <2>1
<1> QED
  BY <1>1, <1>3, <1>4, <1>5, <1>6, <1>7 DEF Arrival, Handler

\* Taking one job out of the queue moves up those behind it.
LEMMA Removed ==
  ASSUME NEW S, NEW s \in Seq(S), NEW i \in 1..Len(s)
  PROVE  /\ Len(RemoveAt(s, i)) = Len(s) - 1
         /\ \A k \in 1..Len(RemoveAt(s, i)) :
              RemoveAt(s, i)[k] = s[IF k < i THEN k ELSE k + 1]
<1> DEFINE low == SubSeq(s, 1, i - 1)
           high == SubSeq(s, i + 1, Len(s))
<1>1. /\ low \in Seq(S) /\ Len(low) = i - 1
      /\ \A k \in 1..(i - 1) : low[k] = s[k]
  OBVIOUS
<1>2. /\ high \in Seq(S) /\ Len(high) = Len(s) - i
      /\ \A k \in 1..(Len(s) - i) : high[k] = s[k + i]
  OBVIOUS
<1>3. RemoveAt(s, i) = low \o high
  BY DEF RemoveAt
<1> HIDE DEF low, high
<1>4. /\ Len(low \o high) = Len(low) + Len(high)
      /\ \A k \in 1..Len(low) + Len(high) :
           (low \o high)[k] = IF k <= Len(low) THEN low[k] ELSE high[k - Len(low)]
  BY <1>1, <1>2, ConcatProperties
<1>5. Len(s) \in Nat /\ i \in Nat /\ Len(low) + Len(high) = Len(s) - 1
  BY <1>1, <1>2
<1>6. ASSUME NEW k \in 1..Len(s) - 1, k < i PROVE (low \o high)[k] = s[k]
  BY <1>1, <1>4, <1>5, <1>6
<1>7. ASSUME NEW k \in 1..Len(s) - 1, ~(k < i) PROVE (low \o high)[k] = s[k + 1]
  <2>1. k - (i - 1) \in 1..(Len(s) - i) /\ k - (i - 1) + i = k + 1
    BY <1>5, <1>7
  <2>2. (low \o high)[k] = high[k - (i - 1)]
    BY <1>1, <1>4, <1>5, <1>7
  <2> QED
    BY <2>1, <2>2, <1>2
<1> QED
  BY <1>3, <1>4, <1>5, <1>6, <1>7

\* A job that waits is in the queue once and has not begun.
LEMMA QueueNext == TypeOK /\ QueueInv /\ [Next]_vars => QueueInv'
<1> SUFFICES ASSUME TypeOK, QueueInv, [Next]_vars PROVE QueueInv'
  OBVIOUS
<1>t. /\ job \in [Requests -> Jobs] /\ queue \in Seq(Requests)
      /\ asked \in [Requests -> {"new"} \cup Handling \cup Answered]
  BY DEF TypeOK
<1>s. /\ \A i \in 1..Len(queue) : queue[i] \in Requests
      /\ Len(queue) \in Nat
  BY <1>t
<1>q. /\ \A i \in 1..Len(queue) : job[queue[i]].status = "queued"
      /\ \A i, k \in 1..Len(queue) : queue[i] = queue[k] => i = k
      /\ \A r \in Requests : asked[r] \in Waiting => job[r].status = "none"
      /\ \A r \in Requests : job[r].status \in {"none", "queued"} => job[r].at = "load"
  BY DEF QueueInv, Waiting
<1>1. ASSUME NEW j \in Requests, Progress(j)
      PROVE  QueueInv'
  <2>1. /\ job[j].status = "started"
        /\ job'[j].status \in {"started", "finished", "failed"}
        /\ \A k \in Requests : k # j => job'[k] = job[k]
        /\ UNCHANGED <<asked, copy, loop, queue, runJob>>
    BY <1>1, WorkerStep
  <2> QED
    BY <2>1, <1>q, <1>s DEF QueueInv, Waiting
<1>2. CASE Take
  <2>1. Head(queue) \in Requests /\ Head(queue) = queue[1] /\ 1 \in 1..Len(queue)
    BY <1>2, <1>t DEF Take
  <2>2. /\ Len(queue') = Len(queue) - 1
        /\ \A i \in 1..Len(queue') : queue'[i] = queue[i + 1]
    BY <1>2, <1>t DEF Take
  <2>3. [job[Head(queue)] EXCEPT !.status = "started"].status = "started"
    BY <2>1, <1>t DEF Jobs
  <2>4. /\ job'[Head(queue)].status = "started"
        /\ \A k \in Requests : k # Head(queue) => job'[k] = job[k]
    BY <1>2, <2>1, <2>3, <1>t, OneJob DEF Take
  <2>5. UNCHANGED asked
    BY <1>2 DEF Take, api
  <2>6. \A i \in 1..Len(queue') : i + 1 \in 1..Len(queue) /\ i + 1 # 1
    BY <2>2, <1>s
  <2>7. \A i \in 1..Len(queue') : queue'[i] # Head(queue) /\ queue'[i] \in Requests
    BY <2>1, <2>2, <2>6, <1>q, <1>s
  <2>8. job[Head(queue)].status = "queued"
    BY <2>1, <1>q
  <2>9. \A i \in 1..Len(queue') : job'[queue'[i]].status = "queued"
    BY <2>2, <2>4, <2>6, <2>7, <1>q
  <2>10. \A i, k \in 1..Len(queue') : queue'[i] = queue'[k] => i = k
    BY <2>2, <2>6, <1>q, <1>s
  <2> QED
    BY <2>1, <2>4, <2>5, <2>8, <2>9, <2>10, <1>q DEF QueueInv, Waiting
<1>3. CASE ForgetJob \/ UNCHANGED vars
  BY <1>3, <1>q DEF ForgetJob, vars, api, QueueInv
<1>4. ASSUME NEW r \in Requests, WorkerDies(r) \/ Abandoned(r)
      PROVE  QueueInv'
  <2>1. job[r].status \notin {"none", "queued"}
    <3>1. CASE WorkerDies(r)
      BY <3>1 DEF WorkerDies
    <3>2. CASE Abandoned(r)
      BY <3>2, <1>q DEF Abandoned
    <3> QED
      BY <1>4, <3>1, <3>2
  <2>2. job'[r].status \notin {"none", "queued"} /\ (\A k \in Requests : k # r => job'[k] = job[k])
    <3>1. CASE WorkerDies(r)
      <4>1. [NoJob EXCEPT !.status = "failed", !.at = "dead"].status = "failed"
        BY DEF NoJob
      <4> QED
        BY <3>1, <4>1, <1>t, OneJob DEF WorkerDies
    <3>2. CASE Abandoned(r)
      <4>1. [job[r] EXCEPT !.at = "noticed"].status = job[r].status
        BY <1>t DEF Jobs
      <4> QED
        BY <3>2, <2>1, <4>1, <1>t, OneJob DEF Abandoned, Goes
    <3> QED
      BY <1>4, <3>1, <3>2
  <2>3. UNCHANGED <<asked, queue>>
    BY <1>4 DEF WorkerDies, Abandoned, api
  <2> QED
    BY <2>1, <2>2, <2>3, <1>q, <1>s DEF QueueInv, Waiting
<1>5. ASSUME NEW r \in Requests, NEW d, Enqueue(r, d), Answer(r, "done"),
             asked[r] \in {"inserted", "checked"}
      PROVE  QueueInv'
  <2>1. job[r].status = "none" /\ job[r].at = "load"
    BY <1>5, <1>q DEF Waiting
  <2>2. /\ [job[r] EXCEPT !.status = "queued", !.decision = d].status = "queued"
        /\ [job[r] EXCEPT !.status = "queued", !.decision = d].at = job[r].at
    BY <1>t DEF Jobs
  <2>3. /\ job'[r].status = "queued" /\ job'[r].at = "load"
        /\ \A k \in Requests : k # r => job'[k] = job[k]
    BY <1>5, <2>1, <2>2, <1>t, OneJob DEF Enqueue
  <2>4. asked'[r] = "done" /\ \A k \in Requests : k # r => asked'[k] = asked[k]
    BY <1>5, <1>t DEF Answer
  <2>5. /\ Len(queue') = Len(queue) + 1
        /\ queue'[Len(queue) + 1] = r
        /\ \A i \in 1..Len(queue) : queue'[i] = queue[i]
    BY <1>5, <1>t DEF Enqueue
  <2>6. \A i \in 1..Len(queue) : queue[i] # r
    BY <2>1, <1>q
  <2>7. \A i \in 1..Len(queue') : job'[queue'[i]].status = "queued"
    BY <2>3, <2>5, <2>6, <1>q, <1>s
  <2>8. \A i, k \in 1..Len(queue') : queue'[i] = queue'[k] => i = k
    BY <2>5, <2>6, <1>q, <1>s
  <2> QED
    BY <2>3, <2>4, <2>7, <2>8, <1>q DEF QueueInv, Waiting
<1>6. ASSUME NEW r \in Requests, Decide(r), Answerable
      PROVE  QueueInv'
  <2>1. PICK answer \in {"approved", "rejected"} :
          Becomes(r, [job[r] EXCEPT !.decision = [gate |-> report.gate, answer |-> answer]])
    BY <1>6 DEF Decide
  <2>2. job[r].status = "none" /\ job[r].at = "load"
    BY <1>6, <1>q DEF Decide, Arrives, Waiting
  <2>3. /\ [job[r] EXCEPT !.decision = [gate |-> report.gate, answer |-> answer]].at = "load"
        /\ [job[r] EXCEPT !.decision = [gate |-> report.gate, answer |-> answer]].status = "none"
    BY <2>2, <1>t DEF Jobs
  <2>4. /\ job'[r].status = "none" /\ job'[r].at = "load"
        /\ \A k \in Requests : k # r => job'[k] = job[k]
    BY <2>1, <2>3, <1>t, OneJob
  <2>5. \A k \in Requests : k # r => asked'[k] = asked[k]
    BY <1>6, HandlerStep DEF Arrival
  <2>6. UNCHANGED queue
    BY <1>6 DEF Decide
  <2> QED
    BY <2>2, <2>4, <2>5, <2>6, <1>q, <1>s DEF QueueInv, Waiting
<1>7. ASSUME NEW r \in Requests, CancelJob(r), ~UNCHANGED <<queue, job>>
      PROVE  QueueInv'
  <2>1. /\ runJob # Nobody /\ job[runJob].status = "queued"
        /\ Becomes(runJob, [NoJob EXCEPT !.status = "canceled"])
    BY <1>7 DEF CancelJob
  <2>2. PICK i \in 1..Len(queue) : queue[i] = runJob /\ queue' = RemoveAt(queue, i)
    BY <1>7 DEF CancelJob
  <2>3. runJob \in Requests
    BY <2>1 DEF TypeOK
  <2>4. [NoJob EXCEPT !.status = "canceled"].status = "canceled"
    BY DEF NoJob
  <2>5. /\ job'[runJob].status = "canceled"
        /\ \A k \in Requests : k # runJob => job'[k] = job[k]
    BY <2>1, <2>3, <2>4, <1>t, OneJob
  <2>6. /\ Len(queue') = Len(queue) - 1
        /\ \A k \in 1..Len(queue') : queue'[k] = queue[IF k < i THEN k ELSE k + 1]
    BY <2>2, <1>t, Removed
  <2>7. \A k \in 1..Len(queue') :
          /\ (IF k < i THEN k ELSE k + 1) \in 1..Len(queue)
          /\ (IF k < i THEN k ELSE k + 1) # i
    BY <2>6, <1>s
  <2>8. \A k \in 1..Len(queue') : queue'[k] # runJob
    BY <2>2, <2>6, <2>7, <1>q
  <2>9. \A k \in 1..Len(queue') : job'[queue'[k]].status = "queued"
    BY <2>5, <2>6, <2>7, <2>8, <1>q, <1>s
  <2>10. \A k, l \in 1..Len(queue') : queue'[k] = queue'[l] => k = l
    BY <2>6, <2>7, <1>q, <1>s
  <2>11. asked[r] = "cancelling" /\ asked'[r] \in {"updating", "refused", "cancel_failed"}
    BY <1>7, <1>t DEF CancelJob, Keeps, Answer
  <2>12. \A k \in Requests : k # r => asked'[k] = asked[k]
    BY <1>7, HandlerStep DEF Handler
  <2> QED
    BY <2>1, <2>3, <2>5, <2>9, <2>10, <2>11, <2>12, <1>q DEF QueueInv, Waiting
<1>8. ASSUME NEW r \in Requests, UNCHANGED <<queue, job>>, Arrival(r) \/ Handler(r)
      PROVE  QueueInv'
  <2>1. \A k \in Requests : k # r => asked'[k] = asked[k]
    BY <1>8, HandlerStep
  <2>2. asked'[r] \in Waiting => asked[r] \in Waiting
    BY <1>8, <1>t DEF Waiting, Arrival, Handler, Create, InsertRow, StartRun, QueueUnavailable,
       Resume, Decide, ResumeRun, Cancel, CancelJob, Archive, LoadReport,
       WriteStatus, SaveStatus, Arrives, Answer, Keeps
  <2> QED
    BY <1>8, <2>1, <2>2, <1>q DEF QueueInv, Waiting
<1>9. ASSUME NEW r \in Requests, Arrival(r) \/ Handler(r)
      PROVE  QueueInv'
  <2>1. CASE StartRun(r) \/ ResumeRun(r)
    BY <2>1, <1>5 DEF StartRun, ResumeRun
  <2>2. CASE Decide(r) \/ CancelJob(r)
    BY <1>9, <2>2, <1>6, <1>7, <1>8 DEF Decide
  <2>3. CASE \/ Create(r) \/ InsertRow(r) \/ QueueUnavailable(r) \/ Resume(r)
             \/ Cancel(r) \/ Archive(r) \/ LoadReport(r) \/ WriteStatus(r) \/ SaveStatus(r)
    <3>1. UNCHANGED <<queue, job>>
      BY <2>3 DEF Create, InsertRow, QueueUnavailable, Resume, Cancel, Archive,
         LoadReport, WriteStatus, SaveStatus
    <3> QED
      BY <3>1, <1>8, <1>9
  <2> QED
    BY <1>9, <2>1, <2>2, <2>3 DEF Arrival, Handler
<1> QED
  BY <1>1, <1>2, <1>3, <1>4, <1>9 DEF Next

-----------------------------------------------------------------------------
(* What a step of a worker does to the parts of its job.                   *)

\* A job that goes on changes its place and nothing else.
LEMMA GoesParts ==
  ASSUME TypeOK, NEW j \in Requests, NEW at, Goes(j, at)
  PROVE  /\ job'[j].at = at /\ job'[j].status = job[j].status
         /\ job'[j].gates = job[j].gates /\ job'[j].shows = job[j].shows
         /\ job'[j].result = job[j].result /\ job'[j].decision = job[j].decision
<1>1. job[j] \in Jobs /\ job \in [Requests -> Jobs]
  BY DEF TypeOK
<1>2. job'[j] = [job[j] EXCEPT !.at = at]
  BY <1>1, OneJob DEF Goes
<1> QED
  BY <1>1, <1>2 DEF Jobs

\* A job that ends shows the status it ended with.
LEMMA EndsParts ==
  ASSUME TypeOK, NEW j \in Requests, NEW s, Ends(j, s)
  PROVE  /\ job'[j].at = "end" /\ job'[j].status = job[j].status
         /\ job'[j].gates = job[j].gates /\ job'[j].result = job[j].result
         /\ job'[j].decision = job[j].decision
         /\ job'[j].shows.status = s /\ job'[j].shows.gate = job[j].shows.gate
<1>1. job[j] \in Jobs /\ job \in [Requests -> Jobs]
  BY DEF TypeOK
<1>2. Becomes(j, [job[j] EXCEPT !.at = "end", !.shows = Shows(s, job[j].shows.gate)])
  BY DEF Ends
<1>3. job'[j] = [job[j] EXCEPT !.at = "end", !.shows = Shows(s, job[j].shows.gate)]
  BY <1>1, <1>2, OneJob
<1>4. /\ job'[j].at = "end" /\ job'[j].status = job[j].status
      /\ job'[j].gates = job[j].gates /\ job'[j].result = job[j].result
      /\ job'[j].decision = job[j].decision
      /\ job'[j].shows = Shows(s, job[j].shows.gate)
  BY <1>1, <1>3 DEF Jobs
<1> QED
  BY <1>4 DEF Shows

\* A job that is over forgets what it held.
LEMMA OverParts ==
  ASSUME TypeOK, NEW j \in Requests, NEW s, IsOver(j, s)
  PROVE  /\ job'[j].at = "over" /\ job'[j].status = s
         /\ job'[j].gates = 0 /\ job'[j].shows = NoReport
         /\ job'[j].decision = NoDecision
<1>1. job \in [Requests -> Jobs]
  BY DEF TypeOK
<1>2. job'[j] = [NoJob EXCEPT !.status = s, !.at = "over"]
  BY <1>1, OneJob DEF IsOver
<1> QED
  BY <1>2 DEF NoJob

\* An attempt begins with the gates of the checkpoint, if it resumes.
LEMMA BeginParts ==
  ASSUME TypeOK, NEW j \in Requests,
         \/ MakeDir(j)
         \/ Load(j) /\ ~Goes(j, "mkdir")
  PROVE  /\ job'[j].at = "begin" /\ job'[j].status = job[j].status
         /\ job'[j].gates = IF MakeDir(j) THEN job[j].gates ELSE ckpt
         /\ job'[j].result = job[j].result /\ job'[j].decision = job[j].decision
         /\ job'[j].shows.status = "running"
<1>1. job[j] \in Jobs /\ job \in [Requests -> Jobs]
  BY DEF TypeOK
<1>2. CASE MakeDir(j)
  <2>1. job'[j] = [job[j] EXCEPT !.at = "begin", !.shows = Shows("running", 0)]
    BY <1>1, <1>2, OneJob DEF MakeDir
  <2>2. /\ job'[j].at = "begin" /\ job'[j].status = job[j].status
        /\ job'[j].gates = job[j].gates /\ job'[j].result = job[j].result
        /\ job'[j].decision = job[j].decision
        /\ job'[j].shows = Shows("running", 0)
    BY <1>1, <2>1 DEF Jobs
  <2> QED
    BY <1>2, <2>2 DEF Shows
<1>3. CASE Load(j) /\ ~Goes(j, "mkdir")
  <2>1. job'[j] = [job[j] EXCEPT !.at = "begin", !.gates = ckpt,
                                 !.shows = Shows("running", 0)]
    BY <1>1, <1>3, OneJob DEF Load
  <2>2. /\ job'[j].at = "begin" /\ job'[j].status = job[j].status
        /\ job'[j].gates = ckpt /\ job'[j].result = job[j].result
        /\ job'[j].decision = job[j].decision
        /\ job'[j].shows = Shows("running", 0)
    BY <1>1, <2>1 DEF Jobs
  <2>3. ~MakeDir(j)
    BY <1>3 DEF Load, MakeDir, At
  <2> QED
    BY <1>3, <2>2, <2>3 DEF Shows
<1> QED
  BY <1>2, <1>3

\* A stage changes what its job holds only when it is settled.
LEMMA StageParts ==
  ASSUME TypeOK, NEW j \in Requests,
         StageFails(j) \/ RefuseDecision(j) \/ AwaitDecision(j) \/ TakeDecision(j)
  PROVE  /\ job'[j].at = "stage" /\ job'[j].status = job[j].status
         /\ StageFails(j) \/ RefuseDecision(j) \/ AwaitDecision(j) =>
              job'[j].gates = job[j].gates /\ job'[j].decision = job[j].decision
         /\ ~AwaitDecision(j) => job'[j].shows = job[j].shows /\ job'[j].result # "wait"
         /\ StageFails(j) \/ RefuseDecision(j) => job'[j].result = "fail"
         /\ AwaitDecision(j) => job'[j].result = "wait"
         /\ AwaitDecision(j) =>
              job'[j].shows.status = "running" /\ job'[j].shows.gate = job[j].gates + 1
         /\ TakeDecision(j) =>
              /\ job'[j].decision = NoDecision
              /\ job'[j].gates = IF job[j].decision.answer = "approved"
                                 THEN GateOf(j) ELSE ReworkOf[GateOf(j)]
<1>1. job[j] \in Jobs /\ job \in [Requests -> Jobs]
  BY DEF TypeOK
<1>2. ASSUME StageFails(j) \/ RefuseDecision(j)
      PROVE  /\ job'[j].at = "stage" /\ job'[j].status = job[j].status
             /\ job'[j].gates = job[j].gates /\ job'[j].decision = job[j].decision
             /\ job'[j].shows = job[j].shows /\ job'[j].result = "fail"
  <2>1. job'[j] = [job[j] EXCEPT !.at = "stage", !.result = "fail"]
    BY <1>1, <1>2, OneJob DEF StageFails, RefuseDecision
  <2> QED
    BY <1>1, <2>1 DEF Jobs
<1>3. ASSUME AwaitDecision(j)
      PROVE  /\ job'[j].at = "stage" /\ job'[j].status = job[j].status
             /\ job'[j].gates = job[j].gates /\ job'[j].decision = job[j].decision
             /\ job'[j].shows = Shows("running", GateOf(j)) /\ job'[j].result = "wait"
  <2>1. job'[j] = [job[j] EXCEPT !.at = "stage", !.result = "wait",
                                 !.shows = Shows("running", GateOf(j))]
    BY <1>1, <1>3, OneJob DEF AwaitDecision
  <2> QED
    BY <1>1, <2>1 DEF Jobs
<1>4. ASSUME TakeDecision(j)
      PROVE  /\ job'[j].at = "stage" /\ job'[j].status = job[j].status
             /\ job'[j].decision = NoDecision /\ job'[j].result = "go"
             /\ job'[j].gates = IF job[j].decision.answer = "approved"
                                THEN GateOf(j) ELSE ReworkOf[GateOf(j)]
             /\ job'[j].shows = job[j].shows
  <2> DEFINE g == IF job[j].decision.answer = "approved"
                  THEN GateOf(j) ELSE ReworkOf[GateOf(j)]
  <2>1. job'[j] = [job[j] EXCEPT !.at = "stage", !.result = "go",
                                 !.gates = g, !.decision = NoDecision]
    BY <1>1, <1>4, OneJob DEF TakeDecision
  <2> HIDE DEF g
  <2>2. /\ job'[j].at = "stage" /\ job'[j].status = job[j].status
        /\ job'[j].decision = NoDecision /\ job'[j].result = "go"
        /\ job'[j].gates = g /\ job'[j].shows = job[j].shows
    BY <1>1, <2>1 DEF Jobs
  <2> QED
    BY <2>2 DEF g
<1>5. /\ AwaitDecision(j) => ~TakeDecision(j)
      /\ TakeDecision(j) \/ RefuseDecision(j) => ~AwaitDecision(j)
  BY DEF TakeDecision, AwaitDecision, RefuseDecision, ForThisGate
<1>6. AwaitDecision(j) => /\ job'[j].shows.status = "running"
                          /\ job'[j].shows.gate = job[j].gates + 1
  BY <1>3 DEF Shows, GateOf
<1>7. ~AwaitDecision(j) => job'[j].shows = job[j].shows /\ job'[j].result # "wait"
  BY <1>2, <1>4
<1>8. TakeDecision(j) =>
              /\ job'[j].decision = NoDecision
              /\ job'[j].gates = IF job[j].decision.answer = "approved"
                                 THEN GateOf(j) ELSE ReworkOf[GateOf(j)]
  BY <1>4
<1>9. StageFails(j) \/ RefuseDecision(j) \/ AwaitDecision(j) =>
              job'[j].gates = job[j].gates /\ job'[j].decision = job[j].decision
  BY <1>2, <1>3
<1>10. job'[j].at = "stage" /\ job'[j].status = job[j].status
  BY <1>2, <1>3, <1>4
<1>11. /\ StageFails(j) \/ RefuseDecision(j) => job'[j].result = "fail"
       /\ AwaitDecision(j) => job'[j].result = "wait"
  BY <1>2, <1>3
<1> QED
  BY <1>6, <1>7, <1>8, <1>9, <1>10, <1>11

-----------------------------------------------------------------------------
(* What a worker shows follows from where it is.                           *)

\* ShowsInv for one job.
Sound(x) ==
  /\ x.at \in Written \cup Unwritten
  /\ x.at \in {"begin"} \cup (Written \ {"end"}) => x.shows.status = "running"
  /\ x.at = "end" => x.shows.status \in {"paused", "failed", "completed", "blocked"}
  /\ x.at \in {"stage", "stageSave", "settle"} /\ x.result = "wait" =>
       x.shows.gate = x.gates + 1

\* The invariant about what reports show is about each job alone.
LEMMA SoundJobs ==
  ShowsInv <=> \A j \in Requests : job[j].status = "started" => Sound(job[j])
  BY DEF ShowsInv, Sound, Running

\* A worker keeps its own job sound.
LEMMA ProgressIsSound ==
  ASSUME TypeOK, NEW j \in Requests, Progress(j), Sound(job[j])
  PROVE  job'[j].status = "started" => Sound(job'[j])
<1> USE DEF Sound, Written, Unwritten
<1>1. CASE Load(j)
  <2>1. CASE Goes(j, "mkdir")
    BY <2>1, GoesParts
  <2>2. CASE ~Goes(j, "mkdir")
    BY <1>1, <2>2, BeginParts
  <2> QED
    BY <2>1, <2>2
<1>2. CASE MakeDir(j)
  BY <1>2, BeginParts
<1>3. CASE DirExists(j) \/ PersistFailure(j)
  BY <1>3, GoesParts DEF DirExists, PersistFailure
<1>4. CASE WriteReport(j)
  <2>1. PICK at \in DOMAIN Saves : At(j, at) /\ Goes(j, Saves[at])
    BY <1>4 DEF WriteReport
  <2>2. job'[j].at = Saves[at] /\ job[j].at = at /\ at \in {"begin", "stage", "end"}
    BY <2>1, GoesParts DEF At, Saves
  <2> QED
    BY <2>1, <2>2, GoesParts DEF Saves
<1>5. CASE SaveReport(j)
  <2>1. PICK at \in DOMAIN Then :
          At(j, at) /\ IF at = "endSave" THEN IsOver(j, "finished") ELSE Goes(j, Then[at])
    BY <1>5 DEF SaveReport
  <2>2. CASE at = "endSave"
    BY <2>1, <2>2, OverParts
  <2>3. CASE at # "endSave"
    <3>1. Goes(j, Then[at]) /\ job[j].at = at /\ at \in {"beginSave", "stageSave"}
      BY <2>1, <2>3 DEF At, Then
    <3> QED
      BY <3>1, GoesParts DEF Then
  <2> QED
    BY <2>2, <2>3
<1>6. CASE StageFails(j) \/ RefuseDecision(j) \/ AwaitDecision(j) \/ TakeDecision(j)
  <2>1. job[j].at = "work"
    BY <1>6 DEF StageFails, RefuseDecision, AwaitDecision, TakeDecision, At
  <2>2. job'[j].at = "stage"
    BY <1>6, StageParts
  <2>3. CASE AwaitDecision(j)
    BY <2>2, <2>3, StageParts
  <2>4. CASE ~AwaitDecision(j)
    BY <1>6, <2>1, <2>2, <2>4, StageParts
  <2> QED
    BY <2>3, <2>4
<1>7. CASE Settle(j) \/ Deliver(j)
  <2>1. job[j].at \in {"work", "settle"}
    BY <1>7 DEF Settle, Deliver, At
  <2>2. CASE Goes(j, "work")
    BY <2>1, <2>2, GoesParts
  <2>3. ASSUME NEW s \in {"paused", "failed", "completed", "blocked"}, Ends(j, s)
        PROVE  Sound(job'[j])
    BY <2>3, EndsParts
  <2> QED
    BY <1>7, <2>2, <2>3 DEF Settle, Deliver
<1>8. CASE FailureCallback(j)
  BY <1>8, OverParts DEF FailureCallback
<1> QED
  BY <1>1, <1>2, <1>3, <1>4, <1>5, <1>6, <1>7, <1>8 DEF Progress

\* Every step keeps the reports of all jobs sound.
LEMMA ShowsNext == TypeOK /\ QueueInv /\ ShowsInv /\ [Next]_vars => ShowsInv'
<1> SUFFICES ASSUME TypeOK, QueueInv, ShowsInv, [Next]_vars PROVE ShowsInv'
  OBVIOUS
<1>t. job \in [Requests -> Jobs] /\ queue \in Seq(Requests)
  BY DEF TypeOK
<1>s. \A j \in Requests : job[j].status = "started" => Sound(job[j])
  BY SoundJobs
<1> SUFFICES ASSUME NEW k \in Requests, job'[k].status = "started"
             PROVE  Sound(job'[k])
  BY DEF ShowsInv, Sound, Running
<1>1. ASSUME NEW j \in Requests, Progress(j) PROVE Sound(job'[k])
  BY <1>1, <1>s, WorkerStep, ProgressIsSound
<1>2. ASSUME NEW r \in Requests, Arrival(r) \/ Handler(r) PROVE Sound(job'[k])
  BY <1>2, <1>s, HandlerStep
<1>3. CASE Take
  <2>1. Head(queue) \in Requests /\ Head(queue) = queue[1] /\ 1 \in 1..Len(queue)
    BY <1>3, <1>t DEF Take
  <2>2. job[Head(queue)].status = "queued" /\ job[Head(queue)].at = "load"
    BY <2>1 DEF QueueInv
  <2>3. [job[Head(queue)] EXCEPT !.status = "started"].at = "load"
    BY <2>1, <2>2, <1>t DEF Jobs
  <2>4. /\ job'[Head(queue)].at = "load"
        /\ k # Head(queue) => job'[k] = job[k]
    BY <1>3, <2>1, <2>3, <1>t, OneJob DEF Take
  <2>5. CASE k = Head(queue)
    BY <2>4, <2>5 DEF Sound, Written, Unwritten
  <2>6. CASE k # Head(queue)
    BY <2>4, <2>6, <1>s
  <2> QED
    BY <2>5, <2>6
<1>4. CASE ForgetJob \/ UNCHANGED vars
  BY <1>4, <1>s DEF ForgetJob, vars
<1>5. ASSUME NEW r \in Requests, WorkerDies(r) PROVE Sound(job'[k])
  <2>1. [NoJob EXCEPT !.status = "failed", !.at = "dead"].status = "failed"
    BY DEF NoJob
  <2>2. job'[r].status = "failed" /\ (k # r => job'[k] = job[k])
    BY <1>5, <2>1, <1>t, OneJob DEF WorkerDies
  <2> QED
    BY <2>2, <1>s
<1>6. ASSUME NEW r \in Requests, Abandoned(r) PROVE Sound(job'[k])
  <2>1. job[r].status # "started"
    BY <1>6, <1>s DEF Abandoned, Sound, Written, Unwritten
  <2>2. job'[r].status = job[r].status /\ (k # r => job'[k] = job[k])
    BY <1>6, <1>t, GoesParts, OneJob DEF Abandoned, Goes
  <2> QED
    BY <2>1, <2>2, <1>s
<1> QED
  BY <1>1, <1>2, <1>3, <1>4, <1>5, <1>6 DEF Next

-----------------------------------------------------------------------------
(* A run nobody works on is not shown as being worked on.                  *)

\* The job behind a report that says running.
Behind(x) == \/ x.status = "started" /\ x.at \in Written
             \/ x.at \in {"dead", "noticed"}

\* What the API writes over a report is not a status of a worker.
LEMMA HandlerReports ==
  ASSUME NEW r \in Requests, Arrival(r) \/ Handler(r), TypeOK
  PROVE  UNCHANGED report \/ report'.status \in {"cancelled", "archived"}
<1>1. CASE WriteStatus(r)
  <2>1. copy[r] \in Reports
    BY DEF TypeOK
  <2>2. [copy[r] EXCEPT !.status = NewStatus(r)].status \in {"cancelled", "archived"}
    BY <2>1 DEF Reports, NewStatus
  <2> QED
    BY <1>1, <2>2 DEF WriteStatus
<1>2. CASE ~WriteStatus(r)
  BY <1>2 DEF Arrival, Handler, Create, InsertRow, StartRun, QueueUnavailable,
     Resume, Decide, ResumeRun, Cancel, CancelJob, Archive, LoadReport, SaveStatus
<1> QED
  BY <1>1, <1>2

\* report.json changes in one step only.
LEMMA OnlyWriteReport ==
  ASSUME NEW j \in Requests, Progress(j), ~WriteReport(j)
  PROVE  UNCHANGED report
BY DEF Progress, Load, MakeDir, DirExists, SaveReport, StageFails,
   AwaitDecision, TakeDecision, RefuseDecision, Settle, Deliver,
   PersistFailure, FailureCallback

\* A worker between its first report and its last stays there.
LEMMA StaysBehind ==
  ASSUME TypeOK, NEW j \in Requests, Progress(j), ~WriteReport(j), job[j].at \in Written
  PROVE  job'[j].status = "started" /\ job'[j].at \in Written
<1>1. job[j].status = "started"
  BY WorkerStep
<1>2. CASE SaveReport(j)
  <2>1. PICK at \in DOMAIN Then :
          At(j, at) /\ IF at = "endSave" THEN IsOver(j, "finished") ELSE Goes(j, Then[at])
    BY <1>2 DEF SaveReport
  <2>2. at \in {"beginSave", "stageSave"} /\ Goes(j, Then[at])
    BY <2>1 DEF At, Then, Written
  <2> QED
    BY <1>1, <2>2, GoesParts DEF Then, Written
<1>3. CASE StageFails(j) \/ RefuseDecision(j) \/ AwaitDecision(j) \/ TakeDecision(j)
  BY <1>1, <1>3, StageParts DEF Written
<1>4. CASE Settle(j) \/ Deliver(j)
  BY <1>1, <1>4, GoesParts, EndsParts DEF Settle, Deliver, Written
<1>5. CASE Load(j) \/ MakeDir(j) \/ DirExists(j) \/ PersistFailure(j) \/ FailureCallback(j)
  BY <1>5 DEF Load, MakeDir, DirExists, PersistFailure, FailureCallback, At, Written
<1> QED
  BY <1>2, <1>3, <1>4, <1>5 DEF Progress

\* A report says running only with a worker that wrote it, or one that died.
LEMMA RunningNext ==
  TypeOK /\ QueueInv /\ ShowsInv /\ RunningInv /\ [Next]_vars => RunningInv'
<1> SUFFICES ASSUME TypeOK, QueueInv, ShowsInv, RunningInv, [Next]_vars
             PROVE  RunningInv'
  OBVIOUS
<1>t. job \in [Requests -> Jobs] /\ queue \in Seq(Requests)
  BY DEF TypeOK
<1>s. \A j \in Requests : job[j].status = "started" => Sound(job[j])
  BY SoundJobs
<1>r. /\ report.status \notin {"queued", "resuming"}
      /\ report.status = "running" => \E j \in Requests : Behind(job[j])
  BY DEF RunningInv, Behind
<1>b. ASSUME UNCHANGED report, \A j \in Requests : Behind(job[j]) => Behind(job'[j])
      PROVE  RunningInv'
  BY <1>b, <1>r DEF RunningInv, Behind
<1>1. ASSUME NEW j \in Requests, Progress(j) PROVE RunningInv'
  <2>1. CASE WriteReport(j)
    <3>1. PICK at \in DOMAIN Saves :
            At(j, at) /\ Goes(j, Saves[at]) /\ report' = job[j].shows
      BY <2>1 DEF WriteReport
    <3>2. Sound(job[j]) /\ job[j].at = at /\ at \in {"begin", "stage", "end"}
      BY <3>1, <1>s DEF At, Saves
    <3>3. CASE at = "end"
      BY <3>1, <3>2, <3>3 DEF Sound, Written, RunningInv
    <3>4. CASE at # "end"
      <4>1. report'.status = "running"
        BY <3>1, <3>2, <3>4 DEF Sound, Written
      <4>2. job'[j].status = "started" /\ job'[j].at \in Written
        BY <3>1, <3>2, <3>4, GoesParts DEF At, Saves, Written
      <4> QED
        BY <4>1, <4>2 DEF RunningInv
    <3> QED
      BY <3>3, <3>4
  <2>2. CASE ~WriteReport(j)
    <3>1. \A k \in Requests : Behind(job[k]) => Behind(job'[k])
      <4>1. Behind(job[j]) => job[j].at \in Written
        BY <1>1, WorkerStep, <1>s DEF Behind, Sound, Written, Unwritten
      <4> QED
        BY <1>1, <2>2, <4>1, StaysBehind, WorkerStep DEF Behind
    <3> QED
      BY <1>1, <2>2, <3>1, <1>b, OnlyWriteReport
  <2> QED
    BY <2>1, <2>2
<1>2. ASSUME NEW r \in Requests, Arrival(r) \/ Handler(r) PROVE RunningInv'
  <2>1. \A k \in Requests : Behind(job[k]) => Behind(job'[k])
    BY <1>2, HandlerStep DEF Behind, QueueInv
  <2>2. CASE UNCHANGED report
    BY <2>1, <2>2, <1>b
  <2>3. CASE report'.status \in {"cancelled", "archived"}
    BY <2>3 DEF RunningInv
  <2> QED
    BY <1>2, <2>2, <2>3, HandlerReports
<1>3. CASE Take
  <2>1. Head(queue) \in Requests /\ Head(queue) = queue[1] /\ 1 \in 1..Len(queue)
    BY <1>3, <1>t DEF Take
  <2>2. job[Head(queue)].status = "queued" /\ job[Head(queue)].at = "load"
    BY <2>1 DEF QueueInv
  <2>3. \A k \in Requests : k # Head(queue) => job'[k] = job[k]
    BY <1>3, <2>1, <1>t, OneJob DEF Take
  <2> QED
    BY <1>3, <2>2, <2>3, <1>b DEF Take, Behind
<1>4. CASE ForgetJob \/ UNCHANGED vars
  BY <1>4, <1>b DEF ForgetJob, vars
<1>5. ASSUME NEW r \in Requests, WorkerDies(r) \/ Abandoned(r) PROVE RunningInv'
  <2>1. job'[r].at \in {"dead", "noticed"} /\ \A k \in Requests : k # r => job'[k] = job[k]
    <3>1. CASE WorkerDies(r)
      <4>1. [NoJob EXCEPT !.status = "failed", !.at = "dead"].at = "dead"
        BY DEF NoJob
      <4> QED
        BY <3>1, <4>1, <1>t, OneJob DEF WorkerDies
    <3>2. CASE Abandoned(r)
      BY <3>2, <1>t, GoesParts, OneJob DEF Abandoned, Goes
    <3> QED
      BY <1>5, <3>1, <3>2
  <2>2. UNCHANGED report
    BY <1>5 DEF WorkerDies, Abandoned
  <2> QED
    BY <2>1, <2>2, <1>b DEF Behind
<1> QED
  BY <1>1, <1>2, <1>3, <1>4, <1>5 DEF Next

\* A run nobody works on is not shown as worked on.
LEMMA QuietInv ==
  ASSUME RunningInv PROVE QuietIsNotWorking
<1> SUFFICES ASSUME Quiet, report # NoReport,
                    \A j \in Requests : job[j].at \notin {"dead", "noticed"}
             PROVE  Shown \notin Working
  BY DEF QuietIsNotWorking
<1>1. report.status \notin Working
  BY DEF RunningInv, Quiet, Running, Working
<1> QED
  BY <1>1 DEF Shown, Stale, Working

BaseInv == TypeOK /\ QueueInv /\ ShowsInv /\ RunningInv

\* The invariants the others rest on hold of every behaviour.
LEMMA BaseHolds == Spec => []BaseInv
<1>1. Init => QueueInv /\ ShowsInv /\ RunningInv
  BY DEF Init, QueueInv, ShowsInv, RunningInv, NoJob, NoReport, Running
<1> QED
  BY <1>1, TypeInit, TypeNext, QueueNext, ShowsNext, RunningNext, PTL DEF Spec, BaseInv

\* Whatever writes to the database are lost, jobs left over or requests
\* refused, a run nobody works on is not shown as queued, running or resuming.
THEOREM QuietRunsAreNotWorking == Spec => []QuietIsNotWorking
<1>1. BaseInv => QuietIsNotWorking
  BY QuietInv DEF BaseInv
<1> QED
  BY <1>1, BaseHolds, PTL

-----------------------------------------------------------------------------
(* With one worker, a paused run can be answered.                          *)

\* With one worker, no two attempts, and what a paused report waits for is next.
LEMMA AloneNext ==
  ASSUME Workers = 1
  PROVE  BaseInv /\ AloneInv /\ [Next]_vars => AloneInv'
<1> SUFFICES ASSUME BaseInv, AloneInv, [Next]_vars PROVE AloneInv'
  OBVIOUS
<1>t. /\ job \in [Requests -> Jobs] /\ queue \in Seq(Requests)
      /\ TypeOK /\ QueueInv /\ ShowsInv
  BY DEF BaseInv, TypeOK
<1>s. \A j \in Requests : job[j].status = "started" => Sound(job[j])
  BY <1>t, SoundJobs
<1>a. /\ \A i, j \in Requests :
           job[i].status = "started" /\ job[j].status = "started" => i = j
      /\ report.status = "paused" =>
           /\ ckpt # NoCkpt /\ report.gate = ckpt + 1
           /\ \A j \in Requests : job[j].status = "started" => job[j].at \in Unwritten
      /\ \A j \in Requests :
           job[j].status = "started" /\ job[j].at = "end" /\ job[j].shows.status = "paused" =>
             ckpt # NoCkpt /\ job[j].shows.gate = ckpt + 1
  BY DEF AloneInv, Running
\* Steps that start no job and leave the others, the report and the checkpoint.
<1>b. ASSUME UNCHANGED ckpt,
             UNCHANGED report \/ report'.status # "paused",
             \A k \in Requests : job'[k].status = "started" =>
               /\ job[k].status = "started"
               /\ job'[k] = job[k] \/ job'[k].at \in Unwritten
      PROVE  AloneInv'
  BY <1>a, <1>b DEF AloneInv, Running, Unwritten
<1>1. ASSUME NEW j \in Requests, Progress(j) PROVE AloneInv'
  <2>1. /\ job[j].status = "started" /\ Sound(job[j])
        /\ \A k \in Requests : k # j => job'[k] = job[k]
        /\ \A k \in Requests : job'[k].status = "started" => k = j
    BY <1>1, <1>t, <1>s, <1>a, WorkerStep
  <2>2. CASE WriteReport(j)
    <3>1. PICK at \in DOMAIN Saves :
            At(j, at) /\ Goes(j, Saves[at]) /\ report' = job[j].shows
      BY <2>2 DEF WriteReport
    <3>2. job[j].at = at /\ at \in {"begin", "stage", "end"}
      BY <3>1 DEF At, Saves
    <3>3. UNCHANGED ckpt
      BY <2>2 DEF WriteReport
    <3>4. job'[j].at = Saves[at] /\ job'[j].shows = job[j].shows
      BY <3>1, <1>t, GoesParts
    <3>5. CASE at = "end"
      <4>1. job'[j].at = "endSave"
        BY <3>4, <3>5 DEF Saves
      <4> QED
        BY <2>1, <3>1, <3>2, <3>3, <3>5, <4>1, <1>a DEF AloneInv, Running, Unwritten
    <3>6. CASE at # "end"
      <4>1. report'.status = "running" /\ job'[j].at \in {"beginSave", "stageSave"}
        BY <2>1, <3>1, <3>2, <3>4, <3>6 DEF Sound, Written, Saves
      <4> QED
        BY <2>1, <4>1 DEF AloneInv, Running
    <3> QED
      BY <3>5, <3>6
  <2>3. CASE Settle(j) \/ Deliver(j)
    <3>1. job[j].at \in {"settle", "work"} /\ report.status # "paused" /\ UNCHANGED report
      BY <2>1, <2>3, <1>a DEF Settle, Deliver, At, Unwritten
    <3>2. CASE job'[j].at = "end" /\ job'[j].shows.status = "paused"
      <4>1. Settle(j) /\ job[j].at = "settle" /\ job[j].result = "wait"
            /\ ckpt' = job[j].gates /\ Ends(j, "paused")
        BY <2>3, <3>2, <1>t, EndsParts, GoesParts DEF Settle, Deliver, At
      <4>2. job[j].shows.gate = job[j].gates + 1 /\ job'[j].shows.gate = job[j].shows.gate
        BY <4>1, <2>1, <1>t, EndsParts DEF Sound
      <4>3. job[j].gates \in 0..Gates
        BY <1>t DEF Jobs
      <4>4. ckpt' # NoCkpt /\ job'[j].shows.gate = ckpt' + 1
        BY <4>1, <4>2, <4>3, LifecycleAssumption DEF NoCkpt
      <4> QED
        BY <2>1, <3>1, <4>4 DEF AloneInv, Running
    <3>3. CASE ~(job'[j].at = "end" /\ job'[j].shows.status = "paused")
      BY <2>1, <3>1, <3>3 DEF AloneInv, Running
    <3> QED
      BY <3>2, <3>3
  <2>4. CASE ~WriteReport(j) /\ ~Settle(j) /\ ~Deliver(j)
    <3>1. UNCHANGED <<report, ckpt>>
      BY <1>1, <2>4 DEF Progress, Load, MakeDir, DirExists, SaveReport, StageFails,
         AwaitDecision, TakeDecision, RefuseDecision, PersistFailure, FailureCallback
    <3>2. job'[j].at # "end"
      <4>1. CASE Load(j) \/ MakeDir(j)
        <5>1. CASE Load(j) /\ Goes(j, "mkdir")
          BY <5>1, <1>t, GoesParts
        <5>2. CASE MakeDir(j) \/ (Load(j) /\ ~Goes(j, "mkdir"))
          BY <5>2, <1>t, BeginParts
        <5> QED
          BY <4>1, <5>1, <5>2
      <4>2. CASE DirExists(j) \/ PersistFailure(j) \/ FailureCallback(j)
        BY <4>2, <1>t, GoesParts, OverParts DEF DirExists, PersistFailure, FailureCallback
      <4>3. CASE SaveReport(j)
        <5>1. PICK at \in DOMAIN Then :
                IF at = "endSave" THEN IsOver(j, "finished") ELSE Goes(j, Then[at])
          BY <4>3 DEF SaveReport
        <5> QED
          BY <5>1, <1>t, GoesParts, OverParts DEF Then
      <4>4. CASE StageFails(j) \/ RefuseDecision(j) \/ AwaitDecision(j) \/ TakeDecision(j)
        BY <4>4, <1>t, StageParts
      <4> QED
        BY <1>1, <2>4, <4>1, <4>2, <4>3, <4>4 DEF Progress
    <3>3. job[j].at \in Unwritten /\ job'[j].status = "started" => job'[j].at \in Unwritten
      <4>1. CASE Load(j) \/ MakeDir(j)
        BY <4>1, <1>t, GoesParts, BeginParts DEF Load, Unwritten
      <4>2. CASE DirExists(j) \/ PersistFailure(j) \/ FailureCallback(j)
        BY <4>2, <1>t, GoesParts, OverParts DEF DirExists, PersistFailure, FailureCallback, Unwritten
      <4>3. CASE SaveReport(j)
        <5>1. PICK at \in DOMAIN Then :
                At(j, at) /\ IF at = "endSave" THEN IsOver(j, "finished") ELSE Goes(j, Then[at])
          BY <4>3 DEF SaveReport
        <5> QED
          BY <5>1, <1>t, OverParts DEF Then, At, Unwritten
      <4>4. CASE StageFails(j) \/ RefuseDecision(j) \/ AwaitDecision(j) \/ TakeDecision(j)
        BY <4>4 DEF StageFails, RefuseDecision, AwaitDecision, TakeDecision, At, Unwritten
      <4> QED
        BY <1>1, <2>4, <4>1, <4>2, <4>3, <4>4 DEF Progress
    <3> QED
      BY <2>1, <3>1, <3>2, <3>3, <1>a DEF AloneInv, Running
  <2> QED
    BY <2>2, <2>3, <2>4
<1>2. ASSUME NEW r \in Requests, Arrival(r) \/ Handler(r) PROVE AloneInv'
  <2>1. UNCHANGED ckpt
    BY <1>2 DEF Arrival, Handler, Create, InsertRow, StartRun, QueueUnavailable,
       Resume, Decide, ResumeRun, Cancel, CancelJob, Archive, LoadReport,
       WriteStatus, SaveStatus
  <2>2. UNCHANGED report \/ report'.status # "paused"
    BY <1>2, <1>t, HandlerReports
  <2>3. \A k \in Requests : job'[k].status = "started" =>
          job[k].status = "started" /\ job'[k] = job[k]
    BY <1>2, <1>t, HandlerStep
  <2> QED
    BY <2>1, <2>2, <2>3, <1>b
<1>3. CASE Take
  <2>1. Running = {}
    <3>1. ASSUME NEW k \in Running PROVE FALSE
      <4>1. Running = {k}
        BY <3>1, <1>a DEF Running
      <4>2. Cardinality(Running) = 1
        BY <4>1, FS_Singleton
      <4> QED
        BY <1>3, <4>2 DEF Take
    <3> QED
      BY <3>1
  <2>2. Head(queue) \in Requests /\ Head(queue) = queue[1] /\ 1 \in 1..Len(queue)
    BY <1>3, <1>t DEF Take
  <2>3. job[Head(queue)].at = "load"
    BY <2>2, <1>t DEF QueueInv
  <2>4. [job[Head(queue)] EXCEPT !.status = "started"].at = "load"
    BY <2>2, <2>3, <1>t DEF Jobs
  <2>5. /\ job'[Head(queue)].at = "load"
        /\ \A k \in Requests : k # Head(queue) => job'[k] = job[k]
    BY <1>3, <2>2, <2>4, <1>t, OneJob DEF Take
  <2>6. \A k \in Requests : job'[k].status = "started" => k = Head(queue)
    BY <2>1, <2>5 DEF Running
  <2>7. UNCHANGED <<report, ckpt>>
    BY <1>3 DEF Take
  <2> QED
    BY <2>5, <2>6, <2>7, <1>a DEF AloneInv, Running, Unwritten
<1>4. CASE ForgetJob \/ UNCHANGED vars
  BY <1>4, <1>b DEF ForgetJob, vars
<1>5. ASSUME NEW r \in Requests, WorkerDies(r) \/ Abandoned(r) PROVE AloneInv'
  <2>1. job'[r].status # "started" /\ \A k \in Requests : k # r => job'[k] = job[k]
    <3>1. CASE WorkerDies(r)
      <4>1. [NoJob EXCEPT !.status = "failed", !.at = "dead"].status = "failed"
        BY DEF NoJob
      <4> QED
        BY <3>1, <4>1, <1>t, OneJob DEF WorkerDies
    <3>2. CASE Abandoned(r)
      <4>1. job[r].status # "started"
        BY <3>2, <1>s DEF Abandoned, Sound, Written, Unwritten
      <4> QED
        BY <3>2, <4>1, <1>t, GoesParts, OneJob DEF Abandoned, Goes
    <3> QED
      BY <1>5, <3>1, <3>2
  <2>2. UNCHANGED <<report, ckpt>>
    BY <1>5 DEF WorkerDies, Abandoned
  <2> QED
    BY <2>1, <2>2, <1>b
<1> QED
  BY <1>1, <1>2, <1>3, <1>4, <1>5 DEF Next

\* With one worker, the gate a paused report shows waiting is the one the next
\* worker will meet, so that an answer to it is never refused.
THEOREM PausedRunsAreAnswerable ==
  ASSUME Workers = 1
  PROVE  Spec => []PausedIsAnswerable
<1>1. Init => AloneInv
  BY DEF Init, AloneInv, NoJob, NoReport, Running
<1>2. BaseInv /\ AloneInv /\ [Next]_vars => AloneInv'
  BY AloneNext
<1>3. AloneInv => PausedIsAnswerable
  BY DEF AloneInv, PausedIsAnswerable
<1> QED
  BY <1>1, <1>2, <1>3, BaseHolds, PTL DEF Spec

-----------------------------------------------------------------------------
(* No gate is passed without an approval of that gate.                     *)

\* What a job carries is covered by the approvals in set.
Covered(x, set) ==
  /\ 1..x.gates \subseteq set
  /\ x.decision.answer = "approved" => x.decision.gate \in set
  /\ x.shows.status = "completed" => 1..Gates \subseteq set

Earned(rep, set) == rep.status = "completed" => 1..Gates \subseteq set

\* ApprovalInv, read job by job.
LEMMA ApprovalParts ==
  ApprovalInv <=> /\ \A j \in Requests : Covered(job[j], approved)
                  /\ \A j \in Requests : Earned(copy[j], approved)
                  /\ 1..ckpt \subseteq approved
                  /\ Earned(report, approved)
  BY DEF ApprovalInv, ApprovedByAnswer, Covered, Earned

\* A worker passes a gate only on an approval of that gate.
LEMMA ProgressIsCovered ==
  ASSUME TypeOK, NEW j \in Requests, Progress(j),
         Covered(job[j], approved), 1..ckpt \subseteq approved
  PROVE  Covered(job'[j], approved) /\ 1..ckpt' \subseteq approved
<1>t. /\ job[j].gates \in 0..Gates /\ ckpt \in {NoCkpt} \cup 0..Gates
  BY DEF TypeOK, Jobs
<1>g. /\ \A at : Goes(j, at) => Covered(job'[j], approved)
      /\ \A s : IsOver(j, s) => Covered(job'[j], approved)
      /\ \A s \in {"failed", "paused", "blocked"} :
           Ends(j, s) => Covered(job'[j], approved)
  <2>1. ASSUME NEW at, Goes(j, at) PROVE Covered(job'[j], approved)
    BY <2>1, GoesParts DEF Covered
  <2>2. ASSUME NEW s, IsOver(j, s) PROVE Covered(job'[j], approved)
    BY <2>2, OverParts DEF Covered, NoDecision, NoReport
  <2>3. ASSUME NEW s \in {"failed", "paused", "blocked"}, Ends(j, s)
        PROVE  Covered(job'[j], approved)
    BY <2>3, EndsParts DEF Covered
  <2> QED
    BY <2>1, <2>2, <2>3
<1>1. CASE \/ DirExists(j) \/ PersistFailure(j) \/ FailureCallback(j)
           \/ WriteReport(j) \/ SaveReport(j)
  <2>1. UNCHANGED ckpt
    BY <1>1 DEF DirExists, PersistFailure, FailureCallback, WriteReport, SaveReport
  <2> QED
    BY <1>1, <2>1, <1>g DEF DirExists, PersistFailure, FailureCallback, WriteReport, SaveReport
<1>2. CASE Load(j) \/ MakeDir(j)
  <2>1. UNCHANGED ckpt
    BY <1>2 DEF Load, MakeDir
  <2>2. CASE Load(j) /\ Goes(j, "mkdir")
    BY <2>1, <2>2, <1>g
  <2>3. CASE MakeDir(j) \/ (Load(j) /\ ~Goes(j, "mkdir"))
    <3>1. /\ job'[j].gates = job[j].gates \/ job'[j].gates = ckpt
          /\ job'[j].decision = job[j].decision /\ job'[j].shows.status = "running"
      BY <2>3, BeginParts
    <3> QED
      BY <2>1, <3>1 DEF Covered
  <2> QED
    BY <1>2, <2>2, <2>3
<1>3. CASE StageFails(j) \/ RefuseDecision(j) \/ AwaitDecision(j)
  <2>1. UNCHANGED ckpt
    BY <1>3 DEF StageFails, RefuseDecision, AwaitDecision
  <2>2. /\ job'[j].gates = job[j].gates /\ job'[j].decision = job[j].decision
        /\ job'[j].shows = job[j].shows \/ job'[j].shows.status = "running"
    BY <1>3, StageParts
  <2> QED
    BY <2>1, <2>2 DEF Covered
<1>4. CASE TakeDecision(j)
  <2>1. UNCHANGED ckpt
    BY <1>4 DEF TakeDecision
  <2>2. ~AwaitDecision(j)
    BY <1>4 DEF TakeDecision, AwaitDecision, ForThisGate
  <2>3. /\ job'[j].decision = NoDecision /\ job'[j].shows = job[j].shows
        /\ job'[j].gates = IF job[j].decision.answer = "approved"
                           THEN GateOf(j) ELSE ReworkOf[GateOf(j)]
    BY <1>4, <2>2, StageParts
  <2>4. job[j].gates < Gates /\ job[j].decision.gate = GateOf(j)
    BY <1>4 DEF TakeDecision, ForThisGate
  <2>5. CASE job[j].decision.answer = "approved"
    <3>1. 1..GateOf(j) = 1..job[j].gates \cup {GateOf(j)}
      BY <1>t, LifecycleAssumption DEF GateOf
    <3> QED
      BY <2>1, <2>3, <2>4, <2>5, <3>1 DEF Covered, NoDecision
  <2>6. CASE job[j].decision.answer # "approved"
    <3>1. GateOf(j) \in 1..Gates
      BY <1>t, <2>4, LifecycleAssumption DEF GateOf
    <3>2. ReworkOf[GateOf(j)] \in Nat /\ ReworkOf[GateOf(j)] < GateOf(j)
      BY <3>1, LifecycleAssumption
    <3>3. 1..ReworkOf[GateOf(j)] \subseteq 1..job[j].gates
      BY <1>t, <3>2, LifecycleAssumption DEF GateOf
    <3> QED
      BY <2>1, <2>3, <2>6, <3>3 DEF Covered, NoDecision
  <2> QED
    BY <2>5, <2>6
<1>5. CASE Settle(j)
  <2>1. 1..ckpt' \subseteq approved
    BY <1>5 DEF Settle, Covered
  <2> QED
    BY <1>5, <2>1, <1>g DEF Settle
<1>6. CASE Deliver(j)
  <2>1. 1..ckpt' \subseteq approved
    BY <1>6 DEF Deliver, NoCkpt
  <2>2. CASE Ends(j, "completed")
    <3>1. 1..Gates \subseteq approved
      BY <1>6 DEF Deliver, Covered
    <3> QED
      BY <2>1, <2>2, <3>1, EndsParts DEF Covered
  <2> QED
    BY <1>6, <2>1, <2>2, <1>g DEF Deliver
<1> QED
  BY <1>1, <1>2, <1>3, <1>4, <1>5, <1>6 DEF Progress

\* The API admits an approval before it hands it to a job.
LEMMA HandlerIsCovered ==
  ASSUME TypeOK, NEW r \in Requests, Arrival(r) \/ Handler(r),
         \A j \in Requests : Covered(job[j], approved)
  PROVE  /\ approved \subseteq approved'
         /\ \A j \in Requests : Covered(job'[j], approved')
<1>t. job \in [Requests -> Jobs] /\ job[r] \in Jobs
  BY DEF TypeOK
<1>1. CASE Decide(r)
  <2>1. CASE Answerable
    <3>1. PICK answer \in {"approved", "rejected"} :
            /\ Becomes(r, [job[r] EXCEPT !.decision =
                             [gate |-> report.gate, answer |-> answer]])
            /\ approved' = IF answer = "approved"
                           THEN approved \cup {report.gate} ELSE approved
      BY <1>1, <2>1 DEF Decide
    <3>2. \A j \in Requests : j # r => job'[j] = job[j]
      BY <3>1, <1>t, OneJob
    <3>3. job'[r] = [job[r] EXCEPT !.decision = [gate |-> report.gate, answer |-> answer]]
      BY <3>1, <1>t, OneJob
    <3>4. /\ job'[r].gates = job[r].gates /\ job'[r].shows = job[r].shows
          /\ job'[r].decision = [gate |-> report.gate, answer |-> answer]
      BY <3>3, <1>t DEF Jobs
    <3>5. approved \subseteq approved' /\ (answer = "approved" => report.gate \in approved')
      BY <3>1
    <3>6. Covered(job'[r], approved')
      BY <3>4, <3>5 DEF Covered
    <3> QED
      BY <3>2, <3>5, <3>6 DEF Covered
  <2>2. CASE ~Answerable
    BY <1>1, <2>2 DEF Decide
  <2> QED
    BY <2>1, <2>2
<1>2. CASE ~Decide(r)
  <2>1. UNCHANGED approved
    BY <1>2 DEF Arrival, Handler, Create, InsertRow, StartRun, QueueUnavailable,
       Resume, ResumeRun, Cancel, CancelJob, Archive, LoadReport,
       WriteStatus, SaveStatus, history
  <2>2. ASSUME NEW d, d = NoDecision \/ d = job[r].decision,
               Becomes(r, [job[r] EXCEPT !.status = "queued", !.decision = d])
        PROVE  \A j \in Requests : Covered(job'[j], approved)
    <3>1. job'[r] = [job[r] EXCEPT !.status = "queued", !.decision = d]
      BY <2>2, <1>t, OneJob
    <3>2. job'[r].gates = job[r].gates /\ job'[r].shows = job[r].shows /\ job'[r].decision = d
      BY <3>1, <1>t DEF Jobs
    <3>3. Covered(job'[r], approved)
      BY <3>2, <2>2 DEF Covered, NoDecision
    <3>4. \A j \in Requests : j # r => job'[j] = job[j]
      BY <2>2, <1>t, OneJob
    <3> QED
      BY <3>3, <3>4
  <2>3. CASE StartRun(r) \/ ResumeRun(r)
    BY <2>1, <2>2, <2>3 DEF StartRun, ResumeRun, Enqueue
  <2>4. CASE UNCHANGED job
    BY <2>1, <2>4
  <2>5. CASE CancelJob(r) /\ ~UNCHANGED job
    <3>1. /\ runJob # Nobody
          /\ Becomes(runJob, [NoJob EXCEPT !.status = "canceled"])
      BY <2>5 DEF CancelJob
    <3>2. runJob \in Requests
      BY <3>1 DEF TypeOK
    <3>3. Covered([NoJob EXCEPT !.status = "canceled"], approved)
      BY DEF Covered, NoJob, NoDecision, NoReport
    <3> QED
      BY <2>1, <3>1, <3>2, <3>3, <1>t, OneJob
  <2> QED
    BY <1>2, <2>3, <2>4, <2>5 DEF Arrival, Handler, Create, InsertRow, QueueUnavailable,
       Resume, Cancel, Archive, LoadReport, WriteStatus, SaveStatus
<1> QED
  BY <1>1, <1>2

\* No step counts a gate as approved that was not.
LEMMA ApprovalNext == TypeOK /\ QueueInv /\ ApprovalInv /\ [Next]_vars => ApprovalInv'
<1> SUFFICES ASSUME TypeOK, QueueInv, ApprovalInv, [Next]_vars PROVE ApprovalInv'
  OBVIOUS
<1>t. job \in [Requests -> Jobs] /\ queue \in Seq(Requests)
  BY DEF TypeOK
<1>c. /\ \A j \in Requests : Covered(job[j], approved)
      /\ \A j \in Requests : Earned(copy[j], approved)
      /\ 1..ckpt \subseteq approved
      /\ Earned(report, approved)
  BY ApprovalParts
<1>p. ASSUME \A j \in Requests : Covered(job'[j], approved'),
             \A j \in Requests : Earned(copy'[j], approved'),
             1..ckpt' \subseteq approved',
             Earned(report', approved')
      PROVE  ApprovalInv'
  BY <1>p DEF ApprovalInv, ApprovedByAnswer, Covered, Earned
<1>1. ASSUME NEW j \in Requests, Progress(j) PROVE ApprovalInv'
  <2>1. UNCHANGED approved
    BY <1>1 DEF Progress, Load, MakeDir, DirExists, WriteReport, SaveReport, StageFails,
       AwaitDecision, TakeDecision, RefuseDecision, Settle, Deliver,
       PersistFailure, FailureCallback, history
  <2>2. Covered(job'[j], approved) /\ 1..ckpt' \subseteq approved
    BY <1>1, <1>c, ProgressIsCovered
  <2>3. UNCHANGED copy /\ \A k \in Requests : k # j => job'[k] = job[k]
    BY <1>1, WorkerStep
  <2>4. Earned(report', approved)
    <3>1. CASE WriteReport(j)
      BY <3>1, <1>c DEF WriteReport, Covered, Earned
    <3>2. CASE ~WriteReport(j)
      BY <1>1, <3>2, <1>c, OnlyWriteReport
    <3> QED
      BY <3>1, <3>2
  <2> QED
    BY <2>1, <2>2, <2>3, <2>4, <1>c, <1>p
<1>2. ASSUME NEW r \in Requests, Arrival(r) \/ Handler(r) PROVE ApprovalInv'
  <2>1. /\ approved \subseteq approved'
        /\ \A j \in Requests : Covered(job'[j], approved')
    BY <1>2, <1>c, HandlerIsCovered
  <2>2. UNCHANGED ckpt
    BY <1>2 DEF Arrival, Handler, Create, InsertRow, StartRun, QueueUnavailable,
       Resume, Decide, ResumeRun, Cancel, CancelJob, Archive, LoadReport,
       WriteStatus, SaveStatus
  <2>3. Earned(report', approved')
    BY <1>2, <1>c, <2>1, HandlerReports DEF Earned
  <2>4. \A j \in Requests : Earned(copy'[j], approved')
    <3>1. \A j \in Requests : copy'[j] = copy[j] \/ copy'[j] = report \/ copy'[j] = NoReport
      <4>1. copy \in [Requests -> Reports]
        BY DEF TypeOK
      <4>2. CASE LoadReport(r)
        BY <4>1, <4>2 DEF LoadReport
      <4>3. CASE SaveStatus(r)
        BY <4>1, <4>3 DEF SaveStatus
      <4>4. CASE ~LoadReport(r) /\ ~SaveStatus(r)
        BY <1>2, <4>4 DEF Arrival, Handler, Create, InsertRow, StartRun, QueueUnavailable,
           Resume, Decide, ResumeRun, Cancel, CancelJob, Archive, WriteStatus
      <4> QED
        BY <4>2, <4>3, <4>4
    <3> QED
      BY <3>1, <2>1, <1>c DEF Earned, NoReport
  <2> QED
    BY <2>1, <2>2, <2>3, <2>4, <1>c, <1>p
<1>3. CASE Take
  <2>1. Head(queue) \in Requests
    BY <1>3, <1>t, QueueType DEF Take
  <2> DEFINE h == Head(queue)
  <2>2. /\ job'[h] = [job[h] EXCEPT !.status = "started"]
        /\ \A k \in Requests : k # h => job'[k] = job[k]
    BY <1>3, <2>1, <1>t, OneJob DEF Take
  <2> HIDE DEF h
  <2>3. /\ job'[h].gates = job[h].gates /\ job'[h].decision = job[h].decision
        /\ job'[h].shows = job[h].shows /\ h \in Requests
    BY <2>1, <2>2, <1>t DEF Jobs, h
  <2>4. Covered(job'[h], approved)
    BY <2>3, <1>c DEF Covered
  <2>5. UNCHANGED <<approved, copy, ckpt, report>>
    BY <1>3 DEF Take, api, history
  <2> QED
    BY <2>2, <2>4, <2>5, <1>c, <1>p
<1>4. CASE ForgetJob \/ UNCHANGED vars
  BY <1>4, <1>c, <1>p DEF ForgetJob, vars, api, history
<1>5. ASSUME NEW r \in Requests, WorkerDies(r) \/ Abandoned(r) PROVE ApprovalInv'
  <2>1. Covered(job'[r], approved) /\ \A k \in Requests : k # r => job'[k] = job[k]
    <3>1. CASE WorkerDies(r)
      <4>1. Covered([NoJob EXCEPT !.status = "failed", !.at = "dead"], approved)
        BY DEF NoJob, Covered, NoDecision, NoReport
      <4> QED
        BY <3>1, <4>1, <1>t, OneJob DEF WorkerDies
    <3>2. CASE Abandoned(r)
      <4>1. Covered(job'[r], approved)
        BY <3>2, <1>c, GoesParts DEF Abandoned, Covered
      <4> QED
        BY <3>2, <4>1, <1>t, OneJob DEF Abandoned, Goes
    <3> QED
      BY <1>5, <3>1, <3>2
  <2>2. UNCHANGED <<approved, copy, ckpt, report>>
    BY <1>5 DEF WorkerDies, Abandoned, api, history
  <2> QED
    BY <2>1, <2>2, <1>c, <1>p
<1> QED
  BY <1>1, <1>2, <1>3, <1>4, <1>5 DEF Next

\* However many answers, resumes and workers a run has at once, no gate is
\* passed, in memory, in the checkpoint or in a completed report, that no
\* client has approved while the route saw it waiting.
THEOREM GatesAreApproved == Spec => []ApprovedByAnswer
<1>1. Init => ApprovalInv
  BY DEF Init, ApprovalInv, ApprovedByAnswer, NoJob, NoReport, NoDecision, NoCkpt
<1>2. ApprovalInv => ApprovedByAnswer
  BY DEF ApprovalInv
<1>3. BaseInv => TypeOK /\ QueueInv
  BY DEF BaseInv
<1> QED
  BY <1>1, <1>2, <1>3, ApprovalNext, BaseHolds, PTL DEF Spec

-----------------------------------------------------------------------------
(* Jobs and requests end: nobody waits for nothing, and nobody goes on for *)
(* ever.                                                                   *)

\* A handler that does not let others in until it answers.
Held == {"checked", "cancelling", "updating", "loaded", "written"}

\* A job that waits is in the queue, where workers find it, and the key of the
\* run names a job that is or was there.
KeptInv ==
  /\ \A j \in Requests :
       job[j].status = "queued" => \E i \in 1..Len(queue) : queue[i] = j
  /\ runJob # Nobody => job[runJob].status # "none"

\* The event loop is kept by the one handler that does not give way.
LoopInv ==
  /\ loop # Nobody => asked[loop] \in Held
  /\ \A r \in Requests : asked[r] \in Held => loop = r

NobodyWaitsInVain == KeptInv /\ LoopInv

\* A job that was put in the queue stays there until it is taken or cancelled.
LEMMA KeptNext == TypeOK /\ QueueInv /\ KeptInv /\ [Next]_vars => KeptInv'
<1> SUFFICES ASSUME TypeOK, QueueInv, KeptInv, [Next]_vars PROVE KeptInv'
  OBVIOUS
<1>t. /\ job \in [Requests -> Jobs] /\ queue \in Seq(Requests)
      /\ runJob \in Requests \cup {Nobody} /\ Nobody \notin Requests
  BY LifecycleAssumption DEF TypeOK
<1>s. /\ \A i \in 1..Len(queue) : queue[i] \in Requests
      /\ Len(queue) \in Nat
  BY <1>t
<1>q. /\ \A j \in Requests :
           job[j].status = "queued" => \E i \in 1..Len(queue) : queue[i] = j
      /\ runJob # Nobody => job[runJob].status # "none"
  BY DEF KeptInv
\* One job changes, and neither waits before or after.
<1>o. ASSUME NEW j \in Requests, UNCHANGED <<queue, runJob>>,
             job'[j].status = job[j].status \/ job'[j].status \notin {"none", "queued"},
             \A k \in Requests : k # j => job'[k] = job[k]
      PROVE  KeptInv'
  <2>1. \A k \in Requests : job'[k].status = "queued" => job[k].status = "queued"
    BY <1>o
  <2>2. \A k \in Requests : job'[k].status = "none" => job[k].status = "none"
    BY <1>o
  <2> QED
    BY <2>1, <2>2, <1>o, <1>q, <1>t DEF KeptInv
<1>1. ASSUME NEW j \in Requests, Progress(j) PROVE KeptInv'
  BY <1>1, <1>o, WorkerStep
<1>2. CASE Take
  <2>1. Head(queue) \in Requests /\ Head(queue) = queue[1] /\ 1 \in 1..Len(queue)
    BY <1>2, <1>t DEF Take
  <2>2. /\ Len(queue') = Len(queue) - 1
        /\ \A i \in 1..Len(queue') : queue'[i] = queue[i + 1]
    BY <1>2, <1>t DEF Take
  <2>3. [job[Head(queue)] EXCEPT !.status = "started"].status = "started"
    BY <2>1, <1>t DEF Jobs
  <2>4. /\ job'[Head(queue)].status = "started"
        /\ \A k \in Requests : k # Head(queue) => job'[k] = job[k]
    BY <1>2, <2>1, <2>3, <1>t, OneJob DEF Take
  <2>5. UNCHANGED runJob
    BY <1>2 DEF Take
  <2>6. ASSUME NEW j \in Requests, job'[j].status = "queued"
        PROVE  \E i \in 1..Len(queue') : queue'[i] = j
    <3>1. j # Head(queue) /\ job[j].status = "queued"
      BY <2>4, <2>6
    <3>2. PICK i \in 1..Len(queue) : queue[i] = j
      BY <3>1, <1>q
    <3>3. i # 1 /\ i - 1 \in 1..Len(queue') /\ i - 1 + 1 = i
      BY <3>1, <3>2, <2>1, <2>2, <1>s
    <3> QED
      BY <3>2, <3>3, <2>2
  <2>7. runJob' # Nobody => job'[runJob'].status # "none"
    BY <2>4, <2>5, <1>q, <1>t
  <2> QED
    BY <2>6, <2>7 DEF KeptInv
<1>3. CASE ForgetJob \/ UNCHANGED vars
  BY <1>3, <1>q DEF ForgetJob, vars, KeptInv
<1>4. ASSUME NEW r \in Requests, WorkerDies(r) PROVE KeptInv'
  <2>1. [NoJob EXCEPT !.status = "failed", !.at = "dead"].status = "failed"
    BY DEF NoJob
  <2>2. job'[r].status = "failed" /\ \A k \in Requests : k # r => job'[k] = job[k]
    BY <1>4, <2>1, <1>t, OneJob DEF WorkerDies
  <2>3. UNCHANGED <<queue, runJob>>
    BY <1>4 DEF WorkerDies
  <2> QED
    BY <2>2, <2>3, <1>o
<1>5. ASSUME NEW r \in Requests, Abandoned(r) PROVE KeptInv'
  <2>1. Goes(r, "noticed") /\ UNCHANGED <<queue, runJob>>
    BY <1>5 DEF Abandoned
  <2>2. job'[r].status = job[r].status
    BY <2>1, GoesParts
  <2>3. \A k \in Requests : k # r => job'[k] = job[k]
    BY <2>1, <1>t, OneJob DEF Goes
  <2> QED
    BY <2>1, <2>2, <2>3, <1>o
<1>6. ASSUME NEW r \in Requests, NEW d, Enqueue(r, d) PROVE KeptInv'
  <2>1. [job[r] EXCEPT !.status = "queued", !.decision = d].status = "queued"
    BY <1>t DEF Jobs
  <2>2. /\ job'[r].status = "queued"
        /\ \A k \in Requests : k # r => job'[k] = job[k]
    BY <1>6, <2>1, <1>t, OneJob DEF Enqueue
  <2>3. /\ Len(queue') = Len(queue) + 1
        /\ queue'[Len(queue) + 1] = r
        /\ \A i \in 1..Len(queue) : queue'[i] = queue[i]
    BY <1>6, <1>t DEF Enqueue
  <2>4. ASSUME NEW j \in Requests, job'[j].status = "queued"
        PROVE  \E i \in 1..Len(queue') : queue'[i] = j
    <3>1. CASE j = r
      BY <3>1, <2>3, <1>s
    <3>2. CASE j # r
      <4>1. PICK i \in 1..Len(queue) : queue[i] = j
        BY <3>2, <2>2, <2>4, <1>q
      <4> QED
        BY <4>1, <2>3, <1>s
    <3> QED
      BY <3>1, <3>2
  <2>5. runJob' \in {r, runJob}
    BY <1>6 DEF Enqueue
  <2> QED
    BY <2>2, <2>4, <2>5, <1>q, <1>t DEF KeptInv
<1>7. ASSUME NEW r \in Requests, Decide(r) PROVE KeptInv'
  <2>1. UNCHANGED <<queue, runJob>>
    BY <1>7 DEF Decide
  <2>2. CASE UNCHANGED job
    BY <2>1, <2>2, <1>q DEF KeptInv
  <2>3. CASE ~UNCHANGED job
    <3>1. PICK answer \in {"approved", "rejected"} :
            Becomes(r, [job[r] EXCEPT !.decision = [gate |-> report.gate, answer |-> answer]])
      BY <1>7, <2>3 DEF Decide
    <3>2. [job[r] EXCEPT !.decision = [gate |-> report.gate, answer |-> answer]].status
            = job[r].status
      BY <1>t DEF Jobs
    <3>3. job'[r].status = job[r].status /\ \A k \in Requests : k # r => job'[k] = job[k]
      BY <3>1, <3>2, <1>t, OneJob
    <3> QED
      BY <2>1, <3>3, <1>o
  <2> QED
    BY <2>2, <2>3
<1>8. ASSUME NEW r \in Requests, CancelJob(r), ~UNCHANGED <<queue, job>> PROVE KeptInv'
  <2>1. /\ runJob # Nobody /\ UNCHANGED runJob
        /\ Becomes(runJob, [NoJob EXCEPT !.status = "canceled"])
    BY <1>8 DEF CancelJob
  <2>2. PICK i \in 1..Len(queue) : queue[i] = runJob /\ queue' = RemoveAt(queue, i)
    BY <1>8 DEF CancelJob
  <2>3. runJob \in Requests
    BY <2>1, <1>t
  <2>4. [NoJob EXCEPT !.status = "canceled"].status = "canceled"
    BY DEF NoJob
  <2>5. /\ job'[runJob].status = "canceled"
        /\ \A k \in Requests : k # runJob => job'[k] = job[k]
    BY <2>1, <2>3, <2>4, <1>t, OneJob
  <2>6. /\ Len(queue') = Len(queue) - 1
        /\ \A k \in 1..Len(queue') : queue'[k] = queue[IF k < i THEN k ELSE k + 1]
    BY <2>2, <1>t, Removed
  <2>7. ASSUME NEW j \in Requests, job'[j].status = "queued"
        PROVE  \E k \in 1..Len(queue') : queue'[k] = j
    <3>1. j # runJob /\ job[j].status = "queued"
      BY <2>5, <2>7
    <3>2. PICK k \in 1..Len(queue) : queue[k] = j
      BY <3>1, <1>q
    <3>3. k # i
      BY <2>2, <3>1, <3>2
    <3>4. CASE k < i
      <4>1. k \in 1..Len(queue')
        BY <2>6, <3>4, <1>s
      <4> QED
        BY <4>1, <2>6, <3>2, <3>4
    <3>5. CASE k > i
      <4>1. k - 1 \in 1..Len(queue') /\ ~(k - 1 < i) /\ k - 1 + 1 = k
        BY <2>6, <3>5, <1>s
      <4> QED
        BY <4>1, <2>6, <3>2
    <3> QED
      BY <3>3, <3>4, <3>5, <1>s
  <2> QED
    BY <2>1, <2>5, <2>7, <1>t DEF KeptInv
<1>9. ASSUME NEW r \in Requests, Arrival(r) \/ Handler(r) PROVE KeptInv'
  <2>1. CASE StartRun(r) \/ ResumeRun(r)
    BY <2>1, <1>6 DEF StartRun, ResumeRun
  <2>2. CASE UNCHANGED <<queue, job, runJob>>
    BY <2>2, <1>q DEF KeptInv
  <2>3. CASE CancelJob(r)
    BY <2>3, <2>2, <1>8 DEF CancelJob
  <2> QED
    BY <1>7, <1>9, <2>1, <2>2, <2>3 DEF Arrival, Handler, Create, InsertRow, QueueUnavailable,
       Resume, Cancel, Archive, LoadReport, WriteStatus, SaveStatus
<1> QED
  BY <1>1, <1>2, <1>3, <1>4, <1>5, <1>9 DEF Next

\* A handler that keeps the event loop gives it back or goes on.
LEMMA LoopNext == TypeOK /\ LoopInv /\ [Next]_vars => LoopInv'
<1> SUFFICES ASSUME TypeOK, LoopInv, [Next]_vars PROVE LoopInv'
  OBVIOUS
<1>t. /\ asked \in [Requests -> {"new"} \cup Handling \cup Answered]
      /\ loop \in Requests \cup {Nobody} /\ Nobody \notin Requests
  BY LifecycleAssumption DEF TypeOK
<1>q. /\ loop # Nobody => asked[loop] \in Held
      /\ \A r \in Requests : asked[r] \in Held => loop = r
  BY DEF LoopInv
<1>1. ASSUME NEW r \in Requests, Arrival(r) \/ Handler(r) PROVE LoopInv'
  <2> DEFINE Free == loop = Nobody \/ asked[r] \in Held
  <2>1. ASSUME NEW at, at \notin Held, Answer(r, at), Free PROVE LoopInv'
    BY <2>1, <1>q, <1>t DEF Answer, LoopInv
  <2>2. ASSUME NEW at, at \in Held, Keeps(r, at), Free PROVE LoopInv'
    BY <2>2, <1>q, <1>t DEF Keeps, LoopInv
  <2>3. ASSUME NEW at, asked' = [asked EXCEPT ![r] = at], UNCHANGED loop,
               at \in Held <=> asked[r] \in Held
        PROVE  LoopInv'
    BY <2>3, <1>q, <1>t DEF LoopInv
  <2>4. CASE InsertRow(r)
    BY <2>4, <2>3 DEF InsertRow, Held
  <2>5. CASE LoadReport(r) \/ WriteStatus(r)
    BY <2>5, <2>3 DEF LoadReport, WriteStatus, Held
  <2>6. CASE Arrival(r)
    <3>1. Free
      BY <2>6 DEF Arrival, Create, Resume, Decide, Cancel, Archive, Arrives
    <3>2. \/ Answer(r, "refused") \/ Answer(r, "inserting")
          \/ Keeps(r, "checked") \/ Keeps(r, "cancelling") \/ Keeps(r, "updating")
      BY <2>6 DEF Arrival, Create, Resume, Decide, Cancel, Archive
    <3> HIDE DEF Free
    <3> QED
      BY <3>1, <3>2, <2>1, <2>2 DEF Held
  <2>7. CASE \/ StartRun(r) \/ QueueUnavailable(r) \/ ResumeRun(r) \/ CancelJob(r)
             \/ SaveStatus(r)
    <3>1. Free
      BY <2>7 DEF StartRun, QueueUnavailable, ResumeRun, CancelJob, SaveStatus, Held
    <3>2. \/ Answer(r, "done") \/ Answer(r, "unavailable") \/ Answer(r, "refused")
          \/ Answer(r, "cancel_failed") \/ Keeps(r, "updating")
      BY <2>7 DEF StartRun, QueueUnavailable, ResumeRun, CancelJob, SaveStatus
    <3> HIDE DEF Free
    <3> QED
      BY <3>1, <3>2, <2>1, <2>2 DEF Held
  <2> QED
    BY <1>1, <2>4, <2>5, <2>6, <2>7 DEF Handler
<1>2. CASE UNCHANGED <<asked, loop>>
  BY <1>2, <1>q DEF LoopInv
<1> QED
  BY <1>1, <1>2, WorkerStep DEF Next, Take, ForgetJob, WorkerDies, Abandoned, api, vars

\* Whatever is cancelled, resumed or lost, a job that waits is one the next
\* free worker can come to, a cancel never meets a key whose job was not there
\* (its four cases are all there are), and no handler waits for an event loop
\* that nobody will give back: with JobsDescend and HandlersDescend, the part
\* of JobsEnd and RequestsEnd that fairness does not decide.
THEOREM WaitingHasAnEnd == Spec => []NobodyWaitsInVain
<1>1. Init => KeptInv /\ LoopInv
  BY DEF Init, KeptInv, LoopInv, NoJob, Held
<1>2. BaseInv => TypeOK /\ QueueInv
  BY DEF BaseInv
<1> QED
  BY <1>1, <1>2, KeptNext, LoopNext, BaseHolds, PTL DEF Spec, NobodyWaitsInVain

\* The steps a job still takes, at most, but for those that follow a decision.
PlacesLeft(j) ==
  LET at == job[j].at IN
  CASE at = "load" -> 10
    [] at = "mkdir" -> 9
    [] at = "begin" -> 8
    [] at = "beginSave" -> 7
    [] at = "work" -> 6
    [] at = "stage" -> IF job[j].result = "go" THEN 9 ELSE 5
    [] at = "stageSave" -> IF job[j].result = "go" THEN 8 ELSE 4
    [] at = "settle" -> IF job[j].result = "go" THEN 7 ELSE 3
    [] at \in {"end", "raised"} -> 2
    [] at \in {"endSave", "callback"} -> 1
    [] OTHER -> 0

\* A decision is used once, and then the work begins again.
JobAhead(j) ==
  IF job[j].status # "started" THEN 0
  ELSE PlacesLeft(j) + (IF job[j].decision = NoDecision THEN 0 ELSE 4)

\* The steps a handler still takes.
HandlerAhead(r) ==
  CASE asked[r] = "cancelling" -> 4
    [] asked[r] = "updating" -> 3
    [] asked[r] \in {"inserting", "loaded"} -> 2
    [] asked[r] \in {"inserted", "checked", "written"} -> 1
    [] OTHER -> 0

\* Every step of a worker brings its job nearer to its end.
LEMMA ProgressDescends ==
  ASSUME TypeOK, NEW j \in Requests, Progress(j)
  PROVE  JobAhead(j)' < JobAhead(j)
<1>1. job[j].status = "started"
  BY WorkerStep
<1>2. /\ PlacesLeft(j) \in 0..10 /\ PlacesLeft(j)' \in 0..10
      /\ JobAhead(j) \in Nat
  BY DEF PlacesLeft, JobAhead
<1>3. CASE Load(j)
  <2>1. job[j].at = "load"
    BY <1>3 DEF Load, At
  <2>2. CASE Goes(j, "mkdir")
    BY <1>1, <2>1, <2>2, GoesParts DEF JobAhead, PlacesLeft
  <2>3. CASE ~Goes(j, "mkdir")
    BY <1>1, <1>3, <2>1, <2>3, BeginParts DEF JobAhead, PlacesLeft
  <2> QED
    BY <2>2, <2>3
<1>4. CASE MakeDir(j)
  <2>1. job[j].at = "mkdir"
    BY <1>4 DEF MakeDir, At
  <2> QED
    BY <1>1, <1>4, <2>1, BeginParts DEF JobAhead, PlacesLeft
<1>5. CASE DirExists(j) \/ PersistFailure(j)
  <2>1. \/ job[j].at = "mkdir" /\ Goes(j, "raised")
        \/ job[j].at = "raised" /\ Goes(j, "callback")
    BY <1>5 DEF DirExists, PersistFailure, At
  <2> QED
    BY <1>1, <2>1, GoesParts DEF JobAhead, PlacesLeft
<1>6. CASE WriteReport(j)
  <2>1. \/ job[j].at = "begin" /\ Goes(j, "beginSave")
        \/ job[j].at = "stage" /\ Goes(j, "stageSave")
        \/ job[j].at = "end" /\ Goes(j, "endSave")
    BY <1>6 DEF WriteReport, Saves, At
  <2> QED
    BY <1>1, <2>1, GoesParts DEF JobAhead, PlacesLeft
<1>7. CASE SaveReport(j)
  <2>1. \/ job[j].at = "beginSave" /\ Goes(j, "work")
        \/ job[j].at = "stageSave" /\ Goes(j, "settle")
        \/ job[j].at = "endSave" /\ IsOver(j, "finished")
    BY <1>7 DEF SaveReport, Then, At
  <2> QED
    BY <1>1, <2>1, GoesParts, OverParts DEF JobAhead, PlacesLeft
<1>8. CASE StageFails(j) \/ RefuseDecision(j) \/ AwaitDecision(j)
  <2>1. job[j].at = "work"
    BY <1>8 DEF StageFails, RefuseDecision, AwaitDecision, At
  <2>2. /\ job'[j].at = "stage" /\ job'[j].status = job[j].status
        /\ job'[j].decision = job[j].decision /\ job'[j].result # "go"
    BY <1>8, StageParts
  <2> QED
    BY <1>1, <2>1, <2>2 DEF JobAhead, PlacesLeft
<1>9. CASE TakeDecision(j)
  <2>1. job[j].at = "work" /\ job[j].decision # NoDecision
    BY <1>9 DEF TakeDecision, ForThisGate, At
  <2>2. /\ job'[j].at = "stage" /\ job'[j].status = job[j].status
        /\ job'[j].decision = NoDecision
    BY <1>9, StageParts
  <2> QED
    BY <1>1, <2>1, <2>2 DEF JobAhead, PlacesLeft
<1>10. CASE Settle(j) \/ Deliver(j)
  <2>1. \/ job[j].at \in {"work", "settle"} /\ \E s : Ends(j, s)
        \/ job[j].at = "settle" /\ job[j].result = "go" /\ Goes(j, "work")
    BY <1>10 DEF Settle, Deliver, At
  <2> QED
    BY <1>1, <2>1, GoesParts, EndsParts DEF JobAhead, PlacesLeft
<1>11. CASE FailureCallback(j)
  <2>1. job[j].at = "callback" /\ IsOver(j, "failed")
    BY <1>11 DEF FailureCallback, At
  <2> QED
    BY <1>1, <2>1, OverParts DEF JobAhead, PlacesLeft
<1> QED
  BY <1>3, <1>4, <1>5, <1>6, <1>7, <1>8, <1>9, <1>10, <1>11 DEF Progress

\* Every step of a job that has begun, or the death of its worker, brings it
\* nearer to its end, by a natural number that nothing else changes: a resumed
\* run does not go round its gates for ever, because a decision is used once
\* (orchestrator.py 433-487).
THEOREM JobsDescend ==
  Spec => [][\A j \in Requests : job[j].status = "started" =>
               /\ JobAhead(j) \in Nat
               /\ IF Progress(j) \/ WorkerDies(j) THEN JobAhead(j)' < JobAhead(j)
                  ELSE job'[j] = job[j]]_vars
<1>1. ASSUME BaseInv, Next, NEW j \in Requests, job[j].status = "started"
      PROVE  /\ JobAhead(j) \in Nat
             /\ IF Progress(j) \/ WorkerDies(j) THEN JobAhead(j)' < JobAhead(j)
                ELSE job'[j] = job[j]
  <2>0. TypeOK /\ QueueInv /\ job \in [Requests -> Jobs] /\ Sound(job[j])
    BY <1>1, SoundJobs DEF BaseInv, TypeOK
  <2>1. JobAhead(j) \in Nat /\ JobAhead(j) > 0
    BY <1>1, <2>0 DEF JobAhead, PlacesLeft, Sound, Written, Unwritten
  <2>2. ASSUME Progress(j) PROVE JobAhead(j)' < JobAhead(j)
    BY <2>0, <2>2, ProgressDescends
  <2>3. ASSUME WorkerDies(j) PROVE JobAhead(j)' < JobAhead(j)
    <3>1. job'[j] = [NoJob EXCEPT !.status = "failed", !.at = "dead"]
      BY <2>0, <2>3, OneJob DEF WorkerDies
    <3>2. job'[j].status # "started"
      BY <3>1 DEF NoJob
    <3> QED
      BY <2>1, <3>2 DEF JobAhead
  <2>4. ASSUME ~Progress(j), ~WorkerDies(j) PROVE job'[j] = job[j]
    <3>1. CASE Take
      <4>1. Head(queue) \in Requests /\ job[Head(queue)].status = "queued"
        <5>1. queue \in Seq(Requests) /\ queue # <<>>
          BY <2>0, <3>1 DEF TypeOK, Take
        <5>2. Head(queue) = queue[1] /\ 1 \in 1..Len(queue) /\ Head(queue) \in Requests
          BY <5>1
        <5> QED
          BY <2>0, <5>2 DEF QueueInv
      <4> QED
        BY <1>1, <2>0, <3>1, <4>1, OneJob DEF Take
    <3>2. CASE ForgetJob
      BY <3>2 DEF ForgetJob
    <3>3. ASSUME NEW r \in Requests, Arrival(r) \/ Handler(r) PROVE job'[j] = job[j]
      BY <1>1, <2>0, <3>3, HandlerStep
    <3>4. ASSUME NEW r \in Requests, r # j, Progress(r) PROVE job'[j] = job[j]
      BY <2>0, <3>4, WorkerStep
    <3>5. ASSUME NEW r \in Requests, r # j, WorkerDies(r) PROVE job'[j] = job[j]
      BY <2>0, <3>5, OneJob DEF WorkerDies
    <3>6. ASSUME NEW r \in Requests, Abandoned(r) PROVE job'[j] = job[j]
      <4>1. r # j
        BY <2>0, <3>6 DEF Abandoned, Sound, Written, Unwritten
      <4> QED
        BY <2>0, <3>6, <4>1, OneJob DEF Abandoned, Goes
    <3> QED
      BY <1>1, <2>4, <3>1, <3>2, <3>3, <3>4, <3>5, <3>6 DEF Next
  <2> QED
    BY <2>1, <2>2, <2>3, <2>4
<1>2. BaseInv /\ [Next]_vars =>
        [\A j \in Requests : job[j].status = "started" =>
           /\ JobAhead(j) \in Nat
           /\ IF Progress(j) \/ WorkerDies(j) THEN JobAhead(j)' < JobAhead(j)
              ELSE job'[j] = job[j]]_vars
  BY <1>1
<1> QED
  BY <1>2, BaseHolds, PTL DEF Spec

\* A handler that was begun brings its request nearer to its answer, and no
\* other step moves it (api/routes/runs.py).
THEOREM HandlersDescend ==
  Spec => [][\A r \in Requests : asked[r] \in Handling =>
               /\ HandlerAhead(r) \in Nat
               /\ IF Handler(r) THEN HandlerAhead(r)' < HandlerAhead(r)
                  ELSE asked'[r] = asked[r]]_vars
<1>1. ASSUME BaseInv, Next, NEW r \in Requests, asked[r] \in Handling
      PROVE  /\ HandlerAhead(r) \in Nat
             /\ IF Handler(r) THEN HandlerAhead(r)' < HandlerAhead(r)
                ELSE asked'[r] = asked[r]
  <2>0. /\ TypeOK /\ QueueInv
        /\ asked \in [Requests -> {"new"} \cup Handling \cup Answered]
    BY <1>1 DEF BaseInv, TypeOK
  <2>1. HandlerAhead(r) \in Nat
    BY DEF HandlerAhead
  <2>2. ASSUME Handler(r) PROVE HandlerAhead(r)' < HandlerAhead(r)
    <3>1. \/ asked[r] = "inserting" /\ asked'[r] = "inserted"
          \/ asked[r] = "cancelling" /\ asked'[r] \in {"updating", "refused", "cancel_failed"}
          \/ asked[r] = "updating" /\ asked'[r] = "loaded"
          \/ asked[r] = "loaded" /\ asked'[r] = "written"
          \/ /\ asked[r] \in {"inserted", "checked", "written"}
             /\ asked'[r] \in {"done", "unavailable"}
      BY <2>0, <2>2 DEF Handler, InsertRow, StartRun, QueueUnavailable, ResumeRun, CancelJob,
         LoadReport, WriteStatus, SaveStatus, Answer, Keeps
    <3> QED
      BY <3>1 DEF HandlerAhead
  <2>3. ASSUME ~Handler(r) PROVE asked'[r] = asked[r]
    <3>1. ASSUME NEW q \in Requests, Arrival(q) \/ Handler(q) PROVE asked'[r] = asked[r]
      <4>1. CASE q = r
        <5>1. Arrival(r) /\ asked[r] = "new"
          BY <2>3, <3>1, <4>1 DEF Arrival, Create, Resume, Decide, Cancel, Archive, Arrives
        <5> QED
          BY <1>1, <5>1 DEF Handling
      <4>2. CASE q # r
        BY <2>0, <3>1, <4>2, HandlerStep
      <4> QED
        BY <4>1, <4>2
    <3>2. ASSUME NEW q \in Requests, Progress(q) PROVE asked'[r] = asked[r]
      BY <2>0, <3>2, WorkerStep
    <3>3. CASE Take \/ ForgetJob \/ \E q \in Requests : WorkerDies(q) \/ Abandoned(q)
      BY <3>3 DEF Take, ForgetJob, WorkerDies, Abandoned, api
    <3> QED
      BY <1>1, <3>1, <3>2, <3>3 DEF Next
  <2> QED
    BY <2>1, <2>2, <2>3
<1>2. BaseInv /\ [Next]_vars =>
        [\A r \in Requests : asked[r] \in Handling =>
           /\ HandlerAhead(r) \in Nat
           /\ IF Handler(r) THEN HandlerAhead(r)' < HandlerAhead(r)
              ELSE asked'[r] = asked[r]]_vars
  BY <1>1
<1> QED
  BY <1>2, BaseHolds, PTL DEF Spec
=============================================================================
