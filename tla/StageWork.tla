----------------------------- MODULE StageWork -----------------------------
(***************************************************************************)
(* What happens inside the stages that produce and judge the code          *)
(* (src/engine/agent_runner.py, quality_gates.py, artifact_contracts.py,   *)
(* harness_checks.py, release_readiness.py and the methods of              *)
(* orchestrator.py that call them): the develop stage runs its agents as   *)
(* child processes, one after the other or in threads, and collects their  *)
(* artifacts; the quality gates judge the code and send it back until they *)
(* pass or the retries are used up; harness_verify runs the project's own  *)
(* checks; a human accepts; the release is declared ready or not.  The     *)
(* worker may die at any time, and its children outlive it.                *)
(*                                                                         *)
(* Which stage comes next, loopbacks and rejections are the subject of     *)
(* StageSequence; here the three stages stand in a row.                    *)
(***************************************************************************)
EXTENDS Integers, Sequences, SequencesExt, FiniteSets, FiniteSetsExt

CONSTANTS
  Agents,      \* names of agents, as strings
  Known,       \* the agents that are configured
  Prompted,    \* agents whose runtime takes the prompt from standard input
  Schemaless,  \* numbers of the json_artifacts no schema is known for
  Gates,       \* config["quality_gates"]
  Checks,      \* the checks of .ai/harness.yaml
  Setups,      \* the configurations of the develop stage that are considered
  MaxCrashes,  \* bound: how often the worker dies
  MaxResumes   \* bound: how often the run is resumed

Owner == "stage"
Width == 3  \* bound: JSON blocks in the output of an agent

(* A file of the run that holds JSON: the i-th of json_artifacts, or, where *)
(* none are configured, what is named after an agent's output file: number *)
(* 0 for a single block, numbers from 1 for several.                       *)
Files == (Agents \cup {Owner}) \X (0..Width)

(* A block of JSON is known by the number of the artifact it was written   *)
(* for; 0 fits no schema.                                                  *)
Blocks == 0..Width

GateKinds == {"command", "threshold", "other"}
CheckKinds == {"pattern", "command", "baseline", "none"}

ASSUME StageWorkAssumption ==
  /\ Owner \notin Agents
  /\ IsFiniteSet(Agents) /\ Known \subseteq Agents /\ Prompted \subseteq Agents
  /\ Schemaless \subseteq 1..Width
  /\ Gates \in Seq([name : STRING, kind : GateKinds, command : BOOLEAN,
                    required : BOOLEAN, retries : Nat])
  /\ Checks \in Seq([kind : CheckKinds, severity : {"info", "warning", "error"},
                     blocking : BOOLEAN])
  /\ Setups \subseteq [agents : Seq(Agents), parallel : BOOLEAN, json : 0..Width,
                       required : SUBSET Files, says : SUBSET Seq(Blocks),
                       gate : {"hard", "soft"}]
  /\ MaxCrashes \in Nat /\ MaxResumes \in Nat

VARIABLES
  setup,      \* the develop stage: its agents, in order; whether they run in
              \* parallel; how many json_artifacts; the required artifacts;
              \* what its agents may say; the kind of the acceptance gate
  pc,         \* where the worker is; "off" when there is none
  turn,       \* stage runs of develop so far: the version of its output
  retry,      \* retry_count of the quality loop
  agent,      \* the threads of run_one and their child processes
  output,     \* the output file of each agent
  file,       \* the JSON files
  results,    \* gate results of the current round
  rounds,     \* stage_runs of the quality loop
  runs,       \* report.stages
  saved,      \* the stages of report.json
  done,       \* completed_stages of checkpoint.json
  decision,   \* the decision the attempt was started with
  approved,   \* whether human_decisions holds the approval
  broken,     \* what the last harness_verify found
  status,     \* report.status
  verdict,    \* release-readiness.json
  fresh,      \* history: gates that ran since the code was last changed
  strays,     \* agents that go on with nobody to read them
  strayed,    \* history: there were such agents
  crashes, resumes  \* bookkeeping of the bounds

loop == <<turn, retry, results, rounds>>
report == <<runs, saved, done, status, verdict>>
human == <<decision, approved>>
history == <<fresh, strays, strayed, crashes, resumes>>
vars == <<setup, pc, loop, agent, output, file, report, human, broken, history>>

Statuses == {"passed", "failed", "warning", "skipped"}
StageIds == <<"develop", "verify", "accept">>
StageRuns == [stage : {"develop", "verify", "accept"},
              status : {"completed", "failed", "skipped", "waiting"},
              gates : Seq(Statuses)]

\* thread: "ended" after run_one has returned, "raised" after an exception;
\* process: "unread" means that it has not taken all of its prompt from its
\* standard input, "closed" that it goes on without its standard output, "none"
\* that there is none, not yet or no longer;
\* line: there is something to read; late: the timeout has passed.
Idle == [thread |-> "idle", process |-> "none", line |-> FALSE, late |-> FALSE,
         status |-> "running", says |-> <<>>]
NoFile == [turn |-> 0, block |-> 0]

TypeOK ==
  /\ setup \in Setups
  /\ pc \in {"off", "develop", "agents", "gates", "verify", "accept"}
  /\ turn \in Nat
  /\ retry \in Nat
  /\ agent \in [Agents -> [thread : {"idle", "reading", "ended", "raised"},
                           process : {"none", "unread", "busy", "closed", "zero", "nonzero"},
                           line : BOOLEAN, late : BOOLEAN,
                           status : {"running", "completed", "failed", "timeout"},
                           says : Seq(Blocks)]]
  /\ output \in [Agents -> [turn : Nat, says : Seq(Blocks)]]
  /\ file \in [Files -> [turn : Nat, block : Blocks]]
  /\ results \in Seq(Statuses) /\ Len(results) <= Len(Gates)
  /\ rounds \in Seq(StageRuns)
  /\ runs \in Seq(StageRuns) /\ saved \in Seq(StageRuns)
  /\ done \subseteq {"develop", "verify"}
  /\ decision \in BOOLEAN /\ approved \in BOOLEAN
  /\ broken \subseteq DOMAIN Checks
  /\ status \in {"absent", "running", "paused", "completed", "failed"}
  /\ verdict \in {"none", "Ready", "Not Ready"}
  /\ fresh \subseteq DOMAIN Gates
  /\ strays \subseteq Agents /\ strayed \in BOOLEAN
  /\ crashes \in 0..MaxCrashes /\ resumes \in 0..MaxResumes

-----------------------------------------------------------------------------
(* Gate results (quality_gates.py).                                        *)

\* run_quality_gate: a gate of an unknown type is skipped, required or not.
GateOutcomes(g) ==
  LET fails == IF g.required THEN "failed" ELSE "warning" IN
  IF g.kind = "other" THEN {"skipped"}
  ELSE IF ~g.command THEN {fails}
  ELSE {"passed", fails}

BlockingFailure(rs) ==
  \E i \in DOMAIN rs : Gates[i].required /\ rs[i] = "failed"

\* max_retry_count_for_failures: the most generous of the gates whose name
\* is that of a failed one.
RetriesFor(rs) ==
  LET failedNames == {Gates[i].name : i \in {j \in DOMAIN rs : rs[j] = "failed"}}
  IN Max({0} \cup {Gates[i].retries :
                     i \in {j \in DOMAIN Gates : Gates[j].name \in failedNames}})

(* Check results (harness_checks.py).                                      *)

BlockingCheck(c) == c.severity = "error" /\ c.blocking

\* A check without a type is never run; a baseline that was never committed
\* is a warning whatever its severity.
CheckResult(i, found, uncommitted) ==
  IF Checks[i].kind = "none" THEN "not run"
  ELSE IF Checks[i].kind = "baseline" /\ i \in uncommitted THEN "warning"
  ELSE IF i \notin found THEN "pass"
  ELSE IF BlockingCheck(Checks[i]) THEN "fail" ELSE "warning"

(* Release readiness (release_readiness.py), of the stage runs of a report. *)

GateFailures(stages) ==
  {i \in DOMAIN stages : BlockingFailure(stages[i].gates)}

MissingEvidence(stages) ==
  {i \in DOMAIN stages : /\ stages[i].stage = "develop"
                         /\ stages[i].status = "completed"
                         /\ stages[i].gates = <<>>}

\* Mutant: a review that was passed counts as an approval.
MissingApprovalsByStatus(stages, isApproved) ==
  {i \in DOMAIN stages : /\ stages[i].stage = "accept"
                         /\ stages[i].status # "completed"}

\* Only a decision on record counts, which a soft gate never leaves.
MissingApprovals(stages, isApproved) ==
  {i \in DOMAIN stages : stages[i].stage = "accept" /\ ~isApproved}

\* The artifacts of the report were listed the moment before, so none of
\* them is missing.
Readiness(runStatus, stages, isApproved) ==
  IF /\ runStatus = "completed"
     /\ GateFailures(stages) = {}
     /\ MissingEvidence(stages) = {}
     /\ MissingApprovals(stages, isApproved) = {}
  THEN "Ready" ELSE "Not Ready"

-----------------------------------------------------------------------------
(* The run around the three stages (orchestrator.run).                     *)

Init ==
  /\ setup \in Setups
  /\ pc = "off" /\ turn = 0 /\ retry = 0
  /\ agent = [a \in Agents |-> Idle]
  /\ output = [a \in Agents |-> [turn |-> 0, says |-> <<>>]]
  /\ file = [n \in Files |-> NoFile]
  /\ results = <<>> /\ rounds = <<>>
  /\ runs = <<>> /\ saved = <<>> /\ done = {}
  /\ decision = FALSE /\ approved = FALSE /\ broken = {}
  /\ status = "absent" /\ verdict = "none"
  /\ fresh = {} /\ strays = {} /\ strayed = FALSE
  /\ crashes = 0 /\ resumes = 0

StageRun(stage, st, gates) == [stage |-> stage, status |-> st, gates |-> gates]

\* _completed_stage_runs_for_resume keeps the last run of a stage that
\* report.json holds; without one the stage is reported as completed, bare.
Restored(s) ==
  LET Kept(i) == saved[i].stage = s /\ saved[i].status \in {"completed", "skipped"}
      last == {i \in DOMAIN saved : Kept(i) /\ \A j \in DOMAIN saved : j > i => ~Kept(j)}
  IN IF last = {} THEN StageRun(s, "completed", <<>>)
     ELSE saved[CHOOSE i \in last : TRUE]

\* Run the stages that are not in the checkpoint, pass over the others.  The
\* report that is written first has no stages.
Launch ==
  /\ pc' = IF "verify" \in done THEN "accept"
           ELSE IF "develop" \in done THEN "verify" ELSE "develop"
  /\ runs' = [i \in 1..Cardinality(done) |-> Restored(StageIds[i])]
  /\ saved' = <<>>
  /\ status' = "running"
  /\ retry' = 0 /\ rounds' = <<>>
  /\ agent' = [a \in Agents |-> Idle]
  /\ UNCHANGED <<setup, turn, output, file, results, done, approved, broken,
                 verdict, fresh, strays, strayed, crashes>>

Start ==
  /\ pc = "off" /\ status = "absent"
  /\ Launch
  /\ UNCHANGED <<decision, resumes>>

Resume ==
  /\ pc = "off" /\ status \in {"running", "failed", "paused"}
  /\ resumes < MaxResumes
  /\ resumes' = resumes + 1
  /\ decision' = (status = "paused")
  /\ Launch

\* The end of run(), with the last stage runs of the attempt.
Finish(st, stages, isApproved) ==
  /\ pc' = "off"
  /\ status' = st
  /\ runs' = stages /\ saved' = stages
  /\ verdict' = Readiness(st, stages, isApproved)

\* A stage has settled and the next one follows.
Continue(next, stages) ==
  /\ pc' = next
  /\ runs' = stages /\ saved' = stages
  /\ done' = done \cup {stages[Len(stages)].stage}
  /\ UNCHANGED <<status, verdict>>

Alive(a) == agent[a].process \in {"unread", "busy", "closed"}

\* The worker dies.  Its agents do not, unless they are killed with it.
Crash ==
  /\ pc # "off" /\ crashes < MaxCrashes
  /\ crashes' = crashes + 1
  /\ pc' = "off"
  /\ \/ strays' = strays \cup {a \in Agents : Alive(a)}
     \/ strays' = strays
  /\ strayed' = (strayed \/ strays' # {})
  /\ agent' = [a \in Agents |-> Idle]
  /\ UNCHANGED <<setup, loop, output, file, report, human, broken, fresh, resumes>>

-----------------------------------------------------------------------------
(* The agents of a stage (_run_agent_stage, AgentRunner.run).              *)

Names == Range(setup.agents)
Parallel == setup.parallel /\ Len(setup.agents) > 1
StageFiles == {<<Owner, i>> : i \in 1..setup.json}

BeginTurn ==
  /\ pc' = "agents"
  /\ turn' = turn + 1
  /\ agent' = [a \in Agents |-> Idle]
  /\ results' = <<>>

\* An input of the stage is missing, unreadable or does not fit its schema.
Blocked ==
  /\ pc = "develop"
  /\ Finish("failed", runs, approved)
  /\ UNCHANGED <<setup, loop, agent, output, file, done, human, broken, history>>

Enter ==
  /\ pc = "develop"
  /\ setup.agents # <<>>
  /\ ~(setup.json > 0 /\ Len(setup.agents) > 1)
  /\ BeginTurn
  /\ UNCHANGED <<setup, retry, output, file, rounds, report, human, broken, history>>

\* Without agents the stage is skipped, and the gates with it.
EnterNothing ==
  /\ pc = "develop"
  /\ setup.agents = <<>>
  /\ Continue("verify", Append(runs, StageRun("develop", "skipped", <<>>)))
  /\ UNCHANGED <<setup, loop, agent, output, file, human, broken, history>>

\* json_artifacts need a single agent.
EnterRefused ==
  /\ pc = "develop"
  /\ setup.json > 0 /\ Len(setup.agents) > 1
  /\ Finish("failed", Append(runs, StageRun("develop", "failed", <<>>)), approved)
  /\ UNCHANGED <<setup, loop, agent, output, file, done, human, broken, history>>

\* In turn, unless they run in threads; an exception stops the loop.
MayLaunch(a) ==
  /\ pc = "agents" /\ a \in Names /\ agent[a].thread = "idle"
  /\ \/ Parallel
     \/ \A i \in DOMAIN setup.agents :
          (\A j \in 1..i : setup.agents[j] # a)
             => agent[setup.agents[i]].thread = "ended"

\* The files are emptied, then the process is started; where the prompt goes to
\* its standard input the thread waits for it to be taken.
Begun(a) == IF a \in Prompted THEN "unread" ELSE "busy"

LaunchAgent(a) ==
  /\ MayLaunch(a) /\ a \in Known
  /\ output' = [output EXCEPT ![a] = [turn |-> turn, says |-> <<>>]]
  /\ \/ agent' = [agent EXCEPT ![a].thread = "reading", ![a].process = Begun(a)]
     \/ agent' = [agent EXCEPT ![a].thread = "ended", ![a].status = "failed"]
  /\ UNCHANGED <<setup, pc, loop, file, report, human, broken, history>>

LaunchUnknown(a) ==
  /\ MayLaunch(a) /\ a \notin Known
  /\ agent' = [agent EXCEPT ![a].thread = "raised", ![a].status = "failed"]
  /\ UNCHANGED <<setup, pc, loop, output, file, report, human, broken, history>>

(* The child process; fairness assumes nothing about it.                   *)

\* A working agent changes the code, and a stray one still does.
ChangeCode(a) ==
  /\ Alive(a) \/ a \in strays
  /\ fresh' = {}
  /\ UNCHANGED <<setup, pc, loop, agent, output, file, report, human, broken,
                 strays, strayed, crashes, resumes>>

StrayEnds(a) ==
  /\ a \in strays
  /\ strays' = strays \ {a}
  /\ UNCHANGED <<setup, pc, loop, agent, output, file, report, human, broken,
                 fresh, strayed, crashes, resumes>>

Child(a, now) ==
  /\ Alive(a)
  /\ agent' = [agent EXCEPT ![a] = now]
  /\ UNCHANGED <<setup, pc, loop, output, file, report, human, broken, history>>

TakePrompt(a) ==
  /\ agent[a].process = "unread"
  /\ Child(a, [agent[a] EXCEPT !.process = "busy"])

\* What it prints before it has its prompt is read after.
PrintLine(a) ==
  /\ agent[a].process = "busy"
  /\ Child(a, [agent[a] EXCEPT !.line = TRUE])

CloseOutput(a) ==
  /\ agent[a].process = "busy"
  /\ Child(a, [agent[a] EXCEPT !.process = "closed"])

ExitAgent(a) ==
  /\ agent[a].process # "unread"
  /\ \/ \E said \in setup.says :
          Child(a, [agent[a] EXCEPT !.process = "zero", !.says = said])
     \/ Child(a, [agent[a] EXCEPT !.process = "nonzero"])

TimePasses(a) ==
  /\ ~agent[a].late
  /\ Child(a, [agent[a] EXCEPT !.late = TRUE])

(* The loop that reads its output.                                         *)

\* readline returns: there is a line, or the output is closed.
Readable(a) ==
  agent[a].line \/ agent[a].process \in {"closed", "zero", "nonzero"}

Reading(a) == agent[a].thread = "reading" /\ Readable(a)

Go(a, now) ==
  /\ agent' = [agent EXCEPT ![a] = now]
  /\ UNCHANGED <<setup, pc, loop, file, report, human, broken, history>>

\* The process has ended: whatever is left is read, late or not.
ReadToTheEnd(a) ==
  /\ Reading(a) /\ ~Alive(a)
  /\ output' = [output EXCEPT ![a].says = agent[a].says]
  /\ Go(a, [agent[a] EXCEPT !.thread = "ended", !.line = FALSE, !.late = FALSE,
              !.says = <<>>, !.process = "none",
              !.status = IF agent[a].process = "zero" THEN "completed" ELSE "failed"])

\* The timeout is looked at only here, after readline has returned.
TimeOut(a) ==
  /\ Reading(a) /\ Alive(a) /\ agent[a].late
  /\ Go(a, [agent[a] EXCEPT !.thread = "ended", !.line = FALSE, !.late = FALSE,
              !.process = "none", !.status = "timeout"])
  /\ UNCHANGED output

\* Mutant: the time is not looked at.
ReadOnForEver(a) ==
  /\ Reading(a) /\ Alive(a)
  /\ Go(a, [agent[a] EXCEPT !.line = FALSE, !.late = FALSE])
  /\ UNCHANGED output

ReadOn(a) ==
  /\ Reading(a) /\ Alive(a) /\ ~agent[a].late
  /\ Go(a, [agent[a] EXCEPT !.line = FALSE])
  /\ UNCHANGED output

\* The prompt cannot be written, or a line not read or logged: the agent is
\* reported as failed, and if it has not ended it goes on.
ReadFails(a) ==
  /\ agent[a].thread = "reading"
  /\ agent' = [agent EXCEPT ![a] = [Idle EXCEPT !.thread = "ended", !.status = "failed"]]
  /\ strays' \in {strays} \cup (IF Alive(a) THEN {strays \cup {a}} ELSE {})
  /\ strayed' = (strayed \/ strays' # {})
  /\ UNCHANGED <<setup, pc, loop, output, file, report, human, broken, fresh, crashes,
                 resumes>>

(* Collecting what they made.                                              *)

\* All of the threads are over; in turn, those that were not stopped by an
\* exception.
AllOver ==
  \/ \A a \in Names : agent[a].thread \in {"ended", "raised"}
  \/ ~Parallel /\ \E a \in Names : agent[a].thread = "raised"

\* _extract_json_artifacts.  The last blocks go to the configured files, in
\* order; with too few blocks the first files get them.
Selected(said) ==
  IF Len(said) >= setup.json THEN SubSeq(said, Len(said) - setup.json + 1, Len(said))
  ELSE said

\* Mutant: the configured files are not removed first.
ExtractedOver ==
  LET said == Selected(output[setup.agents[1]].says) IN
  [n \in Files |-> IF n \in StageFiles /\ n[2] <= Len(said)
                   THEN [turn |-> turn, block |-> said[n[2]]] ELSE file[n]]

Extracted ==
  IF setup.json > 0
  THEN LET said == Selected(output[setup.agents[1]].says) IN
       [n \in Files |-> IF n \notin StageFiles THEN file[n]
                        ELSE IF n[2] <= Len(said)
                        THEN [turn |-> turn, block |-> said[n[2]]] ELSE NoFile]
  ELSE LET NamesFor(a) == IF Len(output[a].says) = 1 THEN {<<a, 0>>}
                          ELSE {<<a, i>> : i \in DOMAIN output[a].says} IN
       [n \in Files |-> IF n[1] \in Names /\ n \in NamesFor(n[1])
                        THEN [turn |-> turn, block |-> output[n[1]].says[Max({1, n[2]})]]
                        ELSE file[n]]

\* validate_artifact: where a schema is known for the file, the block is one
\* that was written for it.
Fits(n, block) ==
  \/ n[1] = Owner /\ (n[2] \in Schemaless \/ block = n[2])
  \/ n[1] # Owner /\ block # 0

\* validate_required_artifacts: the file is there and fits.
Valid(files) ==
  \A n \in setup.required : files[n].turn # 0 /\ Fits(n, files[n].block)

AgentsSucceed == \A a \in Names : agent[a].status = "completed"

AgentsFail ==
  /\ pc = "agents" /\ AllOver
  /\ ~AgentsSucceed \/ ~Valid(Extracted)
  /\ file' = IF AgentsSucceed THEN Extracted ELSE file
  /\ Finish("failed", runs \o Append(rounds, StageRun("develop", "failed", <<>>)),
            approved)
  /\ rounds' = <<>>
  /\ UNCHANGED <<setup, turn, retry, results, agent, output, done, human, broken,
                 history>>

\* Mutant: after a retry the gates are not asked again.
CollectOnceJudged ==
  /\ pc = "agents" /\ AllOver /\ AgentsSucceed
  /\ Valid(Extracted)
  /\ file' = Extracted
  /\ IF Gates # <<>> /\ retry = 0
     THEN pc' = "gates" /\ UNCHANGED <<rounds, report>>
     ELSE /\ Continue("verify",
                runs \o Append(rounds, StageRun("develop", "completed", <<>>)))
          /\ rounds' = <<>>
  /\ UNCHANGED <<setup, turn, retry, results, agent, output, human, broken, history>>

Collect ==
  /\ pc = "agents" /\ AllOver /\ AgentsSucceed
  /\ Valid(Extracted)
  /\ file' = Extracted
  /\ IF Gates # <<>>
     THEN pc' = "gates" /\ UNCHANGED <<rounds, report>>
     ELSE /\ Continue("verify",
                runs \o Append(rounds, StageRun("develop", "completed", <<>>)))
          /\ rounds' = <<>>
  /\ UNCHANGED <<setup, turn, retry, results, agent, output, human, broken, history>>

-----------------------------------------------------------------------------
(* The quality loop (_run_develop_quality_loop).                           *)

Judged == Len(results) = Len(Gates)

RunGate ==
  /\ pc = "gates" /\ ~Judged
  /\ LET i == Len(results) + 1 IN
     /\ \E o \in GateOutcomes(Gates[i]) : results' = Append(results, o)
     /\ fresh' = fresh \cup {i}
  /\ UNCHANGED <<setup, pc, turn, retry, rounds, agent, output, file, report, human,
                 broken, strays, strayed, crashes, resumes>>

\* The threshold pattern matches something that is not a number: the
\* exception leaves the loop, and the rounds are not reported.
GateRaises ==
  /\ pc = "gates" /\ ~Judged
  /\ Gates[Len(results) + 1].kind = "threshold" /\ Gates[Len(results) + 1].command
  /\ Finish("failed", runs, approved)
  /\ rounds' = <<>>
  /\ UNCHANGED <<setup, turn, retry, results, agent, output, file, done, human,
                 broken, history>>

AllRounds(st) == runs \o Append(rounds, StageRun("develop", st, results))

GatesPass ==
  /\ pc = "gates" /\ Judged
  /\ ~BlockingFailure(results)
  /\ Continue("verify", AllRounds("completed"))
  /\ rounds' = <<>>
  /\ UNCHANGED <<setup, turn, retry, results, agent, output, file, human, broken,
                 history>>

MayRetry == retry < RetriesFor(results)

GatesRetry ==
  /\ pc = "gates" /\ Judged
  /\ BlockingFailure(results) /\ MayRetry
  /\ retry' = retry + 1
  /\ rounds' = Append(rounds, StageRun("develop", "completed", results))
  /\ BeginTurn
  /\ UNCHANGED <<setup, output, file, report, human, broken, history>>

GatesFail ==
  /\ pc = "gates" /\ Judged
  /\ BlockingFailure(results) /\ ~MayRetry
  /\ Finish("failed", AllRounds("failed"), approved)
  /\ rounds' = <<>>
  /\ UNCHANGED <<setup, turn, retry, results, agent, output, file, done, human,
                 broken, history>>

-----------------------------------------------------------------------------
(* harness_verify and the acceptance gate.                                 *)

\* A broken configuration, a baseline that cannot be read, or, in
\* production, commands that are not committed.
VerifyRaises ==
  /\ pc = "verify"
  /\ Finish("failed", Append(runs, StageRun("verify", "failed", <<>>)), approved)
  /\ UNCHANGED <<setup, loop, agent, output, file, done, human, broken, history>>

\* The report fails with one check that fails; warnings do not count.
FailsVerification(found, uncommitted) ==
  \E i \in DOMAIN Checks : CheckResult(i, found, uncommitted) = "fail"

VerifyStage ==
  /\ pc = "verify"
  /\ \E found, uncommitted \in SUBSET DOMAIN Checks :
       /\ broken' = {i \in found : CheckResult(i, found, uncommitted) # "not run"
                                   /\ i \notin uncommitted}
       /\ IF FailsVerification(found, uncommitted)
          THEN /\ Finish("failed", Append(runs, StageRun("verify", "failed", <<>>)),
                         approved)
               /\ UNCHANGED done
          ELSE Continue("accept", Append(runs, StageRun("verify", "completed", <<>>)))
  /\ UNCHANGED <<setup, loop, agent, output, file, human, history>>

\* A hard gate completes by the decision the attempt brought.
HardAccept ==
  /\ pc = "accept" /\ setup.gate = "hard" /\ decision
  /\ decision' = FALSE /\ approved' = TRUE
  /\ Finish("completed", Append(runs, StageRun("accept", "completed", <<>>)), TRUE)
  /\ UNCHANGED <<setup, loop, agent, output, file, done, broken, history>>

\* A soft gate completes by --yes or an answer at the terminal.
SoftAccept ==
  /\ pc = "accept" /\ setup.gate = "soft"
  /\ Finish("completed", Append(runs, StageRun("accept", "completed", <<>>)), approved)
  /\ UNCHANGED <<setup, loop, agent, output, file, done, human, broken, history>>

AwaitAcceptance ==
  /\ pc = "accept" /\ (setup.gate = "hard" => ~decision)
  /\ Finish("paused", Append(runs, StageRun("accept", "waiting", <<>>)), approved)
  /\ UNCHANGED <<setup, loop, agent, output, file, done, human, broken, history>>

RefuseAcceptance ==
  /\ pc = "accept" /\ setup.gate = "soft"
  /\ Finish("failed", Append(runs, StageRun("accept", "failed", <<>>)), approved)
  /\ UNCHANGED <<setup, loop, agent, output, file, done, human, broken, history>>

-----------------------------------------------------------------------------
Reader(a) == ReadToTheEnd(a) \/ TimeOut(a) \/ ReadOn(a)

Failure == \E a \in Agents : ReadFails(a)

Worker ==
  \/ Enter \/ EnterNothing \/ EnterRefused \/ Blocked
  \/ \E a \in Agents : LaunchAgent(a) \/ LaunchUnknown(a)
  \/ AgentsFail \/ Collect
  \/ RunGate \/ GateRaises \/ GatesPass \/ GatesRetry \/ GatesFail
  \/ VerifyRaises \/ VerifyStage
  \/ HardAccept \/ SoftAccept \/ AwaitAcceptance \/ RefuseAcceptance

Children ==
  \E a \in Agents : ChangeCode(a) \/ StrayEnds(a) \/ TakePrompt(a) \/ PrintLine(a)
                    \/ CloseOutput(a) \/ ExitAgent(a) \/ TimePasses(a)

Next == Start \/ Resume \/ Crash \/ Failure \/ Worker \/ Children
        \/ \E a \in Agents : Reader(a)

Spec == Init /\ [][Next]_vars

\* A worker that lives goes on, each of its threads too, and time passes.
\* Nothing is promised of the agents.
FairSpec == /\ Spec
            /\ WF_vars(Worker)
            /\ \A a \in Agents : WF_vars(Reader(a)) /\ WF_vars(TimePasses(a))

-----------------------------------------------------------------------------
(* Properties.                                                             *)

\* The stage whose code is passed on was judged as it stands: no gate ran
\* before the last change of the code, and no required gate has failed.
\* (_run_develop_quality_loop.)  An agent that outlived its worker, or the
\* thread that read it, may still write to the work tree, of which the code
\* knows nothing.
GatesJudgeLatestCode ==
  ("develop" \in done /\ setup.agents # <<>> /\ ~strayed) =>
    /\ fresh = DOMAIN Gates
    /\ Len(results) = Len(Gates) /\ ~BlockingFailure(results)

\* A required artifact that is configured as json_artifact was made by the
\* last run of the stage, and it is the one the schema asks for, however many
\* blocks the agent printed, in this attempt or in an earlier one.
\* (_extract_json_artifacts, validate_required_artifacts.)  A stage without
\* agents is skipped before its required artifacts are looked at.
ArtifactsAreCurrent ==
  (pc = "gates" \/ ("develop" \in done /\ setup.agents # <<>>)) =>
    \A n \in setup.required \cap StageFiles :
      /\ file[n].turn = turn
      /\ n[2] \notin Schemaless => file[n].block = n[2]

\* A release is called ready only if the run completed, the last word of
\* every required gate was not a failure, the harness found nothing that
\* blocks, and a human approved.  (generate_release_readiness.)
ReadyIsDeserved ==
  verdict = "Ready" =>
    /\ status = "completed" /\ approved
    /\ setup.agents # <<>> => Len(results) = Len(Gates) /\ ~BlockingFailure(results)
    /\ \A i \in broken : ~BlockingCheck(Checks[i])

\* An attempt comes to its end if every agent that is being read takes its
\* prompt and keeps printing, closes its output or ends: the timeout stops the
\* ones that talk for ever.  It does not stop a silent one.
\* (AgentRunner._try_model.)
AttemptEnds ==
  (\A a \in Agents : []<>(agent[a].thread # "reading" \/ Readable(a)))
    => []<>(pc = "off")
=============================================================================
