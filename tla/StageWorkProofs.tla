-------------------------- MODULE StageWorkProofs --------------------------
(***************************************************************************)
(* Proofs about StageWork, for every list of gates and checks, every       *)
(* configuration of the develop stage and any number of agents, crashes    *)
(* and resumes: the gates judged the code as it stands, its artifacts are  *)
(* those of its last run, and a release called ready deserves it.          *)
(***************************************************************************)
EXTENDS StageWork, SequenceTheorems, FiniteSetTheorems, WellFoundedInduction, TLAPS

-----------------------------------------------------------------------------
(* The inductive invariant.                                                *)

\* Whoever has a process is being read, and no stage goes on, nor a gate
\* runs, before the last agent is over.
AgentInv ==
  \A a \in Agents :
    /\ agent[a].process # "none" => agent[a].thread = "reading"
    /\ agent[a].thread = "reading" =>
         a \in Names /\ pc # "gates" /\ "develop" \notin done
    /\ agent[a].status = "completed" => agent[a].thread = "ended"

\* What the checkpoint holds is what the worker is past.
PlaceInv ==
  /\ pc \in {"develop", "agents", "gates"} => "develop" \notin done
  /\ pc \in {"agents", "gates"} => setup.agents # <<>>
  /\ "verify" \in done => "develop" \in done
  /\ pc = "verify" => "develop" \in done /\ "verify" \notin done
  /\ pc = "accept" => "verify" \in done

\* The results belong to the round that is judged, and its gates saw the code.
JudgedInv ==
  /\ ~strayed => strays = {}
  /\ pc = "agents" => results = <<>>
  /\ pc = "gates" /\ ~strayed => DOMAIN results \subseteq fresh
  /\ "develop" \in done /\ setup.agents # <<>> =>
       /\ Len(results) = Len(Gates) /\ ~BlockingFailure(results)
       /\ ~strayed => fresh = DOMAIN Gates

CheckedInv == "verify" \in done => \A i \in broken : ~BlockingCheck(Checks[i])

\* A verdict is about a run that is over and had all its stages.
VerdictInv ==
  verdict = "Ready" =>
    /\ pc = "off" /\ status = "completed" /\ approved
    /\ "develop" \in done /\ "verify" \in done

Inductive == /\ TypeOK
             /\ AgentInv /\ PlaceInv /\ JudgedInv /\ ArtifactsAreCurrent
             /\ CheckedInv /\ VerdictInv

-----------------------------------------------------------------------------
(* Steps that share a frame.                                               *)

\* What the steps of agents, and of the threads that read them, leave alone.
Stage == <<setup, pc, loop, file, report, human, broken, history>>

\* The steps of one agent and its thread, but for its changes to the code.
AgentStep(a) ==
  \/ LaunchAgent(a) \/ LaunchUnknown(a)
  \/ TakePrompt(a) \/ PrintLine(a) \/ CloseOutput(a) \/ ExitAgent(a) \/ TimePasses(a)
  \/ Reader(a)

\* The steps of the run that end it as it is: "failed", no stage completed.
Ending ==
  \/ Blocked \/ EnterRefused \/ GateRaises \/ GatesFail \/ VerifyRaises
  \/ AwaitAcceptance \/ RefuseAcceptance

\* An agent's steps touch nothing but its thread, its process and its output.
LEMMA AgentStepsStayInside ==
  ASSUME NEW a \in Agents, AgentStep(a) PROVE UNCHANGED Stage
BY DEF AgentStep, Stage, LaunchAgent, LaunchUnknown, TakePrompt, PrintLine, CloseOutput,
       ExitAgent, TimePasses, Reader, ReadToTheEnd, TimeOut, ReadOn, Child, Go

\* Every step is one of these.
LEMMA StepsAre ==
  ASSUME Next
  PROVE  \/ Start \/ Resume \/ Crash
         \/ Enter \/ EnterNothing \/ AgentsFail \/ Collect
         \/ RunGate \/ GatesPass \/ GatesRetry
         \/ VerifyStage \/ HardAccept \/ SoftAccept
         \/ Ending
         \/ \E a \in Agents : AgentStep(a) \/ ReadFails(a) \/ ChangeCode(a) \/ StrayEnds(a)
BY DEF Next, Failure, Worker, Children, Ending, AgentStep

\* The last of the stage runs that are reported is the one just appended.
LEMMA LastOfReport ==
  ASSUME NEW S, NEW s \in Seq(S), NEW t \in Seq(S), NEW e \in S
  PROVE  /\ s \o Append(t, e) \in Seq(S)
         /\ (s \o Append(t, e))[Len(s \o Append(t, e))] = e
         /\ Append(s, e) \in Seq(S)
         /\ Append(s, e)[Len(Append(s, e))] = e
<1>1. Append(t, e) \in Seq(S) /\ Len(Append(t, e)) = Len(t) + 1
  OBVIOUS
<1>2. s \o Append(t, e) \in Seq(S) /\ Len(s \o Append(t, e)) = Len(s) + Len(t) + 1
  BY <1>1
<1>3. (s \o Append(t, e))[Len(s) + Len(t) + 1] = Append(t, e)[Len(t) + 1]
  BY <1>1, <1>2
<1> QED BY <1>1, <1>2, <1>3

\* What the configuration looks like.
LEMMA SetupShape ==
  ASSUME TypeOK
  PROVE  setup \in [agents : Seq(Agents), parallel : BOOLEAN, json : 0..Width,
                    required : SUBSET Files, says : SUBSET Seq(Blocks),
                    gate : {"hard", "soft"}]
<1>1. setup \in Setups
  BY DEF TypeOK
<1> QED BY <1>1, StageWorkAssumption DEF StageWorkAssumption

\* The agents of the stage are agents.
LEMMA NamesAreAgents == ASSUME TypeOK PROVE Names \subseteq Agents
<1>1. setup.agents \in Seq(Agents)
  BY SetupShape
<1> QED BY <1>1 DEF Names, Range

-----------------------------------------------------------------------------
(* Agents.                                                                 *)

\* No step leaves an agent running unread, or one that is read beside the gates.
LEMMA AgentKept == ASSUME TypeOK, AgentInv, PlaceInv, Next PROVE AgentInv'
<1> USE DEF AgentInv, Names
<1> agent \in [Agents -> [thread : {"idle", "reading", "ended", "raised"},
                          process : {"none", "unread", "busy", "closed", "zero", "nonzero"},
                          line : BOOLEAN, late : BOOLEAN,
                          status : {"running", "completed", "failed", "timeout"},
                          says : Seq(Blocks)]]
  BY DEF TypeOK
<1>1. CASE Start \/ Resume
  BY <1>1 DEF Start, Resume, Launch, Idle
<1>2. CASE Crash
  BY <1>2 DEF Crash, Idle
<1>3. CASE Enter \/ GatesRetry
  BY <1>3 DEF Enter, GatesRetry, BeginTurn, Idle
<1>4. CASE EnterNothing
  <2>1. setup' = setup /\ agent' = agent /\ pc' = "verify" /\ setup.agents = <<>>
    BY <1>4 DEF EnterNothing, Continue
  <2>2. Range(setup.agents) = {}
    BY <2>1 DEF Range
  <2> QED BY <2>1, <2>2
<1>5. CASE AgentsFail
  BY <1>5 DEF AgentsFail, Finish
<1>6. CASE Collect
  <2>1. setup' = setup /\ agent' = agent
    BY <1>6 DEF Collect
  <2>2. \A a \in Names : agent[a].thread = "ended"
    <3>1. \A a \in Names : agent[a].status = "completed"
      BY <1>6 DEF Collect, AgentsSucceed
    <3>2. \A a \in Names : a \in Agents
      BY NamesAreAgents
    <3> QED BY <3>1, <3>2
  <2> QED BY <2>1, <2>2
<1>7. CASE RunGate
  BY <1>7 DEF RunGate
<1>8. CASE GatesPass
  <2>1. setup' = setup /\ agent' = agent /\ pc = "gates"
    BY <1>8 DEF GatesPass
  <2> QED BY <2>1
<1>9. CASE VerifyStage
  <2>1. setup' = setup /\ agent' = agent /\ pc = "verify"
    BY <1>9 DEF VerifyStage
  <2> QED BY <2>1 DEF PlaceInv
<1>10. CASE HardAccept \/ SoftAccept
  BY <1>10 DEF HardAccept, SoftAccept, Finish
<1>11. CASE Ending
  BY <1>11 DEF Ending, Blocked, EnterRefused, GateRaises, GatesFail, VerifyRaises,
               AwaitAcceptance, RefuseAcceptance, Finish
<1>12. ASSUME NEW a \in Agents, ChangeCode(a) \/ StrayEnds(a) PROVE AgentInv'
  BY <1>12 DEF ChangeCode, StrayEnds, report
<1>14. ASSUME NEW a \in Agents, ReadFails(a) PROVE AgentInv'
  <2> DEFINE now == [Idle EXCEPT !.thread = "ended", !.status = "failed"]
  <2>1. now.thread = "ended" /\ now.process = "none" /\ now.status = "failed"
    BY DEF Idle
  <2>2. agent' = [agent EXCEPT ![a] = now] /\ setup' = setup /\ pc' = pc /\ done' = done
    BY <1>14 DEF ReadFails, report
  <2> HIDE DEF now
  <2> QED BY <2>1, <2>2
<1>13. ASSUME NEW a \in Agents, AgentStep(a) PROVE AgentInv'
  <2>1. setup' = setup /\ pc' = pc /\ done' = done
    BY <1>13, AgentStepsStayInside DEF Stage, report
  <2>6. ASSUME NEW now, agent' = [agent EXCEPT ![a] = now],
               now.process # "none" => now.thread = "reading",
               now.thread = "reading" => a \in Names /\ pc # "gates" /\ "develop" \notin done,
               now.status = "completed" => now.thread = "ended"
        PROVE  AgentInv'
    BY <2>1, <2>6
  <2>7. agent[a] \in [thread : {"idle", "reading", "ended", "raised"},
                      process : {"none", "unread", "busy", "closed", "zero", "nonzero"},
                      line : BOOLEAN, late : BOOLEAN,
                      status : {"running", "completed", "failed", "timeout"},
                      says : Seq(Blocks)]
    OBVIOUS
  <2>2. CASE LaunchAgent(a)
    <3>1. a \in Names /\ pc = "agents" /\ agent[a].thread = "idle"
      BY <2>2 DEF LaunchAgent, MayLaunch
    <3>2. agent[a].status # "completed" /\ agent[a].process = "none"
      BY <2>7, <3>1
    <3>3. ASSUME NEW begun \in {"unread", "busy"},
                 agent' = [agent EXCEPT ![a].thread = "reading", ![a].process = begun]
          PROVE  AgentInv'
      <4> DEFINE now == [agent[a] EXCEPT !.thread = "reading", !.process = begun]
      <4>1. agent' = [agent EXCEPT ![a] = now]
        BY <3>3
      <4>2. now.thread = "reading" /\ now.status = agent[a].status
        BY <2>7
      <4> QED BY <4>1, <4>2, <3>1, <3>2, <2>6 DEF PlaceInv
    <3>4. CASE agent' = [agent EXCEPT ![a].thread = "ended", ![a].status = "failed"]
      <4> DEFINE now == [agent[a] EXCEPT !.thread = "ended", !.status = "failed"]
      <4>1. agent' = [agent EXCEPT ![a] = now]
        BY <3>4
      <4>2. now.thread = "ended" /\ now.process = agent[a].process
        BY <2>7
      <4> QED BY <4>1, <4>2, <3>2, <2>6
    <3> QED BY <2>2, <3>3, <3>4 DEF LaunchAgent, Begun
  <2>3. CASE LaunchUnknown(a)
    <3>1. agent[a].thread = "idle"
      BY <2>3 DEF LaunchUnknown, MayLaunch
    <3> DEFINE now == [agent[a] EXCEPT !.thread = "raised", !.status = "failed"]
    <3>2. agent' = [agent EXCEPT ![a] = now]
      BY <2>3 DEF LaunchUnknown
    <3>3. now.thread = "raised" /\ now.status = "failed" /\ now.process = agent[a].process
      BY <2>7
    <3>4. now.process = "none"
      BY <3>1, <3>3
    <3> QED BY <2>6, <3>2, <3>3, <3>4
  <2>4. CASE TakePrompt(a) \/ PrintLine(a) \/ CloseOutput(a) \/ ExitAgent(a)
             \/ TimePasses(a)
    <3>1. PICK now : /\ agent' = [agent EXCEPT ![a] = now]
                     /\ Alive(a)
                     /\ now.thread = agent[a].thread /\ now.status = agent[a].status
      <4>1. PICK now : /\ Child(a, now)
                       /\ \/ now = [agent[a] EXCEPT !.process = "busy"]
                          \/ now = [agent[a] EXCEPT !.line = TRUE]
                          \/ now = [agent[a] EXCEPT !.process = "closed"]
                          \/ \E said : now = [agent[a] EXCEPT !.process = "zero",
                                                             !.says = said]
                          \/ now = [agent[a] EXCEPT !.process = "nonzero"]
                          \/ now = [agent[a] EXCEPT !.late = TRUE]
        BY <2>4, Zenon DEF TakePrompt, PrintLine, CloseOutput, ExitAgent, TimePasses
      <4>2. now.thread = agent[a].thread /\ now.status = agent[a].status
        BY <4>1, <2>7
      <4> QED BY <4>1, <4>2 DEF Child
    <3>2. agent[a].thread = "reading"
      BY <3>1 DEF Alive
    <3> QED BY <2>6, <3>1, <3>2
  <2>5. CASE Reader(a)
    <3>1. Reading(a)
      BY <2>5 DEF Reader, ReadToTheEnd, TimeOut, ReadOn
    <3>2. PICK now : /\ agent' = [agent EXCEPT ![a] = now]
                     /\ \/ now.thread = "ended" /\ now.process = "none"
                        \/ now.thread = "reading" /\ now.status = agent[a].status
      <4>1. CASE ReadToTheEnd(a)
        <5> DEFINE now == [agent[a] EXCEPT !.thread = "ended", !.line = FALSE,
                             !.late = FALSE, !.says = <<>>, !.process = "none",
                             !.status = IF agent[a].process = "zero"
                                        THEN "completed" ELSE "failed"]
        <5>1. agent' = [agent EXCEPT ![a] = now]
          BY <4>1 DEF ReadToTheEnd, Go
        <5>2. now.thread = "ended" /\ now.process = "none"
          BY <2>7
        <5> QED BY <5>1, <5>2
      <4>2. CASE TimeOut(a)
        <5> DEFINE now == [agent[a] EXCEPT !.thread = "ended", !.line = FALSE,
                             !.late = FALSE, !.process = "none", !.status = "timeout"]
        <5>1. agent' = [agent EXCEPT ![a] = now]
          BY <4>2 DEF TimeOut, Go
        <5>2. now.thread = "ended" /\ now.process = "none"
          BY <2>7
        <5> QED BY <5>1, <5>2
      <4>3. CASE ReadOn(a)
        <5> DEFINE now == [agent[a] EXCEPT !.line = FALSE]
        <5>1. agent' = [agent EXCEPT ![a] = now]
          BY <4>3 DEF ReadOn, Go
        <5>2. now.thread = agent[a].thread /\ now.status = agent[a].status
          BY <2>7
        <5> QED BY <5>1, <5>2, <3>1 DEF Reading
      <4> QED BY <2>5, <4>1, <4>2, <4>3 DEF Reader
    <3> QED BY <2>6, <3>1, <3>2 DEF Reading
  <2> QED BY <1>13, <2>2, <2>3, <2>4, <2>5 DEF AgentStep
<1> QED BY <1>1, <1>2, <1>3, <1>4, <1>5, <1>6, <1>7, <1>8, <1>9, <1>10, <1>11, <1>12,
           <1>13, <1>14, StepsAre

-----------------------------------------------------------------------------
(* The checkpoint.                                                         *)

\* The stage that is over is the one that is added to the checkpoint.
LEMMA DevelopIsAdded ==
  ASSUME TypeOK, EnterNothing \/ Collect \/ GatesPass
  PROVE  \/ pc' = "verify" /\ done' = done \cup {"develop"}
         \/ Collect /\ pc' = "gates" /\ UNCHANGED report
<1> runs \in Seq(StageRuns) /\ rounds \in Seq(StageRuns) /\ results \in Seq(Statuses)
  BY DEF TypeOK
<1>0. /\ StageRun("develop", "skipped", <<>>) \in StageRuns
      /\ StageRun("develop", "completed", <<>>) \in StageRuns
      /\ StageRun("develop", "completed", results) \in StageRuns
  BY DEF StageRun, StageRuns
<1>1. CASE EnterNothing
  BY <1>0, <1>1, LastOfReport DEF EnterNothing, Continue, StageRun
<1>2. CASE Collect
  <2>1. CASE Gates # <<>>
    BY <1>2, <2>1 DEF Collect
  <2>2. CASE Gates = <<>>
    <3>1. Continue("verify", runs \o Append(rounds, StageRun("develop", "completed", <<>>)))
      BY <1>2, <2>2 DEF Collect
    <3> QED BY <1>0, <3>1, LastOfReport DEF Continue, StageRun
  <2> QED BY <2>1, <2>2
<1>3. CASE GatesPass
  BY <1>0, <1>3, LastOfReport DEF GatesPass, AllRounds, Continue, StageRun
<1> QED BY <1>1, <1>2, <1>3

\* No step goes past a stage that is not in the checkpoint.
LEMMA PlaceKept == ASSUME TypeOK, AgentInv, PlaceInv, Next PROVE PlaceInv'
<1> USE DEF PlaceInv
<1> /\ pc \in {"off", "develop", "agents", "gates", "verify", "accept"}
    /\ done \subseteq {"develop", "verify"}
    /\ runs \in Seq(StageRuns) /\ rounds \in Seq(StageRuns)
  BY DEF TypeOK
<1>1. CASE Start \/ Resume
  BY <1>1 DEF Start, Resume, Launch
<1>2. CASE Crash
  BY <1>2 DEF Crash, report
<1>3. CASE Enter \/ GatesRetry
  BY <1>3 DEF Enter, GatesRetry, BeginTurn, report
<1>4. CASE EnterNothing \/ Collect \/ GatesPass
  <2>1. CASE pc' = "verify" /\ done' = done \cup {"develop"}
    <3>1. "develop" \notin done
      BY <1>4 DEF EnterNothing, Collect, GatesPass
    <3> QED BY <2>1, <3>1
  <2>2. CASE Collect /\ pc' = "gates" /\ UNCHANGED report
    BY <2>2 DEF Collect, report
  <2> QED BY <1>4, <2>1, <2>2, DevelopIsAdded
<1>5. CASE AgentsFail
  BY <1>5 DEF AgentsFail, Finish
<1>7. CASE RunGate
  BY <1>7 DEF RunGate, report
<1>9. CASE VerifyStage
  <2>1. pc = "verify"
    BY <1>9 DEF VerifyStage
  <2>2. \/ pc' = "off" /\ done' = done
        \/ Continue("accept", Append(runs, StageRun("verify", "completed", <<>>)))
    BY <1>9 DEF VerifyStage, Finish
  <2>3. CASE Continue("accept", Append(runs, StageRun("verify", "completed", <<>>)))
    <3>1. StageRun("verify", "completed", <<>>) \in StageRuns
      BY DEF StageRun, StageRuns
    <3>2. done' = done \cup {"verify"} /\ pc' = "accept"
      BY <2>3, <3>1, LastOfReport DEF Continue, StageRun
    <3> QED BY <2>1, <3>2
  <2> QED BY <2>1, <2>2, <2>3
<1>10. CASE HardAccept \/ SoftAccept
  BY <1>10 DEF HardAccept, SoftAccept, Finish
<1>11. CASE Ending
  BY <1>11 DEF Ending, Blocked, EnterRefused, GateRaises, GatesFail, VerifyRaises,
               AwaitAcceptance, RefuseAcceptance, Finish
<1>12. ASSUME NEW a \in Agents, ReadFails(a) \/ ChangeCode(a) \/ StrayEnds(a)
       PROVE  PlaceInv'
  BY <1>12 DEF ReadFails, ChangeCode, StrayEnds, report
<1>13. ASSUME NEW a \in Agents, AgentStep(a) PROVE PlaceInv'
  BY <1>13, AgentStepsStayInside DEF Stage, report
<1> QED BY <1>1, <1>2, <1>3, <1>4, <1>5, <1>7, <1>9, <1>10, <1>11, <1>12,
           <1>13, StepsAre

-----------------------------------------------------------------------------
(* The gates and the code they saw.                                        *)

\* A gate that ran adds its result, and has seen the code as it is.
LEMMA GateResultsAre ==
  ASSUME TypeOK, RunGate
  PROVE  /\ results' \in Seq(Statuses) /\ Len(results') = Len(results) + 1
         /\ Len(results') <= Len(Gates)
         /\ fresh' = fresh \cup {Len(results) + 1} /\ fresh' \subseteq DOMAIN Gates
<1>1. Gates \in Seq([name : STRING, kind : GateKinds, command : BOOLEAN,
                     required : BOOLEAN, retries : Nat])
  BY StageWorkAssumption DEF StageWorkAssumption
<1>2. results \in Seq(Statuses) /\ Len(results) <= Len(Gates) /\ fresh \subseteq DOMAIN Gates
  BY DEF TypeOK
<1>3. Len(results) # Len(Gates) /\ fresh' = fresh \cup {Len(results) + 1}
  BY DEF RunGate, Judged
<1>4. PICK o \in GateOutcomes(Gates[Len(results) + 1]) : results' = Append(results, o)
  BY DEF RunGate
<1>5. o \in Statuses
  BY <1>4 DEF GateOutcomes, Statuses
<1>6. Len(results) + 1 \in DOMAIN Gates
  BY <1>1, <1>2, <1>3
<1> QED BY <1>1, <1>2, <1>3, <1>4, <1>5, <1>6

\* Every step that changes the code or begins a turn makes the gates start anew.
LEMMA JudgedKept ==
  ASSUME TypeOK, AgentInv, PlaceInv, JudgedInv, Next PROVE JudgedInv'
<1> USE DEF JudgedInv, BlockingFailure
<1> /\ results \in Seq(Statuses) /\ Len(results) <= Len(Gates)
    /\ fresh \subseteq DOMAIN Gates /\ strayed \in BOOLEAN
    /\ pc \in {"off", "develop", "agents", "gates", "verify", "accept"}
    /\ runs \in Seq(StageRuns) /\ rounds \in Seq(StageRuns)
  BY DEF TypeOK
<1>0. Gates \in Seq([name : STRING, kind : GateKinds, command : BOOLEAN,
                     required : BOOLEAN, retries : Nat])
  BY StageWorkAssumption DEF StageWorkAssumption
<1>1. CASE Start \/ Resume
  BY <1>1 DEF Start, Resume, Launch
<1>2. CASE Crash
  BY <1>2 DEF Crash, report, loop
<1>3. CASE Enter \/ GatesRetry
  BY <1>3 DEF Enter, GatesRetry, BeginTurn, report, history, PlaceInv
<1>4. CASE EnterNothing
  BY <1>4 DEF EnterNothing, Continue, loop, history
<1>5. CASE AgentsFail
  BY <1>5 DEF AgentsFail, Finish, history
<1>6. CASE Collect
  <2>1. /\ setup' = setup /\ results' = results /\ fresh' = fresh /\ strays' = strays
        /\ strayed' = strayed /\ results = <<>> /\ pc' # "agents"
    BY <1>6 DEF Collect, Continue, history
  <2>2. CASE Gates # <<>>
    BY <1>6, <2>1, <2>2 DEF Collect, report, PlaceInv
  <2>3. CASE Gates = <<>>
    <3>1. pc' = "verify"
      BY <1>6, <2>3 DEF Collect, Continue
    <3>2. Len(results) = Len(Gates) /\ DOMAIN results = {} /\ fresh = {} /\ DOMAIN Gates = {}
      BY <2>1, <2>3
    <3> QED BY <2>1, <3>1, <3>2
  <2> QED BY <2>2, <2>3
<1>7. CASE RunGate
  <2>1. /\ setup' = setup /\ pc = "gates" /\ pc' = pc /\ done' = done
        /\ strays' = strays /\ strayed' = strayed
    BY <1>7 DEF RunGate, report
  <2>2. "develop" \notin done
    BY <2>1 DEF PlaceInv
  <2>3. DOMAIN results' = DOMAIN results \cup {Len(results) + 1}
    BY <1>7, GateResultsAre
  <2> QED BY <1>7, <2>1, <2>2, <2>3, GateResultsAre
<1>8. CASE GatesPass
  <2>1. /\ setup' = setup /\ results' = results /\ fresh' = fresh /\ strays' = strays
        /\ strayed' = strayed /\ pc = "gates" /\ pc' = "verify"
        /\ Len(results) = Len(Gates) /\ ~BlockingFailure(results)
    BY <1>8 DEF GatesPass, Judged, Continue, history
  <2>2. DOMAIN results = DOMAIN Gates
    BY <1>0, <2>1
  <2> QED BY <2>1, <2>2
<1>9. CASE VerifyStage
  <2>1. /\ setup' = setup /\ results' = results /\ fresh' = fresh /\ strays' = strays
        /\ strayed' = strayed /\ pc = "verify" /\ pc' \in {"off", "accept"}
    BY <1>9 DEF VerifyStage, Finish, Continue, loop, history
  <2> QED BY <2>1 DEF PlaceInv
<1>10. CASE HardAccept \/ SoftAccept
  BY <1>10 DEF HardAccept, SoftAccept, Finish, loop, history
<1>11. CASE Ending
  BY <1>11 DEF Ending, Blocked, EnterRefused, GateRaises, GatesFail, VerifyRaises,
               AwaitAcceptance, RefuseAcceptance, Finish, loop, history
<1>12. ASSUME NEW a \in Agents, ChangeCode(a) \/ StrayEnds(a) PROVE JudgedInv'
  <2>1. /\ setup' = setup /\ pc' = pc /\ results' = results /\ done' = done
        /\ strayed' = strayed /\ (strays = {} => strays' = {})
    BY <1>12 DEF ChangeCode, StrayEnds, report, loop
  <2>2. CASE strayed
    BY <2>1, <2>2
  <2>3. CASE ~strayed
    <3>1. \/ fresh' = fresh
          \/ pc # "gates" /\ "develop" \notin done
      BY <1>12, <2>3 DEF ChangeCode, StrayEnds, Alive, AgentInv
    <3> QED BY <2>1, <2>3, <3>1
  <2> QED BY <2>2, <2>3
<1>13. ASSUME NEW a \in Agents, AgentStep(a) PROVE JudgedInv'
  BY <1>13, AgentStepsStayInside DEF Stage, report, loop, history
<1>14. ASSUME NEW a \in Agents, ReadFails(a) PROVE JudgedInv'
  BY <1>14 DEF ReadFails, report, loop
<1> QED BY <1>1, <1>2, <1>3, <1>4, <1>5, <1>6, <1>7, <1>8, <1>9, <1>10, <1>11, <1>12,
           <1>13, <1>14, StepsAre

-----------------------------------------------------------------------------
(* The artifacts.                                                          *)

\* A required file that was configured and is valid once the blocks were
\* extracted was written from a block of this turn.
LEMMA ValidIsCurrent ==
  ASSUME TypeOK, Valid(Extracted), NEW n \in setup.required \cap StageFiles
  PROVE  /\ Extracted[n].turn = turn
         /\ n[2] \notin Schemaless => Extracted[n].block = n[2]
<1>1. n \in Files /\ n \in setup.required
  BY SetupShape
<1>2. setup.json > 0
  BY SetupShape DEF StageFiles, Width
<1>3. n[1] = Owner
  BY DEF StageFiles
<1>4. Extracted[n].turn # 0 /\ Fits(n, Extracted[n].block)
  BY <1>1 DEF Valid
<1>5. Extracted[n] = NoFile
      \/ Extracted[n].turn = turn
  BY <1>1, <1>2 DEF Extracted
<1>6. Extracted[n].turn = turn
  BY <1>4, <1>5 DEF NoFile
<1> QED BY <1>3, <1>4, <1>6 DEF Fits

\* No step goes on with artifacts of an earlier turn.
LEMMA FilesKept ==
  ASSUME TypeOK, PlaceInv, ArtifactsAreCurrent, Next PROVE ArtifactsAreCurrent'
<1> USE DEF ArtifactsAreCurrent, StageFiles
<1>1. CASE Start \/ Resume
  BY <1>1 DEF Start, Resume, Launch
<1>2. CASE Crash
  BY <1>2 DEF Crash, report, loop
<1>3. CASE Enter \/ GatesRetry
  BY <1>3 DEF Enter, GatesRetry, BeginTurn, report, PlaceInv
<1>4. CASE EnterNothing
  BY <1>4 DEF EnterNothing, Continue
<1>5. CASE AgentsFail
  BY <1>5 DEF AgentsFail, Finish, PlaceInv
<1>6. CASE Collect
  <2>1. file' = Extracted /\ turn' = turn /\ setup' = setup /\ Valid(Extracted)
    BY <1>6 DEF Collect
  <2> QED BY <2>1, ValidIsCurrent
<1>7. CASE RunGate
  BY <1>7 DEF RunGate, report
<1>8. CASE GatesPass
  <2>1. setup' = setup /\ file' = file /\ turn' = turn /\ pc = "gates"
    BY <1>8 DEF GatesPass
  <2> QED BY <2>1
<1>9. CASE VerifyStage
  <2>1. setup' = setup /\ file' = file /\ turn' = turn /\ pc = "verify" /\ pc' # "gates"
    BY <1>9 DEF VerifyStage, Finish, Continue, loop
  <2> QED BY <2>1 DEF PlaceInv
<1>10. CASE HardAccept \/ SoftAccept
  BY <1>10 DEF HardAccept, SoftAccept, Finish, loop
<1>11. CASE Ending
  BY <1>11 DEF Ending, Blocked, EnterRefused, GateRaises, GatesFail, VerifyRaises,
               AwaitAcceptance, RefuseAcceptance, Finish, loop
<1>12. ASSUME NEW a \in Agents, ReadFails(a) \/ ChangeCode(a) \/ StrayEnds(a)
       PROVE  ArtifactsAreCurrent'
  BY <1>12 DEF ReadFails, ChangeCode, StrayEnds, report, loop
<1>13. ASSUME NEW a \in Agents, AgentStep(a) PROVE ArtifactsAreCurrent'
  BY <1>13, AgentStepsStayInside DEF Stage, report, loop
<1> QED BY <1>1, <1>2, <1>3, <1>4, <1>5, <1>6, <1>7, <1>8, <1>9, <1>10, <1>11, <1>12,
           <1>13, StepsAre

-----------------------------------------------------------------------------
(* What the harness found.                                                 *)

\* A verification that did not fail found nothing that blocks.
LEMMA PassedIsClean ==
  ASSUME NEW found \in SUBSET DOMAIN Checks, NEW uncommitted \in SUBSET DOMAIN Checks,
         ~FailsVerification(found, uncommitted),
         NEW i \in found, CheckResult(i, found, uncommitted) # "not run",
         i \notin uncommitted
  PROVE  ~BlockingCheck(Checks[i])
<1>1. CheckResult(i, found, uncommitted) # "fail"
  BY DEF FailsVerification
<1>2. Checks[i].kind # "none"
  BY DEF CheckResult
<1> QED BY <1>1, <1>2 DEF CheckResult

\* harness_verify completes only with nothing that blocks.
LEMMA CheckedKept ==
  ASSUME TypeOK, PlaceInv, CheckedInv, Next PROVE CheckedInv'
<1> USE DEF CheckedInv
<1> runs \in Seq(StageRuns) /\ rounds \in Seq(StageRuns)
  BY DEF TypeOK
<1>1. CASE Start \/ Resume
  BY <1>1 DEF Start, Resume, Launch
<1>2. CASE Crash
  BY <1>2 DEF Crash, report
<1>3. CASE Enter \/ GatesRetry
  BY <1>3 DEF Enter, GatesRetry, report
<1>4. CASE EnterNothing \/ Collect \/ GatesPass
  <2>1. broken' = broken /\ (done' = done \/ done' = done \cup {"develop"})
    BY <1>4, DevelopIsAdded DEF EnterNothing, Collect, GatesPass, report
  <2> QED BY <2>1
<1>5. CASE AgentsFail
  BY <1>5 DEF AgentsFail
<1>7. CASE RunGate
  BY <1>7 DEF RunGate, report
<1>9. CASE VerifyStage
  <2>1. PICK found \in SUBSET DOMAIN Checks, uncommitted \in SUBSET DOMAIN Checks :
          /\ broken' = {i \in found : CheckResult(i, found, uncommitted) # "not run"
                                      /\ i \notin uncommitted}
          /\ FailsVerification(found, uncommitted) => done' = done
    BY <1>9 DEF VerifyStage
  <2>2. "verify" \notin done
    BY <1>9 DEF VerifyStage, PlaceInv
  <2>3. CASE FailsVerification(found, uncommitted)
    BY <2>1, <2>2, <2>3
  <2>4. CASE ~FailsVerification(found, uncommitted)
    BY <2>1, <2>4, PassedIsClean
  <2> QED BY <2>3, <2>4
<1>10. CASE HardAccept \/ SoftAccept
  BY <1>10 DEF HardAccept, SoftAccept
<1>11. CASE Ending
  BY <1>11 DEF Ending, Blocked, EnterRefused, GateRaises, GatesFail, VerifyRaises,
               AwaitAcceptance, RefuseAcceptance
<1>12. ASSUME NEW a \in Agents, ReadFails(a) \/ ChangeCode(a) \/ StrayEnds(a)
       PROVE  CheckedInv'
  BY <1>12 DEF ReadFails, ChangeCode, StrayEnds, report
<1>13. ASSUME NEW a \in Agents, AgentStep(a) PROVE CheckedInv'
  BY <1>13, AgentStepsStayInside DEF Stage, report
<1> QED BY <1>1, <1>2, <1>3, <1>4, <1>5, <1>7, <1>9, <1>10, <1>11, <1>12, <1>13, StepsAre

-----------------------------------------------------------------------------
(* The verdict.                                                            *)

\* A run that is ready has completed, and no approval is missing.
LEMMA ReadyMeans ==
  ASSUME NEW st, NEW stages, NEW ok \in BOOLEAN, Readiness(st, stages, ok) = "Ready"
  PROVE  st = "completed" /\ MissingApprovals(stages, ok) = {}
BY DEF Readiness

\* The acceptance is the last stage run that is reported.
LEMMA AcceptanceIsLast ==
  ASSUME NEW stages, runs \in Seq(StageRuns),
         stages = Append(runs, StageRun("accept", "completed", <<>>))
  PROVE  Len(stages) \in DOMAIN stages /\ stages[Len(stages)].stage = "accept"
<1>1. StageRun("accept", "completed", <<>>) \in StageRuns
  BY DEF StageRun, StageRuns
<1>2. stages \in Seq(StageRuns) /\ Len(stages) = Len(runs) + 1
  BY <1>1
<1>3. stages[Len(stages)] = StageRun("accept", "completed", <<>>)
  BY <1>1, <1>2
<1> QED BY <1>2, <1>3 DEF StageRun

\* A verdict is given when a run ends, and stays with it.
LEMMA VerdictKept ==
  ASSUME TypeOK, PlaceInv, VerdictInv, Next PROVE VerdictInv'
<1> USE DEF VerdictInv
<1> /\ runs \in Seq(StageRuns) /\ approved \in BOOLEAN
    /\ verdict \in {"none", "Ready", "Not Ready"}
  BY DEF TypeOK
<1>1. CASE Start \/ Resume
  BY <1>1 DEF Start, Resume, Launch
<1>2. CASE Crash
  BY <1>2 DEF Crash, report, human
<1>3. CASE Enter \/ GatesRetry
  BY <1>3 DEF Enter, GatesRetry, report, human
<1>4. CASE EnterNothing
  BY <1>4 DEF EnterNothing, Continue
<1>5. CASE AgentsFail
  <2>1. PICK stages : verdict' = Readiness("failed", stages, approved)
    BY <1>5 DEF AgentsFail, Finish
  <2> QED BY <2>1 DEF Readiness
<1>6. CASE Collect
  BY <1>6 DEF Collect, Continue, report
<1>7. CASE RunGate
  BY <1>7 DEF RunGate, report
<1>8. CASE GatesPass
  BY <1>8 DEF GatesPass, Continue
<1>9. CASE VerifyStage
  <2>1. \/ verdict' = verdict
        \/ \E stages : verdict' = Readiness("failed", stages, approved)
    BY <1>9 DEF VerifyStage, Finish, Continue
  <2>2. pc = "verify"
    BY <1>9 DEF VerifyStage
  <2> QED BY <2>1, <2>2 DEF Readiness
<1>10. CASE HardAccept
  BY <1>10 DEF HardAccept, Finish, PlaceInv
<1>11. CASE SoftAccept
  <2> DEFINE stages == Append(runs, StageRun("accept", "completed", <<>>))
  <2>1. /\ pc = "accept" /\ pc' = "off" /\ status' = "completed" /\ done' = done
        /\ approved' = approved /\ verdict' = Readiness("completed", stages, approved)
    BY <1>11 DEF SoftAccept, Finish, human
  <2>2. Len(stages) \in DOMAIN stages /\ stages[Len(stages)].stage = "accept"
    BY AcceptanceIsLast
  <2>3. ASSUME verdict' = "Ready" PROVE approved
    <3>1. MissingApprovals(stages, approved) = {}
      BY <2>1, <2>3, ReadyMeans
    <3> QED BY <3>1, <2>2 DEF MissingApprovals
  <2> QED BY <2>1, <2>3 DEF PlaceInv
<1>12. CASE Ending
  <2>1. PICK st \in {"failed", "paused"} :
          \E stages : verdict' = Readiness(st, stages, approved)
    BY <1>12 DEF Ending, Blocked, EnterRefused, GateRaises, GatesFail, VerifyRaises,
                 AwaitAcceptance, RefuseAcceptance, Finish
  <2> QED BY <2>1 DEF Readiness
<1>13. ASSUME NEW a \in Agents, ReadFails(a) \/ ChangeCode(a) \/ StrayEnds(a)
       PROVE  VerdictInv'
  BY <1>13 DEF ReadFails, ChangeCode, StrayEnds, report, human
<1>14. ASSUME NEW a \in Agents, AgentStep(a) PROVE VerdictInv'
  BY <1>14, AgentStepsStayInside DEF Stage, report, human
<1> QED BY <1>1, <1>2, <1>3, <1>4, <1>5, <1>6, <1>7, <1>8, <1>9, <1>10, <1>11, <1>12,
           <1>13, <1>14, StepsAre

-----------------------------------------------------------------------------
(* Types.                                                                  *)

\* What an agent may say consists of blocks, and Idle is the state of an agent.
LEMMA AgentTypeKept ==
  ASSUME TypeOK, Next
  PROVE  /\ agent' \in [Agents -> [thread : {"idle", "reading", "ended", "raised"},
                          process : {"none", "unread", "busy", "closed", "zero", "nonzero"},
                          line : BOOLEAN, late : BOOLEAN,
                          status : {"running", "completed", "failed", "timeout"},
                          says : Seq(Blocks)]]
         /\ output' \in [Agents -> [turn : Nat, says : Seq(Blocks)]]
<1> DEFINE Mode == [thread : {"idle", "reading", "ended", "raised"},
                    process : {"none", "unread", "busy", "closed", "zero", "nonzero"},
                    line : BOOLEAN, late : BOOLEAN,
                    status : {"running", "completed", "failed", "timeout"},
                    says : Seq(Blocks)]
           Said == [turn : Nat, says : Seq(Blocks)]
<1> SUFFICES agent' \in [Agents -> Mode] /\ output' \in [Agents -> Said]
  OBVIOUS
<1>0. agent \in [Agents -> Mode] /\ output \in [Agents -> Said] /\ turn \in Nat
  BY DEF TypeOK
<1>1. Idle \in Mode
  BY DEF Idle
<1> HIDE DEF Mode, Said
<1>2. CASE Start \/ Resume \/ Crash \/ Enter \/ GatesRetry
  BY <1>0, <1>1, <1>2 DEF Start, Resume, Launch, Crash, Enter, GatesRetry, BeginTurn
<1>3. CASE \/ EnterNothing \/ AgentsFail \/ Collect \/ RunGate \/ GatesPass
           \/ VerifyStage \/ HardAccept \/ SoftAccept \/ Ending
  BY <1>0, <1>3 DEF EnterNothing, AgentsFail, Collect, RunGate, GatesPass, VerifyStage,
                    HardAccept, SoftAccept, Ending, Blocked, EnterRefused, GateRaises,
                    GatesFail, VerifyRaises, AwaitAcceptance, RefuseAcceptance
<1>4. ASSUME NEW a \in Agents, ChangeCode(a) \/ StrayEnds(a)
      PROVE  agent' = agent /\ output' = output
  BY <1>4 DEF ChangeCode, StrayEnds
<1>5. ASSUME NEW a \in Agents, LaunchAgent(a) \/ LaunchUnknown(a)
      PROVE  agent' \in [Agents -> Mode] /\ output' \in [Agents -> Said]
  <2>1. agent' \in [Agents -> Mode]
    <3>1. PICK t \in {"reading", "ended", "raised"},
               p \in {"unread", "busy", agent[a].process},
               s \in {"failed", agent[a].status} :
            agent' = [agent EXCEPT ![a] = [agent[a] EXCEPT !.thread = t, !.process = p,
                                                          !.status = s]]
      <4>1. CASE agent' = [agent EXCEPT ![a].thread = "reading", ![a].process = "busy"]
        BY <1>0, <4>1 DEF Mode
      <4>1a. CASE agent' = [agent EXCEPT ![a].thread = "reading", ![a].process = "unread"]
        BY <1>0, <4>1a DEF Mode
      <4>2. CASE agent' = [agent EXCEPT ![a].thread = "ended", ![a].status = "failed"]
        BY <1>0, <4>2 DEF Mode
      <4>3. CASE agent' = [agent EXCEPT ![a].thread = "raised", ![a].status = "failed"]
        BY <1>0, <4>3 DEF Mode
      <4> QED BY <1>5, <4>1, <4>1a, <4>2, <4>3 DEF LaunchAgent, LaunchUnknown, Begun
    <3>2. agent[a] \in Mode
      BY <1>0
    <3>3. [agent[a] EXCEPT !.thread = t, !.process = p, !.status = s] \in Mode
      BY <3>2 DEF Mode
    <3> QED BY <1>0, <3>1, <3>3
  <2>2. [turn |-> turn, says |-> <<>>] \in Said
    BY <1>0 DEF Said
  <2> QED BY <1>0, <1>5, <2>1, <2>2 DEF LaunchAgent, LaunchUnknown
<1>6. ASSUME NEW a \in Agents,
             \/ TakePrompt(a) \/ PrintLine(a) \/ CloseOutput(a) \/ ExitAgent(a)
             \/ TimePasses(a)
      PROVE  agent' \in [Agents -> Mode] /\ output' \in [Agents -> Said]
  <2>0. agent[a] \in Mode
    BY <1>0
  <2>1. \A said \in setup.says : said \in Seq(Blocks)
    BY SetupShape
  <2>2. PICK now : /\ Child(a, now)
                   /\ \/ now = [agent[a] EXCEPT !.process = "busy"]
                      \/ now = [agent[a] EXCEPT !.line = TRUE]
                      \/ now = [agent[a] EXCEPT !.process = "closed"]
                      \/ \E said \in setup.says :
                           now = [agent[a] EXCEPT !.process = "zero", !.says = said]
                      \/ now = [agent[a] EXCEPT !.process = "nonzero"]
                      \/ now = [agent[a] EXCEPT !.late = TRUE]
    BY <1>6, Zenon DEF TakePrompt, PrintLine, CloseOutput, ExitAgent, TimePasses
  <2>3. now \in Mode
    BY <2>0, <2>1, <2>2 DEF Mode
  <2> QED BY <1>0, <2>2, <2>3 DEF Child
<1>7. ASSUME NEW a \in Agents, Reader(a)
      PROVE  agent' \in [Agents -> Mode] /\ output' \in [Agents -> Said]
  <2>0. agent[a] \in Mode /\ output[a] \in Said
    BY <1>0
  <2>1. CASE ReadToTheEnd(a)
    <3>0. ASSUME NEW st \in {"completed", "failed"}, NEW said \in Seq(Blocks)
          PROVE  [agent[a] EXCEPT !.thread = "ended", !.line = FALSE, !.late = FALSE,
                    !.says = said, !.process = "none", !.status = st] \in Mode
      BY <2>0 DEF Mode
    <3>0a. <<>> \in Seq(Blocks)
      OBVIOUS
    <3>1. [agent[a] EXCEPT !.thread = "ended", !.line = FALSE, !.late = FALSE,
              !.says = <<>>, !.process = "none",
              !.status = IF agent[a].process = "zero" THEN "completed" ELSE "failed"]
            \in Mode
      <4>1. CASE agent[a].process = "zero"
        BY <3>0, <3>0a, <4>1, Zenon
      <4>2. CASE agent[a].process # "zero"
        BY <3>0, <3>0a, <4>2, Zenon
      <4> QED BY <4>1, <4>2
    <3>2. [output[a] EXCEPT !.says = agent[a].says] \in Said
      BY <2>0 DEF Mode, Said
    <3>3. output' = [output EXCEPT ![a] = [output[a] EXCEPT !.says = agent[a].says]]
      BY <2>1 DEF ReadToTheEnd
    <3> QED BY <1>0, <2>1, <3>1, <3>2, <3>3 DEF ReadToTheEnd, Go
  <2>2. CASE TimeOut(a)
    <3>1. [agent[a] EXCEPT !.thread = "ended", !.line = FALSE, !.late = FALSE,
              !.process = "none", !.status = "timeout"] \in Mode
      BY <2>0 DEF Mode
    <3> QED BY <1>0, <2>2, <3>1 DEF TimeOut, Go
  <2>3. CASE ReadOn(a)
    <3>1. [agent[a] EXCEPT !.line = FALSE] \in Mode
      BY <2>0 DEF Mode
    <3> QED BY <1>0, <2>3, <3>1 DEF ReadOn, Go
  <2> QED BY <1>7, <2>1, <2>2, <2>3 DEF Reader
<1>8. ASSUME NEW a \in Agents, AgentStep(a)
      PROVE  agent' \in [Agents -> Mode] /\ output' \in [Agents -> Said]
  BY <1>5, <1>6, <1>7, <1>8 DEF AgentStep
<1>9. ASSUME NEW a \in Agents, ReadFails(a)
      PROVE  agent' \in [Agents -> Mode] /\ output' \in [Agents -> Said]
  <2>1. [Idle EXCEPT !.thread = "ended", !.status = "failed"] \in Mode
    BY <1>1 DEF Mode
  <2> QED BY <1>0, <1>9, <2>1 DEF ReadFails
<1> QED BY <1>0, <1>2, <1>3, <1>4, <1>8, <1>9, StepsAre

\* What a resume restores is a stage run for each stage of the checkpoint.
LEMMA RestoredRuns ==
  ASSUME TypeOK
  PROVE  [i \in 1..Cardinality(done) |-> Restored(StageIds[i])] \in Seq(StageRuns)
<1>1. Cardinality(done) \in 0..2
  <2>1. done \subseteq {"develop", "verify"}
    BY DEF TypeOK
  <2>2. IsFiniteSet({"develop"}) /\ Cardinality({"develop"}) = 1
    BY FS_Singleton
  <2>3. {"develop", "verify"} = {"develop"} \cup {"verify"}
    OBVIOUS
  <2>4. IsFiniteSet({"develop", "verify"}) /\ Cardinality({"develop", "verify"}) = 2
    BY <2>2, <2>3, FS_AddElement
  <2>5. IsFiniteSet(done) /\ Cardinality(done) <= 2
    BY <2>1, <2>4, FS_Subset
  <2>6. Cardinality(done) \in Nat
    BY <2>5, FS_CardinalityType
  <2> QED BY <2>5, <2>6
<1>2. ASSUME NEW i \in 1..Cardinality(done) PROVE Restored(StageIds[i]) \in StageRuns
  <2>1. StageIds[i] \in {"develop", "verify", "accept"}
    BY <1>1 DEF StageIds
  <2>2. StageRun(StageIds[i], "completed", <<>>) \in StageRuns
    BY <2>1 DEF StageRun, StageRuns
  <2>3. saved \in Seq(StageRuns)
    BY DEF TypeOK
  <2>4. \A k \in DOMAIN saved : saved[k] \in StageRuns
    BY <2>3
  <2> QED BY <2>2, <2>4 DEF Restored
<1> DEFINE n == Cardinality(done)
           f == [i \in 1..n |-> Restored(StageIds[i])]
<1>3. n \in Nat /\ f \in [1..n -> StageRuns]
  <2>1. n \in Nat
    BY <1>1
  <2>2. f \in [1..n -> StageRuns]
    BY <1>2, Zenon
  <2> QED BY <2>1, <2>2
<1> HIDE DEF n, f
<1>4. f \in Seq(StageRuns)
  BY <1>3, SeqDef
<1> QED BY <1>4 DEF f, n

\* The files that are extracted hold blocks.
LEMMA ExtractedFiles ==
  ASSUME TypeOK, setup.agents # <<>>
  PROVE  Extracted \in [Files -> [turn : Nat, block : Blocks]]
<1> DEFINE Entry == [turn : Nat, block : Blocks]
<1>1. turn \in Nat /\ file \in [Files -> Entry] /\ NoFile \in Entry
  <2>1. turn \in Nat /\ file \in [Files -> Entry]
    BY DEF TypeOK
  <2>2. NoFile \in Entry
    BY DEF NoFile, Blocks, Width
  <2> QED BY <2>1, <2>2
<1>2. \A a \in Agents : output[a].says \in Seq(Blocks)
  BY DEF TypeOK
<1>3. \A b \in Blocks : [turn |-> turn, block |-> b] \in Entry
  BY <1>1
<1> HIDE DEF Entry
<1>4. CASE setup.json > 0
  <2> DEFINE said == Selected(output[setup.agents[1]].says)
  <2>1. setup.agents[1] \in Agents /\ setup.json \in 0..Width
    BY SetupShape
  <2>2. said \in Seq(Blocks)
    <3> DEFINE all == output[setup.agents[1]].says
    <3>1. all \in Seq(Blocks)
      BY <1>2, <2>1
    <3> HIDE DEF all
    <3>2. CASE Len(all) >= setup.json
      <4>1. Len(all) - setup.json + 1 \in 1..(Len(all) + 1) /\ Len(all) \in Nat
        BY <3>1, <3>2, <1>4, <2>1
      <4>2. SubSeq(all, Len(all) - setup.json + 1, Len(all)) \in Seq(Blocks)
        BY <3>1, <4>1
      <4> QED BY <3>2, <4>2 DEF Selected, all
    <3> QED BY <3>1, <3>2 DEF Selected, all
  <2>3. ASSUME NEW n \in Files, n \in StageFiles, n[2] <= Len(said)
        PROVE  [turn |-> turn, block |-> said[n[2]]] \in Entry
    <3>1. n[2] \in 1..Len(said)
      BY <2>1, <2>2, <2>3 DEF StageFiles, Width
    <3> QED BY <1>3, <2>2, <3>1
  <2>4. Extracted = [n \in Files |-> IF n \notin StageFiles THEN file[n]
                                    ELSE IF n[2] <= Len(said)
                                    THEN [turn |-> turn, block |-> said[n[2]]] ELSE NoFile]
    BY <1>4 DEF Extracted
  <2> HIDE DEF said
  <2> QED BY <1>1, <2>3, <2>4 DEF Entry
<1>5. CASE ~(setup.json > 0)
  <2> DEFINE NamesFor(a) == IF Len(output[a].says) = 1 THEN {<<a, 0>>}
                            ELSE {<<a, i>> : i \in DOMAIN output[a].says}
  <2>1. ASSUME NEW n \in Files, n[1] \in Names, n \in NamesFor(n[1])
        PROVE  [turn |-> turn, block |-> output[n[1]].says[Max({1, n[2]})]] \in Entry
    <3> DEFINE says == output[n[1]].says
    <3>1. says \in Seq(Blocks)
      BY <1>2, <2>1, NamesAreAgents
    <3>2. Max({1, n[2]}) \in DOMAIN says
      <4>1. CASE Len(says) = 1
        <5>1. n[2] = 0
          BY <2>1, <4>1
        <5>2. Max({1, 0}) = 1
          BY DEF Max
        <5> QED BY <3>1, <4>1, <5>1, <5>2
      <4>2. CASE Len(says) # 1
        <5>1. n[2] \in DOMAIN says
          BY <2>1, <4>2
        <5>2. n[2] \in Nat /\ n[2] >= 1
          BY <3>1, <5>1
        <5>3. Max({1, n[2]}) = n[2]
          BY <5>2 DEF Max
        <5> QED BY <5>1, <5>3
      <4> QED BY <4>1, <4>2
    <3>3. says[Max({1, n[2]})] \in Blocks
      BY <3>1, <3>2
    <3> QED BY <1>3, <3>3
  <2>2. Extracted = [n \in Files |-> IF n[1] \in Names /\ n \in NamesFor(n[1])
                       THEN [turn |-> turn, block |-> output[n[1]].says[Max({1, n[2]})]]
                       ELSE file[n]]
    BY <1>5 DEF Extracted
  <2> HIDE DEF NamesFor
  <2> QED BY <1>1, <2>1, <2>2 DEF Entry
<1> QED BY <1>4, <1>5

\* Every step keeps every variable within its type.
LEMMA TypeKept == ASSUME TypeOK, PlaceInv, Next PROVE TypeOK'
<1> DEFINE Mode == [thread : {"idle", "reading", "ended", "raised"},
                    process : {"none", "unread", "busy", "closed", "zero", "nonzero"},
                    line : BOOLEAN, late : BOOLEAN,
                    status : {"running", "completed", "failed", "timeout"},
                    says : Seq(Blocks)]
           Said == [turn : Nat, says : Seq(Blocks)]
           Entry == [turn : Nat, block : Blocks]
<1> DEFINE Small ==
             /\ setup \in Setups
             /\ pc \in {"off", "develop", "agents", "gates", "verify", "accept"}
             /\ turn \in Nat /\ retry \in Nat
             /\ results \in Seq(Statuses) /\ Len(results) <= Len(Gates)
             /\ decision \in BOOLEAN /\ approved \in BOOLEAN
             /\ broken \subseteq DOMAIN Checks
             /\ done \subseteq {"develop", "verify"}
             /\ status \in {"absent", "running", "paused", "completed", "failed"}
             /\ verdict \in {"none", "Ready", "Not Ready"}
             /\ fresh \subseteq DOMAIN Gates
             /\ strays \subseteq Agents /\ strayed \in BOOLEAN
             /\ crashes \in 0..MaxCrashes /\ resumes \in 0..MaxResumes
           Runs == rounds \in Seq(StageRuns) /\ runs \in Seq(StageRuns)
                   /\ saved \in Seq(StageRuns)
           Made == file \in [Files -> Entry]
<1>0. Small /\ Runs /\ Made
  BY DEF TypeOK
<1>a. /\ rounds \in Seq(StageRuns) /\ runs \in Seq(StageRuns) /\ saved \in Seq(StageRuns)
      /\ results \in Seq(Statuses)
  BY <1>0
<1>b. resumes \in 0..MaxResumes /\ crashes \in 0..MaxCrashes /\ decision \in BOOLEAN
  BY <1>0
<1>c. turn \in Nat /\ retry \in Nat
  BY <1>0
<1>1. Len(Gates) \in Nat
  <2>1. Gates \in Seq([name : STRING, kind : GateKinds, command : BOOLEAN,
                       required : BOOLEAN, retries : Nat])
    BY StageWorkAssumption DEF StageWorkAssumption
  <2> QED BY <2>1
<1>2. MaxCrashes \in Nat /\ MaxResumes \in Nat
  BY StageWorkAssumption DEF StageWorkAssumption
<1>3. ASSUME NEW s \in {"develop", "verify", "accept"},
             NEW st \in {"completed", "failed", "skipped", "waiting"},
             NEW g \in {<<>>, results}
      PROVE  StageRun(s, st, g) \in StageRuns
  <2>1. g \in Seq(Statuses)
    <3>1. <<>> \in Seq(Statuses)
      OBVIOUS
    <3> QED BY <3>1, <1>a, Zenon
  <2> QED BY <2>1 DEF StageRun, StageRuns
<1>4. \A st, stages, ok : Readiness(st, stages, ok) \in {"none", "Ready", "Not Ready"}
  BY DEF Readiness
<1>5. <<>> \in Seq(Statuses) /\ Len(<<>>) = 0 /\ <<>> \in Seq(StageRuns)
  OBVIOUS
<1> HIDE DEF Mode, Said, Entry
<1>10. CASE Start \/ Resume
  <2>1. Small'
    <3>1. /\ pc' \in {"accept", "verify", "develop"} /\ status' = "running" /\ retry' = 0
          /\ UNCHANGED <<setup, turn, results, done, approved, broken, verdict, fresh,
                         strays, strayed, crashes>>
      BY <1>10 DEF Start, Resume, Launch
    <3>2. decision' \in BOOLEAN
      BY <1>0, <1>10 DEF Start, Resume
    <3>3. resumes' \in 0..MaxResumes
      BY <1>b, <1>2, <1>10 DEF Start, Resume
    <3> QED BY <1>0, <3>1, <3>2, <3>3
  <2>2. Runs' /\ Made'
    BY <1>0, <1>5, <1>10, RestoredRuns DEF Start, Resume, Launch
  <2> QED BY <2>1, <2>2, AgentTypeKept DEF TypeOK, Entry
<1>11. CASE Crash
  <2>1. Small'
    <3>1. /\ pc' = "off" /\ strays' \subseteq strays \cup Agents
          /\ strayed' = (strayed \/ strays' # {})
          /\ UNCHANGED <<setup, turn, retry, results, decision, approved, done, broken,
                         status, verdict, fresh, resumes>>
      BY <1>11 DEF Crash, report, human, loop
    <3>2. crashes' \in 0..MaxCrashes
      BY <1>b, <1>2, <1>11 DEF Crash
    <3> QED BY <1>0, <3>1, <3>2
  <2>2. Runs' /\ Made'
    BY <1>0, <1>11 DEF Crash, report, loop
  <2> QED BY <2>1, <2>2, AgentTypeKept DEF TypeOK, Entry
<1>12. CASE Enter \/ GatesRetry
  <2>1. Small'
    <3>1. /\ pc' = "agents" /\ turn' = turn + 1 /\ retry' \in {retry, retry + 1}
          /\ results' = <<>>
          /\ UNCHANGED <<setup, decision, approved, done, broken, status, verdict, fresh,
                         strays, strayed, crashes, resumes>>
      BY <1>12 DEF Enter, GatesRetry, BeginTurn, report, human, history
    <3>2. turn' \in Nat /\ retry' \in Nat
      BY <1>c, <3>1
    <3>3. results' \in Seq(Statuses) /\ Len(results') <= Len(Gates)
      BY <1>1, <1>5, <3>1
    <3> QED BY <1>0, <3>1, <3>2, <3>3
  <2>2. StageRun("develop", "completed", results) \in StageRuns
    BY <1>3
  <2>3. Runs' /\ Made'
    <3>1. /\ rounds' \in {rounds, Append(rounds, StageRun("develop", "completed", results))}
          /\ runs' = runs /\ saved' = saved /\ file' = file
      BY <1>12 DEF Enter, GatesRetry, report
    <3>2. Append(rounds, StageRun("develop", "completed", results)) \in Seq(StageRuns)
      BY <1>a, <2>2
    <3> QED BY <1>0, <3>1, <3>2
  <2> QED BY <2>1, <2>3, AgentTypeKept DEF TypeOK, Entry
<1>13. CASE EnterNothing \/ Collect \/ GatesPass
  <2>1. Small'
    <3>1. pc' \in {"verify", "gates"} /\ done' \subseteq {"develop", "verify"}
      BY <1>0, <1>13, DevelopIsAdded DEF report
    <3> QED BY <1>0, <1>1, <1>2, <1>13, <3>1
         DEF EnterNothing, Collect, GatesPass, Continue, report, human, history, loop
  <2>2. Runs'
    <3>1. /\ StageRun("develop", "skipped", <<>>) \in StageRuns
          /\ StageRun("develop", "completed", <<>>) \in StageRuns
          /\ StageRun("develop", "completed", results) \in StageRuns
      BY <1>3
    <3>2. CASE EnterNothing
      BY <1>0, <3>1, <3>2, LastOfReport DEF EnterNothing, Continue, loop
    <3>3. CASE Collect
      <4>1. runs \o Append(rounds, StageRun("develop", "completed", <<>>)) \in Seq(StageRuns)
        BY <1>0, <3>1, LastOfReport
      <4>2. CASE Gates # <<>>
        BY <1>0, <3>3, <4>2 DEF Collect, report
      <4>3. CASE Gates = <<>>
        BY <1>5, <3>3, <4>1, <4>3 DEF Collect, Continue
      <4> QED BY <4>2, <4>3
    <3>4. CASE GatesPass
      BY <1>0, <1>5, <3>1, <3>4, LastOfReport DEF GatesPass, AllRounds, Continue
    <3> QED BY <1>13, <3>2, <3>3, <3>4
  <2>3. Made'
    <3>1. file' = file \/ (file' = Extracted /\ setup.agents # <<>>)
      BY <1>13 DEF EnterNothing, Collect, GatesPass, PlaceInv
    <3> QED BY <1>0, <3>1, ExtractedFiles DEF Entry
  <2> QED BY <2>1, <2>2, <2>3, AgentTypeKept DEF TypeOK, Entry
<1>14. CASE AgentsFail
  <2>1. Small'
    BY <1>0, <1>1, <1>2, <1>4, <1>14 DEF AgentsFail, Finish, human, history
  <2>2. Runs'
    <3>1. StageRun("develop", "failed", <<>>) \in StageRuns
      BY <1>3
    <3> QED BY <1>0, <1>5, <1>14, <3>1, LastOfReport DEF AgentsFail, Finish
  <2>3. Made'
    <3>1. file' = file \/ (file' = Extracted /\ setup.agents # <<>>)
      BY <1>14 DEF AgentsFail, PlaceInv
    <3> QED BY <1>0, <3>1, ExtractedFiles DEF Entry
  <2> QED BY <2>1, <2>2, <2>3, AgentTypeKept DEF TypeOK, Entry
<1>15. CASE RunGate
  <2>1. results' \in Seq(Statuses) /\ Len(results') <= Len(Gates) /\ fresh' \subseteq DOMAIN Gates
    BY <1>15, GateResultsAre
  <2>2. Small' /\ Runs' /\ Made'
    BY <1>0, <1>15, <2>1 DEF RunGate, report, human
  <2> QED BY <2>2, AgentTypeKept DEF TypeOK, Entry
<1>16. CASE VerifyStage
  <2>1. /\ StageRun("verify", "completed", <<>>) \in StageRuns
        /\ StageRun("verify", "failed", <<>>) \in StageRuns
    BY <1>3
  <2>2. broken' \subseteq DOMAIN Checks
    BY <1>16 DEF VerifyStage
  <2>3. \/ Finish("failed", Append(runs, StageRun("verify", "failed", <<>>)), approved)
           /\ UNCHANGED done
        \/ Continue("accept", Append(runs, StageRun("verify", "completed", <<>>)))
    BY <1>16 DEF VerifyStage
  <2>4. done' \subseteq {"develop", "verify"}
    <3> DEFINE stages == Append(runs, StageRun("verify", "completed", <<>>))
    <3>1. stages[Len(stages)] = StageRun("verify", "completed", <<>>)
      BY <1>a, <2>1, LastOfReport
    <3>2. stages[Len(stages)].stage = "verify"
      BY <3>1 DEF StageRun
    <3>3. done' = done \/ done' = done \cup {stages[Len(stages)].stage}
      BY <2>3 DEF Continue
    <3> HIDE DEF stages
    <3> QED BY <1>0, <3>2, <3>3
  <2>5. /\ pc' \in {"off", "accept"}
        /\ status' \in {"failed", status}
        /\ verdict' \in {"none", "Ready", "Not Ready"}
        /\ runs' \in Seq(StageRuns) /\ saved' \in Seq(StageRuns)
    <3>1. /\ Append(runs, StageRun("verify", "completed", <<>>)) \in Seq(StageRuns)
          /\ Append(runs, StageRun("verify", "failed", <<>>)) \in Seq(StageRuns)
      BY <1>a, <2>1
    <3> QED BY <1>0, <1>4, <2>3, <3>1 DEF Continue, Finish
  <2>6. Small' /\ Runs' /\ Made'
    BY <1>0, <1>16, <2>2, <2>4, <2>5 DEF VerifyStage, loop, human, history
  <2> QED BY <2>6, AgentTypeKept DEF TypeOK, Entry
<1>17. CASE HardAccept \/ SoftAccept \/ Ending
  <2>1. PICK st \in {"completed", "paused", "failed"}, stages \in Seq(StageRuns),
             ok \in BOOLEAN : Finish(st, stages, ok)
    <3>1. CASE HardAccept \/ SoftAccept
      <4>1. StageRun("accept", "completed", <<>>) \in StageRuns
        BY <1>3
      <4>2. Append(runs, StageRun("accept", "completed", <<>>)) \in Seq(StageRuns)
        BY <1>a, <4>1
      <4> QED BY <1>0, <3>1, <4>2 DEF HardAccept, SoftAccept
    <3>2. CASE Blocked \/ GateRaises
      BY <1>0, <3>2 DEF Blocked, GateRaises
    <3>3. CASE EnterRefused
      <4>1. StageRun("develop", "failed", <<>>) \in StageRuns
        BY <1>3
      <4>2. Append(runs, StageRun("develop", "failed", <<>>)) \in Seq(StageRuns)
        BY <1>a, <4>1
      <4> QED BY <1>0, <3>3, <4>2 DEF EnterRefused
    <3>4. CASE GatesFail
      <4>1. StageRun("develop", "failed", results) \in StageRuns
        BY <1>3
      <4>2. runs \o Append(rounds, StageRun("develop", "failed", results)) \in Seq(StageRuns)
        BY <1>0, <4>1, LastOfReport
      <4> QED BY <1>0, <3>4, <4>2 DEF GatesFail, AllRounds
    <3>5. CASE VerifyRaises
      <4>1. StageRun("verify", "failed", <<>>) \in StageRuns
        BY <1>3
      <4>2. Append(runs, StageRun("verify", "failed", <<>>)) \in Seq(StageRuns)
        BY <1>a, <4>1
      <4> QED BY <1>0, <3>5, <4>2 DEF VerifyRaises
    <3>6. CASE AwaitAcceptance
      <4>1. StageRun("accept", "waiting", <<>>) \in StageRuns
        BY <1>3
      <4>2. Append(runs, StageRun("accept", "waiting", <<>>)) \in Seq(StageRuns)
        BY <1>a, <4>1
      <4> QED BY <1>0, <3>6, <4>2 DEF AwaitAcceptance
    <3>7. CASE RefuseAcceptance
      <4>1. StageRun("accept", "failed", <<>>) \in StageRuns
        BY <1>3
      <4>2. Append(runs, StageRun("accept", "failed", <<>>)) \in Seq(StageRuns)
        BY <1>a, <4>1
      <4> QED BY <1>0, <3>7, <4>2 DEF RefuseAcceptance
    <3> QED BY <1>17, <3>1, <3>2, <3>3, <3>4, <3>5, <3>6, <3>7 DEF Ending
  <2>2. /\ setup' = setup /\ turn' = turn /\ retry' = retry /\ results' = results
        /\ file' = file /\ done' = done /\ broken' = broken
        /\ decision' \in BOOLEAN /\ approved' \in BOOLEAN
        /\ rounds' \in {rounds, <<>>}
        /\ UNCHANGED history
    BY <1>0, <1>17 DEF HardAccept, SoftAccept, Ending, Blocked, EnterRefused, GateRaises,
         GatesFail, VerifyRaises, AwaitAcceptance, RefuseAcceptance, loop, human
  <2>3. /\ pc' = "off" /\ status' = st /\ runs' = stages /\ saved' = stages
        /\ verdict' \in {"none", "Ready", "Not Ready"}
    BY <1>4, <2>1 DEF Finish
  <2>4. Small' /\ Runs' /\ Made'
    BY <1>0, <1>5, <2>1, <2>2, <2>3 DEF history
  <2> QED BY <2>4, AgentTypeKept DEF TypeOK, Entry
<1>18. ASSUME NEW a \in Agents, ReadFails(a) \/ ChangeCode(a) \/ StrayEnds(a)
       PROVE  TypeOK'
  <2>1. /\ UNCHANGED <<setup, pc, loop, file, report, human, broken, crashes, resumes>>
        /\ fresh' \in {fresh, {}} /\ strays' \in {strays, strays \ {a}, strays \cup {a}}
    BY <1>18 DEF ReadFails, ChangeCode, StrayEnds
  <2>a. strayed' \in BOOLEAN
    <3>1. CASE ReadFails(a)
      BY <3>1 DEF ReadFails
    <3>2. CASE ChangeCode(a) \/ StrayEnds(a)
      BY <1>0, <3>2 DEF ChangeCode, StrayEnds
    <3> QED BY <1>18, <3>1, <3>2
  <2>2. Small'
    BY <1>0, <2>1, <2>a DEF loop, report, human
  <2>3. Runs' /\ Made'
    BY <1>0, <2>1 DEF loop, report
  <2> QED BY <2>2, <2>3, AgentTypeKept DEF TypeOK, Entry
<1>19. ASSUME NEW a \in Agents, AgentStep(a) PROVE TypeOK'
  <2>1. Small' /\ Runs' /\ Made'
    BY <1>0, <1>19, AgentStepsStayInside DEF Stage, loop, report, human, history
  <2> QED BY <2>1, AgentTypeKept DEF TypeOK, Entry
<1> QED BY <1>10, <1>11, <1>12, <1>13, <1>14, <1>15, <1>16, <1>17, <1>18, <1>19, StepsAre

-----------------------------------------------------------------------------
(* The theorems.                                                           *)

\* A run that was not started is as the invariant has it.
LEMMA InitHolds == ASSUME Init PROVE Inductive
<1> USE StageWorkAssumption DEF Init, StageWorkAssumption
<1>0. <<>> \in Seq(Statuses) /\ <<>> \in Seq(StageRuns) /\ <<>> \in Seq(Blocks) /\ Len(<<>>) = 0
  OBVIOUS
<1>1. TypeOK
  <2>1. Len(Gates) \in Nat
    OBVIOUS
  <2>2. NoFile \in [turn : Nat, block : Blocks]
    BY DEF NoFile, Blocks, Width
  <2>3. agent = [a \in Agents |-> Idle]
        /\ Idle \in [thread : {"idle", "reading", "ended", "raised"},
                     process : {"none", "unread", "busy", "closed", "zero", "nonzero"},
                     line : BOOLEAN, late : BOOLEAN,
                     status : {"running", "completed", "failed", "timeout"},
                     says : Seq(Blocks)]
    BY <1>0 DEF Idle
  <2>4. output \in [Agents -> [turn : Nat, says : Seq(Blocks)]]
    BY <1>0
  <2>5. file \in [Files -> [turn : Nat, block : Blocks]]
    BY <2>2
  <2>6. results \in Seq(Statuses) /\ Len(results) <= Len(Gates)
    BY <1>0, <2>1
  <2>7. rounds \in Seq(StageRuns) /\ runs \in Seq(StageRuns) /\ saved \in Seq(StageRuns)
    BY <1>0
  <2> HIDE DEF StageWorkAssumption
  <2>8. agent \in [Agents -> [thread : {"idle", "reading", "ended", "raised"},
                              process : {"none", "unread", "busy", "closed", "zero", "nonzero"},
                              line : BOOLEAN, late : BOOLEAN,
                              status : {"running", "completed", "failed", "timeout"},
                              says : Seq(Blocks)]]
    BY <2>3
  <2>9. crashes \in 0..MaxCrashes /\ resumes \in 0..MaxResumes
    BY DEF StageWorkAssumption
  <2> QED BY <2>4, <2>5, <2>6, <2>7, <2>8, <2>9 DEF TypeOK
<1>2. AgentInv
  BY DEF AgentInv, Idle
<1>3. PlaceInv /\ CheckedInv /\ VerdictInv
  BY DEF PlaceInv, CheckedInv, VerdictInv
<1>4. JudgedInv /\ ArtifactsAreCurrent
  BY DEF JudgedInv, ArtifactsAreCurrent
<1> QED BY <1>1, <1>2, <1>3, <1>4 DEF Inductive

\* The inductive invariant holds of every state of every behaviour.
THEOREM StageWorkIsInvariant == Spec => []Inductive
<1>1. Init => Inductive
  BY InitHolds
<1>2. Inductive /\ [Next]_vars => Inductive'
  <2> SUFFICES ASSUME Inductive, [Next]_vars PROVE Inductive'
    OBVIOUS
  <2>1. CASE Next
    <3>1. TypeOK' /\ AgentInv' /\ PlaceInv'
      BY <2>1, TypeKept, AgentKept, PlaceKept DEF Inductive
    <3>2. JudgedInv' /\ ArtifactsAreCurrent'
      BY <2>1, JudgedKept, FilesKept DEF Inductive
    <3>3. CheckedInv' /\ VerdictInv'
      BY <2>1, CheckedKept, VerdictKept DEF Inductive
    <3> QED BY <3>1, <3>2, <3>3 DEF Inductive
  <2>2. CASE UNCHANGED vars
    <3>1. /\ TypeOK' = TypeOK /\ AgentInv' = AgentInv /\ PlaceInv' = PlaceInv
          /\ JudgedInv' = JudgedInv /\ CheckedInv' = CheckedInv /\ VerdictInv' = VerdictInv
      BY <2>2 DEF vars, loop, report, human, history, TypeOK, AgentInv, PlaceInv, Names,
                  JudgedInv, CheckedInv, VerdictInv
    <3>2. ArtifactsAreCurrent' = ArtifactsAreCurrent
      BY <2>2 DEF vars, loop, report, ArtifactsAreCurrent, StageFiles
    <3> QED BY <3>1, <3>2 DEF Inductive
  <2> QED BY <2>1, <2>2
<1> QED BY <1>1, <1>2, PTL DEF Spec

\* Every variable keeps its type, whatever the agents do.
THEOREM TypeCorrect == Spec => []TypeOK
<1>1. Inductive => TypeOK
  BY DEF Inductive
<1> QED BY <1>1, StageWorkIsInvariant, PTL

\* The code that is passed on is the code the gates saw
\* (_run_develop_quality_loop).
THEOREM CodeIsJudged == Spec => []GatesJudgeLatestCode
<1>1. Inductive => GatesJudgeLatestCode
  BY DEF Inductive, JudgedInv, GatesJudgeLatestCode
<1> QED BY <1>1, StageWorkIsInvariant, PTL

\* Required artifacts are those of the last run (_extract_json_artifacts).
THEOREM ArtifactsAreOfLastRun == Spec => []ArtifactsAreCurrent
<1>1. Inductive => ArtifactsAreCurrent
  BY DEF Inductive
<1> QED BY <1>1, StageWorkIsInvariant, PTL

\* What is called ready was judged, verified and approved
\* (generate_release_readiness).
THEOREM ReadyDeserves == Spec => []ReadyIsDeserved
<1>1. Inductive => ReadyIsDeserved
  BY DEF Inductive, JudgedInv, CheckedInv, VerdictInv, ReadyIsDeserved
<1> QED BY <1>1, StageWorkIsInvariant, PTL

-----------------------------------------------------------------------------
(* How far an attempt is from its end.                                     *)

\* The retries of the quality loop that some gate still allows.
Retries == {n \in Nat : retry < n /\ \E i \in DOMAIN Gates : n <= Gates[i].retries}

\* The stages that are ahead of the worker.
Stretch ==
  CASE pc \in {"develop", "agents", "gates"} -> 3
    [] pc = "verify" -> 2
    [] pc = "accept" -> 1
    [] pc = "off" -> 0

RetriesLeft == Cardinality(Retries)

\* What is ahead in the round of the quality loop.
RoundLeft == CASE pc = "develop" -> 2 [] pc = "agents" -> 1 [] OTHER -> 0
ToLaunch == Cardinality({a \in Agents : agent[a].thread = "idle"})
ToRead == Cardinality({a \in Agents : agent[a].thread = "reading"})
GatesLeft == Len(Gates) - Len(results)

Rank == <<Stretch, RetriesLeft, RoundLeft, ToLaunch, ToRead, GatesLeft>>

Ranks == [1..6 -> Nat]
Descent == LexProductOrdering(OpToRel(<, Nat), Nat, 6)

\* Nothing descends for ever.
LEMMA DescentEnds == IsWellFoundedOn(Descent, Ranks)
BY NatLessThanWellFounded, WFLexProductOrdering DEF Descent, Ranks

\* What the gates look like.
LEMMA GatesShape ==
  /\ Len(Gates) \in Nat /\ DOMAIN Gates = 1..Len(Gates)
  /\ \A i \in DOMAIN Gates : Gates[i].retries \in Nat
<1>1. Gates \in Seq([name : STRING, kind : GateKinds, command : BOOLEAN,
                     required : BOOLEAN, retries : Nat])
  BY StageWorkAssumption DEF StageWorkAssumption
<1>2. Len(Gates) \in Nat /\ DOMAIN Gates = 1..Len(Gates)
  BY <1>1, LenProperties
<1>3. ASSUME NEW i \in DOMAIN Gates PROVE Gates[i].retries \in Nat
  <2>1. Gates[i] \in [name : STRING, kind : GateKinds, command : BOOLEAN,
                      required : BOOLEAN, retries : Nat]
    BY <1>1, <1>2, ElementOfSeq
  <2> QED BY <2>1
<1> QED BY <1>2, <1>3

\* The gates are finitely many.
LEMMA GatesCounted == IsFiniteSet(1..Len(Gates))
<1>1. 1 \in Int /\ Len(Gates) \in Int
  BY GatesShape
<1> QED BY <1>1, FS_Interval, Zenon

\* Retries are limited.
LEMMA RetriesFinite == ASSUME retry \in Nat PROVE IsFiniteSet(Retries)
<1> DEFINE T == {1..Gates[i].retries : i \in 1..Len(Gates)}
<1>1. IsFiniteSet(T)
  <2> DEFINE f == [i \in 1..Len(Gates) |-> 1..Gates[i].retries]
  <2>1. IsFiniteSet(1..Len(Gates))
    BY GatesCounted
  <2>2. f \in Surjection(1..Len(Gates), T)
    <3>1. f \in [1..Len(Gates) -> T]
      OBVIOUS
    <3>2. \A X \in T : \E i \in 1..Len(Gates) : f[i] = X
      OBVIOUS
    <3> QED BY <3>1, <3>2 DEF Surjection
  <2> HIDE DEF f, T
  <2> QED BY <2>1, <2>2, FS_Surjection
<1>2. \A X \in T : IsFiniteSet(X)
  <2>1. ASSUME NEW i \in 1..Len(Gates) PROVE IsFiniteSet(1..Gates[i].retries)
    <3> DEFINE n == Gates[i].retries
    <3>1. n \in Nat
      BY GatesShape
    <3> HIDE DEF n
    <3>2. IsFiniteSet(1..n)
      BY <3>1, FS_Interval
    <3> QED BY <3>2 DEF n
  <2> QED BY <2>1
<1>3. IsFiniteSet(UNION T)
  <2> HIDE DEF T
  <2> QED BY <1>1, <1>2, FS_UNION
<1>4. Retries \subseteq UNION T
  <2>1. ASSUME NEW n \in Retries PROVE n \in UNION T
    <3>1. PICK i \in 1..Len(Gates) : n <= Gates[i].retries
      BY GatesShape DEF Retries
    <3>2. n \in 1..Gates[i].retries
      BY <2>1, <3>1, GatesShape DEF Retries
    <3> QED BY <3>2
  <2> QED BY <2>1
<1> QED BY <1>3, <1>4, FS_Subset

\* A finite set of numbers has a greatest.
LEMMA Greatest ==
  ASSUME NEW S \in SUBSET Nat, IsFiniteSet(S), S # {}
  PROVE  \E x \in S : \A y \in S : x >= y
<1> DEFINE above == [x \in S |-> {y \in S : y > x}]
           T == {Cardinality(above[x]) : x \in S}
           Less == OpToRel(<, Nat)
<1>1. \A x \in S : IsFiniteSet(above[x]) /\ Cardinality(above[x]) \in Nat
  <2>1. \A x \in S : above[x] \subseteq S
    OBVIOUS
  <2> HIDE DEF above
  <2> QED BY <2>1, FS_Subset, FS_CardinalityType
<1>2. PICK t \in T : \A r \in T : <<r, t>> \notin Less
  <2>1. T \subseteq Nat /\ T # {}
    <3> HIDE DEF above
    <3> QED BY <1>1
  <2> HIDE DEF T
  <2> QED BY <2>1, NatLessThanWellFounded, WFMin
<1>3. PICK x \in S : t = Cardinality(above[x])
  OBVIOUS
<1>4. ASSUME NEW y \in S, y > x PROVE FALSE
  <2>1. above[y] \in SUBSET above[x] /\ above[y] # above[x]
    <3>1. \A z \in S : z \in Nat
      OBVIOUS
    <3>2. y \in above[x] /\ y \notin above[y]
      BY <1>4, <3>1
    <3>3. above[y] \subseteq above[x]
      <4>1. \A z \in S : z > y => z > x
        BY <1>4, <3>1
      <4> QED BY <4>1
    <3> HIDE DEF above
    <3> QED BY <3>2, <3>3
  <2>2. ASSUME NEW Y, IsFiniteSet(Y), NEW X \in SUBSET Y, X # Y
        PROVE  Cardinality(X) <= Cardinality(Y) /\ Cardinality(X) # Cardinality(Y)
    BY <2>2, FS_Subset
  <2>3. Cardinality(above[y]) \in T
    OBVIOUS
  <2> HIDE DEF above, T
  <2>4. Cardinality(above[y]) < Cardinality(above[x])
    BY <1>1, <2>1, <2>2
  <2>5. <<Cardinality(above[y]), t>> \in Less
    BY <1>1, <1>3, <2>4 DEF OpToRel
  <2> QED BY <1>2, <2>3, <2>5
<1>5. \A y \in S : y \in Nat /\ x \in Nat /\ ~(y > x)
  BY <1>4
<1> QED BY <1>5

\* A retry is one that some gate allows.
LEMMA RetryAllowed ==
  ASSUME retry \in Nat, MayRetry
  PROVE  \E i \in DOMAIN Gates : retry + 1 <= Gates[i].retries
<1> DEFINE failedNames == {Gates[i].name : i \in {j \in DOMAIN results : results[j] = "failed"}}
           I == {j \in DOMAIN Gates : Gates[j].name \in failedNames}
           R == {Gates[i].retries : i \in I}
           S == {0} \cup R
<1>1. S \in SUBSET Nat /\ S # {}
  BY GatesShape
<1>2. IsFiniteSet(S)
  <2>1. IsFiniteSet(I)
    <3>1. IsFiniteSet(DOMAIN Gates)
      <4>1. IsFiniteSet(1..Len(Gates))
        BY GatesCounted
      <4> QED BY <4>1, GatesShape
    <3>2. I \subseteq DOMAIN Gates
      OBVIOUS
    <3> HIDE DEF I
    <3> QED BY <3>1, <3>2, FS_Subset
  <2>2. IsFiniteSet(R)
    <3> DEFINE f == [i \in I |-> Gates[i].retries]
    <3>1. f \in Surjection(I, R)
      <4> HIDE DEF I
      <4>1. f \in [I -> R]
        OBVIOUS
      <4>2. \A X \in R : \E i \in I : f[i] = X
        OBVIOUS
      <4> QED BY <4>1, <4>2 DEF Surjection
    <3> HIDE DEF f, I, R
    <3> QED BY <2>1, <3>1, FS_Surjection
  <2>3. IsFiniteSet({0})
    BY FS_Singleton
  <2> HIDE DEF R
  <2> QED BY <2>2, <2>3, FS_Union
<1>3. RetriesFor(results) = Max(S)
  BY DEF RetriesFor
<1>4. Max(S) \in S
  <2> HIDE DEF S
  <2>1. \E x \in S : \A y \in S : x >= y
    BY <1>1, <1>2, Greatest
  <2> QED BY <2>1 DEF Max
<1>5. Max(S) \in R /\ Max(S) \in Nat /\ retry < Max(S)
  <2>1. retry < Max(S) /\ Max(S) \in Nat
    BY <1>1, <1>3, <1>4 DEF MayRetry
  <2> HIDE DEF R
  <2> QED BY <1>4, <2>1
<1>6. PICK i \in I : Max(S) = Gates[i].retries
  <2> HIDE DEF I, S
  <2> QED BY <1>5
<1> HIDE DEF S
<1> QED BY <1>5, <1>6

\* and it uses one of them up.
LEMMA RetrySpent ==
  ASSUME retry \in Nat, MayRetry, retry' = retry + 1
  PROVE  RetriesLeft' < RetriesLeft
<1>1. Retries' \subseteq Retries
  BY DEF Retries
<1>2. retry + 1 \in Retries /\ retry + 1 \notin Retries'
  BY RetryAllowed DEF Retries
<1>3. IsFiniteSet(Retries)
  BY RetriesFinite
<1>4. /\ IsFiniteSet(Retries') /\ Cardinality(Retries') <= Cardinality(Retries)
      /\ Cardinality(Retries') # Cardinality(Retries)
  BY <1>1, <1>2, <1>3, FS_Subset
<1>5. Cardinality(Retries) \in Nat /\ Cardinality(Retries') \in Nat
  BY <1>3, <1>4, FS_CardinalityType
<1> QED BY <1>4, <1>5 DEF RetriesLeft

\* The agents in some state are finitely many, and one fewer when one leaves it.
LEMMA AgentsCounted ==
  /\ \A S \in SUBSET Agents : IsFiniteSet(S) /\ Cardinality(S) \in Nat
  /\ \A S \in SUBSET Agents : \A a \in S : Cardinality(S \ {a}) < Cardinality(S)
<1>1. \A S \in SUBSET Agents : IsFiniteSet(S) /\ Cardinality(S) \in Nat
  BY StageWorkAssumption, FS_Subset, FS_CardinalityType
<1>2. ASSUME NEW S \in SUBSET Agents, NEW a \in S
      PROVE  Cardinality(S \ {a}) < Cardinality(S)
  <2>1. Cardinality(S \ {a}) = Cardinality(S) - 1 /\ Cardinality(S) \in Nat
    BY <1>1, FS_RemoveElement
  <2> QED BY <2>1
<1> QED BY <1>1, <1>2

\* The ranks are ranks.
LEMMA RankType == TypeOK => Rank \in Ranks
<1> SUFFICES ASSUME TypeOK PROVE Rank \in Ranks
  OBVIOUS
<1>1. Stretch \in Nat /\ RoundLeft \in Nat
  BY DEF TypeOK, Stretch, RoundLeft
<1>2. RetriesLeft \in Nat
  BY RetriesFinite, FS_CardinalityType DEF RetriesLeft, TypeOK
<1>3. ToLaunch \in Nat /\ ToRead \in Nat
  BY AgentsCounted DEF ToLaunch, ToRead
<1>4. GatesLeft \in Nat
  <2>1. Len(Gates) \in Nat /\ Len(results) \in Nat /\ Len(results) <= Len(Gates)
    BY GatesShape, LenProperties DEF TypeOK
  <2> QED BY <2>1 DEF GatesLeft
<1> QED BY <1>1, <1>2, <1>3, <1>4 DEF Rank, Ranks

\* The part that comes first among those that change is lower.
Lower ==
  \/ Stretch' < Stretch
  \/ /\ Stretch' = Stretch
     /\ \/ RetriesLeft' < RetriesLeft
        \/ /\ RetriesLeft' = RetriesLeft
           /\ \/ RoundLeft' < RoundLeft
              \/ /\ RoundLeft' = RoundLeft
                 /\ \/ ToLaunch' < ToLaunch
                    \/ /\ ToLaunch' = ToLaunch
                       /\ \/ ToRead' < ToRead
                          \/ ToRead' = ToRead /\ GatesLeft' < GatesLeft

LEMMA Falls ==
  ASSUME Rank \in Ranks, Rank' \in Ranks, Lower
  PROVE  <<Rank', Rank>> \in Descent
<1> DEFINE s == Rank'
           t == Rank
<1>1. PICK j \in 1..6 : s[j] < t[j] /\ \A i \in 1..(j - 1) : s[i] = t[i]
  <2>1. /\ t[1] = Stretch /\ t[2] = RetriesLeft /\ t[3] = RoundLeft
        /\ t[4] = ToLaunch /\ t[5] = ToRead /\ t[6] = GatesLeft
        /\ s[1] = Stretch' /\ s[2] = RetriesLeft' /\ s[3] = RoundLeft'
        /\ s[4] = ToLaunch' /\ s[5] = ToRead' /\ s[6] = GatesLeft'
    BY DEF Rank
  <2> HIDE DEF s, t
  <2>2. \/ s[1] < t[1]
        \/ s[1] = t[1] /\ s[2] < t[2]
        \/ s[1] = t[1] /\ s[2] = t[2] /\ s[3] < t[3]
        \/ s[1] = t[1] /\ s[2] = t[2] /\ s[3] = t[3] /\ s[4] < t[4]
        \/ s[1] = t[1] /\ s[2] = t[2] /\ s[3] = t[3] /\ s[4] = t[4] /\ s[5] < t[5]
        \/ /\ s[1] = t[1] /\ s[2] = t[2] /\ s[3] = t[3] /\ s[4] = t[4] /\ s[5] = t[5]
           /\ s[6] < t[6]
    BY <2>1 DEF Lower
  <2>3. \A i \in 1..6 : i \in {1, 2, 3, 4, 5, 6}
    OBVIOUS
  <2> QED BY <2>2, <2>3
<1>2. s \in Ranks /\ t \in Ranks
  OBVIOUS
<1> HIDE DEF s, t
<1>3. <<s[j], t[j]>> \in OpToRel(<, Nat)
  BY <1>1, <1>2 DEF OpToRel, Ranks
<1>4. <<s, t>> \in Descent
  BY <1>1, <1>2, <1>3 DEF LexProductOrdering, Descent, Ranks
<1> QED BY <1>4 DEF s, t

\* What the agents look like.
LEMMA AgentShape ==
  ASSUME TypeOK
  PROVE  agent \in [Agents -> [thread : {"idle", "reading", "ended", "raised"},
                              process : {"none", "unread", "busy", "closed", "zero", "nonzero"},
                              line : BOOLEAN, late : BOOLEAN,
                              status : {"running", "completed", "failed", "timeout"},
                              says : Seq(Blocks)]]
BY DEF TypeOK

\* and the other parts of the rank.
LEMMA SameStage ==
  ASSUME UNCHANGED <<pc, loop>>
  PROVE  /\ Stretch' = Stretch /\ RetriesLeft' = RetriesLeft /\ RoundLeft' = RoundLeft
         /\ GatesLeft' = GatesLeft
BY DEF loop, Stretch, RetriesLeft, Retries, RoundLeft, GatesLeft

\* Every step of a live worker and its threads lowers the rank, but for a line
\* that is read before the time is over.
LEMMA WorkFalls ==
  ASSUME TypeOK, pc # "off",
         Worker \/ Crash \/ Failure \/ \E a \in Agents : ReadToTheEnd(a) \/ TimeOut(a)
  PROVE  Lower
<1>0. pc \in {"develop", "agents", "gates", "verify", "accept"} /\ retry \in Nat
  BY DEF TypeOK
<1>1. CASE Blocked \/ EnterRefused \/ AgentsFail \/ GateRaises \/ GatesFail
           \/ VerifyRaises \/ HardAccept \/ SoftAccept \/ AwaitAcceptance
           \/ RefuseAcceptance \/ Crash
  <2>1. pc' = "off"
    BY <1>1 DEF Blocked, EnterRefused, AgentsFail, GateRaises, GatesFail, VerifyRaises,
                HardAccept, SoftAccept, AwaitAcceptance, RefuseAcceptance, Crash, Finish
  <2> QED BY <1>0, <2>1 DEF Lower, Stretch
<1>2. CASE Enter
  <2>1. pc = "develop" /\ pc' = "agents" /\ retry' = retry
    BY <1>2 DEF Enter, BeginTurn
  <2> QED BY <1>0, <2>1 DEF Lower, Stretch, RetriesLeft, Retries, RoundLeft
<1>3. CASE EnterNothing \/ GatesPass
  <2>1. pc \in {"develop", "gates"} /\ pc' = "verify"
    BY <1>3 DEF EnterNothing, GatesPass, Continue
  <2> QED BY <1>0, <2>1 DEF Lower, Stretch
<1>4. CASE Collect
  <2>1. pc = "agents" /\ pc' \in {"gates", "verify"} /\ retry' = retry
    BY <1>4 DEF Collect, Continue
  <2> QED BY <1>0, <2>1 DEF Lower, Stretch, RetriesLeft, Retries, RoundLeft
<1>5. CASE VerifyStage
  <2>1. pc = "verify" /\ pc' \in {"off", "accept"}
    BY <1>5 DEF VerifyStage, Finish, Continue
  <2> QED BY <1>0, <2>1 DEF Lower, Stretch
<1>6. CASE RunGate
  <2>1. /\ pc' = pc /\ retry' = retry /\ agent' = agent
        /\ Len(results') = Len(results) + 1
    BY <1>6, GateResultsAre DEF RunGate
  <2>2. Stretch' = Stretch /\ RetriesLeft' = RetriesLeft /\ RoundLeft' = RoundLeft
        /\ ToLaunch' = ToLaunch /\ ToRead' = ToRead
    BY <2>1 DEF Stretch, RetriesLeft, Retries, RoundLeft, ToLaunch, ToRead
  <2>3. GatesLeft' < GatesLeft
    <3>1. Len(Gates) \in Nat /\ Len(results) \in Nat
      BY GatesShape, LenProperties DEF TypeOK
    <3> QED BY <2>1, <3>1 DEF GatesLeft
  <2> QED BY <2>2, <2>3 DEF Lower
<1>7. CASE GatesRetry
  <2>1. pc = "gates" /\ pc' = "agents" /\ retry' = retry + 1 /\ MayRetry
    BY <1>7 DEF GatesRetry, BeginTurn
  <2>2. RetriesLeft' < RetriesLeft
    BY <1>0, <2>1, RetrySpent
  <2> QED BY <1>0, <2>1, <2>2 DEF Lower, Stretch
<1>8. ASSUME NEW a \in Agents, LaunchAgent(a) \/ LaunchUnknown(a) PROVE Lower
  <2>1. UNCHANGED <<pc, loop>>
    BY <1>8 DEF LaunchAgent, LaunchUnknown
  <2>2. /\ agent[a].thread = "idle" /\ agent'[a].thread # "idle"
        /\ \A b \in Agents \ {a} : agent'[b] = agent[b]
    <3>1. agent[a].thread = "idle"
      BY <1>8 DEF LaunchAgent, LaunchUnknown, MayLaunch
    <3>2. \/ \E begun :
               agent' = [agent EXCEPT ![a].thread = "reading", ![a].process = begun]
          \/ agent' = [agent EXCEPT ![a].thread = "ended", ![a].status = "failed"]
          \/ agent' = [agent EXCEPT ![a].thread = "raised", ![a].status = "failed"]
      BY <1>8 DEF LaunchAgent, LaunchUnknown
    <3> QED BY <3>1, <3>2, AgentShape
  <2>3. {b \in Agents : agent'[b].thread = "idle"} =
          {b \in Agents : agent[b].thread = "idle"} \ {a}
    BY <2>2
  <2>4. ToLaunch' < ToLaunch
    BY <2>2, <2>3, AgentsCounted DEF ToLaunch
  <2> QED BY <2>1, <2>4, SameStage DEF Lower
<1>9. ASSUME NEW a \in Agents, ReadFails(a) \/ ReadToTheEnd(a) \/ TimeOut(a)
      PROVE  Lower
  <2>1. UNCHANGED <<pc, loop>>
    BY <1>9 DEF ReadFails, ReadToTheEnd, TimeOut, Go
  <2>2. /\ agent[a].thread = "reading" /\ agent'[a].thread = "ended"
        /\ \A b \in Agents \ {a} : agent'[b] = agent[b]
    <3>1. agent[a].thread = "reading"
      BY <1>9 DEF ReadFails, ReadToTheEnd, TimeOut, Reading
    <3>2. CASE ReadToTheEnd(a)
      <4> DEFINE left == IF agent[a].process = "zero" THEN "completed" ELSE "failed"
      <4>1. agent' = [agent EXCEPT ![a] = [agent[a] EXCEPT
                        !.thread = "ended", !.line = FALSE, !.late = FALSE,
                        !.says = <<>>, !.process = "none", !.status = left]]
        BY <3>2 DEF ReadToTheEnd, Go
      <4> HIDE DEF left
      <4> QED BY <3>1, <4>1, AgentShape
    <3>3. CASE TimeOut(a)
      <4>1. agent' = [agent EXCEPT ![a] = [agent[a] EXCEPT
                        !.thread = "ended", !.line = FALSE, !.late = FALSE,
                        !.process = "none", !.status = "timeout"]]
        BY <3>3 DEF TimeOut, Go
      <4> QED BY <3>1, <4>1, AgentShape
    <3>4. CASE ReadFails(a)
      BY <3>1, <3>4, AgentShape DEF ReadFails, Idle
    <3> QED BY <1>9, <3>2, <3>3, <3>4
  <2>3. /\ {b \in Agents : agent'[b].thread = "reading"} =
             {b \in Agents : agent[b].thread = "reading"} \ {a}
        /\ {b \in Agents : agent'[b].thread = "idle"} =
             {b \in Agents : agent[b].thread = "idle"}
    BY <2>2
  <2>4. ToRead' < ToRead /\ ToLaunch' = ToLaunch
    BY <2>2, <2>3, AgentsCounted DEF ToRead, ToLaunch
  <2> QED BY <2>1, <2>4, SameStage DEF Lower
<1> QED BY <1>1, <1>2, <1>3, <1>4, <1>5, <1>6, <1>7, <1>8, <1>9 DEF Worker, Failure

\* The agents, and a line that is read, change nothing of the rank.
LEMMA AgentsLeaveRank ==
  ASSUME TypeOK, Children \/ \E a \in Agents : ReadOn(a)
  PROVE  Rank' = Rank
<1> PICK a \in Agents : \/ ChangeCode(a) \/ StrayEnds(a) \/ TakePrompt(a)
                        \/ PrintLine(a) \/ CloseOutput(a) \/ ExitAgent(a) \/ TimePasses(a) \/ ReadOn(a)
  BY DEF Children
<1>1. UNCHANGED <<pc, loop>>
  BY DEF ChangeCode, StrayEnds, TakePrompt, PrintLine, CloseOutput, ExitAgent, TimePasses,
         ReadOn,         Child, Go
<1>2. \A b \in Agents : agent'[b].thread = agent[b].thread
  <2>1. CASE ChangeCode(a) \/ StrayEnds(a)
    BY <2>1 DEF ChangeCode, StrayEnds
  <2>2. CASE TakePrompt(a) \/ PrintLine(a)
    BY <2>2, AgentShape DEF TakePrompt, PrintLine, Child
  <2>3. CASE CloseOutput(a)
    BY <2>3, AgentShape DEF CloseOutput, Child
  <2>4. CASE ExitAgent(a)
    <3>1. CASE \E said \in setup.says :
                 agent' = [agent EXCEPT ![a] = [agent[a] EXCEPT !.process = "zero",
                                                                !.says = said]]
      <4>1. PICK said \in setup.says :
              agent' = [agent EXCEPT ![a] = [agent[a] EXCEPT !.process = "zero",
                                                             !.says = said]]
        BY <3>1
      <4>2. agent[a] \in [thread : {"idle", "reading", "ended", "raised"},
                          process : {"none", "unread", "busy", "closed", "zero", "nonzero"},
                          line : BOOLEAN, late : BOOLEAN,
                          status : {"running", "completed", "failed", "timeout"},
                          says : Seq(Blocks)]
        BY AgentShape
      <4>3. [agent[a] EXCEPT !.process = "zero", !.says = said].thread = agent[a].thread
        BY <4>2
      <4> QED BY <4>1, <4>3, AgentShape, Zenon
    <3>2. CASE agent' = [agent EXCEPT ![a] = [agent[a] EXCEPT !.process = "nonzero"]]
      BY <3>2, AgentShape
    <3> QED BY <2>4, <3>1, <3>2 DEF ExitAgent, Child
  <2>5. CASE TimePasses(a)
    BY <2>5, AgentShape DEF TimePasses, Child
  <2>6. CASE ReadOn(a)
    BY <2>6, AgentShape DEF ReadOn, Go
  <2> QED BY <2>1, <2>2, <2>3, <2>4, <2>5, <2>6
<1>3. ToLaunch' = ToLaunch /\ ToRead' = ToRead
  BY <1>2 DEF ToLaunch, ToRead
<1> QED BY <1>1, <1>3, SameStage DEF Rank

\* Whatever the worker does, and the threads when they are done with an agent,
\* brings the attempt nearer to its end, by a measure that cannot descend for
\* ever and that nothing else raises: retries do not keep it busy without end
\* (_run_develop_quality_loop).  An agent that is silent, or one that is read
\* for ever because it is never late, is what the fairness of the liveness
\* property excludes.
THEOREM AttemptDescends ==
  Spec => [][pc # "off" =>
               IF Worker \/ Crash \/ Failure \/ \E a \in Agents : ReadToTheEnd(a) \/ TimeOut(a)
               THEN <<Rank', Rank>> \in Descent
               ELSE Rank' = Rank]_vars
<1>1. TypeOK => Rank \in Ranks
  BY RankType
<1>2. ASSUME TypeOK, Rank \in Ranks, (Rank \in Ranks)', Next, pc # "off"
      PROVE  IF Worker \/ Crash \/ Failure \/ \E a \in Agents : ReadToTheEnd(a) \/ TimeOut(a)
             THEN <<Rank', Rank>> \in Descent
             ELSE Rank' = Rank
  <2>1. \/ Worker \/ Crash \/ Failure \/ \E a \in Agents : ReadToTheEnd(a) \/ TimeOut(a)
        \/ Children \/ \E a \in Agents : ReadOn(a)
    BY <1>2 DEF Next, Start, Resume, Reader
  <2> QED BY <1>2, <2>1, WorkFalls, Falls, AgentsLeaveRank
<1>3. TypeOK /\ Rank \in Ranks /\ (Rank \in Ranks)' /\ [Next]_vars =>
        [pc # "off" =>
           IF Worker \/ Crash \/ Failure \/ \E a \in Agents : ReadToTheEnd(a) \/ TimeOut(a)
           THEN <<Rank', Rank>> \in Descent
           ELSE Rank' = Rank]_vars
  BY <1>2
<1> QED BY <1>1, <1>3, TypeCorrect, PTL DEF Spec

=============================================================================
