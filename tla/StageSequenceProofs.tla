------------------------ MODULE StageSequenceProofs ------------------------
(***************************************************************************)
(* Theorems about StageSequence, for every pipeline that satisfies the     *)
(* assumptions of that module.                                             *)
(***************************************************************************)
EXTENDS StageSequence, SequenceTheorems, FiniteSetTheorems, WellFoundedInduction,
        TLAPS

-----------------------------------------------------------------------------
(* Type correctness.                                                       *)

\* The initial state is of the right types.
LEMMA InitType == Init => TypeOK
<1> SUFFICES ASSUME Init PROVE TypeOK
  OBVIOUS
<1>1. <<>> \in Seq(Decisions)
  OBVIOUS
<1>2. NoRuns \in [Stages -> StageStatuses]
  BY DEF NoRuns, StageStatuses
<1>3. ckpt \in [state : {"none", "saved", "torn"}, done : SUBSET Stages,
               decisions : Seq(Decisions)]
  BY <1>1 DEF Init, NoCkpt
<1>4. report \in [status : RunStatuses, decisions : Seq(Decisions),
                 last : [Stages -> StageStatuses]]
  BY <1>1, <1>2 DEF Init, RunStatuses
<1>5. index \in 1..(N + 1)
  BY PipelineAssumption DEF Init
<1> QED
  BY <1>1, <1>2, <1>3, <1>4, <1>5 DEF Init, TypeOK, Outcomes

\* Launching a worker keeps the types.
LEMMA LaunchType ==
  ASSUME NEW restored \in SUBSET Stages, NEW past \in Seq(Decisions),
         NEW decision \in Decisions \cup {NoDecision},
         NEW chosen \in SUBSET (Stages \ HardGates),
         TypeOK, Launch(restored, past, decision, chosen),
         skipDone' \in BOOLEAN, ckpt' = ckpt, resumes' \in Nat,
         result' = result
  PROVE  TypeOK'
BY PipelineAssumption
   DEF Launch, TypeOK, NoRuns, Stages, RunStatuses, StageStatuses, Outcomes

\* Running a stage keeps the types.
LEMMA RanType ==
  ASSUME NEW o \in Outcomes, NEW ds \in Seq(Decisions),
         TypeOK, index \in Stages, Ran(o, ds),
         pending' \in Decisions \cup {NoDecision}
  PROVE  TypeOK'
BY PipelineAssumption
   DEF Ran, TypeOK, Stages, RunStatuses, StageStatuses, Outcomes, StatusOf,
       Established

\* An error keeps the types.
LEMMA RaiseType ==
  ASSUME TypeOK, Raise,
         loopCounts' \in [LoopStages -> Nat],
         lastSig' \in [LoopStages -> Textual \cup {"none"}]
  PROVE  TypeOK'
BY DEF Raise, TypeOK

\* A loopback to a stage of the pipeline keeps the types.
LEMMA LoopBackType ==
  ASSUME NEW target \in Stages, TypeOK, LoopBack(target),
         loopCounts' \in [LoopStages -> Nat],
         lastSig' \in [LoopStages -> Textual \cup {"none"}]
  PROVE  TypeOK'
BY PipelineAssumption DEF LoopBack, TypeOK, Saved, Stages, Before

\* Every step keeps the types.
LEMMA TypeStep == TypeOK /\ OutcomeInv /\ [Next]_vars => TypeOK'
<1> SUFFICES ASSUME TypeOK, OutcomeInv, [Next]_vars PROVE TypeOK'
  OBVIOUS
<1> USE PipelineAssumption
<1>1. CASE Start
  <2>1. PICK chosen \in SUBSET (Stages \ HardGates) :
          Launch({}, <<>>, NoDecision, chosen)
    BY <1>1 DEF Start
  <2>2. {} \in SUBSET Stages /\ chosen \in SUBSET (Stages \ HardGates)
    OBVIOUS
  <2>3. <<>> \in Seq(Decisions)
    OBVIOUS
  <2>4. /\ skipDone' \in BOOLEAN /\ ckpt' = ckpt /\ resumes' \in Nat
        /\ result' = result
    BY <1>1 DEF Start, TypeOK
  <2> QED
    BY <2>1, <2>2, <2>3, <2>4, LaunchType
<1>2. CASE StartRefused
  BY <1>2 DEF StartRefused, TypeOK, memory, RunStatuses
<1>3. ASSUME NEW d \in Decisions \cup {NoDecision}, Relaunch(d)
      PROVE  TypeOK'
  <2>1. ckpt.done \in SUBSET Stages /\ ckpt.decisions \in Seq(Decisions)
    BY DEF TypeOK
  <2>2. {} \in SUBSET (Stages \ HardGates)
    OBVIOUS
  <2>3. /\ skipDone' \in BOOLEAN /\ ckpt' = ckpt /\ resumes' \in Nat
        /\ result' = result
        /\ Launch(ckpt.done, ckpt.decisions, d, {})
    BY <1>3 DEF Relaunch, TypeOK
  <2> QED
    BY <2>1, <2>2, <2>3, LaunchType
<1>4. CASE Resume
  BY <1>3, <1>4 DEF Resume
<1>5. CASE Decide
  <2>1. PICK g \in HardGates \cup SoftGates, v \in Verdicts :
          Relaunch([stage |-> g, verdict |-> v])
    BY <1>5 DEF Decide
  <2>2. [stage |-> g, verdict |-> v] \in Decisions
    BY DEF Decisions
  <2> QED
    BY <1>3, <2>1, <2>2
<1>6. CASE PassOver
  BY <1>6 DEF PassOver, TypeOK, Stages, StageStatuses
<1>7. CASE SkipChosen
  <2>1. index \in Stages /\ index + 1 \in 1..(N + 1)
    BY <1>7 DEF SkipChosen, Stages
  <2>2. done' \in SUBSET Stages /\ runs' \in [Stages -> StageStatuses]
    BY <1>7, <2>1 DEF SkipChosen, TypeOK, StageStatuses
  <2>3. ckpt' \in [state : {"none", "saved", "torn"}, done : SUBSET Stages,
                  decisions : Seq(Decisions)]
    BY <1>7, <2>2 DEF SkipChosen, TypeOK, Saved
  <2>4. report' \in [status : RunStatuses, decisions : Seq(Decisions),
                    last : [Stages -> StageStatuses]]
    BY <1>7, <2>2 DEF SkipChosen, TypeOK
  <2> QED
    BY <1>7, <2>1, <2>2, <2>3, <2>4 DEF SkipChosen, TypeOK
<1>8. CASE Stopped
  BY <1>8 DEF Stopped, TypeOK, memory
<1>9. CASE RunAgent
  <2>1. index \in Stages
    BY <1>9 DEF RunAgent, AtStage, AgentStages
  <2>2. PICK o \in Outcomes : Ran(o, decisions)
    BY <1>9 DEF RunAgent, Outcomes, ChangeRequests
  <2> QED
    BY <1>9, <2>1, <2>2, RanType DEF RunAgent, TypeOK
<1>10. CASE RunSoftGate
  BY <1>10, RanType DEF RunSoftGate, AtStage, TypeOK, Outcomes
<1>11. CASE AwaitDecision
  BY <1>11, RanType DEF AwaitDecision, AtStage, TypeOK, Outcomes
<1>12. CASE RefuseDecision
  BY <1>12, RanType DEF RefuseDecision, AtStage, TypeOK, Outcomes
<1>13. CASE TakeDecision
  <2>1. index \in Stages /\ pending \in Decisions
    BY <1>13 DEF TakeDecision, AtStage, TypeOK, NoDecision, Stages
  <2>2. Append(decisions, pending) \in Seq(Decisions)
    BY <2>1 DEF TypeOK
  <2> QED
    BY <1>13, <2>1, <2>2, RanType DEF TakeDecision, Outcomes
<1>14. CASE Pause
  BY <1>14 DEF Pause, TypeOK, memory, Saved
<1>15. CASE StageFailed
  BY <1>15, RaiseType DEF StageFailed, TypeOK
<1>16. CASE Rejected
  <2>1. RejectTo[index] \in Stages
    BY <1>16 DEF Rejected, OutcomeInv
  <2> QED
    BY <1>16, <2>1, LoopBackType DEF Rejected, TypeOK
<1>17. CASE RejectionUnrecorded
  BY <1>17, RaiseType DEF RejectionUnrecorded, TypeOK
<1>18. CASE StageCompleted
  <2>1. index \in Stages
    BY <1>18 DEF StageCompleted, OutcomeInv
  <2> QED
    BY <1>18, <2>1 DEF StageCompleted, TypeOK, Saved
<1>19. CASE GoOn
  BY <1>19 DEF GoOn, TypeOK, OutcomeInv, Stages
<1>20. ASSUME Counted
       PROVE  /\ loopCounts' \in [LoopStages -> Nat]
              /\ lastSig' \in [LoopStages -> Textual \cup {"none"}]
              /\ LoopTo[index] \in Stages
  BY <1>20 DEF Counted, TypeOK, OutcomeInv
<1>21. CASE ChangesRequested
  BY <1>20, <1>21, LoopBackType DEF ChangesRequested
<1>22. CASE GiveUp
  BY <1>20, <1>22, RaiseType DEF GiveUp
<1>23. CASE RequestUnrecorded
  BY <1>20, <1>23, RaiseType DEF RequestUnrecorded
<1>24. ASSUME NEW status \in RunStatuses, Exit(status)
       PROVE  TypeOK'
  BY <1>24 DEF Exit, TypeOK, memory
<1>25. CASE ReturnPaused
  BY <1>24, <1>25 DEF ReturnPaused, RunStatuses
<1>26. CASE SequenceCompleted
  BY <1>26 DEF SequenceCompleted, TypeOK, memory
<1>27. CASE Deliver
  BY <1>27 DEF Deliver, TypeOK
<1>28. CASE DeliverRaises
  BY <1>28, RaiseType DEF DeliverRaises, TypeOK
<1>29. CASE AcceptanceUnrecorded
  BY <1>29, RaiseType DEF AcceptanceUnrecorded, TypeOK
<1>30. NoCkpt \in [state : {"none", "saved", "torn"}, done : SUBSET Stages,
                 decisions : Seq(Decisions)]
  <2>1. <<>> \in Seq(Decisions)
    OBVIOUS
  <2> QED
    BY <2>1 DEF NoCkpt
<1>31. CASE Finish
  BY <1>30, <1>31 DEF Finish, TypeOK, memory
<1>32. CASE ReturnFinal
  BY <1>24, <1>32 DEF ReturnFinal, RunStatuses, TypeOK
<1>33. CASE ReturnFailed
  BY <1>24, <1>33 DEF ReturnFailed, RunStatuses
<1>34. CASE Crash
  BY <1>30, <1>34 DEF Crash, TypeOK, memory
<1>35. CASE UNCHANGED vars
  BY <1>35 DEF vars, memory, TypeOK
<1> QED
  BY <1>1, <1>2, <1>4, <1>5, <1>6, <1>7, <1>8, <1>9, <1>10, <1>11, <1>12,
     <1>13, <1>14, <1>15, <1>16, <1>17, <1>18, <1>19, <1>21, <1>22, <1>23,
     <1>25, <1>26, <1>27, <1>28, <1>29, <1>31, <1>32, <1>33, <1>34, <1>35
     DEF Next, Worker

-----------------------------------------------------------------------------
(* Prefixes of the pipeline.                                               *)

\* What lies before the earlier of two stages.
LEMMA BeforeMeet ==
  ASSUME NEW k \in Int, NEW t \in Int, t <= k
  PROVE  Before(k) \cap Before(t) = Before(t)
BY DEF Before

\* A prefix of the pipeline grows by its next stage.
LEMMA BeforeNext ==
  ASSUME NEW k \in Nat \ {0}
  PROVE  Before(k) \cup {k} = Before(k + 1)
BY DEF Before

\* A prefix of the pipeline determines where it ends.
LEMMA BeforeInj ==
  ASSUME NEW k \in Nat \ {0}, NEW j \in Nat \ {0}, Before(k) = Before(j)
  PROVE  k = j
<1>1. ASSUME NEW a \in Nat \ {0}, NEW b \in Nat \ {0}, a < b
      PROVE  a \in Before(b) /\ a \notin Before(a)
  BY <1>1 DEF Before
<1> QED
  BY <1>1

\* The longest prefix is the pipeline.
LEMMA BeforeAll == Before(N + 1) = Stages
BY PipelineAssumption DEF Before, Stages

-----------------------------------------------------------------------------
(* Where the loop is.                                                      *)

\* OutcomeInv is preserved: only some kinds of stage come to an outcome.
LEMMA OutcomeStep == TypeOK /\ OutcomeInv /\ [Next]_vars => OutcomeInv'
<1> SUFFICES ASSUME TypeOK, OutcomeInv, [Next]_vars PROVE OutcomeInv'
  OBVIOUS
<1> USE PipelineAssumption
<1>1. CASE RunAgent
  <2>1. index \in AgentStages
    BY <1>1 DEF RunAgent, AtStage
  <2>2. PICK o \in {"pass", "failed"}
           \cup (IF index \in LoopStages THEN Textual ELSE {})
           \cup (IF index \in ReviewStages THEN {"structured"} ELSE {}) :
           Ran(o, decisions)
    BY <1>1 DEF RunAgent
  <2>3. pc' = "settle" /\ index' = index /\ outcome' = o
    BY <2>2 DEF Ran
  <2>4. o # "waiting" /\ o # "rejected"
    BY <2>2, SigsAssumption DEF Textual
  <2>5. o \in ChangeRequests => index \in LoopStages
    BY <2>2, SigsAssumption DEF ChangeRequests, Textual
  <2> QED
    BY <2>1, <2>3, <2>4, <2>5 DEF OutcomeInv, AgentStages
<1>2. "pass" \notin ChangeRequests /\ "failed" \notin ChangeRequests
      /\ "waiting" \notin ChangeRequests /\ "rejected" \notin ChangeRequests
  BY SigsAssumption DEF ChangeRequests, Textual
<1>3. CASE RunSoftGate
  BY <1>2, <1>3 DEF RunSoftGate, AtStage, Ran, OutcomeInv
<1>4. CASE AwaitDecision
  BY <1>2, <1>4 DEF AwaitDecision, AtStage, Ran, OutcomeInv
<1>5. CASE RefuseDecision
  BY <1>2, <1>5 DEF RefuseDecision, AtStage, Ran, OutcomeInv
<1>6. CASE TakeDecision
  BY <1>2, <1>6 DEF TakeDecision, AtStage, Ran, OutcomeInv
<1>7. CASE StageCompleted
  BY <1>7 DEF StageCompleted, OutcomeInv
<1>8. CASE Start \/ Resume \/ Decide
  BY <1>8 DEF Start, Resume, Decide, Relaunch, Launch, OutcomeInv
<1>9. CASE StartRefused \/ PassOver \/ SkipChosen \/ Stopped
  BY <1>9 DEF StartRefused, PassOver, SkipChosen, Stopped, OutcomeInv
<1>10. CASE Pause \/ StageFailed \/ Rejected \/ RejectionUnrecorded \/ GoOn
  BY <1>10 DEF Pause, StageFailed, Rejected, RejectionUnrecorded, GoOn, Raise,
               LoopBack, OutcomeInv
<1>11. CASE ChangesRequested \/ GiveUp \/ RequestUnrecorded
  BY <1>11 DEF ChangesRequested, GiveUp, RequestUnrecorded, Raise, LoopBack,
               OutcomeInv
<1>12. CASE ReturnPaused \/ SequenceCompleted \/ Deliver \/ DeliverRaises
  BY <1>12 DEF ReturnPaused, SequenceCompleted, Deliver, DeliverRaises, Raise,
               Exit, OutcomeInv
<1>13. CASE AcceptanceUnrecorded \/ Finish \/ ReturnFinal \/ ReturnFailed
  BY <1>13 DEF AcceptanceUnrecorded, Finish, ReturnFinal, ReturnFailed, Raise,
               Exit, OutcomeInv
<1>14. CASE Crash \/ UNCHANGED vars
  BY <1>14 DEF Crash, vars, memory, OutcomeInv
<1> QED
  BY <1>1, <1>3, <1>4, <1>5, <1>6, <1>7, <1>8, <1>9, <1>10, <1>11, <1>12,
     <1>13, <1>14 DEF Next, Worker

\* What the actions that run a stage have in common.
LEMMA StageRun ==
  ASSUME RunAgent \/ RunSoftGate \/ AwaitDecision \/ RefuseDecision
         \/ TakeDecision
  PROVE  /\ AtStage(Stages)
         /\ pc' = "settle" /\ skipDone' = FALSE
         /\ UNCHANGED <<index, done, skips, loopCounts, lastSig, verdict,
                        ckpt, resumes>>
         /\ result' = [s \in Stages |->
                         IF s < index THEN result[s]
                         ELSE IF s = index THEN Established(outcome')
                         ELSE "none"]
         /\ runs' = [runs EXCEPT ![index] = StatusOf(outcome')]
         /\ report' = [report EXCEPT !.decisions = decisions', !.last = runs']
BY PipelineAssumption
   DEF RunAgent, RunSoftGate, AwaitDecision, RefuseDecision, TakeDecision, Ran,
       AtStage, AgentStages

\* A stage that is not passed over is the first one that is not done.
LEMMA FirstOpenStage ==
  ASSUME TypeOK, PositionInv, pc = "top", index \in Stages,
         ~(skipDone /\ index \in done)
  PROVE  done = Before(index)
<1>1. CASE skipDone
  <2>1. PICK k \in 1..(N + 1) : done = Before(k) /\ index <= k
    BY <1>1 DEF PositionInv
  <2>2. index = k
    BY <1>1, <2>1, PipelineAssumption DEF Before, Stages
  <2> QED
    BY <2>1, <2>2
<1>2. CASE ~skipDone
  BY <1>2 DEF PositionInv
<1> QED
  BY <1>1, <1>2

\* PositionInv is preserved: the completed stages are always a prefix.
LEMMA PositionStep ==
  TypeOK /\ OutcomeInv /\ PositionInv /\ FilesInv /\ [Next]_vars => PositionInv'
<1> SUFFICES ASSUME TypeOK, OutcomeInv, PositionInv, FilesInv, [Next]_vars
             PROVE  PositionInv'
  OBVIOUS
<1> USE PipelineAssumption
<1>1. Before(1) = {} /\ 1 \in 1..(N + 1)
  BY DEF Before
<1>2. CASE Start
  <2>1. /\ pc' = "top" /\ index' = 1 /\ done' = {} /\ skipDone' = FALSE
        /\ ckpt' = ckpt
    BY <1>2 DEF Start, Launch
  <2> QED
    BY <1>1, <2>1 DEF PositionInv, IsPrefixOfPipeline
<1>3. CASE Resume \/ Decide
  <2>1. /\ pc' = "top" /\ index' = 1 /\ done' = ckpt.done /\ skipDone' = TRUE
        /\ ckpt' = ckpt
    BY <1>3 DEF Resume, Decide, Relaunch, Launch
  <2>2. PICK k \in 1..(N + 1) : ckpt.done = Before(k)
    BY DEF PositionInv, IsPrefixOfPipeline
  <2> QED
    BY <2>1, <2>2 DEF PositionInv, IsPrefixOfPipeline
<1>4. CASE StartRefused \/ UNCHANGED vars
  BY <1>4 DEF StartRefused, PositionInv, IsPrefixOfPipeline, memory, vars
<1>5. CASE PassOver
  <2>1. /\ pc = "top" /\ pc' = "top" /\ skipDone /\ index \in done
        /\ index' = index + 1
        /\ done' = done /\ skipDone' = skipDone /\ ckpt' = ckpt
    BY <1>5 DEF PassOver
  <2>2. PICK k \in 1..(N + 1) : done = Before(k) /\ index <= k
    BY <2>1 DEF PositionInv
  <2>3. index' <= k
    BY <2>1, <2>2 DEF Before, TypeOK
  <2> QED
    BY <2>1, <2>2, <2>3 DEF PositionInv, IsPrefixOfPipeline
<1>6. CASE SkipChosen
  <2>1. done = Before(index) /\ index \in Stages
    BY <1>6, FirstOpenStage DEF SkipChosen
  <2>2. /\ pc' = "top" /\ index' = index + 1 /\ done' = done \cup {index}
        /\ ckpt'.done = done' /\ skipDone' = skipDone
    BY <1>6 DEF SkipChosen, Saved
  <2>3. done' = Before(index') /\ index' \in 1..(N + 1)
    BY <2>1, <2>2, BeforeNext DEF Stages
  <2> QED
    BY <2>2, <2>3 DEF PositionInv, IsPrefixOfPipeline
<1>7. CASE RunAgent \/ RunSoftGate \/ AwaitDecision \/ RefuseDecision
           \/ TakeDecision
  <2>1. done = Before(index)
    BY <1>7, StageRun, FirstOpenStage DEF AtStage
  <2> QED
    BY <1>7, <2>1, StageRun DEF PositionInv, IsPrefixOfPipeline
<1>8. CASE StageCompleted
  <2>1. done' = Before(index + 1) /\ index \in Stages
    BY <1>8, BeforeNext DEF StageCompleted, PositionInv, OutcomeInv, Stages
  <2>2. index + 1 \in 1..(N + 1)
    BY <2>1 DEF Stages
  <2> QED
    BY <1>8, <2>1, <2>2
       DEF StageCompleted, PositionInv, IsPrefixOfPipeline, Saved
<1>9. CASE Pause
  BY <1>9 DEF Pause, PositionInv, IsPrefixOfPipeline, memory, Saved,
              OutcomeInv, Stages
<1>10. CASE GoOn
  <2>1. index \in Stages
    BY <1>10 DEF GoOn, OutcomeInv
  <2> QED
    BY <1>10, <2>1 DEF GoOn, PositionInv, IsPrefixOfPipeline, Stages
<1>11. ASSUME NEW target \in Stages, target <= index, LoopBack(target),
              pc \in {"settle", "check"}
       PROVE  PositionInv'
  <2>1. ~skipDone /\ done \cap Before(target) = Before(target)
    BY <1>11, BeforeMeet DEF PositionInv, OutcomeInv, Stages
  <2>2. target \in 1..(N + 1)
    BY DEF Stages
  <2> QED
    BY <1>11, <2>1, <2>2
       DEF LoopBack, PositionInv, IsPrefixOfPipeline, Saved
<1>12. CASE Rejected
  BY <1>11, <1>12, BackwardAssumption DEF Rejected, OutcomeInv
<1>13. CASE ChangesRequested
  BY <1>11, <1>13, BackwardAssumption
     DEF ChangesRequested, Counted, OutcomeInv
<1>14. CASE \/ Stopped \/ StageFailed \/ RejectionUnrecorded \/ GiveUp
            \/ RequestUnrecorded \/ DeliverRaises \/ AcceptanceUnrecorded
  BY <1>14 DEF Stopped, StageFailed, RejectionUnrecorded, GiveUp,
               RequestUnrecorded, DeliverRaises, AcceptanceUnrecorded, Raise,
               memory, PositionInv, IsPrefixOfPipeline
<1>15. CASE ReturnPaused \/ ReturnFinal \/ ReturnFailed
  BY <1>15 DEF ReturnPaused, ReturnFinal, ReturnFailed, Exit, memory,
               PositionInv, IsPrefixOfPipeline
<1>16. CASE SequenceCompleted
  <2>1. done = Before(N + 1)
    BY <1>16 DEF SequenceCompleted, PositionInv
  <2> QED
    BY <1>16, <2>1, BeforeAll
       DEF SequenceCompleted, memory, PositionInv, IsPrefixOfPipeline
<1>17. CASE Deliver
  BY <1>17 DEF Deliver, PositionInv, IsPrefixOfPipeline
<1>18. NoCkpt.done = Before(1) /\ [NoCkpt EXCEPT !.state = "torn"].done = Before(1)
  BY <1>1 DEF NoCkpt
<1>19. CASE Finish
  BY <1>1, <1>18, <1>19 DEF Finish, memory, PositionInv, IsPrefixOfPipeline
<1>20. CASE Crash
  BY <1>1, <1>18, <1>20 DEF Crash, memory, PositionInv, IsPrefixOfPipeline
<1> QED
  BY <1>2, <1>3, <1>4, <1>5, <1>6, <1>7, <1>8, <1>9, <1>10, <1>12, <1>13,
     <1>14, <1>15, <1>16, <1>17, <1>19, <1>20 DEF Next, Worker

-----------------------------------------------------------------------------
(* Decision histories.                                                     *)

\* A prefix, element by element.
LEMMA PrefixElements ==
  ASSUME NEW s \in Seq(Decisions), NEW t \in Seq(Decisions)
  PROVE  IsPrefix(s, t) <=>
           Len(s) <= Len(t) /\ \A i \in 1..Len(s) : s[i] = t[i]
<1>1. ASSUME Len(s) <= Len(t)
      PROVE  SubSeq(s, 1, Len(s)) = SubSeq(t, 1, Len(s)) <=>
               \A i \in 1..Len(s) : s[i] = t[i]
  <2>1. /\ SubSeq(s, 1, Len(s)) \in Seq(Decisions)
        /\ Len(SubSeq(s, 1, Len(s))) = Len(s)
        /\ \A i \in 1..Len(s) : SubSeq(s, 1, Len(s))[i] = s[i]
    BY SubSeqProperties, LenProperties
  <2>2. /\ SubSeq(t, 1, Len(s)) \in Seq(Decisions)
        /\ Len(SubSeq(t, 1, Len(s))) = Len(s)
        /\ \A i \in 1..Len(s) : SubSeq(t, 1, Len(s))[i] = t[i]
    BY <1>1, SubSeqProperties, LenProperties
  <2> QED
    BY <2>1, <2>2, SeqEqual
<1> QED
  BY <1>1 DEF IsPrefix

\* Every history is a prefix of itself.
LEMMA PrefixRefl == ASSUME NEW s \in Seq(Decisions) PROVE IsPrefix(s, s)
BY PrefixElements

\* The empty history is a prefix of every other.
LEMMA PrefixEmpty == ASSUME NEW s \in Seq(Decisions) PROVE IsPrefix(<<>>, s)
<1>1. <<>> \in Seq(Decisions) /\ Len(<<>>) = 0
  OBVIOUS
<1>2. Len(s) \in Nat
  OBVIOUS
<1>3. 0 <= Len(s) /\ \A i \in 1..0 : <<>>[i] = s[i]
  BY <1>2
<1> HIDE DEF IsPrefix
<1> QED
  BY <1>1, <1>3, PrefixElements

\* A decision appended to a history keeps the prefixes it had.
LEMMA PrefixAppend ==
  ASSUME NEW s \in Seq(Decisions), NEW t \in Seq(Decisions),
         NEW d \in Decisions, IsPrefix(s, t)
  PROVE  IsPrefix(s, Append(t, d))
<1>1. /\ Append(t, d) \in Seq(Decisions)
      /\ Len(Append(t, d)) = Len(t) + 1
      /\ \A i \in 1..Len(t) : Append(t, d)[i] = t[i]
  BY AppendProperties
<1>2. Len(s) \in Nat /\ Len(t) \in Nat
  BY LenProperties
<1>3. Len(s) <= Len(t) /\ \A i \in 1..Len(s) : s[i] = t[i]
  BY PrefixElements
<1>4. /\ Len(s) <= Len(Append(t, d))
      /\ \A i \in 1..Len(s) : s[i] = Append(t, d)[i]
  BY <1>1, <1>2, <1>3
<1> QED
  BY <1>1, <1>4, PrefixElements

\* A new decision settles its own gate and leaves every other one alone.
LEMMA ApprovedAppend ==
  ASSUME NEW ds \in Seq(Decisions), NEW d \in Decisions
  PROVE  /\ d.verdict = "approved" => Approved(Append(ds, d), d.stage)
         /\ \A g \in Stages \ {d.stage} :
              Approved(ds, g) => Approved(Append(ds, d), g)
<1> DEFINE new == Append(ds, d)
<1>1. /\ Len(ds) \in Nat /\ DOMAIN ds = 1..Len(ds)
      /\ DOMAIN new = 1..(Len(ds) + 1)
      /\ new[Len(ds) + 1] = d
      /\ \A i \in 1..Len(ds) : new[i] = ds[i]
  BY AppendProperties, LenProperties
<1>2. d = [stage |-> d.stage, verdict |-> d.verdict]
  BY DEF Decisions
<1>3. ASSUME d.verdict = "approved" PROVE Approved(new, d.stage)
  BY <1>1, <1>2, <1>3 DEF Approved
<1>4. ASSUME NEW g \in Stages \ {d.stage}, Approved(ds, g)
      PROVE  Approved(new, g)
  <2>1. PICK i \in DOMAIN ds :
          /\ ds[i] = [stage |-> g, verdict |-> "approved"]
          /\ \A j \in DOMAIN ds : j > i => ds[j].stage # g
    BY <1>4 DEF Approved
  <2>2. i \in DOMAIN new /\ new[i] = [stage |-> g, verdict |-> "approved"]
    BY <1>1, <2>1
  <2>3. ASSUME NEW j \in DOMAIN new, j > i PROVE new[j].stage # g
    BY <1>1, <2>1, <2>3, <1>4
  <2> QED
    BY <2>2, <2>3 DEF Approved
<1> QED
  BY <1>3, <1>4

-----------------------------------------------------------------------------
(* The files.                                                              *)

\* The files stay consistent with each other and with memory.
LEMMA FilesStep == TypeOK /\ FilesInv /\ [Next]_vars => FilesInv'
<1> SUFFICES ASSUME TypeOK, FilesInv, [Next]_vars PROVE FilesInv'
  OBVIOUS
<1>1. NoCkpt.state = "none" /\ NoCkpt.done = {} /\ NoCkpt.decisions = <<>>
      /\ NoCkpt = [NoCkpt EXCEPT !.state = NoCkpt.state]
  BY DEF NoCkpt
<1>2. /\ decisions \in Seq(Decisions) /\ ckpt.decisions \in Seq(Decisions)
      /\ IsPrefix(decisions, decisions) /\ IsPrefix(ckpt.decisions, ckpt.decisions)
      /\ IsPrefix(<<>>, <<>>)
  <2>1. /\ <<>> \in Seq(Decisions) /\ decisions \in Seq(Decisions)
        /\ ckpt.decisions \in Seq(Decisions)
    BY DEF TypeOK
  <2> QED
    BY <2>1, PrefixRefl
<1>3. \A d : /\ Saved(d, decisions).state = "saved"
             /\ Saved(d, decisions).done = d
             /\ Saved(d, decisions).decisions = decisions
  BY DEF Saved
<1>4. CASE Start
  <2>1. ckpt' = NoCkpt /\ resumes' = resumes /\ done' = {} /\ decisions' = <<>>
        /\ report'.status = "running" /\ pc' = "top"
    BY <1>4 DEF Start, FilesInv, Launch
  <2> QED
    BY <1>1, <1>2, <2>1 DEF FilesInv
<1>5. CASE Resume \/ Decide
  <2>1. /\ ckpt' = ckpt /\ done' = ckpt.done /\ decisions' = ckpt.decisions
        /\ report'.status = "running" /\ ckpt.state = "saved"
        /\ pc' = "top"
    BY <1>5 DEF Resume, Decide, Relaunch, Launch
  <2> QED
    BY <1>2, <2>1 DEF FilesInv
<1>6. CASE StartRefused
  <2>1. report'.status = "failed" /\ pc' = "off" /\ ckpt' = ckpt
    BY <1>6 DEF StartRefused, TypeOK
  <2> QED
    BY <2>1 DEF FilesInv
<1>7. CASE PassOver
  BY <1>7 DEF PassOver, FilesInv
<1>8. ASSUME pc \notin {"off", "final"}, pc' \notin {"off", "finish", "final"},
             ckpt' = Saved(done', decisions), decisions' = decisions,
             report'.status = report.status
      PROVE  FilesInv'
  BY <1>2, <1>3, <1>8 DEF FilesInv
<1>9. CASE SkipChosen
  <2>1. report'.status = report.status
    BY <1>9 DEF SkipChosen, TypeOK
  <2> QED
    BY <1>8, <1>9, <2>1 DEF SkipChosen
<1>10. CASE RunAgent \/ RunSoftGate \/ AwaitDecision \/ RefuseDecision
            \/ TakeDecision
  <2>1. /\ pc = "top" /\ pc' = "settle" /\ ckpt' = ckpt /\ done' = done
        /\ report'.status = report.status
    BY <1>10, StageRun DEF AtStage, TypeOK
  <2>2. IsPrefix(ckpt.decisions, decisions')
    <3>1. IsPrefix(ckpt.decisions, decisions)
      BY <2>1 DEF FilesInv
    <3>2. CASE TakeDecision
      <4>1. pending \in Decisions /\ decisions' = Append(decisions, pending)
        BY <3>2, PipelineAssumption
           DEF TakeDecision, AtStage, TypeOK, NoDecision, Ran, Stages
      <4> QED
        BY <1>2, <3>1, <4>1, PrefixAppend
    <3>3. CASE RunAgent \/ RunSoftGate \/ AwaitDecision \/ RefuseDecision
      BY <3>1, <3>3 DEF RunAgent, RunSoftGate, AwaitDecision, RefuseDecision, Ran
    <3> QED
      BY <1>10, <3>2, <3>3
  <2> QED
    BY <2>1, <2>2 DEF FilesInv
<1>11. CASE Pause
  BY <1>8, <1>11 DEF Pause, memory
<1>12. CASE StageCompleted
  BY <1>8, <1>12 DEF StageCompleted
<1>13. CASE Rejected \/ ChangesRequested
  BY <1>8, <1>13 DEF Rejected, ChangesRequested, Counted, LoopBack
<1>14. CASE \/ StageFailed \/ RejectionUnrecorded \/ GiveUp
            \/ RequestUnrecorded \/ DeliverRaises \/ AcceptanceUnrecorded
  <2>1. pc \notin {"off", "final"} /\ pc' = "raise"
        /\ UNCHANGED <<done, decisions, ckpt, report, resumes>>
    BY <1>14 DEF StageFailed, RejectionUnrecorded, GiveUp, RequestUnrecorded,
                 DeliverRaises, AcceptanceUnrecorded, Raise, Counted
  <2> QED
    BY <2>1 DEF FilesInv
<1>15. CASE Stopped \/ SequenceCompleted \/ Deliver \/ GoOn
  <2>1. /\ pc \notin {"off", "final"} /\ pc' \notin {"off", "final"}
        /\ pc' = "finish" => verdict' # "running"
        /\ UNCHANGED <<done, decisions, ckpt, report, resumes>>
    BY <1>15 DEF Stopped, SequenceCompleted, Deliver, GoOn, memory
  <2> QED
    BY <2>1 DEF FilesInv
<1>16. CASE Finish
  <2>1. /\ pc = "finish" /\ pc' = "final"
        /\ ckpt' = IF verdict = "completed" THEN NoCkpt ELSE ckpt
        /\ UNCHANGED <<done, verdict, report, resumes>>
    BY <1>16 DEF Finish, memory
  <2>2. /\ report.status = "running" /\ ckpt.state # "torn" /\ ckpt.done = done
        /\ verdict # "running"
    BY <2>1 DEF FilesInv
  <2>3. CASE verdict = "completed"
    <3>1. /\ ckpt' = NoCkpt /\ ckpt'.state # "torn" /\ ckpt'.done = {}
          /\ ckpt' = [NoCkpt EXCEPT !.state = ckpt'.state]
      BY <1>1, <2>1, <2>3
    <3> QED
      BY <2>1, <2>2, <2>3, <3>1 DEF FilesInv
  <2>4. CASE verdict # "completed"
    <3>1. ckpt' = ckpt
      BY <2>1, <2>4
    <3> QED
      BY <2>1, <2>2, <2>4, <3>1 DEF FilesInv
  <2> QED
    BY <2>3, <2>4
<1>17. CASE ReturnPaused \/ ReturnFinal \/ ReturnFailed
  <2>1. pc' = "off" /\ ckpt' = ckpt /\ report'.status # "absent"
    BY <1>17 DEF ReturnPaused, ReturnFinal, ReturnFailed, Exit, TypeOK
  <2> QED
    BY <2>1 DEF FilesInv
<1>18. CASE Crash
  <2>1. /\ pc # "off" /\ pc' = "off" /\ report' = report
        /\ ckpt' = ckpt \/ ckpt' = [NoCkpt EXCEPT !.state = "torn"]
    BY <1>18 DEF Crash
  <2>2. [NoCkpt EXCEPT !.state = "torn"].state = "torn"
    BY DEF NoCkpt
  <2> QED
    BY <2>1, <2>2 DEF FilesInv
<1>19. CASE UNCHANGED vars
  BY <1>19 DEF vars, memory, FilesInv
<1> QED
  BY <1>4, <1>5, <1>6, <1>7, <1>9, <1>10, <1>11, <1>12, <1>13, <1>14, <1>15,
     <1>16, <1>17, <1>18, <1>19 DEF Next, Worker

-----------------------------------------------------------------------------
(* Current work.                                                           *)

\* A set of completed stages stands on work that is current and, at its hard
\* gates, approved in the given decisions.
StandsOn(d, ds, res) ==
  /\ \A s \in d : res[s] # "none"
  /\ \A g \in HardGates \cap d : Approved(ds, g) /\ res[g] = "stands"

\* CurrentInv in terms of StandsOn.
LEMMA CurrentAsStandsOn ==
  CurrentInv <=>
    /\ pc # "off" => StandsOn(done, decisions, result)
    /\ StandsOn(ckpt.done, ckpt.decisions, result)
    /\ pc \in {"settle", "check"} => result[index] = Established(outcome)
    /\ pc \in {"settle", "check"} /\ index \in HardGates /\ outcome = "pass" =>
         Approved(decisions, index)
BY DEF CurrentInv, StandsOn

\* What a change request or a passed stage establishes is never "none".
LEMMA EstablishedCases ==
  /\ Established("pass") = "stands"
  /\ \A o \in ChangeRequests : Established(o) = "changes"
  /\ \A o \in {"failed", "waiting", "rejected"} : Established(o) = "none"
BY SigsAssumption DEF Established, ChangeRequests, Textual

\* Running a stage leaves the stages before it, and the approvals of their
\* gates, as they were.
LEMMA RunKeepsEarlier ==
  ASSUME TypeOK,
         RunAgent \/ RunSoftGate \/ AwaitDecision \/ RefuseDecision
         \/ TakeDecision
  PROVE  /\ \A s \in Before(index) \cap Stages : result'[s] = result[s]
         /\ result'[index] = Established(outcome')
         /\ \A g \in HardGates \ {index} :
              Approved(decisions, g) => Approved(decisions', g)
         /\ index \in HardGates /\ outcome' = "pass" => Approved(decisions', index)
<1> USE PipelineAssumption
<1>1. index \in Stages
  BY StageRun DEF AtStage
<1>2. \A s \in Before(index) \cap Stages : result'[s] = result[s]
  <2> SUFFICES ASSUME NEW s \in Before(index) \cap Stages
               PROVE  result'[s] = result[s]
    OBVIOUS
  <2>1. s < index
    BY <1>1 DEF Before, Stages
  <2> QED
    BY <2>1, StageRun
<1>3. result'[index] = Established(outcome')
  <2>1. ~(index < index)
    BY <1>1 DEF Stages
  <2> QED
    BY <1>1, <2>1, StageRun
<1>4. CASE TakeDecision
  <2>1. /\ pending \in Decisions /\ decisions' = Append(decisions, pending)
        /\ pending.stage = index
        /\ outcome' = "pass" => pending.verdict = "approved"
    BY <1>4 DEF TakeDecision, AtStage, TypeOK, NoDecision, Ran, Stages
  <2>2. decisions \in Seq(Decisions)
    BY DEF TypeOK
  <2> QED
    BY <1>2, <1>3, <2>1, <2>2, ApprovedAppend
<1>5. CASE RunAgent \/ RunSoftGate
  BY <1>2, <1>3, <1>5 DEF RunAgent, RunSoftGate, AtStage, AgentStages, Ran
<1>6. CASE AwaitDecision \/ RefuseDecision
  BY <1>2, <1>3, <1>6 DEF AwaitDecision, RefuseDecision, Ran
<1> QED
  BY <1>4, <1>5, <1>6

\* CurrentInv is preserved: what counts as completed stands on current work.
LEMMA CurrentStep ==
  /\ TypeOK /\ OutcomeInv /\ PositionInv /\ FilesInv /\ CurrentInv
  /\ [Next]_vars
  => CurrentInv'
<1> SUFFICES ASSUME TypeOK, OutcomeInv, PositionInv, FilesInv, CurrentInv,
                    [Next]_vars
             PROVE  CurrentInv'
  OBVIOUS
<1> USE PipelineAssumption
<1>0. SUFFICES /\ pc' # "off" => StandsOn(done', decisions', result')
               /\ StandsOn(ckpt'.done, ckpt'.decisions, result')
               /\ pc' \in {"settle", "check"} =>
                    result'[index'] = Established(outcome')
               /\ pc' \in {"settle", "check"} /\ index' \in HardGates
                    /\ outcome' = "pass" => Approved(decisions', index')
  BY DEF CurrentInv, StandsOn
<1>1. StandsOn(ckpt.done, ckpt.decisions, result)
  BY CurrentAsStandsOn
<1>2. pc # "off" => StandsOn(done, decisions, result)
  BY CurrentAsStandsOn
<1>3. \A ds, res : StandsOn({}, ds, res)
  BY DEF StandsOn
<1>4. NoCkpt.done = {} /\ [NoCkpt EXCEPT !.state = "torn"].done = {}
  BY DEF NoCkpt
<1>5. \A d : /\ Saved(d, decisions).done = d
             /\ Saved(d, decisions).decisions = decisions
  BY DEF Saved
<1>6. \A d, e, ds, res : d \subseteq e /\ StandsOn(e, ds, res)
                         => StandsOn(d, ds, res)
  BY DEF StandsOn
<1>7. CASE Start
  BY <1>1, <1>3, <1>7 DEF Start, Launch
<1>8. CASE Resume \/ Decide
  BY <1>1, <1>8 DEF Resume, Decide, Relaunch, Launch
<1>9. CASE StartRefused \/ UNCHANGED vars
  <2>1. UNCHANGED <<pc, memory, ckpt, result>>
    BY <1>9 DEF StartRefused, vars
  <2>2. UNCHANGED <<pc, index, done, decisions, outcome, ckpt, result>>
    BY <2>1 DEF memory
  <2> QED
    BY <2>2, <1>1, <1>2, CurrentAsStandsOn
<1>10. CASE PassOver
  BY <1>1, <1>2, <1>10 DEF PassOver
<1>11. CASE SkipChosen
  <2>1. /\ pc = "top" /\ pc' = "top" /\ index \in Stages \ HardGates
        /\ done' = done \cup {index} /\ ckpt' = Saved(done', decisions)
        /\ decisions' = decisions
        /\ result' = [result EXCEPT ![index] = "stands"]
    BY <1>11 DEF SkipChosen, TypeOK
  <2>2. /\ result'[index] = "stands"
        /\ \A s \in Stages \ {index} : result'[s] = result[s]
    BY <2>1 DEF TypeOK
  <2>3. StandsOn(done', decisions', result')
    BY <1>2, <2>1, <2>2 DEF StandsOn, TypeOK
  <2> QED
    BY <1>5, <2>1, <2>3
<1>12. CASE RunAgent \/ RunSoftGate \/ AwaitDecision \/ RefuseDecision
            \/ TakeDecision
  <2>1. /\ pc = "top" /\ pc' = "settle" /\ index \in Stages
        /\ UNCHANGED <<index, done, ckpt>>
    BY <1>12, StageRun DEF AtStage
  <2>2. done = Before(index) /\ ckpt.done = Before(index) /\ index \notin done
        /\ done \subseteq Stages
    <3>1. done = Before(index)
      BY <1>12, StageRun, FirstOpenStage DEF AtStage
    <3>2. ckpt.done = done
      BY <2>1 DEF FilesInv
    <3> QED
      BY <3>1, <3>2 DEF Before, Stages, TypeOK
  <2>3. /\ \A s \in done : result'[s] = result[s]
        /\ \A g \in HardGates \cap done :
             Approved(decisions, g) => Approved(decisions', g)
    BY <1>12, <2>2, RunKeepsEarlier
  <2>4. /\ StandsOn(done, decisions', result')
        /\ StandsOn(ckpt.done, ckpt.decisions, result')
    BY <1>1, <1>2, <2>1, <2>2, <2>3 DEF StandsOn
  <2> QED
    BY <1>12, <2>1, <2>4, RunKeepsEarlier
<1>13. CASE Pause
  BY <1>2, <1>5, <1>13 DEF Pause, memory
<1>14. CASE StageCompleted
  <2>1. /\ pc = "settle" /\ pc' = "check" /\ index \in Stages
        /\ outcome \in {"pass"} \cup ChangeRequests
        /\ done' = done \cup {index} /\ ckpt' = Saved(done', decisions)
        /\ UNCHANGED <<index, decisions, outcome, result>>
    BY <1>14 DEF StageCompleted, OutcomeInv
  <2>2. /\ result[index] = Established(outcome)
        /\ index \in HardGates /\ outcome = "pass" => Approved(decisions, index)
    BY <2>1 DEF CurrentInv
  <2>3. index \in HardGates => outcome = "pass"
    BY <2>1 DEF OutcomeInv, AgentStages
  <2>4. StandsOn(done', decisions, result)
    BY <1>2, <2>1, <2>2, <2>3, EstablishedCases DEF StandsOn
  <2> QED
    BY <1>5, <2>1, <2>2, <2>4
<1>15. CASE Rejected \/ ChangesRequested
  <2>1. /\ pc # "off" /\ pc' = "top" /\ done' \subseteq done
        /\ ckpt' = Saved(done', decisions) /\ UNCHANGED <<decisions, result>>
    BY <1>15 DEF Rejected, ChangesRequested, Counted, LoopBack
  <2> QED
    BY <1>2, <1>5, <1>6, <2>1
<1>16. CASE \/ StageFailed \/ RejectionUnrecorded \/ GiveUp
            \/ RequestUnrecorded \/ DeliverRaises \/ AcceptanceUnrecorded
  <2>1. pc # "off" /\ pc' = "raise"
        /\ UNCHANGED <<done, decisions, ckpt, result>>
    BY <1>16 DEF StageFailed, RejectionUnrecorded, GiveUp, RequestUnrecorded,
                 DeliverRaises, AcceptanceUnrecorded, Raise, Counted
  <2> QED
    BY <1>1, <1>2, <2>1
<1>17. CASE Stopped \/ SequenceCompleted \/ Deliver \/ GoOn
  <2>1. pc # "off" /\ pc' \notin {"settle", "check"}
        /\ UNCHANGED <<done, decisions, ckpt, result>>
    BY <1>17 DEF Stopped, SequenceCompleted, Deliver, GoOn, memory
  <2> QED
    BY <1>1, <1>2, <2>1
<1>18. CASE Finish
  <2>1. /\ pc # "off" /\ pc' = "final" /\ UNCHANGED <<done, decisions, result>>
        /\ ckpt' = ckpt \/ ckpt' = NoCkpt
    BY <1>18 DEF Finish, memory
  <2> QED
    BY <1>1, <1>2, <1>3, <1>4, <2>1
<1>19. CASE ReturnPaused \/ ReturnFinal \/ ReturnFailed
  <2>1. pc' = "off" /\ UNCHANGED <<ckpt, result>>
    BY <1>19 DEF ReturnPaused, ReturnFinal, ReturnFailed, Exit
  <2> QED
    BY <1>1, <2>1
<1>20. CASE Crash
  <2>1. /\ pc' = "off" /\ UNCHANGED result
        /\ ckpt' = ckpt \/ ckpt'.done = {}
    BY <1>4, <1>20 DEF Crash
  <2> QED
    BY <1>1, <1>3, <2>1
<1> QED
  BY <1>7, <1>8, <1>9, <1>10, <1>11, <1>12, <1>13, <1>14, <1>15, <1>16, <1>17,
     <1>18, <1>19, <1>20 DEF Next, Worker

-----------------------------------------------------------------------------
(* The stage runs of the report.                                           *)

\* RunsInv is preserved.
LEMMA RunsStep ==
  TypeOK /\ OutcomeInv /\ PositionInv /\ RunsInv /\ [Next]_vars => RunsInv'
<1> SUFFICES ASSUME TypeOK, OutcomeInv, PositionInv, RunsInv, [Next]_vars
             PROVE  RunsInv'
  OBVIOUS
<1> USE PipelineAssumption
<1>1. Before(1) = {} /\ \A s \in Stages : NoRuns[s] = "none"
  BY DEF Before, NoRuns
<1>2. CASE Start \/ Resume \/ Decide
  <2>1. pc' = "top" /\ index' = 1 /\ runs' = NoRuns
    BY <1>2 DEF Start, Resume, Decide, Relaunch, Launch
  <2> QED
    BY <1>1, <2>1 DEF RunsInv
<1>3. CASE StartRefused \/ UNCHANGED vars
  BY <1>3 DEF StartRefused, vars, memory, RunsInv
<1>4. CASE PassOver \/ SkipChosen
  <2>1. /\ pc = "top" /\ pc' = "top" /\ index \in Stages /\ index' = index + 1
        /\ runs' = [runs EXCEPT ![index] = "completed"]
    BY <1>4 DEF PassOver, SkipChosen
  <2>2. \A s \in Stages : runs'[s] = IF s = index THEN "completed" ELSE runs[s]
    BY <2>1 DEF TypeOK
  <2>3. \A s \in Before(index') : s \in Stages /\ (s = index \/ s \in Before(index))
    BY <2>1 DEF Before, Stages
  <2> QED
    BY <2>1, <2>2, <2>3 DEF RunsInv
<1>5. CASE RunAgent \/ RunSoftGate \/ AwaitDecision \/ RefuseDecision
           \/ TakeDecision
  <2>1. /\ pc = "top" /\ pc' = "settle" /\ index \in Stages /\ index' = index
        /\ runs' = [runs EXCEPT ![index] = StatusOf(outcome')]
    BY <1>5, StageRun DEF AtStage
  <2>2. \A s \in Stages :
          runs'[s] = IF s = index THEN StatusOf(outcome') ELSE runs[s]
    BY <2>1 DEF TypeOK
  <2>3. \A s \in Before(index) : s \in Stages /\ s # index
    BY <2>1 DEF Before, Stages
  <2> QED
    BY <2>1, <2>2, <2>3 DEF RunsInv
<1>6. CASE Pause
  <2>1. /\ pc = "settle" /\ outcome = "waiting" /\ pc' = "waiting"
        /\ ckpt'.state = "saved" /\ UNCHANGED <<index, runs>>
    BY <1>6 DEF Pause, Saved, memory
  <2>2. index \in HardGates \cup SoftGates
    BY <2>1 DEF OutcomeInv
  <2>3. {s \in Stages : runs[s] = "waiting"} = {index}
    BY <2>1, <2>2 DEF RunsInv, StatusOf
  <2> QED
    BY <2>1, <2>2, <2>3 DEF RunsInv
<1>7. CASE StageCompleted
  <2>1. /\ pc = "settle" /\ pc' = "check" /\ UNCHANGED <<index, runs, outcome>>
        /\ StatusOf(outcome) # "waiting"
    BY <1>7, SigsAssumption
       DEF StageCompleted, StatusOf, ChangeRequests, Textual
  <2> QED
    BY <2>1 DEF RunsInv
<1>8. CASE GoOn
  <2>1. /\ pc = "check" /\ pc' = "top" /\ outcome = "pass" /\ index \in Stages
        /\ index' = index + 1 /\ runs' = runs
    BY <1>8 DEF GoOn, OutcomeInv
  <2>2. \A s \in Before(index') : s = index \/ s \in Before(index)
    BY <2>1 DEF Before, Stages
  <2>3. runs[index] = "completed"
    BY <2>1 DEF RunsInv, StatusOf
  <2> QED
    BY <2>1, <2>2, <2>3 DEF RunsInv
<1>9. CASE Rejected \/ ChangesRequested
  <2>1. PICK target \in Stages : target <= index /\ LoopBack(target)
    BY <1>9, BackwardAssumption
       DEF Rejected, ChangesRequested, Counted, OutcomeInv
  <2>2. /\ pc \in {"settle", "check"} /\ pc' = "top" /\ index' = target
        /\ runs' = runs /\ outcome # "waiting" /\ outcome # "failed"
    BY <1>9, <2>1, SigsAssumption
       DEF Rejected, ChangesRequested, Counted, LoopBack, ChangeRequests, Textual
  <2>3. \A s \in Stages : runs[s] # "waiting"
    <3>1. runs[index] = "completed"
      BY <2>2 DEF RunsInv, StatusOf
    <3> QED
      BY <2>2, <3>1 DEF RunsInv
  <2>4. \A s \in Before(target) : runs[s] = "completed"
    <3>1. \A s \in Before(target) : s \in Before(index)
      BY <2>1 DEF Before, Stages, TypeOK
    <3> QED
      BY <2>2, <3>1 DEF RunsInv
  <2>5. pc' \notin {"settle", "check", "waiting", "deliver", "finish", "final"}
    BY <2>2
  <2> QED
    BY <2>2, <2>3, <2>4, <2>5 DEF RunsInv
<1>10. CASE \/ Stopped \/ StageFailed \/ RejectionUnrecorded \/ GiveUp
            \/ RequestUnrecorded \/ DeliverRaises \/ AcceptanceUnrecorded
  <2>1. pc' = "raise"
    BY <1>10 DEF Stopped, StageFailed, RejectionUnrecorded, GiveUp,
                 RequestUnrecorded, DeliverRaises, AcceptanceUnrecorded, Raise
  <2> QED
    BY <2>1 DEF RunsInv
<1>11. CASE SequenceCompleted \/ Deliver \/ Finish
  BY <1>11 DEF SequenceCompleted, Deliver, Finish, memory, RunsInv
<1>12. CASE ReturnPaused \/ ReturnFinal \/ ReturnFailed \/ Crash
  BY <1>12 DEF ReturnPaused, ReturnFinal, ReturnFailed, Exit, Crash, RunsInv
<1> QED
  BY <1>2, <1>3, <1>4, <1>5, <1>6, <1>7, <1>8, <1>9, <1>10, <1>11, <1>12
     DEF Next, Worker

-----------------------------------------------------------------------------
(* The first attempt.                                                      *)

\* FirstAttemptInv is preserved: every loopback leads to or before the stage
\* that asked for it, so that stage runs again before any later one.
LEMMA FirstAttemptStep ==
  /\ TypeOK /\ OutcomeInv /\ CurrentInv /\ FirstAttemptInv /\ [Next]_vars
  => FirstAttemptInv'
<1> SUFFICES ASSUME TypeOK, OutcomeInv, CurrentInv, FirstAttemptInv, [Next]_vars
             PROVE  FirstAttemptInv'
  OBVIOUS
<1> USE PipelineAssumption
<1>1. CASE Start
  <2>1. index' = 1 /\ skipDone' = FALSE
    BY <1>1 DEF Start, Launch
  <2> QED
    BY <2>1 DEF FirstAttemptInv, Before
<1>2. CASE Resume \/ Decide
  <2>1. resumes' = resumes + 1
    BY <1>2 DEF Resume, Decide, Relaunch
  <2>2. resumes' # 0
    BY <2>1 DEF TypeOK
  <2> QED
    BY <2>2 DEF FirstAttemptInv
<1>3. CASE StartRefused \/ UNCHANGED vars
  BY <1>3 DEF StartRefused, vars, memory, FirstAttemptInv
<1>4. CASE PassOver
  BY <1>4 DEF PassOver, FirstAttemptInv
<1>5. CASE SkipChosen
  <2>1. /\ pc = "top" /\ index \in Stages /\ index' = index + 1
        /\ skipDone' = skipDone /\ resumes' = resumes
        /\ result' = [result EXCEPT ![index] = "stands"]
    BY <1>5 DEF SkipChosen
  <2>2. \A s \in Before(index') : s \in Stages /\ (s = index \/ s \in Before(index))
    BY <2>1 DEF Before, Stages
  <2> QED
    BY <2>1, <2>2 DEF FirstAttemptInv, TypeOK
<1>6. CASE RunAgent \/ RunSoftGate \/ AwaitDecision \/ RefuseDecision
           \/ TakeDecision
  <2>1. /\ pc = "top" /\ index \in Stages /\ skipDone' = FALSE
        /\ UNCHANGED <<index, resumes>>
    BY <1>6, StageRun DEF AtStage
  <2>2. \A s \in Before(index) : s \in Stages /\ result'[s] = result[s]
    <3>1. \A s \in Before(index) : s \in Stages
      BY <2>1 DEF Before, Stages
    <3> QED
      BY <1>6, <3>1, RunKeepsEarlier
  <2> QED
    BY <2>1, <2>2 DEF FirstAttemptInv
<1>7. CASE StageCompleted
  BY <1>7 DEF StageCompleted, FirstAttemptInv
<1>8. CASE GoOn
  <2>1. /\ pc = "check" /\ index \in Stages /\ index' = index + 1
        /\ result[index] = "stands" /\ UNCHANGED <<result, resumes, skipDone>>
    BY <1>8, EstablishedCases DEF GoOn, OutcomeInv, CurrentInv
  <2>2. \A s \in Before(index') : s = index \/ s \in Before(index)
    BY <2>1 DEF Before, Stages
  <2> QED
    BY <2>1, <2>2 DEF FirstAttemptInv
<1>9. CASE Rejected \/ ChangesRequested
  <2>1. PICK target \in Stages : target <= index /\ LoopBack(target)
    BY <1>9, BackwardAssumption
       DEF Rejected, ChangesRequested, Counted, OutcomeInv
  <2>2. /\ pc \in {"settle", "check"} /\ index' = target
        /\ UNCHANGED <<result, resumes, skipDone>>
    BY <1>9, <2>1 DEF Rejected, ChangesRequested, Counted, LoopBack
  <2>3. \A s \in Before(target) : s \in Before(index)
    BY <2>1 DEF Before, Stages, TypeOK
  <2> QED
    BY <2>2, <2>3 DEF FirstAttemptInv
<1>10. CASE \/ Stopped \/ StageFailed \/ RejectionUnrecorded \/ GiveUp
            \/ RequestUnrecorded \/ DeliverRaises \/ AcceptanceUnrecorded
  <2>1. pc' = "raise"
    BY <1>10 DEF Stopped, StageFailed, RejectionUnrecorded, GiveUp,
                 RequestUnrecorded, DeliverRaises, AcceptanceUnrecorded, Raise
  <2> QED
    BY <2>1 DEF FirstAttemptInv
<1>11. CASE SequenceCompleted \/ Deliver \/ Finish \/ Pause
  BY <1>11 DEF SequenceCompleted, Deliver, Finish, Pause, FirstAttemptInv
<1>12. CASE ReturnPaused \/ ReturnFinal \/ ReturnFailed \/ Crash
  BY <1>12 DEF ReturnPaused, ReturnFinal, ReturnFailed, Exit, Crash,
               FirstAttemptInv
<1> QED
  BY <1>1, <1>2, <1>3, <1>4, <1>5, <1>6, <1>7, <1>8, <1>9, <1>10, <1>11, <1>12
     DEF Next, Worker

-----------------------------------------------------------------------------
(* Runs that came to rest.                                                 *)

\* A run in its initial state satisfies the whole invariant.
LEMMA InitInductive == Init => Inductive
<1> SUFFICES ASSUME Init PROVE Inductive
  OBVIOUS
<1>1. /\ pc = "off" /\ ckpt = NoCkpt /\ resumes = 0 /\ report.status = "absent"
  BY DEF Init
<1>2. /\ NoCkpt.done = Before(1) /\ NoCkpt.done = {}
      /\ NoCkpt = [NoCkpt EXCEPT !.state = NoCkpt.state]
  BY DEF NoCkpt, Before
<1>3. PositionInv
  BY <1>1, <1>2, PipelineAssumption DEF PositionInv, IsPrefixOfPipeline
<1>4. FilesInv
  BY <1>1, <1>2 DEF FilesInv
<1>5. OutcomeInv /\ CurrentInv
  BY <1>1, <1>2 DEF OutcomeInv, CurrentInv
<1>6. RunsInv /\ FirstAttemptInv
  BY <1>1 DEF RunsInv, FirstAttemptInv
<1>7. CompletedRunIsSound /\ PausedRunStandsAtItsGate
  BY <1>1 DEF CompletedRunIsSound, PausedRunStandsAtItsGate
<1> QED
  BY <1>3, <1>4, <1>5, <1>6, <1>7, InitType DEF Inductive

\* While a worker lives the report says running, and only a worker that
\* returns changes the report of a run that came to rest.
LEMMA RestStep ==
  ASSUME TypeOK, FilesInv, [Next]_vars
  PROVE  \/ report'.status \in {"absent", "running", "failed"}
         \/ UNCHANGED <<report, ckpt, result>>
         \/ ReturnPaused \/ ReturnFinal
<1>1. CASE Start \/ Resume \/ Decide
  BY <1>1 DEF Start, Resume, Decide, Relaunch, Launch
<1>2. CASE StartRefused
  BY <1>2 DEF StartRefused, TypeOK
<1>3. CASE Worker
  <2>1. report.status = "running"
    <3>1. pc # "off"
      BY <1>3 DEF Worker, PassOver, SkipChosen, Stopped, RunAgent, RunSoftGate,
           AwaitDecision, RefuseDecision, TakeDecision, AtStage, Pause,
           StageFailed, Rejected, RejectionUnrecorded, StageCompleted, GoOn,
           ChangesRequested, GiveUp, RequestUnrecorded, Counted, ReturnPaused,
           SequenceCompleted, Deliver, DeliverRaises, AcceptanceUnrecorded,
           Finish, ReturnFinal, ReturnFailed
    <3> QED
      BY <3>1 DEF FilesInv
  <2>2. CASE RunAgent \/ RunSoftGate \/ AwaitDecision \/ RefuseDecision
             \/ TakeDecision
    BY <2>1, <2>2, StageRun DEF TypeOK
  <2>3. CASE SkipChosen
    BY <2>1, <2>3 DEF SkipChosen, TypeOK
  <2>4. CASE ReturnFailed
    BY <2>4 DEF ReturnFailed, Exit
  <2>5. CASE PassOver \/ Stopped \/ Pause \/ StageFailed \/ Rejected
             \/ RejectionUnrecorded \/ StageCompleted \/ GoOn
    BY <2>1, <2>5 DEF PassOver, Stopped, Pause, StageFailed, Rejected,
       RejectionUnrecorded, StageCompleted, GoOn, Raise, LoopBack
  <2>6. CASE ChangesRequested \/ GiveUp \/ RequestUnrecorded
             \/ SequenceCompleted \/ Deliver \/ DeliverRaises
             \/ AcceptanceUnrecorded \/ Finish
    BY <2>1, <2>6 DEF ChangesRequested, GiveUp, RequestUnrecorded,
       SequenceCompleted, Deliver, DeliverRaises, AcceptanceUnrecorded, Finish,
       Raise, LoopBack
  <2> QED
    BY <1>3, <2>2, <2>3, <2>4, <2>5, <2>6 DEF Worker
<1>4. CASE Crash
  <2>1. report' = report /\ report.status = "running"
    BY <1>4 DEF Crash, FilesInv
  <2> QED
    BY <2>1
<1>5. CASE UNCHANGED vars
  BY <1>5 DEF vars
<1> QED
  BY <1>1, <1>2, <1>3, <1>4, <1>5 DEF Next

\* A run is reported completed only in a sound state.
LEMMA CompletedStep ==
  ASSUME TypeOK, PositionInv, FilesInv, CurrentInv, RunsInv,
         CompletedRunIsSound, [Next]_vars
  PROVE  CompletedRunIsSound'
<1>1. CASE ReturnFinal
  <2>1. /\ pc = "final" /\ report'.decisions = decisions /\ report'.last = runs
        /\ UNCHANGED result
    BY <1>1 DEF ReturnFinal, Exit
  <2>2. done = Stages /\ Before(index) = Stages
    BY <2>1, BeforeAll DEF PositionInv
  <2>3. /\ \A g \in HardGates : Approved(decisions, g)
        /\ \A s \in Stages : result[s] # "none"
    BY <2>1, <2>2, PipelineAssumption DEF CurrentInv
  <2>4. \A s \in Stages : runs[s] = "completed"
    BY <2>1, <2>2 DEF RunsInv
  <2> QED
    BY <2>1, <2>3, <2>4 DEF CompletedRunIsSound
<1>2. CASE ReturnPaused
  BY <1>2 DEF ReturnPaused, Exit, CompletedRunIsSound
<1>3. CASE report'.status \in {"absent", "running", "failed"}
  BY <1>3 DEF CompletedRunIsSound
<1>4. CASE UNCHANGED <<report, ckpt, result>>
  BY <1>4 DEF CompletedRunIsSound
<1> QED
  BY <1>1, <1>2, <1>3, <1>4, RestStep

\* A run is reported paused only at its gate.
LEMMA PausedStep ==
  ASSUME TypeOK, PositionInv, FilesInv, RunsInv,
         PausedRunStandsAtItsGate, [Next]_vars
  PROVE  PausedRunStandsAtItsGate'
<1>1. CASE ReturnPaused
  <2>1. pc = "waiting" /\ report'.last = runs /\ UNCHANGED ckpt
    BY <1>1 DEF ReturnPaused, Exit
  <2>2. ckpt.done = Before(index)
    BY <2>1 DEF PositionInv, FilesInv
  <2>3. /\ ckpt.state = "saved" /\ index \in HardGates \cup SoftGates
        /\ {s \in Stages : runs[s] = "waiting"} = {index}
    BY <2>1 DEF RunsInv
  <2> QED
    BY <2>1, <2>2, <2>3 DEF PausedRunStandsAtItsGate
<1>2. CASE ReturnFinal
  BY <1>2 DEF ReturnFinal, Exit, TypeOK, PausedRunStandsAtItsGate
<1>3. CASE report'.status \in {"absent", "running", "failed"}
  BY <1>3 DEF PausedRunStandsAtItsGate
<1>4. CASE UNCHANGED <<report, ckpt, result>>
  BY <1>4 DEF PausedRunStandsAtItsGate
<1> QED
  BY <1>1, <1>2, <1>3, <1>4, RestStep

\* Every step preserves the whole invariant.
LEMMA InductiveStep == Inductive /\ [Next]_vars => Inductive'
BY TypeStep, OutcomeStep, PositionStep, FilesStep, CurrentStep, RunsStep,
   FirstAttemptStep, CompletedStep, PausedStep DEF Inductive

-----------------------------------------------------------------------------
(* What the runs check, for every pipeline.                                *)

\* The inductive invariant holds in every state of every run.
LEMMA InductiveInvariant == Spec => []Inductive
<1>1. Init => Inductive
  BY InitInductive
<1>2. Inductive /\ [Next]_vars => Inductive'
  BY InductiveStep
<1> QED
  BY <1>1, <1>2, PTL DEF Spec

\* Every variable keeps its type (StageSequence, TypeOK).
THEOREM TypeCorrect == Spec => []TypeOK
<1>1. Inductive => TypeOK
  BY DEF Inductive
<1> QED
  BY <1>1, InductiveInvariant, PTL

\* Nothing is counted as completed, in memory or in checkpoint.json, on work
\* that a later run of an earlier stage has outdated: for any pipeline whose
\* loopbacks lead backwards, any outcomes, crashes and resumes.
THEOREM CompletedIsCurrent == Spec => []CompletedRestsOnCurrentWork
<1>1. Inductive => CompletedRestsOnCurrentWork
  BY DEF Inductive, CurrentInv, CompletedRestsOnCurrentWork
<1> QED
  BY <1>1, InductiveInvariant, PTL

\* No stage of a pipeline runs beyond a hard gate that is not approved.
THEOREM GatesHold == Spec => []NoWorkPastAnOpenGate
<1>1. ASSUME Inductive PROVE NoWorkPastAnOpenGate
  <2>1. ASSUME pc = "settle"
        PROVE  \A g \in HardGates \cap Before(index) :
                 Approved(decisions, g) /\ result[g] = "stands"
    BY <1>1, <2>1 DEF Inductive, PositionInv, CurrentInv
  <2> QED
    BY <2>1 DEF NoWorkPastAnOpenGate
<1> QED
  BY <1>1, InductiveInvariant, PTL

\* A run reported completed has every hard gate approved in its report and
\* every stage run, on current work, and in its report.
THEOREM CompletionIsSound == Spec => []CompletedRunIsSound
<1>1. Inductive => CompletedRunIsSound
  BY DEF Inductive
<1> QED
  BY <1>1, InductiveInvariant, PTL

\* A paused run stands at exactly one gate, and its checkpoint leads there.
THEOREM PausedAtTheGate == Spec => []PausedRunStandsAtItsGate
<1>1. Inductive => PausedRunStandsAtItsGate
  BY DEF Inductive
<1> QED
  BY <1>1, InductiveInvariant, PTL

\* Without a resume, no stage that asked for changes is left behind.
THEOREM FirstAttemptLeavesNothing == Spec => []FirstAttemptReworks
<1>1. Inductive => FirstAttemptReworks
  BY DEF Inductive, FirstAttemptInv, FirstAttemptReworks
<1> QED
  BY <1>1, InductiveInvariant, PTL

\* How a step can change checkpoint.json.
LEMMA CheckpointStep ==
  ASSUME TypeOK, FilesInv, [Next]_vars, ckpt'.state = "saved"
  PROVE  \/ ckpt' = ckpt
         \/ ckpt'.decisions = decisions /\ pc \notin {"off", "final"}
<1>1. NoCkpt.state = "none" /\ [NoCkpt EXCEPT !.state = "torn"].state = "torn"
  BY DEF NoCkpt
<1>2. \A d : Saved(d, decisions).decisions = decisions
  BY DEF Saved
<1>3. CASE SkipChosen \/ Pause \/ StageCompleted
  BY <1>2, <1>3 DEF SkipChosen, Pause, StageCompleted
<1>4. CASE Rejected \/ ChangesRequested
  BY <1>2, <1>4 DEF Rejected, ChangesRequested, Counted, LoopBack
<1>5. CASE Finish \/ Crash
  BY <1>1, <1>5 DEF Finish, Crash
<1>6. CASE RunAgent \/ RunSoftGate \/ AwaitDecision \/ RefuseDecision
           \/ TakeDecision
  BY <1>6, StageRun
<1>7. CASE \/ StageFailed \/ RejectionUnrecorded \/ GiveUp
           \/ RequestUnrecorded \/ DeliverRaises \/ AcceptanceUnrecorded
  BY <1>7 DEF StageFailed, RejectionUnrecorded, GiveUp, RequestUnrecorded,
              DeliverRaises, AcceptanceUnrecorded, Raise
<1>8. CASE \/ Stopped \/ SequenceCompleted \/ Deliver \/ GoOn \/ PassOver
           \/ ReturnPaused \/ ReturnFinal \/ ReturnFailed
  BY <1>8 DEF Stopped, SequenceCompleted, Deliver, GoOn, PassOver,
              ReturnPaused, ReturnFinal, ReturnFailed, Exit
<1>9. CASE Start \/ StartRefused \/ Resume \/ Decide \/ UNCHANGED vars
  BY <1>9 DEF Start, StartRefused, Resume, Decide, Relaunch, vars
<1> QED
  BY <1>3, <1>4, <1>5, <1>6, <1>7, <1>8, <1>9 DEF Next, Worker

\* No decision of a human is lost from checkpoint.json while it is readable.
THEOREM DecisionsAccumulate == Spec => CheckpointKeepsDecisions
<1>1. ASSUME Inductive, [Next]_vars,
             ckpt.state = "saved", ckpt'.state = "saved"
      PROVE  IsPrefix(ckpt.decisions, ckpt'.decisions)
  <2>1. TypeOK /\ FilesInv /\ ckpt.decisions \in Seq(Decisions)
    BY <1>1 DEF Inductive, TypeOK
  <2>2. CASE ckpt' = ckpt
    BY <2>1, <2>2, PrefixRefl
  <2>3. CASE ckpt'.decisions = decisions /\ pc \notin {"off", "final"}
    BY <2>1, <2>3 DEF FilesInv
  <2> QED
    BY <1>1, <2>1, <2>2, <2>3, CheckpointStep
<1>2. Inductive /\ [Next]_vars
      => [ckpt.state = "saved" /\ ckpt'.state = "saved" =>
            IsPrefix(ckpt.decisions, ckpt'.decisions)]_vars
  BY <1>1
<1> QED
  BY <1>2, InductiveInvariant, PTL DEF Spec, CheckpointKeepsDecisions

-----------------------------------------------------------------------------
(* The run keeps the promise of GatedRun.                                  *)

\* The initial state of a run is one of GatedRun.
LEMMA PromiseInit == Init => Promise!Init
<1> SUFFICES ASSUME Init PROVE Promise!Init
  OBVIOUS
<1>1. report.status = "absent"
  BY DEF Init
<1>2. ApprovedGates = {}
  BY DEF Init, ApprovedGates, NoCkpt
<1>3. UnusedApproval = 0
  BY DEF Init, UnusedApproval
<1> QED
  BY <1>1, <1>2, <1>3 DEF Promise!Init

\* Approvals withdrawn together with all later ones are a step of GatedRun.
LEMMA Withdrawn ==
  ASSUME report.status = "running", report'.status = "running",
         ApprovedGates' \subseteq ApprovedGates,
         \A g \in ApprovedGates', h \in ApprovedGates :
           h < g => h \in ApprovedGates',
         UnusedApproval' \in {UnusedApproval, 0}
  PROVE  Promise!Next
BY DEF Promise!Next, Promise!Withdraw

\* A step that changes neither the status nor the approvals is a stutter.
LEMMA Untouched ==
  ASSUME report'.status = report.status, ApprovedGates' = ApprovedGates,
         UnusedApproval' = UnusedApproval
  PROVE  UNCHANGED Promise!vars
BY DEF Promise!vars

\* What a worker that goes on has approved and not yet used.
LEMMA LiveGates ==
  ASSUME pc' # "off"
  PROVE  /\ ApprovedGates' =
              HardGates \cap (done' \cup IF pc' = "settle" /\ outcome' = "pass"
                                        THEN {index'} ELSE {})
         /\ pending' = pending /\ pc # "off" => UnusedApproval' = UnusedApproval
         /\ pending' = NoDecision => UnusedApproval' = 0
BY DEF ApprovedGates, UnusedApproval, NoDecision

\* Starting and resuming are steps of GatedRun.
LEMMA PromiseEntry ==
  ASSUME Inductive, Start \/ StartRefused \/ Resume \/ Decide
  PROVE  Promise!Next
<1> USE PipelineAssumption
<1>1. CASE Start
  <2>1. /\ pc = "off" /\ report.status = "absent" /\ report'.status = "running"
        /\ pc' = "top" /\ done' = {} /\ pending' = NoDecision
    BY <1>1 DEF Start, Launch
  <2>2. ckpt.done = {}
    BY <2>1 DEF Inductive, FilesInv, NoCkpt
  <2>3. ApprovedGates = {} /\ ApprovedGates' = {}
    BY <2>1, <2>2 DEF ApprovedGates
  <2>4. UnusedApproval = 0 /\ UnusedApproval' = 0
    BY <2>1 DEF UnusedApproval, NoDecision
  <2> QED
    BY <2>1, <2>3, <2>4 DEF Promise!Next, Promise!Begin
<1>2. CASE StartRefused
  <2>1. /\ pc = "off" /\ pc' = "off" /\ report.status = "absent"
        /\ report'.status = "failed" /\ ckpt' = ckpt
    BY <1>2 DEF StartRefused, Inductive, TypeOK
  <2>2. ApprovedGates' = ApprovedGates /\ UnusedApproval = 0 /\ UnusedApproval' = 0
    BY <2>1 DEF ApprovedGates, UnusedApproval
  <2> QED
    BY <2>1, <2>2 DEF Promise!Next, Promise!Begin
<1>3. ASSUME NEW d, Relaunch(d)
      PROVE  /\ pc = "off" /\ pc' = "top" /\ pending' = d
             /\ report'.status = "running"
             /\ ApprovedGates' = ApprovedGates /\ UnusedApproval = 0
  <2>1. /\ pc = "off" /\ pc' = "top" /\ pending' = d /\ done' = ckpt.done
        /\ report'.status = "running"
    BY <1>3 DEF Relaunch, Launch
  <2> QED
    BY <2>1 DEF ApprovedGates, UnusedApproval
<1>4. CASE Resume
  <2>1. /\ report.status \in {"running", "paused", "failed", "blocked"}
        /\ Relaunch(NoDecision)
    BY <1>4 DEF Resume
  <2>2. UnusedApproval' = 0
    BY <1>3, <2>1 DEF UnusedApproval, NoDecision
  <2> QED
    BY <1>3, <2>1, <2>2 DEF Promise!Next, Promise!Continue, Promise!Resting
<1>5. CASE Decide
  <2>1. PICK g \in HardGates \cup SoftGates, v \in Verdicts :
          Relaunch([stage |-> g, verdict |-> v])
    BY <1>5 DEF Decide
  <2>2. report.status = "paused"
    BY <1>5 DEF Decide
  <2>3. CASE v = "approved" /\ g \in HardGates
    <3>1. UnusedApproval' = g
      BY <1>3, <2>1, <2>3 DEF UnusedApproval
    <3> QED
      BY <1>3, <2>1, <2>2, <2>3, <3>1 DEF Promise!Next, Promise!Answer
  <2>4. CASE ~(v = "approved" /\ g \in HardGates)
    <3>1. UnusedApproval' = 0
      BY <1>3, <2>1, <2>4 DEF UnusedApproval
    <3> QED
      BY <1>3, <2>1, <2>2, <3>1
         DEF Promise!Next, Promise!Continue, Promise!Resting
  <2> QED
    BY <2>3, <2>4
<1> QED
  BY <1>1, <1>2, <1>4, <1>5

\* Running a stage approves its gate, uses up the answer, or changes nothing.
LEMMA PromiseRun ==
  ASSUME Inductive,
         RunAgent \/ RunSoftGate \/ AwaitDecision \/ RefuseDecision
         \/ TakeDecision
  PROVE  [Promise!Next]_(Promise!vars)
<1> USE PipelineAssumption
<1>1. /\ pc = "top" /\ pc' = "settle" /\ index \in Stages /\ index' = index
      /\ done' = done /\ done = Before(index)
      /\ report.status = "running" /\ report'.status = "running"
  <2>1. TypeOK /\ PositionInv /\ FilesInv
    BY DEF Inductive
  <2>2. /\ pc = "top" /\ pc' = "settle" /\ index \in Stages /\ index' = index
        /\ done' = done /\ report'.status = report.status
        /\ ~(skipDone /\ index \in done)
    BY <2>1, StageRun DEF AtStage, TypeOK
  <2>3. report.status = "running"
    BY <2>1, <2>2 DEF FilesInv
  <2> QED
    BY <2>1, <2>2, <2>3, FirstOpenStage
<1>2. ApprovedGates = HardGates \cap done
  BY <1>1 DEF ApprovedGates
<1>3. \/ pending' = pending \/ pending' = NoDecision
  BY DEF RunAgent, RunSoftGate, AwaitDecision, RefuseDecision, TakeDecision
<1>4. UnusedApproval' \in {UnusedApproval, 0}
  BY <1>1, <1>3, LiveGates
<1>5. CASE outcome' # "pass" \/ index \notin HardGates
  <2>1. ApprovedGates' = ApprovedGates
    BY <1>1, <1>2, <1>5, LiveGates
  <2> QED
    BY <1>1, <1>4, <2>1, Withdrawn
<1>6. CASE outcome' = "pass" /\ index \in HardGates
  <2>1. TakeDecision /\ pending.verdict = "approved"
    BY <1>6 DEF RunAgent, RunSoftGate, AwaitDecision, RefuseDecision,
                TakeDecision, Ran, AtStage, AgentStages
  <2>2. pending.stage = index /\ pending' = NoDecision
    BY <2>1 DEF TakeDecision
  <2>3. UnusedApproval = index /\ UnusedApproval' = 0
    BY <1>1, <1>6, <2>1, <2>2, LiveGates DEF UnusedApproval
  <2>4. ApprovedGates' = ApprovedGates \cup {index}
    BY <1>1, <1>2, <1>6, LiveGates
  <2>5. {h \in HardGates : h < index} \subseteq ApprovedGates
    <3>1. {h \in Stages : h < index} \subseteq Before(index)
      BY <1>1 DEF Before, Stages
    <3> QED
      BY <1>1, <1>2, <3>1
  <2>6. Promise!Approve(index)
    BY <1>1, <2>3, <2>4, <2>5 DEF Promise!Approve
  <2> QED
    BY <1>6, <2>6 DEF Promise!Next
<1> QED
  BY <1>5, <1>6

\* What the worker does with the outcome approves nothing more, and a loopback
\* withdraws the approvals from its target on.
LEMMA PromiseSettle ==
  ASSUME Inductive,
         \/ Pause \/ StageFailed \/ Rejected \/ RejectionUnrecorded
         \/ StageCompleted \/ GoOn \/ ChangesRequested \/ GiveUp
         \/ RequestUnrecorded
  PROVE  [Promise!Next]_(Promise!vars)
<1> USE PipelineAssumption
<1>1. /\ pc \in {"settle", "check"} /\ pending' = pending /\ report' = report
      /\ pc' \in {"waiting", "raise", "check", "top"}
  BY DEF Pause, StageFailed, Rejected, RejectionUnrecorded, StageCompleted,
         GoOn, ChangesRequested, GiveUp, RequestUnrecorded, Counted, Raise,
         LoopBack, memory
<1>2. report.status = "running" /\ UnusedApproval' = UnusedApproval
  BY <1>1, LiveGates DEF Inductive, FilesInv
<1>3. ApprovedGates' = HardGates \cap done'
  BY <1>1, LiveGates
<1>4. CASE Rejected \/ ChangesRequested
  <2>1. PICK target \in Stages : LoopBack(target)
    BY <1>4 DEF Inductive, OutcomeInv, Rejected, ChangesRequested, Counted
  <2>2. done' = done \cap Before(target)
    BY <2>1 DEF LoopBack
  <2>3. ~(pc = "settle" /\ outcome = "pass")
    BY <1>4 DEF Rejected, ChangesRequested, Counted
  <2>4. ApprovedGates = HardGates \cap done
    BY <1>1, <2>3 DEF ApprovedGates
  <2>5. ApprovedGates' \subseteq ApprovedGates
    BY <1>3, <2>2, <2>4
  <2>6. ASSUME NEW g \in ApprovedGates', NEW h \in ApprovedGates, h < g
        PROVE  h \in ApprovedGates'
    <3>1. g \in Stages /\ h \in Stages /\ g \in Before(target) /\ h \in done
      BY <1>3, <2>2, <2>4
    <3>2. h \in Before(target)
      BY <2>6, <3>1 DEF Before, Stages
    <3> QED
      BY <1>3, <2>2, <2>4, <3>1, <3>2
  <2> QED
    BY <1>1, <1>2, <2>5, <2>6, Withdrawn
<1>5. CASE StageCompleted
  <2>1. /\ pc = "settle" /\ done' = done \cup {index}
        /\ outcome \in {"pass"} \cup ChangeRequests
    BY <1>5 DEF StageCompleted
  <2>2. outcome \in ChangeRequests => index \notin HardGates
    BY <2>1 DEF Inductive, OutcomeInv, AgentStages
  <2>3. ApprovedGates' = ApprovedGates
    BY <1>3, <2>1, <2>2 DEF ApprovedGates
  <2> QED
    BY <1>1, <1>2, <2>3, Untouched
<1>6. CASE \/ Pause \/ StageFailed \/ RejectionUnrecorded \/ GoOn \/ GiveUp
           \/ RequestUnrecorded
  <2>1. done' = done /\ ~(pc = "settle" /\ outcome = "pass")
    BY <1>6 DEF Pause, StageFailed, RejectionUnrecorded, GoOn, GiveUp,
                RequestUnrecorded, Counted, Raise, memory
  <2>2. ApprovedGates' = ApprovedGates
    BY <1>1, <1>3, <2>1 DEF ApprovedGates
  <2> QED
    BY <1>1, <1>2, <2>2, Untouched
<1> QED
  BY <1>4, <1>5, <1>6

\* The steps that only move the worker along.
LEMMA PromiseMove ==
  ASSUME Inductive,
         \/ PassOver \/ SkipChosen \/ Stopped \/ SequenceCompleted \/ Deliver
         \/ DeliverRaises \/ AcceptanceUnrecorded \/ Finish
  PROVE  UNCHANGED Promise!vars
<1>1. /\ pc # "off" /\ pc # "settle" /\ pc' # "off" /\ pc' # "settle"
      /\ pending' = pending /\ report'.status = report.status
  BY DEF PassOver, SkipChosen, Stopped, SequenceCompleted, Deliver,
         DeliverRaises, AcceptanceUnrecorded, Finish, Raise, memory,
         Inductive, TypeOK
<1>2. HardGates \cap done' = HardGates \cap done
  <2>1. CASE SkipChosen
    BY <2>1 DEF SkipChosen, Inductive, TypeOK
  <2>2. CASE ~SkipChosen
    BY <2>2 DEF PassOver, Stopped, SequenceCompleted, Deliver, DeliverRaises,
                AcceptanceUnrecorded, Finish, Raise, memory
  <2> QED
    BY <2>1, <2>2
<1>3. ApprovedGates = HardGates \cap done /\ ApprovedGates' = HardGates \cap done'
  BY <1>1 DEF ApprovedGates
<1> QED
  BY <1>1, <1>2, <1>3, LiveGates, Untouched

\* Returning closes or rests the run; a crash withdraws what was not saved.
LEMMA PromiseEnd ==
  ASSUME Inductive,
         ReturnPaused \/ ReturnFinal \/ ReturnFailed \/ Crash
  PROVE  Promise!Next
<1> USE PipelineAssumption
<1>1. pc # "off" /\ pc' = "off" /\ report.status = "running"
  BY DEF ReturnPaused, ReturnFinal, ReturnFailed, Exit, Crash, Inductive,
         FilesInv
<1>2. ApprovedGates' = HardGates \cap ckpt'.done /\ UnusedApproval' = 0
  BY <1>1 DEF ApprovedGates, UnusedApproval
<1>3. CASE ReturnPaused \/ ReturnFailed
  <2>1. /\ pc \in {"waiting", "raise"} /\ ckpt' = ckpt
        /\ report'.status \in {"paused", "failed"}
    BY <1>3 DEF ReturnPaused, ReturnFailed, Exit
  <2>2. ApprovedGates' = ApprovedGates
    BY <1>2, <2>1 DEF ApprovedGates, Inductive, FilesInv
  <2> QED
    BY <1>1, <1>2, <2>1, <2>2 DEF Promise!Next, Promise!Rest, Promise!Resting
<1>4. CASE ReturnFinal
  <2>1. pc = "final" /\ ckpt' = ckpt /\ report'.status = verdict
    BY <1>4 DEF ReturnFinal, Exit
  <2>2. /\ verdict \in {"completed", "failed", "blocked"} /\ done = Stages
        /\ ckpt.done = IF verdict = "completed" THEN {} ELSE done
    BY <2>1 DEF Inductive, TypeOK, FilesInv, PositionInv
  <2>3. ApprovedGates = HardGates
    BY <2>1, <2>2 DEF ApprovedGates
  <2>4. CASE verdict = "completed"
    <3>1. ApprovedGates' = {}
      BY <1>2, <2>1, <2>2, <2>4
    <3> QED
      BY <1>1, <1>2, <2>1, <2>3, <2>4, <3>1 DEF Promise!Next, Promise!Complete
  <2>5. CASE verdict # "completed"
    <3>1. ApprovedGates' = ApprovedGates
      BY <1>2, <2>1, <2>2, <2>3, <2>5
    <3> QED
      BY <1>1, <1>2, <2>1, <2>2, <2>5, <3>1
         DEF Promise!Next, Promise!Rest, Promise!Resting
  <2> QED
    BY <2>4, <2>5
<1>5. CASE Crash
  <2>1. report' = report /\ (ckpt' = ckpt \/ ckpt'.done = {})
    BY <1>5 DEF Crash, NoCkpt
  <2>2. HardGates \cap done \subseteq ApprovedGates
    BY <1>1 DEF ApprovedGates
  <2>3. ckpt.done = done \/ ckpt.done = {}
    BY <1>1 DEF Inductive, FilesInv
  <2>4. ApprovedGates' \subseteq ApprovedGates
    BY <1>2, <2>1, <2>2, <2>3
  <2>5. ASSUME NEW g \in ApprovedGates', NEW h \in ApprovedGates, h < g
        PROVE  h \in ApprovedGates'
    <3>1. ckpt' = ckpt /\ ckpt.done = done /\ g \in done /\ g \in Stages
      BY <1>2, <2>1, <2>3
    <3>2. h \in HardGates
      BY DEF ApprovedGates
    <3>3. PICK k \in 1..(N + 1) : ckpt.done = Before(k)
      BY DEF Inductive, PositionInv, IsPrefixOfPipeline
    <3>4. h \in done
      BY <2>5, <3>1, <3>2, <3>3 DEF Before, Stages
    <3> QED
      BY <1>2, <3>1, <3>2, <3>4
  <2> QED
    BY <1>1, <1>2, <2>1, <2>4, <2>5, Withdrawn
<1> QED
  BY <1>3, <1>4, <1>5

\* Every run keeps the promise: the hard gates of any pipeline are approved in
\* their order, each by an answer given to it while the run was paused, and
\* only a run with all of them approved is reported completed, for good.
THEOREM PromiseIsKept == Spec => PromiseKept
<1>1. Init => Promise!Init
  BY PromiseInit
<1>2. Inductive /\ [Next]_vars => [Promise!Next]_(Promise!vars)
  <2> SUFFICES ASSUME Inductive, [Next]_vars
               PROVE  [Promise!Next]_(Promise!vars)
    OBVIOUS
  <2>1. CASE UNCHANGED vars
    BY <2>1 DEF vars, memory, Promise!vars, ApprovedGates, UnusedApproval
  <2> QED
    BY <2>1, PromiseEntry, PromiseRun, PromiseSettle, PromiseMove, PromiseEnd
       DEF Next, Worker
<1> QED
  BY <1>1, <1>2, InductiveInvariant, PTL DEF Spec, PromiseKept, Promise!Spec

-----------------------------------------------------------------------------
(* How far an attempt is from its end.                                     *)

\* The retries the attempt has left.
Retries ==
  {t \in LoopStages \X Nat : loopCounts[t[1]] < t[2] /\ t[2] <= MaxRetries[t[1]]}

\* The one decision of the attempt: not used yet, or just now spent on sending
\* the run back.
Turn ==
  IF pending # NoDecision THEN 2
  ELSE IF pc = "settle" /\ outcome = "rejected" THEN 1 ELSE 0

\* The part of run() that is ahead of the worker.
Stretch ==
  CASE pc \in {"top", "settle", "check"} -> 4
    [] pc = "deliver" -> 3
    [] pc = "finish" -> 2
    [] pc \in {"waiting", "raise", "final"} -> 1
    [] pc = "off" -> 0

RetriesLeft == Cardinality(Retries)
StagesLeft == N + 1 - index

\* What is still to be done about the stage.
StepsLeft == CASE pc = "top" -> 2 [] pc = "settle" -> 1 [] OTHER -> 0

Rank == <<Turn, Stretch, RetriesLeft, StagesLeft, StepsLeft>>

Ranks == [1..5 -> Nat]
Descent == LexProductOrdering(OpToRel(<, Nat), Nat, 5)

\* Nothing descends for ever.
LEMMA DescentEnds == IsWellFoundedOn(Descent, Ranks)
BY NatLessThanWellFounded, WFLexProductOrdering DEF Descent, Ranks

\* Retries are limited,
LEMMA RetriesFinite == ASSUME TypeOK PROVE IsFiniteSet(Retries)
<1> DEFINE f == [s \in LoopStages |-> {s} \X (1..MaxRetries[s])]
           T == {f[s] : s \in LoopStages}
<1>1. IsFiniteSet(LoopStages)
  <2>1. LoopStages \subseteq 1..N /\ N \in Nat
    BY PipelineAssumption DEF AgentStages, Stages
  <2>2. IsFiniteSet(1..N)
    BY <2>1, FS_Interval
  <2> QED BY <2>1, <2>2, FS_Subset
<1>2. IsFiniteSet(T)
  <2>1. f \in Surjection(LoopStages, T)
    <3>1. f \in [LoopStages -> T]
      OBVIOUS
    <3>2. \A X \in T : \E s \in LoopStages : f[s] = X
      OBVIOUS
    <3> QED BY <3>1, <3>2 DEF Surjection
  <2> HIDE DEF f, T
  <2> QED BY <1>1, <2>1, FS_Surjection
<1>3. \A X \in T : IsFiniteSet(X)
  <2>1. ASSUME NEW s \in LoopStages PROVE IsFiniteSet(f[s])
    <3>1. MaxRetries[s] \in Nat
      BY PipelineAssumption
    <3>2. IsFiniteSet({s})
      BY FS_Singleton
    <3>3. IsFiniteSet(1..MaxRetries[s])
      BY <3>1, FS_Interval
    <3>4. IsFiniteSet({s} \X (1..MaxRetries[s]))
      BY <3>2, <3>3, FS_Product
    <3> QED BY <3>4
  <2> HIDE DEF f
  <2> QED BY <2>1
<1>4. IsFiniteSet(UNION T)
  <2> HIDE DEF T
  <2> QED BY <1>2, <1>3, FS_UNION
<1>5. Retries \subseteq UNION T
  <2>1. ASSUME NEW t \in Retries PROVE t \in UNION T
    <3>1. /\ t \in LoopStages \X Nat /\ t[1] \in LoopStages /\ t[2] \in Nat
          /\ loopCounts[t[1]] \in Nat /\ MaxRetries[t[1]] \in Nat
          /\ loopCounts[t[1]] < t[2] /\ t[2] <= MaxRetries[t[1]]
      BY PipelineAssumption DEF Retries, TypeOK
    <3>2. t[2] \in 1..MaxRetries[t[1]]
      BY <3>1
    <3>3. t \in f[t[1]]
      BY <3>1, <3>2
    <3> QED BY <3>1, <3>3
  <2> QED BY <2>1
<1> QED BY <1>4, <1>5, FS_Subset

\* and a loopback uses one of them up.
LEMMA RetrySpent ==
  ASSUME TypeOK, index \in LoopStages,
         loopCounts' = [loopCounts EXCEPT ![index] = @ + 1],
         loopCounts'[index] <= MaxRetries[index]
  PROVE  RetriesLeft' < RetriesLeft
<1>1. /\ loopCounts'[index] = loopCounts[index] + 1
      /\ loopCounts[index] \in Nat /\ MaxRetries[index] \in Nat
      /\ \A s \in LoopStages : s # index => loopCounts'[s] = loopCounts[s]
  BY PipelineAssumption DEF TypeOK
<1>2. Retries' \subseteq Retries
  <2>1. \A s \in LoopStages :
          /\ loopCounts[s] \in Nat /\ loopCounts'[s] \in Nat
          /\ loopCounts[s] <= loopCounts'[s]
    BY <1>1 DEF TypeOK
  <2> QED BY <2>1 DEF Retries
<1>3. /\ <<index, loopCounts[index] + 1>> \in Retries
      /\ <<index, loopCounts[index] + 1>> \notin Retries'
  BY <1>1 DEF Retries
<1>4. IsFiniteSet(Retries)
  BY RetriesFinite
<1>5. /\ IsFiniteSet(Retries') /\ Cardinality(Retries') <= Cardinality(Retries)
      /\ Cardinality(Retries') # Cardinality(Retries)
  BY <1>2, <1>3, <1>4, FS_Subset
<1>6. Cardinality(Retries) \in Nat /\ Cardinality(Retries') \in Nat
  BY <1>4, <1>5, FS_CardinalityType
<1> QED BY <1>5, <1>6 DEF RetriesLeft

\* The ranks are ranks.
LEMMA RankType == TypeOK => Rank \in Ranks
<1> SUFFICES ASSUME TypeOK PROVE Rank \in Ranks
  OBVIOUS
<1>1. Turn \in Nat /\ StepsLeft \in Nat
  BY DEF Turn, StepsLeft
<1>2. Stretch \in Nat
  BY DEF TypeOK, Stretch
<1>3. RetriesLeft \in Nat
  BY RetriesFinite, FS_CardinalityType DEF RetriesLeft
<1>4. StagesLeft \in Nat
  BY PipelineAssumption DEF StagesLeft, TypeOK
<1> QED BY <1>1, <1>2, <1>3, <1>4 DEF Rank, Ranks

\* The part that comes first among those that change is lower.
Lower ==
  \/ Turn' < Turn
  \/ /\ Turn' = Turn
     /\ \/ Stretch' < Stretch
        \/ /\ Stretch' = Stretch
           /\ \/ RetriesLeft' < RetriesLeft
              \/ /\ RetriesLeft' = RetriesLeft
                 /\ \/ StagesLeft' < StagesLeft
                    \/ StagesLeft' = StagesLeft /\ StepsLeft' < StepsLeft

LEMMA Falls ==
  ASSUME Rank \in Ranks, Rank' \in Ranks, Lower
  PROVE  <<Rank', Rank>> \in Descent
<1> DEFINE s == Rank'
           t == Rank
<1>1. PICK j \in 1..5 : s[j] < t[j] /\ \A i \in 1..(j - 1) : s[i] = t[i]
  <2>1. /\ t[1] = Turn /\ t[2] = Stretch /\ t[3] = RetriesLeft
        /\ t[4] = StagesLeft /\ t[5] = StepsLeft
        /\ s[1] = Turn' /\ s[2] = Stretch' /\ s[3] = RetriesLeft'
        /\ s[4] = StagesLeft' /\ s[5] = StepsLeft'
    BY DEF Rank
  <2> HIDE DEF s, t
  <2>2. \/ s[1] < t[1]
        \/ s[1] = t[1] /\ s[2] < t[2]
        \/ s[1] = t[1] /\ s[2] = t[2] /\ s[3] < t[3]
        \/ s[1] = t[1] /\ s[2] = t[2] /\ s[3] = t[3] /\ s[4] < t[4]
        \/ s[1] = t[1] /\ s[2] = t[2] /\ s[3] = t[3] /\ s[4] = t[4] /\ s[5] < t[5]
    BY <2>1 DEF Lower
  <2>3. \A i \in 1..5 : i \in {1, 2, 3, 4, 5}
    OBVIOUS
  <2> QED BY <2>2, <2>3
<1>2. s \in Ranks /\ t \in Ranks
  OBVIOUS
<1> HIDE DEF s, t
<1>3. <<s[j], t[j]>> \in OpToRel(<, Nat)
  BY <1>1, <1>2 DEF OpToRel, Ranks
<1>4. <<s, t>> \in Descent
  BY <1>1, <1>2, <1>3 DEF LexProductOrdering, Descent, Ranks
<1> QED BY <1>4 DEF s, t

\* A rejection has used the decision up.
TurnInv == pc = "settle" /\ outcome = "rejected" => pending = NoDecision

LEMMA TurnStep == TypeOK /\ TurnInv /\ [Next]_vars => TurnInv'
<1> SUFFICES ASSUME TurnInv, [Next]_vars PROVE TurnInv'
  OBVIOUS
<1> USE DEF TurnInv
<1>1. CASE Start \/ StartRefused \/ Resume \/ Decide \/ Crash
  BY <1>1 DEF Start, StartRefused, Resume, Decide, Relaunch, Launch, Crash, memory
<1>2. CASE RunAgent \/ RunSoftGate \/ AwaitDecision
  <2>1. PICK o \in Outcomes : Ran(o, decisions) /\ o # "rejected"
    BY <1>2, SigsAssumption
    DEF RunAgent, RunSoftGate, AwaitDecision, Outcomes, Textual, ChangeRequests
  <2> QED BY <2>1 DEF Ran
<1>3. CASE RefuseDecision \/ TakeDecision
  BY <1>3 DEF RefuseDecision, TakeDecision, Ran
<1>4. CASE \/ PassOver \/ SkipChosen \/ Stopped \/ StageFailed \/ Pause
           \/ SequenceCompleted \/ Deliver
  BY <1>4 DEF PassOver, SkipChosen, Stopped, StageFailed, Raise, Pause,
              SequenceCompleted, Deliver, memory
<1>5. CASE \/ Rejected \/ RejectionUnrecorded \/ StageCompleted \/ GoOn
           \/ ChangesRequested \/ GiveUp \/ RequestUnrecorded
  BY <1>5 DEF Rejected, RejectionUnrecorded, StageCompleted, GoOn, ChangesRequested,
              GiveUp, RequestUnrecorded, Raise, LoopBack
<1>6. CASE \/ DeliverRaises \/ AcceptanceUnrecorded \/ Finish
           \/ ReturnPaused \/ ReturnFinal \/ ReturnFailed
  BY <1>6 DEF DeliverRaises, AcceptanceUnrecorded, Finish, ReturnPaused, ReturnFinal,
              ReturnFailed, Raise, Exit, memory
<1>7. CASE UNCHANGED vars
  BY <1>7 DEF vars, memory
<1> QED BY <1>1, <1>2, <1>3, <1>4, <1>5, <1>6, <1>7 DEF Next, Worker

\* A stage has run.
LEMMA RanFalls ==
  ASSUME pc = "top", NEW o, NEW ds, Ran(o, ds),
         \/ pending' = pending /\ o # "rejected"
         \/ pending # NoDecision /\ pending' = NoDecision
  PROVE  Lower
<1>1. /\ index' = index /\ loopCounts' = loopCounts /\ outcome' = o /\ pc' = "settle"
  BY DEF Ran
<1>2. CASE pending # NoDecision /\ pending' = NoDecision
  BY <1>2 DEF Lower, Turn
<1>3. CASE pending' = pending /\ o # "rejected"
  BY <1>1, <1>3 DEF Lower, Turn, Stretch, StagesLeft, RetriesLeft, Retries, StepsLeft
<1> QED BY <1>2, <1>3

\* Every step of a live worker, and its death, lowers the rank.
LEMMA StepFalls ==
  ASSUME TypeOK, OutcomeInv, TurnInv, pc # "off", Worker \/ Crash
  PROVE  Lower
<1>1. N \in Nat /\ index \in 1..(N + 1)
  BY PipelineAssumption DEF TypeOK
<1>2. CASE RunAgent \/ RunSoftGate \/ AwaitDecision
  <2>1. PICK o \in Outcomes : Ran(o, decisions) /\ o # "rejected"
    BY <1>2, SigsAssumption
    DEF RunAgent, RunSoftGate, AwaitDecision, Outcomes, Textual, ChangeRequests
  <2>2. pc = "top" /\ pending' = pending
    BY <1>2 DEF RunAgent, RunSoftGate, AwaitDecision, AtStage
  <2> QED BY <2>1, <2>2, RanFalls
<1>3. CASE RefuseDecision \/ TakeDecision
  <2>1. PICK o, ds : Ran(o, ds)
    BY <1>3 DEF RefuseDecision, TakeDecision
  <2>2. pc = "top" /\ pending # NoDecision /\ pending' = NoDecision
    BY <1>1, <1>3 DEF RefuseDecision, TakeDecision, AtStage, NoDecision
  <2> QED BY <2>1, <2>2, RanFalls
<1>4. CASE PassOver \/ SkipChosen \/ GoOn
  <2>1. /\ pc \in {"top", "check"} /\ pc' = "top" /\ index' = index + 1
        /\ pending' = pending /\ loopCounts' = loopCounts
    BY <1>4 DEF PassOver, SkipChosen, GoOn
  <2>2. Turn' = Turn /\ Stretch' = Stretch /\ RetriesLeft' = RetriesLeft
    BY <2>1 DEF Turn, Stretch, RetriesLeft, Retries
  <2>3. StagesLeft' < StagesLeft
    BY <1>1, <2>1 DEF StagesLeft
  <2> QED BY <2>2, <2>3 DEF Lower
<1>5. CASE StageCompleted
  <2>1. /\ pc = "settle" /\ outcome # "rejected" /\ pc' = "check" /\ index' = index
        /\ pending' = pending /\ loopCounts' = loopCounts
    BY <1>5, SigsAssumption DEF StageCompleted, ChangeRequests, Textual
  <2> QED BY <2>1 DEF Lower, Turn, Stretch, RetriesLeft, Retries, StagesLeft, StepsLeft
<1>6. CASE ChangesRequested
  <2>1. /\ pc = "check" /\ pc' = "top" /\ pending' = pending
        /\ outcome \in ChangeRequests
        /\ loopCounts' = [loopCounts EXCEPT ![index] = @ + 1]
        /\ loopCounts'[index] <= MaxRetries[index]
    BY <1>6 DEF ChangesRequested, Counted, LoopBack
  <2>2. RetriesLeft' < RetriesLeft
    BY <2>1, RetrySpent DEF OutcomeInv
  <2>3. Turn' = Turn /\ Stretch' = Stretch
    BY <2>1 DEF Turn, Stretch
  <2> QED BY <2>2, <2>3 DEF Lower
<1>7. CASE Rejected
  <2>1. /\ pc = "settle" /\ outcome = "rejected" /\ pc' = "top" /\ pending' = pending
        /\ pending = NoDecision
    BY <1>7 DEF Rejected, LoopBack, TurnInv
  <2> QED BY <2>1 DEF Lower, Turn
<1>8. CASE \/ Stopped \/ StageFailed \/ RejectionUnrecorded \/ GiveUp
           \/ RequestUnrecorded \/ DeliverRaises \/ AcceptanceUnrecorded
  <2>1. /\ pc \in {"top", "settle", "check", "deliver", "finish"} /\ pc' = "raise"
        /\ pending' = pending
    BY <1>8 DEF Stopped, StageFailed, RejectionUnrecorded, GiveUp, RequestUnrecorded,
                Counted, DeliverRaises, AcceptanceUnrecorded, Raise, memory
  <2> QED BY <2>1 DEF Lower, Turn, Stretch
<1>9. CASE Pause \/ SequenceCompleted \/ Deliver \/ Finish
  <2>1. /\ pending' = pending
        /\ \/ pc \in {"top", "settle"} /\ pc' \in {"waiting", "deliver"}
           \/ pc = "deliver" /\ pc' = "finish"
           \/ pc = "finish" /\ pc' = "final"
    BY <1>9 DEF Pause, SequenceCompleted, Deliver, Finish, memory
  <2> QED BY <2>1 DEF Lower, Turn, Stretch
<1>10. CASE ReturnPaused \/ ReturnFinal \/ ReturnFailed \/ Crash
  <2>1. pc # "off" /\ pc' = "off" /\ pending' = pending
    BY <1>10 DEF ReturnPaused, ReturnFinal, ReturnFailed, Exit, Crash, memory
  <2> QED BY <2>1 DEF Lower, Turn, Stretch, TypeOK
<1> QED BY <1>2, <1>3, <1>4, <1>5, <1>6, <1>7, <1>8, <1>9, <1>10 DEF Worker

\* Every step of a live worker brings the attempt nearer to its end, by a
\* measure that cannot descend for ever: neither loopbacks nor rejections keep
\* it busy without end (orchestrator.py 581-585, 643-647, 487).
THEOREM AttemptDescends ==
  Spec => [][pc # "off" => <<Rank', Rank>> \in Descent]_vars
<1>1. TypeOK => Rank \in Ranks
  BY RankType
<1>2. Init => TurnInv
  BY DEF Init, TurnInv
<1>3. TypeOK /\ TurnInv /\ [Next]_vars => TurnInv'
  BY TurnStep
<1>4. ASSUME TypeOK, OutcomeInv, TurnInv, Rank \in Ranks, (Rank \in Ranks)',
             Next, pc # "off"
      PROVE  <<Rank', Rank>> \in Descent
  <2>1. Worker \/ Crash
    BY <1>4 DEF Next, Start, StartRefused, Resume, Decide, Relaunch
  <2>2. Lower
    BY <1>4, <2>1, StepFalls
  <2> QED BY <1>4, <2>2, Falls
<1>5. Inductive => TypeOK /\ OutcomeInv
  BY DEF Inductive
<1>6. TypeOK /\ OutcomeInv /\ TurnInv /\ Rank \in Ranks /\ (Rank \in Ranks)'
        /\ [Next]_vars => [pc # "off" => <<Rank', Rank>> \in Descent]_vars
  BY <1>4
<1> QED BY <1>1, <1>2, <1>3, <1>5, <1>6, InductiveInvariant, PTL DEF Spec

=============================================================================
