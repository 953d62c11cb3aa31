-------------------------- MODULE MultiUnitProofs --------------------------
(***************************************************************************)
(* Theorems about MultiUnit, for every pipeline, requirement and number of *)
(* crashes: no unit is worked on before the gates in front of the units    *)
(* are approved, nor before the units it depends on are completed; what    *)
(* the final stages judge is whole; and a run keeps the promise of         *)
(* GatedRun.                                                               *)
(***************************************************************************)
EXTENDS MultiUnit, SequenceTheorems, FiniteSetTheorems, WellFoundedInduction,
        NaturalsInduction, TLAPS

-----------------------------------------------------------------------------
(* The order of the stages.                                                *)

\* A set of positions has a first one.
LEMMA Least ==
  ASSUME NEW S, S \subseteq Nat, S # {}
  PROVE  \E t \in S : \A r \in S : t <= r
<1> DEFINE Less == {p \in Nat \X Nat : p[1] < p[2]}
<1>1. IsWellFoundedOn(Less, Nat)
  BY NatLessThanWellFounded DEF OpToRel
<1>2. PICK t \in S : \A r \in S : <<r, t>> \notin Less
  BY <1>1, WFMin
<1>3. \A r \in S : ~(r < t)
  BY <1>2
<1> QED BY <1>3

\* NextIn finds the first stage of the part that is later than s.
LEMMA NextInFound ==
  ASSUME NEW part \in SUBSET Stages, NEW s \in 0..N
  PROVE  /\ NextIn(part, s) \in part \cup {End}
         /\ NextIn(part, s) \in (s + 1)..End
         /\ \A t \in part : t <= s \/ t >= NextIn(part, s)
<1> DEFINE later == {t \in part : t > s}
<1>1. /\ N \in Nat /\ s \in Nat /\ s <= N
      /\ \A t \in part : t \in Nat /\ t <= N
  BY MultiUnitAssumption DEF Stages
<1>2. CASE later = {}
  BY <1>1, <1>2 DEF NextIn, End
<1>3. CASE later # {}
  <2>1. \A t \in later : t \in part /\ t \in Nat /\ t <= N /\ t > s
    BY <1>1
  <2>2. \E t \in later : \A r \in later : t <= r
    <3> HIDE DEF later
    <3> QED BY <1>3, <2>1, Least
  <2>3. NextIn(part, s) = CHOOSE t \in later : \A r \in later : t <= r
    BY <1>3 DEF NextIn
  <2>4. NextIn(part, s) \in later /\ \A r \in later : NextIn(part, s) <= r
    BY <2>2, <2>3
  <2>5. \A t \in part : t <= s \/ t >= NextIn(part, s)
    BY <1>1, <2>4
  <2> QED BY <1>1, <2>1, <2>4, <2>5 DEF End
<1> QED BY <1>2, <1>3

\* The three parts follow one another; no gate is in the middle one.
LEMMA PartsApart ==
  /\ N \in Nat
  /\ Pre \subseteq 1..N /\ Post \subseteq 1..N /\ UnitStages \subseteq 1..N
  /\ Pre \cap UnitStages = {} /\ Post \cap UnitStages = {} /\ Pre \cap Post = {}
  /\ \A s \in Pre, t \in Post : s < t
  /\ UnitStages \cap HardGates = {} /\ UnitStages \cap SoftGates = {}
  /\ HardGates \subseteq 1..N /\ LoopStages \subseteq 1..N
<1>1. /\ N \in Nat /\ Pre \subseteq 1..N /\ Post \subseteq 1..N
      /\ UnitStages \subseteq 1..N
      /\ HardGates \subseteq 1..N /\ LoopStages \subseteq 1..N
  BY MultiUnitAssumption DEF Pre, Post, UnitStages, Stages
<1>2. PICK u : u \in UnitStages
  BY UnitStagesAssumption
<1>3. /\ \A s \in Pre : s < u
      /\ \A s \in Post : s > u
  BY <1>2 DEF Pre, Post
<1>4. \A s \in Pre, t \in Post : s < t
  BY <1>1, <1>2, <1>3
<1>5. UnitStages \cap HardGates = {} /\ UnitStages \cap SoftGates = {}
  BY UnitStagesAssumption DEF UnitStages
<1>6. \A s \in 1..N : ~(s < s) /\ ~(s > s)
  OBVIOUS
<1>7. Pre \cap UnitStages = {} /\ Post \cap UnitStages = {}
  BY <1>1, <1>6 DEF Pre, Post
<1>8. Pre \cap Post = {}
  BY <1>1, <1>4, <1>6
<1> QED BY <1>1, <1>4, <1>5, <1>7, <1>8

-----------------------------------------------------------------------------
(* The inductive invariant.                                                *)

\* The last decision of ds about the gate g is an approval.
ApprovedIn(ds, g) ==
  \E i \in DOMAIN ds :
    /\ ds[i] = [stage |-> g, verdict |-> "approved"]
    /\ \A j \in DOMAIN ds : j > i => ds[j].stage # g

\* A list of completed stages has no gaps: in front of a completed stage of
\* the first part, and in front of one of the last.
Clean(D) ==
  /\ \A t \in D \cap Pre, s \in Pre : s < t => s \in D
  /\ \A t \in D \cap Post : Pre \subseteq D /\ \A s \in Post : s < t => s \in D

\* The stages of the first part that count as completed rest on current work
\* and on approvals that still stand.
Backed(D, ds, res) ==
  \A s \in D \cap Pre : s \in res /\ (s \in HardGates => ApprovedIn(ds, s))

\* Where the worker is, and what may have come of the stage it has run.
PlaceInv ==
  /\ Running => pos \in Part \cup {End}
  /\ Running /\ step = "settle" =>
       /\ pos \in Part /\ ~skipDone
       /\ outcome = "changes" => pos \in LoopStages
       /\ outcome = "rejected" => pos \in HardGates
       /\ outcome = "waiting" => ~InUnit
  /\ InUnit => unit \in Units
  /\ ~Running /\ phase # "off" /\ step = "settle" => outcome # "pass"
  /\ phase # "off" => report.status = "running"
  /\ report.status = "absent" => ckpt = NoCkpt
  /\ phase = "waiting" \/ report.status = "paused" => report.waiting \in Stages
  /\ Running /\ step = "settle" /\ outcome = "waiting" => report.waiting \in Stages

\* What is completed when the worker is there, and what the checkpoint knows
\* of it: outside of a unit it knows the gates.
DoneInv ==
  /\ phase \in {"pre", "post"} =>
       /\ \A s \in Part : s < pos => s \in done
       /\ ~skipDone => \A s \in Part \cap done : s < pos
  /\ phase \in {"units", "unit", "loopback", "post", "deliver"} => Pre \subseteq done
  /\ phase = "deliver" => Post \subseteq done
  /\ phase = "pre" => ckpt.done = done
  /\ phase \notin {"off", "unit"} => HardGates \cap ckpt.done = HardGates \cap done
  /\ InUnit => HardGates \cap ckpt.done \in {{}, HardGates \cap done}

CurrentInv ==
  /\ Clean(done) /\ Clean(ckpt.done)
  /\ Backed(done, decisions, result) /\ Backed(ckpt.done, ckpt.decisions, result)
  /\ phase = "pre" /\ step = "settle" /\ outcome = "pass" =>
       pos \in result /\ (pos \in HardGates => ApprovedIn(decisions, pos))

Inductive == TypeOK /\ PlaceInv /\ DoneInv /\ CurrentInv

-----------------------------------------------------------------------------
(* Decisions and lists of stages.                                          *)

\* A decision about another gate changes nothing for this one; an approval
\* stands when it is the last word.
LEMMA Decided ==
  ASSUME NEW ds \in Seq(Decisions), NEW d \in Decisions
  PROVE  /\ Append(ds, d) \in Seq(Decisions)
         /\ \A g : g # d.stage /\ ApprovedIn(ds, g) => ApprovedIn(Append(ds, d), g)
         /\ d.verdict = "approved" => ApprovedIn(Append(ds, d), d.stage)
<1>1. /\ Append(ds, d) \in Seq(Decisions)
      /\ Len(Append(ds, d)) = Len(ds) + 1
      /\ \A i \in 1..Len(ds) : Append(ds, d)[i] = ds[i]
      /\ Append(ds, d)[Len(ds) + 1] = d
  BY AppendProperties
<1>2. Len(ds) \in Nat /\ DOMAIN ds = 1..Len(ds)
  BY LenProperties
<1>3. DOMAIN Append(ds, d) = 1..(Len(ds) + 1)
  BY <1>1, LenProperties
<1>4. ASSUME NEW g, g # d.stage, ApprovedIn(ds, g) PROVE ApprovedIn(Append(ds, d), g)
  <2>1. PICK i \in 1..Len(ds) :
          /\ ds[i] = [stage |-> g, verdict |-> "approved"]
          /\ \A j \in 1..Len(ds) : j > i => ds[j].stage # g
    BY <1>2, <1>4 DEF ApprovedIn
  <2>2. i \in DOMAIN Append(ds, d)
    BY <1>2, <1>3
  <2>3. \A j \in DOMAIN Append(ds, d) : j > i => Append(ds, d)[j].stage # g
    <3>1. \A j \in 1..(Len(ds) + 1) : j \in 1..Len(ds) \/ j = Len(ds) + 1
      BY <1>2
    <3> QED BY <1>1, <1>2, <1>3, <1>4, <2>1, <3>1
  <2>4. Append(ds, d)[i] = [stage |-> g, verdict |-> "approved"]
    BY <1>1, <2>1
  <2> QED BY <2>2, <2>3, <2>4 DEF ApprovedIn
<1>5. ASSUME d.verdict = "approved" PROVE ApprovedIn(Append(ds, d), d.stage)
  <2>1. d = [stage |-> d.stage, verdict |-> "approved"]
    BY <1>5 DEF Decisions
  <2>2. Len(ds) + 1 \in DOMAIN Append(ds, d)
    BY <1>2, <1>3
  <2>3. \A j \in DOMAIN Append(ds, d) : ~(j > Len(ds) + 1)
    BY <1>2, <1>3
  <2> QED BY <1>1, <2>1, <2>2, <2>3 DEF ApprovedIn
<1> QED BY <1>1, <1>4, <1>5

\* The list of a unit says nothing about the rest of the run.
LEMMA UnitListIsClean ==
  ASSUME NEW D \in SUBSET UnitStages, NEW ds, NEW res
  PROVE  /\ Clean(D) /\ Backed(D, ds, res) /\ HardGates \cap D = {}
         /\ D \subseteq Stages
BY PartsApart DEF Clean, Backed, Stages

\* The stages of the parts.
LEMMA PartIs ==
  /\ phase = "pre" => Part = Pre
  /\ phase = "unit" => Part = UnitStages
  /\ phase = "post" => Part = Post
BY DEF Part, Parts

\* A stage is only run when no later one of its part counts as completed.
LEMMA RunsInOrder ==
  ASSUME Inductive, phase \in {"pre", "post"}, pos \in Part,
         ~(skipDone /\ pos \in Counted)
  PROVE  \A s \in Part \cap done : s < pos
<1>1. CASE ~skipDone
  BY <1>1 DEF Inductive, DoneInv
<1>2. CASE skipDone /\ pos \notin done
  <2>1. Part \in {Pre, Post} /\ pos \in 1..N
    BY PartIs, PartsApart
  <2>2. \A s \in Part \cap done : s \in 1..N /\ ~(pos < s) /\ s # pos
    BY <1>2, <2>1, PartIs, PartsApart DEF Inductive, CurrentInv, Clean
  <2> QED BY <2>1, <2>2
<1> QED BY <1>1, <1>2 DEF Counted, InUnit

-----------------------------------------------------------------------------
(* Types.                                                                  *)

\* The next position of the part being worked on is a position.
LEMMA Positions ==
  /\ \A part \in {Pre, UnitStages, Post} :
       First(part) \in part \cup {End} /\ First(part) \in 0..End
  /\ \A part \in {Pre, UnitStages, Post} : \A s \in part :
       NextIn(part, s) \in part \cup {End} /\ NextIn(part, s) \in 0..End
<1>1. N \in Nat /\ {Pre, UnitStages, Post} \subseteq SUBSET Stages
  BY PartsApart DEF Stages
<1>2. \A part \in {Pre, UnitStages, Post}, s \in 0..N :
        NextIn(part, s) \in part \cup {End} /\ NextIn(part, s) \in 0..End
  <2>1. TAKE part \in {Pre, UnitStages, Post}, s \in 0..N
  <2>2. part \in SUBSET Stages
    BY <1>1
  <2>3. NextIn(part, s) \in part \cup {End} /\ NextIn(part, s) \in (s + 1)..End
    BY <2>2, NextInFound
  <2> QED BY <1>1, <2>3 DEF End
<1>3. 0 \in 0..N
  BY <1>1
<1>4. \A part \in {Pre, UnitStages, Post} : \A s \in part : s \in 0..N
  BY <1>1 DEF Stages
<1> QED BY <1>2, <1>3, <1>4 DEF First

\* Noting progress.
LEMMA ProgressNoted ==
  ASSUME NEW p \in Progress, NEW u \in Units
  PROVE  /\ \A d \in SUBSET UnitStages : [p EXCEPT ![u].done = d] \in Progress
         /\ \A s \in ProgressStatuses : [p EXCEPT ![u].status = s] \in Progress
<1>1. p[u] \in [status : ProgressStatuses, done : SUBSET UnitStages]
  BY DEF Progress
<1>2. ASSUME NEW d \in SUBSET UnitStages
      PROVE  [p[u] EXCEPT !.done = d] \in [status : ProgressStatuses, done : SUBSET UnitStages]
  BY <1>1
<1>3. ASSUME NEW s \in ProgressStatuses
      PROVE  [p[u] EXCEPT !.status = s]
               \in [status : ProgressStatuses, done : SUBSET UnitStages]
  BY <1>1
<1> QED BY <1>2, <1>3 DEF Progress

\* The absence of a checkpoint.
LEMMA NoCkptType ==
  NoCkpt \in [exists : BOOLEAN, done : SUBSET Stages, progress : Progress,
              decisions : Seq(Decisions)]
<1>1. <<>> \in Seq(Decisions)
  OBVIOUS
<1> QED BY <1>1 DEF NoCkpt, Progress, Fresh, ProgressStatuses

\* The initial state.
LEMMA InitHolds == ASSUME Init PROVE Inductive
<1> USE DEF Init
<1>1. NoCkpt \in [exists : BOOLEAN, done : SUBSET Stages, progress : Progress,
                  decisions : Seq(Decisions)]
  BY NoCkptType
<1>2. 0 \in 0..End
  BY PartsApart DEF End
<1>3. split \in [deps : [Units -> SUBSET Units], priority : [Units -> Int]]
  BY MultiUnitAssumption
<1>4. loops \in [LoopStages -> Nat]
  BY DEF NoLoops
<1>5. progress \in Progress
  BY DEF Fresh, Progress, ProgressStatuses
<1>6. /\ <<>> \in Seq(Decisions)
      /\ report \in [status : {"absent", "running", "paused", "completed",
                               "failed", "blocked"}, waiting : Stages \cup {0}]
  OBVIOUS
<1>7. TypeOK
  BY <1>1, <1>2, <1>3, <1>4, <1>5, <1>6 DEF TypeOK, Outcomes
<1>8. PlaceInv
  BY DEF PlaceInv, Running, InUnit
<1>9. DoneInv
  BY DEF DoneInv, InUnit
<1>10. CurrentInv
  BY DEF CurrentInv, NoCkpt, Clean, Backed
<1> QED BY <1>7, <1>8, <1>9, <1>10 DEF Inductive

\* A worker starts, on nothing or on the checkpoint.
LEMMA LaunchType ==
  ASSUME TypeOK,
         NEW restored \in [exists : BOOLEAN, done : SUBSET Stages,
                           progress : Progress, decisions : Seq(Decisions)],
         NEW decision \in Decisions \cup {NoDecision}, NEW again \in BOOLEAN,
         Launch(restored, decision, again), resumes' \in Nat
  PROVE  TypeOK'
<1>1. pos' \in 0..End
  BY Positions DEF Launch, Enter, Parts
<1>2. report' \in [status : {"absent", "running", "paused", "completed",
                             "failed", "blocked"}, waiting : Stages \cup {0}]
  BY DEF Launch
<1>3. loops' \in [LoopStages -> Nat]
  BY DEF Launch, Enter, NoLoops
<1>4. /\ done' \subseteq Stages /\ progress' \in Progress
      /\ decisions' \in Seq(Decisions)
  BY DEF Launch
<1> QED BY <1>1, <1>2, <1>3, <1>4 DEF Launch, Enter, TypeOK, files, history, Outcomes

\* A stage runs.
LEMMA RunType ==
  ASSUME Inductive, Running, pos \in Part,
         NEW o \in Outcomes, NEW ds \in Seq(Decisions), Run(o, ds),
         pending' \in Decisions \cup {NoDecision}
  PROVE  TypeOK'
<1> USE DEF Inductive, TypeOK
<1>1. pos \in Stages
  BY PartIs, PartsApart DEF Running, Stages
<1>2. InUnit => progress[unit].done \subseteq UnitStages /\ pos \in UnitStages
  BY PartIs DEF PlaceInv, Progress, InUnit
<1>3. ckpt' \in [exists : BOOLEAN, done : SUBSET Stages, progress : Progress,
                 decisions : Seq(Decisions)]
  <2>1. CASE InUnit
    <3>1. ckpt' = Saved(progress[unit].done, progress)
      BY <2>1 DEF Run
    <3>2. progress[unit].done \in SUBSET Stages
      BY <1>2, <2>1, UnitListIsClean
    <3> QED BY <3>1, <3>2 DEF Saved
  <2> QED BY <2>1 DEF Run
<1>4. report' \in [status : {"absent", "running", "paused", "completed",
                             "failed", "blocked"}, waiting : Stages \cup {0}]
  BY <1>1 DEF Run
<1>5. result' \subseteq Stages
  BY <1>1 DEF Run, Produce
<1>6. work' \in [Units -> SUBSET UnitStages]
  <2>1. CASE InUnit
    <3>1. \A u \in Units : work[u] \subseteq UnitStages
      OBVIOUS
    <3>2. PICK ok \in BOOLEAN :
            work' = [u \in Units |->
                       IF u = unit
                       THEN {s \in work[u] : s < pos} \cup (IF ok THEN {pos} ELSE {})
                       ELSE IF Precedes(u, unit) THEN work[u] ELSE {}]
      BY <2>1 DEF Run, Produce
    <3> QED BY <1>2, <2>1, <3>1, <3>2
  <2>2. CASE ~InUnit
    BY <2>2 DEF Run, Produce
  <2> QED BY <2>1, <2>2
<1> QED BY <1>3, <1>4, <1>5, <1>6 DEF Run, files

\* Stages are counted, or forgotten.
LEMMA CountType ==
  ASSUME Inductive, NEW counted,
         counted \subseteq Stages, InUnit => counted \subseteq UnitStages,
         CountAndSave(counted)
  PROVE  /\ done' \subseteq Stages /\ progress' \in Progress
         /\ ckpt' \in [exists : BOOLEAN, done : SUBSET Stages, progress : Progress,
                       decisions : Seq(Decisions)]
<1> USE DEF Inductive, TypeOK
<1>1. CASE InUnit
  <2>1. progress' = [progress EXCEPT ![unit].done = counted] /\ done' = done
        /\ ckpt' = Saved(counted, progress')
    BY <1>1 DEF CountAndSave
  <2>2. progress' \in Progress
    <3>1. unit \in Units /\ counted \in SUBSET UnitStages /\ progress \in Progress
      BY <1>1 DEF PlaceInv
    <3> QED BY <2>1, <3>1, ProgressNoted
  <2> QED BY <2>1, <2>2 DEF Saved
<1>2. CASE ~InUnit
  <2>1. done' = counted /\ progress' = progress /\ ckpt' = Saved(counted, progress)
    BY <1>2 DEF CountAndSave
  <2>2. counted \in SUBSET Stages /\ progress \in Progress /\ decisions \in Seq(Decisions)
    OBVIOUS
  <2> QED BY <2>1, <2>2 DEF Saved
<1> QED BY <1>1, <1>2

\* What counts as completed is a list of stages.
LEMMA CountedType ==
  ASSUME Inductive
  PROVE  Counted \subseteq Stages /\ (InUnit => Counted \subseteq UnitStages)
<1>1. CASE InUnit
  <2>1. Counted \subseteq UnitStages
    BY <1>1 DEF Inductive, TypeOK, PlaceInv, Progress, Counted
  <2> QED BY <2>1, UnitListIsClean
<1>2. CASE ~InUnit
  BY <1>2 DEF Counted, Inductive, TypeOK
<1> QED BY <1>1, <1>2

\* An exception leaves a sequence.
LEMMA RaiseType ==
  ASSUME Inductive, Raise, loops' \in [LoopStages -> Nat]
  PROVE  TypeOK'
<1> USE DEF Inductive, TypeOK
<1>1. progress' \in Progress
  <2>1. "failed" \in ProgressStatuses /\ progress \in Progress
    BY DEF ProgressStatuses
  <2> QED BY <2>1, ProgressNoted DEF Raise, PlaceInv
<1>2. ckpt' \in [exists : BOOLEAN, done : SUBSET Stages, progress : Progress,
                 decisions : Seq(Decisions)]
  <2>1. CASE InUnit
    <3>1. ckpt' = Saved(done, progress')
      BY <2>1 DEF Raise
    <3> QED BY <1>1, <3>1 DEF Saved
  <2>2. CASE ~InUnit
    BY <2>2 DEF Raise
  <2> QED BY <2>1, <2>2
<1> QED BY <1>1, <1>2 DEF Raise, files, history

\* The counts of loopbacks.
LEMMA LoopsType ==
  ASSUME TypeOK
  PROVE  [loops EXCEPT ![pos] = @ + 1] \in [LoopStages -> Nat]
<1> DEFINE more == [loops EXCEPT ![pos] = @ + 1]
<1>1. loops \in [LoopStages -> Nat]
  BY DEF TypeOK
<1>2. \A s \in LoopStages : loops[s] \in Nat /\ loops[s] + 1 \in Nat
  BY <1>1
<1>3. DOMAIN more = LoopStages
  BY <1>1
<1>4. \A s \in LoopStages : more[s] \in Nat
  BY <1>1, <1>2
<1> QED BY <1>1, <1>3, <1>4

\* Back to an earlier stage of the sequence.
LEMMA BackType ==
  ASSUME Inductive, Running, pos \in Part, NEW target \in Part, BackTo(target),
         loops' \in [LoopStages -> Nat]
  PROVE  TypeOK'
<1>1. Part \subseteq Stages /\ (InUnit => Part = UnitStages)
  BY PartIs, PartsApart DEF Running, Stages, InUnit
<1> DEFINE counted == (Counted \cup (IF outcome = "changes" THEN {pos} ELSE {}))
                        \ {s \in Part : s >= target}
<1>2. counted \subseteq Stages /\ (InUnit => counted \subseteq UnitStages)
  BY <1>1, CountedType
<1>3. CountAndSave(counted)
  BY DEF BackTo
<1>4. /\ done' \subseteq Stages /\ progress' \in Progress
      /\ ckpt' \in [exists : BOOLEAN, done : SUBSET Stages, progress : Progress,
                    decisions : Seq(Decisions)]
  <2> HIDE DEF counted
  <2> QED BY <1>2, <1>3, CountType
<1>5. target \in 0..End
  BY <1>1, PartsApart DEF Stages, End
<1> QED BY <1>4, <1>5 DEF BackTo, GoTo, Inductive, TypeOK, files, history


\* Every step keeps the types.
LEMMA TypeKept == ASSUME Inductive, Next PROVE TypeOK'
<1> USE DEF Inductive
<1>1. ASSUME NEW d \in Decisions \cup {NoDecision}, Relaunch(d) PROVE TypeOK'
  <2>1. ckpt \in [exists : BOOLEAN, done : SUBSET Stages, progress : Progress,
                  decisions : Seq(Decisions)] /\ resumes \in Nat
    BY DEF TypeOK
  <2>2. Launch(ckpt, d, TRUE)
    BY <1>1 DEF Relaunch
  <2>3. resumes' \in Nat /\ TypeOK
    BY <1>1, <2>1 DEF Relaunch
  <2> QED BY <1>1, <2>1, <2>2, <2>3, LaunchType
<1>2. CASE Start
  <2>1. NoCkpt \in [exists : BOOLEAN, done : SUBSET Stages, progress : Progress,
                    decisions : Seq(Decisions)]
    BY NoCkptType
  <2>2. Launch(NoCkpt, NoDecision, FALSE) /\ resumes' \in Nat
    BY <1>2 DEF Start, TypeOK
  <2> QED BY <2>1, <2>2, LaunchType
<1>3. CASE SplitFails
  BY <1>3 DEF SplitFails, TypeOK, files, place, memory, history
<1>4. CASE Resume
  BY <1>1, <1>4 DEF Resume
<1>5. CASE Decide
  <2>1. PICK v \in Verdicts : Relaunch([stage |-> report.waiting, verdict |-> v])
    BY <1>5 DEF Decide
  <2>2. report.waiting \in Stages
    BY <1>5 DEF Decide, PlaceInv
  <2> QED BY <1>1, <2>1, <2>2 DEF Decisions
<1>6. CASE PassOver
  <2>1. pos' \in 0..End
    BY <1>6, Positions, PartIs DEF PassOver, Running
  <2> QED BY <1>6, <2>1 DEF PassOver, TypeOK, files, memory, history
<1>7. CASE Stopped
  BY <1>7, RaiseType DEF Stopped, TypeOK
<1>8. CASE RunStage
  <2>1. PICK o \in Outcomes : Run(o, decisions)
    BY <1>8 DEF RunStage, Outcomes
  <2> QED BY <1>8, <2>1, RunType DEF RunStage, AtStage, TypeOK
<1>9. CASE AwaitDecision
  BY <1>9, RunType DEF AwaitDecision, AtStage, TypeOK, Outcomes
<1>10. CASE RefuseDecision
  BY <1>10, RunType DEF RefuseDecision, AtStage, TypeOK, Outcomes
<1>11. CASE TakeDecision
  <2>1. pending \in Decisions
    BY <1>11, PartIs, PartsApart
       DEF TakeDecision, AtStage, Offered, TypeOK, NoDecision, Running
  <2>2. Append(decisions, pending) \in Seq(Decisions)
    BY <2>1, Decided DEF TypeOK
  <2>3. PICK o \in {"pass", "rejected"} : Run(o, Append(decisions, pending))
    BY <1>11 DEF TakeDecision
  <2> QED BY <1>11, <2>2, <2>3, RunType DEF TakeDecision, AtStage, Outcomes
<1>12. CASE Pause
  <2>1. /\ done' \subseteq Stages /\ progress' \in Progress
        /\ ckpt' \in [exists : BOOLEAN, done : SUBSET Stages, progress : Progress,
                      decisions : Seq(Decisions)]
    BY <1>12, CountedType, CountType DEF Pause
  <2> QED BY <1>12, <2>1 DEF Pause, TypeOK, files, history
<1>13. CASE StageFailed
  BY <1>13, RaiseType DEF StageFailed, TypeOK
<1>14. CASE StageCompleted
  <2>1. pos \in Part /\ Running
    BY <1>14 DEF StageCompleted, Settling, PlaceInv
  <2>2. pos \in Stages /\ (InUnit => pos \in UnitStages) /\ NextIn(Part, pos) \in 0..End
    BY <2>1, PartIs, PartsApart, Positions DEF Running, InUnit, Stages
  <2>3. Counted \cup {pos} \subseteq Stages
        /\ (InUnit => Counted \cup {pos} \subseteq UnitStages)
    BY <2>2, CountedType
  <2>4. /\ done' \subseteq Stages /\ progress' \in Progress
        /\ ckpt' \in [exists : BOOLEAN, done : SUBSET Stages, progress : Progress,
                      decisions : Seq(Decisions)]
    BY <1>14, <2>3, CountType DEF StageCompleted
  <2> QED BY <1>14, <2>2, <2>4 DEF StageCompleted, GoTo, TypeOK, files, history
<1>15. CASE ChangesRequested
  <2>1. loops' \in [LoopStages -> Nat]
    BY <1>15, LoopsType DEF ChangesRequested
  <2> QED BY <1>15, <2>1, BackType DEF ChangesRequested, Settling, PlaceInv
<1>16. CASE GiveUp
  <2>1. loops' \in [LoopStages -> Nat]
    BY <1>16, LoopsType DEF GiveUp
  <2> QED BY <1>16, <2>1, RaiseType DEF GiveUp
<1>17. CASE RejectedWithin
  <2>1. loops' \in [LoopStages -> Nat]
    BY <1>17 DEF RejectedWithin, TypeOK
  <2> QED BY <1>17, <2>1, BackType DEF RejectedWithin, Settling, PlaceInv
<1>18. CASE RejectedToUnits
  BY <1>18 DEF RejectedToUnits, Saved, TypeOK, files, memory
<1>19. CASE RejectedNowhere
  BY <1>19, RaiseType DEF RejectedNowhere, TypeOK
<1>20. CASE EnterUnits
  BY <1>20 DEF EnterUnits, TypeOK, files, memory, history
<1>21. ASSUME NEW u \in Units, PassUnit(u) PROVE TypeOK'
  BY <1>21 DEF PassUnit, NextUnit, TypeOK, files, memory, history
<1>22. ASSUME NEW u \in Units, BeginUnit(u) PROVE TypeOK'
  <2>1. pos' \in 0..End /\ loops' \in [LoopStages -> Nat]
    BY <1>22, Positions DEF BeginUnit, Enter, NoLoops, Parts
  <2>2. progress' \in Progress
    <3>1. "in_progress" \in ProgressStatuses /\ progress \in Progress
      BY DEF ProgressStatuses, TypeOK
    <3> QED BY <1>22, <3>1, ProgressNoted DEF BeginUnit
  <2>3. ckpt' \in [exists : BOOLEAN, done : SUBSET Stages, progress : Progress,
                   decisions : Seq(Decisions)]
    BY <1>22, <2>2 DEF BeginUnit, Saved, TypeOK
  <2> QED BY <1>22, <2>1, <2>2, <2>3 DEF BeginUnit, Enter, TypeOK, files, history
<1>23. CASE EndUnit
  <2>1. unit \in Units
    BY <1>23 DEF EndUnit, AtEnd, PlaceInv, InUnit
  <2>2. progress' \in Progress
    <3>1. "completed" \in ProgressStatuses /\ progress \in Progress
      BY DEF ProgressStatuses, TypeOK
    <3> QED BY <1>23, <2>1, <3>1, ProgressNoted DEF EndUnit
  <2>3. ckpt' \in [exists : BOOLEAN, done : SUBSET Stages, progress : Progress,
                   decisions : Seq(Decisions)]
    BY <1>23, <2>2 DEF EndUnit, Saved, TypeOK
  <2> QED BY <1>23, <2>1, <2>2, <2>3 DEF EndUnit, TypeOK, files
<1>24. CASE EndUnits
  <2>1. /\ pos' \in 0..End /\ loops' \in [LoopStages -> Nat]
        /\ step' \in {"top", "settle"} /\ skipDone' \in BOOLEAN
        /\ phase' \in {"deliver", "post"}
    <3>1. CASE Post = {}
      BY <1>24, <3>1 DEF EndUnits, TypeOK
    <3>2. CASE Post # {}
      <4>1. Enter("post", TRUE)
        BY <1>24, <3>2 DEF EndUnits
      <4> QED BY <4>1, Positions DEF Enter, NoLoops, Parts
    <3> QED BY <3>1, <3>2
  <2>2. summary' \in [Units -> ProgressStatuses \cup {"none"}]
    <3>1. \A u \in Units : progress[u].status \in ProgressStatuses
      BY DEF TypeOK, Progress
    <3> QED BY <1>24, <3>1 DEF EndUnits, Summarized
  <2>3. done' \subseteq Stages
    BY <1>24, PartsApart DEF EndUnits, TypeOK, Stages
  <2> QED BY <1>24, <2>1, <2>2, <2>3 DEF EndUnits, TypeOK, history
<1>25. CASE ResetUnits
  <2>1. Fresh \in Progress
    BY DEF Fresh, Progress, ProgressStatuses
  <2>2. ckpt' \in [exists : BOOLEAN, done : SUBSET Stages, progress : Progress,
                   decisions : Seq(Decisions)]
    BY <1>25, <2>1 DEF ResetUnits, Saved, TypeOK
  <2> QED BY <1>25, <2>1, <2>2 DEF ResetUnits, TypeOK, files, history
<1>26. CASE EndPost
  BY <1>26 DEF EndPost, TypeOK, files, memory, history
<1>27. ASSUME NEW s \in {"paused", "completed", "failed", "blocked"}, Exit(s),
              ckpt' \in {ckpt, NoCkpt}
       PROVE  TypeOK'
  <2>1. NoCkpt \in [exists : BOOLEAN, done : SUBSET Stages, progress : Progress,
                    decisions : Seq(Decisions)]
    BY NoCkptType
  <2> QED BY <1>27, <2>1 DEF Exit, TypeOK, files, memory, history
<1>28. CASE ReturnPaused \/ ReturnFailed \/ Deliver
  BY <1>27, <1>28 DEF ReturnPaused, ReturnFailed, Deliver
<1>29. CASE Crash
  BY <1>29 DEF Crash, TypeOK, files, memory
<1> QED BY <1>2, <1>3, <1>4, <1>5, <1>6, <1>7, <1>8, <1>9, <1>10, <1>11, <1>12, <1>13,
           <1>14, <1>15, <1>16, <1>17, <1>18, <1>19, <1>20, <1>21, <1>22, <1>23, <1>24,
           <1>25, <1>26, <1>28, <1>29
        DEF Next, Worker

-----------------------------------------------------------------------------
(* Where the worker is.                                                    *)

\* A worker starts: nothing has been run yet.
LEMMA LaunchPlace ==
  ASSUME NEW restored, NEW decision, NEW again, Launch(restored, decision, again)
  PROVE  PlaceInv'
<1>1. pos' \in Pre \cup {End}
  BY Positions DEF Launch, Enter, Parts
<1> QED BY <1>1 DEF Launch, Enter, PlaceInv, Running, InUnit, Part, Parts

\* Every step keeps it.
LEMMA PlaceKept == ASSUME Inductive, Next PROVE PlaceInv'
<1> USE DEF Inductive, PlaceInv, Running, InUnit, Part, Parts
<1>1. CASE Start \/ Resume \/ Decide
  BY <1>1, LaunchPlace DEF Start, Resume, Decide, Relaunch
<1>2. CASE SplitFails
  BY <1>2 DEF SplitFails, place, memory
<1>3. CASE PassOver
  BY <1>3, Positions DEF PassOver, memory
<1>4. CASE Stopped \/ StageFailed \/ GiveUp \/ RejectedNowhere
  <2>1. Raise /\ (step = "settle" => outcome # "pass") /\ phase # "off"
    BY <1>4 DEF Stopped, StageFailed, GiveUp, RejectedNowhere, Settling
  <2>2. /\ phase' = "raise" /\ report' = report /\ step' = step
        /\ outcome' = outcome
    BY <2>1 DEF Raise
  <2> QED BY <2>1, <2>2
<1>5. CASE RunStage
  <2>1. PICK o \in Outcomes : /\ Run(o, decisions)
                              /\ o = "changes" => pos \in LoopStages
                              /\ o = "waiting" => pos \in SoftGates
                              /\ o # "rejected"
    BY <1>5 DEF RunStage, Outcomes
  <2>2. /\ pos \in Parts[phase] /\ phase \in {"pre", "unit", "post"}
        /\ pos \in Stages /\ (phase = "unit" => pos \notin SoftGates)
    BY <1>5, PartsApart DEF RunStage, AtStage, Stages
  <2>3. /\ report'.status = report.status
        /\ o = "waiting" => report'.waiting = pos
        /\ o # "waiting" => report'.waiting = report.waiting
    BY <2>1 DEF Run, TypeOK
  <2>4. /\ phase' = phase /\ pos' = pos /\ unit' = unit /\ outcome' = o
        /\ step' = "settle" /\ skipDone' = FALSE
    BY <2>1 DEF Run
  <2>5. pos' \in Part' /\ phase' # "off" /\ phase' # "waiting" /\ Running'
    BY <2>2, <2>4
  <2>6. report'.status = "running"
    BY <2>2, <2>3
  <2>7. InUnit' => unit' \in Units /\ outcome' # "waiting"
    BY <2>1, <2>2, <2>4
  <2>8. outcome' = "waiting" => report'.waiting \in Stages
    BY <2>2, <2>3, <2>4
  <2> HIDE DEF Running, InUnit, Part, Parts
  <2> QED BY <2>1, <2>4, <2>5, <2>6, <2>7, <2>8
<1>6. CASE AwaitDecision
  <2>1. /\ pos \in Parts[phase] /\ phase \in {"pre", "unit", "post"}
        /\ pos \in Stages /\ phase # "unit"
    <3>1. pos \in Part /\ pos \in HardGates /\ Running
      BY <1>6 DEF AwaitDecision, AtStage
    <3> HIDE DEF Part, Parts
    <3>2. phase = "unit" => FALSE
      BY <3>1, PartIs, PartsApart
    <3> QED BY <3>1, <3>2, PartsApart DEF Part, Stages
  <2>2. report'.status = report.status /\ report'.waiting = pos
    BY <1>6 DEF AwaitDecision, Run, TypeOK
  <2>3. /\ phase' = phase /\ pos' = pos /\ unit' = unit /\ outcome' = "waiting"
        /\ step' = "settle" /\ skipDone' = FALSE
    BY <1>6 DEF AwaitDecision, Run
  <2>4. Running' /\ pos' \in Part' /\ ~InUnit'
    BY <2>1, <2>3
  <2>5. report'.status = "running" /\ phase' # "off" /\ phase' # "waiting"
    BY <2>1, <2>2, <2>3
  <2> HIDE DEF Running, InUnit, Part, Parts
  <2> QED BY <2>1, <2>2, <2>3, <2>4, <2>5
<1>7. CASE RefuseDecision
  BY <1>7 DEF RefuseDecision, AtStage, Run, TypeOK
<1>8. CASE TakeDecision
  BY <1>8 DEF TakeDecision, AtStage, Run, TypeOK
<1>9. CASE Pause
  BY <1>9 DEF Pause, Settling, CountAndSave, TypeOK
<1>10. CASE StageCompleted
  BY <1>10, Positions DEF StageCompleted, Settling, CountAndSave, GoTo
<1>11. CASE ChangesRequested \/ RejectedWithin
  BY <1>11 DEF ChangesRequested, RejectedWithin, Settling, BackTo, CountAndSave, GoTo
<1>12. CASE RejectedToUnits
  BY <1>12 DEF RejectedToUnits, Settling, memory
<1>13. CASE EnterUnits
  BY <1>13 DEF EnterUnits, AtEnd, memory
<1>14. ASSUME NEW u \in Units, PassUnit(u) PROVE PlaceInv'
  BY <1>14 DEF PassUnit, memory
<1>15. ASSUME NEW u \in Units, BeginUnit(u) PROVE PlaceInv'
  BY <1>15, Positions DEF BeginUnit, Enter
<1>16. CASE EndUnit
  BY <1>16 DEF EndUnit, AtEnd
<1>17. CASE EndUnits
  BY <1>17, Positions DEF EndUnits, Enter
<1>18. CASE ResetUnits
  BY <1>18 DEF ResetUnits
<1>19. CASE EndPost
  BY <1>19 DEF EndPost, AtEnd, memory
<1>20. CASE ReturnPaused \/ ReturnFailed \/ Deliver
  <2>1. PICK s \in {"paused", "completed", "failed", "blocked"} :
          /\ Exit(s) /\ (s = "paused" => phase = "waiting")
          /\ phase \in {"waiting", "raise", "deliver"}
    BY <1>20 DEF ReturnPaused, ReturnFailed, Deliver
  <2>2. report'.status = s /\ report'.waiting = report.waiting
    BY <2>1 DEF Exit, TypeOK
  <2>3. phase' = "off" /\ step' = step /\ outcome' = outcome
    BY <2>1 DEF Exit, memory
  <2>4. Running' = FALSE /\ InUnit' = FALSE
    BY <2>3
  <2>5. step = "settle" => outcome # "pass"
    BY <2>1
  <2>6. s = "paused" => report.waiting \in Stages
    BY <2>1
  <2> HIDE DEF Running, InUnit, Part, Parts
  <2> QED BY <2>1, <2>2, <2>3, <2>4, <2>5, <2>6
<1>21. CASE Crash
  BY <1>21 DEF Crash, memory
<1> QED BY <1>1, <1>2, <1>3, <1>4, <1>5, <1>6, <1>7, <1>8, <1>9, <1>10, <1>11, <1>12,
           <1>13, <1>14, <1>15, <1>16, <1>17, <1>18, <1>19, <1>20, <1>21
        DEF Next, Worker

-----------------------------------------------------------------------------
(* What is completed where.                                                *)

\* After a stage of the first or last part ran, what is behind it counts as
\* completed and nothing else of the part does.
LEMMA RunDone ==
  ASSUME Inductive, Running, step = "top", pos \in Part, ~(skipDone /\ pos \in Counted),
         NEW o, NEW ds, Run(o, ds)
  PROVE  DoneInv'
<1> USE DEF Inductive, DoneInv
<1>1. /\ phase' = phase /\ pos' = pos /\ done' = done /\ skipDone' = FALSE
      /\ Part' = Part /\ InUnit' = InUnit
      /\ ckpt' = IF InUnit THEN Saved(progress[unit].done, progress) ELSE ckpt
  BY DEF Run, Part, InUnit
<1>2. CASE phase \in {"pre", "post"}
  BY <1>1, <1>2, RunsInOrder DEF InUnit
<1>3. CASE InUnit
  <2>1. progress[unit].done \in SUBSET UnitStages
    BY <1>3, CountedType DEF Counted
  <2>2. HardGates \cap ckpt'.done = {}
    BY <1>1, <1>3, <2>1, UnitListIsClean DEF Saved
  <2> QED BY <1>1, <1>3, <2>2 DEF InUnit
<1> QED BY <1>2, <1>3 DEF Running, InUnit

\* Stages behind the next position of a part.
LEMMA Behind ==
  /\ \A part \in {Pre, UnitStages, Post} : \A s \in part :
       s < First(part) => FALSE
  /\ \A part \in {Pre, UnitStages, Post} : \A s \in part, p \in part :
       /\ s < NextIn(part, p) => s <= p
       /\ s <= p => s < NextIn(part, p)
  /\ \A part \in {Pre, UnitStages, Post} : \A s \in part : s < End
<1>1. N \in Nat /\ {Pre, UnitStages, Post} \subseteq SUBSET Stages /\ Stages = 1..N
  BY PartsApart DEF Stages
<1>2. \A part \in {Pre, UnitStages, Post} : \A p \in 0..N :
        /\ NextIn(part, p) \in (p + 1)..End
        /\ \A s \in part : s <= p \/ s >= NextIn(part, p)
  BY <1>1, NextInFound
<1>3. \A part \in {Pre, UnitStages, Post} : \A s \in part : s \in 1..N
  BY <1>1
<1>4. 0 \in 0..N /\ \A p \in 1..N : p \in 0..N
  BY <1>1
<1>5. ASSUME NEW part \in {Pre, UnitStages, Post}, NEW s \in part, NEW p \in 0..N
      PROVE  (s < NextIn(part, p) => s <= p) /\ (s <= p => s < NextIn(part, p))
  <2>1. s \in 1..N /\ NextIn(part, p) \in (p + 1)..End
        /\ (s <= p \/ s >= NextIn(part, p))
    BY <1>2, <1>3
  <2> QED BY <1>1, <2>1 DEF End
<1>6. \A s \in 1..N : ~(s <= 0) /\ s < End
  BY <1>1 DEF End
<1> QED BY <1>3, <1>4, <1>5, <1>6 DEF First

\* Going back within a part.
LEMMA BackDone ==
  ASSUME Inductive, Running, step = "settle", NEW target \in Part, target <= pos,
         BackTo(target)
  PROVE  DoneInv'
<1> USE DEF Inductive, DoneInv
<1> DEFINE counted == (Counted \cup (IF outcome = "changes" THEN {pos} ELSE {}))
                        \ {s \in Part : s >= target}
<1>1. CountAndSave(counted) /\ GoTo(target)
  BY DEF BackTo
<1>2. /\ phase' = phase /\ pos' = target /\ skipDone' = skipDone
      /\ Part' = Part /\ InUnit' = InUnit
  BY <1>1 DEF GoTo, Part, InUnit
<1>3. pos \in Part /\ ~skipDone
  BY DEF PlaceInv
<1>4. CASE phase \in {"pre", "post"}
  <2>1. done' = counted /\ ckpt'.done = counted /\ Counted = done
    BY <1>1, <1>4 DEF CountAndSave, Saved, Counted, InUnit
  <2>2. Part \subseteq 1..N /\ N \in Nat
    BY <1>4, PartIs, PartsApart
  <2>3. \A s \in Part : s < target => s \in done
    <3>1. \A s \in Part : s < target => s < pos
      BY <1>3, <2>2
    <3> QED BY <1>4, <3>1
  <2>4. \A s \in Part : s < target => s \in counted
    BY <2>2, <2>3, <2>1
  <2>5. \A s \in Part \cap counted : s < target
    BY <2>2
  <2>6. phase = "post" => Pre \subseteq counted
    BY <2>1, PartIs, PartsApart
  <2> HIDE DEF counted
  <2> QED BY <1>2, <1>4, <2>1, <2>4, <2>5, <2>6 DEF InUnit
<1>5. CASE InUnit
  <2>1. counted \in SUBSET UnitStages
    BY <1>3, <1>5, CountedType, PartIs DEF InUnit
  <2>2. HardGates \cap counted = {}
    BY <2>1, PartsApart
  <2>3. ckpt'.done = counted /\ done' = done
    BY <1>1, <1>5 DEF CountAndSave, Saved
  <2> HIDE DEF counted
  <2> QED BY <1>2, <1>5, <2>2, <2>3 DEF InUnit
<1> QED BY <1>4, <1>5 DEF Running, InUnit

\* Every step keeps it.
LEMMA DoneKept == ASSUME Inductive, Next PROVE DoneInv'
<1> USE DEF Inductive, DoneInv
<1>1. ASSUME NEW restored, NEW decision, NEW again,
             Launch(restored, decision, again), restored.done = ckpt.done,
             again \/ ckpt.done = {}
      PROVE  DoneInv'
  <2>1. \A s \in Pre : ~(s < First(Pre))
    BY Behind
  <2>2. /\ phase' = "pre" /\ Part' = Pre /\ done' = ckpt.done /\ ckpt' = ckpt
        /\ pos' = First(Pre) /\ skipDone' = again
    BY <1>1 DEF Launch, Enter, Part, Parts
  <2> QED BY <1>1, <2>1, <2>2 DEF InUnit
<1>2. CASE Start
  <2>1. ckpt = NoCkpt /\ NoCkpt.done = {}
    BY <1>2 DEF Start, PlaceInv, NoCkpt
  <2>2. Launch(NoCkpt, NoDecision, FALSE)
    BY <1>2 DEF Start
  <2> QED BY <1>1, <2>1, <2>2
<1>3. CASE Resume \/ Decide
  <2>1. PICK d : Launch(ckpt, d, TRUE)
    BY <1>3 DEF Resume, Decide, Relaunch
  <2> QED BY <1>1, <2>1
<1>4. CASE SplitFails
  BY <1>4 DEF SplitFails, place, memory, InUnit, Part
<1>5. CASE PassOver
  <2>1. /\ pos \in Part /\ pos \in Counted /\ skipDone' = skipDone /\ skipDone
        /\ phase' = phase /\ pos' = NextIn(Part, pos) /\ done' = done /\ ckpt' = ckpt
        /\ Part' = Part /\ InUnit' = InUnit
    BY <1>5 DEF PassOver, memory, Part, InUnit
  <2>2. CASE phase \in {"pre", "post"}
    <3>1. pos \in done /\ Part \in {Pre, UnitStages, Post} /\ Part \subseteq 1..N
      BY <2>1, <2>2, PartIs, PartsApart DEF Counted, InUnit
    <3>2. \A s \in Part : s < NextIn(Part, pos) => s \in done
      <4>1. TAKE s \in Part
      <4>2. s < NextIn(Part, pos) => s <= pos
        BY <2>1, <3>1, Behind
      <4>3. s <= pos => s < pos \/ s = pos
        BY <2>1, <3>1
      <4> QED BY <2>1, <2>2, <3>1, <4>2, <4>3
    <3> QED BY <2>1, <2>2, <3>2 DEF InUnit
  <2>3. CASE InUnit
    BY <2>1, <2>3 DEF InUnit
  <2> QED BY <1>5, <2>2, <2>3 DEF PassOver, Running, InUnit
<1>6. CASE Stopped \/ StageFailed \/ GiveUp \/ RejectedNowhere
  <2>1. Raise /\ phase # "off"
    BY <1>6 DEF Stopped, StageFailed, GiveUp, RejectedNowhere, Settling, Running
  <2>2. phase' = "raise" /\ done' = done /\ InUnit' = FALSE
        /\ (InUnit => ckpt'.done = done) /\ (~InUnit => ckpt' = ckpt)
    BY <2>1 DEF Raise, Saved, InUnit
  <2> QED BY <2>1, <2>2 DEF InUnit
<1>7. CASE RunStage \/ AwaitDecision \/ RefuseDecision \/ TakeDecision
  <2>1. PICK o, ds : Run(o, ds)
    BY <1>7 DEF RunStage, AwaitDecision, RefuseDecision, TakeDecision
  <2>2. Running /\ step = "top" /\ pos \in Part /\ ~(skipDone /\ pos \in Counted)
    BY <1>7 DEF RunStage, AwaitDecision, RefuseDecision, TakeDecision, AtStage
  <2> QED BY <2>1, <2>2, RunDone
<1>8. CASE Pause
  <2>1. ~InUnit /\ phase' = "waiting" /\ CountAndSave(Counted) /\ InUnit' = FALSE
    BY <1>8 DEF Pause, Settling, PlaceInv, InUnit
  <2>2. done' = Counted /\ ckpt'.done = Counted
    BY <2>1 DEF CountAndSave, Saved
  <2> QED BY <2>1, <2>2
<1>9. CASE StageCompleted
  <2>1. /\ CountAndSave(Counted \cup {pos}) /\ phase' = phase
        /\ pos' = NextIn(Part, pos) /\ pos \in Part /\ skipDone' = skipDone
        /\ Part' = Part /\ InUnit' = InUnit /\ step = "settle" /\ Running
        /\ ~skipDone
    BY <1>9 DEF StageCompleted, GoTo, Settling, PlaceInv, Part, InUnit
  <2>2. CASE phase \in {"pre", "post"}
    <3>1. done' = done \cup {pos} /\ ckpt'.done = done \cup {pos}
      BY <2>1, <2>2 DEF CountAndSave, Saved, Counted, InUnit
    <3>2. Part \in {Pre, UnitStages, Post} /\ Part \subseteq 1..N
      BY <2>2, PartIs, PartsApart
    <3>3. \A s \in Part : /\ s < NextIn(Part, pos) => s \in done \cup {pos}
                          /\ s \in done \cup {pos} => s < NextIn(Part, pos)
      <4>1. TAKE s \in Part
      <4>2. (s < NextIn(Part, pos) => s <= pos) /\ (s <= pos => s < NextIn(Part, pos))
        BY <2>1, <3>2, Behind
      <4>3. s <= pos <=> s < pos \/ s = pos
        BY <2>1, <3>2
      <4>4. s < pos <=> s \in done /\ s # pos
        BY <2>1, <2>2, <3>2
      <4> QED BY <4>2, <4>3, <4>4
    <3> QED BY <2>1, <2>2, <3>1, <3>3 DEF InUnit
  <2>3. CASE InUnit
    <3>1. Counted \cup {pos} \in SUBSET UnitStages
      BY <2>1, <2>3, CountedType, PartIs DEF InUnit
    <3>2. HardGates \cap (Counted \cup {pos}) = {}
      BY <3>1, PartsApart
    <3>3. ckpt'.done = Counted \cup {pos} /\ done' = done
      BY <2>1, <2>3 DEF CountAndSave, Saved
    <3> QED BY <2>1, <2>3, <3>2, <3>3 DEF InUnit
  <2> QED BY <2>1, <2>2, <2>3 DEF Running, InUnit
<1>10. CASE ChangesRequested
  <2>1. /\ Running /\ step = "settle" /\ LoopTo[pos] \in Part /\ BackTo(LoopTo[pos])
        /\ pos \in LoopStages
    BY <1>10 DEF ChangesRequested, Settling, PlaceInv
  <2> QED BY <2>1, BackDone, BackwardAssumption
<1>11. CASE RejectedWithin
  <2>1. /\ Running /\ step = "settle" /\ RejectTo[pos] \in Part
        /\ BackTo(RejectTo[pos]) /\ pos \in HardGates
    BY <1>11 DEF RejectedWithin, Settling, PlaceInv
  <2> QED BY <2>1, BackDone, BackwardAssumption
<1>12. CASE RejectedToUnits
  BY <1>12 DEF RejectedToUnits, Saved, memory, InUnit
<1>13. CASE EnterUnits
  <2>1. phase = "pre" /\ pos = End /\ Part = Pre /\ \A s \in Pre : s < End
    BY <1>13, PartIs, Behind DEF EnterUnits, AtEnd
  <2>2. Pre \subseteq done
    BY <2>1
  <2> QED BY <1>13, <2>1, <2>2 DEF EnterUnits, memory, InUnit
<1>14. ASSUME NEW u \in Units, PassUnit(u) PROVE DoneInv'
  BY <1>14 DEF PassUnit, memory, InUnit
<1>15. ASSUME NEW u \in Units, BeginUnit(u) PROVE DoneInv'
  BY <1>15 DEF BeginUnit, Enter, Saved, InUnit
<1>16. CASE EndUnit
  BY <1>16 DEF EndUnit, AtEnd, Saved, InUnit
<1>17. CASE EndUnits
  <2>1. done' = done \cup UnitStages /\ ckpt' = ckpt /\ phase = "units"
    BY <1>17 DEF EndUnits
  <2>2. HardGates \cap ckpt'.done = HardGates \cap done' /\ Pre \subseteq done'
    BY <2>1, PartsApart
  <2>3. CASE Post = {}
    BY <1>17, <2>1, <2>2, <2>3 DEF EndUnits, InUnit
  <2>4. CASE Post # {}
    <3>1. phase' = "post" /\ pos' = First(Post) /\ skipDone' = TRUE /\ Part' = Post
      BY <1>17, <2>4 DEF EndUnits, Enter, Part, Parts
    <3>2. \A s \in Post : ~(s < First(Post))
      BY Behind
    <3> QED BY <2>2, <3>1, <3>2 DEF InUnit
  <2> QED BY <2>3, <2>4
<1>18. CASE ResetUnits
  <2>1. done' = done \ UnitStages /\ ckpt'.done = done \ UnitStages
        /\ phase' = "units" /\ Pre \subseteq done
    BY <1>18 DEF ResetUnits, Saved
  <2> QED BY <2>1, PartsApart DEF InUnit
<1>19. CASE EndPost
  <2>1. phase = "post" /\ pos = End /\ Part = Post /\ \A s \in Post : s < End
    BY <1>19, PartIs, Behind DEF EndPost, AtEnd
  <2> QED BY <1>19, <2>1 DEF EndPost, memory, InUnit
<1>20. CASE ReturnPaused \/ ReturnFailed \/ Deliver
  BY <1>20 DEF ReturnPaused, ReturnFailed, Deliver, Exit, InUnit
<1>21. CASE Crash
  BY <1>21 DEF Crash, InUnit
<1> QED BY <1>2, <1>3, <1>4, <1>5, <1>6, <1>7, <1>8, <1>9, <1>10, <1>11, <1>12,
           <1>13, <1>14, <1>15, <1>16, <1>17, <1>18, <1>19, <1>20, <1>21
        DEF Next, Worker

-----------------------------------------------------------------------------
(* The work that completed stages rest on.                                 *)

\* A stage runs.  What counts as completed keeps its work and its approvals;
\* the gate that passes has its own.
LEMMA RunCurrent ==
  ASSUME Inductive, Running, step = "top", pos \in Part, ~(skipDone /\ pos \in Counted),
         NEW o, NEW ds, Run(o, ds),
         \A g : g # pos /\ ApprovedIn(decisions, g) => ApprovedIn(ds, g),
         o = "pass" /\ pos \in HardGates => ApprovedIn(ds, pos)
  PROVE  CurrentInv'
<1> USE DEF Inductive, CurrentInv
<1>1. /\ phase' = phase /\ pos' = pos /\ done' = done /\ decisions' = ds
      /\ outcome' = o /\ Produce(o \in {"pass", "changes"})
      /\ ckpt' = IF InUnit THEN Saved(progress[unit].done, progress) ELSE ckpt
  BY DEF Run
<1>2. Clean(done')
  BY <1>1
<1>3. CASE phase = "pre"
  <2>1. Part = Pre /\ ckpt = ckpt' /\ ckpt.done = done
    BY <1>1, <1>3, PartIs DEF InUnit, DoneInv
  <2>2. \A s \in Pre \cap done : s < pos
    BY <1>3, <2>1, RunsInOrder
  <2>3. result' = {s \in result : s < pos}
                    \cup (IF o \in {"pass", "changes"} THEN {pos} ELSE {})
    BY <1>1, <1>3 DEF Produce, InUnit
  <2>4. \A s \in Pre \cap done : s \in result' /\ s # pos
    <3>1. TAKE s \in Pre \cap done
    <3>2. s \in result /\ s < pos
      BY <2>2 DEF Backed
    <3>3. s \in 1..N
      BY PartsApart
    <3> QED BY <2>3, <3>2, <3>3
  <2>5. Backed(done, ds, result') /\ Backed(ckpt.done, ckpt.decisions, result')
    BY <2>1, <2>4 DEF Backed
  <2>6. o = "pass" => pos \in result'
    BY <2>3
  <2> QED BY <1>1, <1>2, <2>1, <2>5, <2>6
<1>4. CASE phase \in {"unit", "post"}
  <2>1. \A s \in Pre : s # pos /\ (s \in result => s \in result')
    <3>1. CASE InUnit
      <4>1. result' = result \ Post
        BY <1>1, <3>1 DEF Produce
      <4> QED BY <3>1, <4>1, PartIs, PartsApart DEF InUnit
    <3>2. CASE phase = "post"
      <4>1. {s \in result : s < pos} \subseteq result'
        BY <1>1, <3>2 DEF Produce, InUnit
      <4>2. pos \in Post
        BY <3>2, PartIs
      <4> QED BY <4>1, <4>2, PartsApart
    <3> QED BY <1>4, <3>1, <3>2 DEF InUnit
  <2>2. Backed(done, ds, result') /\ Backed(ckpt.done, ckpt.decisions, result')
    BY <2>1 DEF Backed
  <2>3. Clean(ckpt'.done) /\ Backed(ckpt'.done, ckpt'.decisions, result')
    <3>1. CASE InUnit
      <4>1. ckpt'.done = progress[unit].done /\ progress[unit].done \in SUBSET UnitStages
        BY <1>1, <3>1, CountedType DEF Saved, Counted
      <4> QED BY <4>1, UnitListIsClean
    <3>2. CASE ~InUnit
      BY <1>1, <2>2, <3>2
    <3> QED BY <3>1, <3>2
  <2> QED BY <1>1, <1>2, <1>4, <2>2, <2>3
<1> QED BY <1>3, <1>4 DEF Running

\* What is kept of the lists of completed stages is still backed.
LEMMA CountCurrent ==
  ASSUME Inductive, NEW counted, CountAndSave(counted),
         InUnit => counted \subseteq UnitStages,
         ~InUnit => Clean(counted) /\ Backed(counted, decisions, result),
         decisions' = decisions, result' = result, step' = "top" \/ phase' = "waiting"
  PROVE  CurrentInv'
<1> USE DEF Inductive, CurrentInv
<1>1. CASE InUnit
  <2>1. done' = done /\ ckpt'.done = counted /\ counted \in SUBSET UnitStages
    BY <1>1 DEF CountAndSave, Saved
  <2> QED BY <2>1, UnitListIsClean
<1>2. CASE ~InUnit
  <2>1. done' = counted /\ ckpt'.done = counted /\ ckpt'.decisions = decisions
    BY <1>2 DEF CountAndSave, Saved
  <2> QED BY <1>2, <2>1
<1> QED BY <1>1, <1>2

\* Going back within a part.
LEMMA BackCurrent ==
  ASSUME Inductive, Running, step = "settle", NEW target \in Part, target <= pos,
         BackTo(target)
  PROVE  CurrentInv'
<1> USE DEF Inductive
<1> DEFINE counted == (Counted \cup (IF outcome = "changes" THEN {pos} ELSE {}))
                        \ {s \in Part : s >= target}
<1>1. /\ CountAndSave(counted) /\ step' = "top"
      /\ decisions' = decisions /\ result' = result
  BY DEF BackTo, GoTo, history
<1>2. pos \in Part /\ ~skipDone
  BY DEF PlaceInv
<1>3. InUnit => counted \subseteq UnitStages
  BY <1>2, CountedType, PartIs DEF InUnit
<1>4. ASSUME ~InUnit PROVE Clean(counted) /\ Backed(counted, decisions, result)
  <2>1. phase \in {"pre", "post"} /\ Counted = done /\ Part \in {Pre, Post}
    BY <1>4, PartIs DEF Running, InUnit, Counted
  <2>2. \A s \in Part \cap done : s < pos
    BY <2>1 DEF DoneInv, PlaceInv
  <2>3. \A s \in counted : s \in done /\ ~(s \in Part /\ s >= target)
    BY <1>2, <2>1
  <2>4. \A s \in done : s \in counted \/ (s \in Part /\ s >= target)
    BY <2>1
  <2>5. Backed(counted, decisions, result)
    BY <2>3 DEF Backed, CurrentInv
  <2>6. CASE phase = "pre"
    <3>1. Part = Pre /\ done \cap Post = {}
      <4>1. Part = Pre /\ pos \in 1..N
        BY <1>2, <2>6, PartIs, PartsApart
      <4>2. pos \notin done
        BY <1>2, <2>2, <4>1
      <4> QED BY <1>2, <4>1, <4>2 DEF CurrentInv, Clean
    <3>2. \A t \in counted \cap Pre, s \in Pre : s < t => s \in counted
      <4>1. TAKE t \in counted \cap Pre, s \in Pre
      <4>2. t \in 1..N /\ s \in 1..N /\ target \in 1..N
        BY <3>1, PartsApart
      <4>3. s < t => s \in done
        BY <2>3 DEF CurrentInv, Clean
      <4> QED BY <2>3, <2>4, <3>1, <4>2, <4>3
    <3>3. counted \cap Post = {}
      BY <2>3, <3>1
    <3> HIDE DEF counted
    <3> QED BY <2>5, <3>2, <3>3 DEF Clean
  <2>7. CASE phase = "post"
    <3>1. Part = Post
      BY <2>7, PartIs
    <3>2. \A t \in counted \cap Post, s \in Post : s < t => s \in counted
      <4>1. TAKE t \in counted \cap Post, s \in Post
      <4>2. t \in 1..N /\ s \in 1..N /\ target \in 1..N
        BY <3>1, PartsApart
      <4>3. s < t => s \in done
        BY <2>3 DEF CurrentInv, Clean
      <4> QED BY <2>3, <2>4, <3>1, <4>2, <4>3
    <3>3. \A s \in Pre : s \in done => s \in counted
      BY <2>4, <3>1, PartsApart
    <3>4. \A s \in Pre : s \in done
      BY <2>7 DEF DoneInv
    <3> HIDE DEF counted
    <3> QED BY <2>5, <3>2, <3>3, <3>4 DEF Clean
  <2> QED BY <2>1, <2>6, <2>7
<1> HIDE DEF counted
<1> QED BY <1>1, <1>3, <1>4, CountCurrent

\* Every step keeps it.
LEMMA CurrentKept == ASSUME Inductive, Next PROVE CurrentInv'
<1> USE DEF Inductive, CurrentInv
<1>1. CASE Start
  <2>1. NoCkpt.done = {} /\ ckpt' = ckpt /\ done' = {} /\ step' = "top" /\ result' = result
    BY <1>1 DEF Start, Launch, Enter, NoCkpt, history
  <2>2. \A ds : Clean({}) /\ Backed({}, ds, result)
    BY DEF Clean, Backed
  <2> QED BY <2>1, <2>2
<1>2. CASE Resume \/ Decide
  <2>1. PICK d : Launch(ckpt, d, TRUE)
    BY <1>2 DEF Resume, Decide, Relaunch
  <2>2. /\ ckpt' = ckpt /\ done' = ckpt.done /\ decisions' = ckpt.decisions
        /\ step' = "top" /\ result' = result
    BY <2>1 DEF Launch, Enter, history
  <2> QED BY <2>2
<1>3. CASE SplitFails
  BY <1>3 DEF SplitFails, place, memory, history
<1>4. CASE PassOver
  BY <1>4 DEF PassOver, memory, history
<1>5. CASE Stopped \/ StageFailed \/ GiveUp \/ RejectedNowhere
  <2>1. Raise
    BY <1>5 DEF Stopped, StageFailed, GiveUp, RejectedNowhere
  <2>2. /\ done' = done /\ decisions' = decisions /\ result' = result
        /\ phase' = "raise"
        /\ (InUnit => ckpt'.done = done /\ ckpt'.decisions = decisions)
        /\ (~InUnit => ckpt' = ckpt)
    BY <2>1 DEF Raise, Saved, history
  <2> QED BY <2>2
<1>6. CASE RunStage
  <2>1. PICK o : Run(o, decisions)
    BY <1>6 DEF RunStage
  <2>2. /\ Running /\ step = "top" /\ pos \in Part /\ ~(skipDone /\ pos \in Counted)
        /\ pos \notin HardGates
    BY <1>6 DEF RunStage, AtStage
  <2> QED BY <2>1, <2>2, RunCurrent
<1>7. CASE AwaitDecision
  <2>1. /\ Running /\ step = "top" /\ pos \in Part /\ ~(skipDone /\ pos \in Counted)
        /\ Run("waiting", decisions)
    BY <1>7 DEF AwaitDecision, AtStage
  <2> QED BY <2>1, RunCurrent
<1>8. CASE RefuseDecision
  <2>1. /\ Running /\ step = "top" /\ pos \in Part /\ ~(skipDone /\ pos \in Counted)
        /\ Run("failed", decisions)
    BY <1>8 DEF RefuseDecision, AtStage
  <2> QED BY <2>1, RunCurrent
<1>9. CASE TakeDecision
  <2>1. /\ Running /\ step = "top" /\ pos \in Part /\ ~(skipDone /\ pos \in Counted)
        /\ Run(IF pending.verdict = "approved" THEN "pass" ELSE "rejected",
               Append(decisions, pending))
    BY <1>9 DEF TakeDecision, AtStage
  <2>2. pending \in Decisions /\ pending.stage = pos /\ decisions \in Seq(Decisions)
    <3>1. pos \in 1..N
      BY <2>1, PartIs, PartsApart DEF Running
    <3>2. Offered.stage = pos
      BY <1>9 DEF TakeDecision
    <3> QED BY <3>1, <3>2 DEF Offered, TypeOK, NoDecision
  <2> QED BY <2>1, <2>2, Decided, RunCurrent
<1>10. CASE Pause
  <2>1. /\ ~InUnit /\ CountAndSave(Counted) /\ phase' = "waiting"
        /\ decisions' = decisions /\ result' = result
    BY <1>10 DEF Pause, Settling, PlaceInv, history
  <2>2. Counted = done
    BY <2>1 DEF Counted
  <2> QED BY <2>1, <2>2, CountCurrent
<1>11. CASE StageCompleted
  <2>1. /\ CountAndSave(Counted \cup {pos}) /\ step' = "top"
        /\ decisions' = decisions /\ result' = result
        /\ Running /\ step = "settle" /\ outcome = "pass" /\ pos \in Part
    BY <1>11 DEF StageCompleted, GoTo, Settling, PlaceInv, history
  <2>2. InUnit => Counted \cup {pos} \subseteq UnitStages
    BY <2>1, CountedType, PartIs DEF InUnit
  <2>3. ASSUME ~InUnit
        PROVE  Clean(Counted \cup {pos}) /\ Backed(Counted \cup {pos}, decisions, result)
    <3>1. Counted = done /\ phase \in {"pre", "post"}
      BY <2>1, <2>3 DEF Counted, Running, InUnit
    <3>2. CASE phase = "pre"
      <4>1. pos \in Pre /\ pos \notin Post /\ \A s \in Pre : s < pos => s \in done
        BY <2>1, <3>2, PartIs, PartsApart DEF DoneInv
      <4> QED BY <2>1, <3>1, <3>2, <4>1 DEF Clean, Backed
    <3>3. CASE phase = "post"
      <4>1. pos \in Post /\ pos \notin Pre /\ \A s \in Post : s < pos => s \in done
        BY <2>1, <3>3, PartIs, PartsApart DEF DoneInv
      <4>2. Pre \subseteq done
        BY <3>3 DEF DoneInv
      <4> QED BY <3>1, <4>1, <4>2 DEF Clean, Backed
    <3> QED BY <3>1, <3>2, <3>3
  <2> QED BY <2>1, <2>2, <2>3, CountCurrent
<1>12. CASE ChangesRequested
  <2>1. /\ Running /\ step = "settle" /\ LoopTo[pos] \in Part /\ BackTo(LoopTo[pos])
        /\ pos \in LoopStages
    BY <1>12 DEF ChangesRequested, Settling, PlaceInv
  <2> QED BY <2>1, BackCurrent, BackwardAssumption
<1>13. CASE RejectedWithin
  <2>1. /\ Running /\ step = "settle" /\ RejectTo[pos] \in Part
        /\ BackTo(RejectTo[pos]) /\ pos \in HardGates
    BY <1>13 DEF RejectedWithin, Settling, PlaceInv
  <2> QED BY <2>1, BackCurrent, BackwardAssumption
<1>14. CASE RejectedToUnits
  BY <1>14 DEF RejectedToUnits, Saved, memory
<1>15. CASE EnterUnits
  BY <1>15 DEF EnterUnits, AtEnd, memory, history
<1>16. ASSUME NEW u \in Units, PassUnit(u) PROVE CurrentInv'
  BY <1>16 DEF PassUnit, memory, history
<1>17. ASSUME NEW u \in Units, BeginUnit(u) PROVE CurrentInv'
  BY <1>17 DEF BeginUnit, Enter, Saved, history
<1>18. CASE EndUnit
  BY <1>18 DEF EndUnit, AtEnd, Saved
<1>19. CASE EndUnits
  <2>1. done' = done \cup UnitStages /\ ckpt' = ckpt /\ decisions' = decisions
        /\ result' = result /\ phase' # "pre"
    BY <1>19 DEF EndUnits, Enter, history
  <2>2. Clean(done \cup UnitStages) /\ Backed(done \cup UnitStages, decisions, result)
    BY PartsApart DEF Clean, Backed
  <2> QED BY <2>1, <2>2
<1>20. CASE ResetUnits
  <2>1. done' = done \ UnitStages /\ ckpt'.done = done \ UnitStages
        /\ ckpt'.decisions = decisions /\ decisions' = decisions
        /\ result' = result /\ phase' # "pre"
    BY <1>20 DEF ResetUnits, Saved, history
  <2>2. Clean(done \ UnitStages) /\ Backed(done \ UnitStages, decisions, result)
    BY PartsApart DEF Clean, Backed
  <2> QED BY <2>1, <2>2
<1>21. CASE EndPost
  BY <1>21 DEF EndPost, AtEnd, memory, history
<1>22. CASE ReturnPaused \/ ReturnFailed \/ Deliver
  <2>1. /\ done' = done /\ decisions' = decisions /\ result' = result
        /\ phase' = "off" /\ ckpt' \in {ckpt, NoCkpt}
    BY <1>22 DEF ReturnPaused, ReturnFailed, Deliver, Exit, memory, history
  <2>2. NoCkpt.done = {} /\ \A ds : Clean({}) /\ Backed({}, ds, result)
    BY DEF NoCkpt, Clean, Backed
  <2> QED BY <2>1, <2>2
<1>23. CASE Crash
  BY <1>23 DEF Crash, memory
<1> QED BY <1>1, <1>2, <1>3, <1>4, <1>5, <1>6, <1>7, <1>8, <1>9, <1>10, <1>11, <1>12,
           <1>13, <1>14, <1>15, <1>16, <1>17, <1>18, <1>19, <1>20, <1>21, <1>22, <1>23
        DEF Next, Worker

-----------------------------------------------------------------------------
(* What holds of every run.                                                *)

\* The invariant holds in every state that can be reached.
THEOREM UnitsAreInvariant == Spec => []Inductive
<1>1. Init => Inductive
  BY InitHolds
<1>2. Inductive /\ [Next]_vars => Inductive'
  <2>1. ASSUME Inductive, Next PROVE Inductive'
    BY <2>1, TypeKept, PlaceKept, DoneKept, CurrentKept DEF Inductive
  <2>2. ASSUME Inductive, UNCHANGED vars PROVE Inductive'
    BY <2>2 DEF vars, files, place, memory, history, Inductive, TypeOK, PlaceInv, DoneInv,
                CurrentInv, Running, InUnit, Part
  <2> QED BY <2>1, <2>2
<1> QED BY <1>1, <1>2, PTL DEF Spec

\* Every variable keeps its type.
THEOREM TypeCorrect == Spec => []TypeOK
BY UnitsAreInvariant, PTL DEF Inductive

\* However often a run crashes and resumes, no unit is worked on unless all
\* that comes before the units is approved and current.
THEOREM GatesBeforeUnits == Spec => []NoUnitWorkPastAnOpenGate
<1>1. Inductive => NoUnitWorkPastAnOpenGate
  <2>1. ASSUME Inductive, InUnit, NEW g \in Pre \cap HardGates
        PROVE  Approved(g) /\ g \in result
    BY <2>1 DEF Inductive, DoneInv, CurrentInv, Backed, InUnit, Approved, ApprovedIn
  <2> QED BY <2>1 DEF NoUnitWorkPastAnOpenGate
<1> QED BY <1>1, UnitsAreInvariant, PTL

-----------------------------------------------------------------------------
(* The run keeps the promise of GatedRun, if no gate lies between the unit *)
(* stages, where it would never be asked for.                              *)

NoGateBetween == HardGates \subseteq Pre \cup Post

\* What the promise sees of a live worker, and of none.
LEMMA Seen ==
  /\ phase = "off" => ApprovedGates = HardGates \cap ckpt.done /\ UnusedApproval = 0
  /\ phase # "off" /\ (step = "top" \/ outcome # "pass" \/ InUnit) =>
       ApprovedGates = HardGates \cap done
  /\ phase # "off" /\ pending = NoDecision => UnusedApproval = 0
BY DEF ApprovedGates, UnusedApproval, NoDecision

\* The same after a step.
LEMMA SeenNext ==
  /\ phase' = "off" => ApprovedGates' = HardGates \cap ckpt'.done /\ UnusedApproval' = 0
  /\ phase' # "off" /\ (step' = "top" \/ outcome' # "pass" \/ phase' = "unit") =>
       ApprovedGates' = HardGates \cap done'
  /\ phase' # "off" /\ pending' = NoDecision => UnusedApproval' = 0
  /\ phase' # "off" /\ phase # "off" /\ pending' = pending =>
       UnusedApproval' = UnusedApproval
BY DEF ApprovedGates, UnusedApproval, NoDecision, InUnit

\* A step that changes neither the status nor the approvals is a stutter.
LEMMA Unseen ==
  ASSUME report'.status = report.status, ApprovedGates' = ApprovedGates,
         UnusedApproval' = UnusedApproval
  PROVE  UNCHANGED Promise!vars
BY DEF Promise!vars

\* Approvals that leave together with all later ones are a step of GatedRun.
LEMMA Withdrawn ==
  ASSUME report.status = "running", report'.status = "running",
         ApprovedGates' \subseteq ApprovedGates,
         \A g \in ApprovedGates', h \in ApprovedGates :
           h < g => h \in ApprovedGates',
         UnusedApproval' \in {UnusedApproval, 0}
  PROVE  Promise!Next
BY DEF Promise!Next, Promise!Withdraw

\* The initial state of a run is one of GatedRun.
LEMMA PromiseInit == ASSUME Init PROVE Promise!Init
<1>1. report.status = "absent" /\ phase = "off" /\ ckpt.done = {}
  BY DEF Init, NoCkpt
<1> QED BY <1>1, Seen DEF Promise!Init

\* Starting and resuming.
LEMMA PromiseEntry ==
  ASSUME Inductive, Start \/ SplitFails \/ Resume \/ Decide
  PROVE  Promise!Next
<1>1. phase = "off" /\ ApprovedGates = HardGates \cap ckpt.done /\ UnusedApproval = 0
  BY Seen DEF Start, SplitFails, Resume, Decide, Relaunch
<1>2. ASSUME NEW restored, NEW d, NEW again, Launch(restored, d, again),
             restored.done = ckpt.done
      PROVE  /\ report'.status = "running" /\ ApprovedGates' = ApprovedGates
             /\ phase' = "pre" /\ pending' = d
  <2>1. /\ report'.status = "running" /\ phase' = "pre" /\ step' = "top"
        /\ done' = ckpt.done /\ pending' = d
    BY <1>2 DEF Launch, Enter
  <2> QED BY <1>1, <2>1, SeenNext
<1>3. CASE Start
  <2>1. report.status = "absent" /\ Launch(NoCkpt, NoDecision, FALSE) /\ ckpt = NoCkpt
    BY <1>3 DEF Start, Inductive, PlaceInv
  <2>2. UnusedApproval' = 0
    BY <1>2, <2>1, SeenNext
  <2> QED BY <1>1, <1>2, <2>1, <2>2 DEF Promise!Next, Promise!Begin
<1>4. CASE SplitFails
  <2>1. report.status = "absent" /\ report'.status = "running" /\ phase' = phase
        /\ ckpt' = ckpt
    BY <1>4 DEF SplitFails, Inductive, TypeOK, place
  <2> QED BY <1>1, <2>1, SeenNext DEF Promise!Next, Promise!Begin
<1>5. CASE Resume
  <2>1. /\ report.status \in {"running", "paused", "failed", "blocked"}
        /\ Launch(ckpt, NoDecision, TRUE)
    BY <1>5 DEF Resume, Relaunch
  <2>2. UnusedApproval' = 0
    BY <1>2, <2>1, SeenNext
  <2> QED BY <1>1, <1>2, <2>1, <2>2 DEF Promise!Next, Promise!Continue, Promise!Resting
<1>6. CASE Decide
  <2>1. PICK v : Launch(ckpt, [stage |-> report.waiting, verdict |-> v], TRUE)
    BY <1>6 DEF Decide, Relaunch
  <2>2. report.status = "paused"
    BY <1>6 DEF Decide
  <2>3. /\ pending' = [stage |-> report.waiting, verdict |-> v] /\ phase' = "pre"
        /\ report'.status = "running" /\ ApprovedGates' = ApprovedGates
    BY <1>2, <2>1
  <2>4. CASE v = "approved" /\ report.waiting \in HardGates
    <3>1. UnusedApproval' = report.waiting
      BY <2>4, <2>3 DEF UnusedApproval
    <3> QED BY <2>2, <2>4, <2>3, <3>1 DEF Promise!Next, Promise!Answer
  <2>5. CASE ~(v = "approved" /\ report.waiting \in HardGates)
    <3>1. UnusedApproval' = 0
      BY <2>5, <2>3 DEF UnusedApproval
    <3> QED BY <2>2, <2>3, <3>1 DEF Promise!Next, Promise!Continue, Promise!Resting
  <2> QED BY <2>4, <2>5
<1> QED BY <1>3, <1>4, <1>5, <1>6

\* Running a stage approves its gate, uses up the answer, or changes nothing.
LEMMA PromiseRun ==
  ASSUME NoGateBetween, Inductive,
         RunStage \/ AwaitDecision \/ RefuseDecision \/ TakeDecision
  PROVE  [Promise!Next]_(Promise!vars)
<1>1. /\ Running /\ step = "top" /\ pos \in Part /\ ~(skipDone /\ pos \in Counted)
      /\ phase # "off" /\ ApprovedGates = HardGates \cap done
  BY Seen DEF RunStage, AwaitDecision, RefuseDecision, TakeDecision, AtStage, Running
<1>2. report.status = "running"
  BY <1>1 DEF Inductive, PlaceInv
<1>3. ASSUME NEW o, NEW ds, Run(o, ds)
      PROVE  /\ report'.status = "running" /\ phase' = phase /\ done' = done
             /\ o # "pass" \/ pos \notin HardGates => ApprovedGates' = ApprovedGates
             /\ pos \in HardGates /\ o = "pass" /\ ~InUnit =>
                  ApprovedGates' = ApprovedGates \cup {pos}
  <2>1. /\ report'.status = report.status /\ phase' = phase /\ done' = done
        /\ outcome' = o /\ pos' = pos /\ step' = "settle"
    BY <1>3 DEF Run, Inductive, TypeOK
  <2> QED BY <1>1, <1>2, <2>1 DEF ApprovedGates, InUnit
<1>4. CASE RunStage
  <2>1. PICK o : Run(o, decisions)
    BY <1>4 DEF RunStage
  <2>2. pending' = pending /\ pos \notin HardGates
    BY <1>4 DEF RunStage, AtStage
  <2> QED BY <1>1, <1>2, <1>3, <2>1, <2>2, SeenNext, Unseen
<1>5. CASE AwaitDecision
  <2>1. Run("waiting", decisions) /\ pending' = pending
    BY <1>5 DEF AwaitDecision
  <2> QED BY <1>1, <1>2, <1>3, <2>1, SeenNext, Unseen
<1>6. CASE RefuseDecision
  <2>1. Run("failed", decisions) /\ pending' = NoDecision
    BY <1>6 DEF RefuseDecision
  <2>2. UnusedApproval' = 0 /\ ApprovedGates' = ApprovedGates
        /\ report'.status = "running"
    BY <1>1, <1>3, <2>1, SeenNext
  <2> QED BY <1>2, <2>2, Withdrawn
<1>7. CASE TakeDecision
  <2>1. /\ pos \in HardGates /\ pending' = NoDecision
        /\ Run(IF pending.verdict = "approved" THEN "pass" ELSE "rejected",
               Append(decisions, pending))
    BY <1>7 DEF TakeDecision, AtStage
  <2>2. pos \in 1..N /\ Offered.stage = pos
    BY <1>1, <1>7, PartIs, PartsApart DEF TakeDecision, Running
  <2>3. pending.stage = pos
    BY <2>2 DEF Offered, NoDecision
  <2>4. UnusedApproval' = 0
    BY <1>1, <1>3, <2>1, SeenNext
  <2>5. phase \in {"pre", "post"}
    BY <1>1, <2>1, PartIs, PartsApart DEF Running
  <2>6. CASE pending.verdict # "approved"
    <3>1. ApprovedGates' = ApprovedGates /\ report'.status = "running"
      BY <1>3, <2>1, <2>6
    <3> QED BY <1>2, <2>4, <3>1, Withdrawn
  <2>7. CASE pending.verdict = "approved"
    <3>1. ApprovedGates' = ApprovedGates \cup {pos} /\ report'.status = "running"
      BY <1>3, <2>1, <2>5, <2>7 DEF InUnit
    <3>2. UnusedApproval = pos
      BY <1>1, <2>1, <2>3, <2>7 DEF UnusedApproval
    <3>3. \A h \in HardGates : h < pos => h \in done
      <4>1. TAKE h \in HardGates
      <4>2. h \in Pre \/ h \in Post
        BY DEF NoGateBetween
      <4>3. CASE phase = "pre"
        <5>1. pos \in Pre /\ \A s \in Pre : s < pos => s \in done
          BY <1>1, <4>3, PartIs DEF Inductive, DoneInv
        <5>2. h \in Post => ~(h < pos)
          BY <5>1, PartsApart
        <5> QED BY <4>2, <5>1, <5>2
      <4>4. CASE phase = "post"
        <5>1. (\A s \in Post : s < pos => s \in done) /\ Pre \subseteq done
          BY <1>1, <4>4, PartIs DEF Inductive, DoneInv
        <5> QED BY <4>2, <5>1
      <4> QED BY <2>5, <4>3, <4>4
    <3>4. {h \in HardGates : h < pos} \subseteq ApprovedGates
      BY <1>1, <3>3
    <3> QED BY <1>2, <2>1, <2>4, <3>1, <3>2, <3>4 DEF Promise!Next, Promise!Approve
  <2> QED BY <2>6, <2>7
<1> QED BY <1>4, <1>5, <1>6, <1>7

\* A completed stage keeps its approval; going back withdraws later ones.
LEMMA PromiseBack ==
  ASSUME NoGateBetween, Inductive, Running, step = "settle", outcome # "pass",
         NEW target \in Part, target <= pos, BackTo(target), pending' = pending,
         report' = report, outcome' = outcome, phase' = phase
  PROVE  [Promise!Next]_(Promise!vars)
<1> DEFINE counted == (Counted \cup (IF outcome = "changes" THEN {pos} ELSE {}))
                        \ {s \in Part : s >= target}
<1>1. /\ phase # "off" /\ ApprovedGates = HardGates \cap done
      /\ ApprovedGates' = HardGates \cap done' /\ UnusedApproval' = UnusedApproval
      /\ report.status = "running"
  BY Seen, SeenNext DEF Running, Inductive, PlaceInv
<1>2. CASE InUnit
  <2>1. done' = done
    BY <1>2 DEF BackTo, CountAndSave
  <2> QED BY <1>1, <2>1, Unseen
<1>3. CASE ~InUnit
  <2>1. done' = counted /\ Counted = done /\ phase \in {"pre", "post"}
        /\ pos \in Part /\ ~skipDone
    BY <1>3 DEF BackTo, CountAndSave, Counted, Running, InUnit, Inductive, PlaceInv
  <2>2. outcome = "changes" => pos >= target
    BY <2>1, PartIs, PartsApart
  <2>3. \A g \in done' : g \in done /\ ~(g \in Part /\ g >= target)
    BY <2>1, <2>2
  <2>4. \A g \in done : g \in done' \/ (g \in Part /\ g >= target)
    BY <2>1
  <2>5. ASSUME NEW g \in ApprovedGates', NEW h \in ApprovedGates, h < g
        PROVE  h \in ApprovedGates'
    <3>1. g \in done' /\ g \in HardGates /\ h \in done /\ h \in HardGates
      BY <1>1
    <3>2. /\ g \in 1..N /\ h \in 1..N /\ target \in 1..N
          /\ g \in Pre \cup Post /\ h \in Pre \cup Post
      BY <2>1, <3>1, PartIs, PartsApart DEF NoGateBetween
    <3>3. CASE g \in Part
      <4>1. g < target
        BY <2>3, <3>1, <3>2, <3>3
      <4>2. ~(h >= target)
        BY <2>5, <3>2, <4>1
      <4> QED BY <1>1, <2>4, <3>1, <4>2
    <3>4. CASE g \notin Part /\ phase = "pre"
      <4>1. g \in Post /\ Part = Pre /\ g \in done
        BY <2>3, <3>1, <3>2, <3>4, PartIs
      <4>2. pos \in done
        BY <2>1, <4>1 DEF Inductive, CurrentInv, Clean
      <4>3. pos < pos
        BY <2>1, <4>2 DEF Inductive, DoneInv
      <4> QED BY <2>1, <4>1, <4>3, PartsApart
    <3>5. CASE g \notin Part /\ phase = "post"
      <4>1. g \in Pre /\ Part = Post
        BY <3>2, <3>5, PartIs
      <4>2. h \notin Post
        BY <2>5, <3>2, <4>1, PartsApart
      <4> QED BY <1>1, <2>4, <3>1, <4>1, <4>2
    <3> QED BY <2>1, <3>3, <3>4, <3>5
  <2>6. ApprovedGates' \subseteq ApprovedGates
    BY <1>1, <2>3
  <2> QED BY <1>1, <2>5, <2>6, Withdrawn
<1> QED BY <1>2, <1>3

\* What follows on a stage.
LEMMA PromiseSettle ==
  ASSUME NoGateBetween, Inductive,
         Stopped \/ Pause \/ StageFailed \/ StageCompleted \/ ChangesRequested \/ GiveUp
         \/ RejectedWithin \/ RejectedToUnits \/ RejectedNowhere
  PROVE  [Promise!Next]_(Promise!vars)
<1>1. phase # "off" /\ Running
  BY DEF Stopped, Pause, StageFailed, StageCompleted, ChangesRequested, GiveUp,
         RejectedWithin, RejectedToUnits, RejectedNowhere, Settling, Running
<1>2. CASE Stopped \/ StageFailed \/ GiveUp \/ RejectedNowhere
  <2>1. Raise /\ (step = "top" \/ outcome # "pass")
    BY <1>2 DEF Stopped, StageFailed, GiveUp, RejectedNowhere, Settling
  <2>2. /\ phase' = "raise" /\ done' = done /\ pending' = pending /\ report' = report
        /\ step' = step /\ outcome' = outcome
    BY <2>1 DEF Raise
  <2>3. ApprovedGates' = ApprovedGates /\ UnusedApproval' = UnusedApproval
    BY <1>1, <2>1, <2>2, Seen, SeenNext
  <2> QED BY <2>2, <2>3, Unseen
<1>3. CASE Pause
  <2>1. /\ phase' = "waiting" /\ done' = done /\ pending' = pending /\ report' = report
        /\ outcome' = outcome /\ outcome = "waiting"
    BY <1>3 DEF Pause, Settling, CountAndSave, Counted, InUnit
  <2>2. ApprovedGates' = ApprovedGates /\ UnusedApproval' = UnusedApproval
    BY <1>1, <2>1, Seen, SeenNext
  <2> QED BY <2>1, <2>2, Unseen
<1>4. CASE StageCompleted
  <2>1. /\ CountAndSave(Counted \cup {pos}) /\ phase' = phase /\ step' = "top"
        /\ pending' = pending /\ report' = report
        /\ step = "settle" /\ outcome = "pass"
    BY <1>4 DEF StageCompleted, GoTo, Settling
  <2>2. InUnit => done' = done
    BY <2>1 DEF CountAndSave
  <2>3. ~InUnit => done' = done \cup {pos}
    BY <2>1 DEF CountAndSave, Counted
  <2>4. ApprovedGates' = HardGates \cap done' /\ UnusedApproval' = UnusedApproval
    BY <1>1, <2>1, SeenNext
  <2>5. ApprovedGates = HardGates \cap (done \cup IF InUnit THEN {} ELSE {pos})
    BY <1>1, <2>1 DEF ApprovedGates
  <2> QED BY <2>1, <2>2, <2>3, <2>4, <2>5, Unseen
<1>5. CASE ChangesRequested
  <2>1. /\ step = "settle" /\ outcome = "changes" /\ LoopTo[pos] \in Part
        /\ BackTo(LoopTo[pos]) /\ pos \in LoopStages
    BY <1>5 DEF ChangesRequested, Settling, Inductive, PlaceInv
  <2>2. pending' = pending /\ report' = report /\ outcome' = outcome /\ phase' = phase
    BY <2>1 DEF BackTo, GoTo
  <2> QED BY <1>1, <2>1, <2>2, PromiseBack, BackwardAssumption
<1>6. CASE RejectedWithin
  <2>1. /\ step = "settle" /\ outcome = "rejected" /\ RejectTo[pos] \in Part
        /\ BackTo(RejectTo[pos]) /\ pos \in HardGates
    BY <1>6 DEF RejectedWithin, Settling, Inductive, PlaceInv
  <2>2. pending' = pending /\ report' = report /\ outcome' = outcome /\ phase' = phase
    BY <2>1 DEF BackTo, GoTo
  <2> QED BY <1>1, <2>1, <2>2, PromiseBack, BackwardAssumption
<1>7. CASE RejectedToUnits
  <2>1. /\ phase' = "loopback" /\ done' = done /\ pending' = pending /\ report' = report
        /\ outcome' = outcome /\ outcome = "rejected"
    BY <1>7 DEF RejectedToUnits, Settling, memory
  <2>2. ApprovedGates' = ApprovedGates /\ UnusedApproval' = UnusedApproval
    BY <1>1, <2>1, Seen, SeenNext
  <2> QED BY <2>1, <2>2, Unseen
<1> QED BY <1>2, <1>3, <1>4, <1>5, <1>6, <1>7

\* Moving on, within the parts and between them.
LEMMA PromiseMove ==
  ASSUME Inductive,
         PassOver \/ EnterUnits \/ (\E u \in Units : PassUnit(u) \/ BeginUnit(u))
         \/ EndUnit \/ EndUnits \/ ResetUnits \/ EndPost
  PROVE  [Promise!Next]_(Promise!vars)
<1>1. phase # "off" /\ report.status = "running"
  BY DEF PassOver, Running, EnterUnits, AtEnd, PassUnit, BeginUnit, EndUnit, EndUnits,
         ResetUnits, EndPost, Inductive, PlaceInv
<1>2. step = "top" \/ outcome # "pass"
  <2>1. step = "top" \/ phase \in {"units", "loopback"}
    BY DEF PassOver, EnterUnits, AtEnd, PassUnit, BeginUnit, EndUnit, EndUnits, ResetUnits,
           EndPost
  <2>2. step \in {"top", "settle"}
    BY DEF Inductive, TypeOK
  <2> QED BY <2>1, <2>2 DEF Inductive, PlaceInv, Running
<1>3. ASSUME phase' # "off", HardGates \cap done' = HardGates \cap done,
             report' = report, pending' = pending,
             step' = "top" \/ (outcome' = outcome /\ step' = step)
      PROVE  UNCHANGED Promise!vars
  <2>1. ApprovedGates' = ApprovedGates /\ UnusedApproval' = UnusedApproval
    BY <1>1, <1>2, <1>3, Seen, SeenNext
  <2> QED BY <1>3, <2>1, Unseen
<1>4. CASE PassOver
  BY <1>3, <1>4 DEF PassOver, Running, memory
<1>5. CASE EnterUnits
  BY <1>3, <1>5 DEF EnterUnits, memory
<1>6. ASSUME NEW u \in Units, PassUnit(u) \/ BeginUnit(u) PROVE UNCHANGED Promise!vars
  BY <1>3, <1>6 DEF PassUnit, BeginUnit, Enter, memory
<1>7. CASE EndUnit
  BY <1>3, <1>7 DEF EndUnit
<1>8. CASE EndUnits
  <2>1. /\ done' = done \cup UnitStages /\ phase' # "off" /\ report' = report
        /\ pending' = pending
        /\ step' = "top" \/ (outcome' = outcome /\ step' = step)
    BY <1>8 DEF EndUnits, Enter
  <2>2. HardGates \cap done' = HardGates \cap done
    BY <2>1, PartsApart
  <2> QED BY <1>3, <2>1, <2>2
<1>9. CASE ResetUnits
  <2>1. /\ done' = done \ UnitStages /\ phase' = "units" /\ report' = report
        /\ pending' = NoDecision /\ outcome' = outcome /\ step' = step
    BY <1>9 DEF ResetUnits
  <2>2. HardGates \cap done' = HardGates \cap done
    BY <2>1, PartsApart
  <2>3. ApprovedGates' = ApprovedGates /\ UnusedApproval' = 0
    BY <1>1, <1>2, <2>1, <2>2, Seen, SeenNext
  <2> QED BY <1>1, <2>1, <2>3, Withdrawn
<1>10. CASE EndPost
  BY <1>3, <1>10 DEF EndPost, memory
<1> QED BY <1>4, <1>5, <1>6, <1>7, <1>8, <1>9, <1>10

\* The end of run(), and the death of the process.
LEMMA PromiseEnd ==
  ASSUME NoGateBetween, Inductive, ReturnPaused \/ ReturnFailed \/ Deliver \/ Crash
  PROVE  [Promise!Next]_(Promise!vars)
<1>1. phase # "off" /\ phase' = "off" /\ report.status = "running"
      /\ UnusedApproval' = 0 /\ ApprovedGates' = HardGates \cap ckpt'.done
  <2>1. phase # "off" /\ phase' = "off"
    BY DEF ReturnPaused, ReturnFailed, Deliver, Crash, Exit
  <2> QED BY <2>1, SeenNext DEF Inductive, PlaceInv
<1>2. CASE ReturnPaused \/ ReturnFailed \/ Deliver
  <2>1. PICK s \in {"paused", "completed", "failed", "blocked"} :
          /\ Exit(s) /\ phase \in {"waiting", "raise", "deliver"}
          /\ s # "completed" => ckpt' = ckpt
          /\ s = "completed" => ckpt' = NoCkpt /\ phase = "deliver"
    BY <1>2 DEF ReturnPaused, ReturnFailed, Deliver
  <2>2. report'.status = s
    BY <2>1 DEF Exit, Inductive, TypeOK
  <2>3. ApprovedGates = HardGates \cap done
    <3>1. step = "top" \/ outcome # "pass"
      BY <2>1 DEF Inductive, TypeOK, PlaceInv, Running
    <3> QED BY <1>1, <3>1, Seen
  <2>4. HardGates \cap ckpt.done = HardGates \cap done
    BY <2>1 DEF Inductive, DoneInv
  <2>5. CASE s # "completed"
    <3>1. s \in Promise!Resting
      BY <2>5 DEF Promise!Resting
    <3> QED BY <1>1, <2>1, <2>2, <2>3, <2>4, <2>5, <3>1 DEF Promise!Next, Promise!Rest
  <2>6. CASE s = "completed"
    <3>1. Pre \subseteq done /\ Post \subseteq done
      BY <2>1, <2>6 DEF Inductive, DoneInv
    <3>2. ApprovedGates = HardGates
      BY <2>3, <3>1 DEF NoGateBetween
    <3>3. ApprovedGates' = {}
      BY <1>1, <2>1, <2>6 DEF NoCkpt
    <3> QED BY <1>1, <2>2, <2>6, <3>2, <3>3 DEF Promise!Next, Promise!Complete
  <2> QED BY <2>5, <2>6
<1>3. CASE Crash
  <2>1. ckpt' = ckpt /\ report' = report
    BY <1>3 DEF Crash
  <2>2. HardGates \cap ckpt.done \in {{}, HardGates \cap done}
    BY <1>1 DEF Inductive, DoneInv, InUnit
  <2>3. HardGates \cap done \subseteq ApprovedGates
    BY <1>1 DEF ApprovedGates
  <2>4. ASSUME NEW g \in HardGates \cap done, NEW h \in ApprovedGates, h < g
        PROVE  h \in done
    <3>1. h \in done \/ (h = pos /\ Running /\ ~InUnit /\ step = "settle")
      BY <1>1 DEF ApprovedGates, Inductive, PlaceInv
    <3>2. ASSUME h = pos, Running, ~InUnit, step = "settle" PROVE h \in done
      <4>1. /\ phase \in {"pre", "post"} /\ pos \in Part /\ ~skipDone
            /\ \A s \in Part \cap done : s < pos
        BY <3>2 DEF Inductive, PlaceInv, DoneInv, Running, InUnit
      <4>2. g \in Pre \cup Post /\ g \in 1..N /\ pos \in 1..N
        BY <4>1, PartIs, PartsApart DEF NoGateBetween
      <4>3. ~(g < pos) /\ g \notin Part
        BY <2>4, <3>2, <4>1, <4>2
      <4>4. CASE phase = "pre"
        BY <4>1, <4>2, <4>3, <4>4, <3>2, PartIs DEF Inductive, CurrentInv, Clean
      <4>5. CASE phase = "post"
        BY <4>1, <4>2, <4>3, <4>5, PartIs, PartsApart
      <4> QED BY <4>1, <4>4, <4>5
    <3> QED BY <3>1, <3>2
  <2>5. \A g \in ApprovedGates', h \in ApprovedGates : h < g => h \in ApprovedGates'
    <3>1. TAKE g \in ApprovedGates', h \in ApprovedGates
    <3>2. h \in HardGates
      BY DEF ApprovedGates
    <3>3. ApprovedGates' = HardGates \cap done
      BY <1>1, <2>1, <2>2
    <3> QED BY <2>4, <3>2, <3>3
  <2>6. ApprovedGates' \subseteq ApprovedGates
    BY <1>1, <2>1, <2>2, <2>3
  <2> QED BY <1>1, <2>1, <2>5, <2>6, Withdrawn
<1> QED BY <1>2, <1>3

\* Every run in multi-unit mode keeps the promise: its gates are approved in
\* their order, each by an answer given to it while the run was paused, and
\* only a run with all of them approved is reported completed.
THEOREM UnitsKeepThePromise == ASSUME NoGateBetween PROVE Spec => PromiseKept
<1>1. Init => Promise!Init
  BY PromiseInit
<1>2. Inductive /\ [Next]_vars => [Promise!Next]_(Promise!vars)
  <2>1. ASSUME Inductive, Next PROVE [Promise!Next]_(Promise!vars)
    BY <2>1, PromiseEntry, PromiseRun, PromiseSettle, PromiseMove, PromiseEnd
       DEF Next, Worker
  <2>2. ASSUME UNCHANGED vars PROVE UNCHANGED Promise!vars
    BY <2>2 DEF vars, files, place, memory, Promise!vars, ApprovedGates, UnusedApproval,
                InUnit
  <2> QED BY <2>1, <2>2
<1> QED BY <1>1, <1>2, UnitsAreInvariant, PTL DEF Spec, PromiseKept, Promise!Spec

-----------------------------------------------------------------------------
(* The rounds in which units are ordered.                                  *)

\* One round: the units all of whose dependencies are ordered join.
OneRound(deps, X) == X \cup {u \in Units : deps[u] \subseteq X}

\* A set of numbers with 0 and with every successor has them all.
LEMMA AllNumbers ==
  ASSUME NEW S, S \subseteq Nat, 0 \in S, \A n \in S : n + 1 \in S
  PROVE  S = Nat
<1>1. ASSUME Nat \ S # {} PROVE FALSE
  <2>1. PICK t \in Nat \ S : \A r \in Nat \ S : t <= r
    BY <1>1, Least
  <2>2. t \in Nat /\ t # 0 /\ t - 1 \in Nat /\ ~(t <= t - 1)
    BY <2>1
  <2>3. t - 1 \in S
    BY <2>1, <2>2
  <2>4. t - 1 + 1 = t
    BY <2>2
  <2> QED BY <2>1, <2>3, <2>4
<1> QED BY <1>1

\* The first k rounds, as a function.
IsRounds(deps, g, k) ==
  /\ g \in [0..k -> SUBSET Units] /\ g[0] = {}
  /\ \A i \in 1..k : g[i] = OneRound(deps, g[i - 1])

\* The first rounds exist, however many,
LEMMA RoundsExist ==
  ASSUME NEW deps, NEW k \in Nat
  PROVE  \E g : IsRounds(deps, g, k)
<1> DEFINE S == {m \in Nat : \E g : IsRounds(deps, g, m)}
<1>1. 0 \in S
  <2>1. IsRounds(deps, [i \in 0..0 |-> {}], 0)
    BY DEF IsRounds
  <2> QED BY <2>1
<1>2. ASSUME NEW m \in S PROVE m + 1 \in S
  <2>1. PICK g : IsRounds(deps, g, m)
    BY <1>2
  <2> DEFINE h == [i \in 0..(m + 1) |-> IF i = m + 1 THEN OneRound(deps, g[m]) ELSE g[i]]
  <2>2. m \in Nat /\ g \in [0..m -> SUBSET Units] /\ g[m] \in SUBSET Units
    BY <1>2, <2>1 DEF IsRounds
  <2>3. OneRound(deps, g[m]) \in SUBSET Units
    BY <2>2 DEF OneRound
  <2>4. \A i \in 0..(m + 1) : i = m + 1 \/ (i \in 0..m /\ h[i] = g[i])
    BY <2>2
  <2>5. h \in [0..(m + 1) -> SUBSET Units]
    BY <2>2, <2>3, <2>4
  <2>6. h[0] = {}
    BY <2>1, <2>2, <2>4 DEF IsRounds
  <2>7. ASSUME NEW i \in 1..(m + 1) PROVE h[i] = OneRound(deps, h[i - 1])
    <3>1. i - 1 \in 0..m /\ i - 1 # m + 1 /\ i \in 0..(m + 1) /\ i - 1 \in 0..(m + 1)
      BY <2>2, <2>7
    <3>2. h[i - 1] = g[i - 1]
      BY <3>1
    <3>3. CASE i = m + 1
      <4>1. i - 1 = m
        BY <2>2, <3>3
      <4> QED BY <3>1, <3>2, <3>3, <4>1
    <3>4. CASE i # m + 1
      <4>1. i \in 1..m
        BY <2>2, <3>1, <3>4
      <4>2. h[i] = g[i]
        BY <3>1, <3>4
      <4> QED BY <2>1, <3>2, <4>1, <4>2 DEF IsRounds
    <3> QED BY <3>3, <3>4
  <2>8. IsRounds(deps, h, m + 1)
    <3> HIDE DEF h
    <3> QED BY <2>5, <2>6, <2>7 DEF IsRounds
  <2>9. m + 1 \in Nat
    BY <2>2
  <2> QED BY <2>8, <2>9
<1>3. S = Nat
  <2> HIDE DEF S
  <2>1. S \subseteq Nat
    BY DEF S
  <2> QED BY <1>1, <1>2, <2>1, AllNumbers
<1> QED BY <1>3

\* and there is one way only for each of them to turn out.
LEMMA RoundsUnique ==
  ASSUME NEW deps, NEW k \in Nat, NEW m \in Nat, k <= m, NEW g, NEW h,
         IsRounds(deps, g, k), IsRounds(deps, h, m)
  PROVE  g[k] = h[k]
<1> DEFINE S == {i \in Nat : i <= k => g[i] = h[i]}
<1>1. 0 \in S
  BY DEF IsRounds
<1>2. ASSUME NEW i \in S PROVE i + 1 \in S
  <2>1. i \in Nat /\ i + 1 \in Nat /\ i + 1 - 1 = i /\ (i <= k => g[i] = h[i])
    BY <1>2
  <2>2. ASSUME i + 1 <= k PROVE g[i + 1] = h[i + 1]
    <3>1. i + 1 \in 1..k /\ i + 1 \in 1..m /\ i <= k
      BY <2>1, <2>2
    <3>2. g[i + 1] = OneRound(deps, g[i + 1 - 1]) /\ h[i + 1] = OneRound(deps, h[i + 1 - 1])
      BY <3>1 DEF IsRounds
    <3> QED BY <2>1, <3>1, <3>2
  <2> QED BY <2>1, <2>2
<1>3. S = Nat
  <2> HIDE DEF S
  <2>1. S \subseteq Nat
    BY DEF S
  <2> QED BY <1>1, <1>2, <2>1, AllNumbers
<1> QED BY <1>3

\* The recursion of Ordered has a solution, so Ordered is one.
LEMMA OrderedUnfolds ==
  ASSUME NEW deps
  PROVE  /\ Ordered(deps)[0] = {}
         /\ \A n \in Nat : Ordered(deps)[n + 1] = OneRound(deps, Ordered(deps)[n])
         /\ \A n \in Nat : Ordered(deps)[n] \subseteq Units
<1> DEFINE G(n) == CHOOSE g : IsRounds(deps, g, n)
           f == [n \in Nat |-> G(n)[n]]
           e(after, n) == IF n = 0 THEN {}
                          ELSE after[n - 1] \cup {u \in Units : deps[u] \subseteq after[n - 1]}
<1>1. \A n \in Nat : IsRounds(deps, G(n), n)
  BY RoundsExist
<1>2. ASSUME NEW n \in Nat PROVE f[n] = e(f, n) /\ f[n] \subseteq Units
  <2>1. IsRounds(deps, G(n), n) /\ f[n] = G(n)[n]
    BY <1>1
  <2> HIDE DEF G
  <2>2. CASE n = 0
    BY <2>1, <2>2 DEF IsRounds
  <2>3. CASE n # 0
    <3>1. n - 1 \in Nat /\ n \in 1..n /\ n - 1 <= n /\ n \in 0..n
      BY <2>3
    <3>2. G(n)[n] = OneRound(deps, G(n)[n - 1])
      BY <2>1, <3>1 DEF IsRounds
    <3>3. G(n - 1)[n - 1] = G(n)[n - 1]
      BY <1>1, <2>1, <3>1, RoundsUnique
    <3>4. f[n] = OneRound(deps, f[n - 1])
      BY <2>1, <3>1, <3>2, <3>3
    <3>5. f[n] \subseteq Units
      BY <2>1, <3>1 DEF IsRounds
    <3> HIDE DEF f
    <3> QED BY <2>3, <3>4, <3>5 DEF OneRound
  <2> QED BY <2>2, <2>3
<1>3. f = [n \in Nat |-> e(f, n)]
  <2> HIDE DEF e, G
  <2> QED BY <1>2
<1>4. Ordered(deps) = CHOOSE after : after = [n \in Nat |-> e(after, n)]
  BY DEF Ordered
<1>5. Ordered(deps) = [n \in Nat |-> e(Ordered(deps), n)]
  <2> HIDE DEF e, f
  <2> QED BY <1>3, <1>4
<1>6. Ordered(deps)[0] = {} /\ f[0] = {}
  <2> HIDE DEF f
  <2>1. Ordered(deps)[0] = e(Ordered(deps), 0) /\ f[0] = e(f, 0)
    <3> HIDE DEF e
    <3>1. 0 \in Nat
      OBVIOUS
    <3> QED BY <1>2, <1>5, <3>1
  <2> QED BY <2>1
<1>7. ASSUME NEW n \in Nat
      PROVE  /\ Ordered(deps)[n + 1] = OneRound(deps, Ordered(deps)[n])
             /\ f[n + 1] = OneRound(deps, f[n])
  <2> HIDE DEF f
  <2>1. n + 1 \in Nat /\ n + 1 - 1 = n /\ n + 1 # 0
    OBVIOUS
  <2>2. Ordered(deps)[n + 1] = e(Ordered(deps), n + 1) /\ f[n + 1] = e(f, n + 1)
    <3> HIDE DEF e
    <3> QED BY <1>2, <1>5, <2>1
  <2> QED BY <2>1, <2>2 DEF OneRound
<1>8. \A n \in Nat : Ordered(deps)[n] = f[n]
  <2> HIDE DEF f, e
  <2> DEFINE S == {n \in Nat : Ordered(deps)[n] = f[n]}
  <2>1. 0 \in S
    BY <1>6
  <2>2. ASSUME NEW n \in S PROVE n + 1 \in S
    BY <1>7, <2>2
  <2>3. S = Nat
    <3> HIDE DEF S
    <3>1. S \subseteq Nat
      BY DEF S
    <3> QED BY <2>1, <2>2, <3>1, AllNumbers
  <2> QED BY <2>3
<1> QED
  <2> HIDE DEF f
  <2>1. \A n \in Nat : Ordered(deps)[n] \subseteq Units
    BY <1>2, <1>8
  <2> QED BY <1>6, <1>7, <2>1

\* Units that are ordered stay ordered.
LEMMA RoundsGrow ==
  ASSUME NEW deps, NEW m \in Nat, NEW n \in Nat, m <= n
  PROVE  Ordered(deps)[m] \subseteq Ordered(deps)[n]
<1> DEFINE S == {k \in Nat : Ordered(deps)[m] \subseteq Ordered(deps)[m + k]}
<1>1. 0 \in S
  <2>1. m + 0 = m
    OBVIOUS
  <2> QED BY <2>1
<1>2. ASSUME NEW k \in S PROVE k + 1 \in S
  <2>1. k \in Nat /\ m + k \in Nat /\ m + (k + 1) = (m + k) + 1 /\ k + 1 \in Nat
    BY <1>2
  <2>2. Ordered(deps)[(m + k) + 1] = OneRound(deps, Ordered(deps)[m + k])
    BY <2>1, OrderedUnfolds
  <2>3. Ordered(deps)[m + k] \subseteq Ordered(deps)[m + (k + 1)]
    BY <2>1, <2>2 DEF OneRound
  <2> QED BY <1>2, <2>1, <2>3
<1>3. S = Nat
  <2> HIDE DEF S
  <2>1. S \subseteq Nat
    BY DEF S
  <2> QED BY <1>1, <1>2, <2>1, AllNumbers
<1>4. n - m \in Nat /\ m + (n - m) = n
  OBVIOUS
<1>5. n - m \in S
  BY <1>3, <1>4
<1> QED BY <1>4, <1>5

\* The round in which a unit is ordered.
RoundOf(deps, u) ==
  CHOOSE n \in 1..Cardinality(Units) :
    u \in Ordered(deps)[n] /\ u \notin Ordered(deps)[n - 1]

\* Without a cycle every unit has one.
LEMMA RoundFound ==
  ASSUME NEW deps, ~Cyclic(deps), NEW u \in Units
  PROVE  /\ RoundOf(deps, u) \in Nat \ {0}
         /\ u \in Ordered(deps)[RoundOf(deps, u)]
         /\ u \notin Ordered(deps)[RoundOf(deps, u) - 1]
<1> DEFINE S == {n \in Nat : u \in Ordered(deps)[n]}
           C == Cardinality(Units)
<1>1. C \in Nat
  BY MultiUnitAssumption, FS_CardinalityType
<1>2. C \in S
  BY <1>1 DEF Cyclic
<1>3. PICK n \in S : \A k \in S : n <= k
  <2> HIDE DEF S
  <2>1. S \subseteq Nat
    BY DEF S
  <2> QED BY <1>2, <2>1, Least
<1>4. n \in Nat /\ u \in Ordered(deps)[n] /\ n <= C /\ n # 0
  BY <1>2, <1>3, OrderedUnfolds
<1>5. n \in 1..C /\ n - 1 \in Nat /\ ~(n <= n - 1)
  BY <1>1, <1>4
<1>6. n - 1 \notin S
  BY <1>3, <1>5
<1>7. u \notin Ordered(deps)[n - 1]
  BY <1>5, <1>6
<1>8. \E k \in 1..C : u \in Ordered(deps)[k] /\ u \notin Ordered(deps)[k - 1]
  BY <1>4, <1>5, <1>7
<1>9. /\ RoundOf(deps, u) \in 1..C
      /\ u \in Ordered(deps)[RoundOf(deps, u)]
      /\ u \notin Ordered(deps)[RoundOf(deps, u) - 1]
  <2> HIDE DEF S
  <2> QED BY <1>8 DEF RoundOf
<1> QED BY <1>1, <1>9

\* What a unit depends on is ordered in an earlier round.
LEMMA DependenciesEarlier ==
  ASSUME NEW deps \in [Units -> SUBSET Units], ~Cyclic(deps),
         NEW u \in Units, NEW d \in deps[u]
  PROVE  RoundOf(deps, d) < RoundOf(deps, u)
<1> DEFINE r == RoundOf(deps, u)
           q == RoundOf(deps, d)
<1>1. d \in Units
  OBVIOUS
<1>2. /\ r \in Nat /\ r - 1 \in Nat /\ r - 1 + 1 = r
      /\ u \in Ordered(deps)[r] /\ u \notin Ordered(deps)[r - 1]
  BY RoundFound
<1>3. /\ q \in Nat /\ q - 1 \in Nat /\ d \notin Ordered(deps)[q - 1]
  BY <1>1, RoundFound
<1> HIDE DEF r, q
<1>4. Ordered(deps)[r] = OneRound(deps, Ordered(deps)[r - 1])
  BY <1>2, OrderedUnfolds
<1>5. d \in Ordered(deps)[r - 1]
  BY <1>2, <1>4 DEF OneRound
<1>6. ASSUME ~(q < r) PROVE FALSE
  <2>1. r - 1 <= q - 1
    BY <1>2, <1>3, <1>6
  <2> QED BY <1>2, <1>3, <1>5, <2>1, RoundsGrow
<1> QED BY <1>6 DEF r, q

\* Precedes, of a split that is given.
Before(sp, u, v) ==
  \/ RoundOf(sp.deps, u) < RoundOf(sp.deps, v)
  \/ /\ RoundOf(sp.deps, u) = RoundOf(sp.deps, v)
     /\ \/ sp.priority[u] < sp.priority[v]
        \/ sp.priority[u] = sp.priority[v] /\ u < v

\* It is Precedes, for the split of the run.
LEMMA PrecedesIsBefore ==
  ASSUME NEW u, NEW v
  PROVE  Precedes(u, v) <=> Before(split, u, v)
BY DEF Precedes, Before, RoundOf

\* Without a cycle the units are in a line, each after all it depends on.
LEMMA UnitsInLine ==
  ASSUME NEW sp \in [deps : [Units -> SUBSET Units], priority : [Units -> Int]],
         ~Cyclic(sp.deps)
  PROVE  /\ \A u, v \in Units : u = v \/ Before(sp, u, v) \/ Before(sp, v, u)
         /\ \A u, v \in Units : ~(Before(sp, u, v) /\ Before(sp, v, u))
         /\ \A u \in Units : \A d \in sp.deps[u] : d \in Units /\ Before(sp, d, u)
<1>1. sp.deps \in [Units -> SUBSET Units] /\ sp.priority \in [Units -> Int]
  OBVIOUS
<1>2. \A u \in Units : RoundOf(sp.deps, u) \in Nat
  BY RoundFound
<1>3. \A u \in Units : u \in Nat /\ sp.priority[u] \in Int
  BY <1>1, MultiUnitAssumption
<1>4. \A u \in Units : \A d \in sp.deps[u] : d \in Units /\ Before(sp, d, u)
  BY <1>1, DependenciesEarlier DEF Before
<1>5. ASSUME NEW u \in Units, NEW v \in Units
      PROVE  /\ u = v \/ Before(sp, u, v) \/ Before(sp, v, u)
             /\ ~(Before(sp, u, v) /\ Before(sp, v, u))
  <2>1. /\ RoundOf(sp.deps, u) \in Nat /\ RoundOf(sp.deps, v) \in Nat
        /\ u \in Nat /\ v \in Nat /\ sp.priority[u] \in Int /\ sp.priority[v] \in Int
    BY <1>2, <1>3
  <2> QED BY <2>1 DEF Before
<1> QED BY <1>4, <1>5

-----------------------------------------------------------------------------
(* The order of the units, and what their lists mean.                      *)

Finished(prog, u) == prog[u].status = "completed"

\* The loop over the units goes along the line; it leaves completed units
\* behind, and the stages after the units begin when all are.
OrderInv ==
  /\ phase \in {"units", "unit", "loopback", "post"} => ~Cyclic(split.deps)
  /\ phase \in {"units", "unit"} => \A u \in visited : Finished(progress, u)
  /\ InUnit => /\ unit \notin visited /\ ~Finished(progress, unit)
               /\ \A v \in Units \ visited : v = unit \/ Before(split, unit, v)
  /\ phase \in {"loopback", "post"} => \A u \in Units : Finished(progress, u)
  /\ phase = "post" => \A u \in Units : summary[u] = "completed"

\* A completed unit has been through its stages, a list of completed stages has
\* no gaps, and no unit is begun before all that precede it are completed.
Orderly(sp, prog) ==
  \A u \in Units :
    /\ Finished(prog, u) => prog[u].done = UnitStages
    /\ \A t \in prog[u].done, s \in UnitStages : s < t => s \in prog[u].done
    /\ prog[u].done # {} => \A v \in Units : Before(sp, v, u) => Finished(prog, v)

\* Units that are to be redone do not count as completed; between the
\* rejection and the reset, and in what a crash there leaves behind, all do.
Honest(prog, sentBack, between) ==
  \/ \A u \in sentBack : ~Finished(prog, u)
  \/ between /\ \A u \in Units : Finished(prog, u)

Between == displaced \/ phase = "loopback"

ListInv ==
  /\ Orderly(split, progress) /\ Orderly(split, ckpt.progress)
  /\ InUnit =>
       /\ \A s \in UnitStages : s < pos => s \in progress[unit].done
       /\ ~skipDone => \A s \in progress[unit].done : s < pos
  /\ ~resume /\ phase \in {"pre", "units", "unit"} =>
       \A u \in Units \ visited : (InUnit /\ u = unit) \/ progress[u].done = {}
  /\ phase = "pre" => visited = {}

HonestInv ==
  Honest(progress, owed, Between) /\ Honest(ckpt.progress, owed, Between)

\* Progress of units rests on a plan that is complete, and on work that is
\* current.
Stand(D, prog, wk) ==
  /\ prog # Fresh => Pre \subseteq D
  /\ \A u \in Units : prog[u].done \subseteq wk[u]

\* Until a crash inside a unit, or between a rejection and the reset, progress
\* stands, and so does what the checkpoint knows of it, except inside a unit.
StandInv ==
  ~displaced =>
    /\ Stand(done, progress, work)
    /\ ~InUnit => Stand(ckpt.done, ckpt.progress, work)
    /\ InUnit /\ step = "settle" /\ outcome = "pass" => pos \in work[unit]

UnitsInductive == Inductive /\ OrderInv /\ ListInv /\ HonestInv /\ StandInv

-----------------------------------------------------------------------------
(* Lists of units.                                                         *)

\* Noting that a unit is worked on, or failed, changes nothing of its list.
LEMMA StatusNoted ==
  ASSUME NEW sp, NEW prog \in Progress, NEW u \in Units,
         NEW s \in {"in_progress", "failed"}, ~Finished(prog, u)
  PROVE  /\ \A v \in Units : /\ [prog EXCEPT ![u].status = s][v].done = prog[v].done
                             /\ Finished([prog EXCEPT ![u].status = s], v)
                                  <=> Finished(prog, v)
         /\ Orderly(sp, prog) => Orderly(sp, [prog EXCEPT ![u].status = s])
<1> DEFINE new == [prog EXCEPT ![u].status = s]
<1>1. DOMAIN prog = Units /\ prog[u] \in [status : ProgressStatuses, done : SUBSET UnitStages]
  BY DEF Progress
<1>2. \A v \in Units : v # u => new[v] = prog[v]
  BY <1>1
<1>3. new[u].done = prog[u].done /\ new[u].status = s
  BY <1>1
<1>4. \A v \in Units : new[v].done = prog[v].done /\ (Finished(new, v) <=> Finished(prog, v))
  BY <1>2, <1>3 DEF Finished
<1> HIDE DEF new
<1>5. Orderly(sp, prog) => Orderly(sp, new)
  BY <1>4 DEF Orderly
<1> QED BY <1>4, <1>5 DEF new

\* Nor does noting its list change what it has come to.
LEMMA ListNoted ==
  ASSUME NEW prog \in Progress, NEW u \in Units, NEW counted
  PROVE  \A v \in Units :
           Finished([prog EXCEPT ![u].done = counted], v) <=> Finished(prog, v)
<1> DEFINE new == [prog EXCEPT ![u].done = counted]
<1>1. prog[u] \in [status : ProgressStatuses, done : SUBSET UnitStages]
  BY DEF Progress
<1>2. new[u].status = prog[u].status
  BY <1>1 DEF Progress
<1>3. \A v \in Units : v # u => new[v] = prog[v]
  BY DEF Progress
<1> QED BY <1>2, <1>3 DEF Finished

\* Nobody has done anything.
LEMMA FreshIsOrderly ==
  /\ \A sp : Orderly(sp, Fresh)
  /\ \A b : \A od \in SUBSET Units : Honest(Fresh, od, b)
  /\ \A D, wk : Stand(D, Fresh, wk)
  /\ \A u \in Units : Fresh[u].done = {} /\ ~Finished(Fresh, u)
<1>1. \A u \in Units : Fresh[u].done = {} /\ Fresh[u].status = "pending"
  BY DEF Fresh
<1>2. \A u \in Units : ~Finished(Fresh, u)
  BY <1>1 DEF Finished
<1> HIDE DEF Fresh
<1>3. UnitStages # {}
  BY UnitStagesAssumption
<1> QED BY <1>1, <1>2, <1>3 DEF Orderly, Honest, Stand

\* A unit is worked on after all that precede it.
LEMMA PredecessorsFinished ==
  ASSUME TypeOK, PlaceInv, OrderInv, InUnit
  PROVE  /\ \A v \in Units : Before(split, v, unit) => Finished(progress, v)
         /\ unit \in Units /\ ~Finished(progress, unit)
         /\ \A v \in Units : v = unit \/ Before(split, v, unit) \/ Before(split, unit, v)
<1>1. /\ unit \in Units /\ ~Cyclic(split.deps)
      /\ \A v \in Units \ visited : v = unit \/ Before(split, unit, v)
      /\ \A v \in visited : Finished(progress, v)
      /\ ~Finished(progress, unit)
  BY DEF PlaceInv, OrderInv, InUnit
<1>2. split \in [deps : [Units -> SUBSET Units], priority : [Units -> Int]]
  BY DEF TypeOK
<1>3. /\ \A u, v \in Units : u = v \/ Before(split, u, v) \/ Before(split, v, u)
      /\ \A u, v \in Units : ~(Before(split, u, v) /\ Before(split, v, u))
  BY <1>1, <1>2, UnitsInLine
<1>4. ASSUME NEW v \in Units, Before(split, v, unit) PROVE v \in visited
  BY <1>1, <1>3, <1>4
<1> QED BY <1>1, <1>3, <1>4

\* A stage of a unit is only run when no later one counts as completed.
LEMMA UnitRunsInOrder ==
  ASSUME Inductive, ListInv, InUnit, pos \in Part, ~(skipDone /\ pos \in Counted)
  PROVE  \A s \in progress[unit].done : s < pos
<1>1. pos \in UnitStages /\ unit \in Units /\ Counted = progress[unit].done
      /\ progress[unit].done \subseteq UnitStages
  BY PartIs DEF InUnit, Inductive, PlaceInv, Counted, TypeOK, Progress
<1>2. CASE ~skipDone
  BY <1>2 DEF ListInv
<1>3. CASE skipDone /\ pos \notin progress[unit].done
  <2>1. \A s \in progress[unit].done : s \in 1..N /\ ~(pos < s) /\ s # pos
    BY <1>1, <1>3, PartsApart DEF ListInv, Orderly
  <2>2. pos \in 1..N
    BY <1>1, PartsApart
  <2> QED BY <2>1, <2>2
<1> QED BY <1>1, <1>2, <1>3

-----------------------------------------------------------------------------
(* The loop over the units.                                                *)

\* Elsewhere there is nothing to say of it.
LEMMA OutOfUnits ==
  ASSUME phase' \in {"off", "pre", "raise", "waiting", "deliver"} PROVE OrderInv'
BY DEF OrderInv, InUnit

\* A step that moves neither the loop nor the status of a unit.
LEMMA LoopStands ==
  ASSUME OrderInv, phase' = phase, unit' = unit, visited' = visited, split' = split,
         summary' = summary,
         \A u \in Units : Finished(progress', u) <=> Finished(progress, u),
         visited \subseteq Units, InUnit => unit \in Units
  PROVE  OrderInv'
<1>1. phase' \in {"units", "unit", "loopback", "post"} => ~Cyclic(split'.deps)
  BY DEF OrderInv
<1>2. phase' \in {"units", "unit"} => \A u \in visited' : Finished(progress', u)
  BY DEF OrderInv
<1>3. phase' = "unit" =>
        /\ unit' \notin visited' /\ ~Finished(progress', unit')
        /\ \A v \in Units \ visited' : v = unit' \/ Before(split', unit', v)
  BY DEF OrderInv, InUnit
<1>4. phase' \in {"loopback", "post"} => \A u \in Units : Finished(progress', u)
  BY DEF OrderInv
<1>5. phase' = "post" => \A u \in Units : summary'[u] = "completed"
  BY DEF OrderInv
<1> QED BY <1>1, <1>2, <1>3, <1>4, <1>5 DEF OrderInv, InUnit

\* Noting a list leaves the status of the units as it is.
LEMMA CountStatus ==
  ASSUME Inductive, NEW counted, CountAndSave(counted)
  PROVE  \A u \in Units : Finished(progress', u) <=> Finished(progress, u)
<1>1. CASE InUnit
  <2>1. progress \in Progress /\ unit \in Units
        /\ progress' = [progress EXCEPT ![unit].done = counted]
    BY <1>1 DEF CountAndSave, Inductive, TypeOK, PlaceInv
  <2> QED BY <2>1, ListNoted
<1>2. CASE ~InUnit
  BY <1>2 DEF CountAndSave
<1> QED BY <1>1, <1>2

\* No step disturbs the order of the units.
LEMMA OrderKept == ASSUME Inductive, OrderInv, Next PROVE OrderInv'
<1> USE DEF Inductive
<1>1. visited \subseteq Units /\ (InUnit => unit \in Units) /\ progress \in Progress
  BY DEF TypeOK, PlaceInv
<1>2. CASE Start \/ Resume \/ Decide
  BY <1>2, OutOfUnits DEF Start, Resume, Decide, Relaunch, Launch, Enter
<1>3. CASE SplitFails
  BY <1>1, <1>3, LoopStands DEF SplitFails, files, place, memory
<1>4. CASE PassOver
  BY <1>1, <1>4, LoopStands DEF PassOver, files, memory
<1>5. CASE RunStage \/ AwaitDecision \/ RefuseDecision \/ TakeDecision
  BY <1>1, <1>5, LoopStands
     DEF RunStage, AwaitDecision, RefuseDecision, TakeDecision, Run, files
<1>6. CASE Stopped \/ StageFailed \/ GiveUp \/ RejectedNowhere
  BY <1>6, OutOfUnits DEF Stopped, StageFailed, GiveUp, RejectedNowhere, Raise
<1>7. CASE Pause
  BY <1>7, OutOfUnits DEF Pause
<1>8. CASE StageCompleted \/ ChangesRequested \/ RejectedWithin
  <2>1. PICK counted, target : CountAndSave(counted) /\ GoTo(target)
    BY <1>8 DEF StageCompleted, ChangesRequested, RejectedWithin, BackTo
  <2> QED BY <1>1, <2>1, CountStatus, LoopStands DEF GoTo, files
<1>9. CASE RejectedToUnits
  BY <1>9 DEF RejectedToUnits, OrderInv, InUnit, files, memory
<1>10. CASE EnterUnits
  BY <1>10 DEF EnterUnits, OrderInv, InUnit, files, memory
<1>11. ASSUME NEW u \in Units, PassUnit(u) PROVE OrderInv'
  BY <1>11 DEF PassUnit, OrderInv, InUnit, files, memory, Completed, Finished
<1>12. ASSUME NEW u \in Units, BeginUnit(u) PROVE OrderInv'
  <2>1. /\ phase = "units" /\ phase' = "unit" /\ unit' = u /\ visited' = visited
        /\ split' = split /\ u \in Units \ visited /\ ~Finished(progress, u)
        /\ progress' = [progress EXCEPT ![u].status = "in_progress"]
        /\ \A v \in Units \ visited : v = u \/ Before(split, u, v)
    BY <1>12, PrecedesIsBefore
       DEF BeginUnit, NextUnit, Enter, files, Completed, Finished
  <2>2. \A v \in Units : Finished(progress', v) <=> Finished(progress, v)
    BY <1>1, <2>1, StatusNoted
  <2> QED BY <1>1, <2>1, <2>2 DEF OrderInv, InUnit
<1>13. CASE EndUnit
  <2>1. /\ phase = "unit" /\ phase' = "units" /\ visited' = visited \cup {unit}
        /\ split' = split /\ unit \in Units
        /\ progress' = [progress EXCEPT ![unit].status = "completed"]
    BY <1>1, <1>13 DEF EndUnit, AtEnd, InUnit, files
  <2>2. \A v \in Units : Finished(progress, v) \/ v = unit => Finished(progress', v)
    BY <1>1, <2>1 DEF Finished, Progress
  <2> QED BY <1>1, <2>1, <2>2 DEF OrderInv, InUnit
<1>14. CASE EndUnits
  <2>1. /\ phase = "units" /\ visited = Units /\ phase' \in {"deliver", "post"}
        /\ split' = split /\ progress' = progress
        /\ summary' = [u \in Units |-> progress[u].status]
    BY <1>14 DEF EndUnits, Enter, Summarized
  <2> QED BY <2>1, OutOfUnits DEF OrderInv, InUnit, Finished
<1>15. CASE ResetUnits
  BY <1>15 DEF ResetUnits, OrderInv, InUnit, files
<1>16. CASE EndPost
  BY <1>16, OutOfUnits DEF EndPost
<1>17. CASE ReturnPaused \/ ReturnFailed \/ Deliver
  BY <1>17, OutOfUnits DEF ReturnPaused, ReturnFailed, Deliver, Exit
<1>18. CASE Crash
  BY <1>18, OutOfUnits DEF Crash
<1> QED BY <1>2, <1>3, <1>4, <1>5, <1>6, <1>7, <1>8, <1>9, <1>10, <1>11, <1>12, <1>13,
           <1>14, <1>15, <1>16, <1>17, <1>18
        DEF Next, Worker

-----------------------------------------------------------------------------
(* Units that are owed.                                                    *)

\* A step that changes no status, sends nothing back and does not end the
\* time between a rejection and the reset.
LEMMA DebtStands ==
  ASSUME HonestInv, owed \subseteq Units, owed' = owed, Between => Between',
         \/ progress' = progress
         \/ progress' = ckpt.progress
         \/ \A u \in Units : Finished(progress', u) <=> Finished(progress, u),
         \/ ckpt' = ckpt
         \/ ckpt'.progress \in {progress, progress', Fresh}
  PROVE  HonestInv'
<1>1. Honest(progress', owed', Between')
  BY DEF HonestInv, Honest
<1>2. Honest(Fresh, owed', Between')
  BY FreshIsOrderly
<1>3. Honest(progress, owed', Between')
  BY DEF HonestInv, Honest
<1>4. Honest(ckpt'.progress, owed', Between')
  <2>1. CASE ckpt' = ckpt
    BY <2>1 DEF HonestInv, Honest
  <2> QED BY <1>1, <1>2, <1>3, <2>1
<1> QED BY <1>1, <1>4 DEF HonestInv

\* No step lets a unit that was sent back count as completed, except between
\* the rejection and the reset.
LEMMA HonestKept == ASSUME Inductive, OrderInv, HonestInv, Next PROVE HonestInv'
<1> USE DEF Inductive
<1>1. owed \subseteq Units /\ (InUnit => unit \in Units) /\ progress \in Progress
  BY DEF TypeOK, PlaceInv
<1>2. CASE Start \/ Resume \/ Decide
  <2>1. /\ progress' = ckpt.progress /\ ckpt' = ckpt /\ owed' = owed
        /\ displaced' = displaced /\ phase = "off"
    BY <1>2 DEF Start, Resume, Decide, Relaunch, Launch, history, PlaceInv
  <2> QED BY <1>1, <2>1, DebtStands DEF Between
<1>3. CASE SplitFails
  BY <1>1, <1>3, DebtStands DEF SplitFails, place, memory, history, Between
<1>4. CASE PassOver
  BY <1>1, <1>4, DebtStands DEF PassOver, memory, history, Between
<1>5. CASE RunStage \/ AwaitDecision \/ RefuseDecision \/ TakeDecision
  <2>1. PICK o, ds : Run(o, ds)
    BY <1>5 DEF RunStage, AwaitDecision, RefuseDecision, TakeDecision
  <2>2. /\ progress' = progress /\ owed' = owed /\ displaced' = displaced
        /\ phase' = phase /\ (ckpt' = ckpt \/ ckpt'.progress = progress)
    BY <2>1 DEF Run, Saved
  <2> QED BY <1>1, <2>2, DebtStands DEF Between
<1>6. CASE Stopped \/ StageFailed \/ GiveUp \/ RejectedNowhere
  <2>1. Running /\ Raise
    BY <1>6 DEF Stopped, StageFailed, GiveUp, RejectedNowhere, Settling
  <2>2. owed' = owed /\ displaced' = displaced /\ (Between => Between')
    BY <2>1 DEF Raise, history, Between, Running
  <2>3. CASE InUnit
    <3>1. /\ progress' = [progress EXCEPT ![unit].status = "failed"]
          /\ ckpt'.progress = progress'
      BY <2>1, <2>3 DEF Raise, Saved
    <3>2. unit \in Units /\ ~Finished(progress, unit)
      BY <1>1, <2>3 DEF OrderInv
    <3>3. \A u \in Units : Finished(progress', u) <=> Finished(progress, u)
      <4>1. "failed" \in {"in_progress", "failed"} /\ progress \in Progress
        BY <1>1
      <4>2. \A u \in Units : Finished([progress EXCEPT ![unit].status = "failed"], u)
                              <=> Finished(progress, u)
        BY <3>2, <4>1, StatusNoted
      <4> QED BY <3>1, <4>2
    <3> QED BY <1>1, <2>2, <3>1, <3>3, DebtStands
  <2>4. CASE ~InUnit
    BY <1>1, <2>1, <2>2, <2>4, DebtStands DEF Raise
  <2> QED BY <2>3, <2>4
<1>7. CASE Pause \/ StageCompleted \/ ChangesRequested \/ RejectedWithin
  <2>1. PICK counted : CountAndSave(counted)
    BY <1>7 DEF Pause, StageCompleted, ChangesRequested, RejectedWithin, BackTo
  <2>2. owed' = owed /\ displaced' = displaced /\ Running /\ (Between => Between')
    BY <1>7 DEF Pause, StageCompleted, ChangesRequested, RejectedWithin, BackTo, GoTo,
                Settling, Running, Between, history
  <2>3. ckpt'.progress \in {progress, progress'}
    BY <2>1 DEF CountAndSave, Saved
  <2> QED BY <1>1, <2>1, <2>2, <2>3, CountStatus, DebtStands
<1>8. CASE RejectedToUnits
  <2>1. /\ phase = "post" /\ progress' = progress /\ ckpt'.progress = progress
        /\ phase' = "loopback" /\ Between'
    BY <1>8 DEF RejectedToUnits, memory, Saved, Between
  <2> QED BY <2>1 DEF OrderInv, HonestInv, Honest
<1>9. CASE EnterUnits \/ EndPost
  BY <1>1, <1>9, DebtStands DEF EnterUnits, EndPost, AtEnd, memory, history, Between
<1>10. ASSUME NEW u \in Units, PassUnit(u) PROVE HonestInv'
  BY <1>1, <1>10, DebtStands DEF PassUnit, memory, history, Between
<1>11. ASSUME NEW u \in Units, BeginUnit(u) PROVE HonestInv'
  <2>1. /\ progress' = [progress EXCEPT ![u].status = "in_progress"]
        /\ ckpt'.progress = progress' /\ ~Finished(progress, u)
        /\ owed' = owed /\ displaced' = displaced /\ phase = "units"
    BY <1>11 DEF BeginUnit, Saved, Completed, Finished, history
  <2>2. \A v \in Units : Finished(progress', v) <=> Finished(progress, v)
    <3>1. "in_progress" \in {"in_progress", "failed"} /\ progress \in Progress
      BY <1>1
    <3>2. \A v \in Units : Finished([progress EXCEPT ![u].status = "in_progress"], v)
                            <=> Finished(progress, v)
      BY <2>1, <3>1, StatusNoted
    <3> QED BY <2>1, <3>2
  <2> QED BY <1>1, <2>1, <2>2, DebtStands DEF Between
<1>12. CASE EndUnit
  <2>1. /\ phase = "unit" /\ unit \in Units /\ owed' = owed \ {unit}
        /\ progress' = [progress EXCEPT ![unit].status = "completed"]
        /\ ckpt'.progress = progress'
    BY <1>1, <1>12 DEF EndUnit, AtEnd, InUnit, Saved
  <2>2. ~Finished(progress, unit)
    BY <2>1 DEF OrderInv, InUnit
  <2>3. \A u \in owed : ~Finished(progress, u)
    BY <2>1, <2>2 DEF HonestInv, Honest
  <2>4. \A u \in Units : u # unit => progress'[u] = progress[u]
    BY <1>1, <2>1 DEF Progress
  <2>5. \A u \in owed' : ~Finished(progress', u)
    BY <1>1, <2>1, <2>3, <2>4 DEF Finished
  <2> QED BY <2>1, <2>5 DEF HonestInv, Honest
<1>13. CASE EndUnits
  <2>1. /\ progress' = progress /\ ckpt' = ckpt /\ owed' = owed
        /\ displaced' = displaced /\ phase = "units"
    BY <1>13 DEF EndUnits, history
  <2> QED BY <1>1, <2>1, DebtStands DEF Between
<1>14. CASE ResetUnits
  <2>1. progress' = Fresh /\ ckpt'.progress = Fresh /\ owed' = owed
    BY <1>14 DEF ResetUnits, Saved, history
  <2> QED BY <1>1, <2>1, FreshIsOrderly DEF HonestInv
<1>15. CASE ReturnPaused \/ ReturnFailed \/ Deliver
  <2>1. /\ progress' = progress /\ ckpt' \in {ckpt, NoCkpt} /\ owed' = owed
        /\ displaced' = displaced /\ phase # "loopback"
    BY <1>15 DEF ReturnPaused, ReturnFailed, Deliver, Exit, memory, history
  <2>2. NoCkpt.progress = Fresh
    BY DEF NoCkpt
  <2> QED BY <1>1, <2>1, <2>2, DebtStands DEF Between
<1>16. CASE Crash
  <2>1. /\ progress' = progress /\ ckpt' = ckpt /\ owed' = owed
        /\ displaced' = (displaced \/ phase \in {"unit", "loopback"})
    BY <1>16 DEF Crash, memory
  <2> QED BY <1>1, <2>1, DebtStands DEF Between
<1> QED BY <1>2, <1>3, <1>4, <1>5, <1>6, <1>7, <1>8, <1>9, <1>10, <1>11, <1>12, <1>13,
           <1>14, <1>15, <1>16
        DEF Next, Worker

-----------------------------------------------------------------------------
(* The lists of the units.                                                 *)

\* The clauses of ListInv but those about whole lists of units.
WorkerInv ==
  /\ InUnit =>
       /\ \A s \in UnitStages : s < pos => s \in progress[unit].done
       /\ ~skipDone => \A s \in progress[unit].done : s < pos
  /\ ~resume /\ phase \in {"pre", "units", "unit"} =>
       \A u \in Units \ visited : (InUnit /\ u = unit) \/ progress[u].done = {}
  /\ phase = "pre" => visited = {}

\* Nothing that counts for the lists changes.
LEMMA ListsStand ==
  ASSUME Orderly(split, progress), Orderly(split, ckpt.progress), split' = split,
         progress' \in {progress, ckpt.progress} \/ Orderly(split, progress'),
         ckpt' = ckpt \/ ckpt'.progress \in {progress, progress', Fresh}
  PROVE  Orderly(split', progress') /\ Orderly(split', ckpt'.progress)
BY FreshIsOrderly

\* The list of the unit being worked on may become any that has no gaps.
LEMMA UnitCounted ==
  ASSUME Inductive, OrderInv, Orderly(split, progress), InUnit,
         NEW counted \in SUBSET UnitStages,
         \A t \in counted, s \in UnitStages : s < t => s \in counted,
         progress' = [progress EXCEPT ![unit].done = counted]
  PROVE  /\ Orderly(split, progress') /\ progress'[unit].done = counted
         /\ \A u \in Units : u # unit => progress'[u] = progress[u]
<1>1. unit \in Units /\ progress \in Progress
  BY DEF Inductive, TypeOK, PlaceInv, InUnit
<1>2. /\ \A v \in Units : Finished(progress', v) <=> Finished(progress, v)
      /\ \A v \in Units : v # unit => progress'[v] = progress[v]
      /\ progress'[unit].done = counted
  <2>1. \A v \in Units : v # unit => progress'[v] = progress[v]
    BY <1>1 DEF Progress
  <2>2. progress'[unit] = [progress[unit] EXCEPT !.done = counted]
    BY <1>1 DEF Progress
  <2>3. progress[unit] \in [status : ProgressStatuses, done : SUBSET UnitStages]
    BY <1>1 DEF Progress
  <2>4. progress'[unit].done = counted /\ progress'[unit].status = progress[unit].status
    BY <2>2, <2>3
  <2> QED BY <2>1, <2>4 DEF Finished
<1>3. /\ \A v \in Units : Before(split, v, unit) => Finished(progress, v)
      /\ ~Finished(progress, unit)
  BY PredecessorsFinished DEF Inductive
<1>4. ASSUME NEW u \in Units
      PROVE  /\ Finished(progress', u) => progress'[u].done = UnitStages
             /\ \A t \in progress'[u].done, s \in UnitStages : s < t => s \in progress'[u].done
             /\ progress'[u].done # {} =>
                  \A v \in Units : Before(split, v, u) => Finished(progress', v)
  <2>1. CASE u = unit
    BY <1>2, <1>3, <2>1
  <2>2. CASE u # unit
    BY <1>2, <2>2 DEF Orderly
  <2> QED BY <2>1, <2>2
<1> QED BY <1>2, <1>4 DEF Orderly

\* A stage that was run counts, or a loopback takes its target and all that
\* follows off the list.
LEMMA ListsCounted ==
  ASSUME Inductive, OrderInv, ListInv, StageCompleted \/ ChangesRequested \/ RejectedWithin
  PROVE  ListInv'
<1> USE DEF Inductive
<1>1. /\ Running /\ step = "settle" /\ phase' = phase /\ unit' = unit
      /\ visited' = visited /\ resume' = resume /\ split' = split
      /\ skipDone' = skipDone /\ pos \in Part /\ ~skipDone
      /\ phase \in {"pre", "unit", "post"}
  BY DEF StageCompleted, ChangesRequested, RejectedWithin, BackTo, GoTo, Settling, files,
         PlaceInv, Running
<1>2. CASE ~InUnit
  <2>1. progress' = progress /\ ckpt'.progress = progress
    BY <1>2 DEF StageCompleted, ChangesRequested, RejectedWithin, BackTo, CountAndSave, Saved
  <2>2. WorkerInv'
    BY <1>1, <1>2, <2>1 DEF ListInv, WorkerInv, InUnit
  <2>3. Orderly(split', progress') /\ Orderly(split', ckpt'.progress)
    BY <1>1, <2>1 DEF ListInv
  <2> QED BY <2>2, <2>3 DEF ListInv, WorkerInv
<1>3. CASE InUnit
  <2>1. /\ unit \in Units /\ pos \in UnitStages /\ Part = UnitStages
        /\ Counted = progress[unit].done /\ progress[unit].done \subseteq UnitStages
        /\ UnitStages \subseteq 1..N
    BY <1>1, <1>3, PartIs, PartsApart
       DEF PlaceInv, TypeOK, Progress, InUnit, Counted
  <2>2. /\ \A s \in UnitStages : s < pos => s \in progress[unit].done
        /\ \A s \in progress[unit].done : s < pos
    BY <1>1, <1>3 DEF ListInv
  <2>3. \E counted \in SUBSET UnitStages :
          /\ CountAndSave(counted)
          /\ \A s \in UnitStages : s < pos' => s \in counted
          /\ \A s \in counted : s < pos'
    <3>1. CASE StageCompleted
      <4>1. CountAndSave(Counted \cup {pos}) /\ pos' = NextIn(Part, pos)
        BY <3>1 DEF StageCompleted, GoTo
      <4>2. /\ pos' \in (pos + 1)..End
            /\ \A t \in UnitStages : t <= pos \/ t >= pos'
        <5>1. UnitStages \in SUBSET Stages /\ pos \in 0..N
          BY <2>1, PartsApart DEF Stages
        <5> QED BY <2>1, <4>1, <5>1, NextInFound
      <4>3. \A s \in UnitStages : s < pos' => s < pos \/ s = pos
        BY <2>1, <4>2 DEF End
      <4>4. \A s \in Counted \cup {pos} : s < pos'
        <5>1. /\ N \in Nat /\ pos \in 1..N /\ pos' \in Int /\ pos < pos'
              /\ \A s \in Counted : s \in 1..N /\ s < pos
          <6>1. N \in Nat /\ pos \in 1..N /\ \A s \in Counted : s \in 1..N /\ s < pos
            BY <2>1, <2>2, PartsApart
          <6>2. pos' \in Int /\ pos < pos'
            BY <4>2, <6>1 DEF End
          <6> QED BY <6>1, <6>2
        <5> QED BY ONLY <5>1
      <4> DEFINE counted == Counted \cup {pos}
      <4>5. counted \in SUBSET UnitStages /\ \A s \in UnitStages : s < pos' => s \in counted
        BY <2>1, <2>2, <4>3
      <4> HIDE DEF counted
      <4>6. CountAndSave(counted) /\ \A s \in counted : s < pos'
        BY <4>1, <4>4 DEF counted
      <4> QED BY <4>5, <4>6
    <3>2. CASE ChangesRequested \/ RejectedWithin
      <4>1. PICK target \in UnitStages : BackTo(target) /\ target <= pos
        <5>1. ASSUME ChangesRequested PROVE BackTo(LoopTo[pos]) /\ LoopTo[pos] \in UnitStages
          BY <2>1, <5>1 DEF ChangesRequested
        <5>2. ASSUME ChangesRequested PROVE LoopTo[pos] <= pos
          <6>1. pos \in LoopStages
            BY <5>2 DEF ChangesRequested, Settling, PlaceInv
          <6> QED BY <6>1, BackwardAssumption
        <5>3. ASSUME RejectedWithin PROVE FALSE
          <6>1. pos \in HardGates
            BY <5>3 DEF RejectedWithin, Settling, PlaceInv
          <6> QED BY <2>1, <6>1, PartsApart
        <5> QED BY <3>2, <5>1, <5>2, <5>3
      <4> DEFINE counted == (Counted \cup (IF outcome = "changes" THEN {pos} ELSE {}))
                              \ {s \in Part : s >= target}
      <4>2. CountAndSave(counted) /\ pos' = target
        BY <4>1 DEF BackTo, GoTo
      <4>3. \A s \in UnitStages : s < target => s \in counted
        BY <2>1, <2>2, <4>1
      <4>4. \A s \in counted : s < target /\ s \in UnitStages
        <5>1. \A s \in counted : s \in UnitStages /\ ~(s >= target)
          BY <2>1
        <5>2. \A s \in UnitStages : s \in 1..N
          BY <2>1
        <5> HIDE DEF counted
        <5> QED BY <4>1, <5>1, <5>2
      <4> HIDE DEF counted
      <4> QED BY <4>2, <4>3, <4>4
    <3> QED BY <3>1, <3>2
  <2>4. PICK counted \in SUBSET UnitStages :
          /\ CountAndSave(counted)
          /\ \A s \in UnitStages : s < pos' => s \in counted
          /\ \A s \in counted : s < pos'
    BY <2>3
  <2>5. progress' = [progress EXCEPT ![unit].done = counted] /\ ckpt'.progress = progress'
    BY <1>3, <2>4 DEF CountAndSave, Saved
  <2>6. \A t \in counted, s \in UnitStages : s < t => s \in counted
    <3>1. pos' \in 0..End
      BY TypeKept DEF Next, Worker, TypeOK
    <3>2. N \in Nat
      BY PartsApart
    <3>3. \A t \in counted, s \in UnitStages : s < t => s < pos'
      BY <2>1, <2>4, <3>1, <3>2 DEF End
    <3> QED BY <2>4, <3>3
  <2>7. /\ Orderly(split, progress') /\ progress'[unit].done = counted
        /\ \A u \in Units : u # unit => progress'[u] = progress[u]
    BY <1>3, <2>5, <2>6, UnitCounted DEF ListInv
  <2>8. WorkerInv'
    BY <1>1, <1>3, <2>4, <2>7 DEF ListInv, WorkerInv, InUnit
  <2>9. Orderly(split', progress') /\ Orderly(split', ckpt'.progress)
    BY <1>1, <2>5, <2>7
  <2> QED BY <2>8, <2>9 DEF ListInv, WorkerInv
<1> QED BY <1>2, <1>3

\* The lists of the units have no gaps, whatever the worker does.
LEMMA ListsKept == ASSUME Inductive, OrderInv, ListInv, Next PROVE ListInv'
<1> USE DEF Inductive
<1>1. /\ visited \subseteq Units /\ (InUnit => unit \in Units) /\ progress \in Progress
      /\ Orderly(split, progress) /\ Orderly(split, ckpt.progress) /\ WorkerInv
  BY DEF TypeOK, PlaceInv, ListInv, WorkerInv
<1>2. SUFFICES WorkerInv' /\ Orderly(split', progress') /\ Orderly(split', ckpt'.progress)
  BY DEF ListInv, WorkerInv
<1>3. CASE Start \/ Resume \/ Decide
  <2>1. /\ progress' = ckpt.progress /\ ckpt' = ckpt /\ split' = split
        /\ phase' = "pre" /\ visited' = {} /\ unit' = 0
        /\ resume' \/ progress' = Fresh
    BY <1>3 DEF Start, Resume, Decide, Relaunch, Launch, Enter, files, PlaceInv, NoCkpt
  <2> QED BY <1>1, <2>1, ListsStand, FreshIsOrderly DEF WorkerInv, InUnit
<1>4. CASE SplitFails
  BY <1>1, <1>4, ListsStand DEF SplitFails, files, place, memory, WorkerInv, InUnit
<1>5. CASE PassOver
  <2>1. /\ progress' = progress /\ ckpt' = ckpt /\ split' = split /\ phase' = phase
        /\ visited' = visited /\ unit' = unit /\ resume' = resume
        /\ skipDone /\ skipDone' = skipDone /\ pos' = NextIn(Part, pos)
        /\ pos \in Part /\ pos \in Counted
    BY <1>5 DEF PassOver, files, memory
  <2>2. ASSUME InUnit, NEW s \in UnitStages, s < pos' PROVE s \in progress[unit].done
    <3>1. /\ Part = UnitStages /\ UnitStages \in SUBSET Stages /\ UnitStages \subseteq 1..N
          /\ pos \in 0..N /\ Counted = progress[unit].done /\ N \in Nat
      <4>1. Part = UnitStages /\ Counted = progress[unit].done
        BY <2>2, PartIs DEF InUnit, Counted
      <4>2. UnitStages \in SUBSET Stages /\ UnitStages \subseteq 1..N /\ N \in Nat
        BY PartsApart DEF Stages
      <4>3. pos \in UnitStages
        BY <2>1, <4>1
      <4>4. pos \in 1..N
        BY <4>2, <4>3
      <4>5. pos \in 0..N
        BY <4>4
      <4> QED BY <4>1, <4>2, <4>5
    <3>2. (s <= pos \/ s >= pos') /\ pos' \in (pos + 1)..End
      BY <2>1, <3>1, NextInFound
    <3>3. s < pos \/ s = pos
      BY <2>2, <3>1, <3>2 DEF End
    <3> QED BY <1>1, <2>1, <2>2, <3>1, <3>3 DEF WorkerInv
  <2>3. WorkerInv'
    BY <1>1, <2>1, <2>2 DEF WorkerInv, InUnit
  <2> QED BY <1>1, <2>1, <2>3
<1>6. CASE RunStage \/ AwaitDecision \/ RefuseDecision \/ TakeDecision
  <2>1. /\ pos \in Part /\ ~(skipDone /\ pos \in Counted)
        /\ \E o, ds : Run(o, ds)
    BY <1>6 DEF RunStage, AwaitDecision, RefuseDecision, TakeDecision, AtStage
  <2>2. /\ progress' = progress /\ split' = split /\ phase' = phase /\ pos' = pos
        /\ visited' = visited /\ unit' = unit /\ resume' = resume
        /\ ckpt' = ckpt \/ ckpt'.progress = progress
    BY <2>1 DEF Run, files, Saved
  <2>3. InUnit => \A s \in progress[unit].done : s < pos
    BY <2>1, UnitRunsInOrder
  <2>4. WorkerInv'
    BY <1>1, <2>2, <2>3 DEF WorkerInv, InUnit
  <2> QED BY <1>1, <2>2, <2>4
<1>7. CASE Stopped \/ StageFailed \/ GiveUp \/ RejectedNowhere
  <2>1. Running /\ Raise
    BY <1>7 DEF Stopped, StageFailed, GiveUp, RejectedNowhere, Settling
  <2>2. split' = split /\ phase' = "raise"
    BY <2>1 DEF Raise, files
  <2>3. WorkerInv'
    BY <2>2 DEF WorkerInv, InUnit
  <2>4. CASE InUnit
    <3>1. /\ progress' = [progress EXCEPT ![unit].status = "failed"]
          /\ ckpt'.progress = progress'
      BY <2>1, <2>4 DEF Raise, Saved
    <3>2. unit \in Units /\ ~Finished(progress, unit)
      BY <1>1, <2>4 DEF OrderInv
    <3>3. Orderly(split, progress')
      <4>1. "failed" \in {"in_progress", "failed"}
        OBVIOUS
      <4>2. Orderly(split, [progress EXCEPT ![unit].status = "failed"])
        BY <1>1, <3>2, <4>1, StatusNoted
      <4> QED BY <3>1, <4>2
    <3> QED BY <2>2, <2>3, <3>1, <3>3
  <2>5. CASE ~InUnit
    BY <1>1, <2>1, <2>2, <2>3, <2>5 DEF Raise
  <2> QED BY <2>4, <2>5
<1>8. CASE Pause
  <2>1. /\ ~InUnit /\ CountAndSave(Counted) /\ phase' = "waiting" /\ split' = split
        /\ unit' = unit /\ Running
    BY <1>8 DEF Pause, Settling, PlaceInv, files
  <2>2. progress' = progress /\ ckpt'.progress = progress
    BY <2>1 DEF CountAndSave, Saved
  <2>3. WorkerInv'
    BY <1>1, <2>1 DEF WorkerInv, InUnit, Running
  <2> QED BY <1>1, <2>1, <2>2, <2>3
<1>9. CASE StageCompleted \/ ChangesRequested \/ RejectedWithin
  <2>1. ListInv'
    BY <1>9, ListsCounted
  <2> QED BY <2>1 DEF ListInv, WorkerInv
<1>10. CASE RejectedToUnits
  <2>1. /\ phase = "post" /\ phase' = "loopback" /\ unit' = unit /\ progress' = progress
        /\ ckpt'.progress = progress /\ split' = split
    BY <1>10 DEF RejectedToUnits, memory, files, Saved
  <2>2. WorkerInv'
    BY <1>1, <2>1 DEF WorkerInv, InUnit
  <2> QED BY <1>1, <2>1, <2>2
<1>11. CASE EnterUnits
  <2>1. /\ phase = "pre" /\ phase' \in {"raise", "units"} /\ visited' = {}
        /\ unit' = unit /\ progress' = progress /\ resume' = resume
        /\ ckpt' = ckpt /\ split' = split
    BY <1>11 DEF EnterUnits, AtEnd, memory, files
  <2>2. WorkerInv'
    BY <1>1, <2>1 DEF WorkerInv, InUnit
  <2> QED BY <1>1, <2>1, <2>2
<1>12. ASSUME NEW u \in Units, PassUnit(u)
       PROVE  WorkerInv' /\ Orderly(split', progress') /\ Orderly(split', ckpt'.progress)
  <2>1. /\ phase = "units" /\ phase' = phase /\ visited' = visited \cup {u}
        /\ unit' = unit /\ progress' = progress /\ resume' = resume
        /\ ckpt' = ckpt /\ split' = split
    BY <1>12 DEF PassUnit, memory, files
  <2>2. WorkerInv'
    BY <1>1, <2>1 DEF WorkerInv, InUnit
  <2> QED BY <1>1, <2>1, <2>2
<1>13. ASSUME NEW u \in Units, BeginUnit(u)
       PROVE  WorkerInv' /\ Orderly(split', progress') /\ Orderly(split', ckpt'.progress)
  <2>1. /\ phase = "units" /\ phase' = "unit" /\ visited' = visited /\ u \notin visited
        /\ unit' = u /\ resume' = resume /\ split' = split /\ ckpt'.progress = progress'
        /\ progress' = [progress EXCEPT ![u].status = "in_progress"]
        /\ ~Finished(progress, u)
        /\ skipDone' = (resume /\ progress[u].done # {})
        /\ pos' = First(UnitStages)
    BY <1>13 DEF BeginUnit, NextUnit, Enter, Parts, files, Saved, Completed, Finished
  <2>2. /\ Orderly(split, progress')
        /\ \A v \in Units : progress'[v].done = progress[v].done
    <3>1. "in_progress" \in {"in_progress", "failed"}
      OBVIOUS
    <3>2. LET new == [progress EXCEPT ![u].status = "in_progress"] IN
          Orderly(split, new) /\ \A v \in Units : new[v].done = progress[v].done
      BY <1>1, <2>1, <3>1, StatusNoted
    <3> QED BY <2>1, <3>2
  <2>3. \A s \in UnitStages : ~(s < pos')
    <3>1. UnitStages \in SUBSET Stages /\ 0 \in 0..N /\ UnitStages \subseteq 1..N
      BY PartsApart DEF Stages
    <3>2. /\ pos' \in (0 + 1)..End
          /\ \A t \in UnitStages : t <= 0 \/ t >= pos'
      BY <2>1, <3>1, NextInFound DEF First
    <3> QED BY <3>1, <3>2, PartsApart DEF End
  <2>4. ~resume => progress[u].done = {}
    BY <1>1, <2>1 DEF WorkerInv, InUnit
  <2>5. WorkerInv'
    BY <1>1, <2>1, <2>2, <2>3, <2>4 DEF WorkerInv, InUnit
  <2> QED BY <2>1, <2>2, <2>5
<1>14. CASE EndUnit
  <2>1. /\ phase = "unit" /\ phase' = "units" /\ visited' = visited \cup {unit}
        /\ unit \in Units /\ resume' = resume /\ split' = split
        /\ ckpt'.progress = progress' /\ pos = End
        /\ progress' = [progress EXCEPT ![unit].status = "completed"]
    BY <1>1, <1>14 DEF EndUnit, AtEnd, InUnit, files, Saved
  <2>2. /\ \A v \in Units : v # unit => progress'[v] = progress[v]
        /\ progress'[unit].done = progress[unit].done /\ progress'[unit].status = "completed"
    BY <1>1, <2>1 DEF Progress
  <2>3. progress[unit].done = UnitStages
    <3>1. UnitStages \subseteq 1..N /\ N \in Nat
      BY PartsApart
    <3>2. \A s \in UnitStages : s < pos
      BY <2>1, <3>1 DEF End
    <3>3. progress[unit].done \subseteq UnitStages
      BY <2>1 DEF TypeOK, Progress
    <3> QED BY <1>1, <2>1, <3>2, <3>3 DEF WorkerInv, InUnit
  <2>4. Orderly(split, progress')
    <3>1. \A v \in Units : /\ Finished(progress, v) => Finished(progress', v)
                           /\ progress'[v].done = progress[v].done
      BY <2>2 DEF Finished
    <3>2. \A v \in Units : Finished(progress', v) => progress'[v].done = UnitStages
      BY <1>1, <2>2, <2>3 DEF Orderly, Finished
    <3> QED BY <1>1, <3>1, <3>2 DEF Orderly
  <2>5. WorkerInv'
    BY <1>1, <2>1, <2>2 DEF WorkerInv, InUnit
  <2> QED BY <2>1, <2>4, <2>5
<1>15. CASE EndUnits \/ EndPost
  <2>1. /\ phase' \in {"post", "deliver"} /\ progress' = progress /\ ckpt' = ckpt
        /\ split' = split
    BY <1>15 DEF EndUnits, EndPost, Enter, memory, files
  <2>2. WorkerInv'
    BY <2>1 DEF WorkerInv, InUnit
  <2> QED BY <1>1, <2>1, <2>2
<1>16. CASE ResetUnits
  <2>1. /\ phase' = "units" /\ progress' = Fresh /\ ckpt'.progress = Fresh
        /\ split' = split
    BY <1>16 DEF ResetUnits, files, Saved
  <2>2. WorkerInv'
    BY <2>1, FreshIsOrderly DEF WorkerInv, InUnit
  <2> QED BY <2>1, <2>2, FreshIsOrderly
<1>17. CASE ReturnPaused \/ ReturnFailed \/ Deliver \/ Crash
  <2>1. /\ phase' = "off" /\ progress' = progress /\ ckpt' \in {ckpt, NoCkpt}
        /\ split' = split
    BY <1>17 DEF ReturnPaused, ReturnFailed, Deliver, Crash, Exit, memory, files
  <2>2. NoCkpt.progress = Fresh
    BY DEF NoCkpt
  <2>3. WorkerInv'
    BY <2>1 DEF WorkerInv, InUnit
  <2> QED BY <1>1, <2>1, <2>2, <2>3, FreshIsOrderly
<1> QED BY <1>3, <1>4, <1>5, <1>6, <1>7, <1>8, <1>9, <1>10, <1>11, <1>12, <1>13,
           <1>14, <1>15, <1>16, <1>17
        DEF Next, Worker

-----------------------------------------------------------------------------
(* Progress stands.                                                        *)

\* While the first part still has a stage to run, no unit has any progress.
LEMMA NoProgressBefore ==
  ASSUME Inductive, StandInv, ~displaced, phase = "pre", pos \in Part,
         \A s \in Part \cap done : s < pos
  PROVE  progress = Fresh /\ ckpt.progress = Fresh
<1>1. pos \in Pre /\ pos \in 1..N
  BY PartIs, PartsApart
<1>2. pos \notin done
  BY <1>1, PartIs
<1>3. ckpt.done = done
  BY DEF Inductive, DoneInv
<1> QED BY <1>1, <1>2, <1>3 DEF StandInv, Stand, InUnit

\* Running a stage throws away no work that progress stands on.
LEMMA StandRun ==
  ASSUME Inductive, OrderInv, ListInv, StandInv, Running, pos \in Part,
         ~(skipDone /\ pos \in Counted), step = "top", NEW o, NEW ds, Run(o, ds)
  PROVE  StandInv'
<1> USE DEF Inductive
<1>1. /\ progress' = progress /\ done' = done /\ phase' = phase /\ pos' = pos
      /\ unit' = unit /\ displaced' = displaced /\ outcome' = o
      /\ Produce(o \in {"pass", "changes"})
      /\ ~InUnit => ckpt' = ckpt
  BY DEF Run
<1> SUFFICES ASSUME ~displaced PROVE StandInv'
  BY <1>1 DEF StandInv
<1>2. Stand(done, progress, work) /\ (~InUnit => Stand(ckpt.done, ckpt.progress, work))
  BY DEF StandInv
<1>3. CASE phase = "pre"
  <2>1. progress = Fresh /\ ckpt.progress = Fresh
    <3>1. \A s \in Part \cap done : s < pos
      BY <1>3, RunsInOrder
    <3> QED BY <1>3, <3>1, NoProgressBefore
  <2> QED BY <1>1, <1>3, <2>1, FreshIsOrderly DEF StandInv, InUnit
<1>4. CASE phase = "post"
  <2>1. work' = work
    BY <1>1, <1>4 DEF Produce, InUnit
  <2> QED BY <1>1, <1>2, <1>4, <2>1 DEF StandInv, InUnit
<1>5. CASE phase = "unit"
  <2>1. /\ unit \in Units /\ ~Finished(progress, unit)
        /\ \A v \in Units : v = unit \/ Before(split, v, unit) \/ Before(split, unit, v)
    BY <1>5, PredecessorsFinished DEF InUnit
  <2>2. \A s \in progress[unit].done : s < pos
    BY <1>5, UnitRunsInOrder DEF InUnit
  <2>3. work' = [u \in Units |->
                   IF u = unit
                   THEN {s \in work[u] : s < pos}
                          \cup (IF o \in {"pass", "changes"} THEN {pos} ELSE {})
                   ELSE IF Precedes(u, unit) THEN work[u] ELSE {}]
    BY <1>1, <1>5 DEF Produce, InUnit
  <2>4. ASSUME NEW u \in Units PROVE progress[u].done \subseteq work'[u]
    <3>1. progress[u].done \subseteq work[u]
      BY <1>2 DEF Stand
    <3>2. CASE u = unit
      BY <2>2, <2>3, <3>1, <3>2
    <3>3. CASE u # unit /\ Before(split, u, unit)
      BY <2>3, <3>1, <3>3, PrecedesIsBefore
    <3>4. CASE u # unit /\ Before(split, unit, u)
      BY <2>1, <3>4 DEF ListInv, Orderly
    <3> QED BY <2>1, <3>2, <3>3, <3>4
  <2>5. o = "pass" => pos \in work'[unit]
    BY <2>1, <2>3
  <2>6. Stand(done', progress', work')
    BY <1>1, <1>2, <2>4 DEF Stand
  <2> QED BY <1>1, <1>5, <2>5, <2>6 DEF StandInv, InUnit
<1> QED BY <1>3, <1>4, <1>5 DEF Running

\* Inside a unit the plan is complete.
LEMMA PlanDone ==
  ASSUME Inductive, phase \in {"units", "unit", "loopback", "post", "deliver"}
  PROVE  Pre \subseteq done
BY DEF Inductive, DoneInv

\* Noting progress of units once the plan is complete.
LEMMA StandNoted ==
  ASSUME Inductive, StandInv, phase \in {"units", "unit"}, ~displaced,
         displaced' = displaced, work' = work, done' = done,
         ckpt'.progress = progress' /\ (phase' = "unit" \/ ckpt'.done = done'),
         \A u \in Units : progress'[u].done \subseteq work[u],
         phase' = "unit" => step' = "top"
  PROVE  StandInv'
<1>1. Stand(done', progress', work')
  BY PlanDone DEF Stand
<1> QED BY <1>1 DEF StandInv, InUnit

\* Counting a stage, or forgetting stages, on the way.
LEMMA StandCounted ==
  ASSUME Inductive, ListInv, StandInv,
         StageCompleted \/ ChangesRequested \/ RejectedWithin
  PROVE  StandInv'
<1> USE DEF Inductive
<1>1. /\ Running /\ step = "settle" /\ phase' = phase /\ unit' = unit /\ step' = "top"
      /\ displaced' = displaced /\ work' = work /\ pos \in Part /\ ~skipDone
  BY DEF StageCompleted, ChangesRequested, RejectedWithin, BackTo, GoTo, Settling, history,
         PlaceInv
<1> SUFFICES ASSUME ~displaced PROVE StandInv'
  BY <1>1 DEF StandInv
<1>2. Stand(done, progress, work) /\ (~InUnit => Stand(ckpt.done, ckpt.progress, work))
  BY DEF StandInv
<1>3. PICK target \in Part :
        \/ StageCompleted /\ CountAndSave(Counted \cup {pos}) /\ outcome = "pass"
        \/ BackTo(target) /\ target <= pos
  <2>1. CASE StageCompleted
    BY <1>1, <2>1 DEF StageCompleted, Settling
  <2>2. CASE ChangesRequested
    <3>1. pos \in LoopStages /\ LoopTo[pos] \in Part /\ BackTo(LoopTo[pos])
      BY <1>1, <2>2 DEF ChangesRequested, Settling, PlaceInv
    <3> QED BY <3>1, BackwardAssumption
  <2>3. CASE RejectedWithin
    <3>1. pos \in HardGates /\ RejectTo[pos] \in Part /\ BackTo(RejectTo[pos])
      BY <1>1, <2>3 DEF RejectedWithin, Settling, PlaceInv
    <3> QED BY <3>1, BackwardAssumption
  <2> QED BY <2>1, <2>2, <2>3
<1> DEFINE back == (Counted \cup (IF outcome = "changes" THEN {pos} ELSE {}))
                     \ {s \in Part : s >= target}
<1>4. PICK counted : /\ CountAndSave(counted)
                     /\ \/ counted = Counted \cup {pos} /\ outcome = "pass"
                        \/ counted = back /\ target <= pos
  BY <1>3 DEF BackTo
<1>5. Part \subseteq 1..N /\ target \in 1..N /\ pos \in 1..N
  BY <1>1, PartIs, PartsApart DEF Running
<1>6. CASE InUnit
  <2>1. /\ unit \in Units /\ Counted = progress[unit].done
        /\ progress' = [progress EXCEPT ![unit].done = counted]
        /\ ckpt'.progress = progress' /\ done' = done /\ phase = "unit"
    BY <1>4, <1>6 DEF CountAndSave, PlaceInv, Counted, Saved, InUnit
  <2>2. progress[unit].done \subseteq work[unit]
    BY <1>2, <2>1 DEF Stand
  <2>3. counted \subseteq work[unit]
    <3>1. CASE counted = Counted \cup {pos} /\ outcome = "pass"
      BY <1>1, <1>6, <2>1, <2>2, <3>1 DEF StandInv
    <3>2. CASE counted = back /\ target <= pos
      BY <1>1, <1>5, <2>1, <2>2, <3>2
    <3> QED BY <1>4, <3>1, <3>2
  <2>4. \A u \in Units : progress'[u].done \subseteq work[u]
    <3>1. progress \in Progress
      BY DEF TypeOK
    <3>2. \A u \in Units : u # unit => progress'[u] = progress[u]
      BY <2>1, <3>1 DEF Progress
    <3>3. progress'[unit].done = counted
      BY <2>1, <3>1 DEF Progress
    <3> QED BY <1>2, <2>3, <3>2, <3>3 DEF Stand
  <2> QED BY <1>1, <2>1, <2>4, StandNoted
<1>7. CASE ~InUnit
  <2>1. /\ Counted = done /\ progress' = progress /\ done' = counted
        /\ ckpt'.progress = progress /\ ckpt'.done = counted /\ phase \in {"pre", "post"}
    BY <1>1, <1>4, <1>7 DEF CountAndSave, Counted, Saved, Running, InUnit
  <2>2. progress # Fresh => Pre \subseteq counted
    <3>1. CASE phase = "pre"
      <4>1. \A s \in Part \cap done : s < pos
        BY <1>1, <3>1 DEF DoneInv
      <4> QED BY <1>1, <3>1, <4>1, NoProgressBefore
    <3>2. CASE phase = "post"
      <4>1. Pre \subseteq done /\ Part \cap Pre = {}
        BY <3>2, PlanDone, PartIs, PartsApart
      <4> QED BY <1>4, <2>1, <4>1
    <3> QED BY <2>1, <3>1, <3>2
  <2>3. Stand(done', progress', work') /\ Stand(ckpt'.done, ckpt'.progress, work')
    BY <1>1, <1>2, <2>1, <2>2 DEF Stand
  <2> QED BY <1>1, <1>7, <2>3 DEF StandInv, InUnit
<1> QED BY <1>6, <1>7

\* Until a crash leaves the checkpoint to one unit, all progress stands.
LEMMA StandKept ==
  ASSUME Inductive, OrderInv, ListInv, StandInv, Next PROVE StandInv'
<1> USE DEF Inductive
<1>1. progress \in Progress /\ (InUnit => unit \in Units)
  BY DEF TypeOK, PlaceInv
<1>2. ~displaced => /\ Stand(done, progress, work)
                    /\ ~InUnit => Stand(ckpt.done, ckpt.progress, work)
  BY DEF StandInv
<1>3. ASSUME displaced' = displaced, work' = work,
             progress' = progress /\ done' = done,
             (ckpt' = ckpt /\ ~InUnit) \/ (ckpt'.done = done /\ ckpt'.progress = progress),
             phase' # "unit"
      PROVE  StandInv'
  BY <1>2, <1>3 DEF StandInv, InUnit
<1>4. CASE Start \/ Resume \/ Decide
  <2>1. /\ progress' = ckpt.progress /\ done' = ckpt.done /\ ckpt' = ckpt
        /\ displaced' = displaced /\ work' = work /\ phase = "off" /\ phase' = "pre"
    BY <1>4 DEF Start, Resume, Decide, Relaunch, Launch, Enter, history, PlaceInv
  <2> QED BY <1>2, <2>1 DEF StandInv, InUnit
<1>5. CASE SplitFails
  BY <1>3, <1>5 DEF SplitFails, place, memory, history, InUnit
<1>6. CASE PassOver
  <2>1. /\ progress' = progress /\ done' = done /\ ckpt' = ckpt /\ step' = "top"
        /\ displaced' = displaced /\ work' = work /\ phase' = phase
    BY <1>6 DEF PassOver, memory, history
  <2> QED BY <1>2, <2>1 DEF StandInv, InUnit
<1>7. CASE RunStage \/ AwaitDecision \/ RefuseDecision \/ TakeDecision
  <2>1. /\ Running /\ step = "top" /\ pos \in Part /\ ~(skipDone /\ pos \in Counted)
        /\ \E o, ds : Run(o, ds)
    BY <1>7 DEF RunStage, AwaitDecision, RefuseDecision, TakeDecision, AtStage
  <2> QED BY <2>1, StandRun
<1>8. CASE Stopped \/ StageFailed \/ GiveUp \/ RejectedNowhere
  <2>1. Raise
    BY <1>8 DEF Stopped, StageFailed, GiveUp, RejectedNowhere
  <2>2. /\ displaced' = displaced /\ work' = work /\ done' = done /\ phase' = "raise"
    BY <2>1 DEF Raise, history
  <2>3. CASE InUnit
    <3>1. /\ progress' = [progress EXCEPT ![unit].status = "failed"]
          /\ ckpt'.progress = progress' /\ ckpt'.done = done
      BY <2>1, <2>3 DEF Raise, Saved
    <3>2. \A u \in Units : progress'[u].done = progress[u].done
      BY <1>1, <3>1 DEF Progress
    <3>3. ~displaced => \A u \in Units : progress'[u].done \subseteq work[u]
      BY <1>2, <3>2 DEF Stand
    <3>4. displaced => StandInv'
      BY <2>2 DEF StandInv
    <3> QED BY <2>2, <2>3, <3>1, <3>3, <3>4, StandNoted DEF InUnit
  <2>4. CASE ~InUnit
    BY <1>3, <2>1, <2>2, <2>4 DEF Raise
  <2> QED BY <2>3, <2>4
<1>9. CASE Pause
  <2>1. /\ ~InUnit /\ CountAndSave(Counted) /\ phase' = "waiting"
        /\ displaced' = displaced /\ work' = work
    BY <1>9 DEF Pause, Settling, PlaceInv, history
  <2>2. progress' = progress /\ done' = done /\ ckpt'.done = done /\ ckpt'.progress = progress
    BY <2>1 DEF CountAndSave, Counted, Saved
  <2> QED BY <1>3, <2>1, <2>2
<1>10. CASE StageCompleted \/ ChangesRequested \/ RejectedWithin
  BY <1>10, StandCounted
<1>11. CASE RejectedToUnits
  BY <1>3, <1>11 DEF RejectedToUnits, memory, Saved
<1>12. CASE EnterUnits \/ EndPost
  BY <1>3, <1>12 DEF EnterUnits, EndPost, AtEnd, memory, history, InUnit
<1>13. ASSUME NEW u \in Units, PassUnit(u) PROVE StandInv'
  BY <1>3, <1>13 DEF PassUnit, memory, history, InUnit
<1>14. ASSUME NEW u \in Units, BeginUnit(u) PROVE StandInv'
  <2>1. /\ phase = "units" /\ phase' = "unit" /\ step' = "top"
        /\ progress' = [progress EXCEPT ![u].status = "in_progress"]
        /\ ckpt'.progress = progress' /\ done' = done
        /\ displaced' = displaced /\ work' = work
    BY <1>14 DEF BeginUnit, Enter, Saved, history
  <2>2. \A v \in Units : progress'[v].done = progress[v].done
    BY <1>1, <2>1 DEF Progress
  <2>3. ~displaced => \A v \in Units : progress'[v].done \subseteq work[v]
    BY <1>2, <2>2 DEF Stand
  <2>4. displaced => StandInv'
    BY <2>1 DEF StandInv
  <2> QED BY <2>1, <2>3, <2>4, StandNoted
<1>15. CASE EndUnit
  <2>1. /\ phase = "unit" /\ phase' = "units"
        /\ progress' = [progress EXCEPT ![unit].status = "completed"]
        /\ ckpt'.progress = progress' /\ ckpt'.done = done /\ done' = done
        /\ displaced' = displaced /\ work' = work
    BY <1>15 DEF EndUnit, AtEnd, Saved
  <2>2. \A v \in Units : progress'[v].done = progress[v].done
    BY <1>1, <2>1 DEF Progress
  <2>3. ~displaced => \A v \in Units : progress'[v].done \subseteq work[v]
    BY <1>2, <2>2 DEF Stand
  <2>4. displaced => StandInv'
    BY <2>1 DEF StandInv
  <2> QED BY <2>1, <2>3, <2>4, StandNoted
<1>16. CASE EndUnits
  <2>1. /\ phase = "units" /\ phase' \in {"deliver", "post"}
        /\ progress' = progress /\ ckpt' = ckpt /\ done' = done \cup UnitStages
        /\ displaced' = displaced /\ work' = work
    BY <1>16 DEF EndUnits, Enter, history
  <2> QED BY <1>2, <2>1 DEF StandInv, Stand, InUnit
<1>17. CASE ResetUnits
  <2>1. /\ progress' = Fresh /\ ckpt'.progress = Fresh /\ phase' = "units"
    BY <1>17 DEF ResetUnits, Saved
  <2> QED BY <2>1, FreshIsOrderly DEF StandInv, InUnit
<1>18. CASE ReturnPaused \/ ReturnFailed \/ Deliver
  <2>1. /\ progress' = progress /\ done' = done /\ ckpt' \in {ckpt, NoCkpt}
        /\ displaced' = displaced /\ work' = work /\ phase' = "off" /\ phase # "unit"
    BY <1>18 DEF ReturnPaused, ReturnFailed, Deliver, Exit, memory, history
  <2>2. NoCkpt.progress = Fresh
    BY DEF NoCkpt
  <2>3. ~displaced => Stand(ckpt'.done, ckpt'.progress, work)
    BY <1>2, <2>1, <2>2, FreshIsOrderly DEF InUnit
  <2> QED BY <1>2, <2>1, <2>3 DEF StandInv, InUnit
<1>19. CASE Crash
  <2>1. /\ progress' = progress /\ done' = done /\ ckpt' = ckpt /\ work' = work
        /\ displaced' = (displaced \/ phase \in {"unit", "loopback"}) /\ phase' = "off"
    BY <1>19 DEF Crash, memory
  <2> QED BY <1>2, <2>1 DEF StandInv, InUnit
<1> QED BY <1>4, <1>5, <1>6, <1>7, <1>8, <1>9, <1>10, <1>11, <1>12, <1>13,
           <1>14, <1>15, <1>16, <1>17, <1>18, <1>19
        DEF Next, Worker

-----------------------------------------------------------------------------
(* What holds of the units.                                                *)

\* The whole invariant holds in every state that can be reached.
THEOREM UnitsStayInOrder == Spec => []UnitsInductive
<1>1. Init => UnitsInductive
  <2> SUFFICES ASSUME Init PROVE UnitsInductive
    OBVIOUS
  <2>1. Inductive
    BY InitHolds
  <2>2. /\ progress = Fresh /\ ckpt.progress = Fresh /\ owed = {} /\ visited = {}
        /\ phase = "off"
    BY DEF Init, NoCkpt
  <2>3. OrderInv
    BY <2>2 DEF OrderInv, InUnit
  <2>4. ListInv
    BY <2>2, FreshIsOrderly DEF ListInv, InUnit
  <2>5. HonestInv
    BY <2>2 DEF HonestInv, Honest
  <2>6. StandInv
    BY <2>2, FreshIsOrderly DEF StandInv, InUnit
  <2> QED BY <2>1, <2>3, <2>4, <2>5, <2>6 DEF UnitsInductive
<1>2. Inductive /\ Inductive' /\ UnitsInductive /\ [Next]_vars => UnitsInductive'
  <2>1. ASSUME Inductive', UnitsInductive, Next PROVE UnitsInductive'
    BY <2>1, OrderKept, ListsKept, HonestKept, StandKept DEF UnitsInductive
  <2>2. ASSUME UnitsInductive, Inductive', UNCHANGED vars PROVE UnitsInductive'
    BY <2>2 DEF vars, files, place, memory, history, UnitsInductive, OrderInv, ListInv,
                HonestInv, Between, StandInv, InUnit
  <2> QED BY <2>1, <2>2
<1> QED BY <1>1, <1>2, UnitsAreInvariant, PTL DEF Spec

\* In any attempt, and with whatever progress a checkpoint restored, the loop
\* meets no unit before all it depends on are completed and, if a rejection
\* sent them back, redone.
THEOREM DependenciesComeFirst == Spec => []DependenciesFirst
<1>1. UnitsInductive => DependenciesFirst
  <2> SUFFICES ASSUME UnitsInductive PROVE DependenciesFirst
    OBVIOUS
  <2> USE DEF UnitsInductive, Inductive
  <2>1. split \in [deps : [Units -> SUBSET Units], priority : [Units -> Int]]
    BY DEF TypeOK
  <2>2. ASSUME NEW u \in Units, phase \in {"units", "unit"}, ~Finished(progress, u),
               NEW d \in split.deps[u],
               \A v \in Units \ visited : v = u \/ Before(split, u, v)
        PROVE  Completed(d) /\ d \notin owed
    <3>1. /\ d \in Units /\ Before(split, d, u)
          /\ \A v, w \in Units : ~(Before(split, v, w) /\ Before(split, w, v))
      BY <2>1, <2>2, UnitsInLine DEF OrderInv
    <3>2. d \in visited
      BY <2>2, <3>1
    <3>3. Finished(progress, d)
      BY <2>2, <3>2 DEF OrderInv
    <3>4. \A v \in owed : ~Finished(progress, v)
      BY <2>2 DEF HonestInv, Honest
    <3> QED BY <3>3, <3>4 DEF Finished, Completed
  <2>3. ASSUME phase = "units", NEW u \in Units, NextUnit(u), ~Completed(u),
               NEW d \in split.deps[u]
        PROVE  Completed(d) /\ d \notin owed
    <3>1. ~Finished(progress, u) /\ \A v \in Units \ visited : v = u \/ Before(split, u, v)
      BY <2>3, PrecedesIsBefore DEF Finished, Completed, NextUnit
    <3> QED BY <2>2, <2>3, <3>1
  <2>4. ASSUME InUnit, NEW d \in split.deps[unit]
        PROVE  Completed(d) /\ d \notin owed
    <3>1. /\ unit \in Units /\ ~Finished(progress, unit) /\ phase = "unit"
          /\ \A v \in Units \ visited : v = unit \/ Before(split, unit, v)
      BY <2>4 DEF OrderInv, PlaceInv, InUnit
    <3> QED BY <2>2, <2>4, <3>1
  <2> QED BY <2>3, <2>4 DEF DependenciesFirst
<1> QED BY <1>1, UnitsStayInOrder, PTL

\* What the final stages judge is whole, in every run that no crash inside a
\* unit, or between a rejection and the reset, has cut off.
THEOREM WholeWork == Spec => []WholeWorkIsJudged
<1>1. UnitsInductive => WholeWorkIsJudged
  <2> SUFFICES ASSUME UnitsInductive, phase = "post", ~displaced
               PROVE  /\ owed = {} /\ Pre \subseteq result
                      /\ \A u \in Units : work[u] = UnitStages /\ summary[u] = "completed"
    BY DEF WholeWorkIsJudged
  <2> USE DEF UnitsInductive, Inductive
  <2>1. \A u \in Units : Finished(progress, u) /\ summary[u] = "completed"
    BY DEF OrderInv
  <2>2. owed = {}
    <3>1. \A u \in owed : ~Finished(progress, u)
      BY DEF HonestInv, Honest, Between
    <3> QED BY <2>1, <3>1 DEF TypeOK
  <2>3. Pre \subseteq result
    <3>1. Pre \subseteq done
      BY PlanDone
    <3> QED BY <3>1 DEF CurrentInv, Backed
  <2>4. ASSUME NEW u \in Units PROVE work[u] = UnitStages
    <3>1. progress[u].done = UnitStages
      BY <2>1 DEF ListInv, Orderly
    <3>2. progress[u].done \subseteq work[u]
      BY DEF StandInv, Stand
    <3>3. work[u] \subseteq UnitStages
      BY DEF TypeOK
    <3> QED BY <3>1, <3>2, <3>3
  <2> QED BY <2>1, <2>2, <2>3, <2>4
<1> QED BY <1>1, UnitsStayInOrder, PTL

-----------------------------------------------------------------------------
(* The loop over the units always finds the next one.                      *)

\* Of some units in a line, one is in front of all others.
LEMMA FrontUnit ==
  ASSUME NEW sp \in [deps : [Units -> SUBSET Units], priority : [Units -> Int]],
         ~Cyclic(sp.deps), NEW S \in SUBSET Units, S # {}
  PROVE  \E u \in S : \A v \in S : v = u \/ Before(sp, u, v)
<1> DEFINE ahead(u) == {v \in S : Before(sp, v, u)}
           T == {Cardinality(ahead(u)) : u \in S}
<1>1. IsFiniteSet(S)
  BY MultiUnitAssumption, FS_Subset
<1>2. \A u \in S : IsFiniteSet(ahead(u)) /\ Cardinality(ahead(u)) \in Nat
  <2>1. \A u \in S : ahead(u) \subseteq S
    OBVIOUS
  <2> HIDE DEF ahead
  <2> QED BY <1>1, <2>1, FS_Subset, FS_CardinalityType
<1>3. PICK u \in S : \A v \in S : Cardinality(ahead(u)) <= Cardinality(ahead(v))
  <2> HIDE DEF ahead
  <2>1. T \subseteq Nat /\ T # {}
    BY <1>2
  <2>2. PICK t \in T : \A r \in T : t <= r
    <3> HIDE DEF T
    <3> QED BY <2>1, Least
  <2>3. PICK u \in S : t = Cardinality(ahead(u))
    OBVIOUS
  <2>4. \A v \in S : Cardinality(ahead(v)) \in T
    OBVIOUS
  <2> HIDE DEF T
  <2> QED BY <2>2, <2>3, <2>4
<1>4. ASSUME NEW v \in S, Before(sp, v, u) PROVE FALSE
  <2>1. /\ \A a, b \in Units : ~(Before(sp, a, b) /\ Before(sp, b, a))
        /\ \A a, b, c \in Units :
             Before(sp, a, b) /\ Before(sp, b, c) => Before(sp, a, c)
    <3>1. \A a, b \in Units : ~(Before(sp, a, b) /\ Before(sp, b, a))
      BY UnitsInLine
    <3>2. sp.deps \in [Units -> SUBSET Units] /\ sp.priority \in [Units -> Int]
      OBVIOUS
    <3>3. ASSUME NEW a \in Units, NEW b \in Units, NEW c \in Units,
                 Before(sp, a, b), Before(sp, b, c)
          PROVE  Before(sp, a, c)
      <4>1. /\ RoundOf(sp.deps, a) \in Nat /\ RoundOf(sp.deps, b) \in Nat
            /\ RoundOf(sp.deps, c) \in Nat
        BY <3>2, RoundFound
      <4>2. /\ sp.priority[a] \in Int /\ sp.priority[b] \in Int /\ sp.priority[c] \in Int
            /\ a \in Nat /\ b \in Nat /\ c \in Nat
        BY <3>2, MultiUnitAssumption
      <4> QED BY <3>3, <4>1, <4>2 DEF Before
    <3> QED BY <3>1, <3>3
  <2>2. ahead(v) \subseteq ahead(u) /\ v \in ahead(u) /\ v \notin ahead(v)
    BY <1>4, <2>1
  <2>3. /\ Cardinality(ahead(v)) <= Cardinality(ahead(u))
        /\ Cardinality(ahead(v)) # Cardinality(ahead(u))
    <3> HIDE DEF ahead
    <3>1. IsFiniteSet(ahead(u))
      BY <1>2
    <3>2. ahead(v) # ahead(u)
      BY <2>2
    <3>3. ASSUME NEW Y, IsFiniteSet(Y), NEW X \in SUBSET Y, X # Y
          PROVE  Cardinality(X) <= Cardinality(Y) /\ Cardinality(X) # Cardinality(Y)
      BY <3>3, FS_Subset
    <3>4. ahead(v) \in SUBSET ahead(u)
      BY <2>2
    <3> QED BY <3>1, <3>2, <3>3, <3>4
  <2> HIDE DEF ahead
  <2> QED BY <1>2, <1>3, <1>4, <2>3
<1>5. \A v \in S : v = u \/ Before(sp, u, v) \/ Before(sp, v, u)
  BY UnitsInLine
<1> QED BY <1>3, <1>4, <1>5

\* As long as a unit is left, the loop over ordered_units comes to one that it
\* can pass over or begin: it neither stops nor raises between the units
\* (orchestrator.py 863-880).
THEOREM LoopFindsAUnit ==
  Spec => [](phase = "units" /\ visited # Units =>
               \E u \in Units : NextUnit(u)
                 /\ (Completed(u) \/ \A d \in split.deps[u] : Completed(d)))
<1>1. UnitsInductive /\ DependenciesFirst =>
        (phase = "units" /\ visited # Units =>
           \E u \in Units : NextUnit(u)
             /\ (Completed(u) \/ \A d \in split.deps[u] : Completed(d)))
  <2> SUFFICES ASSUME UnitsInductive, DependenciesFirst, phase = "units", visited # Units
               PROVE  \E u \in Units : NextUnit(u)
                        /\ (Completed(u) \/ \A d \in split.deps[u] : Completed(d))
    OBVIOUS
  <2>1. /\ split \in [deps : [Units -> SUBSET Units], priority : [Units -> Int]]
        /\ ~Cyclic(split.deps) /\ visited \subseteq Units
    BY DEF UnitsInductive, Inductive, TypeOK, OrderInv
  <2>2. PICK u \in Units \ visited :
          \A v \in Units \ visited : v = u \/ Before(split, u, v)
    BY <2>1, FrontUnit
  <2>3. NextUnit(u)
    BY <2>2, PrecedesIsBefore DEF NextUnit
  <2> QED BY <2>2, <2>3 DEF DependenciesFirst
<1> QED BY <1>1, UnitsStayInOrder, DependenciesComeFirst, PTL

-----------------------------------------------------------------------------
(* How far an attempt is from its end.                                     *)

\* The retries the current sequence has left.
Retries ==
  {t \in LoopStages \X Nat : loops[t[1]] < t[2] /\ t[2] <= MaxRetries[t[1]]}

\* The one decision of the attempt: not used yet, or just now spent on sending
\* the run back.
Turn ==
  IF pending # NoDecision THEN 2
  ELSE IF Settling("rejected") \/ phase = "loopback" THEN 1 ELSE 0

\* The part of the run that is ahead of the worker.
Stretch ==
  CASE phase = "pre" -> 5
    [] phase \in {"units", "unit"} -> 4
    [] phase = "post" -> 3
    [] phase = "loopback" -> 2
    [] phase \in {"waiting", "deliver", "raise"} -> 1
    [] phase = "off" -> 0

UnitsLeft == IF phase \in {"units", "unit"} THEN Cardinality(Units \ visited) ELSE 0

BetweenUnits == IF phase = "units" THEN 1 ELSE 0
RetriesLeft == Cardinality(Retries)
StagesLeft == End - pos
ToRun == IF step = "top" THEN 1 ELSE 0

Rank == <<Turn, Stretch, UnitsLeft, BetweenUnits, RetriesLeft, StagesLeft, ToRun>>

Ranks == [1..7 -> Nat]
Descent == LexProductOrdering(OpToRel(<, Nat), Nat, 7)

\* Nothing descends for ever.
LEMMA DescentEnds == IsWellFoundedOn(Descent, Ranks)
BY NatLessThanWellFounded, WFLexProductOrdering DEF Descent, Ranks

\* The first place where two ranks differ decides.
LEMMA Descends ==
  ASSUME NEW s \in Ranks, NEW t \in Ranks, NEW j \in 1..7,
         \A i \in 1..(j - 1) : s[i] = t[i], s[j] < t[j]
  PROVE  <<s, t>> \in Descent
<1>1. <<s[j], t[j]>> \in OpToRel(<, Nat)
  BY DEF OpToRel, Ranks
<1> QED BY <1>1 DEF LexProductOrdering, Descent, Ranks

\* Retries are limited,
LEMMA RetriesFinite == ASSUME TypeOK PROVE IsFiniteSet(Retries)
<1> DEFINE f == [s \in LoopStages |-> {s} \X (1..MaxRetries[s])]
           T == {f[s] : s \in LoopStages}
<1>1. IsFiniteSet(LoopStages)
  <2>1. LoopStages \subseteq 1..N /\ N \in Nat
    BY PartsApart
  <2>2. IsFiniteSet(1..N)
    BY <2>1, FS_Interval
  <2> QED BY <2>1, <2>2, FS_Subset
<1>2. IsFiniteSet(T)
  <2>1. f \in Surjection(LoopStages, T)
    <3>1. f \in [LoopStages -> T]
      OBVIOUS
    <3>2. \A X \in T : \E s \in LoopStages : f[s] = X
      OBVIOUS
    <3> QED BY <3>1, <3>2 DEF Surjection
  <2> HIDE DEF f, T
  <2> QED BY <1>1, <2>1, FS_Surjection
<1>3. \A X \in T : IsFiniteSet(X)
  <2>1. ASSUME NEW s \in LoopStages PROVE IsFiniteSet(f[s])
    <3>1. MaxRetries[s] \in Nat
      BY MultiUnitAssumption
    <3>2. IsFiniteSet({s})
      BY FS_Singleton
    <3>3. IsFiniteSet(1..MaxRetries[s])
      BY <3>1, FS_Interval
    <3>4. IsFiniteSet({s} \X (1..MaxRetries[s]))
      BY <3>2, <3>3, FS_Product
    <3> QED BY <3>4
  <2> HIDE DEF f
  <2> QED BY <2>1
<1>4. IsFiniteSet(UNION T)
  <2> HIDE DEF T
  <2> QED BY <1>2, <1>3, FS_UNION
<1>5. Retries \subseteq UNION T
  <2>1. ASSUME NEW t \in Retries PROVE t \in UNION T
    <3>1. /\ t \in LoopStages \X Nat /\ t[1] \in LoopStages /\ t[2] \in Nat
          /\ loops[t[1]] \in Nat /\ MaxRetries[t[1]] \in Nat
          /\ loops[t[1]] < t[2] /\ t[2] <= MaxRetries[t[1]]
      BY MultiUnitAssumption DEF Retries, TypeOK
    <3>2. t[2] \in 1..MaxRetries[t[1]]
      BY <3>1
    <3>3. t \in f[t[1]]
      BY <3>1, <3>2
    <3> QED BY <3>1, <3>3
  <2> QED BY <2>1
<1> QED BY <1>4, <1>5, FS_Subset

\* and a loopback uses one of them up.
LEMMA RetrySpent ==
  ASSUME TypeOK, pos \in LoopStages, loops' = [loops EXCEPT ![pos] = @ + 1],
         loops'[pos] <= MaxRetries[pos]
  PROVE  Cardinality(Retries') < Cardinality(Retries)
<1>1. /\ loops \in [LoopStages -> Nat] /\ loops'[pos] = loops[pos] + 1
      /\ loops[pos] \in Nat /\ MaxRetries[pos] \in Nat
      /\ \A s \in LoopStages : s # pos => loops'[s] = loops[s]
  BY MultiUnitAssumption DEF TypeOK
<1>2. Retries' \subseteq Retries
  <2>1. \A s \in LoopStages : loops[s] \in Nat /\ loops'[s] \in Nat /\ loops[s] <= loops'[s]
    BY <1>1
  <2> QED BY <2>1 DEF Retries
<1>3. <<pos, loops[pos] + 1>> \in Retries /\ <<pos, loops[pos] + 1>> \notin Retries'
  BY <1>1 DEF Retries
<1>4. IsFiniteSet(Retries)
  BY RetriesFinite
<1>5. /\ IsFiniteSet(Retries') /\ Cardinality(Retries') <= Cardinality(Retries)
      /\ Cardinality(Retries') # Cardinality(Retries)
  BY <1>2, <1>3, <1>4, FS_Subset
<1>6. Cardinality(Retries) \in Nat /\ Cardinality(Retries') \in Nat
  BY <1>4, <1>5, FS_CardinalityType
<1> QED BY <1>5, <1>6

\* The ranks are ranks.
LEMMA RankType == TypeOK => Rank \in Ranks
<1> SUFFICES ASSUME TypeOK PROVE Rank \in Ranks
  OBVIOUS
<1>1. Turn \in Nat /\ BetweenUnits \in Nat /\ ToRun \in Nat
  BY DEF Turn, BetweenUnits, ToRun
<1>2. Stretch \in Nat
  BY DEF TypeOK, Stretch
<1>3. UnitsLeft \in Nat
  <2>1. IsFiniteSet(Units \ visited)
    BY MultiUnitAssumption, FS_Difference
  <2>2. Cardinality(Units \ visited) \in Nat
    BY <2>1, FS_CardinalityType
  <2> QED BY <2>2 DEF UnitsLeft
<1>4. RetriesLeft \in Nat
  BY RetriesFinite, FS_CardinalityType DEF RetriesLeft
<1>5. StagesLeft \in Nat
  BY MultiUnitAssumption DEF StagesLeft, TypeOK, End
<1> QED BY <1>1, <1>2, <1>3, <1>4, <1>5 DEF Rank, Ranks

\* The part that comes first among those that change is lower.
Lower ==
  \/ Turn' < Turn
  \/ /\ Turn' = Turn
     /\ \/ Stretch' < Stretch
        \/ /\ Stretch' = Stretch
           /\ \/ UnitsLeft' < UnitsLeft
              \/ /\ UnitsLeft' = UnitsLeft
                 /\ \/ BetweenUnits' < BetweenUnits
                    \/ /\ BetweenUnits' = BetweenUnits
                       /\ \/ RetriesLeft' < RetriesLeft
                          \/ /\ RetriesLeft' = RetriesLeft
                             /\ \/ StagesLeft' < StagesLeft
                                \/ StagesLeft' = StagesLeft /\ ToRun' < ToRun

Falling == <<Rank', Rank>> \in Descent

LEMMA Falls == ASSUME Rank \in Ranks, Rank' \in Ranks, Lower PROVE Falling
<1> DEFINE s == Rank'
           t == Rank
<1>1. /\ t[1] = Turn /\ t[2] = Stretch /\ t[3] = UnitsLeft /\ t[4] = BetweenUnits
      /\ t[5] = RetriesLeft /\ t[6] = StagesLeft /\ t[7] = ToRun
      /\ s[1] = Turn' /\ s[2] = Stretch' /\ s[3] = UnitsLeft' /\ s[4] = BetweenUnits'
      /\ s[5] = RetriesLeft' /\ s[6] = StagesLeft' /\ s[7] = ToRun'
  BY DEF Rank
<1>2. PICK j \in 1..7 : s[j] < t[j] /\ \A i \in 1..7 : i < j => s[i] = t[i]
  <2> HIDE DEF s, t
  <2>1. \/ s[1] < t[1]
        \/ s[1] = t[1] /\ s[2] < t[2]
        \/ s[1] = t[1] /\ s[2] = t[2] /\ s[3] < t[3]
        \/ s[1] = t[1] /\ s[2] = t[2] /\ s[3] = t[3] /\ s[4] < t[4]
        \/ s[1] = t[1] /\ s[2] = t[2] /\ s[3] = t[3] /\ s[4] = t[4] /\ s[5] < t[5]
        \/ /\ s[1] = t[1] /\ s[2] = t[2] /\ s[3] = t[3] /\ s[4] = t[4] /\ s[5] = t[5]
           /\ s[6] < t[6]
        \/ /\ s[1] = t[1] /\ s[2] = t[2] /\ s[3] = t[3] /\ s[4] = t[4] /\ s[5] = t[5]
           /\ s[6] = t[6] /\ s[7] < t[7]
    BY <1>1 DEF Lower
  <2>2. \A i \in 1..7 : i \in {1, 2, 3, 4, 5, 6, 7}
    OBVIOUS
  <2> QED BY <2>1, <2>2
<1>3. s \in Ranks /\ t \in Ranks
  OBVIOUS
<1> HIDE DEF s, t
<1>4. \A i \in 1..(j - 1) : s[i] = t[i]
  BY <1>2
<1>5. <<s, t>> \in Descent
  BY <1>2, <1>3, <1>4, Descends
<1> QED BY <1>5 DEF s, t, Falling

\* A rejection has used the decision up.
TurnInv == Settling("rejected") => pending = NoDecision

LEMMA TurnKept == ASSUME TypeOK, TurnInv, Next PROVE TurnInv'
<1> USE DEF TurnInv, Settling, Running, NoDecision
<1>1. CASE Start \/ SplitFails \/ Resume \/ Decide \/ Crash
  BY <1>1 DEF Start, SplitFails, Resume, Decide, Relaunch, Launch, Enter, Crash, place, memory
<1>2. CASE RunStage \/ AwaitDecision \/ RefuseDecision \/ TakeDecision
  BY <1>2 DEF RunStage, AwaitDecision, RefuseDecision, TakeDecision, Run
<1>3. CASE PassOver \/ Stopped \/ StageFailed \/ GiveUp \/ RejectedNowhere \/ Pause
  BY <1>3 DEF PassOver, Stopped, StageFailed, GiveUp, RejectedNowhere, Raise, Pause, memory
<1>4. CASE StageCompleted \/ ChangesRequested \/ RejectedWithin
  BY <1>4 DEF StageCompleted, ChangesRequested, RejectedWithin, BackTo, GoTo
<1>5. CASE RejectedToUnits \/ EnterUnits \/ EndUnit \/ EndUnits \/ ResetUnits \/ EndPost
  BY <1>5 DEF RejectedToUnits, EnterUnits, EndUnit, EndUnits, ResetUnits, EndPost, memory,
              Enter, AtEnd
<1>6. ASSUME NEW u \in Units, PassUnit(u) \/ BeginUnit(u) PROVE TurnInv'
  BY <1>6 DEF PassUnit, BeginUnit, Enter, memory
<1>7. CASE ReturnPaused \/ ReturnFailed \/ Deliver
  BY <1>7 DEF ReturnPaused, ReturnFailed, Deliver, Exit
<1> QED BY <1>1, <1>2, <1>3, <1>4, <1>5, <1>6, <1>7 DEF Next, Worker

\* What decides the first parts of the rank stays.
LEMMA SameTurn ==
  /\ pending' = pending /\ pending # NoDecision => Turn' = Turn
  /\ pending' = pending /\ step = "top" /\ step' = "top" /\ phase # "loopback"
       /\ phase' # "loopback" => Turn' = Turn
BY DEF Turn, Settling

LEMMA SameRetries == loops' = loops => RetriesLeft' = RetriesLeft
BY DEF RetriesLeft, Retries

\* A stage runs: a decision is used up, or the stage is to be settled now.
LEMMA RunFalls ==
  ASSUME Inductive, Running, step = "top",
         NEW o \in Outcomes, NEW ds, Run(o, ds),
         \/ pending' = pending /\ o # "rejected"
         \/ pending # NoDecision /\ pending' = NoDecision
  PROVE  Lower
<1>1. /\ phase' = phase /\ pos' = pos /\ loops' = loops /\ visited' = visited
      /\ outcome' = o /\ step' = "settle"
  BY DEF Run
<1>2. CASE pending # NoDecision /\ pending' = NoDecision
  BY <1>2 DEF Lower, Turn
<1>3. CASE pending' = pending /\ o # "rejected"
  <2>1. Turn' = Turn
    BY <1>1, <1>3 DEF Turn, Settling
  <2>2. /\ Stretch' = Stretch /\ UnitsLeft' = UnitsLeft /\ BetweenUnits' = BetweenUnits
        /\ StagesLeft' = StagesLeft
    BY <1>1 DEF Stretch, UnitsLeft, BetweenUnits, StagesLeft
  <2>3. RetriesLeft' = RetriesLeft
    BY <1>1, SameRetries
  <2>4. ToRun' < ToRun
    BY <1>1 DEF ToRun
  <2> QED BY <2>1, <2>2, <2>3, <2>4 DEF Lower
<1> QED BY <1>2, <1>3

\* The worker moves on to a later stage of its part.
LEMMA AheadFalls ==
  ASSUME Inductive, Running, step' = "top", pos \in Part, pos' = NextIn(Part, pos),
         phase' = phase, visited' = visited, loops' = loops, pending' = pending,
         step = "top" \/ outcome # "rejected"
  PROVE  Lower
<1>1. pos' \in Nat /\ pos' > pos /\ pos' <= End
  <2>1. N \in Nat /\ Part \subseteq 1..N
    BY PartIs, PartsApart DEF Running
  <2>2. Part \in SUBSET Stages /\ pos \in 0..N
    BY <2>1 DEF Stages
  <2>3. NextIn(Part, pos) \in (pos + 1)..End
    BY <2>2, NextInFound
  <2> QED BY <2>1, <2>3, MultiUnitAssumption DEF End
<1>2. Turn' = Turn
  BY DEF Turn, Settling, Running
<1>3. /\ Stretch' = Stretch /\ UnitsLeft' = UnitsLeft /\ BetweenUnits' = BetweenUnits
      /\ RetriesLeft' = RetriesLeft
  BY SameRetries DEF Stretch, UnitsLeft, BetweenUnits
<1>4. StagesLeft' < StagesLeft
  <2>1. N \in Nat /\ pos \in 0..(N + 1) /\ pos' \in Nat
    BY PartsApart, <1>1 DEF End, Inductive, TypeOK
  <2> QED BY <1>1, <2>1 DEF StagesLeft, End
<1> QED BY <1>2, <1>3, <1>4 DEF Lower

\* One unit fewer is left.
LEMMA UnitPassed ==
  ASSUME NEW u \in Units \ visited, visited' = visited \cup {u},
         phase \in {"units", "unit"}, phase' = "units"
  PROVE  UnitsLeft' < UnitsLeft
<1>1. Units \ visited' = (Units \ visited) \ {u}
  OBVIOUS
<1>2. IsFiniteSet(Units \ visited)
  BY MultiUnitAssumption, FS_Difference
<1>3. /\ Cardinality((Units \ visited) \ {u}) = Cardinality(Units \ visited) - 1
      /\ Cardinality(Units \ visited) \in Nat
  BY <1>2, FS_RemoveElement, FS_CardinalityType
<1> QED BY <1>1, <1>3 DEF UnitsLeft

\* Every step of a live worker, and its death, lowers the rank.
LEMMA StepFalls ==
  ASSUME Inductive, OrderInv, TurnInv, phase # "off", Worker \/ Crash
  PROVE  Lower
<1> USE DEF Inductive
<1>1. CASE PassOver
  <2>1. /\ Running /\ step' = "top" /\ pos \in Part /\ pos' = NextIn(Part, pos)
        /\ phase' = phase /\ visited' = visited /\ loops' = loops /\ pending' = pending
        /\ step = "top"
    BY <1>1 DEF PassOver, memory
  <2> QED BY <2>1, AheadFalls
<1>2. CASE RunStage
  <2>1. PICK o \in {"pass", "failed", "changes", "waiting"} : Run(o, decisions)
    BY <1>2 DEF RunStage
  <2>2. /\ Running /\ step = "top" /\ o \in Outcomes /\ o # "rejected"
        /\ pending' = pending
    BY <1>2, <2>1 DEF RunStage, AtStage, Outcomes
  <2> QED BY <2>1, <2>2, RunFalls
<1>3. CASE AwaitDecision
  <2>1. /\ Running /\ step = "top" /\ Run("waiting", decisions) /\ pending' = pending
        /\ "waiting" \in Outcomes
    BY <1>3 DEF AwaitDecision, AtStage, Outcomes
  <2> QED BY <2>1, RunFalls
<1>4. CASE RefuseDecision
  <2>1. /\ Running /\ step = "top" /\ Run("failed", decisions) /\ pending' = NoDecision
        /\ pending # NoDecision /\ "failed" \in Outcomes
    BY <1>4 DEF RefuseDecision, AtStage, Outcomes, Offered
  <2> QED BY <2>1, RunFalls
<1>5. CASE TakeDecision
  <2>1. PICK o \in {"pass", "rejected"} : Run(o, Append(decisions, pending))
    BY <1>5 DEF TakeDecision
  <2>2. pos \in Stages
    BY <1>5, PartIs, PartsApart DEF TakeDecision, AtStage, Running, Stages
  <2>3. /\ Running /\ step = "top" /\ pending' = NoDecision
        /\ pending # NoDecision /\ o \in Outcomes
    BY <1>5, <2>2, MultiUnitAssumption
    DEF TakeDecision, AtStage, Outcomes, Offered, NoDecision, Stages
  <2> QED BY <2>1, <2>3, RunFalls
<1>6. CASE StageCompleted
  <2>1. /\ Running /\ step' = "top" /\ pos \in Part /\ pos' = NextIn(Part, pos)
        /\ phase' = phase /\ visited' = visited /\ loops' = loops /\ pending' = pending
        /\ outcome # "rejected"
    BY <1>6 DEF StageCompleted, Settling, GoTo, PlaceInv
  <2> QED BY <2>1, AheadFalls
<1>7. CASE ChangesRequested
  <2>1. /\ Running /\ step = "settle" /\ outcome = "changes" /\ pos \in LoopStages
        /\ loops' = [loops EXCEPT ![pos] = @ + 1] /\ loops'[pos] <= MaxRetries[pos]
        /\ step' = "top" /\ phase' = phase /\ visited' = visited /\ pending' = pending
    BY <1>7 DEF ChangesRequested, Settling, BackTo, GoTo, PlaceInv
  <2>2. RetriesLeft' < RetriesLeft
    BY <2>1, RetrySpent DEF RetriesLeft
  <2>3. Turn' = Turn
    BY <2>1 DEF Turn, Settling, Running
  <2>4. Stretch' = Stretch /\ UnitsLeft' = UnitsLeft /\ BetweenUnits' = BetweenUnits
    BY <2>1 DEF Stretch, UnitsLeft, BetweenUnits
  <2> QED BY <2>2, <2>3, <2>4 DEF Lower
<1>8. CASE RejectedWithin
  <2>1. /\ Settling("rejected") /\ pending = NoDecision /\ pending' = pending
        /\ step' = "top" /\ phase' = phase /\ phase # "loopback"
    BY <1>8 DEF RejectedWithin, BackTo, GoTo, TurnInv, Settling, Running
  <2>2. Turn' = 0 /\ Turn = 1
    BY <2>1 DEF Turn, Settling
  <2> QED BY <2>2 DEF Lower
<1>9. CASE RejectedToUnits
  <2>1. /\ pending' = pending /\ Settling("rejected") /\ phase = "post" /\ phase' = "loopback"
    BY <1>9 DEF RejectedToUnits, memory
  <2>2. Turn' = Turn
    BY <2>1 DEF Turn
  <2>3. Stretch' < Stretch
    BY <2>1 DEF Stretch
  <2> QED BY <2>2, <2>3 DEF Lower
<1>10. CASE ResetUnits
  <2>1. /\ pending' = NoDecision /\ phase = "loopback" /\ phase' = "units"
    BY <1>10 DEF ResetUnits
  <2>2. Turn' = 0 /\ Turn \in {1, 2}
    BY <2>1 DEF Turn, Settling, Running
  <2> QED BY <2>2 DEF Lower
<1>11. ASSUME NEW u \in Units, PassUnit(u) PROVE Lower
  <2>1. u \in Units \ visited /\ visited' = visited \cup {u}
    BY <1>11 DEF PassUnit, NextUnit
  <2>2. /\ phase = "units" /\ phase' = "units" /\ step' = step /\ pending' = pending
    BY <1>11 DEF PassUnit, memory
  <2>3. Turn' = Turn /\ Stretch' = Stretch
    BY <2>2 DEF Turn, Settling, Running, Stretch
  <2>4. UnitsLeft' < UnitsLeft
    BY <2>1, <2>2, UnitPassed
  <2> QED BY <2>3, <2>4 DEF Lower
<1>12. CASE EndUnit
  <2>1. /\ phase = "unit" /\ phase' = "units" /\ step' = "top" /\ step = "top"
        /\ pending' = pending /\ visited' = visited \cup {unit}
    BY <1>12 DEF EndUnit, AtEnd
  <2>2. unit \in Units \ visited
    BY <2>1 DEF OrderInv, PlaceInv, InUnit
  <2>3. Turn' = Turn /\ Stretch' = Stretch
    BY <2>1 DEF Turn, Settling, Running, Stretch
  <2>4. UnitsLeft' < UnitsLeft
    BY <2>1, <2>2, UnitPassed
  <2> QED BY <2>3, <2>4 DEF Lower
<1>13. ASSUME NEW u \in Units, BeginUnit(u) PROVE Lower
  <2>1. /\ phase = "units" /\ phase' = "unit" /\ step' = "top" /\ pending' = pending
        /\ visited' = visited
    BY <1>13 DEF BeginUnit, Enter
  <2>2. /\ Turn' = Turn /\ Stretch' = Stretch /\ UnitsLeft' = UnitsLeft
        /\ BetweenUnits' < BetweenUnits
    BY <2>1 DEF Turn, Settling, Running, Stretch, UnitsLeft, BetweenUnits
  <2> QED BY <2>2 DEF Lower
<1>14. CASE Stopped \/ StageFailed \/ GiveUp \/ RejectedNowhere \/ Pause
  <2>1. /\ Running /\ pending' = pending /\ phase' \in {"raise", "waiting"}
    BY <1>14 DEF Stopped, StageFailed, GiveUp, RejectedNowhere, Raise, Pause, Settling
  <2>2. Stretch' < Stretch /\ Turn' <= Turn
    BY <2>1 DEF Stretch, Turn, Settling, Running
  <2> QED BY <2>2 DEF Lower, Turn
<1>15. CASE EnterUnits \/ EndUnits \/ EndPost
  <2>1. /\ pending' = pending
        /\ phase' = "post" => step' = "top"
        /\ \/ phase = "pre" /\ step = "top" /\ phase' \in {"raise", "units"}
           \/ phase = "units" /\ phase' \in {"deliver", "post"}
           \/ phase = "post" /\ step = "top" /\ phase' = "deliver"
    BY <1>15 DEF EnterUnits, EndUnits, EndPost, AtEnd, Enter, memory
  <2>2. Stretch' < Stretch
    BY <2>1 DEF Stretch
  <2>3. Turn' = Turn
    BY <2>1 DEF Turn, Settling, Running
  <2> QED BY <2>2, <2>3 DEF Lower
<1>16. CASE ReturnPaused \/ ReturnFailed \/ Deliver \/ Crash
  <2>1. pending' = pending /\ phase # "off" /\ phase' = "off"
    BY <1>16 DEF ReturnPaused, ReturnFailed, Deliver, Exit, Crash, memory
  <2>2. Stretch' < Stretch /\ Turn' <= Turn
    BY <2>1 DEF Stretch, Turn, Settling, Running, TypeOK
  <2> QED BY <2>2 DEF Lower, Turn
<1> QED BY <1>1, <1>2, <1>3, <1>4, <1>5, <1>6, <1>7, <1>8, <1>9, <1>10, <1>11, <1>12,
           <1>13, <1>14, <1>15, <1>16 DEF Worker

\* Every step of a live worker brings the attempt nearer to its end, by a
\* measure that cannot descend for ever: no retries, rejections or units keep it
\* busy without end (orchestrator.py 581-585, 744-806).
THEOREM AttemptDescends ==
  Spec => [][phase # "off" => <<Rank', Rank>> \in Descent]_vars
<1>1. TypeOK => Rank \in Ranks
  BY RankType
<1>2. Init => TurnInv
  BY DEF Init, TurnInv
<1>3. TypeOK /\ TurnInv /\ [Next]_vars => TurnInv'
  <2>1. ASSUME TurnInv, UNCHANGED vars PROVE TurnInv'
    BY <2>1 DEF vars, place, memory, TurnInv, Settling, Running
  <2> QED BY <2>1, TurnKept
<1>4. ASSUME Inductive, OrderInv, TurnInv, Rank \in Ranks, (Rank \in Ranks)',
             Next, phase # "off"
      PROVE  <<Rank', Rank>> \in Descent
  <2>1. Worker \/ Crash
    BY <1>4 DEF Next, Start, SplitFails, Resume, Decide, Relaunch
  <2>2. Lower
    BY <1>4, <2>1, StepFalls
  <2> QED BY <1>4, <2>2, Falls DEF Falling
<1>5. Inductive => TypeOK
  BY DEF Inductive
<1>6. UnitsInductive => Inductive /\ OrderInv
  BY DEF UnitsInductive
<1>7. Inductive /\ OrderInv /\ TurnInv /\ Rank \in Ranks /\ (Rank \in Ranks)'
        /\ [Next]_vars => [phase # "off" => <<Rank', Rank>> \in Descent]_vars
  BY <1>4
<1> QED BY <1>1, <1>2, <1>3, <1>5, <1>6, <1>7, UnitsAreInvariant, UnitsStayInOrder, PTL
        DEF Spec

=============================================================================
