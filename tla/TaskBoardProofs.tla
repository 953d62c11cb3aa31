-------------------------- MODULE TaskBoardProofs --------------------------
(***************************************************************************)
(* Theorems about TaskBoard: for any number of concurrent calls, any tasks *)
(* and any events, with a death of any call at any step.                   *)
(***************************************************************************)
EXTENDS TaskBoard, TLAPS, SequenceTheorems

-----------------------------------------------------------------------------
(* Histories.                                                              *)

Histories == Seq(Calls)

\* A prefix, entry by entry.
LEMMA PrefixEntries ==
  ASSUME NEW s \in Histories, NEW t \in Histories
  PROVE  IsPrefix(s, t) <=>
           Len(s) <= Len(t) /\ \A i \in 1..Len(s) : s[i] = t[i]
<1>1. ASSUME Len(s) <= Len(t)
      PROVE  SubSeq(s, 1, Len(s)) = SubSeq(t, 1, Len(s)) <=>
               \A i \in 1..Len(s) : s[i] = t[i]
  <2>1. /\ SubSeq(s, 1, Len(s)) \in Histories
        /\ Len(SubSeq(s, 1, Len(s))) = Len(s)
        /\ \A i \in 1..Len(s) : SubSeq(s, 1, Len(s))[i] = s[i]
    BY SubSeqProperties, LenProperties DEF Histories
  <2>2. /\ SubSeq(t, 1, Len(s)) \in Histories
        /\ Len(SubSeq(t, 1, Len(s))) = Len(s)
        /\ \A i \in 1..Len(s) : SubSeq(t, 1, Len(s))[i] = t[i]
    BY <1>1, SubSeqProperties, LenProperties DEF Histories
  <2> QED
    BY <2>1, <2>2, SeqEqual DEF Histories
<1> QED
  BY <1>1 DEF IsPrefix

\* A history is a prefix of itself, and appending to a history keeps the
\* prefixes it had.
LEMMA PrefixGrows ==
  ASSUME NEW s \in Histories, NEW t \in Histories, NEW c \in Calls
  PROVE  /\ IsPrefix(s, s)
         /\ IsPrefix(s, t) => IsPrefix(s, Append(t, c))
<1>1. /\ Append(t, c) \in Histories
      /\ Len(Append(t, c)) = Len(t) + 1
      /\ \A i \in 1..Len(t) : Append(t, c)[i] = t[i]
  BY AppendProperties DEF Histories
<1>2. Len(s) \in Nat /\ Len(t) \in Nat
  BY LenProperties DEF Histories
<1>3. IsPrefix(s, s)
  BY <1>2, PrefixEntries
<1>4. ASSUME IsPrefix(s, t) PROVE IsPrefix(s, Append(t, c))
  <2>1. Len(s) <= Len(t) /\ \A i \in 1..Len(s) : s[i] = t[i]
    BY <1>4, PrefixEntries
  <2>2. /\ Len(s) <= Len(Append(t, c))
        /\ \A i \in 1..Len(s) : s[i] = Append(t, c)[i]
    BY <1>1, <1>2, <2>1
  <2> QED
    BY <1>1, <2>2, PrefixEntries
<1> QED
  BY <1>3, <1>4

\* Appending a call adds it to a history that keeps what it holds.
LEMMA AppendHolds ==
  ASSUME NEW h \in Histories, NEW c \in Calls
  PROVE  /\ Append(h, c) \in Histories \ {<<>>}
         /\ Holds(Append(h, c), c)
         /\ \A d \in Calls : Holds(h, d) => Holds(Append(h, c), d)
         /\ \A i \in 1..Len(Append(h, c)) :
              \/ i \in 1..Len(h) /\ Append(h, c)[i] = h[i]
              \/ Append(h, c)[i] = c
<1>1. /\ Append(h, c) \in Histories
      /\ Len(Append(h, c)) = Len(h) + 1
      /\ \A i \in 1..Len(h) : Append(h, c)[i] = h[i]
      /\ Append(h, c)[Len(h) + 1] = c
      /\ Append(h, c) # <<>>
  BY AppendProperties DEF Histories
<1>2. Len(h) \in Nat
  BY LenProperties DEF Histories
<1>4. Holds(Append(h, c), c)
  BY <1>1, <1>2 DEF Holds
<1>5. ASSUME NEW d \in Calls, Holds(h, d) PROVE Holds(Append(h, c), d)
  <2>1. PICK i \in 1..Len(h) : h[i] = d
    BY <1>5 DEF Holds
  <2>2. i \in 1..Len(Append(h, c)) /\ Append(h, c)[i] = d
    BY <1>1, <1>2, <2>1
  <2> QED
    BY <2>2 DEF Holds
<1>6. \A i \in 1..Len(Append(h, c)) :
        \/ i \in 1..Len(h) /\ Append(h, c)[i] = h[i]
        \/ Append(h, c)[i] = c
  <2>1. \A i \in 1..Len(Append(h, c)) : i \in 1..Len(h) \/ i = Len(h) + 1
    BY <1>1, <1>2
  <2> QED
    BY <1>1, <2>1
<1> QED
  BY <1>1, <1>4, <1>5, <1>6

-----------------------------------------------------------------------------
(* Type correctness.                                                       *)

\* A record has a history and a state.
LEMMA RecordType ==
  ASSUME NEW r \in Records
  PROVE  r.history \in Histories /\ r.state \in AllStates \cup {"none"}
<1>1. <<>> \in Histories
  BY DEF Histories
<1>2. CASE r = NoRecord
  BY <1>1, <1>2 DEF NoRecord
<1>3. CASE r \in [state : AllStates, history : Seq(Calls) \ {<<>>}]
  BY <1>3 DEF Histories
<1> QED
  BY <1>2, <1>3 DEF Records

\* Applying an event gives a record.
LEMMA AppliedType ==
  ASSUME NEW r \in Records, NEW c \in Calls, event[c] \in Events
  PROVE  /\ Applied(r, c) \in Records
         /\ r.history \in Histories
         /\ Applied(r, c).history = Append(r.history, c)
<1>1. r.history \in Histories /\ r.state \in AllStates \cup {"none"}
  BY RecordType
<1>2. Append(r.history, c) \in Histories \ {<<>>}
  BY <1>1, AppendHolds
<1>3. (IF r.state = "accepted" THEN "accepted" ELSE event[c].state) \in AllStates
  BY DEF AllStates, Events
<1> QED
  BY <1>1, <1>2, <1>3 DEF Applied, Records, Histories

\* The initial state is of the right types.
LEMMA InitType == Init => TypeOK
<1>1. NoRecord \in Records
  BY DEF Records
<1>2. EmptyBoard \in Boards
  BY <1>1 DEF EmptyBoard, Boards
<1> QED
  BY <1>1, <1>2 DEF Init, TypeOK

\* Each step keeps the types.
LEMMA NextType == TypeOK /\ [Next]_vars => TypeOK'
<1> SUFFICES ASSUME TypeOK, [Next]_vars PROVE TypeOK'
  OBVIOUS
<1>0. NoRecord \in Records /\ EmptyBoard \in Boards
  BY DEF Records, EmptyBoard, Boards
<1>1. CASE UNCHANGED vars
  BY <1>1 DEF TypeOK, vars, files
<1>2. ASSUME NEW c \in Calls, Submit(c) \/ Refuse(c) PROVE TypeOK'
  BY <1>2 DEF TypeOK, Submit, Refuse, Step, files, Ended
<1>3. ASSUME NEW c \in Calls, Enter(c) \/ GiveUp(c) PROVE TypeOK'
  BY <1>3 DEF TypeOK, Enter, GiveUp, Step, files, Inside, Ended
<1>4. ASSUME NEW c \in Calls, Load(c) PROVE TypeOK'
  <2>1. File(c) \in Files
    BY BoardAssumption DEF TypeOK, File, Events
  <2>2. Applied(records[File(c)], c) \in Records
    BY <2>1, AppliedType DEF TypeOK, Boards
  <2> QED
    BY <1>4, <2>2 DEF TypeOK, Load, Step, files, Inside
<1>5. ASSUME NEW c \in Calls, Store(c) PROVE TypeOK'
  BY <1>5 DEF TypeOK, Store, Step, Inside, Boards
<1>6. ASSUME NEW c \in Calls, CreateEvent(c) \/ EventExists(c) \/ WriteEvent(c)
      PROVE TypeOK'
  BY <1>6 DEF TypeOK, CreateEvent, EventExists, WriteEvent, Step, Inside, files
<1>7. ASSUME NEW c \in Calls, Collect(c) \/ SaveSnapshot(c) PROVE TypeOK'
  BY <1>7 DEF TypeOK, Collect, SaveSnapshot, Step, Inside, files
<1>8. ASSUME NEW c \in Calls, Leave(c) \/ Crash(c) PROVE TypeOK'
  BY <1>0, <1>8 DEF TypeOK, Leave, Crash, Forget, Step, Ended, files
<1> QED
  BY <1>1, <1>2, <1>3, <1>4, <1>5, <1>6, <1>7, <1>8 DEF Next, Advance

\* The variables keep their types, whatever the calls do.
THEOREM TypeCorrect == Spec => []TypeOK
BY InitType, NextType, PTL DEF Spec

-----------------------------------------------------------------------------
(* The records change in one way only.                                     *)

\* A store appends the event of the one call that holds the lock.
StoredBy(c) ==
  /\ Store(c)
  /\ pc[c] = "loaded"
  /\ Admitted(c)
  /\ records' = [records EXCEPT ![File(c)] = Applied(records[File(c)], c)]

\* A step either leaves the records alone or is such a store.
LEMMA RecordsStep ==
  ASSUME TypeOK, CallInv, [Next]_vars
  PROVE  records' = records \/ \E c \in Calls : StoredBy(c)
<1>1. ASSUME NEW c \in Calls, Store(c) PROVE StoredBy(c)
  BY <1>1 DEF Store, StoredBy, Step, CallInv, Inside
<1>2. ASSUME NEW c \in Calls, Submit(c) \/ Refuse(c) \/ Crash(c)
      PROVE  records' = records
  BY <1>2 DEF Submit, Refuse, Crash, files
<1>3. ASSUME NEW c \in Calls, Advance(c), ~Store(c) PROVE records' = records
  BY <1>3 DEF Advance, Enter, GiveUp, Load, CreateEvent, EventExists,
              WriteEvent, Collect, SaveSnapshot, Leave, files
<1>4. CASE UNCHANGED vars
  BY <1>4 DEF vars, files
<1> QED
  BY <1>1, <1>2, <1>3, <1>4 DEF Next, Advance

\* Events are what they were.
LEMMA EventStep == [Next]_vars => event' = event
BY DEF Next, Advance, Submit, Refuse, Crash, Enter, GiveUp, Load, Store,
       CreateEvent, EventExists, WriteEvent, Collect, SaveSnapshot, Leave, vars

\* No step removes a call from a history or shortens one.
LEMMA GrowStep ==
  ASSUME TypeOK, CallInv, [Next]_vars
  PROVE  \A f \in Files :
           /\ records[f].history \in Histories
           /\ IsPrefix(records[f].history, records'[f].history)
           /\ \A d \in Calls :
                Holds(records[f].history, d) => Holds(records'[f].history, d)
           /\ \A s \in Histories :
                IsPrefix(s, records[f].history) =>
                  IsPrefix(s, records'[f].history)
<1> SUFFICES ASSUME NEW f \in Files
             PROVE  /\ records[f].history \in Histories
                    /\ IsPrefix(records[f].history, records'[f].history)
                    /\ \A d \in Calls : Holds(records[f].history, d) =>
                                          Holds(records'[f].history, d)
                    /\ \A s \in Histories :
                         IsPrefix(s, records[f].history) =>
                           IsPrefix(s, records'[f].history)
  OBVIOUS
<1>1. records[f] \in Records /\ records[f].history \in Histories
  BY RecordType DEF TypeOK, Boards
<1>2. IsPrefix(records[f].history, records[f].history)
  <2>1. Len(records[f].history) \in Nat
    BY <1>1, LenProperties DEF Histories
  <2> QED
    BY <1>1, <2>1, PrefixEntries
<1>3. CASE records'[f] = records[f]
  BY <1>1, <1>2, <1>3
<1>4. CASE records'[f] # records[f]
  <2>1. PICK c \in Calls : StoredBy(c)
    BY <1>4, RecordsStep
  <2>2. records'[f] = Applied(records[f], c)
    BY <1>4, <2>1 DEF StoredBy, TypeOK, Boards
  <2>3. records'[f].history = Append(records[f].history, c)
    BY <2>2 DEF Applied
  <2> QED
    BY <1>1, <1>2, <2>3, AppendHolds, PrefixGrows
<1> QED
  BY <1>3, <1>4

-----------------------------------------------------------------------------
(* The inductive invariant.                                                *)

LockPart == MutualExclusion /\ LockInv

\* It holds before any call.
LEMMA InitBoard == Init => BoardInv
<1> SUFFICES ASSUME Init PROVE BoardInv
  OBVIOUS
<1>1. TypeOK
  BY InitType
<1>2. MutualExclusion /\ LockInv /\ CallInv
  BY DEF Init, MutualExclusion, LockInv, CallInv, Inside
<1>3. Len(<<>>) = 0
  OBVIOUS
<1>4. AcceptedIsEarned
  BY <1>3 DEF Init, AcceptedIsEarned, EmptyBoard, NoRecord
<1>5. SnapshotTrails
  <2>1. <<>> \in Histories
    BY DEF Histories
  <2>2. IsPrefix(<<>>, <<>>)
    BY <1>3, <2>1, PrefixEntries
  <2> QED
    BY <2>2 DEF Init, SnapshotTrails, EmptyBoard, NoRecord
<1>6. NothingIsLost /\ SettledInv
  BY DEF Init, NothingIsLost, SettledInv
<1> QED
  BY <1>1, <1>2, <1>4, <1>5, <1>6 DEF BoardInv

\* The lock file keeps everyone but its creator out of the block.
LEMMA LockStep ==
  ASSUME TypeOK, LockPart, [Next]_vars
  PROVE  LockPart'
<1> USE DEF LockPart, MutualExclusion, LockInv
<1>1. CASE UNCHANGED vars
  BY <1>1 DEF vars, files
<1>2. ASSUME NEW c \in Calls, Submit(c) \/ Refuse(c) \/ GiveUp(c)
      PROVE  LockPart'
  BY <1>2, BoardAssumption
     DEF TypeOK, Submit, Refuse, GiveUp, Step, files, Inside
<1>3. ASSUME NEW c \in Calls, Enter(c) PROVE LockPart'
  BY <1>3, BoardAssumption DEF TypeOK, Enter, Step, Inside
<1>4. ASSUME NEW c \in Calls, Leave(c) PROVE LockPart'
  BY <1>4, BoardAssumption DEF TypeOK, Leave, Step, Inside
<1>5. ASSUME NEW c \in Calls, Crash(c) PROVE LockPart'
  BY <1>5, BoardAssumption DEF TypeOK, Crash, files, Inside
<1>6. ASSUME NEW c \in Calls,
             Load(c) \/ Store(c) \/ CreateEvent(c) \/ EventExists(c)
               \/ WriteEvent(c) \/ Collect(c) \/ SaveSnapshot(c)
      PROVE  LockPart'
  BY <1>6, BoardAssumption
     DEF TypeOK, Load, Store, CreateEvent, EventExists, WriteEvent, Collect,
         SaveSnapshot, Step, files, Inside
<1> QED
  BY <1>1, <1>2, <1>3, <1>4, <1>5, <1>6 DEF Next, Advance

\* What a call holds in memory stays what it read, for no other call writes.
LEMMA CallStep ==
  ASSUME TypeOK, LockPart, CallInv, [Next]_vars
  PROVE  CallInv'
<1> DEFINE Part(d) ==
      /\ pc[d] \in Inside => Admitted(d)
      /\ pc[d] = "waiting" => Admitted(d)
      /\ pc[d] = "loaded" => record[d] = Applied(records[File(d)], d)
      /\ pc[d] \in Inside \ {"locked", "loaded"} =>
           Holds(records[File(d)].history, d)
      /\ pc[d] = "collected" => seen[d] = records
<1> SUFFICES ASSUME NEW d \in Calls PROVE Part(d)'
  BY DEF CallInv
<1>0. Part(d) /\ event' = event
  BY EventStep DEF CallInv
<1>1. CASE UNCHANGED vars
  BY <1>0, <1>1 DEF vars, files, Applied, Admitted, File, Holds
<1>2. ASSUME NEW c \in Calls, Store(c) PROVE Part(d)'
  <2>1. CASE d = c
    <3>1. record[c] = Applied(records[File(c)], c) /\ pc[c] = "loaded"
          /\ Admitted(c)
      BY <1>2 DEF Store, Step, CallInv, Inside
    <3>2. File(c) \in Files /\ records[File(c)] \in Records
      BY BoardAssumption DEF TypeOK, File, Events, Boards
    <3>3. records'[File(c)].history = Append(records[File(c)].history, c)
      BY <1>2, <3>1, <3>2 DEF Store, Applied, TypeOK, Boards
    <3>4. Holds(records'[File(c)].history, c)
      BY <3>2, <3>3, RecordType, AppendHolds
    <3>5. pc'[c] = "stored"
      BY <1>2 DEF Store, Step, TypeOK
    <3> QED
      BY <1>0, <2>1, <3>1, <3>4, <3>5 DEF Inside, Admitted, File
  <2>2. CASE d # c
    <3>1. pc[c] \in Inside /\ pc'[d] = pc[d]
      BY <1>2, <2>2 DEF Store, Step, Inside, TypeOK
    <3>2. pc[d] \notin Inside
      BY <2>2, <3>1 DEF LockPart, MutualExclusion
    <3> QED
      BY <1>0, <3>1, <3>2 DEF Inside, Admitted
  <2> QED
    BY <2>1, <2>2
<1>3. ASSUME NEW c \in Calls, Submit(c) \/ Refuse(c) \/ GiveUp(c) \/ Enter(c)
      PROVE  Part(d)'
  <2>1. /\ records' = records /\ record' = record /\ seen' = seen
        /\ \/ pc'[d] = pc[d]
           \/ pc'[d] \in {"refused", "timeout"}
           \/ /\ pc'[d] \in {"waiting", "locked"}
              /\ Admitted(d)
    BY <1>0, <1>3
       DEF Submit, Refuse, GiveUp, Enter, Step, TypeOK, files
  <2> QED
    BY <1>0, <2>1 DEF Inside, Applied, Admitted, File, Holds
<1>4. ASSUME NEW c \in Calls, Load(c) PROVE Part(d)'
  <2>1. /\ records' = records /\ seen' = seen
        /\ d # c => pc'[d] = pc[d] /\ record'[d] = record[d]
        /\ d = c => /\ pc[d] \in Inside /\ pc'[d] = "loaded"
                    /\ record'[d] = Applied(records[File(d)], d)
    BY <1>4 DEF Load, Step, TypeOK, files, Inside
  <2> QED
    BY <1>0, <2>1 DEF Inside, Applied, Admitted, File, Holds
<1>5. ASSUME NEW c \in Calls,
             CreateEvent(c) \/ EventExists(c) \/ WriteEvent(c)
               \/ SaveSnapshot(c)
      PROVE  Part(d)'
  <2>1. /\ records' = records /\ seen' = seen /\ record' = record
        /\ \/ pc'[d] = pc[d]
           \/ /\ pc'[d] \in {"created", "clash", "logged", "leaving"}
              /\ pc[d] \in Inside \ {"locked", "loaded"}
    BY <1>5 DEF CreateEvent, EventExists, WriteEvent, SaveSnapshot, Step,
                TypeOK, files, Inside
  <2> QED
    BY <1>0, <2>1 DEF Inside, Applied, Admitted, File, Holds
<1>6. ASSUME NEW c \in Calls, Collect(c) PROVE Part(d)'
  <2>1. /\ records' = records /\ record' = record
        /\ d # c => pc'[d] = pc[d] /\ seen'[d] = seen[d]
        /\ d = c => /\ pc[d] = "logged" /\ pc'[d] = "collected"
                    /\ seen'[d] = records
    BY <1>6 DEF Collect, Step, TypeOK, files
  <2> QED
    BY <1>0, <2>1 DEF Inside, Applied, Admitted, File, Holds
<1>7. ASSUME NEW c \in Calls, Leave(c) \/ Crash(c) PROVE Part(d)'
  <2>1. /\ records' = records
        /\ d # c => pc'[d] = pc[d] /\ seen'[d] = seen[d]
                     /\ record'[d] = record[d]
        /\ d = c => pc'[d] \in {"returned", "failed", "dead"}
    BY <1>7 DEF Leave, Crash, Forget, Step, TypeOK, files
  <2> QED
    BY <1>0, <2>1 DEF Inside, Applied, Admitted, File, Holds
<1> QED
  BY <1>1, <1>2, <1>3, <1>4, <1>5, <1>6, <1>7 DEF Next, Advance

\* A history keeps the calls it holds, and the event of a call with an event
\* file, or of a call that ended inside the block, was stored before.
LEMMA LossStep ==
  ASSUME TypeOK, CallInv, NothingIsLost, [Next]_vars
  PROVE  NothingIsLost'
<1> SUFFICES ASSUME NEW d \in Calls,
                    pc'[d] \in {"returned", "failed"} \/ log'[d] # "none"
             PROVE  Holds(records'[File(d)].history, d)
  BY EventStep DEF NothingIsLost, File, Holds
<1>1. File(d) \in Files
  BY BoardAssumption DEF TypeOK, File, Events
<1>2. \/ pc[d] \in {"returned", "failed"}
      \/ log[d] # "none"
      \/ pc[d] \in Inside \ {"locked", "loaded"}
  <2>1. CASE UNCHANGED vars
    BY <2>1 DEF vars, files
  <2>2. ASSUME NEW c \in Calls, CreateEvent(c) \/ WriteEvent(c) \/ Leave(c)
        PROVE  \/ pc[d] \in {"returned", "failed"}
               \/ log[d] # "none"
               \/ pc[d] \in Inside \ {"locked", "loaded"}
    BY <2>2 DEF CreateEvent, WriteEvent, Leave, Step, TypeOK, Inside
  <2>3. ASSUME NEW c \in Calls,
               Submit(c) \/ Refuse(c) \/ Enter(c) \/ GiveUp(c) \/ Load(c)
                 \/ Store(c) \/ EventExists(c) \/ Collect(c)
                 \/ SaveSnapshot(c) \/ Crash(c)
        PROVE  pc[d] \in {"returned", "failed"} \/ log[d] # "none"
    BY <2>3 DEF Submit, Refuse, Enter, GiveUp, Load, Store, EventExists,
                Collect, SaveSnapshot, Crash, Step, TypeOK, files
  <2> QED
    BY <2>1, <2>2, <2>3 DEF Next, Advance
<1>3. Holds(records[File(d)].history, d)
  BY <1>2 DEF NothingIsLost, CallInv
<1> QED
  BY <1>1, <1>3, GrowStep

\* Only an event that was let in can make a record accepted.
LEMMA EarnedStep ==
  ASSUME TypeOK, CallInv, AcceptedIsEarned, [Next]_vars
  PROVE  AcceptedIsEarned'
<1> DEFINE Earns(c) ==
      event[c].state = "accepted" /\ event[c].approved /\ c \notin Public
<1>0. event' = event
  BY EventStep
<1> SUFFICES ASSUME NEW f \in Files
             PROVE  records'[f].state = "accepted" <=>
                      \E i \in 1..Len(records'[f].history) :
                        Earns(records'[f].history[i])
  BY <1>0 DEF AcceptedIsEarned
<1>1. records[f].state = "accepted" <=>
        \E i \in 1..Len(records[f].history) : Earns(records[f].history[i])
  BY DEF AcceptedIsEarned
<1>2. CASE records'[f] = records[f]
  BY <1>1, <1>2
<1>3. CASE records'[f] # records[f]
  <2>1. PICK c \in Calls : StoredBy(c)
    BY <1>3, RecordsStep
  <2>2. records'[f] = Applied(records[f], c)
    BY <1>3, <2>1 DEF StoredBy, TypeOK, Boards
  <2> DEFINE h == records[f].history
  <2>3. h \in Histories
    BY RecordType DEF TypeOK, Boards
  <2>4. /\ records'[f].history = Append(h, c)
        /\ records'[f].state = IF records[f].state = "accepted"
                               THEN "accepted" ELSE event[c].state
    BY <2>2 DEF Applied
  <2>5. event[c].state = "accepted" <=> Earns(c)
    BY <2>1 DEF StoredBy, Admitted
  <2>6. \A i \in 1..Len(h) : i \in 1..Len(Append(h, c)) /\ Append(h, c)[i] = h[i]
    <3>1. Len(h) \in Nat /\ Len(Append(h, c)) = Len(h) + 1
          /\ \A i \in 1..Len(h) : Append(h, c)[i] = h[i]
      BY <2>3, AppendProperties, LenProperties DEF Histories
    <3> QED
      BY <3>1
  <2>7. PICK j \in 1..Len(Append(h, c)) : Append(h, c)[j] = c
    BY <2>3, AppendHolds DEF Holds
  <2>8. \A i \in 1..Len(Append(h, c)) :
          \/ i \in 1..Len(h) /\ Append(h, c)[i] = h[i]
          \/ Append(h, c)[i] = c
    BY <2>3, AppendHolds
  <2>9. (\E i \in 1..Len(Append(h, c)) : Earns(Append(h, c)[i])) <=>
          (\E i \in 1..Len(h) : Earns(h[i])) \/ Earns(c)
    <3> HIDE DEF Earns
    <3> QED
      BY <2>6, <2>7, <2>8
  <2> QED
    BY <1>1, <2>4, <2>5, <2>9
<1> QED
  BY <1>2, <1>3

\* The snapshot is a copy of the records, perhaps an old one.
LEMMA TrailStep ==
  ASSUME TypeOK, CallInv, SnapshotTrails, [Next]_vars
  PROVE  SnapshotTrails'
<1> SUFFICES ASSUME NEW f \in Files
             PROVE  IsPrefix(snapshot'[f].history, records'[f].history)
  BY DEF SnapshotTrails
<1>1. snapshot' = snapshot \/ snapshot' = records
  <2>1. ASSUME NEW c \in Calls, SaveSnapshot(c) PROVE snapshot' = records
    BY <2>1 DEF SaveSnapshot, Step, CallInv
  <2>2. ASSUME NEW c \in Calls, Submit(c) \/ Refuse(c) \/ Crash(c)
        PROVE  snapshot' = snapshot
    BY <2>2 DEF Submit, Refuse, Crash, files
  <2>3. ASSUME NEW c \in Calls, Advance(c), ~SaveSnapshot(c)
        PROVE  snapshot' = snapshot
    BY <2>3 DEF Advance, Enter, GiveUp, Load, Store, CreateEvent,
                EventExists, WriteEvent, Collect, Leave, files
  <2>4. CASE UNCHANGED vars
    BY <2>4 DEF vars, files
  <2> QED
    BY <2>1, <2>2, <2>3, <2>4 DEF Next, Advance
<1>2. snapshot[f].history \in Histories /\ records[f].history \in Histories
  BY RecordType DEF TypeOK, Boards
<1>3. IsPrefix(snapshot[f].history, records[f].history)
  BY DEF SnapshotTrails
<1>4. CASE snapshot' = snapshot
  BY <1>2, <1>3, <1>4, GrowStep
<1>5. CASE snapshot' = records
  BY <1>5, GrowStep
<1> QED
  BY <1>1, <1>4, <1>5

\* The call that leaves the block has just written what the records are.
LEMMA SettledStep ==
  ASSUME TypeOK, LockPart, CallInv, SettledInv, [Next]_vars
  PROVE  SettledInv'
<1> SUFFICES ASSUME Settled', \A c \in Calls : pc'[c] # "failed"
             PROVE  snapshot' = records'
  BY DEF SettledInv
<1> USE BoardAssumption
<1>1. CASE UNCHANGED vars
  BY <1>1 DEF vars, files, SettledInv, Settled
<1>2. ASSUME NEW c \in Calls, Submit(c) \/ Refuse(c) \/ GiveUp(c)
      PROVE  snapshot' = records'
  <2>1. /\ files' = files
        /\ pc[c] \in {"new", "waiting"}
        /\ \E s \in {"waiting", "refused", "timeout"} : pc' = [pc EXCEPT ![c] = s]
    BY <1>2 DEF Submit, Refuse, GiveUp, Step, files
  <2>2. lock # c
    BY <2>1 DEF LockPart, LockInv, Inside
  <2> QED
    BY <2>1, <2>2 DEF files, SettledInv, Settled, TypeOK
<1>3. ASSUME NEW c \in Calls, Enter(c) PROVE snapshot' = records'
  BY <1>3 DEF Enter, Step, SettledInv, Settled, TypeOK
<1>4. ASSUME NEW c \in Calls, Load(c) PROVE snapshot' = records'
  <2>1. lock = c
    BY <1>4 DEF Load, Step, LockPart, MutualExclusion, Inside
  <2> QED
    BY <1>4, <2>1 DEF Load, Step, files, SettledInv, Settled, TypeOK
<1>5. ASSUME NEW c \in Calls,
             Store(c) \/ CreateEvent(c) \/ EventExists(c) \/ WriteEvent(c)
               \/ Collect(c)
      PROVE  FALSE
  <2>1. /\ pc[c] \in Inside /\ lock' = lock
        /\ pc'[c] \in {"stored", "created", "clash", "logged", "collected"}
    BY <1>5 DEF Store, CreateEvent, EventExists, WriteEvent, Collect, Step,
                Inside, files, TypeOK
  <2> QED
    BY <2>1 DEF LockPart, MutualExclusion, Settled
<1>6. ASSUME NEW c \in Calls, SaveSnapshot(c) PROVE snapshot' = records'
  BY <1>6 DEF SaveSnapshot, Step, CallInv
<1>7. ASSUME NEW c \in Calls, Leave(c) PROVE snapshot' = records'
  <2>1. pc[c] = "leaving" /\ pc' = [pc EXCEPT ![c] = "returned"]
    BY <1>7 DEF Leave, Step, TypeOK
  <2>2. lock = c
    BY <2>1 DEF LockPart, MutualExclusion, Inside
  <2> QED
    BY <1>7, <2>1, <2>2 DEF Leave, SettledInv, Settled, TypeOK
<1>8. ASSUME NEW c \in Calls, Crash(c) PROVE snapshot' = records'
  <2>1. /\ files' = files /\ pc' = [pc EXCEPT ![c] = "dead"]
        /\ pc[c] \in Inside \cup {"waiting"}
    BY <1>8 DEF Crash, files
  <2>2. lock # c
    BY <2>1 DEF Settled, files, TypeOK
  <2> QED
    BY <2>1, <2>2 DEF files, SettledInv, Settled, TypeOK, Inside
<1> QED
  BY <1>1, <1>2, <1>3, <1>4, <1>5, <1>6, <1>7, <1>8 DEF Next, Advance

\* The invariant is inductive.
LEMMA NextBoard == BoardInv /\ [Next]_vars => BoardInv'
BY NextType, LockStep, CallStep, LossStep, EarnedStep, TrailStep, SettledStep
   DEF BoardInv, LockPart

\* It holds of every run.
LEMMA BoardInvariant == Spec => []BoardInv
BY InitBoard, NextBoard, PTL DEF Spec

-----------------------------------------------------------------------------
(* The properties.                                                         *)

\* Concurrent calls never lose an event: NothingIsLost holds for any calls.
THEOREM ConcurrentCallsAreKept == Spec => []NothingIsLost
<1>1. BoardInv => NothingIsLost
  BY DEF BoardInv
<1> QED
  BY <1>1, BoardInvariant, PTL

\* Histories only grow, whatever interleaving of loads and stores.
THEOREM NoOverwriting == Spec => HistoriesGrow
<1>1. BoardInv /\ [Next]_vars =>
        [\A f \in Files : IsPrefix(records[f].history, records'[f].history)]_records
  BY GrowStep DEF BoardInv
<1> QED
  BY <1>1, BoardInvariant, PTL DEF Spec, HistoriesGrow

\* The state "accepted" comes from an approved acceptance and from nothing else.
THEOREM AcceptanceIsEarned == Spec => []AcceptedIsEarned
<1>1. BoardInv => AcceptedIsEarned
  BY DEF BoardInv
<1> QED
  BY <1>1, BoardInvariant, PTL

\* The snapshot never runs ahead of the records.
THEOREM SnapshotIsBehind == Spec => []SnapshotTrails
<1>1. BoardInv => SnapshotTrails
  BY DEF BoardInv
<1> QED
  BY <1>1, BoardInvariant, PTL

\* With nobody at work and no call failed, the snapshot is the records.
THEOREM SnapshotIsCurrent == Spec => []SnapshotCatchesUp
<1>1. BoardInv => SnapshotCatchesUp
  BY DEF BoardInv, SettledInv, Settled, SnapshotCatchesUp
<1> QED
  BY <1>1, BoardInvariant, PTL

-----------------------------------------------------------------------------
(* The board behaves as if the calls took turns.                           *)

\* A call that has not stored its record is in no history, so that no event
\* is applied twice; and the call that leaves the block leaves a snapshot of
\* the records as they are.
TurnInv ==
  \A c \in Calls :
    /\ Holds(records[File(c)].history, c) =>
         pc[c] \notin {"new", "waiting", "locked", "loaded", "refused", "timeout"}
    /\ pc[c] = "leaving" => snapshot = records

\* A step keeps it: nobody else writes while a call holds the lock.
LEMMA TurnStep ==
  ASSUME TypeOK, LockPart, CallInv, TurnInv, [Next]_vars
  PROVE  TurnInv'
<1> DEFINE Part(d) ==
      /\ Holds(records[File(d)].history, d) =>
           pc[d] \notin {"new", "waiting", "locked", "loaded", "refused", "timeout"}
      /\ pc[d] = "leaving" => snapshot = records
<1> SUFFICES ASSUME NEW d \in Calls PROVE Part(d)'
  BY DEF TurnInv
<1>0. Part(d) /\ event' = event
  BY EventStep DEF TurnInv
<1>1. CASE UNCHANGED vars
  BY <1>0, <1>1 DEF vars, files, File, Holds
<1>2. ASSUME NEW c \in Calls, Store(c) PROVE Part(d)'
  <2>1. /\ records' = [records EXCEPT ![File(c)] = Applied(records[File(c)], c)]
        /\ pc[c] = "loaded" /\ pc' = [pc EXCEPT ![c] = "stored"]
    BY <1>2 DEF Store, Step, CallInv
  <2>2. pc'[d] # "leaving"
    <3>1. CASE d = c
      BY <2>1, <3>1 DEF TypeOK
    <3>2. CASE d # c
      BY <2>1, <3>2 DEF TypeOK, LockPart, MutualExclusion, Inside
    <3> QED BY <3>1, <3>2
  <2>3. CASE d = c
    BY <2>1, <2>2, <2>3 DEF TypeOK
  <2>4. CASE d # c
    <3>1. pc'[d] = pc[d]
      BY <2>1, <2>4 DEF TypeOK
    <3>2. ASSUME Holds(records'[File(d)].history, d)
          PROVE  Holds(records[File(d)].history, d)
      <4>1. File(d) \in Files /\ records[File(d)] \in Records
        BY BoardAssumption DEF TypeOK, File, Events, Boards
      <4>2. CASE File(d) # File(c)
        BY <2>1, <3>2, <4>1, <4>2 DEF TypeOK, Boards
      <4>3. CASE File(d) = File(c)
        <5> DEFINE h == records[File(d)].history
        <5>1. h \in Histories
          BY <4>1, RecordType
        <5>2. records'[File(d)].history = Append(h, c)
          BY <2>1, <4>1, <4>3 DEF TypeOK, Boards, Applied
        <5>3. PICK i \in 1..Len(Append(h, c)) : Append(h, c)[i] = d
          BY <3>2, <5>2 DEF Holds
        <5>4. i \in 1..Len(h) /\ h[i] = d
          BY <2>4, <5>1, <5>3, AppendHolds
        <5> QED BY <5>4 DEF Holds
      <4> QED BY <4>2, <4>3
    <3>3. File(d)' = File(d)
      BY <1>0 DEF File
    <3> QED BY <1>0, <2>2, <3>1, <3>2, <3>3 DEF Holds
  <2> QED BY <2>3, <2>4
<1>3. ASSUME NEW c \in Calls, SaveSnapshot(c) PROVE Part(d)'
  <2>1. /\ records' = records /\ snapshot' = records
        /\ pc[c] = "collected" /\ pc' = [pc EXCEPT ![c] = "leaving"]
    BY <1>3 DEF SaveSnapshot, Step, CallInv
  <2> QED BY <1>0, <2>1 DEF TypeOK, File, Holds
<1>4. ASSUME NEW c \in Calls,
             \/ Submit(c) \/ Refuse(c) \/ Enter(c) \/ GiveUp(c) \/ Load(c)
             \/ CreateEvent(c) \/ EventExists(c) \/ WriteEvent(c) \/ Collect(c)
             \/ Leave(c) \/ Crash(c)
      PROVE  Part(d)'
  <2>1. /\ records' = records
        /\ pc'[d] = "leaving" => pc[d] \in {"leaving"}
        /\ snapshot' = snapshot
    BY <1>4 DEF TypeOK, Submit, Refuse, Enter, GiveUp, Load, CreateEvent, EventExists,
                WriteEvent, Collect, Leave, Crash, Step, files
  <2>2. pc'[d] \in {"new", "waiting", "locked", "loaded", "refused", "timeout"} =>
          pc[d] \in {"new", "waiting", "locked", "loaded", "refused", "timeout"}
    BY <1>4 DEF TypeOK, Submit, Refuse, Enter, GiveUp, Load, CreateEvent, EventExists,
                WriteEvent, Collect, Leave, Crash, Step
  <2> QED BY <1>0, <2>1, <2>2 DEF File, Holds
<1> QED BY <1>1, <1>2, <1>3, <1>4 DEF Next, Advance

\* Every step is one of AtomicBoard, or one it does not see.
LEMMA TurnsStep ==
  ASSUME BoardInv, TurnInv, [Next]_vars
  PROVE  [Turns!Next]_(Turns!vars)
<1> USE DEF BoardInv
<1>0. event' = event
  BY EventStep
<1>1. CASE UNCHANGED vars
  BY <1>1 DEF vars, files, Turns!vars
<1>2. ASSUME NEW c \in Calls, Store(c) PROVE Turns!Record(c)
  <2>1. /\ records' = [records EXCEPT ![File(c)] = Applied(records[File(c)], c)]
        /\ pc[c] = "loaded" /\ pc' = [pc EXCEPT ![c] = "stored"] /\ Admitted(c)
        /\ snapshot' = snapshot
    BY <1>2 DEF Store, Step, CallInv, Inside
  <2>2. ~Turns!Recorded(c)
    BY <2>1 DEF TurnInv, Turns!Recorded, Holds, File
  <2>3. {x \in Calls : pc'[x] = "returned"} = {x \in Calls : pc[x] = "returned"}
    BY <2>1 DEF TypeOK
  <2>4. records' = [records EXCEPT ![FileOf[event[c].task]] =
                      [state |-> IF @.state = "accepted" THEN @.state ELSE event[c].state,
                       history |-> Append(@.history, c)]]
    BY <2>1 DEF Applied, File
  <2> QED BY <1>0, <2>1, <2>2, <2>3, <2>4 DEF Turns!Record, Turns!MayRecord, Admitted
<1>3. ASSUME NEW c \in Calls, SaveSnapshot(c) PROVE Turns!Publish
  <2>1. /\ records' = records /\ snapshot' = records
        /\ pc[c] = "collected" /\ pc' = [pc EXCEPT ![c] = "leaving"]
    BY <1>3 DEF SaveSnapshot, Step, CallInv
  <2>2. {x \in Calls : pc'[x] = "returned"} = {x \in Calls : pc[x] = "returned"}
    BY <2>1 DEF TypeOK
  <2> QED BY <1>0, <2>1, <2>2 DEF Turns!Publish
<1>4. ASSUME NEW c \in Calls, Leave(c), pc[c] = "leaving" PROVE Turns!Answer(c)
  <2>1. /\ records' = records /\ snapshot' = snapshot
        /\ pc' = [pc EXCEPT ![c] = "returned"]
    BY <1>4 DEF Leave, Step
  <2>2. Turns!Recorded(c) /\ snapshot = records
    BY <1>4 DEF TurnInv, CallInv, Inside, Turns!Recorded, Holds, File
  <2>3. {x \in Calls : pc'[x] = "returned"} =
          {x \in Calls : pc[x] = "returned"} \cup {c}
    BY <2>1 DEF TypeOK
  <2> QED BY <1>0, <2>1, <2>2, <2>3 DEF Turns!Answer
<1>5. ASSUME NEW c \in Calls,
             \/ Submit(c) \/ Refuse(c) \/ Enter(c) \/ GiveUp(c) \/ Load(c)
             \/ CreateEvent(c) \/ EventExists(c) \/ WriteEvent(c) \/ Collect(c)
             \/ (Leave(c) /\ pc[c] # "leaving") \/ Crash(c)
      PROVE  UNCHANGED Turns!vars
  <2>1. /\ records' = records /\ snapshot' = snapshot
        /\ \E s \in {"waiting", "refused", "locked", "timeout", "loaded", "created",
                     "clash", "logged", "collected", "failed", "dead"} :
             pc' = [pc EXCEPT ![c] = s] /\ pc[c] # "returned"
    BY <1>5 DEF Submit, Refuse, Enter, GiveUp, Load, CreateEvent, EventExists,
                WriteEvent, Collect, Leave, Crash, Step, files, Inside
  <2>2. {x \in Calls : pc'[x] = "returned"} = {x \in Calls : pc[x] = "returned"}
    BY <2>1 DEF TypeOK
  <2> QED BY <1>0, <2>1, <2>2 DEF Turns!vars
<1> QED BY <1>1, <1>2, <1>3, <1>4, <1>5 DEF Next, Advance, Turns!Next

\* Whatever calls run at the same time and wherever they die, it is as if each
\* had the board to itself: no event is lost, applied twice or applied to an
\* old record, and who is answered finds the event in the records and in the
\* snapshot.
THEOREM BoardIsAtomic == Spec => CallsTakeTurns
<1>1. Init => TurnInv
  <2> SUFFICES ASSUME Init PROVE TurnInv
    OBVIOUS
  <2>1. \A f \in Files : records[f].history = <<>>
    BY DEF Init, EmptyBoard, NoRecord
  <2>2. \A c \in Calls : File(c) \in Files
    BY BoardAssumption DEF Init, File, Events
  <2>3. \A c \in Calls : ~Holds(records[File(c)].history, c) /\ pc[c] # "leaving"
    BY <2>1, <2>2 DEF Holds, Init
  <2> QED BY <2>3 DEF TurnInv
<1>2. BoardInv /\ TurnInv /\ [Next]_vars => TurnInv'
  BY TurnStep DEF BoardInv, LockPart
<1>3. Init => Turns!Init
  BY DEF Init, Turns!Init, EmptyBoard, NoRecord
<1>4. BoardInv /\ TurnInv /\ [Next]_vars => [Turns!Next]_(Turns!vars)
  BY TurnsStep
<1> QED
  BY <1>1, <1>2, <1>3, <1>4, BoardInvariant, PTL DEF Spec, CallsTakeTurns, Turns!Spec

=============================================================================
