----------------------------- MODULE TaskBoard -----------------------------
(***************************************************************************)
(* The task board (src/engine/task_board.py): one aggregate record per     *)
(* task, one event file per event, a derived snapshot, and a lock file     *)
(* created exclusively.  A call of record_task_event is a process of its   *)
(* own: workers of several runs and requests of the public route call it   *)
(* at the same time, and each may die at any step.                         *)
(*                                                                         *)
(* A record is its state and its state_history, the history given by the   *)
(* calls whose events it holds; the fields _apply_event copies or merges   *)
(* beside them are left out.  Every caller asks for a snapshot.            *)
(***************************************************************************)
EXTENDS Integers, Sequences, SequencesExt

CONSTANTS
  Calls,    \* the calls of record_task_event
  Public,   \* those that come from POST /task-board/events
  Tasks,    \* task ids
  Files,    \* file names in .ai/harness/tasks
  FileOf,   \* _slug: two ids may share a file
  States,   \* task states besides "accepted"
  Names,    \* event file names a request chooses: created_at and event_id
  Free      \* the lock file does not exist

ASSUME BoardAssumption ==
  /\ Public \subseteq Calls
  /\ FileOf \in [Tasks -> Files]
  /\ Free \notin Calls
  /\ {"accepted", "none"} \cap States = {}
  /\ "fresh" \notin Names

AllStates == States \cup {"accepted"}

\* approved: source_stage is acceptance_confirm and decision is approved.
\* name "fresh": the engine names the file after a new uuid.
Events == [task : Tasks, state : AllStates, approved : BOOLEAN,
           name : Names \cup {"fresh"}]

\* A record that exists has the event that created it.
NoRecord == [state |-> "none", history |-> <<>>]
Records == {NoRecord} \cup
             [state : AllStates, history : Seq(Calls) \ {<<>>}]
Boards == [Files -> Records]

VARIABLES
  pc,       \* where each call is
  event,    \* the event each call records
  record,   \* the record a call holds in memory
  seen,     \* the records a call has read for the snapshot
  lock,     \* .task-board.lock: the call that created it, or Free
  records,  \* tasks/*.json
  log,      \* task-events/*.json: the file of each call's event
  snapshot  \* task-board.json

files == <<lock, records, log, snapshot>>
vars == <<pc, event, record, seen, files>>

Inside == {"locked", "loaded", "stored", "created", "logged", "collected",
           "leaving", "clash"}
Ended == {"returned", "refused", "timeout", "failed", "dead"}

TypeOK ==
  /\ pc \in [Calls -> {"new", "waiting"} \cup Inside \cup Ended]
  /\ event \in [Calls -> Events]
  /\ record \in [Calls -> Records]
  /\ seen \in [Calls -> Boards]
  /\ lock \in Calls \cup {Free}
  /\ records \in Boards
  /\ log \in [Calls -> {"none", "empty", "written"}]
  /\ snapshot \in Boards

EmptyBoard == [f \in Files |-> NoRecord]

Init ==
  /\ pc = [c \in Calls |-> "new"]
  /\ event \in [Calls -> Events]
  /\ \A c \in Calls \ Public : event[c].name = "fresh"
  /\ record = [c \in Calls |-> NoRecord]
  /\ seen = [c \in Calls |-> EmptyBoard]
  /\ lock = Free
  /\ records = EmptyBoard
  /\ log = [c \in Calls |-> "none"]
  /\ snapshot = EmptyBoard

-----------------------------------------------------------------------------
File(c) == FileOf[event[c].task]

Step(c, from, to) ==
  /\ pc[c] = from
  /\ pc' = [pc EXCEPT ![c] = to]

\* The public route never takes "accepted"; the board itself takes it only
\* with the approved decision of the acceptance gate.
Admitted(c) ==
  event[c].state = "accepted" => event[c].approved /\ c \notin Public

Submit(c) ==
  /\ Admitted(c)
  /\ Step(c, "new", "waiting")
  /\ UNCHANGED <<event, record, seen, files>>

Refuse(c) ==
  /\ ~Admitted(c)
  /\ Step(c, "new", "refused")
  /\ UNCHANGED <<event, record, seen, files>>

\* Mutant: the lock file is opened, not created exclusively.
EnterAnyway(c) ==
  /\ Step(c, "waiting", "locked")
  /\ lock' = c
  /\ UNCHANGED <<event, record, seen, records, log, snapshot>>

\* The lock file is created, exclusively.
Enter(c) ==
  /\ lock = Free
  /\ Step(c, "waiting", "locked")
  /\ lock' = c
  /\ UNCHANGED <<event, record, seen, records, log, snapshot>>

\* Mutant: after the deadline a call goes ahead without the lock.
GiveUpWaiting(c) ==
  /\ lock # Free
  /\ Step(c, "waiting", "locked")
  /\ UNCHANGED <<event, record, seen, files>>

\* Mutant: there is no deadline.
NeverGiveUp(c) ==
  /\ FALSE
  /\ Step(c, "waiting", "timeout")
  /\ UNCHANGED <<event, record, seen, files>>

\* The file still exists when the five seconds are over.
GiveUp(c) ==
  /\ lock # Free
  /\ Step(c, "waiting", "timeout")
  /\ UNCHANGED <<event, record, seen, files>>

\* Mutant: the last event decides.
AppliedLast(r, c) ==
  [state |-> event[c].state, history |-> Append(r.history, c)]

\* Mutant: the event that creates a record is not put in its history.
AppliedToOld(r, c) ==
  [state |-> IF r.state = "accepted" THEN "accepted" ELSE event[c].state,
   history |-> IF r.state = "none" THEN <<>> ELSE Append(r.history, c)]

\* A record that is accepted stays accepted.
Applied(r, c) ==
  [state |-> IF r.state = "accepted" THEN "accepted" ELSE event[c].state,
   history |-> Append(r.history, c)]

Load(c) ==
  /\ Step(c, "locked", "loaded")
  /\ record' = [record EXCEPT ![c] = Applied(records[File(c)], c)]
  /\ UNCHANGED <<event, seen, files>>

\* Written beside the file, then renamed onto it.
Store(c) ==
  /\ Step(c, "loaded", "stored")
  /\ records' = [records EXCEPT ![File(c)] = record[c]]
  /\ UNCHANGED <<event, record, seen, lock, log, snapshot>>

SameName(c, d) == event[c].name = event[d].name /\ event[c].name # "fresh"
Taken(c) == \E d \in Calls : SameName(c, d) /\ log[d] # "none"

CreateEvent(c) ==
  /\ ~Taken(c)
  /\ Step(c, "stored", "created")
  /\ log' = [log EXCEPT ![c] = "empty"]
  /\ UNCHANGED <<event, record, seen, lock, records, snapshot>>

\* FileExistsError leaves the with block; the record is already stored.
EventExists(c) ==
  /\ Taken(c)
  /\ Step(c, "stored", "clash")
  /\ UNCHANGED <<event, record, seen, files>>

\* Mutant: no snapshot after the event.
WriteEventOnly(c) ==
  /\ Step(c, "created", "leaving")
  /\ log' = [log EXCEPT ![c] = "written"]
  /\ UNCHANGED <<event, record, seen, lock, records, snapshot>>

WriteEvent(c) ==
  /\ Step(c, "created", "logged")
  /\ log' = [log EXCEPT ![c] = "written"]
  /\ UNCHANGED <<event, record, seen, lock, records, snapshot>>

Collect(c) ==
  /\ Step(c, "logged", "collected")
  /\ seen' = [seen EXCEPT ![c] = records]
  /\ UNCHANGED <<event, record, files>>

SaveSnapshot(c) ==
  /\ Step(c, "collected", "leaving")
  /\ snapshot' = seen[c]
  /\ UNCHANGED <<event, record, seen, lock, records, log>>

Forget(c) ==
  /\ record' = [record EXCEPT ![c] = NoRecord]
  /\ seen' = [seen EXCEPT ![c] = EmptyBoard]

\* The lock file is removed, whether the block succeeded or raised.
Leave(c) ==
  /\ \/ Step(c, "leaving", "returned")
     \/ Step(c, "clash", "failed")
  /\ Forget(c)
  /\ lock' = Free
  /\ UNCHANGED <<event, records, log, snapshot>>

\* The process dies: the files stay, the lock file among them.
Crash(c) ==
  /\ pc[c] \in Inside \cup {"waiting"}
  /\ pc' = [pc EXCEPT ![c] = "dead"]
  /\ Forget(c)
  /\ UNCHANGED <<event, files>>

Advance(c) ==
  \/ Enter(c) \/ GiveUp(c) \/ Load(c) \/ Store(c) \/ CreateEvent(c)
  \/ EventExists(c) \/ WriteEvent(c) \/ Collect(c) \/ SaveSnapshot(c)
  \/ Leave(c)

Next ==
  \E c \in Calls : Submit(c) \/ Refuse(c) \/ Advance(c) \/ Crash(c)

Spec == Init /\ [][Next]_vars

\* A live process goes on; one that waits tries again until its deadline.
FairSpec == Spec /\ \A c \in Calls : WF_vars(Advance(c))

-----------------------------------------------------------------------------
(* Properties.                                                             *)

Holds(history, c) == \E i \in 1..Len(history) : history[i] = c

\* Concurrent calls do not overwrite each other: an event that was recorded,
\* or whose event file exists, is in the history of its task's record from
\* then on, whoever writes the record afterwards (record_task_event reads
\* and writes the whole record).
NothingIsLost ==
  \A c \in Calls :
    pc[c] \in {"returned", "failed"} \/ log[c] # "none" =>
      Holds(records[File(c)].history, c)

\* Every write of a record extends the history on disk; none goes back to
\* what another call has replaced meanwhile.
HistoriesGrow ==
  [][\A f \in Files : IsPrefix(records[f].history, records'[f].history)]_records

\* A record is accepted exactly if an approved acceptance is in its history,
\* and no request of the public route brought it; what came before or after
\* it, a rejection or a cancellation, does not matter (_apply_event).
AcceptedIsEarned ==
  \A f \in Files :
    records[f].state = "accepted" <=>
      \E i \in 1..Len(records[f].history) :
        LET c == records[f].history[i] IN
        event[c].state = "accepted" /\ event[c].approved /\ c \notin Public

\* task-board.json shows no event the records do not hold, even when a call
\* died between the two files or was refused its event file.
SnapshotTrails ==
  \A f \in Files : IsPrefix(snapshot[f].history, records[f].history)

\* With the lock free, task-board.json is the records, unless a call failed
\* after it stored its record (build_snapshot is the last step of the block).
SnapshotCatchesUp ==
  lock = Free /\ (\A c \in Calls : pc[c] # "failed") => snapshot = records

(* What these rest on: the lock keeps the others out of the block, and a   *)
(* call's memory is what the files were when it read them.                 *)
MutualExclusion ==
  \A c \in Calls : pc[c] \in Inside => lock = c

LockInv ==
  lock # Free => pc[lock] \in Inside \cup {"dead"}

CallInv ==
  \A c \in Calls :
    /\ pc[c] \in Inside => Admitted(c)
    /\ pc[c] = "waiting" => Admitted(c)
    /\ pc[c] = "loaded" => record[c] = Applied(records[File(c)], c)
    /\ pc[c] \in Inside \ {"locked", "loaded"} =>
         Holds(records[File(c)].history, c)
    /\ pc[c] = "collected" => seen[c] = records

Settled == lock = Free \/ pc[lock] \in {"locked", "loaded", "leaving"}

SettledInv ==
  Settled /\ (\A c \in Calls : pc[c] # "failed") => snapshot = records

BoardInv ==
  /\ TypeOK
  /\ MutualExclusion
  /\ LockInv
  /\ CallInv
  /\ NothingIsLost
  /\ AcceptedIsEarned
  /\ SnapshotTrails
  /\ SettledInv

\* To those who call it, the board behaves as if the calls took turns
\* (record_task_event holds the lock from its first read to its last write).
Turns == INSTANCE AtomicBoard WITH answered <- {c \in Calls : pc[c] = "returned"}

CallsTakeTurns == Turns!Spec

\* Every call that waits for the lock ends: it gets in and out, or gives up.
CallsEnd == \A c \in Calls : pc[c] = "waiting" ~> pc[c] \in Ended
=============================================================================
