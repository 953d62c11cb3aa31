---------------------------- MODULE AtomicBoard ----------------------------
(***************************************************************************)
(* What the task board promises to those who record events on it at the    *)
(* same time: it is as if they took turns.  An event is applied, once, to  *)
(* its record as the record then is; what is published is what all of the  *)
(* records were at one moment; and a call that is answered finds its event *)
(* in its record and in what is published.                                 *)
(***************************************************************************)
EXTENDS Integers, Sequences

CONSTANTS
  Calls,    \* the calls, each with the event it records
  Public,   \* those that nobody has confirmed
  FileOf    \* the record of each task

VARIABLES
  event,      \* the event of each call
  records,    \* the records
  snapshot,   \* what is published of them
  answered    \* the calls that were told of their success

vars == <<event, records, snapshot, answered>>

Recorded(c) ==
  LET history == records[FileOf[event[c].task]].history IN
  \E i \in 1..Len(history) : history[i] = c

Init ==
  /\ \A f \in DOMAIN records : records[f] = [state |-> "none", history |-> <<>>]
  /\ snapshot = records
  /\ answered = {}

\* Only an approved acceptance makes a record accepted, and it is final.
MayRecord(c) ==
  event[c].state = "accepted" => event[c].approved /\ c \notin Public

Record(c) ==
  /\ MayRecord(c) /\ ~Recorded(c)
  /\ records' = [records EXCEPT ![FileOf[event[c].task]] =
                   [state |-> IF @.state = "accepted" THEN @.state ELSE event[c].state,
                    history |-> Append(@.history, c)]]
  /\ UNCHANGED <<event, snapshot, answered>>

Publish ==
  /\ snapshot' = records
  /\ UNCHANGED <<event, records, answered>>

Answer(c) ==
  /\ Recorded(c) /\ snapshot = records
  /\ answered' = answered \cup {c}
  /\ UNCHANGED <<event, records, snapshot>>

Next == Publish \/ \E c \in Calls : Record(c) \/ Answer(c)

Spec == Init /\ [][Next]_vars

=============================================================================
