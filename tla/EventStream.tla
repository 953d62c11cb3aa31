----------------------------- MODULE EventStream -----------------------------
(***************************************************************************)
(* What a page that shows a run gets to see of it (src/engine/events.py,   *)
(* src/api/ws.py, src/web/src/pages/RunDetail.tsx).  The threads of an     *)
(* attempt emit events.  Each is published on the Redis channel of the run *)
(* and then handed to a daemon thread of its own, which writes a row of    *)
(* run_events, so rows are written in any order or not at all.  The page   *)
(* fetches the report once and connects: the server sends it the rows it   *)
(* finds, then subscribes to the channel and forwards what comes.  The     *)
(* event run:completed makes the page fetch the report again.              *)
(*                                                                         *)
(* One attempt and one page: attempts and pages share nothing but the      *)
(* channel and the table.                                                  *)
(***************************************************************************)
EXTENDS Integers, Sequences, FiniteSets

CONSTANTS
  Emitters,    \* threads of the attempt that emit
  Main,        \* the one of orchestrator.run
  MaxEvents,   \* bound: events of a thread before run:completed
  MaxMishaps   \* bound: failures of Redis, the database and the connection

ASSUME EventStreamAssumption ==
  /\ IsFiniteSet(Emitters) /\ Main \in Emitters
  /\ MaxEvents \in [Emitters -> Nat] /\ MaxMishaps \in Nat

\* An event is known by its thread and its number there.
Event(e, n) == [by |-> e, n |-> n]
Completed == Event(Main, MaxEvents[Main] + 1)
Events == [by : Emitters, n : Nat \ {0}]

\* A state event made up from the tables when there are no rows.
Legacy == [by |-> "tables", n |-> 0]

Reports == {"running", "over"}

VARIABLES
  made,      \* events a thread has emitted
  hand,      \* what a thread is doing with the last of them
  writing,   \* events whose writer thread is at work
  rows,      \* run_events of the run, in the order of id
  worker,    \* the worker process: working, writing the report, gone
  report,    \* what GET /runs/{id} answers
  redis,     \* DBEventStore has a connection
  line,      \* the connection of the page, as the server sees it
  history,   \* what was loaded to be sent first
  inbox,     \* messages of the channel that wait to be forwarded
  shown,     \* what was sent on this connection
  page,      \* the report the page shows
  asked,     \* requests for the report that are under way
  answers,   \* answers that are under way
  mishaps    \* bookkeeping of the bound

emitting == <<made, hand, writing, worker, report, redis>>
serving == <<line, history, inbox, shown>>
showing == <<page, asked, answers>>
vars == <<emitting, rows, serving, showing, mishaps>>

TypeOK ==
  /\ made \in [Emitters -> Nat]
  /\ hand \in [Emitters -> {"free", "publish", "store"}]
  /\ writing \subseteq Events
  /\ rows \in Seq(Events)
  /\ worker \in {"working", "reporting", "leaving", "gone"}
  /\ report \in Reports /\ redis \in BOOLEAN
  /\ line \in {"closed", "history", "legacy", "sending", "joining", "live", "deaf"}
  /\ history \in Seq(Events \cup {Legacy}) /\ inbox \in Seq(Events)
  /\ shown \in Seq(Events \cup {Legacy})
  /\ page \in Reports /\ asked \in Nat /\ answers \subseteq Reports
  /\ mishaps \in 0..MaxMishaps

\* The ping of DBEventStore may fail: then the attempt publishes nothing.
Init ==
  /\ made = [e \in Emitters |-> 0] /\ hand = [e \in Emitters |-> "free"]
  /\ writing = {} /\ rows = <<>>
  /\ worker = "working" /\ report = "running" /\ redis \in BOOLEAN
  /\ line = "closed" /\ history = <<>> /\ inbox = <<>> /\ shown = <<>>
  /\ page = "running" /\ asked = 0 /\ answers = {}
  /\ mishaps = 0

Mishap == mishaps < MaxMishaps /\ mishaps' = mishaps + 1

-----------------------------------------------------------------------------
(* The worker.                                                             *)

Latest(e) == Event(e, made[e])

Emit(e) ==
  /\ worker = "working" /\ hand[e] = "free"
  /\ \/ made[e] < MaxEvents[e]
     \* run:completed is emitted when the threads of the agents are done.
     \/ /\ e = Main /\ made[e] = MaxEvents[e]
        /\ \A f \in Emitters : hand[f] = "free"
  /\ made' = [made EXCEPT ![e] = @ + 1]
  /\ hand' = [hand EXCEPT ![e] = "publish"]
  /\ worker' = IF e = Main /\ made[e] = MaxEvents[e] THEN "reporting" ELSE worker
  /\ UNCHANGED <<writing, rows, report, redis, serving, showing, mishaps>>

\* Mutant: the server subscribes before it reads the history.
SubscribedAtOnce == line \notin {"closed", "deaf"}

\* Nobody keeps a message for those who are not subscribed.
Subscribed == line = "live"

Publish(e) ==
  /\ worker # "gone" /\ hand[e] = "publish"
  /\ hand' = [hand EXCEPT ![e] = "store"]
  /\ inbox' = IF redis /\ Subscribed THEN Append(inbox, Latest(e)) ELSE inbox
  /\ UNCHANGED <<made, writing, rows, worker, report, redis, line, history, shown,
                 showing, mishaps>>

PublishFails(e) ==
  /\ worker # "gone" /\ hand[e] = "publish" /\ redis
  /\ Mishap
  /\ hand' = [hand EXCEPT ![e] = "store"]
  /\ UNCHANGED <<made, writing, rows, worker, report, redis, serving, showing>>

Store(e) ==
  /\ worker # "gone" /\ hand[e] = "store"
  /\ hand' = [hand EXCEPT ![e] = "free"]
  /\ writing' = writing \cup {Latest(e)}
  /\ UNCHANGED <<made, rows, worker, report, redis, serving, showing, mishaps>>

\* _write_db, _async_write: each thread hands its insert to the one loop.
Write(ev) ==
  /\ ev \in writing
  /\ writing' = writing \ {ev}
  /\ rows' = Append(rows, ev)
  /\ UNCHANGED <<made, hand, worker, report, redis, serving, showing, mishaps>>

WriteFails(ev) ==
  /\ ev \in writing
  /\ Mishap
  /\ writing' = writing \ {ev}
  /\ UNCHANGED <<made, hand, rows, worker, report, redis, serving, showing>>

\* report.json and the tables are written after run:completed was emitted.
WriteReport ==
  /\ worker = "reporting" /\ hand[Main] = "free"
  /\ report' = "over"
  /\ worker' = "leaving"
  /\ UNCHANGED <<made, hand, writing, rows, redis, serving, showing, mishaps>>

\* The process of the job ends, or dies, and its daemon threads with it.
Leave ==
  /\ \/ worker = "leaving" /\ UNCHANGED mishaps
     \/ worker \in {"working", "reporting"} /\ Mishap
  /\ worker' = "gone"
  /\ writing' = {}
  /\ hand' = [e \in Emitters |-> "free"]
  /\ UNCHANGED <<made, rows, report, redis, serving, showing>>

-----------------------------------------------------------------------------
(* The server, for one connection (run_events).                            *)

Serve(place) ==
  /\ line' = place
  /\ UNCHANGED <<emitting, rows, mishaps>>

Accept ==
  /\ line = "closed"
  /\ Serve("history")
  /\ history' = <<>> /\ inbox' = <<>> /\ shown' = <<>>
  /\ UNCHANGED showing

\* _load_db_events: the rows there are now.
LoadHistory ==
  /\ line = "history" /\ rows # <<>>
  /\ Serve("sending")
  /\ history' = rows
  /\ UNCHANGED <<inbox, shown, showing>>

LoadNothing ==
  /\ line = "history" /\ rows = <<>>
  /\ Serve("legacy")
  /\ UNCHANGED <<history, inbox, shown, showing>>

\* A database that does not answer looks like a run without events.
LoadFails ==
  /\ line = "history"
  /\ Mishap
  /\ line' = "legacy"
  /\ UNCHANGED <<emitting, rows, history, inbox, shown, showing>>

\* _load_legacy_db_events: the row of the run may not be there.
LoadLegacy ==
  /\ line = "legacy"
  /\ Serve("sending")
  /\ \/ history' = <<Legacy>> \/ UNCHANGED history
  /\ UNCHANGED <<inbox, shown, showing>>

\* Mutant: only what comes live makes the page fetch the report.
ShowLive(ev) ==
  /\ shown' = Append(shown, ev)
  /\ asked' = IF ev = Completed /\ line = "live" THEN asked + 1 ELSE asked
  /\ UNCHANGED <<page, answers>>

\* What the page does with an event it is sent.
Show(ev) ==
  /\ shown' = Append(shown, ev)
  /\ asked' = IF ev = Completed THEN asked + 1 ELSE asked
  /\ UNCHANGED <<page, answers>>

SendHistory ==
  /\ line = "sending" /\ Len(shown) < Len(history)
  /\ Serve(line)
  /\ Show(history[Len(shown) + 1])
  /\ UNCHANGED <<history, inbox>>

\* What is published before the subscription stands is missed.
HistorySent ==
  /\ line = "sending" /\ Len(shown) = Len(history)
  /\ Serve("joining")
  /\ UNCHANGED <<history, inbox, shown, showing>>

\* _try_redis_subscribe.
Subscribe ==
  /\ line = "joining"
  /\ Serve("live")
  /\ UNCHANGED <<history, inbox, shown, showing>>

Forward ==
  /\ line = "live" /\ inbox # <<>>
  /\ Serve(line)
  /\ Show(Head(inbox)) /\ inbox' = Tail(inbox)
  /\ UNCHANGED history

\* Redis is away: the task ends, the connection stays open and says nothing.
GoDeaf ==
  /\ line \in {"joining", "live"}
  /\ Mishap
  /\ line' = "deaf" /\ inbox' = <<>>
  /\ UNCHANGED <<emitting, rows, history, shown, showing>>

-----------------------------------------------------------------------------
(* The page.                                                               *)

\* The connection breaks; the page connects again after a while.
Break ==
  /\ line # "closed"
  /\ Mishap
  /\ line' = "closed" /\ inbox' = <<>>
  /\ UNCHANGED <<emitting, rows, history, shown, showing>>

Answer ==
  /\ asked > 0
  /\ asked' = asked - 1
  /\ answers' = answers \cup {report}
  /\ UNCHANGED <<emitting, rows, serving, page, mishaps>>

\* A fetch that fails is not repeated.
AnswerFails ==
  /\ asked > 0
  /\ Mishap
  /\ asked' = asked - 1
  /\ UNCHANGED <<emitting, rows, serving, page, answers>>

\* Answers come in any order, and the last to come is what is shown.
TakeAnswer(r) ==
  /\ r \in answers
  /\ answers' = answers \ {r}
  /\ page' = r
  /\ UNCHANGED <<emitting, rows, serving, asked, mishaps>>

-----------------------------------------------------------------------------
(* Specification.                                                          *)

Server ==
  \/ Accept \/ LoadHistory \/ LoadNothing \/ LoadLegacy \/ SendHistory
  \/ HistorySent \/ Subscribe \/ Forward

Next ==
  \/ \E e \in Emitters : Emit(e) \/ Publish(e) \/ PublishFails(e) \/ Store(e)
  \/ \E ev \in writing : Write(ev) \/ WriteFails(ev)
  \/ WriteReport \/ Leave
  \/ Server \/ LoadFails \/ GoDeaf \/ Break
  \/ Answer \/ AnswerFails \/ \E r \in answers : TakeAnswer(r)

Spec == Init /\ [][Next]_vars

\* The event loop of the server and the browser go on.
FairSpec ==
  Spec /\ WF_vars(Server) /\ WF_vars(Answer) /\ WF_vars(\E r \in answers : TakeAnswer(r))

-----------------------------------------------------------------------------
(* Properties.                                                             *)

\* What a connection shows live goes on where its history ended: no event
\* twice, and none of a thread before an earlier one of it.  It rests on the
\* order of publishing and writing, on that of reading the history and
\* subscribing, and on each thread publishing its own events.  (DBEventStore.
\* publish, run_events.)  The rows themselves come in any order.
LiveFollowsHistory ==
  \A i, j \in DOMAIN shown :
    (i < j /\ Len(history) < j /\ shown[i].by = shown[j].by)
      => shown[i].n < shown[j].n

\* A page that connects when the run is over and its last event is recorded
\* gets to know it, once nothing fails any more.  (run_events; RunDetail.tsx
\* 230-242 fetches the report when it is sent run:completed.)
EndIsLearnt ==
  ( /\ mishaps = MaxMishaps
    /\ report = "over" /\ \E i \in DOMAIN rows : rows[i] = Completed
    /\ line \in {"closed", "history"} )
  ~> page = "over"

-----------------------------------------------------------------------------
(* What one would expect and does not hold.                                *)

\* A page that hears the live events shows a run that is over as over, when
\* nothing is under way any more: run:completed may pass between the history
\* and the subscription, and the report is written only after it.
LivePageIsCurrent ==
  (line = "live" /\ worker = "gone" /\ inbox = <<>> /\ asked = 0 /\ answers = {})
    => page = report
=============================================================================
