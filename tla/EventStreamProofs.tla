------------------------- MODULE EventStreamProofs -------------------------
(***************************************************************************)
(* Proofs about EventStream, for every number of threads and events and    *)
(* any mishaps: what a connection shows live continues its history.        *)
(***************************************************************************)
EXTENDS EventStream, SequenceTheorems, TLAPS

-----------------------------------------------------------------------------
(* Sequences of what can be shown.                                         *)

Items == Events \cup {Legacy}

\* What appending does, entry by entry.
LEMMA Appended ==
  ASSUME NEW s \in Seq(Items), NEW ev \in Items
  PROVE  /\ Append(s, ev) \in Seq(Items)
         /\ Len(s) \in Nat /\ DOMAIN s = 1..Len(s)
         /\ Len(Append(s, ev)) = Len(s) + 1
         /\ DOMAIN Append(s, ev) = 1..(Len(s) + 1)
         /\ \A i \in 1..Len(s) : Append(s, ev)[i] = s[i]
         /\ Append(s, ev)[Len(s) + 1] = ev
<1>1. /\ Append(s, ev) \in Seq(Items)
      /\ Len(Append(s, ev)) = Len(s) + 1
      /\ \A i \in 1..Len(s) : Append(s, ev)[i] = s[i]
      /\ Append(s, ev)[Len(s) + 1] = ev
  BY AppendProperties
<1>2. Len(s) \in Nat /\ DOMAIN s = 1..Len(s)
  BY LenProperties
<1>3. DOMAIN Append(s, ev) = 1..Len(Append(s, ev))
  BY <1>1, LenProperties
<1> QED BY <1>1, <1>2, <1>3

\* What taking the head off does.
LEMMA Tailed ==
  ASSUME NEW s \in Seq(Items), s # <<>>
  PROVE  /\ Head(s) \in Items /\ Head(s) = s[1]
         /\ Tail(s) \in Seq(Items)
         /\ Len(s) \in Nat \ {0} /\ DOMAIN s = 1..Len(s)
         /\ DOMAIN Tail(s) = 1..(Len(s) - 1)
         /\ \A i \in 1..(Len(s) - 1) : Tail(s)[i] = s[i + 1]
<1>1. /\ Head(s) \in Items /\ Tail(s) \in Seq(Items)
      /\ Len(Tail(s)) = Len(s) - 1
      /\ \A i \in 1..Len(Tail(s)) : Tail(s)[i] = s[i + 1]
  BY HeadTailProperties
<1>2. Len(s) \in Nat \ {0} /\ DOMAIN s = 1..Len(s)
  BY LenProperties, EmptySeq
<1>3. DOMAIN Tail(s) = 1..Len(Tail(s))
  BY <1>1, LenProperties
<1> QED BY <1>1, <1>2, <1>3

-----------------------------------------------------------------------------
(* The inductive invariant.                                                *)

ShapeInv ==
  /\ made \in [Emitters -> Nat]
  /\ hand \in [Emitters -> {"free", "publish", "store"}]
  /\ \A e \in Emitters : hand[e] # "free" => made[e] > 0
  /\ writing \subseteq Events
  /\ rows \in Seq(Items) /\ history \in Seq(Items)
  /\ inbox \in Seq(Items) /\ shown \in Seq(Items)

\* What has left its thread: all that was emitted, except an event that is
\* just being published.
Known(ev) ==
  ev.by \in Emitters =>
    /\ ev.n <= made[ev.by]
    /\ hand[ev.by] = "publish" => ev.n < made[ev.by]

KnownInv ==
  /\ \A ev \in writing : Known(ev)
  /\ \A i \in DOMAIN rows : Known(rows[i])
  /\ \A i \in DOMAIN history : Known(history[i])
  /\ \A i \in DOMAIN inbox : Known(inbox[i])
  /\ \A i \in DOMAIN shown : Known(shown[i])

\* Where the server is says what has been sent, and whether anything waits.
LineInv ==
  /\ line \in {"history", "legacy"} => shown = <<>> /\ history = <<>>
  /\ line = "sending" => Len(shown) <= Len(history)
  /\ line # "live" => inbox = <<>>

Earlier(a, b) == a.by = b.by => a.n < b.n

OrderInv ==
  /\ \A i, j \in DOMAIN shown :
       i < j /\ Len(history) < j => Earlier(shown[i], shown[j])
  /\ \A i \in DOMAIN shown, j \in DOMAIN inbox : Earlier(shown[i], inbox[j])
  /\ \A i, j \in DOMAIN inbox : i < j => Earlier(inbox[i], inbox[j])

StreamInv == ShapeInv /\ KnownInv /\ LineInv /\ OrderInv

-----------------------------------------------------------------------------

\* Before the first event the table, the inbox and the page are empty.
LEMMA InitHolds == ASSUME Init PROVE StreamInv
<1>1. <<>> \in Seq(Items) /\ DOMAIN <<>> = {}
  BY EmptySeq
<1>2. ShapeInv
  BY <1>1 DEF Init, ShapeInv
<1>3. KnownInv
  BY <1>1 DEF Init, KnownInv
<1>4. LineInv
  BY DEF Init, LineInv
<1>5. OrderInv
  BY <1>1 DEF Init, OrderInv
<1> QED BY <1>2, <1>3, <1>4, <1>5 DEF StreamInv

\* What a thread emits is an event once it has emitted something.
LEMMA LatestIsEvent ==
  ASSUME ShapeInv, NEW e \in Emitters, hand[e] # "free"
  PROVE  Latest(e) \in Events /\ Latest(e) \in Items
         /\ Latest(e).by = e /\ Latest(e).n = made[e]
BY DEF ShapeInv, Latest, Event, Events, Items

\* Events, rows and messages keep their shape.
LEMMA ShapeKept == ASSUME StreamInv, Next PROVE ShapeInv'
<1> USE DEF ShapeInv, StreamInv
<1>0. <<>> \in Seq(Items) /\ <<Legacy>> \in Seq(Items)
  BY DEF Items
<1>1. ASSUME NEW e \in Emitters, Emit(e) PROVE ShapeInv'
  BY <1>1 DEF Emit, serving
<1>2. ASSUME NEW e \in Emitters, Publish(e) PROVE ShapeInv'
  <2>1. Latest(e) \in Items
    BY <1>2, LatestIsEvent DEF Publish
  <2>2. Append(inbox, Latest(e)) \in Seq(Items)
    BY <2>1, Appended
  <2> QED BY <1>2, <2>2 DEF Publish
<1>3. ASSUME NEW e \in Emitters, PublishFails(e) PROVE ShapeInv'
  BY <1>3 DEF PublishFails, serving
<1>4. ASSUME NEW e \in Emitters, Store(e) PROVE ShapeInv'
  <2>1. Latest(e) \in Events
    BY <1>4, LatestIsEvent DEF Store
  <2> QED BY <1>4, <2>1 DEF Store, serving
<1>5. ASSUME NEW ev \in writing, Write(ev) PROVE ShapeInv'
  <2>1. Append(rows, ev) \in Seq(Items)
    BY Appended DEF Items
  <2> QED BY <1>5, <2>1 DEF Write, serving
<1>6. ASSUME NEW ev \in writing, WriteFails(ev) PROVE ShapeInv'
  BY <1>6 DEF WriteFails, serving
<1>7. ASSUME WriteReport \/ Leave PROVE ShapeInv'
  BY <1>7 DEF WriteReport, Leave, serving
<1>8. ASSUME Accept \/ LoadHistory \/ LoadNothing \/ LoadFails \/ LoadLegacy \/ HistorySent
             \/ Subscribe \/ GoDeaf \/ Break
      PROVE ShapeInv'
  BY <1>0, <1>8 DEF Accept, LoadHistory, LoadNothing, LoadFails, LoadLegacy, HistorySent,
                    Subscribe, GoDeaf, Break, Serve, emitting
<1>9. ASSUME SendHistory PROVE ShapeInv'
  <2>1. history[Len(shown) + 1] \in Items
    BY <1>9, LenProperties, ElementOfSeq DEF SendHistory
  <2>2. Append(shown, history[Len(shown) + 1]) \in Seq(Items)
    BY <2>1, Appended
  <2> QED BY <1>9, <2>2 DEF SendHistory, Serve, Show, emitting
<1>10. ASSUME Forward PROVE ShapeInv'
  <2>1. Append(shown, Head(inbox)) \in Seq(Items) /\ Tail(inbox) \in Seq(Items)
    BY <1>10, Tailed, Appended DEF Forward
  <2> QED BY <1>10, <2>1 DEF Forward, Serve, Show, emitting
<1>11. ASSUME Answer \/ AnswerFails \/ \E r \in answers : TakeAnswer(r) PROVE ShapeInv'
  BY <1>11 DEF Answer, AnswerFails, TakeAnswer, emitting, serving
<1> QED BY <1>1, <1>2, <1>3, <1>4, <1>5, <1>6, <1>7, <1>8, <1>9, <1>10, <1>11
        DEF Next, Server

\* Nothing waits in the inbox unless the page is live, nor is shown unsent.
LEMMA LineKept == ASSUME StreamInv, Next PROVE LineInv'
<1> USE DEF LineInv, StreamInv, ShapeInv
<1>1. ASSUME NEW e \in Emitters, Emit(e) \/ PublishFails(e) \/ Store(e) PROVE LineInv'
  BY <1>1 DEF Emit, PublishFails, Store, serving
<1>2. ASSUME NEW e \in Emitters, Publish(e) PROVE LineInv'
  BY <1>2 DEF Publish, Subscribed
<1>3. ASSUME NEW ev \in writing, Write(ev) \/ WriteFails(ev) PROVE LineInv'
  BY <1>3 DEF Write, WriteFails, serving
<1>4. ASSUME WriteReport \/ Leave \/ Answer \/ AnswerFails \/ \E r \in answers : TakeAnswer(r)
      PROVE LineInv'
  BY <1>4 DEF WriteReport, Leave, Answer, AnswerFails, TakeAnswer, emitting, serving
<1>5. ASSUME Accept \/ LoadNothing \/ LoadFails \/ HistorySent \/ Subscribe \/ GoDeaf \/ Break
             \/ Forward
      PROVE LineInv'
  BY <1>5 DEF Accept, LoadNothing, LoadFails, HistorySent, Subscribe, GoDeaf, Break,
              Forward, Serve
<1>6. ASSUME LoadHistory PROVE LineInv'
  BY <1>6, LenProperties, EmptySeq DEF LoadHistory, Serve
<1>7. ASSUME LoadLegacy PROVE LineInv'
  <2>1. Len(<<Legacy>>) = 1 /\ Len(<<>>) = 0
    OBVIOUS
  <2> QED BY <1>7, <2>1 DEF LoadLegacy, Serve
<1>8. ASSUME SendHistory PROVE LineInv'
  <2>1. Len(shown) \in Nat /\ Len(history) \in Nat
    BY LenProperties
  <2>2. history[Len(shown) + 1] \in Items
    BY <1>8, <2>1, ElementOfSeq DEF SendHistory
  <2>3. Len(Append(shown, history[Len(shown) + 1])) = Len(shown) + 1
    BY <2>2, Appended
  <2> QED BY <1>8, <2>1, <2>3 DEF SendHistory, Serve, Show
<1> QED BY <1>1, <1>2, <1>3, <1>4, <1>5, <1>6, <1>7, <1>8 DEF Next, Server

\* What left its thread had been emitted.
LEMMA KnownKept == ASSUME StreamInv, Next PROVE KnownInv'
<1> USE DEF KnownInv, StreamInv
<1> DEFINE Growing == \A ev : Known(ev) => Known(ev)'
<1>1. ASSUME NEW e \in Emitters, Emit(e) PROVE KnownInv'
  <2>1. \A ev \in Items : Known(ev) => Known(ev)'
    BY <1>1 DEF Emit, Known, ShapeInv, Items, Events, Legacy
  <2> QED BY <1>1, <2>1, LenProperties, ElementOfSeq DEF Emit, serving, ShapeInv, Items
<1>2. ASSUME NEW e \in Emitters, Publish(e) PROVE KnownInv'
  <2>1. Growing
    BY <1>2 DEF Publish, Known, ShapeInv
  <2>2. \A ev : ev = Latest(e) => Known(ev)'
    BY <1>2 DEF Publish, Known, ShapeInv, Latest, Event
  <2>3. \A i \in DOMAIN inbox' :
          \/ inbox'[i] = Latest(e)
          \/ i \in DOMAIN inbox /\ inbox'[i] = inbox[i]
    <3>1. Latest(e) \in Items /\ inbox \in Seq(Items)
      BY <1>2, LatestIsEvent DEF Publish, ShapeInv
    <3>2. CASE inbox' = inbox
      BY <3>2
    <3>3. CASE inbox' = Append(inbox, Latest(e))
      BY <3>1, <3>3, Appended
    <3> QED BY <1>2, <3>2, <3>3 DEF Publish
  <2>4. \A i \in DOMAIN inbox' : Known(inbox[i])'
    BY <2>1, <2>2, <2>3
  <2> QED BY <1>2, <2>1, <2>4 DEF Publish
<1>3. ASSUME NEW e \in Emitters, PublishFails(e) PROVE KnownInv'
  <2>1. Growing
    BY <1>3 DEF PublishFails, Known, ShapeInv
  <2> QED BY <1>3, <2>1 DEF PublishFails, serving
<1>4. ASSUME NEW e \in Emitters, Store(e) PROVE KnownInv'
  <2>1. Growing
    BY <1>4 DEF Store, Known, ShapeInv
  <2>2. \A ev : ev = Latest(e) => Known(ev)'
    BY <1>4 DEF Store, Known, ShapeInv, Latest, Event
  <2> QED BY <1>4, <2>1, <2>2 DEF Store, serving
<1>5. ASSUME NEW ev \in writing, Write(ev) PROVE KnownInv'
  <2>1. Growing
    BY <1>5 DEF Write, Known
  <2>2. \A i \in DOMAIN Append(rows, ev) : Known(Append(rows, ev)[i])
    BY Appended DEF ShapeInv, Items
  <2> QED BY <1>5, <2>1, <2>2 DEF Write, serving
<1>6. ASSUME NEW ev \in writing, WriteFails(ev) PROVE KnownInv'
  BY <1>6 DEF WriteFails, Known, serving
<1>7. ASSUME WriteReport PROVE KnownInv'
  BY <1>7 DEF WriteReport, Known, serving
<1>8. ASSUME Leave PROVE KnownInv'
  <2>1. Growing
    BY <1>8 DEF Leave, Known
  <2> QED BY <1>8, <2>1 DEF Leave, serving
<1>9. ASSUME Accept \/ LoadHistory \/ LoadNothing \/ LoadFails \/ HistorySent
             \/ Subscribe \/ GoDeaf \/ Break
      PROVE KnownInv'
  <2>1. DOMAIN <<>> = {}
    OBVIOUS
  <2>2. Growing
    BY <1>9 DEF Accept, LoadHistory, LoadNothing, LoadFails, HistorySent, Subscribe, GoDeaf,
                Break, Serve, emitting, Known
  <2> QED BY <1>9, <2>1, <2>2
          DEF Accept, LoadHistory, LoadNothing, LoadFails, HistorySent, Subscribe, GoDeaf,
              Break, Serve, emitting
<1>10. ASSUME LoadLegacy PROVE KnownInv'
  <2>1. Growing
    BY <1>10 DEF LoadLegacy, Serve, emitting, Known
  <2>2. Known(Legacy)
    BY DEF Known, Legacy, ShapeInv
  <2>3. DOMAIN <<Legacy>> = {1} /\ <<Legacy>>[1] = Legacy
    OBVIOUS
  <2> QED BY <1>10, <2>1, <2>2, <2>3 DEF LoadLegacy, Serve, emitting
<1>11. ASSUME SendHistory PROVE KnownInv'
  <2>1. Growing
    BY <1>11 DEF SendHistory, Serve, emitting, Known
  <2>2. Len(shown) + 1 \in DOMAIN history
    BY <1>11, LenProperties DEF SendHistory, ShapeInv
  <2>3. history[Len(shown) + 1] \in Items
    BY <2>2, LenProperties, ElementOfSeq DEF ShapeInv
  <2>4. \A i \in DOMAIN Append(shown, history[Len(shown) + 1]) :
          Known(Append(shown, history[Len(shown) + 1])[i])
    BY <2>2, <2>3, Appended DEF ShapeInv
  <2> QED BY <1>11, <2>1, <2>4 DEF SendHistory, Serve, Show, emitting
<1>12. ASSUME Forward PROVE KnownInv'
  <2>1. Growing
    BY <1>12 DEF Forward, Serve, emitting, Known
  <2>2. /\ \A i \in DOMAIN Tail(inbox) : Known(Tail(inbox)[i])
        /\ Head(inbox) \in Items /\ Known(Head(inbox))
    BY <1>12, Tailed DEF Forward, ShapeInv
  <2>3. \A i \in DOMAIN Append(shown, Head(inbox)) : Known(Append(shown, Head(inbox))[i])
    BY <2>2, Appended DEF ShapeInv
  <2> QED BY <1>12, <2>1, <2>2, <2>3 DEF Forward, Serve, Show, emitting
<1>13. ASSUME Answer \/ AnswerFails \/ \E r \in answers : TakeAnswer(r) PROVE KnownInv'
  BY <1>13 DEF Answer, AnswerFails, TakeAnswer, emitting, serving, Known
<1> QED BY <1>1, <1>2, <1>3, <1>4, <1>5, <1>6, <1>7, <1>8, <1>9, <1>10, <1>11, <1>12,
           <1>13 DEF Next, Server

\* What was published to the page after its history is in order of emission.
LEMMA OrderKept == ASSUME StreamInv, Next PROVE OrderInv'
<1> USE DEF OrderInv, StreamInv
<1>1. ASSUME NEW e \in Emitters, Emit(e) \/ PublishFails(e) \/ Store(e) PROVE OrderInv'
  BY <1>1 DEF Emit, PublishFails, Store, serving
<1>2. ASSUME NEW e \in Emitters, Publish(e) PROVE OrderInv'
  <2>1. CASE inbox' = inbox
    BY <1>2, <2>1 DEF Publish
  <2>2. CASE inbox' = Append(inbox, Latest(e))
    <3>1. Latest(e) \in Items /\ Latest(e).by = e /\ Latest(e).n = made[e]
      BY <1>2, LatestIsEvent DEF Publish
    <3>2. \A ev : Known(ev) => Earlier(ev, Latest(e))
      BY <1>2, <3>1 DEF Publish, Known, Earlier
    <3>3. \A i \in DOMAIN shown, j \in DOMAIN inbox' : Earlier(shown[i], inbox'[j])
      BY <2>2, <3>1, <3>2, Appended DEF ShapeInv, KnownInv
    <3>4. \A i, j \in DOMAIN inbox' : i < j => Earlier(inbox'[i], inbox'[j])
      BY <2>2, <3>1, <3>2, Appended DEF ShapeInv, KnownInv
    <3> QED BY <1>2, <3>3, <3>4 DEF Publish
  <2> QED BY <1>2, <2>1, <2>2 DEF Publish
<1>3. ASSUME NEW ev \in writing, Write(ev) \/ WriteFails(ev) PROVE OrderInv'
  BY <1>3 DEF Write, WriteFails, serving
<1>4. ASSUME WriteReport \/ Leave \/ Answer \/ AnswerFails \/ \E r \in answers : TakeAnswer(r)
      PROVE OrderInv'
  BY <1>4 DEF WriteReport, Leave, Answer, AnswerFails, TakeAnswer, emitting, serving
<1>5. ASSUME Accept \/ LoadHistory \/ LoadLegacy PROVE OrderInv'
  <2>1. DOMAIN <<>> = {}
    OBVIOUS
  <2> QED BY <1>5, <2>1 DEF Accept, LoadHistory, LoadLegacy, LineInv, Serve
<1>6. ASSUME LoadNothing \/ LoadFails \/ HistorySent \/ Subscribe \/ GoDeaf \/ Break
      PROVE OrderInv'
  <2>1. DOMAIN <<>> = {}
    OBVIOUS
  <2> QED BY <1>6, <2>1 DEF LoadNothing, LoadFails, HistorySent, Subscribe, GoDeaf, Break, Serve
<1>7. ASSUME SendHistory PROVE OrderInv'
  <2>1. Len(shown) \in Nat /\ Len(history) \in Nat /\ Len(shown) + 1 <= Len(history)
    BY <1>7, LenProperties DEF SendHistory, ShapeInv
  <2>2. history[Len(shown) + 1] \in Items
    BY <2>1, ElementOfSeq DEF ShapeInv
  <2>3. DOMAIN shown' = 1..(Len(shown) + 1)
    BY <1>7, <2>2, Appended DEF SendHistory, Show, ShapeInv
  <2>4. inbox' = <<>> /\ history' = history /\ DOMAIN <<>> = {}
    BY <1>7 DEF SendHistory, LineInv
  <2> QED BY <2>1, <2>3, <2>4
<1>8. ASSUME Forward PROVE OrderInv'
  <2>1. /\ Head(inbox) \in Items /\ Head(inbox) = inbox[1]
        /\ Len(inbox) \in Nat \ {0} /\ DOMAIN inbox = 1..Len(inbox)
        /\ DOMAIN Tail(inbox) = 1..(Len(inbox) - 1)
        /\ \A i \in 1..(Len(inbox) - 1) : Tail(inbox)[i] = inbox[i + 1]
    BY <1>8, Tailed DEF Forward, ShapeInv
  <2>2. /\ Len(shown) \in Nat /\ DOMAIN shown = 1..Len(shown)
        /\ DOMAIN Append(shown, Head(inbox)) = 1..(Len(shown) + 1)
        /\ \A i \in 1..Len(shown) : Append(shown, Head(inbox))[i] = shown[i]
        /\ Append(shown, Head(inbox))[Len(shown) + 1] = inbox[1]
    BY <2>1, Appended DEF ShapeInv
  <2>3. /\ shown' = Append(shown, Head(inbox)) /\ inbox' = Tail(inbox)
        /\ history' = history
    BY <1>8 DEF Forward, Show
  <2>4. \A i, j \in DOMAIN shown' :
          i < j /\ Len(history) < j => Earlier(shown'[i], shown'[j])
    BY <2>1, <2>2, <2>3
  <2>5. \A i \in DOMAIN shown', j \in DOMAIN inbox' : Earlier(shown'[i], inbox'[j])
    BY <2>1, <2>2, <2>3
  <2>6. \A i, j \in DOMAIN inbox' : i < j => Earlier(inbox'[i], inbox'[j])
    BY <2>1, <2>3
  <2> QED BY <2>3, <2>4, <2>5, <2>6
<1> QED BY <1>1, <1>2, <1>3, <1>4, <1>5, <1>6, <1>7, <1>8 DEF Next, Server

\* What StreamInv says holds in every state the system reaches.
THEOREM StreamIsInvariant == Spec => []StreamInv
<1>1. Init => StreamInv
  BY InitHolds
<1>2. StreamInv /\ [Next]_vars => StreamInv'
  <2> SUFFICES ASSUME StreamInv, [Next]_vars PROVE StreamInv'
    OBVIOUS
  <2>1. CASE Next
    BY <2>1, ShapeKept, KnownKept, LineKept, OrderKept DEF StreamInv
  <2>2. CASE UNCHANGED vars
    BY <2>2 DEF StreamInv, ShapeInv, KnownInv, Known, LineInv, OrderInv, vars, emitting,
                serving, showing
  <2> QED BY <2>1, <2>2
<1> QED BY <1>1, <1>2, PTL DEF Spec

\* What a connection shows live goes on where its history ended, for any
\* number of threads, events and mishaps.
THEOREM LiveIsInOrder == Spec => []LiveFollowsHistory
<1>1. StreamInv => LiveFollowsHistory
  BY DEF StreamInv, OrderInv, Earlier, LiveFollowsHistory
<1> QED BY <1>1, StreamIsInvariant, PTL

\* Every step keeps the types; that an event that is published or stored is
\* one needs ShapeInv.
LEMMA TypeKept == ASSUME TypeOK, StreamInv, Next PROVE TypeOK'
<1> USE EventStreamAssumption DEF TypeOK
<1>1. ASSUME NEW e \in Emitters, Emit(e) PROVE TypeOK'
  BY <1>1 DEF Emit, serving, showing
<1>2. ASSUME NEW e \in Emitters, hand[e] # "free" PROVE Latest(e) \in Events
  BY <1>2 DEF StreamInv, ShapeInv, Latest, Event, Events
<1>3. ASSUME NEW e \in Emitters, Publish(e) PROVE TypeOK'
  <2>1. Append(inbox, Latest(e)) \in Seq(Events)
    BY <1>2, <1>3, AppendProperties DEF Publish
  <2> QED BY <1>3, <2>1 DEF Publish, showing
<1>4. ASSUME NEW e \in Emitters, PublishFails(e) PROVE TypeOK'
  BY <1>4 DEF PublishFails, Mishap, serving, showing
<1>5. ASSUME NEW e \in Emitters, Store(e) PROVE TypeOK'
  BY <1>2, <1>5 DEF Store, serving, showing
<1>6. ASSUME NEW ev \in writing, Write(ev) \/ WriteFails(ev) PROVE TypeOK'
  <2>1. Append(rows, ev) \in Seq(Events)
    BY AppendProperties
  <2>2. CASE Write(ev)
    BY <2>1, <2>2 DEF Write, serving, showing
  <2>3. CASE WriteFails(ev)
    BY <2>3 DEF WriteFails, Mishap, serving, showing
  <2> QED BY <1>6, <2>2, <2>3
<1>7. ASSUME WriteReport \/ Leave PROVE TypeOK'
  <2>1. CASE WriteReport
    BY <2>1 DEF WriteReport, Reports, serving, showing
  <2>2. CASE Leave
    BY <2>2 DEF Leave, Mishap, serving, showing
  <2> QED BY <1>7, <2>1, <2>2
<1>8. ASSUME Accept PROVE TypeOK'
  <2>1. history' = <<>> /\ inbox' = <<>> /\ shown' = <<>> /\ line' = "history"
        /\ UNCHANGED <<emitting, rows, showing, mishaps>>
    BY <1>8 DEF Accept, Serve
  <2>2. history' \in Seq(Events \cup {Legacy}) /\ inbox' \in Seq(Events)
        /\ shown' \in Seq(Events \cup {Legacy})
    BY <2>1, EmptySeq
  <2> QED BY <2>1, <2>2 DEF emitting, showing
<1>9. ASSUME LoadHistory \/ LoadNothing \/ LoadFails \/ LoadLegacy PROVE TypeOK'
  <2>1. /\ rows \in Seq(Events \cup {Legacy})
        /\ <<Legacy>> \in Seq(Events \cup {Legacy})
    <3>1. Events \subseteq Events \cup {Legacy}
      OBVIOUS
    <3>2. rows \in Seq(Events \cup {Legacy})
      BY <3>1, SeqMonotonic, Zenon DEF TypeOK
    <3>3. <<Legacy>> = [i \in 1..1 |-> Legacy]
      OBVIOUS
    <3>4. <<Legacy>> \in Seq(Events \cup {Legacy})
      BY <3>3, SeqDef
    <3> QED BY <3>2, <3>4
  <2>2. /\ history' \in Seq(Events \cup {Legacy})
        /\ line' \in {"sending", "legacy"} /\ mishaps' \in 0..MaxMishaps
        /\ UNCHANGED <<emitting, rows, inbox, shown, showing>>
    <3>1. CASE LoadHistory
      BY <3>1, <2>1 DEF LoadHistory, Serve
    <3>2. CASE LoadNothing
      BY <3>2 DEF LoadNothing, Serve
    <3>3. CASE LoadFails
      BY <3>3 DEF LoadFails, Mishap
    <3>4. CASE LoadLegacy
      BY <3>4, <2>1 DEF LoadLegacy, Serve
    <3> QED BY <1>9, <3>1, <3>2, <3>3, <3>4
  <2> QED BY <2>2 DEF emitting, showing
<1>10. ASSUME SendHistory PROVE TypeOK'
  <2>1. history[Len(shown) + 1] \in Events \cup {Legacy}
    BY <1>10, LenProperties, ElementOfSeq DEF SendHistory
  <2>2. Append(shown, history[Len(shown) + 1]) \in Seq(Events \cup {Legacy})
    BY <2>1, AppendProperties
  <2> QED BY <1>10, <2>2 DEF SendHistory, Serve, Show, emitting
<1>11. ASSUME Forward PROVE TypeOK'
  <2>1. Head(inbox) \in Events /\ Tail(inbox) \in Seq(Events)
    BY <1>11, HeadTailProperties DEF Forward
  <2>2. Append(shown, Head(inbox)) \in Seq(Events \cup {Legacy})
    BY <2>1, AppendProperties
  <2> QED BY <1>11, <2>1, <2>2 DEF Forward, Serve, Show, emitting
<1>12. ASSUME HistorySent \/ Subscribe PROVE TypeOK'
  BY <1>12 DEF HistorySent, Subscribe, Serve, emitting, showing
<1>13. ASSUME GoDeaf \/ Break PROVE TypeOK'
  <2>1. /\ inbox' = <<>> /\ line' \in {"deaf", "closed"} /\ mishaps' \in 0..MaxMishaps
        /\ UNCHANGED <<emitting, rows, history, shown, showing>>
    BY <1>13 DEF GoDeaf, Break, Mishap
  <2>2. inbox' \in Seq(Events)
    BY <2>1, EmptySeq
  <2> QED BY <2>1, <2>2 DEF emitting, showing
<1>14. ASSUME Answer \/ AnswerFails PROVE TypeOK'
  BY <1>14 DEF Answer, AnswerFails, Mishap, emitting, serving
<1>15. ASSUME NEW r \in answers, TakeAnswer(r) PROVE TypeOK'
  BY <1>15 DEF TakeAnswer, emitting, serving
<1> QED BY <1>1, <1>3, <1>4, <1>5, <1>6, <1>7, <1>8, <1>9, <1>10, <1>11, <1>12,
           <1>13, <1>14, <1>15 DEF Next, Server

\* Every variable keeps its type, for any threads, events and mishaps.
THEOREM TypeCorrect == Spec => []TypeOK
<1>1. Init => TypeOK
  <2> SUFFICES ASSUME Init PROVE TypeOK
    OBVIOUS
  <2>1. rows = <<>> /\ history = <<>> /\ inbox = <<>> /\ shown = <<>>
    BY DEF Init
  <2>2. /\ rows \in Seq(Events) /\ history \in Seq(Events \cup {Legacy})
        /\ inbox \in Seq(Events) /\ shown \in Seq(Events \cup {Legacy})
    BY <2>1, EmptySeq
  <2> QED BY <2>2, EventStreamAssumption DEF Init, TypeOK, Reports
<1>2. TypeOK /\ StreamInv /\ [Next]_vars => TypeOK'
  <2> SUFFICES ASSUME TypeOK, StreamInv, [Next]_vars PROVE TypeOK'
    OBVIOUS
  <2>1. CASE Next
    BY <2>1, TypeKept
  <2>2. CASE UNCHANGED vars
    BY <2>2 DEF TypeOK, vars, emitting, serving, showing
  <2> QED BY <2>1, <2>2
<1> QED BY <1>1, <1>2, StreamIsInvariant, PTL DEF Spec
=============================================================================
