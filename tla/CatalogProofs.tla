--------------------------- MODULE CatalogProofs ---------------------------
(***************************************************************************)
(* Proofs about Catalog, for every number of clients, runs, pipelines and  *)
(* requests: only one kind of request makes a secret of a mask, hard gates *)
(* stay hard, the attempts of a run agree, and what is not named is kept.  *)
(***************************************************************************)
EXTENDS Catalog, FiniteSetTheorems, TLAPS

-----------------------------------------------------------------------------
(* The inductive invariant.                                                *)

ShapeInv ==
  /\ request = [c \in Clients |-> request[c]]
  /\ form = [c \in Clients |-> form[c]]
  /\ \A c \in Clients : request[c].step = "read" => request[c].way \in {"put", "post"}
  /\ pipes \in [Pipelines -> {None} \cup Rows]
  /\ file = [r \in Runs |-> file[r]]
  /\ used = [r \in Runs |-> used[r]]
  /\ \A c \in Clients :
       request[c].step = "write" => /\ request[c].new \in Rows
                                    /\ request[c].pipeline \in Pipelines

\* What a request carries has the type of what it will be saved as.
AskedInv ==
  \A c \in Clients :
    /\ request[c].step = "read" =>
         /\ request[c].key \in Keys \cup {None, Bare, Mask, Unnamed}
         /\ request[c].gates \in GateLists \cup {Unnamed}
    /\ request[c].step = "save" => request[c].new \in Settings

\* Whoever was shown a mask, or sends one back, and was shown the settings
\* since the runtime was last taken away, has the mask of a runtime that is
\* there; what a request that was not overtaken makes of it is no mask.
KeyInv ==
  /\ \A c \in Clients \ outdated :
       /\ (form[c] # None /\ form[c].key = Mask) => Merged(row).key # None
       /\ (request[c].step = "read" /\ request[c].key = Mask) => Merged(row).key # None
  /\ \A c \in Clients \ stale :
       (request[c].step = "save" /\ request[c].new.key = Mask) =>
         \/ Merged(row).key = Mask
         \/ request[c].way = "post" /\ c \in outdated

\* As long as the file is there, it is all the attempts have been given.
FileInv ==
  \A r \in Runs :
    /\ file[r] # None => file[r].gate = "hard"
    /\ (r \notin removed /\ used[r] # {}) => file[r] # None /\ used[r] = {file[r]}

\* What a request that was not overtaken is about to write agrees, in what it
\* does not name, with what is stored.
KeptInv ==
  \A c \in Clients \ stale :
    LET req == request[c] IN
    /\ req.step = "save" =>
         /\ LeavesKey(req, Merged(row).key) => req.new.key = Merged(row).key
         /\ req.gates = Unnamed => req.new.gates = Merged(row).gates
    /\ (req.step = "write" /\ pipes[req.pipeline] # None) =>
         /\ req.name = Unnamed => req.new.name = pipes[req.pipeline].name
         /\ req.text = Unnamed => req.new.stages = pipes[req.pipeline].stages

CatalogInv == ShapeInv /\ TypeOK /\ AskedInv /\ KeyInv /\ FileInv /\ KeptInv

-----------------------------------------------------------------------------

\* Before the first request there is no row of settings and no file.
LEMMA InitHolds == ASSUME Init PROVE CatalogInv
<1> USE CatalogAssumption
<1>1. ShapeInv
  BY DEF Init, ShapeInv, Idle, Rows, Stages
<1>2. KeyInv
  BY DEF Init, KeyInv, Idle
<1>3. FileInv
  BY DEF Init, FileInv
<1>4. KeptInv
  BY DEF Init, KeptInv, Idle
<1>5. TypeOK /\ AskedInv
  <2>1. pipes \in [Pipelines -> {None} \cup Rows]
    BY DEF Init, Rows, Stages
  <2>2. 0 \in 0..MaxRequests /\ 0 \in 0..MaxFaults
    OBVIOUS
  <2> QED BY <2>1, <2>2 DEF Init, TypeOK, AskedInv, Idle
<1> QED BY <1>1, <1>2, <1>3, <1>4, <1>5 DEF CatalogInv

\* Requests, rows and files keep their shape.
LEMMA ShapeKept == ASSUME ShapeInv, Next PROVE ShapeInv'
<1> USE DEF ShapeInv
<1>1. ASSUME NEW c \in Clients, GetSettings(c) PROVE ShapeInv'
  BY <1>1 DEF GetSettings, edited, launched
<1>2. ASSUME NEW c \in Clients, SendSettings(c) PROVE ShapeInv'
  <2>1. PICK way \in {"put", "post"}, key \in {Unnamed, None, Bare, form[c].key} \cup Keys,
             gates \in {Unnamed, "empty", form[c].gates} \cup Keys :
          request' = [request EXCEPT ![c] =
            [step |-> "read", way |-> way, key |-> key, gates |-> gates]]
    BY <1>2 DEF SendSettings, Busy
  <2> QED BY <1>2, <2>1 DEF SendSettings, edited, launched
<1>3. ASSUME NEW c \in Clients, ReadSettings(c) PROVE ShapeInv'
  BY <1>3 DEF ReadSettings, edited, launched
<1>4. ASSUME NEW c \in Clients, SaveSettings(c) PROVE ShapeInv'
  BY <1>4 DEF SaveSettings, Done, Idle, launched
<1>5. ASSUME NEW c \in Clients, ResetSettings(c) PROVE ShapeInv'
  BY <1>5 DEF ResetSettings, Done, Idle, launched
<1>6. ASSUME NEW c \in Clients, CreatePipeline(c) PROVE ShapeInv'
  BY <1>6 DEF CreatePipeline, Busy, Hydrate, Rows, Stages, edited, launched
<1>7. ASSUME NEW c \in Clients, UpdatePipeline(c) PROVE ShapeInv'
  BY <1>7 DEF UpdatePipeline, Busy, Hydrate, Rows, Stages, edited, launched
<1>8. ASSUME NEW c \in Clients, DeletePipeline(c) PROVE ShapeInv'
  BY <1>8 DEF DeletePipeline, Busy, edited, launched
<1>9. ASSUME NEW c \in Clients, WritePipeline(c) PROVE ShapeInv'
  BY <1>9 DEF WritePipeline, Done, Idle, launched
<1>10. ASSUME NEW c \in Clients, WriteFails(c) PROVE ShapeInv'
  BY <1>10 DEF WriteFails, Done, Idle, edited, launched
<1>11. ASSUME NEW r \in Runs, Launch(r) PROVE ShapeInv'
  BY <1>11 DEF Launch, edited
<1>12. ASSUME NEW r \in Runs, Attempt(r) PROVE ShapeInv'
  BY <1>12 DEF Attempt, edited
<1>13. ASSUME NEW r \in Runs, RemoveFile(r) PROVE ShapeInv'
  BY <1>13 DEF RemoveFile, edited
<1> QED BY <1>1, <1>2, <1>3, <1>4, <1>5, <1>6, <1>7, <1>8, <1>9, <1>10, <1>11,
           <1>12, <1>13 DEF Next

-----------------------------------------------------------------------------
(* Types.                                                                  *)

\* What is loaded or shown of a typed row is typed.
LEMMA LoadedTyped ==
  ASSUME NEW stored \in {None} \cup Settings
  PROVE  /\ Merged(stored) \in Settings
         /\ Loaded(stored) \in Settings
         /\ Masked(Loaded(stored)) \in Settings
<1>1. Template \in Settings /\ [Template EXCEPT !.gates = "defaults"] \in Settings
  BY DEF Template, Settings, GateLists
<1>2. Merged(stored) \in Settings /\ Loaded(stored) \in Settings
  BY <1>1 DEF Merged, Loaded
<1>3. \A config \in Settings : Masked(config) \in Settings
  BY DEF Masked, MaskOf, Settings, GateLists
<1> QED BY <1>2, <1>3

\* A saved form is shown again.
LEMMA MaskedTyped == ASSUME NEW config \in Settings PROVE Masked(config) \in Settings
BY DEF Masked, MaskOf, Settings, GateLists

\* A read that may fail uses up a fault if it does.
LEMMA ReadTyped ==
  ASSUME TypeOK, NEW value, NEW read \in Readable(value)
  PROVE  read[1] \in {value, None} /\ read[2] \in 0..MaxFaults
BY CatalogAssumption DEF Readable, TypeOK

\* The steps on the settings keep the types.
LEMMA SettingsTyped ==
  ASSUME TypeOK, AskedInv, NEW c \in Clients,
         request = [d \in Clients |-> request[d]],
         \/ GetSettings(c) \/ SendSettings(c) \/ ReadSettings(c)
         \/ SaveSettings(c) \/ ResetSettings(c)
  PROVE  TypeOK' /\ AskedInv'
<1> USE CatalogAssumption DEF TypeOK, edited, launched
<1>1. CASE GetSettings(c)
  <2>1. PICK read \in Readable(row) :
          form' = [form EXCEPT ![c] = Masked(Loaded(read[1]))] /\ faults' = read[2]
    BY <1>1 DEF GetSettings
  <2>2. read[1] \in {None} \cup Settings /\ read[2] \in 0..MaxFaults
    BY ReadTyped
  <2>3. Masked(Loaded(read[1])) \in Settings
    BY <2>2, LoadedTyped
  <2>4. form' \in [Clients -> {None} \cup Settings]
    BY <2>1, <2>3
  <2> QED BY <1>1, <2>1, <2>2, <2>4 DEF GetSettings, AskedInv
<1>2. CASE SendSettings(c)
  <2>1. PICK way \in {"put", "post"}, key \in {Unnamed, None, Bare, form[c].key} \cup Keys,
             gates \in {Unnamed, "empty", form[c].gates} \cup Keys :
          /\ Busy(c, [step |-> "read", way |-> way, key |-> key, gates |-> gates])
          /\ offAsked' = (offAsked \/ gates = "empty")
    BY <1>2 DEF SendSettings
  <2>2. form[c] \in Settings
    BY <1>2 DEF SendSettings
  <2>3. key \in Keys \cup {None, Bare, Mask, Unnamed} /\ gates \in GateLists \cup {Unnamed}
    BY <2>2 DEF Settings, GateLists
  <2>4. request' = [request EXCEPT ![c] =
                      [step |-> "read", way |-> way, key |-> key, gates |-> gates]]
        /\ requests' \in 0..MaxRequests
    BY <2>1 DEF Busy
  <2>5. form' \in [Clients -> {None} \cup Settings]
    BY <1>2 DEF SendSettings
  <2>6. AskedInv'
    BY <2>3, <2>4 DEF AskedInv
  <2>7. \A d \in Clients : request'[d].step \in {"idle", "read", "save", "write", "delete"}
    BY <2>4
  <2>8. offAsked' \in BOOLEAN
    BY <2>1
  <2> QED BY <1>2, <2>4, <2>5, <2>6, <2>7, <2>8 DEF SendSettings
<1>3. CASE ReadSettings(c)
  <2> DEFINE new == [key |-> KeyAfter(Merged(row).key, request[c].key, request[c].way),
                     gates |-> GatesAfter(Merged(row).gates, request[c].gates, request[c].way)]
  <2>1. Merged(row) \in Settings
    BY LoadedTyped
  <2>2. new \in Settings
    <3>1. KeyAfter(Merged(row).key, request[c].key, request[c].way)
            \in Keys \cup {None, Bare, Mask}
      BY <1>3, <2>1 DEF ReadSettings, KeyAfter, AskedInv, Settings
    <3>2. GatesAfter(Merged(row).gates, request[c].gates, request[c].way) \in GateLists
      BY <1>3, <2>1 DEF ReadSettings, GatesAfter, AskedInv, Settings
    <3> QED BY <3>1, <3>2 DEF Settings
  <2>3. request' = [request EXCEPT ![c] =
          [step |-> "save", way |-> request[c].way, key |-> request[c].key,
           gates |-> request[c].gates, new |-> new]]
    BY <1>3 DEF ReadSettings
  <2> HIDE DEF new
  <2>4. AskedInv'
    BY <2>2, <2>3 DEF AskedInv
  <2> QED BY <1>3, <2>3, <2>4 DEF ReadSettings
<1>4. CASE SaveSettings(c)
  <2>1. request[c].new \in Settings /\ Masked(request[c].new) \in Settings
    BY <1>4, MaskedTyped DEF SaveSettings, AskedInv
  <2> QED BY <1>4, <2>1 DEF SaveSettings, Shown, Done, Waiting, Idle, AskedInv
<1>5. CASE ResetSettings(c)
  <2>1. Loaded(None) \in Settings
    BY LoadedTyped
  <2> QED BY <1>5, <2>1 DEF ResetSettings, Shown, Done, Waiting, Idle, AskedInv
<1> QED BY <1>1, <1>2, <1>3, <1>4, <1>5

\* The steps on the pipelines keep the types; ShapeInv has that of the rows.
LEMMA PipelinesTyped ==
  ASSUME TypeOK, AskedInv, ShapeInv', NEW c \in Clients,
         request = [d \in Clients |-> request[d]],
         \/ CreatePipeline(c) \/ UpdatePipeline(c) \/ DeletePipeline(c)
         \/ WritePipeline(c) \/ WriteFails(c)
  PROVE  TypeOK' /\ AskedInv'
<1> USE CatalogAssumption DEF TypeOK, edited, launched
<1>1. pipes' \in [Pipelines -> {None} \cup Rows]
  BY DEF ShapeInv
<1>2. CASE CreatePipeline(c)
  <2>1. PICK p \in Pipelines, read \in Readable(TRUE), name \in Texts, stages \in Stages :
          /\ Busy(c, [step |-> "write", pipeline |-> p, name |-> name,
                      text |-> stages.text,
                      new |-> [name |-> name, stages |-> Hydrate(stages)]])
          /\ faults' = read[2]
          /\ UNCHANGED <<edited, form, stale, outdated, offAsked, launched>>
    BY <1>2 DEF CreatePipeline
  <2>2. read[2] \in 0..MaxFaults
    BY ReadTyped
  <2> QED BY <2>1, <2>2 DEF Busy, AskedInv
<1>3. CASE UpdatePipeline(c)
  BY <1>3 DEF UpdatePipeline, Busy, AskedInv
<1>4. CASE DeletePipeline(c)
  BY <1>4 DEF DeletePipeline, Busy, AskedInv
<1>5. CASE WritePipeline(c)
  BY <1>1, <1>5 DEF WritePipeline, Writers, Done, Waiting, Idle, AskedInv
<1>6. CASE WriteFails(c)
  BY <1>6 DEF WriteFails, Done, Idle, AskedInv
<1> QED BY <1>2, <1>3, <1>4, <1>5, <1>6

\* Launching a run and its attempts keep the types.
LEMMA RunsTyped ==
  ASSUME TypeOK, AskedInv, NEW r \in Runs, Launch(r) \/ Attempt(r) \/ RemoveFile(r)
  PROVE  TypeOK' /\ AskedInv'
<1> USE CatalogAssumption DEF TypeOK, edited, AskedInv
<1>1. CASE Launch(r)
  <2>1. PICK read \in Readable(row) : faults' = read[2]
    BY <1>1 DEF Launch
  <2>2. faults' \in 0..MaxFaults
    BY <2>1, ReadTyped
  <2> QED BY <1>1, <2>2 DEF Launch
<1>2. CASE Attempt(r)
  BY <1>2 DEF Attempt
<1>3. CASE RemoveFile(r)
  BY <1>3 DEF RemoveFile
<1> QED BY <1>1, <1>2, <1>3

\* All steps keep the types.
LEMMA TypesKept ==
  ASSUME TypeOK, AskedInv, ShapeInv, ShapeInv', Next PROVE TypeOK' /\ AskedInv'
<1>1. request = [d \in Clients |-> request[d]]
  BY DEF ShapeInv
<1> QED BY <1>1, SettingsTyped, PipelinesTyped, RunsTyped DEF Next

-----------------------------------------------------------------------------
(* What the requests and the files hold.                                   *)

\* A mask is shown only of what is there, and only a form older than the loss
\* of the runtime has one of what is not.
LEMMA KeyKept ==
  ASSUME ShapeInv, TypeOK, AskedInv, KeyInv, Next PROVE KeyInv'
<1> USE CatalogAssumption DEF ShapeInv, KeyInv
<1>a. \A config \in Settings : Masked(config).key = Mask => config.key # None
  BY DEF Masked, MaskOf
<1>b. \A config \in Settings : Merged(config) = config
  BY DEF Merged
<1>1. ASSUME NEW c \in Clients, GetSettings(c) PROVE KeyInv'
  <2>1. PICK read \in Readable(row) : form' = [form EXCEPT ![c] = Masked(Loaded(read[1]))]
    BY <1>1 DEF GetSettings
  <2>2. read[1] \in {row, None}
    BY <2>1 DEF Readable
  <2>3. Masked(Loaded(read[1])).key = Mask => Merged(row).key # None
    <3>1. CASE read[1] = None
      BY <3>1 DEF Loaded, Masked, MaskOf, Template
    <3>2. CASE read[1] # None
      BY <1>a, <2>2, <3>2 DEF Loaded, Merged, TypeOK
    <3> QED BY <3>1, <3>2
  <2> QED BY <1>1, <2>1, <2>3 DEF GetSettings, edited, Idle
<1>2. ASSUME NEW c \in Clients, SendSettings(c) PROVE KeyInv'
  <2>1. PICK way \in {"put", "post"}, key \in {Unnamed, None, Bare, form[c].key} \cup Keys,
             gates \in {Unnamed, "empty", form[c].gates} \cup Keys :
          request' = [request EXCEPT ![c] =
                       [step |-> "read", way |-> way, key |-> key, gates |-> gates]]
    BY <1>2 DEF SendSettings, Busy
  <2>2. key = Mask => form[c].key = Mask
    BY DEF Mask, Unnamed, Bare
  <2> QED BY <1>2, <2>1, <2>2 DEF SendSettings, edited
<1>3. ASSUME NEW c \in Clients, ReadSettings(c) PROVE KeyInv'
  <2> DEFINE key == KeyAfter(Merged(row).key, request[c].key, request[c].way)
  <2>1. key = Mask => \/ Merged(row).key = Mask
                      \/ request[c].way = "post" /\ c \in outdated
    BY <1>3 DEF ReadSettings, KeyAfter, Mask, Bare
  <2>2. \E gates, new :
          /\ new.key = key
          /\ request' = [request EXCEPT ![c] =
               [step |-> "save", way |-> request[c].way, key |-> request[c].key,
                gates |-> gates, new |-> new]]
    BY <1>3 DEF ReadSettings
  <2> HIDE DEF key
  <2> QED BY <1>3, <2>1, <2>2 DEF ReadSettings, edited
<1>4. ASSUME NEW c \in Clients, SaveSettings(c) PROVE KeyInv'
  <2>1. request[c].new \in Settings
    BY <1>4 DEF SaveSettings, AskedInv
  <2>2. row' = request[c].new /\ Merged(row') = row'
    BY <1>4, <1>b, <2>1 DEF SaveSettings
  <2>3. form'[c].key = Mask => Merged(row').key # None
    BY <1>4, <1>a, <2>1, <2>2 DEF SaveSettings
  <2> QED BY <1>4, <2>2, <2>3 DEF SaveSettings, Shown, Done, Waiting, Idle
<1>5. ASSUME NEW c \in Clients, ResetSettings(c) PROVE KeyInv'
  <2>1. form'[c].key # Mask
    BY <1>5 DEF ResetSettings, Loaded, Template
  <2> QED BY <1>5, <2>1 DEF ResetSettings, Shown, Done, Waiting, Idle
<1>6. ASSUME NEW c \in Clients, CreatePipeline(c) PROVE KeyInv'
  BY <1>6 DEF CreatePipeline, Busy, edited
<1>7. ASSUME NEW c \in Clients, UpdatePipeline(c) PROVE KeyInv'
  BY <1>7 DEF UpdatePipeline, Busy, edited
<1>8. ASSUME NEW c \in Clients, DeletePipeline(c) PROVE KeyInv'
  BY <1>8 DEF DeletePipeline, Busy, edited
<1>9. ASSUME NEW c \in Clients, WritePipeline(c) PROVE KeyInv'
  BY <1>9 DEF WritePipeline, Done, Idle
<1>10. ASSUME NEW c \in Clients, WriteFails(c) PROVE KeyInv'
  BY <1>10 DEF WriteFails, Done, Idle, edited
<1>11. ASSUME NEW r \in Runs, Launch(r) \/ Attempt(r) \/ RemoveFile(r) PROVE KeyInv'
  BY <1>11 DEF Launch, Attempt, RemoveFile, edited
<1> QED BY <1>1, <1>2, <1>3, <1>4, <1>5, <1>6, <1>7, <1>8, <1>9, <1>10, <1>11 DEF Next

\* Files are written once, with hard gates, and all attempts read them.
LEMMA FileKept == ASSUME ShapeInv, FileInv, Next PROVE FileInv'
<1> USE DEF ShapeInv, FileInv
<1>1. ASSUME NEW c \in Clients,
             \/ GetSettings(c) \/ SendSettings(c) \/ ReadSettings(c) \/ SaveSettings(c)
             \/ ResetSettings(c)
             \/ CreatePipeline(c) \/ UpdatePipeline(c) \/ DeletePipeline(c)
             \/ WritePipeline(c) \/ WriteFails(c)
      PROVE FileInv'
  BY <1>1 DEF GetSettings, SendSettings, ReadSettings, SaveSettings, ResetSettings,
              CreatePipeline, UpdatePipeline, DeletePipeline, WritePipeline, WriteFails,
              launched
<1>2. ASSUME NEW r \in Runs, Launch(r) PROVE FileInv'
  <2>0. PICK p \in Pipelines :
          /\ pipes[p] # None
          /\ \E config : file' = [file EXCEPT ![r] = Materialize(pipes[p].stages, config)]
    BY <1>2 DEF Launch
  <2>1. PICK config : /\ pipes[p] # None
                      /\ file' = [file EXCEPT ![r] = Materialize(pipes[p].stages, config)]
    BY <2>0
  <2>2. Materialize(pipes[p].stages, config).gate = "hard"
    <3>1. pipes[p].stages \in Stages
      BY <2>1 DEF Rows
    <3>2. Hydrate(pipes[p].stages).gate = "hard"
      BY <3>1 DEF Hydrate, Stages
    <3> QED BY <3>2 DEF Materialize
  <2>3. used' = used /\ removed' = removed
    BY <1>2 DEF Launch
  <2>4. used[r] = {} /\ r \notin removed
    BY <1>2 DEF Launch, Launched
  <2> QED BY <2>1, <2>2, <2>3, <2>4
<1>3. ASSUME NEW r \in Runs, Attempt(r) PROVE FileInv'
  BY <1>3 DEF Attempt, Launched, ConfigOf
<1>4. ASSUME NEW r \in Runs, RemoveFile(r) PROVE FileInv'
  BY <1>4 DEF RemoveFile
<1> QED BY <1>1, <1>2, <1>3, <1>4 DEF Next

\* A change of what is stored overtakes all who read it before.
LEMMA KeptKept == ASSUME ShapeInv, KeptInv, Next PROVE KeptInv'
<1> USE CatalogAssumption DEF ShapeInv, KeptInv
<1>1. ASSUME NEW c \in Clients, GetSettings(c) PROVE KeptInv'
  BY <1>1 DEF GetSettings, edited
<1>2. ASSUME NEW c \in Clients, SendSettings(c) PROVE KeptInv'
  BY <1>2 DEF SendSettings, Busy, edited
<1>3. ASSUME NEW c \in Clients, ReadSettings(c) PROVE KeptInv'
  <2> DEFINE req == request[c]
             new == [key |-> KeyAfter(Merged(row).key, req.key, req.way),
                     gates |-> GatesAfter(Merged(row).gates, req.gates, req.way)]
  <2>1. LeavesKey(req, Merged(row).key) => new.key = Merged(row).key
    BY <1>3 DEF ReadSettings, LeavesKey, KeyAfter, Mask, Bare, Unnamed
  <2>2. req.gates = Unnamed => new.gates = Merged(row).gates
    BY DEF GatesAfter
  <2>3. request' = [request EXCEPT ![c] =
          [step |-> "save", way |-> req.way, key |-> req.key, gates |-> req.gates, new |-> new]]
    BY <1>3 DEF ReadSettings
  <2> HIDE DEF new
  <2> QED BY <1>3, <2>1, <2>2, <2>3 DEF ReadSettings, LeavesKey, edited
<1>4. ASSUME NEW c \in Clients, SaveSettings(c) PROVE KeptInv'
  BY <1>4 DEF SaveSettings, Shown, Done, Waiting, Idle
<1>5. ASSUME NEW c \in Clients, ResetSettings(c) PROVE KeptInv'
  BY <1>5 DEF ResetSettings, Shown, Done, Waiting, Idle
<1>6. ASSUME NEW c \in Clients, CreatePipeline(c) PROVE KeptInv'
  BY <1>6 DEF CreatePipeline, Busy, Stages, edited
<1>7. ASSUME NEW c \in Clients, UpdatePipeline(c) PROVE KeptInv'
  BY <1>7 DEF UpdatePipeline, Busy, edited
<1>8. ASSUME NEW c \in Clients, DeletePipeline(c) PROVE KeptInv'
  BY <1>8 DEF DeletePipeline, Busy, edited
<1>9. ASSUME NEW c \in Clients, WritePipeline(c) PROVE KeptInv'
  BY <1>9 DEF WritePipeline, Writers, Done, Waiting, Idle
<1>10. ASSUME NEW c \in Clients, WriteFails(c) PROVE KeptInv'
  BY <1>10 DEF WriteFails, Done, Idle, edited
<1>11. ASSUME NEW r \in Runs, Launch(r) \/ Attempt(r) \/ RemoveFile(r) PROVE KeptInv'
  BY <1>11 DEF Launch, Attempt, RemoveFile, edited
<1> QED BY <1>1, <1>2, <1>3, <1>4, <1>5, <1>6, <1>7, <1>8, <1>9, <1>10, <1>11 DEF Next

\* What CatalogInv says holds in every state a run of the system reaches.
THEOREM CatalogIsInvariant == Spec => []CatalogInv
<1>1. Init => CatalogInv
  BY InitHolds
<1>2. CatalogInv /\ [Next]_vars => CatalogInv'
  <2> SUFFICES ASSUME CatalogInv, [Next]_vars PROVE CatalogInv'
    OBVIOUS
  <2>1. CASE Next
    BY <2>1, ShapeKept, TypesKept, KeyKept, FileKept, KeptKept DEF CatalogInv
  <2>2. CASE UNCHANGED vars
    BY <2>2 DEF CatalogInv, ShapeInv, TypeOK, AskedInv, KeyInv, FileInv, KeptInv, vars,
                edited, launched
  <2> QED BY <2>1, <2>2
<1> QED BY <1>1, <1>2, PTL DEF Spec

-----------------------------------------------------------------------------
(* The theorems.                                                           *)

\* Of any number of people saving and resetting the settings at once, only one
\* who posts a form from before the runtime was taken away, or who read where a
\* mask was, stores a mask as a secret.
THEOREM SecretsStayReal == Spec => SecretsAreReal
<1> DEFINE Real(c) == (SaveSettings(c) /\ row'.key = Mask) =>
                        \/ Merged(row).key = Mask
                        \/ request[c].way = "post" /\ c \in outdated
<1>1. CatalogInv => \A c \in Clients \ stale : Real(c)
  BY DEF CatalogInv, KeyInv, SaveSettings
<1> QED BY <1>1, CatalogIsInvariant, PTL DEF SecretsAreReal

\* The hard human gates of a pipeline are hard in every attempt of every run.
THEOREM HardGatesAreHard == Spec => []HardGatesStayHard
<1>1. CatalogInv => HardGatesStayHard
  BY DEF CatalogInv, FileInv, HardGatesStayHard
<1> QED BY <1>1, CatalogIsInvariant, PTL

\* All attempts of a run have one configuration.
THEOREM OneConfiguration == Spec => []AttemptsAgree
<1>1. CatalogInv => AttemptsAgree
  <2> SUFFICES ASSUME CatalogInv, NEW r \in Runs \ removed
               PROVE  Cardinality(used[r]) <= 1
    BY DEF AttemptsAgree
  <2>1. CASE used[r] = {}
    BY <2>1, FS_EmptySet
  <2>2. CASE used[r] # {}
    <3>1. used[r] = {file[r]}
      BY <2>2 DEF CatalogInv, FileInv
    <3>2. Cardinality({file[r]}) = 1
      BY FS_Singleton
    <3> QED BY <3>1, <3>2
  <2> QED BY <2>1, <2>2
<1> QED BY <1>1, CatalogIsInvariant, PTL

\* Saves that nobody overtook keep what they do not name, and updates of a
\* pipeline too.
THEOREM UnnamedStays == Spec => UnnamedIsKept
<1> DEFINE Kept(c) ==
      LET req == request[c] IN
      /\ (SaveSettings(c) /\ LeavesKey(req, Merged(row).key)) => row'.key = Merged(row).key
      /\ (SaveSettings(c) /\ req.gates = Unnamed) => row'.gates = Merged(row).gates
      /\ (req.step = "write" /\ WritePipeline(c) /\ pipes[req.pipeline] # None) =>
           /\ req.name = Unnamed => pipes'[req.pipeline].name = pipes[req.pipeline].name
           /\ req.text = Unnamed => pipes'[req.pipeline].stages = pipes[req.pipeline].stages
<1>1. CatalogInv => \A c \in Clients \ stale : Kept(c)
  <2> SUFFICES ASSUME CatalogInv, NEW c \in Clients \ stale PROVE Kept(c)
    OBVIOUS
  <2> USE DEF CatalogInv, KeptInv
  <2>1. ASSUME SaveSettings(c)
        PROVE  /\ LeavesKey(request[c], Merged(row).key) => row'.key = Merged(row).key
               /\ request[c].gates = Unnamed => row'.gates = Merged(row).gates
    BY <2>1 DEF SaveSettings
  <2>2. ASSUME request[c].step = "write", WritePipeline(c), pipes[request[c].pipeline] # None
        PROVE  /\ request[c].name = Unnamed =>
                    pipes'[request[c].pipeline].name = pipes[request[c].pipeline].name
               /\ request[c].text = Unnamed =>
                    pipes'[request[c].pipeline].stages = pipes[request[c].pipeline].stages
    BY <2>2 DEF WritePipeline, ShapeInv
  <2> QED BY <2>1, <2>2
<1> QED BY <1>1, CatalogIsInvariant, PTL DEF UnnamedIsKept

\* Every variable keeps its type, for any clients, texts and runs.
THEOREM TypeCorrect == Spec => []TypeOK
<1>1. CatalogInv => TypeOK
  BY DEF CatalogInv
<1> QED BY <1>1, CatalogIsInvariant, PTL
=============================================================================
