------------------------------- MODULE Catalog -------------------------------
(***************************************************************************)
(* The settings and the pipelines that people edit through the API, and    *)
(* the configuration a run is given (src/api/routes/settings.py,           *)
(* pipelines.py and src/engine/config.py): requests read, wait, and write  *)
(* back what they made of it; secrets are shown masked and the masks come  *)
(* back; a run is launched from what is there at that moment and its later *)
(* attempts read the file written then.                                    *)
(*                                                                         *)
(* Of a configuration there is the secret of one runtime and the list of   *)
(* quality gates, which may hold a secret in the environment of a gate; of *)
(* a pipeline its name, its stages, and whether its hard human gates are   *)
(* declared as such.  The runtime is one people add: the template has none *)
(* of its name.                                                            *)
(***************************************************************************)
EXTENDS Integers, FiniteSets

CONSTANTS
  Clients,      \* people with a browser
  Keys,         \* secrets they may enter
  Pipelines,    \* ids of custom pipelines
  Texts,        \* names and stages they may enter
  Runs,         \* run ids
  MaxRequests,  \* bound: requests that change something
  MaxFaults,    \* bound: failed database calls, removed files
  None          \* no row, no file, no place for a secret

Mask == "***"
Unnamed == "unnamed"
Bare == "bare"  \* the runtime is there and has no secret

\* "empty" is no gate at all, "defaults" the list made for the languages of
\* the project; any other list is named by the secret it holds.
GateLists == {"empty", "defaults", Mask} \cup Keys
Settings == [key : Keys \cup {None, Bare, Mask}, gates : GateLists]
Stages == [text : Texts, gate : {"hard", "soft"}]
Rows == [name : Texts, stages : Stages]

ASSUME CatalogAssumption ==
  /\ {None, Mask, Unnamed, Bare, "empty", "defaults"} \cap Keys = {}
  /\ None \notin {Mask, Unnamed, Bare}
  /\ None \notin Settings
  /\ {None, Unnamed, "platform"} \cap Texts = {}
  /\ MaxRequests \in Nat /\ MaxFaults \in Nat

VARIABLES
  row,        \* the settings row, None when there is none
  form,       \* what each client was last shown
  pipes,      \* the pipeline rows
  request,    \* the request of each client
  stale,      \* history: requests overtaken since they read
  outdated,   \* history: clients not shown the settings since the runtime went
  offAsked,   \* history: someone asked for no gates at all
  file,       \* the configuration file of each run
  used,       \* history: what the attempts of each run were given
  removed,    \* history: runs whose file was removed
  requests, faults \* bookkeeping of the bounds

edited == <<row, pipes>>
launched == <<file, used, removed>>
vars == <<edited, form, request, stale, outdated, offAsked, launched, requests, faults>>

Idle == [step |-> "idle"]

Init ==
  /\ row = None
  /\ form = [c \in Clients |-> None]
  /\ pipes \in [Pipelines -> {None} \cup [name : Texts, stages : [text : Texts, gate : {"soft"}]]]
  /\ request = [c \in Clients |-> Idle]
  /\ stale = {} /\ outdated = {} /\ offAsked = FALSE
  /\ file = [r \in Runs |-> None]
  /\ used = [r \in Runs |-> {}] /\ removed = {}
  /\ requests = 0 /\ faults = 0

-----------------------------------------------------------------------------
(* Loading and showing the settings.                                       *)

Template == [key |-> None, gates |-> "empty"]

\* The row over the template.
Merged(stored) == IF stored = None THEN Template ELSE stored

\* load_config: gates are made up for the project unless the row lists some,
\* and a row that lists none at all counts as listing.
Loaded(stored) ==
  IF stored = None THEN [Template EXCEPT !.gates = "defaults"] ELSE stored

MaskOf(value) == IF value \in Keys THEN Mask ELSE value
Masked(config) == [key |-> MaskOf(config.key), gates |-> MaskOf(config.gates)]

\* A read that fails is read as no row (_try_load_db_config).
Readable(value) ==
  {<<value, faults>>} \cup (IF faults < MaxFaults THEN {<<None, faults + 1>>} ELSE {})

GetSettings(c) ==
  /\ request[c] = Idle
  /\ \E read \in Readable(row) :
       /\ form' = [form EXCEPT ![c] = Masked(Loaded(read[1]))]
       /\ faults' = read[2]
  /\ outdated' = outdated \ {c}
  /\ UNCHANGED <<edited, request, stale, offAsked, launched, requests>>

-----------------------------------------------------------------------------
(* Changing the settings (_do_update).                                     *)

\* Mutant: a PUT drops masks as little as a POST does.
KeyAfterUndropped(old, new, way) ==
  IF \/ new = Unnamed \/ (new = None /\ way = "post")
     \/ (old # None /\ (new = Mask \/ (new = Bare /\ way = "post")))
  THEN old ELSE new

\* A PUT takes the runtimes as they are sent, with what is stored for a mask
\* and nothing if nothing is; a POST lays them over what is stored, and where
\* there is nothing to lay them over takes them as they are, masks included.
KeyAfter(old, new, way) ==
  IF new = Unnamed THEN old
  ELSE IF way = "put"
  THEN IF new # Mask THEN new ELSE IF old = None THEN Bare ELSE old
  ELSE IF new = None \/ (old # None /\ new \in {Mask, Bare}) THEN old ELSE new

\* Mutant: what a PUT does not name is taken from the template.
GatesAfterPut(old, new, way) ==
  IF new # Unnamed THEN new ELSE IF way = "put" THEN Template.gates ELSE old

\* Lists are taken as they come, masks included.
GatesAfter(old, new, way) == IF new = Unnamed THEN old ELSE new

Busy(c, req) ==
  /\ request[c] = Idle
  /\ requests < MaxRequests /\ requests' = requests + 1
  /\ request' = [request EXCEPT ![c] = req]

\* Clients send back what they were shown, edited or in part; the answer
\* shows them what was saved.
SendSettings(c) ==
  /\ form[c] # None
  /\ \E way \in {"put", "post"}, key \in {Unnamed, None, Bare, form[c].key} \cup Keys,
        gates \in {Unnamed, "empty", form[c].gates} \cup Keys :
       /\ Busy(c, [step |-> "read", way |-> way, key |-> key, gates |-> gates])
       /\ offAsked' = (offAsked \/ gates = "empty")
  /\ form' = [form EXCEPT ![c] = None]
  /\ UNCHANGED <<edited, stale, outdated, launched, faults>>

ReadSettings(c) ==
  LET req == request[c] IN
  /\ req.step = "read"
  /\ request' = [request EXCEPT ![c] =
       [step |-> "save", way |-> req.way, key |-> req.key, gates |-> req.gates,
        new |-> [key |-> KeyAfter(Merged(row).key, req.key, req.way),
                 gates |-> GatesAfter(Merged(row).gates, req.gates, req.way)]]]
  /\ UNCHANGED <<edited, form, stale, outdated, offAsked, launched, requests, faults>>

Waiting(step) == {c \in Clients : request[c].step = step}

\* The request is over; those that read before the change are overtaken.
Done(c, overtaken) ==
  /\ request' = [request EXCEPT ![c] = Idle]
  /\ stale' = (stale \cup overtaken) \ {c}

\* c sees what it made of the settings; the others do not, and it may have
\* taken the runtime away.
Shown(c) ==
  outdated' = (IF Merged(row).key # None /\ Merged(row').key = None
               THEN Clients ELSE outdated) \ {c}

SaveSettings(c) ==
  /\ request[c].step = "save"
  /\ row' = request[c].new
  /\ form' = [form EXCEPT ![c] = Masked(request[c].new)]
  /\ Shown(c) /\ Done(c, Waiting("save"))
  /\ UNCHANGED <<pipes, offAsked, launched, requests, faults>>

\* Without a row it answers that the database is not available.
ResetSettings(c) ==
  /\ request[c] = Idle /\ row # None
  /\ requests < MaxRequests /\ requests' = requests + 1
  /\ row' = None
  /\ form' = [form EXCEPT ![c] = Loaded(None)]
  /\ Shown(c) /\ Done(c, Waiting("save"))
  /\ UNCHANGED <<pipes, offAsked, launched, faults>>

-----------------------------------------------------------------------------
(* Changing the pipelines.                                                 *)

\* Stages that are hard human gates are made such, whatever was sent.
Hydrate(stages) == [stages EXCEPT !.gate = "hard"]

\* A list that cannot be read is read from files, which hold none of these.
CreatePipeline(c) ==
  \E p \in Pipelines, read \in Readable(TRUE), name \in Texts, stages \in Stages :
    /\ pipes[p] = None \/ read[1] = None
    /\ Busy(c, [step |-> "write", pipeline |-> p,
                name |-> name, text |-> stages.text,
                new |-> [name |-> name, stages |-> Hydrate(stages)]])
    /\ faults' = read[2]
    /\ UNCHANGED <<edited, form, stale, outdated, offAsked, launched>>

UpdatePipeline(c) ==
  \E p \in Pipelines, name \in Texts \cup {Unnamed},
     stages \in Stages \cup {[text |-> Unnamed]} :
    /\ pipes[p] # None
    /\ Busy(c, [step |-> "write", pipeline |-> p,
                name |-> name, text |-> stages.text,
                new |-> [name |-> IF name = Unnamed THEN pipes[p].name ELSE name,
                         stages |-> IF stages.text = Unnamed THEN pipes[p].stages
                                    ELSE Hydrate(stages)]])
    /\ UNCHANGED <<edited, form, stale, outdated, offAsked, launched, faults>>

DeletePipeline(c) ==
  \E p \in Pipelines :
    /\ pipes[p] # None
    /\ Busy(c, [step |-> "delete", pipeline |-> p])
    /\ UNCHANGED <<edited, form, stale, outdated, offAsked, launched, faults>>

Writers(p) == {c \in Waiting("write") : request[c].pipeline = p}

\* The row is inserted or replaced, whichever the request was for.
WritePipeline(c) ==
  LET req == request[c] IN
  /\ req.step \in {"write", "delete"}
  /\ pipes' = [pipes EXCEPT ![req.pipeline] = IF req.step = "write" THEN req.new ELSE None]
  /\ Done(c, Writers(req.pipeline))
  /\ UNCHANGED <<row, form, outdated, offAsked, launched, requests, faults>>

\* A write that fails answers with an error and changes nothing.
WriteFails(c) ==
  /\ request[c].step \in {"read", "save", "write", "delete"}
  /\ faults < MaxFaults /\ faults' = faults + 1
  /\ Done(c, {})
  /\ UNCHANGED <<edited, form, outdated, offAsked, launched, requests>>

-----------------------------------------------------------------------------
(* Launching runs.                                                         *)

\* Mutant: stages are taken as they are stored.
MaterializeAsStored(stages, config) ==
  [text |-> stages.text, gate |-> stages.gate, key |-> config.key, gates |-> config.gates]

\* The settings of the moment with the stages of the pipeline.
Materialize(stages, config) ==
  [text |-> stages.text, gate |-> Hydrate(stages).gate,
   key |-> config.key, gates |-> config.gates]

Launched(r) == file[r] # None \/ r \in removed

Launch(r) ==
  /\ ~Launched(r)
  /\ \E p \in {q \in Pipelines : pipes[q] # None}, read \in Readable(row) :
       /\ file' = [file EXCEPT ![r] = Materialize(pipes[p].stages, Loaded(read[1]))]
       /\ faults' = read[2]
  /\ UNCHANGED <<edited, form, request, stale, outdated, offAsked, used, removed, requests>>

\* Mutant: the settings are loaded again and laid over the file.
ConfigOfAnew(r) ==
  IF file[r] # None
  THEN [file[r] EXCEPT !.key = Loaded(row).key, !.gates = Loaded(row).gates]
  ELSE [text |-> "platform", gate |-> None, key |-> Loaded(row).key, gates |-> Loaded(row).gates]

\* The file; without it, silently, the pipeline of the platform.
ConfigOf(r) ==
  IF file[r] # None THEN file[r]
  ELSE [text |-> "platform", gate |-> None, key |-> Loaded(row).key, gates |-> Loaded(row).gates]

\* An attempt of a worker, the first or a later one.
Attempt(r) ==
  /\ Launched(r)
  /\ used' = [used EXCEPT ![r] = @ \cup {ConfigOf(r)}]
  /\ UNCHANGED <<edited, form, request, stale, outdated, offAsked, file, removed, requests, faults>>

RemoveFile(r) ==
  /\ file[r] # None
  /\ faults < MaxFaults /\ faults' = faults + 1
  /\ file' = [file EXCEPT ![r] = None]
  /\ removed' = removed \cup {r}
  /\ UNCHANGED <<edited, form, request, stale, outdated, offAsked, used, requests>>

Next ==
  \/ \E c \in Clients :
       \/ GetSettings(c) \/ SendSettings(c) \/ ReadSettings(c) \/ SaveSettings(c)
       \/ ResetSettings(c)
       \/ CreatePipeline(c) \/ UpdatePipeline(c) \/ DeletePipeline(c)
       \/ WritePipeline(c) \/ WriteFails(c)
  \/ \E r \in Runs : Launch(r) \/ Attempt(r) \/ RemoveFile(r)

Spec == Init /\ [][Next]_vars

-----------------------------------------------------------------------------
(* Properties.                                                             *)

TypeOK ==
  /\ row \in {None} \cup Settings
  /\ form \in [Clients -> {None} \cup Settings]
  /\ pipes \in [Pipelines -> {None} \cup Rows]
  /\ \A c \in Clients : request[c].step \in {"idle", "read", "save", "write", "delete"}
  /\ stale \subseteq Clients /\ outdated \subseteq Clients /\ offAsked \in BOOLEAN
  /\ removed \subseteq Runs
  /\ requests \in 0..MaxRequests /\ faults \in 0..MaxFaults

\* A save makes no secret of a mask, whatever was reset or saved between
\* showing the form and taking it back, unless a mask was there when it read,
\* or it is a POST from someone who was not shown the settings since the
\* runtime was taken away.  (_replace_preserving_masks,
\* _merge_preserving_masks.)
SecretsAreReal ==
  [][\A c \in Clients \ stale :
       (SaveSettings(c) /\ row'.key = Mask) =>
         \/ Merged(row).key = Mask
         \/ request[c].way = "post" /\ c \in outdated]_vars

\* A request leaves the secret that is stored alone: it does not name it, or
\* names it by its mask, or is a POST, which takes nothing away.
LeavesKey(req, old) ==
  \/ req.key = Unnamed
  \/ req.key = Mask /\ old \in Keys
  \/ req.way = "post" /\ (req.key = None \/ (req.key = Bare /\ old # None))

\* A save that was not overtaken leaves alone what it does not name, and what
\* it names by its mask; so does an update of a pipeline.  (_do_update,
\* update_pipeline.)
UnnamedIsKept ==
  [][\A c \in Clients \ stale :
       LET req == request[c] IN
       /\ (SaveSettings(c) /\ LeavesKey(req, Merged(row).key)) => row'.key = Merged(row).key
       /\ (SaveSettings(c) /\ req.gates = Unnamed) => row'.gates = Merged(row).gates
       /\ (req.step = "write" /\ WritePipeline(c) /\ pipes[req.pipeline] # None) =>
            /\ req.name = Unnamed => pipes'[req.pipeline].name = pipes[req.pipeline].name
            /\ req.text = Unnamed => pipes'[req.pipeline].stages = pipes[req.pipeline].stages]_vars

\* The hard human gates of a pipeline are hard in every attempt of every run
\* launched with it, whatever is stored.  (_hydrate_stage,
\* materialize_pipeline_config.)
HardGatesStayHard ==
  \A r \in Runs \ removed : \A config \in used[r] : config.gate = "hard"

\* All attempts of a run have the configuration it was launched with, whatever
\* is edited between them.  (create_run, load_config.)
AttemptsAgree == \A r \in Runs \ removed : Cardinality(used[r]) <= 1

\* There are no gates at all only where someone asked for none:
\* tests/test_config.py says that the empty list of the template must not be
\* taken for a user's.  (load_config, _do_update.)
DefaultsOffOnlyIfAsked == (row # None /\ row.gates = "empty") => offAsked

\* A form saved as it was shown does not replace a secret by its mask
\* (tests/test_routes.py).  (_do_update.)
MasksAreNotStored == row # None => row.gates # Mask /\ row.key # Mask
=============================================================================
