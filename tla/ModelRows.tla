------------------------------ MODULE ModelRows ------------------------------
(***************************************************************************)
(* The models page (routes/ModelsDash.svelte) and its rows: which models   *)
(* are listed, the Load, Cancel and Unload button of a row                 *)
(* (ModelLoadButton.svelte, stores/modelLoad.ts), Unload All, and the scan *)
(* of the Hugging Face cache with the tags it refreshes.                   *)
(*                                                                         *)
(* A model is a record of what the listing looks at: its base id, whether  *)
(* the id ends in -cuda, whether a peer has it, whether it is unlisted.    *)
(***************************************************************************)
EXTENDS Naturals, FiniteSets

CONSTANTS Models, None, MaxLoads, MaxUnloads, MaxScans   \* the last three are bounds

VARIABLES
  proc, meta,               \* the server: states of the processes, version of the tags
  state,                    \* $models: the states as last delivered
  showUnlisted,
  requests,                 \* calls of loadModel that have not settled
  loadControllers, pendingLoads,
  unloads,                  \* calls of unloadSingleModel and unloadAllModels, by their models
  unloadingAll,
  scan, scanning, scanError, scanSummary,   \* scan: where rescanModels is
  tagCalls, hugTags,        \* calls of loadHugTags, by what they read; what is shown
  loads, stops, scans       \* for the bounds

server == <<proc, meta>>
load   == <<requests, loadControllers, pendingLoads, loads>>
unload == <<unloads, unloadingAll, stops>>
scanVars == <<scan, scanning, scanError, scanSummary, tagCalls, hugTags, scans>>
vars   == <<server, state, showUnlisted, load, unload, scanVars>>

Unread == 0

Init ==
  /\ proc = [m \in Models |-> "stopped"] /\ state = proc /\ meta = 1
  /\ showUnlisted \in BOOLEAN
  /\ requests = {} /\ loadControllers = [m \in Models |-> None] /\ pendingLoads = {} /\ loads = 0
  /\ unloads = {} /\ unloadingAll = FALSE /\ stops = 0
  \* onMount: loadHugTags and rescanModels, neither waits for the other
  /\ tagCalls = {[of |-> "mount", version |-> Unread]} /\ hugTags = 0
  /\ scan = "sent" /\ scanning = TRUE /\ scanError = FALSE /\ scanSummary = FALSE /\ scans = 1

-----------------------------------------------------------------------------
(* What is listed.                                                         *)

VisibleModels == {m \in Models : showUnlisted \/ ~m.unlisted}

\* modelIDs holds the base of every visible model, of the variant itself too
ModelIDs == {m.base : m \in VisibleModels}

LocalModels == {m \in VisibleModels : ~m.peer /\ ~(m.cuda /\ m.base \in ModelIDs)}

GpuBadges(m) ==
  {IF c.cuda THEN "Nvidia" ELSE "AMD" : c \in {d \in VisibleModels : ~d.peer /\ d.base = m.base}}

PeerModels == {m \in VisibleModels : m.peer}

AnyReady == \E m \in Models : state[m] = "ready"

-----------------------------------------------------------------------------
(* The server: a load starts a stopped process and waits for it; an unload *)
(* stops it. The page hears of states when a message comes.                *)

Starts(m) ==
  /\ proc[m] = "stopped" /\ \E r \in requests : r.model = m
  /\ proc' = [proc EXCEPT ![m] = "starting"]
  /\ UNCHANGED <<meta, state, showUnlisted, load, unload, scanVars>>

Started(m) ==
  /\ proc[m] = "starting"
  /\ \E s \in {"ready", "stopped"} : proc' = [proc EXCEPT ![m] = s]
  /\ UNCHANGED <<meta, state, showUnlisted, load, unload, scanVars>>

Stops(m) ==
  /\ proc[m] = "ready" /\ \E u \in unloads : m \in u.models
  /\ proc' = [proc EXCEPT ![m] = "stopped"]
  /\ UNCHANGED <<meta, state, showUnlisted, load, unload, scanVars>>

ModelStatus ==
  /\ state # proc
  /\ state' = proc
  /\ UNCHANGED <<server, showUnlisted, load, unload, scanVars>>

-----------------------------------------------------------------------------
(* stores/modelLoad.ts.                                                    *)

\* variation: a second click starts a second load
LoadAgain(m) ==
  /\ state[m] = "stopped" /\ loads < MaxLoads
  /\ loads' = loads + 1
  /\ requests' = requests \cup {[n |-> loads + 1, model |-> m, aborted |-> FALSE]}
  /\ loadControllers' = [loadControllers EXCEPT ![m] = loads + 1]
  /\ pendingLoads' = pendingLoads \cup {m}
  /\ UNCHANGED <<server, state, showUnlisted, unload, scanVars>>

HandleLoadModel(m) ==
  /\ state[m] = "stopped" /\ m \notin pendingLoads /\ loads < MaxLoads
  /\ loads' = loads + 1
  /\ requests' = requests \cup {[n |-> loads + 1, model |-> m, aborted |-> FALSE]}
  /\ loadControllers' = [loadControllers EXCEPT ![m] = loads + 1]
  /\ pendingLoads' = pendingLoads \cup {m}
  /\ UNCHANGED <<server, state, showUnlisted, unload, scanVars>>

CancelLoad(m) ==
  /\ state[m] = "stopped" /\ m \in pendingLoads
  /\ requests' = {IF r.n = loadControllers[m] THEN [r EXCEPT !.aborted = TRUE] ELSE r : r \in requests}
  /\ UNCHANGED <<server, state, showUnlisted, loadControllers, pendingLoads, loads, unload, scanVars>>

\* the finally of handleLoadModel, after an answer, a failure or the abort
LoadSettled(r) ==
  /\ requests' = requests \ {r}
  /\ loadControllers' = [loadControllers EXCEPT ![r.model] = None]
  /\ pendingLoads' = pendingLoads \ {r.model}
  /\ UNCHANGED <<server, state, showUnlisted, loads, unload, scanVars>>

UnloadSingleModel(m) ==
  /\ state[m] = "ready" /\ stops < MaxUnloads
  /\ unloads' = unloads \cup {[n |-> stops + 1, all |-> FALSE, models |-> {m}]}
  /\ stops' = stops + 1
  /\ UNCHANGED <<server, state, showUnlisted, load, unloadingAll, scanVars>>

\* the button of a row is disabled while the process starts or stops
Button(m) ==
  CASE state[m] = "ready" -> "Unload"
    [] state[m] = "starting" -> "busy"
    [] OTHER -> IF m \in pendingLoads THEN "Cancel" ELSE "Load"

OnToggleLoad(m) == CancelLoad(m) \/ HandleLoadModel(m) \/ UnloadSingleModel(m)

\* the two sections of the page; a peer's models have neither state nor button
Row(m) ==
  [model |-> m, badges |-> GpuBadges(m), button |-> IF m.peer THEN None ELSE Button(m)]

Rows == {Row(m) : m \in LocalModels \cup PeerModels}

HandleUnloadAll ==
  /\ AnyReady /\ ~unloadingAll /\ stops < MaxUnloads
  /\ unloadingAll' = TRUE /\ stops' = stops + 1
  /\ unloads' = unloads \cup {[n |-> stops + 1, all |-> TRUE, models |-> Models]}
  /\ UNCHANGED <<server, state, showUnlisted, load, scanVars>>

Unloaded(u) ==
  /\ unloads' = unloads \ {u}
  /\ unloadingAll' = (unloadingAll /\ ~u.all)
  /\ UNCHANGED <<server, state, showUnlisted, load, stops, scanVars>>

ToggleUnlisted ==
  /\ showUnlisted' = ~showUnlisted
  /\ UNCHANGED <<server, state, load, unload, scanVars>>

-----------------------------------------------------------------------------
(* The scan and the tags.                                                  *)

RescanModels ==
  /\ ~scanning /\ scans < MaxScans
  /\ scanning' = TRUE /\ scanError' = FALSE /\ scan' = "sent" /\ scans' = scans + 1
  /\ UNCHANGED <<server, state, showUnlisted, load, unload, scanSummary, tagCalls, hugTags>>

\* the server's scan rewrites the tags of the models it verified
Scans ==
  /\ scan = "sent"
  /\ meta' = meta + 1 /\ scan' = "scanned"
  /\ UNCHANGED <<proc, state, showUnlisted, load, unload, scanning, scanError, scanSummary,
                 tagCalls, hugTags, scans>>

ScanAnswered ==
  /\ scan = "scanned"
  /\ scan' = "tags" /\ scanSummary' = TRUE
  /\ tagCalls' = tagCalls \cup {[of |-> "scan", version |-> Unread]}
  /\ UNCHANGED <<server, state, showUnlisted, load, unload, scanning, scanError, hugTags, scans>>

ScanFails ==
  /\ scan \in {"sent", "scanned"}
  /\ scan' = "idle" /\ scanning' = FALSE /\ scanError' = TRUE /\ scanSummary' = FALSE
  /\ UNCHANGED <<server, state, showUnlisted, load, unload, tagCalls, hugTags, scans>>

ReadTags(c) ==
  /\ c.version = Unread
  /\ tagCalls' = (tagCalls \ {c}) \cup {[c EXCEPT !.version = meta]}
  /\ UNCHANGED <<server, state, showUnlisted, load, unload, scan, scanning, scanError,
                 scanSummary, hugTags, scans>>

\* loadHugTags never throws: without an answer the tags stay as they are, and
\* an error status empties them
TagsLoaded(c) ==
  /\ tagCalls' = tagCalls \ {c}
  /\ hugTags' \in {c.version, 0, hugTags}
  /\ c.version = Unread => hugTags' # c.version \/ hugTags' = hugTags
  /\ IF c.of = "scan" THEN scan' = "idle" /\ scanning' = FALSE
                      ELSE UNCHANGED <<scan, scanning>>
  /\ UNCHANGED <<server, state, showUnlisted, load, unload, scanError, scanSummary, scans>>

-----------------------------------------------------------------------------
Next ==
  \/ \E m \in Models : Starts(m) \/ Started(m) \/ Stops(m)
  \/ ModelStatus
  \/ \E m \in LocalModels : OnToggleLoad(m)
  \/ \E r \in requests : LoadSettled(r)
  \/ HandleUnloadAll \/ ToggleUnlisted
  \/ \E u \in unloads : Unloaded(u)
  \/ RescanModels \/ Scans \/ ScanAnswered \/ ScanFails
  \/ \E c \in tagCalls : ReadTags(c) \/ TagsLoaded(c)

Spec == Init /\ [][Next]_vars

-----------------------------------------------------------------------------
\* A row that offers Cancel can cancel: a model is shown as loading exactly
\* while one load of it is under way, and its controller is that load's, also
\* when the states the page shows lag behind the processes.  A row that offers
\* Load has no load under way.
LoadCancellable ==
  /\ \A m \in Models :
       LET own == {r \in requests : r.model = m}
       IN  /\ m \in pendingLoads <=> own # {}
           /\ own # {} => {r.n : r \in own} = {loadControllers[m]}
  /\ \A row \in Rows : row.button = "Load" => \A r \in requests : r.model # row.model

\* What the page does not promise: every visible local model has a row, or its
\* base has one.  A model that exists for CUDA only has none.
EveryModelListed ==
  \A m \in VisibleModels : ~m.peer => \E l \in LocalModels : l.base = m.base

\* Nor that the tags shown are those the last scan wrote: the answer of the
\* first loadHugTags may come after the one that the scan asked for.
TagsSettle == scan = "idle" /\ ~scanError /\ tagCalls = {} => hugTags \in {0, meta}
=============================================================================
