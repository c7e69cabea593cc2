----------------------------- MODULE ModelListing -----------------------------
(***************************************************************************)
(* Names of models, from the configuration to a request: the aliases and   *)
(* picker ids of config/load.go, the listing of /v1/models (server/api.go) *)
(* that every Playground tab offers in its ModelSelector.svelte, and what  *)
(* the server runs for the name that was chosen (profiles.go, selector.go, *)
(* RealModelName and ResolvePeerModel of config).                          *)
(*                                                                         *)
(* A name is a tuple of strings, so that a name made of two others is the  *)
(* tuple of their parts: <<"p", "m">> is the peer model p/m and <<"x", "1">>*)
(* the picker id x-1.                                                      *)
(***************************************************************************)
EXTENDS Naturals, Sequences, FiniteSets, Functions, TLC

CONSTANTS
  Configurations,  \* [models, includeAliases, peers, selectors, profiles], see below
  Tabs,            \* what each tab's selector requires: sets of capabilities
  None             \* no profile, no choice

\* models is in the order of the ids, pickerID what modelPickerID returns
Models(c) == DOMAIN c.models
IDs(c) == {c.models[i].id : i \in Models(c)}

SamePicker(c, i) == {j \in Models(c) : c.models[j].pickerID = c.models[i].pickerID}

-----------------------------------------------------------------------------
(* config: the names that route to a local model.                          *)

\* the first model of a picker id has it as it is, the n-th after it with -n
PickerID(c, i) ==
  LET before == {j \in SamePicker(c, i) : j < i}
  IN  c.models[i].pickerID \o IF before = {} THEN <<>> ELSE <<ToString(Cardinality(before))>>

\* a later model that comes to the same name takes it over
PickerAlias(c, name) ==
  LET named == {i \in Models(c) : PickerID(c, i) = name /\ c.models[i].id # name}
  IN  {c.models[i].id : i \in {j \in named : \A k \in named : k <= j}}

AliasedTo(c, name) ==
  PickerAlias(c, name) \cup
    {c.models[i].id : i \in {j \in Models(c) : name \in c.models[j].aliases}}

\* RealModelName: the model of a name, as a set of at most one
RealModel(c, name) == IF name \in IDs(c) THEN {name} ELSE AliasedTo(c, name)

\* ResolvePeerModel: peer/model, or a model that only one peer has
PeerModel(c, name) ==
  IF name \in c.peers THEN {name}
  ELSE LET found == {p \in c.peers : Tail(p) = name}
       IN  IF Cardinality(found) = 1 THEN found ELSE {}

Resolved(c, name) == IF RealModel(c, name) # {} THEN RealModel(c, name) ELSE PeerModel(c, name)

\* what config loading accepts, of what matters here
Loads(c) ==
  /\ \A i, j \in Models(c) :
       /\ i # j => c.models[i].id # c.models[j].id /\ c.models[i].aliases \cap c.models[j].aliases = {}
       /\ \A a \in c.models[i].aliases : PickerAlias(c, a) = {}
  /\ \A p \in c.peers : RealModel(c, p) = {}
  /\ \A s \in c.selectors :
       /\ RealModel(c, s.id) = {} /\ s.id \notin c.peers
       /\ s.targets # <<>> /\ \A t \in Range(s.targets) : Resolved(c, t) # {}
  /\ \A p \in DOMAIN c.profiles : \A pin \in c.profiles[p] :
       /\ pin.name \notin c.peers
       /\ pin.target = <<>> \/ Resolved(c, pin.target) # {}
            \/ \E s \in c.selectors : s.id = pin.target

ListingAssumption == \A c \in Configurations : Loads(c)

VARIABLES
  config, activeProfile,  \* the server
  listing,                \* the records of /v1/models the page has, and the profile they are of
  selected,               \* the option of a selector that was chosen
  requested               \* history: the last request, its option and what may serve it

vars == <<config, activeProfile, listing, selected, requested>>

NoListing == [profile |-> None, records |-> {}]

Init ==
  /\ config \in Configurations
  /\ activeProfile = None /\ listing = NoListing
  /\ selected = None /\ requested = None

Pins(p) == IF p = None THEN {} ELSE config.profiles[p]

-----------------------------------------------------------------------------
(* /v1/models.                                                             *)

\* the models that share a picker id are numbered from 0 in the order of a Go
\* map, which differs from call to call
Numberings(c) ==
  {n \in [Models(c) -> 0 .. Len(c.models) - 1] :
     \A i \in Models(c) : {n[j] : j \in SamePicker(c, i)} = 0 .. Cardinality(SamePicker(c, i)) - 1}

ListedID(c, i, number) ==
  c.models[i].pickerID \o
    IF Cardinality(SamePicker(c, i)) > 1 THEN <<ToString(number[i])>> ELSE <<>>

Record(id, type, stands, aliases, of, capabilities) ==
  [id |-> id, type |-> type, stands |-> stands, aliases |-> aliases, modelID |-> of,
   capabilities |-> capabilities]

\* stands: the model, peer model, selector or pin that the record was made of
LocalRecords(c, number) ==
  UNION {LET m == c.models[i]
         IN  {Record(ListedID(c, i, number), "model", m.id, m.aliases, <<>>, m.capabilities)}
               \cup IF c.includeAliases
                      THEN {Record(a, "alias", m.id, {}, m.id, m.capabilities) : a \in m.aliases}
                      ELSE {}
         : i \in {j \in Models(c) : ~c.models[j].unlisted}}

\* names that a profile's pin is not listed beside: picker ids are not among them
ModelIDs(c) ==
  IDs(c) \cup (UNION {c.models[i].aliases : i \in Models(c)}) \cup {s.id : s \in c.selectors}
    \cup c.peers \cup {Tail(p) : p \in {q \in c.peers : PeerModel(c, Tail(q)) = {q}}}

HandleListModels(c, number, pins) ==
  LocalRecords(c, number)
    \cup {Record(p, "peer", p, {}, <<>>, {}) : p \in c.peers}
    \cup {Record(s.id, "selector", s.id, {}, <<>>, {}) : s \in {t \in c.selectors : ~t.unlisted}}
    \cup {Record(pin.name, "profile", pin.target, {}, <<>>, {}) :
            pin \in {q \in pins : q.target # <<>> /\ q.name \notin ModelIDs(c)}}

List ==
  \E number \in Numberings(config) :
    /\ listing' = [profile |-> activeProfile,
                   records |-> HandleListModels(config, number, Pins(activeProfile))]
    /\ UNCHANGED <<config, activeProfile, selected, requested>>

SetActiveProfile(p) ==
  /\ p # activeProfile
  /\ activeProfile' = p
  /\ UNCHANGED <<config, listing, selected, requested>>

-----------------------------------------------------------------------------
(* The page: loadPlaygroundModels and ModelSelector.svelte.                *)

\* (variation: the records of aliases stay among the models)
RecordsOfAll(records) == records

PlaygroundModels(records) == {r \in records : r.type # "alias"}

Aliases(r, records) ==
  r.aliases \cup {a.id : a \in {b \in records : b.type = "alias" /\ b.modelID = r.id}}

MatchesCapabilities(r, tab) ==
  IF tab.any THEN tab.capabilities \cap r.capabilities # {}
             ELSE tab.capabilities \subseteq r.capabilities

\* groupModels, and which groups are filled
Group(r, tab) ==
  CASE r.type = "profile"  -> "Profile"
    [] r.type = "selector" -> "Selectors"
    [] r.type = "peer"     -> "Peers"
    [] OTHER -> IF tab.capabilities # {} /\ MatchesCapabilities(r, tab)
                  THEN "Matching Capabilities" ELSE "Local"

\* the options of a tab's selector
Options(tab) ==
  LET records == listing.records
  IN  UNION {LET group == Group(r, tab)
                 names == {r.id} \cup IF group \in {"Local", "Matching Capabilities"}
                                        THEN Aliases(r, records) ELSE {}
             IN  {[group |-> group, value |-> v, record |-> r.id, stands |-> r.stands] : v \in names}
             : r \in PlaygroundModels(records)}

Select(o) ==
  /\ selected # o
  /\ selected' = o
  /\ UNCHANGED <<config, activeProfile, listing, requested>>

-----------------------------------------------------------------------------
(* A request for a name: profile, then selector, then model.               *)

Pinned(name, pins) ==
  LET found == {pin \in pins : pin.name = name}
  IN  IF found = {} THEN name ELSE (CHOOSE pin \in found : TRUE).target

\* a warm or spillover selector takes one of its targets by what runs
Targets(name) ==
  LET found == {s \in config.selectors : s.id = name}
  IN  IF found = {} THEN {name}
      ELSE LET s == CHOOSE t \in found : TRUE
           IN  IF s.strategy = "pin" THEN {s.targets[1]} ELSE Range(s.targets)

\* the models that may answer; none is an error
Serving(name, pins) == UNION {Resolved(config, t) : t \in Targets(Pinned(name, pins))}

Send ==
  /\ selected # None
  /\ requested' = [option |-> selected, profile |-> activeProfile,
                   serving |-> Serving(selected.value, Pins(activeProfile))]
  /\ UNCHANGED <<config, activeProfile, listing, selected>>

Next ==
  \/ \E p \in DOMAIN config.profiles \cup {None} : SetActiveProfile(p)
  \/ List
  \/ \E tab \in Tabs : \E o \in Options(tab) : Select(o)
  \/ Send

Spec == Init /\ [][Next]_vars

-----------------------------------------------------------------------------
(* Nothing keeps a configuration from giving one name to two things.  Two  *)
(* models may share a picker id (ListedID numbers them one way, PickerID   *)
(* another), an alias or a picker id may be the id of another model, and a *)
(* pin may be named like a picker id, which ModelIDs has not.              *)

\* the models a name may stand for, in the listing or for the router
Meanings(c, name) ==
  {c.models[i].id : i \in {j \in Models(c) :
     name \in {c.models[j].id, PickerID(c, j)} \cup c.models[j].aliases
                \cup {ListedID(c, j, number) : number \in Numberings(c)}}}

OneModel(c, name) == Cardinality(Meanings(c, name)) <= 1

\* ... and no pin is listed beside it
OneMeaning(c, pins, name) ==
  /\ OneModel(c, name)
  /\ name \in {pin.name : pin \in pins} => name \in ModelIDs(c) \/ Meanings(c, name) = {}

\* Every name the server lists can be chosen in every tab, and each name that
\* has one meaning once: an alias is listed on its own and with its model, a
\* model may match what the tab needs or not.
OfferedOnce ==
  \A tab \in Tabs :
    /\ {o.value : o \in Options(tab)} =
         UNION {{r.id} \cup r.aliases : r \in listing.records}
    /\ \A o, p \in Options(tab) :
         o.value = p.value /\ o # p => ~OneMeaning(config, Pins(listing.profile), o.value)

\* What was chosen is what runs, if the name stands for one model and the active
\* profile does not pin it to something else: a name then means the same in the
\* listing and for the router, also after the profile or the listing changed
\* since the choice.
ChosenRuns ==
  requested # None =>
    LET o == requested.option
        pinned == \E pin \in Pins(requested.profile) : pin.name = o.value
    IN  CASE o.group \in {"Local", "Matching Capabilities", "Peers"} ->
               pinned \/ requested.serving = {o.stands} \/ ~OneModel(config, o.value)
          [] o.group = "Selectors" -> pinned \/ requested.serving # {}
          [] o.group = "Profile" -> pinned => requested.serving # {}

\* What the comments promise of picker ids ("assigned in sorted model order so
\* collision suffixes are deterministic and routable"): the id a model is
\* listed under is routed to that model.  Two models that share a picker id
\* break it.
PickerIDsRoute ==
  \A r \in listing.records : r.type = "model" => RealModel(config, r.id) = {r.stands}
=============================================================================
