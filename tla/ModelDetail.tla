---------------------------- MODULE ModelDetail ----------------------------
(***************************************************************************)
(* The page of one model (routes/ModelDetail.svelte): the route names a    *)
(* model, an alias or a family, the page shows one variant of that family, *)
(* and its tabs the variant's tags (model/HugsTagsEditor.svelte) and       *)
(* memory measurements (model/ModelMemoryTab.svelte).  The page stays      *)
(* mounted while the route names some model, its tabs with it.  A request  *)
(* is served when it is answered.  The list of models does not change.     *)
(***************************************************************************)
EXTENDS Naturals, Sequences

CONSTANTS
  Models,     \* the list: records id, aliases, family, backend, driver, marks, peer, ready
  Names,      \* what a route may name
  Texts,      \* what may be written as tags, "" included
  None,
  MaxCalls, MaxMoves   \* bounds: requests made, routes and variants chosen

DetailAssumption ==
  /\ \A i \in DOMAIN Models :
       /\ Models[i].peer \in BOOLEAN /\ Models[i].ready \in BOOLEAN
       /\ Models[i].backend \in {"", "llama.cpp", "vllm"} /\ Models[i].driver \in {"", "rocm", "cuda"}
       /\ Models[i].marks \subseteq {"vllm", "cuda"}
  /\ "" \in Texts /\ MaxCalls \in Nat /\ MaxMoves \in Nat

VARIABLES
  serverTags,         \* the tags stored for each model
  modelId, selectedId,
  editor,             \* the tags editor; None while no model is shown
  memory,             \* the model whose measurements are shown; None before they are
  calls,              \* the requests under way
  made, moves

editorVars == <<editor, memory, calls, made>>
vars == <<serverTags, modelId, selectedId, editorVars, moves>>

Ids == {Models[i].id : i \in DOMAIN Models}

\* variantLabel: what was configured, or what the id is marked with (the prefixes
\* vr-, vc-, lc- and the suffix -cuda)
InferredBackend(m) == IF m.backend # "" THEN m.backend ELSE IF "vllm" \in m.marks THEN "vllm" ELSE "llama.cpp"
InferredDriver(m) == IF m.driver # "" THEN m.driver ELSE IF "cuda" \in m.marks THEN "cuda" ELSE "rocm"
VariantLabel(m) == <<InferredBackend(m), InferredDriver(m)>>
LabelOrder == << <<"llama.cpp", "cuda">>, <<"llama.cpp", "rocm">>, <<"vllm", "cuda">>, <<"vllm", "rocm">> >>

\* sorted by label; Models is in the order of the ids
ByLabel(ms) ==
  LET Of(k) == SelectSeq(ms, LAMBDA m : VariantLabel(m) = LabelOrder[k])
  IN  ((Of(1) \o Of(2)) \o Of(3)) \o Of(4)

\* resolveModelFamily: the variants a name stands for, and which of them it means
Seeds(name) ==
  LET exact == SelectSeq(Models, LAMBDA m : m.id = name)
  IN IF exact # <<>> THEN exact ELSE SelectSeq(Models, LAMBDA m : name \in m.aliases)
FamilyOf(name) == IF Seeds(name) = <<>> THEN name ELSE Head(Seeds(name)).family
Variants(name) ==
  IF Seeds(name) # <<>> /\ Head(Seeds(name)).peer THEN <<Head(Seeds(name))>>
  ELSE ByLabel(SelectSeq(Models, LAMBDA m : ~m.peer /\ m.family = FamilyOf(name)))
Meant(name) ==
  IF Seeds(name) # <<>> THEN Head(Seeds(name)).id
  ELSE LET ready == SelectSeq(Variants(name), LAMBDA m : m.ready)
       IN IF ready # <<>> THEN Head(ready).id ELSE Head(Variants(name)).id

\* the variant shown: the chosen one, if the route's family has it
Shown(name, chosen) ==
  IF Variants(name) = <<>> THEN None
  ELSE IF \E i \in DOMAIN Variants(name) : Variants(name)[i].id = chosen THEN chosen
  ELSE Meant(name)
Model == Shown(modelId, selectedId)

-----------------------------------------------------------------------------
Call(kind, text) == [kind |-> kind, n |-> made + 1, model |-> Model, text |-> text, for |-> editor.n]

NewEditor(n) == [n |-> n, tags |-> "", of |-> None, loading |-> TRUE, saving |-> FALSE,
                 editing |-> FALSE, draft |-> "", error |-> FALSE]

Init ==
  /\ serverTags \in [Ids -> Texts]
  /\ modelId \in {n \in Names : Variants(n) # <<>>} /\ selectedId = ""
  /\ editor = NewEditor(1) /\ memory = None
  /\ made = 2 /\ moves = 0
  /\ calls = {[kind |-> k, n |-> IF k = "tags" THEN 1 ELSE 2, model |-> Model, text |-> "", for |-> 1]
                : k \in {"tags", "memory"}}

\* the page without a model, with one again, or with another one: the tabs are
\* mounted once and ask once
Turn(name, chosen) ==
  /\ moves < MaxMoves /\ moves' = moves + 1
  /\ modelId' = name /\ selectedId' = chosen
  /\ LET new == Shown(name, chosen)
     IN IF (new = None) = (Model = None) THEN UNCHANGED editorVars
        ELSE IF new = None THEN editor' = None /\ memory' = None /\ UNCHANGED <<calls, made>>
        ELSE /\ made + 2 <= MaxCalls /\ made' = made + 2
             /\ editor' = NewEditor(made + 1) /\ memory' = None
             /\ calls' = calls \cup
                  {[kind |-> k, n |-> made + (IF k = "tags" THEN 1 ELSE 2), model |-> new, text |-> "",
                    for |-> made + 1] : k \in {"tags", "memory"}}
  /\ UNCHANGED serverTags

Navigate(name) == name # modelId /\ Turn(name, selectedId)

SelectVariant(i) ==
  /\ Len(Variants(modelId)) > 1 /\ i \in DOMAIN Variants(modelId)
  /\ Variants(modelId)[i].id # Model
  /\ Turn(modelId, Variants(modelId)[i].id)

-----------------------------------------------------------------------------
\* The tags editor

Edit(new) ==
  /\ editor' = new
  /\ UNCHANGED <<serverTags, modelId, selectedId, memory, calls, made, moves>>

StartEdit ==
  /\ editor # None /\ ~editor.loading /\ ~editor.editing
  /\ Edit([editor EXCEPT !.draft = editor.tags, !.editing = TRUE])

Write(text) ==
  /\ editor # None /\ editor.editing /\ ~editor.loading /\ ~editor.saving
  /\ Edit([editor EXCEPT !.draft = text])

CancelEdit ==
  /\ editor # None /\ editor.editing /\ ~editor.loading
  /\ Edit([editor EXCEPT !.editing = FALSE, !.draft = "", !.error = FALSE])

\* a save while another one is under way
SaveAgain ==
  /\ editor # None /\ editor.editing /\ ~editor.loading /\ made < MaxCalls
  /\ editor' = [editor EXCEPT !.saving = TRUE, !.error = FALSE]
  /\ calls' = calls \cup {Call("save", editor.draft)} /\ made' = made + 1
  /\ UNCHANGED <<serverTags, modelId, selectedId, memory, moves>>

Save ==
  /\ editor # None /\ editor.editing /\ ~editor.loading /\ ~editor.saving /\ made < MaxCalls
  /\ editor' = [editor EXCEPT !.saving = TRUE, !.error = FALSE]
  /\ calls' = calls \cup {Call("save", editor.draft)} /\ made' = made + 1
  /\ UNCHANGED <<serverTags, modelId, selectedId, memory, moves>>

\* the editor a call belongs to is still there
Live(c) == editor # None /\ editor.n = c.for

TagsAnswered(c) ==
  /\ c.kind = "tags" /\ calls' = calls \ {c}
  /\ editor' = IF Live(c) THEN [editor EXCEPT !.tags = serverTags[c.model], !.of = c.model,
                                              !.loading = FALSE, !.saving = FALSE]
               ELSE editor
  /\ UNCHANGED <<serverTags, modelId, selectedId, memory, made, moves>>

\* stored; the editor closes and asks again, for the model shown now
Saved(c) ==
  /\ c.kind = "save" /\ made < MaxCalls
  /\ serverTags' = [serverTags EXCEPT ![c.model] = c.text]
  /\ IF Live(c)
     THEN /\ editor' = [editor EXCEPT !.editing = FALSE, !.loading = TRUE, !.error = FALSE]
          /\ calls' = (calls \ {c}) \cup {Call("tags", "")} /\ made' = made + 1
     ELSE calls' = calls \ {c} /\ UNCHANGED <<editor, made>>
  /\ UNCHANGED <<modelId, selectedId, memory, moves>>

EditorFails(c) ==
  /\ c.kind \in {"tags", "save"} /\ calls' = calls \ {c}
  /\ editor' = IF Live(c) THEN [editor EXCEPT !.loading = FALSE, !.saving = FALSE, !.error = TRUE] ELSE editor
  /\ UNCHANGED <<serverTags, modelId, selectedId, memory, made, moves>>

MemoryAnswered(c) ==
  /\ c.kind = "memory" /\ calls' = calls \ {c}
  /\ memory' = IF Live(c) THEN c.model ELSE memory
  /\ UNCHANGED <<serverTags, modelId, selectedId, editor, made, moves>>

Next ==
  \/ \E name \in Names : Navigate(name)
  \/ \E i \in 1..Len(Models) : SelectVariant(i)
  \/ StartEdit \/ CancelEdit \/ Save \/ \E text \in Texts : Write(text)
  \/ \E c \in calls : TagsAnswered(c) \/ Saved(c) \/ EditorFails(c) \/ MemoryAnswered(c)

Spec == Init /\ [][Next]_vars

-----------------------------------------------------------------------------
\* An editor waits for one answer at most, whatever was saved, dropped or left
\* behind: a list of tags that was asked for before a save never replaces the one
\* asked for after it.
OneCall ==
  \A c, d \in calls :
    Live(c) /\ Live(d) /\ {c.kind, d.kind} \subseteq {"tags", "save"} => c = d

\* The tags and the measurements shown are those of the model shown.  The code does
\* not promise it: both tabs ask when they are mounted, and a save of tags of one
\* variant goes to the variant that has been chosen since.
TabsOfModel ==
  Model # None => editor.of \in {None, Model} /\ memory \in {None, Model}

\* A link to a model shows that model.  The code does not promise it either: a
\* variant chosen before is shown as long as the family is the same.
LinkShowsModel == [][modelId' # modelId /\ modelId' \in Ids => Model' = modelId']_vars
=============================================================================
