--------------------------- MODULE ImageInterface ---------------------------
(***************************************************************************)
(* The image tab (components/playground/ImageInterface.svelte,             *)
(* lib/imageApi.ts, lib/sdApi.ts): the OpenAI endpoint gives one image,    *)
(* the SD endpoint a batch, with LoRAs chosen from a list asked for apart. *)
(***************************************************************************)
EXTENDS PlaygroundInterface, Naturals, Sequences

CONSTANTS
  Models,
  Sizes,
  Loras,      \* the LoRAs the server may list
  Multipliers,
  MaxBatch    \* sdBatchSizeStore's largest value

VARIABLES
  model, mode,       \* selected model; "openai" or "sdapi"
  size,              \* selectedSizeStore
  panel, batch,      \* showSettings; sdBatchSizeStore, for all its settings
  availableLoras, selectedLoras,
  loraState,         \* isLoadingLoras, lorasLoaded, loraError as one of
                     \* "new", "loading", "loaded", "failed", "reloading"
  images,            \* generatedImages: the requests they answer
  fullscreen         \* fullscreenIndex while showFullscreen, else 0

loraVars == <<availableLoras, selectedLoras, loraState>>
settingVars == <<model, mode, size, panel, batch>>
shownVars == <<images, fullscreen>>
tabVars == <<settingVars, loraVars, shownVars>>
vars == <<ifaceVars, tabVars>>

Init ==
  /\ InterfaceInit
  /\ model = None /\ mode = "openai" /\ size = "1024x1024" /\ panel = FALSE /\ batch = 1
  /\ availableLoras = {} /\ selectedLoras = <<>> /\ loraState = "new"
  /\ images = <<>> /\ fullscreen = 0

SelectModel(m) ==
  /\ ~busy /\ m # model /\ model' = m
  /\ UNCHANGED <<ifaceVars, mode, size, panel, batch, loraVars, shownVars>>

\* the mode, the size and the settings are kept in localStorage, and can be
\* changed while a request runs
SelectMode(m) ==
  /\ m # mode /\ mode' = m
  /\ UNCHANGED <<ifaceVars, model, size, panel, batch, loraVars, shownVars>>

SelectSize(s) ==
  /\ s # size /\ size' = s
  /\ UNCHANGED <<ifaceVars, model, mode, panel, batch, loraVars, shownVars>>

ToggleSettings ==
  /\ mode = "sdapi" /\ panel' = ~panel
  /\ UNCHANGED <<ifaceVars, model, mode, size, batch, loraVars, shownVars>>

\* the panel is hidden, and kept, in the other mode
PanelShown == mode = "sdapi" /\ panel

SetBatchSize(n) ==
  /\ PanelShown /\ n # batch /\ batch' = n
  /\ UNCHANGED <<ifaceVars, model, mode, size, panel, loraVars, shownVars>>

\* loadLoras: lorasLoaded stays as it was until the answer
LoadLoras ==
  /\ PanelShown /\ model # None /\ loraState \notin {"loading", "reloading"}
  /\ loraState' = IF loraState = "loaded" THEN "reloading" ELSE "loading"
  /\ UNCHANGED <<ifaceVars, settingVars, availableLoras, selectedLoras, shownVars>>

LorasAnswered(listed) ==
  /\ loraState \in {"loading", "reloading"}
  /\ \/ availableLoras' = listed /\ loraState' = "loaded"
     \/ availableLoras' = {} /\ loraState' = "failed"
  /\ UNCHANGED <<ifaceVars, settingVars, selectedLoras, shownVars>>

Chosen == {selectedLoras[i].path : i \in DOMAIN selectedLoras}

\* the list offers what is not selected yet
Offered == IF loraState \in {"loaded", "reloading"} THEN availableLoras \ Chosen ELSE {}

AddLora(path) ==
  /\ PanelShown /\ path \in Offered
  /\ selectedLoras' = Append(selectedLoras, [path |-> path, multiplier |-> 1])
  /\ UNCHANGED <<ifaceVars, settingVars, availableLoras, loraState, shownVars>>

\* what is selected stays in the panel when the list no longer has it
Removable == IF PanelShown THEN Chosen ELSE {}

RemoveLora(path) ==
  /\ path \in Removable
  /\ selectedLoras' = SelectSeq(selectedLoras, LAMBDA l : l.path # path)
  /\ UNCHANGED <<ifaceVars, settingVars, availableLoras, loraState, shownVars>>

UpdateLoraMultiplier(path, m) ==
  /\ path \in Removable
  /\ selectedLoras' = [i \in DOMAIN selectedLoras |->
                         IF selectedLoras[i].path = path THEN [path |-> path, multiplier |-> m] ELSE selectedLoras[i]]
  /\ UNCHANGED <<ifaceVars, settingVars, availableLoras, loraState, shownVars>>

\* the request is made from the settings of the moment; the LoRAs are those
\* selected, for whichever model
Request ==
  IF mode = "sdapi" THEN [model |-> model, size |-> size, batch |-> batch, loras |-> selectedLoras]
                    ELSE [model |-> model, size |-> size, batch |-> 1, loras |-> <<>>]

Generate == model # None /\ Run(Request) /\ UNCHANGED tabVars

\* (variation: the images of a batch are added to those shown)
GeneratedMore(n) ==
  /\ Resolved /\ n <= task.batch
  /\ images' = images \o [i \in 1..n |-> task]
  /\ UNCHANGED <<settingVars, loraVars, fullscreen>>

\* an answer without images leaves the old ones
Generated(n) ==
  /\ Resolved /\ n <= task.batch
  /\ images' = IF n = 0 THEN images ELSE [i \in 1..n |-> task]
  /\ UNCHANGED <<settingVars, loraVars, fullscreen>>

CancelGeneration == Cancel /\ UNCHANGED tabVars
NoAnswer == (Failed \/ Aborted) /\ UNCHANGED tabVars

ClearImage ==
  /\ ~busy /\ images' = <<>> /\ error' = None
  /\ UNCHANGED <<task, busy, abort, settingVars, loraVars, fullscreen>>

\* the images are shown when no request runs and none has failed
Showing == IF ~busy /\ error = None THEN images ELSE <<>>

OpenFullscreen(i) ==
  /\ i \in DOMAIN Showing /\ fullscreen' = i
  /\ UNCHANGED <<ifaceVars, settingVars, loraVars, images>>

\* an image that is gone is not shown, and the flag stays; the dialog lies over
\* the tab, whose controls the keyboard still reaches
FullscreenShown == fullscreen \in DOMAIN images

CloseFullscreen ==
  /\ FullscreenShown /\ fullscreen' = 0
  /\ UNCHANGED <<ifaceVars, settingVars, loraVars, images>>

Next ==
  \/ \E m \in Models \cup {None} : SelectModel(m)
  \/ \E m \in {"openai", "sdapi"} : SelectMode(m)
  \/ \E s \in Sizes : SelectSize(s)
  \/ ToggleSettings \/ \E n \in 1..MaxBatch : SetBatchSize(n)
  \/ LoadLoras \/ \E listed \in SUBSET Loras : LorasAnswered(listed)
  \/ \E path \in Loras :
       AddLora(path) \/ RemoveLora(path) \/ \E m \in Multipliers : UpdateLoraMultiplier(path, m)
  \/ Generate \/ \E n \in 0..MaxBatch : Generated(n) \/ OpenFullscreen(n)
  \/ CancelGeneration \/ NoAnswer \/ ClearImage \/ CloseFullscreen

Spec == Init /\ [][Next]_vars

-----------------------------------------------------------------------------
\* What is shown is the answer to one request, whole: a request that failed, was
\* cancelled or gave no image leaves the images of the one before, never a mix.
ImagesOfOneRequest ==
  \A i \in DOMAIN images : images[i] = images[1]
=============================================================================
