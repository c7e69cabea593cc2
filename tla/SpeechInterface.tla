-------------------------- MODULE SpeechInterface --------------------------
(***************************************************************************)
(* The speech tab (components/playground/SpeechInterface.svelte,           *)
(* lib/speechApi.ts): one audio at a time, and the voices a model offers,  *)
(* asked from the server and cached in localStorage by model.              *)
(***************************************************************************)
EXTENDS PlaygroundInterface, Naturals, Sequences, Functions

CONSTANTS
  Models,
  Offers,         \* the voices the server lists for a model
  DefaultVoices

VARIABLES
  model, voice,   \* the selected ones, kept in localStorage
  voices,         \* availableVoices
  fetching,       \* the model whose voices are being asked for, or None
  cache,          \* the cached voices by model, None where there are none
  audio,          \* the request the audio shown answers, or None
  audioVoice,     \* generatedVoice
  autoPlay,       \* autoPlayStore
  playing,        \* the audio auto-played last
  live            \* object URLs created and not revoked

voiceVars == <<voice, voices, fetching, cache>>
audioVars == <<audio, audioVoice, autoPlay, playing, live>>
tabVars == <<model, voiceVars, audioVars>>
vars == <<ifaceVars, tabVars>>

\* a model the cache has voices of
Restored(m, c) == IF m # None /\ c[m] # None THEN c[m] ELSE DefaultVoices

Init ==
  /\ InterfaceInit
  /\ model \in Models \cup {None} /\ voice = Head(DefaultVoices)
  /\ cache = [m \in Models |-> None] /\ voices = Restored(model, cache)
  /\ fetching = None /\ audio = None /\ audioVoice = None /\ live = 0
  /\ autoPlay = FALSE /\ playing = None

\* the voices stay those of the model before
SelectModel(m) ==
  /\ ~busy /\ m # model /\ model' = m
  /\ UNCHANGED <<ifaceVars, voiceVars, audioVars>>

\* also while a request runs
SelectVoice(v) ==
  /\ v \in Range(voices) /\ voice' = v
  /\ UNCHANGED <<ifaceVars, model, voices, fetching, cache, audioVars>>

\* refreshVoices, up to the answer
RefreshVoices ==
  /\ model # None /\ fetching = None /\ fetching' = model
  /\ UNCHANGED <<ifaceVars, model, voice, voices, cache, audioVars>>

\* (variation: the model is read again after the await)
CacheForSelected(list) ==
  /\ fetching # None /\ list \in {Offers[fetching], DefaultVoices}
  /\ voices' = list /\ voice' = Head(list) /\ fetching' = None
  /\ cache' = IF model = None THEN cache ELSE [cache EXCEPT ![model] = list]
  /\ UNCHANGED <<ifaceVars, model, audioVars>>

\* what the server lists, or the default voices if it lists none or fails
VoicesAnswered(list) ==
  /\ fetching # None /\ list \in {Offers[fetching], DefaultVoices}
  /\ voices' = list /\ voice' = Head(list) /\ fetching' = None
  /\ cache' = [cache EXCEPT ![fetching] = list]
  /\ UNCHANGED <<ifaceVars, model, audioVars>>

Generate ==
  /\ model # None /\ Run([model |-> model, voice |-> voice]) /\ UNCHANGED tabVars

\* what the tab shows: an audio is hidden, and kept, by a request and its error
Showing == IF ~busy /\ error = None THEN audio ELSE None

\* the element that plays is there when the audio is shown
AutoPlayed(a) == IF autoPlay /\ a # None THEN a ELSE playing

\* the previous URL is revoked; the voice is read again
Generated ==
  /\ Resolved
  /\ audio' = task /\ audioVoice' = voice
  /\ playing' = AutoPlayed(task)
  /\ live' = (IF audio # None THEN live - 1 ELSE live) + 1
  /\ UNCHANGED <<model, voiceVars, autoPlay>>

\* the checkbox is shown between requests; turning it on plays what is there
ToggleAutoPlay ==
  /\ ~busy /\ autoPlay' = ~autoPlay
  /\ playing' = IF autoPlay \/ Showing = None THEN playing ELSE Showing
  /\ UNCHANGED <<ifaceVars, model, voiceVars, audio, audioVoice, live>>

CancelGeneration == Cancel /\ UNCHANGED tabVars
NoAnswer == (Failed \/ Aborted) /\ UNCHANGED tabVars

\* the page is loaded again
Reload ==
  /\ task' = None /\ busy' = FALSE /\ error' = None /\ abort' = None
  /\ voices' = Restored(model, cache) /\ fetching' = None
  /\ audio' = None /\ audioVoice' = None /\ live' = 0 /\ playing' = None
  /\ UNCHANGED <<model, voice, cache, autoPlay>>

Next ==
  \/ \E m \in Models \cup {None} : SelectModel(m)
  \/ \E v \in (UNION {Range(Offers[m]) : m \in Models}) \cup Range(DefaultVoices) : SelectVoice(v)
  \/ RefreshVoices \/ \E list \in {Offers[m] : m \in Models} \cup {DefaultVoices} : VoicesAnswered(list)
  \/ Generate \/ Generated \/ ToggleAutoPlay \/ CancelGeneration \/ NoAnswer \/ Reload

Spec == Init /\ [][Next]_vars

-----------------------------------------------------------------------------
\* Whatever model is selected when the answer comes, the cache keeps the voices
\* of a model under that model, so that what a reload restores is its own.
CacheByModel == \A m \in Models : cache[m] \in {None, DefaultVoices, Offers[m]}
=============================================================================
