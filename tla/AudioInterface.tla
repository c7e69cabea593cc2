--------------------------- MODULE AudioInterface ---------------------------
(***************************************************************************)
(* The transcription tab (components/playground/AudioInterface.svelte,     *)
(* lib/audioApi.ts): a file is chosen or dropped and transcribed.  A       *)
(* transcript is modelled by its file.                                     *)
(***************************************************************************)
EXTENDS PlaygroundInterface

CONSTANTS
  Models,
  Files,    \* files of an accepted format
  BadFile   \* a file of another

VARIABLES
  model,    \* the selected one, kept in localStorage
  file,     \* selectedFile
  result,   \* transcriptionResult
  copied

tabVars == <<model, file, result, copied>>
vars == <<ifaceVars, tabVars>>

Init == InterfaceInit /\ model \in Models \cup {None} /\ file = None /\ result = None /\ copied = FALSE

SelectModel(m) ==
  /\ ~busy /\ m # model /\ model' = m
  /\ UNCHANGED <<ifaceVars, file, result, copied>>

\* what the tab shows, the first of these that is so
Showing ==
  CASE busy -> "busy" [] ~busy /\ error # None -> "error"
    [] ~busy /\ error = None /\ result # None -> "result"
    [] ~busy /\ error = None /\ result = None /\ file # None -> "file"
    [] OTHER -> "drop zone"

\* a file of another format is refused, and the transcript kept
TakeFile(f) ==
  /\ IF f \in Files
     THEN file' = f /\ error' = None /\ result' = None
     ELSE file' = None /\ error' = Failure /\ UNCHANGED result
  /\ UNCHANGED <<task, busy, abort, model, copied>>

\* (variation: Browse is not disabled)
BrowseAnytime(f) == TakeFile(f)

\* handleFileSelect: Browse is disabled while transcribing
Browse(f) == ~busy /\ TakeFile(f)

\* handleDrop
Drop(f) == Showing = "drop zone" /\ TakeFile(f)

\* transcribe: the file is read before the await
Transcribe ==
  /\ file # None /\ model # None /\ Run(file) /\ result' = None
  /\ UNCHANGED <<model, file, copied>>

Transcribed == Resolved /\ result' = task /\ UNCHANGED <<model, file, copied>>
CancelTranscription == Cancel /\ UNCHANGED tabVars
NoAnswer == (Failed \/ Aborted) /\ UNCHANGED tabVars

ClearAll ==
  /\ ~busy /\ (file # None \/ result # None \/ error # None)
  /\ file' = None /\ result' = None /\ error' = None
  /\ UNCHANGED <<task, busy, abort, model, copied>>

\* copyToClipboard, and the timeouts that reset the mark, of this copy or the last
Copy ==
  /\ Showing = "result" /\ copied' = TRUE /\ UNCHANGED <<ifaceVars, model, file, result>>

CopiedTimeout ==
  /\ copied /\ copied' = FALSE /\ UNCHANGED <<ifaceVars, model, file, result>>

Next ==
  \/ \E m \in Models \cup {None} : SelectModel(m)
  \/ \E f \in Files \cup {BadFile} : Browse(f) \/ Drop(f)
  \/ Transcribe \/ Transcribed \/ CancelTranscription \/ NoAnswer \/ ClearAll
  \/ Copy \/ CopiedTimeout

Spec == Init /\ [][Next]_vars

-----------------------------------------------------------------------------
\* A transcript is not shown for another file than the one it was made of.
TranscriptOfFile == result # None /\ file # None => result = file
=============================================================================
