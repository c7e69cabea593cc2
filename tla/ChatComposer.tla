---------------------------- MODULE ChatComposer ----------------------------
(***************************************************************************)
(* What is written below the chat (components/playground/                  *)
(* ChatInterface.svelte, ExpandableTextarea.svelte): the text, its large   *)
(* editor, and the images attached to the next message, which are read     *)
(* from their files asynchronously.  A model is selected.                  *)
(***************************************************************************)
EXTENDS Naturals, Sequences, SequencesExt, FiniteSets

CONSTANTS
  Texts,               \* what may be written, "" included
  Files, Invalid,      \* the files there are, and those of a wrong type or size
  MaxImages,           \* MAX_IMAGES_PER_MESSAGE
  MaxPicks, MaxSends,  \* bounds
  Overlap              \* are files picked while others are still read?

ComposerAssumption ==
  /\ "" \in Texts /\ Invalid \subseteq Files
  /\ MaxImages \in Nat /\ MaxPicks \in Nat /\ MaxSends \in Nat /\ Overlap \in BOOLEAN

VARIABLES
  userInput, isExpanded, expandedValue,
  attachedImages,  \* the images, each with the pick it came with
  reading,         \* the picks whose files are being read
  imageError,
  isStreaming,
  sent,            \* the messages sent
  picks            \* picks made

textVars == <<userInput, isExpanded, expandedValue>>
imageVars == <<attachedImages, reading, imageError, picks>>
vars == <<textVars, imageVars, isStreaming, sent>>

Init ==
  /\ userInput = "" /\ isExpanded = FALSE /\ expandedValue = ""
  /\ attachedImages = <<>> /\ reading = {} /\ imageError = FALSE
  /\ isStreaming = FALSE /\ sent = <<>> /\ picks = 0

\* the large editor covers the page; the small one is disabled while a reply streams
Reachable == ~isExpanded /\ ~isStreaming

Type(text) ==
  /\ Reachable /\ userInput' = text
  /\ UNCHANGED <<isExpanded, expandedValue, imageVars, isStreaming, sent>>

OpenExpanded ==
  /\ Reachable /\ isExpanded' = TRUE /\ expandedValue' = userInput
  /\ UNCHANGED <<userInput, imageVars, isStreaming, sent>>

TypeExpanded(text) ==
  /\ isExpanded /\ expandedValue' = text
  /\ UNCHANGED <<userInput, isExpanded, imageVars, isStreaming, sent>>

CloseExpanded ==
  /\ isExpanded /\ isExpanded' = FALSE
  /\ UNCHANGED <<userInput, expandedValue, imageVars, isStreaming, sent>>

SaveExpanded ==
  /\ isExpanded /\ isExpanded' = FALSE /\ userInput' = expandedValue
  /\ UNCHANGED <<expandedValue, imageVars, isStreaming, sent>>

\* without the check of the number of images
PickAny(files) ==
  /\ Reachable /\ (Overlap \/ reading = {})
  /\ picks < MaxPicks /\ picks' = picks + 1
  /\ IF ToSet(files) \cap Invalid # {}
     THEN imageError' = TRUE /\ UNCHANGED reading
     ELSE imageError' = FALSE /\ reading' = reading \cup {[pick |-> picks + 1, files |-> files]}
  /\ UNCHANGED <<textVars, attachedImages, isStreaming, sent>>

\* processImageFiles, up to the files' contents
Pick(files) ==
  /\ Reachable /\ (Overlap \/ reading = {})
  /\ picks < MaxPicks /\ picks' = picks + 1
  /\ IF Len(attachedImages) + Len(files) > MaxImages \/ ToSet(files) \cap Invalid # {}
     THEN imageError' = TRUE /\ UNCHANGED reading
     ELSE imageError' = FALSE /\ reading' = reading \cup {[pick |-> picks + 1, files |-> files]}
  /\ UNCHANGED <<textVars, attachedImages, isStreaming, sent>>

\* all of them are read, in whatever order the picks were made
FilesRead(p) ==
  /\ attachedImages' = attachedImages \o [i \in DOMAIN p.files |-> [pick |-> p.pick, file |-> p.files[i]]]
  /\ reading' = reading \ {p}
  /\ UNCHANGED <<textVars, imageError, picks, isStreaming, sent>>

ReadFails(p) ==
  /\ imageError' = TRUE /\ reading' = reading \ {p}
  /\ UNCHANGED <<textVars, attachedImages, picks, isStreaming, sent>>

RemoveImage(i) ==
  /\ i \in DOMAIN attachedImages /\ ~isExpanded
  /\ attachedImages' = RemoveAt(attachedImages, i) /\ imageError' = FALSE
  /\ UNCHANGED <<textVars, reading, picks, isStreaming, sent>>

\* sendMessage: the content of the message, and a new draft
SendMessage ==
  /\ Reachable /\ (userInput # "" \/ attachedImages # <<>>)
  /\ Len(sent) < MaxSends
  /\ sent' = Append(sent, [text |-> userInput, images |-> attachedImages])
  /\ userInput' = "" /\ attachedImages' = <<>> /\ imageError' = FALSE
  /\ isStreaming' = TRUE
  /\ UNCHANGED <<isExpanded, expandedValue, reading, picks>>

StreamEnds ==
  /\ isStreaming /\ isStreaming' = FALSE
  /\ UNCHANGED <<textVars, imageVars, sent>>

Next ==
  \/ \E text \in Texts : Type(text) \/ TypeExpanded(text)
  \/ OpenExpanded \/ CloseExpanded \/ SaveExpanded
  \/ \E files \in SetToAllKPermutations(Files) \ {<<>>} : Pick(files)
  \/ \E p \in reading : FilesRead(p) \/ ReadFails(p)
  \/ \E i \in 1..(MaxImages * MaxPicks) : RemoveImage(i)
  \/ SendMessage \/ StreamEnds

Spec == Init /\ [][Next]_vars

-----------------------------------------------------------------------------
\* "Maximum 5 images per message": no message is sent with more.  Not with Overlap:
\* the limit is checked before the files are read, against the images there are
\* then, and two picks that are read together both pass.
CapKept == \A i \in DOMAIN sent : Len(sent[i].images) <= MaxImages
=============================================================================
