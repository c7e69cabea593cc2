----------------------------- MODULE ChatMessage -----------------------------
(***************************************************************************)
(* One message of the chat tab (components/playground/ChatMessage.svelte): *)
(* its raw and rendered view, the copy buttons put beside its code blocks, *)
(* its editor, and the image it shows over the whole page.  The            *)
(* conversation around it (ChatInterface.tla) streams text into it, or     *)
(* drops it.  A text is known by the number of its code blocks.            *)
(***************************************************************************)
EXTENDS Naturals, Sequences

CONSTANTS
  Messages,             \* records [role, images]
  MaxBlocks, MaxCopies, \* bounds
  Keyboard              \* are controls under the full-size image reached with the keyboard?

VARIABLES
  shown,          \* the messages of the conversation
  isStreaming,    \* of the message: only the last one, but each may be the last
  isReasoning, reasoning,   \* reasoning_content: is it streamed, is there any
  blocks,         \* code blocks of the text
  pres,           \* those in the document, by their copy buttons
  mutated,        \* is a call of the MutationObserver pending?
  copied, timers, \* the check mark, and the timeouts that take it away
  showRaw, showReasoning, isEditing,
  modal,          \* modalImageUrl is set
  overflow        \* document.body.style.overflow is "hidden"

text == <<isStreaming, isReasoning, reasoning, blocks>>
code == <<pres, mutated>>
view == <<showRaw, showReasoning, isEditing>>
copy == <<copied, timers>>
page == <<modal, overflow>>
vars == <<shown, text, code, view, copy, page>>

Assistant == {m \in Messages : m.role = "assistant"}
All(v) == [m \in Messages |-> v]

Init ==
  /\ shown = {}
  /\ isStreaming = All(FALSE) /\ isReasoning = All(FALSE) /\ reasoning = All(FALSE)
  /\ blocks = All(0) /\ pres = All(<<>>) /\ mutated = All(FALSE)
  /\ copied = All(FALSE) /\ timers = All(0)
  /\ showRaw = All(FALSE) /\ showReasoning = All(FALSE) /\ isEditing = All(FALSE)
  /\ modal = All(FALSE) /\ overflow = FALSE

\* the full-size image covers every other control
Reachable == Keyboard \/ \A m \in Messages : ~modal[m]

Without(n) == [i \in 1 .. n |-> 0]

-----------------------------------------------------------------------------
(* What the conversation does to a message.                                *)

\* a component is made; a reply starts empty
Enters(m) ==
  /\ m \notin shown /\ Reachable
  /\ shown' = shown \cup {m}
  /\ isStreaming' = [isStreaming EXCEPT ![m] = m \in Assistant]
  /\ UNCHANGED <<isReasoning, reasoning, blocks, code, view, copy, page>>

\* New Chat, or an edit above: the component is destroyed, with its observer
Leaves(m) ==
  /\ m \in shown /\ Reachable
  /\ shown' = shown \ {m}
  /\ isStreaming' = [isStreaming EXCEPT ![m] = FALSE]
  /\ isReasoning' = [isReasoning EXCEPT ![m] = FALSE] /\ reasoning' = [reasoning EXCEPT ![m] = FALSE]
  /\ blocks' = [blocks EXCEPT ![m] = 0]
  /\ pres' = [pres EXCEPT ![m] = <<>>] /\ mutated' = [mutated EXCEPT ![m] = FALSE]
  /\ showRaw' = [showRaw EXCEPT ![m] = FALSE]
  /\ showReasoning' = [showReasoning EXCEPT ![m] = FALSE]
  /\ isEditing' = [isEditing EXCEPT ![m] = FALSE]
  /\ copied' = [copied EXCEPT ![m] = FALSE] /\ timers' = [timers EXCEPT ![m] = 0]
  /\ modal' = [modal EXCEPT ![m] = FALSE]
  /\ UNCHANGED overflow

Regenerate(m) ==
  /\ m \in Assistant \cap shown /\ ~isStreaming[m] /\ Reachable
  /\ isStreaming' = [isStreaming EXCEPT ![m] = TRUE]
  /\ reasoning' = [reasoning EXCEPT ![m] = FALSE]
  /\ blocks' = [blocks EXCEPT ![m] = 0]
  /\ pres' = [pres EXCEPT ![m] = <<>>] /\ mutated' = [mutated EXCEPT ![m] = ~showRaw[m]]
  /\ UNCHANGED <<shown, isReasoning, view, copy, page>>

Reasons(m) ==
  /\ isStreaming[m] /\ ~isReasoning[m]
  /\ isReasoning' = [isReasoning EXCEPT ![m] = TRUE] /\ reasoning' = [reasoning EXCEPT ![m] = TRUE]
  /\ UNCHANGED <<shown, isStreaming, blocks, code, view, copy, page>>

\* a chunk of text: finished code blocks stay in the document, those after the
\* last boundary (StreamingMarkdown.tla) are rendered anew with every chunk
Grows(m, n) ==
  /\ isStreaming[m] /\ n \in {blocks[m], blocks[m] + 1} /\ n <= MaxBlocks
  /\ isReasoning' = [isReasoning EXCEPT ![m] = FALSE]
  /\ blocks' = [blocks EXCEPT ![m] = n]
  /\ IF showRaw[m] THEN UNCHANGED code
     ELSE /\ \E kept \in 0 .. blocks[m] :
               pres' = [pres EXCEPT ![m] = SubSeq(@, 1, kept) \o Without(n - kept)]
          /\ mutated' = [mutated EXCEPT ![m] = TRUE]
  /\ UNCHANGED <<shown, isStreaming, reasoning, view, copy, page>>

\* the whole text is one rendered block now
StreamEnds(m) ==
  /\ isStreaming[m]
  /\ isStreaming' = [isStreaming EXCEPT ![m] = FALSE] /\ isReasoning' = [isReasoning EXCEPT ![m] = FALSE]
  /\ IF showRaw[m] THEN UNCHANGED code
     ELSE /\ pres' = [pres EXCEPT ![m] = Without(blocks[m])]
          /\ mutated' = [mutated EXCEPT ![m] = TRUE]
  /\ UNCHANGED <<shown, reasoning, blocks, view, copy, page>>

-----------------------------------------------------------------------------
(* The message itself.                                                     *)

\* (variation: the mark that a block has its button is not looked at)
AttachAgain(before) == [i \in DOMAIN before |-> IF before[i] < 2 THEN before[i] + 1 ELSE before[i]]

\* attachButtons: pre:not([data-copy-btn])
AttachButtons(before) == [i \in DOMAIN before |-> IF before[i] = 0 THEN 1 ELSE before[i]]

\* the observer sees the buttons it adds as well
Observed(m) ==
  /\ mutated[m]
  /\ pres' = [pres EXCEPT ![m] = AttachButtons(@)]
  /\ mutated' = [mutated EXCEPT ![m] = pres' # pres]
  /\ UNCHANGED <<shown, text, view, copy, page>>

\* the rendered view comes with codeBlockCopy, which attaches before it observes
ToggleRaw(m) ==
  /\ m \in Assistant \cap shown /\ ~isStreaming[m] /\ Reachable
  /\ showRaw' = [showRaw EXCEPT ![m] = ~@]
  /\ pres' = [pres EXCEPT ![m] = IF showRaw[m] THEN AttachButtons(Without(blocks[m])) ELSE <<>>]
  /\ mutated' = [mutated EXCEPT ![m] = FALSE]
  /\ UNCHANGED <<shown, text, showReasoning, isEditing, copy, page>>

ToggleReasoning(m) ==
  /\ m \in Assistant \cap shown /\ (reasoning[m] \/ isReasoning[m]) /\ Reachable
  /\ showReasoning' = [showReasoning EXCEPT ![m] = ~@]
  /\ UNCHANGED <<shown, text, code, showRaw, isEditing, copy, page>>

CopyToClipboard(m) ==
  /\ m \in Assistant \cap shown /\ ~isStreaming[m] /\ timers[m] < MaxCopies /\ Reachable
  /\ copied' = [copied EXCEPT ![m] = TRUE] /\ timers' = [timers EXCEPT ![m] = @ + 1]
  /\ UNCHANGED <<shown, text, code, view, page>>

CopiedTimeout(m) ==
  /\ timers[m] > 0
  /\ copied' = [copied EXCEPT ![m] = FALSE] /\ timers' = [timers EXCEPT ![m] = @ - 1]
  /\ UNCHANGED <<shown, text, code, view, page>>

\* startEdit, then saveEdit or cancelEdit
StartEdit(m) ==
  /\ m \in shown \ Assistant /\ ~m.images /\ ~isEditing[m] /\ Reachable
  /\ isEditing' = [isEditing EXCEPT ![m] = TRUE]
  /\ UNCHANGED <<shown, text, code, showRaw, showReasoning, copy, page>>

EndEdit(m) ==
  /\ isEditing[m] /\ Reachable
  /\ isEditing' = [isEditing EXCEPT ![m] = FALSE]
  /\ UNCHANGED <<shown, text, code, showRaw, showReasoning, copy, page>>

OpenModal(m) ==
  /\ m \in shown /\ m.images /\ Reachable
  /\ modal' = [modal EXCEPT ![m] = TRUE] /\ overflow' = TRUE
  /\ UNCHANGED <<shown, text, code, view, copy>>

\* its button, the background around it, or Escape
CloseModal(m) ==
  /\ modal[m]
  /\ modal' = [modal EXCEPT ![m] = FALSE] /\ overflow' = FALSE
  /\ UNCHANGED <<shown, text, code, view, copy>>

-----------------------------------------------------------------------------
Next ==
  \E m \in Messages :
    \/ Enters(m) \/ Leaves(m) \/ Regenerate(m) \/ Reasons(m) \/ StreamEnds(m)
    \/ \E n \in 0 .. MaxBlocks : Grows(m, n)
    \/ Observed(m) \/ ToggleRaw(m) \/ ToggleReasoning(m)
    \/ CopyToClipboard(m) \/ CopiedTimeout(m)
    \/ StartEdit(m) \/ EndEdit(m) \/ OpenModal(m) \/ CloseModal(m)

Spec == Init /\ [][Next]_vars

-----------------------------------------------------------------------------
\* Whatever a reply streams and however often its view changes: when the
\* observer has run, every code block of the rendered text has one copy button.
OneButtonEach ==
  \A m \in Assistant \cap shown :
    /\ \A i \in DOMAIN pres[m] : pres[m][i] <= 1
    /\ ~mutated[m] /\ ~showRaw[m] => pres[m] = [i \in 1 .. blocks[m] |-> 1]

\* The page behind a full-size image does not scroll, and scrolls again when
\* it is closed.  Not so with the keyboard, which reaches what is under the
\* image: a message that goes with its image open leaves the page locked.
LockedWhileOpen == overflow <=> \E m \in Messages : modal[m]
=============================================================================
