--------------------------- MODULE ChatInterface ---------------------------
(***************************************************************************)
(* The chat tab (components/playground/ChatInterface.svelte and            *)
(* ChatMessage.svelte): a conversation, the replies streamed into it and   *)
(* the copy of it in localStorage.  A model is selected.  The page is      *)
(* single-threaded: an action is a handler up to its next await, with the  *)
(* effects it triggers.                                                    *)
(***************************************************************************)
EXTENDS Naturals, Sequences, FiniteSets

CONSTANTS
  Texts,                   \* what a user may write
  MaxStreams, MaxMessages  \* bounds: requests made, length of the conversation

ChatAssumption == MaxStreams \in Nat /\ MaxMessages \in Nat

VARIABLES
  messages,     \* the conversation shown
  streams,      \* the requests made: status, and the conversation sent
  crossed,      \* (history) the requests that overlap since an earlier reply was
                \* regenerated while another streamed
  isStreaming, isReasoning,
  controller,   \* abortController: the stream it belongs to, 0 for null
  saved,        \* "playground-messages" in localStorage
  refused,      \* (history) did the browser refuse the last write of it?
  saveTimer,    \* is a save scheduled?
  recent,       \* is the last save less than two seconds old?
  editing       \* the user messages open in an editor

talkVars == <<messages, streams, crossed, isStreaming, isReasoning, controller>>
storeVars == <<saved, refused, saveTimer, recent>>
vars == <<talkVars, storeVars, editing>>

User(text, images) == [role |-> "user", text |-> text, images |-> images]
\* the reply the stream s was begun for, and the streams that wrote to it (content,
\* reasoning, how long that took, or an error)
Reply(s) == [role |-> "assistant", for |-> s, from |-> {}]

Status(s) == streams[s].status
Running(s) == Status(s) \in {"open", "aborted"}
Runs == {s \in DOMAIN streams : Running(s)}

Init ==
  /\ messages = <<>> /\ streams = <<>> /\ crossed = {}
  /\ isStreaming = FALSE /\ isReasoning = FALSE /\ controller = 0
  /\ saved = <<>> /\ refused = FALSE /\ saveTimer = FALSE /\ recent = TRUE
  /\ editing = {}

\* setItem, which may throw (the quota, with images kept in the conversation): what
\* it throws is caught and dropped, and the time of the save is noted all the same
Save(new) ==
  \/ saved' = new /\ refused' = FALSE
  \/ refused' = TRUE /\ UNCHANGED saved

\* (variation: a change within two seconds of a save is not scheduled)
PersistLeading(new) ==
  IF recent THEN UNCHANGED storeVars
  ELSE Save(new) /\ recent' = TRUE /\ UNCHANGED saveTimer

\* the effect that stores the conversation, at most once in two seconds
Persist(new) ==
  IF recent THEN saveTimer' = TRUE /\ UNCHANGED <<saved, refused, recent>>
  ELSE Save(new) /\ recent' = TRUE /\ UNCHANGED saveTimer

\* two seconds after the last save: the scheduled one, if there is one
SaveTimeout ==
  /\ recent
  /\ IF saveTimer THEN Save(messages) /\ saveTimer' = FALSE /\ UNCHANGED recent
                  ELSE recent' = FALSE /\ UNCHANGED <<saved, refused, saveTimer>>
  /\ UNCHANGED <<talkVars, editing>>

\* regenerateFromIndex, up to the answer of its request: kept is the
\* conversation up to and with the user message to answer, open the editors, beside the
\* requests in progress that are known to go on
Begin(kept, open, beside) ==
  LET s == Len(streams) + 1
      new == Append(kept, Reply(s))
  IN /\ s <= MaxStreams /\ Len(new) <= MaxMessages
     /\ messages' = new
     /\ streams' = Append(streams, [status |-> "open", prompt |-> kept])
     /\ crossed' = IF beside = {} THEN crossed ELSE crossed \cup beside \cup {s}
     /\ isStreaming' = TRUE /\ isReasoning' = FALSE /\ controller' = s
     /\ editing' = open \cap DOMAIN kept
     /\ Persist(new)

\* with images attached or without
SendMessage(text, images) ==
  /\ ~isStreaming
  /\ Begin(Append(messages, User(text, images)), editing, Runs \cap crossed)

\* the Regenerate button of a reply: hidden on the last one while it streams, but not
\* on the others, and nothing stops the request in progress
Regenerate(i) ==
  /\ i \in DOMAIN messages /\ i > 1
  /\ messages[i].role = "assistant" /\ messages[i - 1].role = "user"
  /\ isStreaming => i # Len(messages)
  /\ Begin(SubSeq(messages, 1, i - 1), editing, Runs)

StartEdit(i) ==
  /\ i \in DOMAIN messages \ editing
  /\ messages[i].role = "user" /\ ~messages[i].images
  /\ editing' = editing \cup {i}
  /\ UNCHANGED <<talkVars, storeVars>>

\* cancelEdit, or a save that changes nothing or comes while a reply streams
DropEdit(i) ==
  /\ i \in editing /\ editing' = editing \ {i}
  /\ UNCHANGED <<talkVars, storeVars>>

\* (variation: also while a reply streams)
SaveEditAnytime(i, text) ==
  /\ i \in editing /\ text # messages[i].text
  /\ Begin(Append(SubSeq(messages, 1, i - 1), User(text, FALSE)), editing \ {i}, Runs \cap crossed)

\* saveEdit and editMessage
SaveEdit(i, text) ==
  /\ i \in editing /\ ~isStreaming /\ text # messages[i].text
  /\ Begin(Append(SubSeq(messages, 1, i - 1), User(text, FALSE)), editing \ {i}, Runs \cap crossed)

\* the last message, with something the stream s brings
Written(s) ==
  IF messages = <<>> THEN messages
  ELSE [messages EXCEPT ![Len(messages)].from = @ \cup {s}]

\* a chunk of the answer: reasoning, content, or both
Chunk(s, kinds) ==
  /\ s \in DOMAIN streams /\ Status(s) = "open"
  /\ isReasoning' = ((isReasoning \/ "reasoning" \in kinds) /\ "content" \notin kinds)
  /\ messages' = Written(s)
  /\ Persist(messages')
  /\ UNCHANGED <<streams, crossed, isStreaming, controller, editing>>

\* the end of the answer, an error or the abort; finally
Over(s, new) ==
  /\ messages' = new
  /\ IF new = messages THEN UNCHANGED storeVars ELSE Persist(new)
  /\ streams' = [streams EXCEPT ![s].status = "over"]
  /\ isStreaming' = FALSE /\ isReasoning' = FALSE /\ controller' = 0
  /\ UNCHANGED <<crossed, editing>>

Done(s)    == s \in DOMAIN streams /\ Status(s) = "open" /\ Over(s, messages)
Failed(s)  == s \in DOMAIN streams /\ Status(s) = "open" /\ Over(s, Written(s))
Aborted(s) == /\ s \in DOMAIN streams /\ Status(s) = "aborted"
              /\ Over(s, IF isReasoning THEN Written(s) ELSE messages)

AbortedStreams == IF controller = 0 THEN streams ELSE [streams EXCEPT ![controller].status = "aborted"]

CancelStreaming ==
  /\ isStreaming
  /\ streams' = AbortedStreams
  /\ UNCHANGED <<messages, crossed, isStreaming, isReasoning, controller, storeVars, editing>>

\* (variation: the stream in progress is left running)
NewChatOnly ==
  /\ messages # <<>> \/ isStreaming
  /\ messages' = <<>> /\ isReasoning' = FALSE /\ editing' = {}
  /\ isStreaming' = FALSE /\ controller' = 0
  /\ Persist(<<>>)
  /\ UNCHANGED <<streams, crossed>>

NewChat ==
  /\ messages # <<>> \/ isStreaming
  /\ streams' = IF isStreaming THEN AbortedStreams ELSE streams
  /\ messages' = <<>> /\ isReasoning' = FALSE /\ editing' = {}
  /\ Persist(<<>>)
  /\ UNCHANGED <<crossed, isStreaming, controller>>

\* the page is loaded again: loadMessages, and a first run of the effect
Reload ==
  /\ messages' = saved /\ refused' = FALSE /\ saveTimer' = FALSE /\ recent' = TRUE
  /\ streams' = [s \in DOMAIN streams |-> [streams[s] EXCEPT !.status = "over"]]
  /\ isStreaming' = FALSE /\ isReasoning' = FALSE /\ controller' = 0
  /\ editing' = {}
  /\ UNCHANGED <<crossed, saved>>

Next ==
  \/ \E t \in Texts, images \in BOOLEAN : SendMessage(t, images)
  \/ \E i \in 1..MaxMessages :
       Regenerate(i) \/ StartEdit(i) \/ DropEdit(i) \/ \E t \in Texts : SaveEdit(i, t)
  \/ \E s \in 1..MaxStreams :
       \/ Done(s) \/ Failed(s) \/ Aborted(s)
       \/ \E kinds \in SUBSET {"reasoning", "content"} : kinds # {} /\ Chunk(s, kinds)
  \/ CancelStreaming \/ NewChat \/ SaveTimeout \/ Reload

Spec == Init /\ [][Next]_vars

-----------------------------------------------------------------------------
\* A reply was asked for with the conversation shown above it, and holds what its own
\* request answered ("Add empty assistant message for the new response") and nothing of
\* a request that was cancelled, replaced by an edit or left behind by a new chat.  The
\* exception: every request writes to the last message, so where an earlier reply was
\* regenerated while another streamed (nothing stops the old request), replies of the
\* requests that overlap since get each other's answers, but still no others'.
AnswersWhatIsAbove ==
  \A i \in DOMAIN messages :
    messages[i].role = "assistant" =>
      LET s == messages[i].for
      IN /\ messages[i].from \subseteq {s} \cup (IF s \in crossed THEN crossed ELSE {})
         /\ streams[s].prompt = SubSeq(messages, 1, i - 1)

\* As long as the input is disabled, Cancel stops the newest request, and that one still
\* runs: what is over does not hold the input disabled.  And Cancel reaches every reply
\* that is being streamed, but for requests that overlap since an earlier reply was
\* regenerated while another streamed: it does not reach the older one, nor any after
\* the first of them ends, which clears abortController and isStreaming for all.
CancelReaches ==
  /\ isStreaming => controller = Len(streams) /\ controller \in Runs
  /\ \A s \in Runs \ crossed : isStreaming /\ controller = s

\* The copy in localStorage is the conversation, or a save of it is scheduled, or the
\* browser refused the last write: the code ignores that, schedules no other, and the
\* copy stays as it was until the next change.
SavedOrScheduled == saveTimer \/ refused \/ saved = messages
=============================================================================
