---------------------------- MODULE CaptureViewer ----------------------------
(***************************************************************************)
(* Captures of requests and responses: the View buttons of                 *)
(* ActivityTable.svelte, the calls that load a capture, and the dialog     *)
(* (CaptureDialog.svelte) with the tabs it offers for a body and what it   *)
(* copies.  The Cancel buttons of the in-flight requests are here too.     *)
(*                                                                         *)
(* A capture has an id, the content type of its two bodies, "none" for an  *)
(* empty one, and the lines of a streamed response.                        *)
(***************************************************************************)
EXTENDS Naturals, Sequences

CONSTANTS Captures, NotFound, None,
          Inflight,           \* ids of in-flight requests
          MaxCalls, MaxCopies \* bounds

CaptureAssumption ==
  /\ \A c, d \in Captures : c.id = d.id => c = d
  /\ \A c \in Captures : c.response \in {"sse", "json", "text", "image", "other", "none"}

VARIABLES
  calls,                    \* calls of getCapture, in the order they were made
  loadingCaptureId, selectedCapture, dialogOpen,
  reqBodyTab, respBodyTab,
  copiedReq, copiedResp,    \* the "Copied!" labels ...
  resets,                   \* ... and the timeouts that take them away
  canceling,                \* cancelingInflightIds
  made, copies              \* for the bounds

dialog == <<loadingCaptureId, selectedCapture, dialogOpen, reqBodyTab, respBodyTab>>
copy   == <<copiedReq, copiedResp, resets, copies>>
vars   == <<calls, dialog, copy, canceling, made>>

Ids == {c.id : c \in Captures}

Init ==
  /\ calls = <<>> /\ made = 0
  /\ loadingCaptureId = None /\ selectedCapture = NotFound /\ dialogOpen = FALSE
  /\ reqBodyTab = "pretty" /\ respBodyTab = "pretty"
  /\ copiedReq = FALSE /\ copiedResp = FALSE /\ resets = <<>> /\ copies = 0
  /\ canceling = {}

-----------------------------------------------------------------------------
(* What the dialog offers and shows.                                       *)

RequestTabs(c) == IF c.request = "json" THEN {"pretty", "raw"} ELSE {}

ResponseTabs(c) ==
  CASE c.response = "sse"  -> {"chat", "raw"}
    [] c.response = "json" -> {"pretty", "raw"}
    [] OTHER               -> {}

\* parseSSEChat: every line by itself; what is not a delta is skipped, and a
\* delta may carry reasoning under either name
Deltas(c)    == SelectSeq(c.lines, LAMBDA l : l.data)
Joined(pieces) ==
  LET text[n \in 0..Len(pieces)] == IF n = 0 THEN <<>> ELSE text[n - 1] \o pieces[n]
  IN  text[Len(pieces)]
Content(c)   == Joined([i \in DOMAIN Deltas(c) |-> Deltas(c)[i].content])
Reasoning(c) == Joined([i \in DOMAIN Deltas(c) |->
                          Deltas(c)[i].reasoning_content \o Deltas(c)[i].reasoning])

\* what stands in the response's box: its form and its text
ResponseShown(c, tab) ==
  CASE c.response = "image" -> [form |-> "image", text |-> <<>>]
    [] c.response \in {"sse", "json", "text"} ->
         IF tab = "chat"
           THEN [form |-> "chat",
                 text |-> IF c.response = "sse" THEN <<Reasoning(c), Content(c)>> ELSE <<>>]
           ELSE [form |-> IF tab = "pretty" /\ c.response = "json" THEN "pretty" ELSE "raw",
                 text |-> c.lines]
    [] c.response = "other" -> [form |-> "binary", text |-> <<>>]
    [] c.response = "none"  -> [form |-> "empty", text |-> <<>>]

-----------------------------------------------------------------------------
(* Loading a capture.                                                      *)

\* the button shows while its own capture loads; it is not in the dialog
ViewCapture(id) ==
  /\ ~dialogOpen /\ loadingCaptureId # id /\ made < MaxCalls
  /\ loadingCaptureId' = id
  /\ calls' = Append(calls, id) /\ made' = made + 1
  /\ UNCHANGED <<selectedCapture, dialogOpen, reqBodyTab, respBodyTab, copy, canceling>>

\* variation: the tabs are chosen once and kept
KeepTabs(c) == UNCHANGED <<reqBodyTab, respBodyTab>>

\* the effect on the capture
ResetTabs(c) ==
  IF c = NotFound THEN UNCHANGED <<reqBodyTab, respBodyTab>>
  ELSE /\ reqBodyTab' = IF c.request = "json" THEN "pretty" ELSE "raw"
       /\ respBodyTab' = CASE c.response = "sse"  -> "chat"
                           [] c.response = "json" -> "pretty"
                           [] OTHER               -> "raw"

\* the i-th call settles: the capture, or null for one that is gone or when
\* the call failed
Loaded(i) ==
  /\ calls' = SubSeq(calls, 1, i - 1) \o SubSeq(calls, i + 1, Len(calls))
  /\ loadingCaptureId' = None /\ dialogOpen' = TRUE
  /\ \E c \in {d \in Captures : d.id = calls[i]} \cup {NotFound} :
       selectedCapture' = c /\ ResetTabs(c)
  /\ UNCHANGED <<copy, canceling, made>>

CloseDialog ==
  /\ dialogOpen
  /\ dialogOpen' = FALSE /\ selectedCapture' = NotFound
  /\ UNCHANGED <<calls, loadingCaptureId, reqBodyTab, respBodyTab, copy, canceling, made>>

-----------------------------------------------------------------------------
(* The dialog.                                                             *)

Showing == dialogOpen /\ selectedCapture # NotFound

ChooseTab ==
  /\ Showing
  /\ \/ reqBodyTab' \in RequestTabs(selectedCapture) /\ UNCHANGED respBodyTab
     \/ respBodyTab' \in ResponseTabs(selectedCapture) /\ UNCHANGED reqBodyTab
  /\ UNCHANGED <<calls, loadingCaptureId, selectedCapture, dialogOpen, copy, canceling, made>>

Copy(body) ==
  /\ Showing /\ copies < MaxCopies
  /\ \/ body = "req" /\ selectedCapture.request # "none"
        /\ copiedReq' = TRUE /\ UNCHANGED copiedResp
     \/ body = "resp" /\ selectedCapture.response \in {"sse", "json", "text"}
        /\ copiedResp' = TRUE /\ UNCHANGED copiedReq
  /\ resets' = Append(resets, body) /\ copies' = copies + 1
  /\ UNCHANGED <<calls, dialog, canceling, made>>

\* the timeouts all wait for as long, so they end in the order they began
CopiedTimeout ==
  /\ resets # <<>>
  /\ resets' = Tail(resets)
  /\ copiedReq' = (copiedReq /\ Head(resets) # "req")
  /\ copiedResp' = (copiedResp /\ Head(resets) # "resp")
  /\ UNCHANGED <<calls, dialog, copies, canceling, made>>

-----------------------------------------------------------------------------
(* Cancelling in-flight requests.                                          *)

CancelInflight(id) ==
  /\ id \notin canceling
  /\ canceling' = canceling \cup {id}
  /\ UNCHANGED <<calls, dialog, copy, made>>

CancelSettled(id) ==
  /\ id \in canceling
  /\ canceling' = canceling \ {id}
  /\ UNCHANGED <<calls, dialog, copy, made>>

-----------------------------------------------------------------------------
Next ==
  \/ \E id \in Ids : ViewCapture(id)
  \/ \E i \in DOMAIN calls : Loaded(i)
  \/ CloseDialog \/ ChooseTab \/ CopiedTimeout
  \/ \E body \in {"req", "resp"} : Copy(body)
  \/ \E id \in Inflight : CancelInflight(id) \/ CancelSettled(id)

Spec == Init /\ [][Next]_vars

-----------------------------------------------------------------------------
\* Whichever captures were asked for, and in whatever order their answers come
\* or the dialog is closed and opened again: the form in which a body is shown
\* is one the capture has a button for, so no capture stands there as the chat
\* or the JSON it is not.
ShownAsWhatItIs ==
  Showing =>
    LET form == ResponseShown(selectedCapture, respBodyTab).form
    IN  /\ form \in {"chat", "pretty"} => form \in ResponseTabs(selectedCapture)
        /\ RequestTabs(selectedCapture) # {} => reqBodyTab \in RequestTabs(selectedCapture)
        /\ ResponseTabs(selectedCapture) # {} => respBodyTab \in ResponseTabs(selectedCapture)
=============================================================================
