------------------------ MODULE PlaygroundInterface ------------------------
(***************************************************************************)
(* createPlaygroundInterface (ui-svelte/src/lib/playgroundInterface.ts):   *)
(* what the image, speech, transcription and rerank tabs share.  A task    *)
(* awaits one request; the page goes on handling events meanwhile.  The    *)
(* page is single-threaded: an action is an event handler, or what runs    *)
(* when an awaited promise settles, up to the next await.                  *)
(***************************************************************************)
CONSTANTS None, Failure

VARIABLES
  task,    \* the request the task awaits, None when there is none
  busy,    \* the interface's entry in the store of playground activity
  error,
  abort    \* AbortController: None, "open" or "aborted"

ifaceVars == <<task, busy, error, abort>>

InterfaceInit == task = None /\ busy = FALSE /\ error = None /\ abort = None

\* run, up to the task's first await
Run(request) ==
  /\ ~busy
  /\ busy' = TRUE /\ error' = None /\ abort' = "open" /\ task' = request

\* cancel: the pending request is going to be rejected with an AbortError
Cancel ==
  /\ abort = "open" /\ abort' = "aborted" /\ UNCHANGED <<task, busy, error>>

\* catch and finally
Settle(e) ==
  /\ task # None
  /\ error' = e /\ busy' = FALSE /\ abort' = None /\ task' = None

Aborted  == abort = "aborted" /\ Settle(error)
Failed   == abort = "open" /\ Settle(Failure)
Resolved == abort = "open" /\ Settle(error)
\* the task throws after its request was answered
Threw    == abort = "open" /\ Settle(Failure)
=============================================================================
