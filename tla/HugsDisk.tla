------------------------------ MODULE HugsDisk ------------------------------
(***************************************************************************)
(* The disk page (routes/HugsDisk.svelte): the files in the model cache,   *)
(* the ones flagged for deletion, the rows marked, and the delete button   *)
(* that has to be pressed twice.  A request is served at one moment and    *)
(* answered at a later one; the page goes on in between.  Which files are  *)
(* orphans, sizes, dates and messages are left out.                        *)
(***************************************************************************)
EXTENDS Naturals, FiniteSets

CONSTANTS
  Files,        \* the files in the cache when the page is opened
  None,         \* no report yet
  MaxLoads, MaxActions   \* bounds: loads made, flag and delete requests made

DiskAssumption == MaxLoads \in Nat /\ MaxActions \in Nat

VARIABLES
  disk, flags,   \* the server's: files in the cache, files flagged
  report, flagged, selected, confirmDelete, loading, error,   \* the page's
  calls,         \* the requests under way
  made,          \* how many of each kind were made
  lost,          \* the files of delete requests whose answer never came
  overlapped     \* history: a load was begun while another was under way

pageVars == <<report, flagged, selected, confirmDelete, loading, error>>
vars == <<disk, flags, pageVars, calls, made, lost, overlapped>>

\* load: both fetches are sent
Load(under) ==
  /\ made.loads < MaxLoads
  /\ loading' = TRUE /\ error' = FALSE
  /\ overlapped' = (overlapped \/ \E c \in under : c.kind = "load")
  /\ made' = [made EXCEPT !.loads = @ + 1]
  /\ calls' = under \cup {[kind |-> "load", n |-> made.loads + 1, disk |-> None, flags |-> None]}

Init ==
  /\ disk = Files /\ flags = {}
  /\ report = None /\ flagged = {} /\ selected = {}
  /\ confirmDelete = FALSE /\ loading = TRUE /\ error = FALSE
  /\ calls = {[kind |-> "load", n |-> 1, disk |-> None, flags |-> None]}
  /\ made = [loads |-> 1, actions |-> 0] /\ lost = {} /\ overlapped = FALSE

\* the rows and the buttons on them are there
Listed == ~loading /\ ~error /\ report # None
SomeSelected == selected \cap report # {}

Refresh ==
  /\ ~loading
  /\ Load(calls)
  /\ UNCHANGED <<disk, flags, report, flagged, selected, confirmDelete, lost>>

Toggle(f) ==
  /\ Listed /\ f \in report
  /\ selected' = IF f \in selected THEN selected \ {f} ELSE selected \cup {f}
  /\ UNCHANGED <<disk, flags, report, flagged, confirmDelete, loading, error, calls, made, lost, overlapped>>

ToggleAll ==
  /\ Listed
  /\ selected' = IF report # {} /\ report \subseteq selected THEN {} ELSE report
  /\ UNCHANGED <<disk, flags, report, flagged, confirmDelete, loading, error, calls, made, lost, overlapped>>

Ask(call) ==
  /\ made.actions < MaxActions
  /\ made' = [made EXCEPT !.actions = @ + 1]
  /\ calls' = calls \cup {call}

\* setFlags, up to its answer
SetFlags(state) ==
  /\ Listed /\ SomeSelected
  /\ Ask([kind |-> "flag", n |-> made.actions + 1, names |-> selected, state |-> state, flags |-> None])
  /\ UNCHANGED <<disk, flags, pageVars, lost, overlapped>>

\* deleteSelected: the first press arms the button
Arm ==
  /\ Listed /\ SomeSelected /\ ~confirmDelete
  /\ confirmDelete' = TRUE
  /\ UNCHANGED <<disk, flags, report, flagged, selected, loading, error, calls, made, lost, overlapped>>

DeleteSelected ==
  /\ Listed /\ SomeSelected /\ confirmDelete
  /\ Ask([kind |-> "delete", n |-> made.actions + 1, names |-> report \cap selected, served |-> FALSE])
  /\ UNCHANGED <<disk, flags, pageVars, lost, overlapped>>

-----------------------------------------------------------------------------
\* The server

Become(c, d) == calls' = (calls \ {c}) \cup {d}

\* GET disk and GET flags are served apart
ServeLoad(c) ==
  /\ \/ c.disk = None /\ Become(c, [c EXCEPT !.disk = disk])
     \/ c.flags = None /\ Become(c, [c EXCEPT !.flags = flags])
  /\ UNCHANGED <<disk, flags, pageVars, made, lost, overlapped>>

ServeFlags(c) ==
  /\ c.flags = None
  /\ flags' = IF c.state THEN flags \cup c.names ELSE flags \ c.names
  /\ Become(c, [c EXCEPT !.flags = flags'])
  /\ UNCHANGED <<disk, pageVars, made, lost, overlapped>>

\* a file may be gone or refuse to go: each is tried on its own
ServeDelete(c) ==
  /\ ~c.served
  /\ \E gone \in SUBSET (c.names \cap disk) :
       /\ disk' = disk \ gone /\ flags' = flags \ gone
  /\ Become(c, [c EXCEPT !.served = TRUE])
  /\ UNCHANGED <<pageVars, made, lost, overlapped>>

-----------------------------------------------------------------------------
\* The answers

LoadDone(c) ==
  /\ c.disk # None /\ c.flags # None
  /\ report' = c.disk
  /\ flagged' \in {c.flags, flagged}   \* the answer on the flags may be an error: it is ignored
  /\ selected' = {} /\ loading' = FALSE
  /\ calls' = calls \ {c}
  /\ UNCHANGED <<disk, flags, error, confirmDelete, made, lost, overlapped>>

LoadFails(c) ==
  /\ error' = TRUE /\ loading' = FALSE /\ calls' = calls \ {c}
  /\ UNCHANGED <<disk, flags, report, flagged, selected, confirmDelete, made, lost, overlapped>>

FlagsAnswered(c) ==
  /\ c.flags # None
  /\ flagged' = c.flags /\ calls' = calls \ {c}
  /\ UNCHANGED <<disk, flags, report, selected, confirmDelete, loading, error, made, lost, overlapped>>

FlagsFail(c) ==
  /\ calls' = calls \ {c}
  /\ UNCHANGED <<disk, flags, pageVars, made, lost, overlapped>>

\* (variation: the list is not read again)
DeletedQuietly(c) ==
  /\ c.served
  /\ confirmDelete' = FALSE /\ selected' = {} /\ calls' = calls \ {c}
  /\ UNCHANGED <<disk, flags, report, flagged, loading, error, made, lost, overlapped>>

Deleted(c) ==
  /\ c.served
  /\ confirmDelete' = FALSE /\ Load(calls \ {c})
  /\ UNCHANGED <<disk, flags, report, flagged, selected, lost>>

DeleteFails(c) ==
  /\ confirmDelete' = FALSE /\ calls' = calls \ {c} /\ lost' = lost \cup c.names
  /\ UNCHANGED <<disk, flags, report, flagged, selected, loading, error, made, overlapped>>

Next ==
  \/ Refresh \/ ToggleAll \/ Arm \/ DeleteSelected
  \/ \E f \in Files : Toggle(f)
  \/ \E state \in BOOLEAN : SetFlags(state)
  \/ \E c \in calls :
       \/ c.kind = "load" /\ (ServeLoad(c) \/ LoadDone(c) \/ LoadFails(c))
       \/ c.kind = "flag" /\ (ServeFlags(c) \/ FlagsAnswered(c) \/ FlagsFail(c))
       \/ c.kind = "delete" /\ (ServeDelete(c) \/ Deleted(c) \/ DeleteFails(c))

Spec == Init /\ [][Next]_vars

-----------------------------------------------------------------------------
\* When nothing is under way and no error is shown, the list has no file that is
\* gone, but for those of a delete request that was never answered: a row that
\* can be marked and deleted stands for a file.  Refreshes, flags and deletions may
\* be under way together.  Not so where a refresh begun before a deletion is still
\* under way when the deletion begins its own: the first may be answered last.
ListedExists ==
  calls = {} /\ Listed /\ ~overlapped => report \ disk \subseteq lost
=============================================================================
