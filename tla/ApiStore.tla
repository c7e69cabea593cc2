------------------------------- MODULE ApiStore -------------------------------
(***************************************************************************)
(* ui-svelte/src/stores/api.ts: the event stream of the server, and the    *)
(* stores it and the fetches beside it fill: the active            *)
(* profile and the list the Playground chooses from. App.svelte switches   *)
(* profiles, Playground.svelte refreshes its list 200 ms after the models  *)
(* changed.                                                                *)
(*                                                                         *)
(* The server's side is handleAPIEvents of apigroup.go: a connection       *)
(* subscribes to the changes, and sends the current state and, from the    *)
(* subscriber's goroutine, the changes, which are read when they are sent; *)
(* send drops a message when the connection's buffer is full.  The buffer  *)
(* holds log lines and activity too, so that any message may be dropped.   *)
(* Lists of models are known by a version, 0 is the empty list; of $models *)
(* it matters here only that it is set, which has the list refreshed.      *)
(* profileRevision and playgroundModelsRequest are only ever counted up    *)
(* and compared with what they were at a call: a call carries in fresh     *)
(* whether its number is still the current one.                            *)
(***************************************************************************)
EXTENDS Integers, Sequences

CONSTANTS Profiles, None,
          MaxConnects, MaxChanges   \* bounds on the environment

StoreAssumption == None \notin Profiles

VARIABLES
  enabled, source, retry,             \* apiEventSource and its setTimeout(connect)
  wire,                               \* messages on their way to it: sendBuffer and behind
  intro, due, told,                   \* what the connection has still to send: the initial
                                      \* state, events of profile changes, the one in hand
  lost, overtaken,                    \* history of the connection: did send drop a message?
                                      \* did a change overtake the initial profile?
  serverProfile, serverModels,        \* the server's state
  profiles, activeProfile,            \* were the profiles listed; $activeProfile
  calls, switching,                   \* calls to /api/profiles in progress
  mounted, debounce,                  \* Playground.svelte and its timeout
  listed, fetch, queued,              \* $playgroundModels and its fetch
  stale,                              \* history: the last fetch failed
  connects, changes                   \* for the bounds

server   == <<serverProfile, serverModels, changes>>
feed     == <<intro, due, told, lost, overtaken>>
stream   == <<enabled, source, retry, wire, feed, connects>>
profile  == <<profiles, activeProfile, calls, switching>>
playground == <<mounted, debounce, listed, fetch, queued, stale>>
vars == <<server, stream, profile, playground>>

Fetching(stage) == [stage |-> stage, fresh |-> TRUE, value |-> 0]
NoFetch == Fetching("none")
Calling(stage, p) == [stage |-> stage, fresh |-> TRUE, value |-> p]
Hand(stage, value) == [stage |-> stage, value |-> value]
Idle == Hand("idle", None)

Init ==
  /\ enabled = TRUE /\ source = "connecting" /\ retry = FALSE /\ wire = <<>>
  /\ intro = Hand("sent", None) /\ due = 0 /\ told = Idle /\ lost = FALSE /\ overtaken = FALSE
  /\ serverProfile = None /\ serverModels = 1
  /\ profiles = FALSE /\ activeProfile = None
  /\ calls = {} /\ switching = FALSE
  /\ mounted = FALSE /\ debounce = FALSE
  /\ listed = 0 /\ fetch = NoFetch /\ queued = FALSE /\ stale = FALSE
  /\ connects = 1 /\ changes = 0

ModelStatus       == [type |-> "modelStatus", value |-> None]
ProfileChanged(p) == [type |-> "profileChanged", value |-> p]

Connected == source \in {"accepted", "open"}

\* send, and its default case
Send(message) ==
  \/ wire' = Append(wire, message) /\ UNCHANGED lost
  \/ lost' = TRUE /\ UNCHANGED wire

-----------------------------------------------------------------------------
(* The server. Other clients change the profile; processes and the         *)
(* configuration change the models.                                        *)

\* the subscriptions of handleAPIEvents
Accept ==
  /\ source = "connecting"
  /\ source' = "accepted" /\ wire' = <<>>
  /\ intro' = Hand("todo", None) /\ due' = 0 /\ told' = Idle
  /\ lost' = FALSE /\ overtaken' = FALSE
  /\ UNCHANGED <<server, enabled, retry, connects, profile, playground>>

\* the initial state: sendModels, and sendProfile up to its send
IntroReads ==
  /\ Connected /\ intro.stage = "todo"
  /\ intro' = Hand("read", serverProfile)
  /\ Send(ModelStatus)
  /\ UNCHANGED <<due, told, overtaken, server, enabled, source, retry, connects, profile, playground>>

\* ... and the send
IntroSends ==
  /\ Connected /\ intro.stage = "read"
  /\ intro' = Hand("sent", None)
  /\ Send(ProfileChanged(intro.value))
  /\ UNCHANGED <<due, told, overtaken, server, enabled, source, retry, connects, profile, playground>>

\* the subscriber to profile changes, in a goroutine of its own: sendProfile up to its send
SubscriberReads ==
  /\ Connected /\ due > 0 /\ told = Idle
  /\ due' = due - 1 /\ told' = Hand("read", serverProfile)
  /\ UNCHANGED <<wire, intro, lost, overtaken, server, enabled, source, retry, connects,
                 profile, playground>>

\* ... and the send
SubscriberSends ==
  /\ Connected /\ told.stage = "read"
  /\ told' = Hand("models", None)
  /\ Send(ProfileChanged(told.value))
  /\ overtaken' = (overtaken \/ (intro.stage = "read" /\ intro.value # told.value))
  /\ UNCHANGED <<intro, due, server, enabled, source, retry, connects, profile, playground>>

\* ... and sendModels
SubscriberSendsModels ==
  /\ Connected /\ told.stage = "models"
  /\ told' = Idle
  /\ Send(ModelStatus)
  /\ UNCHANGED <<intro, due, overtaken, server, enabled, source, retry, connects, profile,
                 playground>>

\* SetActiveProfile: the event goes to who is connected; the list of models changes with
\* the names the profile pins
SwitchProfile(p) ==
  /\ serverProfile' = p /\ serverModels' = serverModels + 1
  /\ due' = IF Connected THEN due + 1 ELSE due
  /\ UNCHANGED <<enabled, source, retry, wire, intro, told, lost, overtaken, connects>>

SwitchElsewhere(p) ==
  /\ p # serverProfile /\ changes < MaxChanges
  /\ changes' = changes + 1
  /\ SwitchProfile(p)
  /\ UNCHANGED <<profile, playground>>

ModelsChange ==
  /\ changes < MaxChanges
  /\ serverModels' = serverModels + 1 /\ changes' = changes + 1
  /\ IF Connected THEN Send(ModelStatus) ELSE UNCHANGED <<wire, lost>>
  /\ UNCHANGED <<serverProfile, enabled, source, retry, intro, due, told, overtaken, connects,
                 profile, playground>>

-----------------------------------------------------------------------------
(* The event stream.                                                       *)

\* a store that Playground.svelte's effect reads was set
ModelsSet == debounce' = mounted

\* profileRevision++ and playgroundModelsRequest++
Outdated == {[c EXCEPT !.fresh = FALSE] : c \in calls}
FetchOutdated == fetch' = [fetch EXCEPT !.fresh = FALSE]

\* the headers come with the first message, and those are sent when the initial state
\* is in the buffer
OnOpen ==
  /\ source = "accepted" /\ intro.stage = "sent"
  /\ source' = "open"
  /\ ModelsSet
  /\ FetchOutdated /\ queued' = FALSE /\ listed' = 0
  /\ profiles' = FALSE /\ activeProfile' = None
  /\ calls' = Outdated \cup {Calling("fetch", None)}
  /\ UNCHANGED <<server, enabled, retry, wire, feed, connects, switching, mounted, stale>>

OnMessage ==
  /\ source = "open" /\ wire # <<>>
  /\ wire' = Tail(wire)
  /\ \/ /\ Head(wire).type = "modelStatus"
        /\ ModelsSet
        /\ UNCHANGED profile
     \/ /\ Head(wire).type = "profileChanged"
        /\ calls' = Outdated
        /\ activeProfile' = Head(wire).value
        /\ UNCHANGED <<debounce, profiles, switching>>
  /\ UNCHANGED <<server, enabled, source, retry, feed, connects,
                 mounted, listed, fetch, queued, stale>>

OnError ==
  /\ source \in {"connecting", "accepted", "open"} /\ connects < MaxConnects
  /\ source' = "closed" /\ retry' = TRUE /\ wire' = <<>>
  /\ UNCHANGED <<server, feed, enabled, connects, profile, playground>>

\* the setTimeout of onerror, whether or not the events are still enabled
Connect ==
  /\ retry
  /\ retry' = FALSE /\ source' = "connecting" /\ wire' = <<>> /\ connects' = connects + 1
  /\ UNCHANGED <<server, feed, enabled, profile, playground>>

\* enableAPIEvents(false)
Disable ==
  /\ enabled
  /\ enabled' = FALSE /\ source' = "closed" /\ wire' = <<>>
  /\ FetchOutdated /\ queued' = FALSE /\ listed' = 0
  /\ profiles' = FALSE /\ activeProfile' = None
  /\ calls' = Outdated
  /\ UNCHANGED <<server, retry, feed, connects, switching, mounted, debounce, stale>>

-----------------------------------------------------------------------------
(* Profiles: fetchProfiles (from OnOpen) and setActiveProfile.             *)

\* handleProfileChange of App.svelte: the select is disabled while switching
SetActiveProfile(p) ==
  /\ profiles /\ ~switching /\ changes < MaxChanges
  /\ switching' = TRUE /\ changes' = changes + 1
  /\ calls' = calls \cup {Calling("put", p)}
  /\ UNCHANGED <<serverProfile, serverModels, stream, profiles, activeProfile,
                 playground>>

\* handleAPIActiveProfile sets the profile, and then reads it for its answer
HandlePut(c) ==
  /\ c.stage = "put"
  /\ IF c.value # serverProfile THEN SwitchProfile(c.value)
                                ELSE UNCHANGED <<serverProfile, serverModels, stream>>
  /\ calls' = (calls \ {c}) \cup {[c EXCEPT !.stage = "putDone"]}
  /\ UNCHANGED <<changes, profiles, activeProfile, switching,
                 playground>>

ReadProfile(c) ==
  /\ c.stage \in {"putDone", "fetch"}
  /\ calls' = (calls \ {c}) \cup
       {[c EXCEPT !.stage = IF c.stage = "fetch" THEN "fetched" ELSE "answered",
                  !.value = serverProfile]}
  /\ UNCHANGED <<server, stream, profiles, activeProfile, switching,
                 playground>>

\* variation: an answer is used whatever happened since the call
TakeProfileAnyway(c) ==
  /\ c.stage \in {"fetched", "answered"}
  /\ calls' = calls \ {c}
  /\ activeProfile' = c.value
  /\ profiles' = (profiles \/ c.stage = "fetched")
  /\ switching' = (switching /\ c.stage = "fetched")
  /\ UNCHANGED <<server, stream, playground>>

TakeProfile(c) ==
  /\ c.stage \in {"fetched", "answered"}
  /\ calls' = calls \ {c}
  /\ activeProfile' = IF c.fresh THEN c.value ELSE activeProfile
  /\ profiles' = (profiles \/ c.stage = "fetched")
  /\ switching' = (switching /\ c.stage = "fetched")
  /\ UNCHANGED <<server, stream, playground>>

ProfileFails(c) ==
  /\ calls' = calls \ {c}
  /\ switching' = (switching /\ c.stage \in {"fetch", "fetched"})
  /\ UNCHANGED <<server, stream, profiles, activeProfile, playground>>

-----------------------------------------------------------------------------
(* The Playground's list: one fetch at a time, and one more when it was    *)
(* asked for meanwhile.                                                    *)

\* variation: a refresh that was asked for during a fetch is forgotten
FetchOnce ==
  IF fetch.stage # "none"
    THEN UNCHANGED <<queued, fetch>>
    ELSE fetch' = Fetching("sent") /\ UNCHANGED queued

FetchPlaygroundModels ==
  IF fetch.stage # "none"
    THEN queued' = TRUE /\ UNCHANGED fetch
    ELSE fetch' = Fetching("sent") /\ UNCHANGED queued

Mount ==
  /\ ~mounted
  /\ mounted' = TRUE
  /\ FetchPlaygroundModels
  /\ UNCHANGED <<server, stream, profile, debounce, listed, stale>>

Debounced ==
  /\ debounce
  /\ debounce' = FALSE
  /\ FetchPlaygroundModels
  /\ UNCHANGED <<server, stream, profile, mounted, listed, stale>>

\* the Models page was opened
Refresh ==
  /\ changes < MaxChanges
  /\ changes' = changes + 1
  /\ FetchPlaygroundModels
  /\ UNCHANGED <<serverProfile, serverModels, stream, profile, mounted, debounce, listed, stale>>

ListModels ==
  /\ fetch.stage = "sent"
  /\ fetch' = [fetch EXCEPT !.stage = "answered", !.value = serverModels]
  /\ UNCHANGED <<server, stream, profile, mounted, debounce, listed, queued, stale>>

\* the finally of fetchPlaygroundModels
Finished ==
  IF queued
    THEN queued' = FALSE /\ fetch' = Fetching("sent")
    ELSE fetch' = NoFetch /\ UNCHANGED queued

TakeModels ==
  /\ fetch.stage = "answered"
  /\ listed' = IF fetch.fresh THEN fetch.value ELSE listed
  /\ stale' = FALSE
  /\ Finished
  /\ UNCHANGED <<server, stream, profile, mounted, debounce>>

ListFails ==
  /\ fetch.stage # "none"
  /\ stale' = TRUE
  /\ Finished
  /\ UNCHANGED <<server, stream, profile, mounted, debounce, listed>>

-----------------------------------------------------------------------------
Next ==
  \/ Accept \/ IntroReads \/ IntroSends \/ SubscriberReads \/ SubscriberSends
  \/ SubscriberSendsModels
  \/ ModelsChange \/ \E p \in Profiles \cup {None} : SwitchElsewhere(p)
  \/ OnOpen \/ OnMessage \/ OnError \/ Connect \/ Disable
  \/ \E p \in Profiles \cup {None} : SetActiveProfile(p)
  \/ \E c \in calls : HandlePut(c) \/ ReadProfile(c) \/ TakeProfile(c) \/ ProfileFails(c)
  \/ Mount \/ Debounced \/ Refresh \/ ListModels \/ TakeModels \/ ListFails

Spec == Init /\ [][Next]_vars

-----------------------------------------------------------------------------
\* The connection is open, it has sent all it has to send, and all of it was received.
Drained ==
  /\ enabled /\ source = "open" /\ wire = <<>>
  /\ intro.stage = "sent" /\ due = 0 /\ told = Idle

\* When no message is on its way and no call is in progress, the profile the page shows
\* as active is the server's, although the answers of fetches and the events of the
\* stream arrive in any order and across reconnects.  Not so, until the next change or
\* reconnect, where send has dropped a message of this connection, or where the profile
\* was switched while the connection sent its initial state, and the subscriber was
\* quicker: the initial profile, read before, then comes after the newer one.
ProfileSettles ==
  Drained /\ calls = {} /\ ~lost /\ ~overtaken => activeProfile = serverProfile

\* When no message is on its way, no fetch in progress and no timeout pending, the list
\* the Playground offers is the server's latest: a refresh asked for during a fetch is
\* not lost, and the answer to a fetch of before a reconnect is not used after it.  Not
\* so where the last fetch failed or send has dropped a message of this connection.
PlaygroundSettles ==
  Drained /\ mounted /\ ~debounce /\ fetch.stage = "none" /\ ~stale /\ ~lost
  => listed = serverModels
=============================================================================
