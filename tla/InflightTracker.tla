--------------------------- MODULE InflightTracker ---------------------------
(***************************************************************************)
(* The requests that are dispatched to models, and how one browser learns  *)
(* of them: internal/server/inflight.go (the tracker, its outbox and the   *)
(* publisher goroutine), the SSE handler of apigroup.go, and the in-flight *)
(* list of ui-svelte/src/stores/api.ts.                                    *)
(*                                                                         *)
(* An entry is known by its id and a version, which a response header or   *)
(* response bytes increase.                                                *)
(***************************************************************************)
EXTENDS Integers, Sequences, FiniteSets, Functions

CONSTANTS Requests,      \* ids, each used once (nextID)
          OutboxSize,    \* inflightOutboxSize
          MaxChanges,    \* bound on the changes of the entries, all in all
          MaxConnects,   \* bound on the connections of the browser
          MaxUnread      \* bound on the events on their way to it

TrackerAssumption ==
  /\ OutboxSize \in Nat \ {0}
  /\ MaxChanges \in Nat
  /\ MaxConnects \in Nat
  /\ MaxUnread \in Nat \ {0}

VARIABLES
  live,           \* the tracker's requests
  used,           \* ids that were handed out
  version,        \* what the tracker knows of each entry
  timers,         \* entries with a pending emitPending
  outbox,         \* t.updates
  needsSnapshot,
  enqueue,        \* the caller in enqueueLocked: it holds t.mu
  publisher,      \* the goroutine that owns publisherRunning
  leaving,        \* goroutines that cleared it and look at the outbox again
  reclaiming,     \* of those, the ones that found it not empty
  connection,     \* the SSE handler: down, subscribed, read, up
  initial,        \* the snapshot it has read and not sent
  bus,            \* its subscription's queue
  wire,           \* sendBuffer and the network
  opened,         \* onopen has run
  connects,
  shown,          \* inflightRequestEntries
  missed          \* history: what the initial snapshot has not was sent before it, or
                  \* dropped; no snapshot was sent since

tracker == <<live, used, version, timers>>
queueing == <<outbox, needsSnapshot, enqueue, publisher, leaving, reclaiming>>
client  == <<connection, initial, opened, connects>>
vars == <<tracker, queueing, client, bus, wire, shown, missed>>

Entry(r)  == [id |-> r, version |-> version[r]]
Current   == {Entry(r) : r \in live}

Upsert(e)   == [operation |-> "upsert",   entries |-> {e}, id |-> e.id]
Remove(r)   == [operation |-> "remove",   entries |-> {},  id |-> r]
Snapshot(s) == [operation |-> "snapshot", entries |-> s,   id |-> 0]

Init ==
  /\ live = {} /\ used = {} /\ timers = {}
  /\ version = [r \in Requests |-> 0]
  /\ outbox = <<>> /\ needsSnapshot = FALSE /\ enqueue = "idle"
  /\ publisher = "none" /\ leaving = 0 /\ reclaiming = 0
  /\ connection = "down" /\ initial = {} /\ opened = FALSE /\ connects = 0
  /\ bus = <<>> /\ wire = <<>> /\ shown = {} /\ missed = FALSE

-----------------------------------------------------------------------------
(* The tracker. t.mu is free when nobody is in enqueueLocked.              *)

\* the select of enqueueLocked
Enqueue(update) ==
  /\ enqueue = "idle"
  /\ IF Len(outbox) < OutboxSize
       THEN outbox' = Append(outbox, update) /\ enqueue' = "start"
       ELSE outbox' = outbox /\ enqueue' = "overflow"
  /\ UNCHANGED <<needsSnapshot, publisher, leaving, reclaiming>>

Add(r) ==
  /\ r \notin used
  /\ live' = live \cup {r} /\ used' = used \cup {r}
  /\ Enqueue(Upsert(Entry(r)))
  /\ UNCHANGED <<version, timers, client, bus, wire, shown, missed>>

RemoveRequest(r) ==
  /\ r \in live
  /\ live' = live \ {r} /\ timers' = timers \ {r}
  /\ Enqueue(Remove(r))
  /\ UNCHANGED <<used, version, client, bus, wire, shown, missed>>

Changed(r) == /\ r \in live /\ FoldFunction(+, 0, version) < MaxChanges
              /\ version' = [version EXCEPT ![r] = @ + 1]

\* SetResponseHeaders, and AddResponseBytes when the interval has passed
Update(r) ==
  /\ Changed(r)
  /\ Enqueue(Upsert([id |-> r, version |-> version[r] + 1]))
  /\ UNCHANGED <<live, used, timers, client, bus, wire, shown, missed>>

\* AddResponseBytes within the interval: a timer will tell
UpdateLater(r) ==
  /\ enqueue = "idle" /\ Changed(r)
  /\ timers' = timers \cup {r}
  /\ UNCHANGED <<live, used, queueing, client, bus, wire, shown, missed>>

EmitPending(r) ==
  /\ r \in timers /\ r \in live
  /\ timers' = timers \ {r}
  /\ Enqueue(Upsert(Entry(r)))
  /\ UNCHANGED <<live, used, version, client, bus, wire, shown, missed>>

\* the default case of the select: after the send has failed
NeedSnapshot ==
  /\ enqueue = "overflow"
  /\ needsSnapshot' = TRUE /\ enqueue' = "start"
  /\ UNCHANGED <<tracker, outbox, publisher, leaving, reclaiming, client, bus, wire, shown, missed>>

\* publisherRunning.CompareAndSwap(false, true)
StartPublisher ==
  /\ enqueue = "start"
  /\ enqueue' = "idle"
  /\ publisher' = IF publisher = "none" THEN "select" ELSE publisher
  /\ UNCHANGED <<tracker, outbox, needsSnapshot, leaving, reclaiming, client, bus, wire, shown, missed>>

-----------------------------------------------------------------------------
(* The publisher. What it publishes goes to the queue of each subscription. *)

Publish(update) ==
  /\ Len(bus) + Len(wire) < MaxUnread
  /\ bus' = IF connection = "down" THEN bus ELSE Append(bus, update)

PublishUpdate ==
  /\ publisher = "select" /\ outbox # <<>>
  /\ outbox' = Tail(outbox)
  /\ Publish(Head(outbox))
  /\ publisher' = "recover"
  /\ UNCHANGED <<tracker, needsSnapshot, enqueue, leaving, reclaiming, client, wire, shown, missed>>

\* variation: the queued updates are kept behind the snapshot
RecoverKeeps ==
  /\ publisher = "recover"
  /\ publisher' = IF needsSnapshot THEN "snapshot" ELSE "select"
  /\ needsSnapshot' = FALSE
  /\ UNCHANGED <<tracker, outbox, enqueue, leaving, reclaiming, client, bus, wire, shown, missed>>

\* for needsSnapshot.Swap(false)
Recover ==
  /\ publisher = "recover"
  /\ publisher' = IF needsSnapshot THEN "discard" ELSE "select"
  /\ needsSnapshot' = FALSE
  /\ UNCHANGED <<tracker, outbox, enqueue, leaving, reclaiming, client, bus, wire, shown, missed>>

DiscardQueued ==
  /\ publisher = "discard"
  /\ IF outbox # <<>> THEN outbox' = Tail(outbox) /\ publisher' = publisher
                      ELSE outbox' = outbox /\ publisher' = "snapshot"
  /\ UNCHANGED <<tracker, needsSnapshot, enqueue, leaving, reclaiming, client, bus, wire, shown, missed>>

\* Current takes t.mu
PublishSnapshot ==
  /\ publisher = "snapshot" /\ enqueue = "idle"
  /\ Publish(Snapshot(Current))
  /\ publisher' = "recover"
  /\ UNCHANGED <<tracker, outbox, needsSnapshot, enqueue, leaving, reclaiming, client, wire, shown, missed>>

\* the default case of publishUpdates
GoIdle ==
  /\ publisher = "select" /\ outbox = <<>>
  /\ publisher' = "none" /\ leaving' = leaving + 1
  /\ UNCHANGED <<tracker, outbox, needsSnapshot, enqueue, reclaiming, client, bus, wire, shown, missed>>

LookAgain ==
  /\ leaving > 0
  /\ leaving' = leaving - 1
  /\ reclaiming' = IF outbox # <<>> THEN reclaiming + 1 ELSE reclaiming
  /\ UNCHANGED <<tracker, outbox, needsSnapshot, enqueue, publisher, client, bus, wire, shown, missed>>

Reclaim ==
  /\ reclaiming > 0
  /\ reclaiming' = reclaiming - 1
  /\ publisher' = IF publisher = "none" THEN "select" ELSE publisher
  /\ UNCHANGED <<tracker, outbox, needsSnapshot, enqueue, leaving, client, bus, wire, shown, missed>>

-----------------------------------------------------------------------------
(* The SSE handler and the browser.                                        *)

Subscribe ==
  /\ connection = "down" /\ connects < MaxConnects
  /\ connection' = "subscribed" /\ connects' = connects + 1
  /\ UNCHANGED <<tracker, queueing, initial, opened, bus, wire, shown, missed>>

ReadInitial ==
  /\ connection = "subscribed" /\ enqueue = "idle"
  /\ connection' = "read" /\ initial' = Current /\ missed' = FALSE
  /\ UNCHANGED <<tracker, queueing, opened, connects, bus, wire, shown>>

\* send's default case: the buffer is full, of log lines and other messages too
Drop == wire' = wire /\ missed' = TRUE

SendInitial ==
  /\ connection = "read"
  /\ connection' = "up" /\ initial' = {}
  /\ Drop \/ (wire' = Append(wire, Snapshot(initial)) /\ UNCHANGED missed)
  /\ UNCHANGED <<tracker, queueing, opened, connects, bus, shown>>

\* the case "inflight" of handleAPIEventMessage
Applied(list, update) ==
  CASE update.operation = "snapshot" -> update.entries
    [] update.operation = "upsert" -> {e \in list : e.id # update.id} \cup update.entries
    [] update.operation = "remove" -> {e \in list : e.id # update.id}

\* the initial snapshot, which has not got the update yet, comes behind it
Early(update) == connection = "read" /\ Applied(initial, update) # initial

\* the subscription's goroutine
SendUpdate ==
  /\ bus # <<>>
  /\ bus' = Tail(bus)
  /\ \/ Drop
     \/ /\ wire' = Append(wire, Head(bus))
        /\ missed' = (Early(Head(bus)) \/ (missed /\ Head(bus).operation # "snapshot"))
  /\ UNCHANGED <<tracker, queueing, client, shown>>

Disconnect ==
  /\ connection # "down"
  /\ connection' = "down" /\ initial' = {} /\ opened' = FALSE
  /\ bus' = <<>> /\ wire' = <<>>
  /\ UNCHANGED <<tracker, queueing, connects, shown, missed>>

\* onopen: the headers come with the first message, once the initial state is in the
\* buffer
OnOpen ==
  /\ connection = "up" /\ ~opened
  /\ opened' = TRUE /\ shown' = {}
  /\ UNCHANGED <<tracker, queueing, connection, initial, connects, bus, wire, missed>>

OnInflight ==
  /\ opened /\ wire # <<>>
  /\ wire' = Tail(wire) /\ shown' = Applied(shown, Head(wire))
  /\ UNCHANGED <<tracker, queueing, client, bus, missed>>

-----------------------------------------------------------------------------
Next ==
  \/ \E r \in Requests : Add(r) \/ RemoveRequest(r) \/ Update(r) \/ UpdateLater(r) \/ EmitPending(r)
  \/ NeedSnapshot \/ StartPublisher
  \/ PublishUpdate \/ Recover \/ DiscardQueued \/ PublishSnapshot \/ GoIdle \/ LookAgain \/ Reclaim
  \/ Subscribe \/ ReadInitial \/ SendInitial \/ SendUpdate \/ Disconnect \/ OnOpen \/ OnInflight

Spec == Init /\ [][Next]_vars

-----------------------------------------------------------------------------
PublisherGone == /\ publisher = "none" /\ leaving = 0 /\ reclaiming = 0
                 /\ enqueue = "idle"

\* Once the publisher has nothing left to do and the connection is drained,
\* the browser's list is the tracker's, whatever overflowed the outbox, was
\* merged by a timer or was lost with an earlier connection.  Three things keep
\* it wrong until the next snapshot or reconnect: send has dropped an update; an
\* update was sent between the reading and the sending of the initial snapshot
\* (missed); needsSnapshot was set when the publisher had ended already, so that
\* the snapshot waits for the next change.
ListSettles ==
  PublisherGone /\ outbox = <<>> /\ bus = <<>> /\ wire = <<>> /\ timers = {}
    /\ connection = "up" /\ opened /\ ~needsSnapshot /\ ~missed
  => shown = Current
=============================================================================
