------------------------------ MODULE EventBus ------------------------------
(***************************************************************************)
(* The event bus (internal/event/event.go), for the subscribers and the    *)
(* publishers of one type of event: each type has a group of its own, with *)
(* a mutex and a condition variable (cond).  What is done under the mutex  *)
(* is one step; a goroutine in cond.Wait is "wait" until somebody          *)
(* broadcasts.  Events are numbered in the order in which they are queued. *)
(***************************************************************************)
EXTENDS Naturals, Sequences

CONSTANTS
  Consumers,   \* a subscription each
  Publishers,  \* goroutines that publish
  MaxQueue,    \* maxQueue, of each consumer
  MaxEvents    \* bound: events published

BusAssumption == MaxQueue \in Nat \ {0} /\ MaxEvents \in Nat

VARIABLES
  queue,      \* consumer.queue
  listener,   \* the goroutine of Listen: see Places
  stop,       \* consumer.stop: deleted from the group
  pending,    \* what Listen took out of the queue and has not handled yet
  handled,    \* what the consumer's handler was called with
  publisher,  \* a goroutine in Broadcast: idle, running or in cond.Wait
  published,  \* number of events queued so far
  span        \* published when the consumer was added, and when it was deleted

vars == <<queue, listener, stop, pending, handled, publisher, published, span>>

\* not subscribed yet; about to take the mutex; in cond.Wait; calling the handler (when
\* pending is empty, about to broadcast); returned
Places == {"none", "look", "wait", "work", "gone"}

TypeOK ==
  /\ queue \in [Consumers -> Seq(Nat)]
  /\ listener \in [Consumers -> Places]
  /\ stop \in [Consumers -> BOOLEAN]
  /\ pending \in [Consumers -> Seq(Nat)]
  /\ handled \in [Consumers -> Seq(Nat)]
  /\ publisher \in [Publishers -> {"idle", "run", "wait"}]
  /\ published \in Nat
  /\ span \in [Consumers -> [from : Nat, to : Nat]]

Init ==
  /\ queue = [c \in Consumers |-> <<>>]
  /\ listener = [c \in Consumers |-> "none"]
  /\ stop = [c \in Consumers |-> FALSE]
  /\ pending = [c \in Consumers |-> <<>>]
  /\ handled = [c \in Consumers |-> <<>>]
  /\ publisher = [p \in Publishers |-> "idle"]
  /\ published = 0
  /\ span = [c \in Consumers |-> [from |-> 0, to |-> 0]]

Subs == {c \in Consumers : listener[c] # "none" /\ ~stop[c]}
Full == \E c \in Subs : Len(queue[c]) >= MaxQueue

Woken(f) == [x \in DOMAIN f |-> IF f[x] = "wait" THEN "run" ELSE f[x]]
Looking(f) == [x \in DOMAIN f |-> IF f[x] = "wait" THEN "look" ELSE f[x]]

Add(c) ==
  /\ listener[c] = "none"
  /\ listener' = [listener EXCEPT ![c] = "look"]
  /\ span' = [span EXCEPT ![c] = [from |-> published, to |-> published]]
  /\ UNCHANGED <<queue, stop, pending, handled, publisher, published>>

\* nobody is woken
Del(c) ==
  /\ c \in Subs
  /\ stop' = [stop EXCEPT ![c] = TRUE]
  /\ UNCHANGED <<queue, listener, pending, handled, publisher, published, span>>

Publish(p) ==
  /\ publisher[p] = "idle"
  /\ publisher' = [publisher EXCEPT ![p] = "run"]
  /\ UNCHANGED <<queue, listener, stop, pending, handled, published, span>>

Wait(p) ==
  /\ publisher[p] = "run"
  /\ Full
  /\ publisher' = [publisher EXCEPT ![p] = "wait"]
  /\ UNCHANGED <<queue, listener, stop, pending, handled, published, span>>

Broadcast(p) ==
  /\ publisher[p] = "run"
  /\ ~Full
  /\ published < MaxEvents
  /\ published' = published + 1
  /\ queue' = [c \in Consumers |->
       IF c \in Subs THEN Append(queue[c], published + 1) ELSE queue[c]]
  /\ span' = [c \in Consumers |->
       IF c \in Subs THEN [from |-> span[c].from, to |-> published + 1] ELSE span[c]]
  /\ publisher' = [Woken(publisher) EXCEPT ![p] = "idle"]
  /\ listener' = Looking(listener)
  /\ UNCHANGED <<stop, pending, handled>>

Take(c) ==
  /\ listener[c] = "look"
  /\ queue[c] # <<>>
  /\ pending' = [pending EXCEPT ![c] = queue[c]]
  /\ queue' = [queue EXCEPT ![c] = <<>>]
  /\ listener' = [listener EXCEPT ![c] = "work"]
  /\ UNCHANGED <<stop, handled, publisher, published, span>>

Sleep(c) ==
  /\ listener[c] = "look"
  /\ queue[c] = <<>>
  /\ listener' = [listener EXCEPT ![c] = IF stop[c] THEN "gone" ELSE "wait"]
  /\ UNCHANGED <<queue, stop, pending, handled, publisher, published, span>>

Handle(c) ==
  /\ listener[c] = "work"
  /\ pending[c] # <<>>
  /\ handled' = [handled EXCEPT ![c] = Append(@, Head(pending[c]))]
  /\ pending' = [pending EXCEPT ![c] = Tail(@)]
  /\ UNCHANGED <<queue, listener, stop, publisher, published, span>>

\* variation: a listener that has made room does not say so
NotifyQuietly(c) ==
  /\ listener[c] = "work"
  /\ pending[c] = <<>>
  /\ listener' = [listener EXCEPT ![c] = "look"]
  /\ UNCHANGED <<queue, stop, pending, handled, publisher, published, span>>

\* what was taken has been handled: publishers may go on
Notify(c) ==
  /\ listener[c] = "work"
  /\ pending[c] = <<>>
  /\ publisher' = Woken(publisher)
  /\ listener' = [Looking(listener) EXCEPT ![c] = "look"]
  /\ UNCHANGED <<queue, stop, pending, handled, published, span>>

Next ==
  \/ \E c \in Consumers :
       Add(c) \/ Del(c) \/ Take(c) \/ Sleep(c) \/ Handle(c) \/ Notify(c)
  \/ \E p \in Publishers : Publish(p) \/ Wait(p) \/ Broadcast(p)

Spec == Init /\ [][Next]_vars

-----------------------------------------------------------------------------

\* A publisher that waits for a full queue has somebody to wake it: a listener that has
\* something to take or to handle and broadcasts afterwards, although Del wakes nobody.
PublisherHasWaker ==
  \A p \in Publishers : publisher[p] = "wait" =>
    \E c \in Consumers :
      \/ listener[c] = "work"
      \/ listener[c] = "look" /\ queue[c] # <<>>

\* A listener does not sleep, and has not returned, beside a queue with something in it.
NothingSleptOn ==
  \A c \in Consumers : listener[c] \in {"none", "wait", "gone"} => queue[c] = <<>>

\* No queue grows beyond maxQueue, whatever publishers wait and are woken together.
Bounded == \A c \in Consumers : Len(queue[c]) <= MaxQueue

\* Each subscriber is called with every event that was queued while it was subscribed,
\* once and in the order of publication, which is the same for all of them.
EachOnceInOrder ==
  \A c \in Consumers :
    handled[c] \o pending[c] \o queue[c] =
      [i \in 1..(span[c].to - span[c].from) |-> span[c].from + i]
=============================================================================
