------------------------- MODULE SelectorSpillover -------------------------
(***************************************************************************)
(* The requests of one spillover selector (internal/server/selector.go):   *)
(* each reads what runs, chooses a target and reserves it under the        *)
(* selector's mutex, is rewritten and served, and gives the reservation    *)
(* back.  What runs changes meanwhile: a choice is made on what was read,  *)
(* one process after the other, before the mutex was taken.  Targets are   *)
(* numbered in the selector's order; they are different models             *)
(* (validateSelectors).                                                    *)
(***************************************************************************)
EXTENDS Naturals, FiniteSets

CONSTANTS
  Requests,
  Targets,     \* 1..n
  Local,       \* the targets that are models of this server, not of a peer
  Spillover,   \* settings.spillover
  Ignored      \* requests that upgrade to a websocket, to a model that ignores them

SpilloverAssumption ==
  /\ Targets \subseteq Nat \ {0} /\ Targets # {} /\ IsFiniteSet(Targets)
  /\ Local \subseteq Targets
  /\ Spillover \in Nat \ {0}
  /\ Ignored \subseteq Requests
  /\ IsFiniteSet(Requests)

VARIABLES
  process,   \* state of each local target: those that are not running are "stopped"
  inflight,  \* reservations of each target
  rr,        \* round robin among the least busy
  pc,        \* of each request's goroutine
  running,   \* what the request has read of process: "" is not running
  target     \* what it has chosen, 0 before

vars == <<process, inflight, rr, pc, running, target>>

ProcessStates == {"stopped", "starting", "ready", "stopping", "shutdown"}
\* RunningModels leaves out what is stopped or shut down
ReadStates == {"unread", "", "starting", "ready", "stopping"}

TypeOK ==
  /\ process \in [Local -> ProcessStates]
  /\ inflight \in [Targets -> Nat]
  /\ rr \in Nat
  /\ pc \in [Requests -> {"choose", "rewrite", "serve", "free", "done"}]
  /\ running \in [Requests -> [Local -> ReadStates]]
  /\ target \in [Requests -> Targets \cup {0}]

Init ==
  /\ process \in [Local -> {"stopped", "ready"}]
  /\ inflight = [t \in Targets |-> 0]
  /\ rr = 0
  /\ pc = [r \in Requests |-> "choose"]
  /\ running = [r \in Requests |-> [t \in Local |-> "unread"]]
  /\ target = [r \in Requests |-> 0]

Leaving(now) == {t \in Local : now[t] = "stopping"}
Active(now) ==
  {t \in Targets \ Leaving(now) :
     inflight[t] > 0 \/ (t \in Local /\ now[t] \in {"ready", "starting"})}
Cold(now) == Targets \ (Leaving(now) \cup Active(now))

\* RunningModels, for one process
Read(r, t) ==
  /\ running[r][t] = "unread"
  /\ running' = [running EXCEPT ![r][t] =
       IF process[t] \in {"stopped", "shutdown"} THEN "" ELSE process[t]]
  /\ UNCHANGED <<process, inflight, rr, pc, target>>

Reserve(r, t) ==
  /\ inflight' = [inflight EXCEPT ![t] = @ + 1]
  /\ target' = [target EXCEPT ![r] = t]
  /\ pc' = [pc EXCEPT ![r] = "rewrite"]

LeastBusy(active) == {t \in active : \A u \in active : inflight[t] <= inflight[u]}

\* the next cold target, when every active one has its reservations
Spills(now) ==
  /\ Cold(now) # {}
  /\ \A t \in Active(now) : inflight[t] >= Spillover

StartNext(r, now) ==
  /\ Spills(now)
  /\ \E t \in Cold(now) : (\A u \in Cold(now) : t <= u) /\ Reserve(r, t)
  /\ UNCHANGED rr

\* reserveLeastBusy: round robin among those with the fewest
ShareLeastBusy(r, now) ==
  /\ ~Spills(now)
  /\ LET tied == LeastBusy(Active(now))
     IN  \E t \in tied :
           /\ Cardinality({u \in tied : u < t}) = rr % Cardinality(tied)
           /\ Reserve(r, t)
  /\ rr' = rr + 1

\* answered with 503
Refuse(r, now) ==
  /\ Active(now) = {} /\ Cold(now) = {}
  /\ pc' = [pc EXCEPT ![r] = "done"]
  /\ UNCHANGED <<inflight, rr, target>>

StrategySpillover(r) ==
  /\ pc[r] = "choose"
  /\ \A t \in Local : running[r][t] # "unread"
  /\ StartNext(r, running[r]) \/ ShareLeastBusy(r, running[r]) \/ Refuse(r, running[r])
  /\ UNCHANGED <<process, running>>

Release(t) == inflight' = [inflight EXCEPT ![t] = IF @ > 0 THEN @ - 1 ELSE @]

\* ReplaceRequestModel fails, or the request is served, with or without a reservation
Rewrite(r) ==
  /\ pc[r] = "rewrite"
  /\ \/ pc' = [pc EXCEPT ![r] = "done"] /\ Release(target[r])
     \/ r \notin Ignored /\ pc' = [pc EXCEPT ![r] = "serve"] /\ UNCHANGED inflight
     \/ r \in Ignored /\ target[r] \in Local /\ pc' = [pc EXCEPT ![r] = "free"]
        /\ Release(target[r])
     \/ r \in Ignored /\ target[r] \notin Local /\ pc' = [pc EXCEPT ![r] = "serve"]
        /\ UNCHANGED inflight
  /\ UNCHANGED <<process, rr, running, target>>

\* variation: a websocket that was released at once is released again when it ends
LeaveAgain(r) ==
  /\ pc[r] \in {"serve", "free"}
  /\ Release(target[r])
  /\ pc' = [pc EXCEPT ![r] = "done"]
  /\ UNCHANGED <<process, rr, running, target>>

\* the handler has returned; the deferred release
Leave(r) ==
  /\ \/ pc[r] = "serve" /\ Release(target[r])
     \/ pc[r] = "free" /\ UNCHANGED inflight
  /\ pc' = [pc EXCEPT ![r] = "done"]
  /\ UNCHANGED <<process, rr, running, target>>

\* the processes, as ProcessLifecycle has them
Moves(s) ==
  CASE s = "stopped"  -> {"starting", "shutdown"}
    [] s = "starting" -> {"ready", "stopped", "shutdown"}
    [] s = "ready"    -> {"stopping", "stopped", "shutdown"}
    [] s = "stopping" -> {"stopped", "shutdown"}
    [] OTHER          -> {}
Process(t) ==
  /\ \E s \in Moves(process[t]) : process' = [process EXCEPT ![t] = s]
  /\ UNCHANGED <<inflight, rr, pc, running, target>>

Next ==
  \/ \E r \in Requests :
       \/ \E t \in Local : Read(r, t)
       \/ StrategySpillover(r) \/ Rewrite(r) \/ Leave(r)
  \/ \E t \in Local : Process(t)

Spec == Init /\ [][Next]_vars

-----------------------------------------------------------------------------
Holding(r) == pc[r] \in {"rewrite", "serve"}
Holders(t) == {r \in Requests : Holding(r) /\ target[r] = t}

\* The counts are the reservations of the requests under way: each is given back once,
\* on the failing, the websocket and the normal path.
CountsHeld == \A t \in Targets : inflight[t] = Cardinality(Holders(t))

SeenUp(r, t) == t \in Local /\ running[r][t] \in {"ready", "starting"}
SeenStopping(r, t) == t \in Local /\ running[r][t] = "stopping"

\* config.example.yaml:221-222: targets are filled "to the reservation count in order,
\* starting the next target when the active targets reach that count", also by requests
\* that come together and have read what runs at different times.  A model seen stopping
\* does not count.
FilledInOrder ==
  \A r \in Requests, t \in Targets :
    pc[r] = "choose" /\ target'[r] = t /\ inflight[t] = 0 /\ ~SeenUp(r, t)
    => \A u \in Targets \ {t} :
         \/ SeenStopping(r, u)
         \/ inflight[u] >= Spillover
         \/ u > t /\ inflight[u] = 0 /\ ~SeenUp(r, u)
=============================================================================
