---------------------------- MODULE FIFOScheduler ----------------------------
(***************************************************************************)
(* The router and its scheduler: baseRouter of internal/router/base.go     *)
(* with the FIFO scheduler of internal/router/scheduler/fifo.go.           *)
(*                                                                         *)
(* One goroutine, baseRouter.run, handles one event at a time: a request,  *)
(* a cancelled request, the end of a swap, the end of a served request, an *)
(* unload, shutdown.  Handling an event may take several steps of this     *)
(* specification, because other goroutines move on meanwhile: answering    *)
(* waiters one by one, stopping processes, walking the queue.  Beside it   *)
(* run the HTTP requests, one goroutine per swap (doSwap), and the         *)
(* processes, which make the transitions of ProcessLifecycle and accept one  *)
(* a time, as ProcessCommand does.                                         *)
(*                                                                         *)
(* A swap goroutine is named by the request that started it: startSwap     *)
(* runs at most once per request.                                          *)
(***************************************************************************)
EXTENDS Naturals, Sequences, FiniteSets

CONSTANTS
  Models, Requests,
  ModelOf,             \* the model each request asks for
  Limit,               \* concurrency limit of each model
  Priority,            \* FifoConfig.Priority
  PlannedEvictions(_, _), \* the planner (Swapper): models to stop for a target
  UnloadTargets,       \* bound: the sets of models Unload is called with
  MaxUnloads,          \* bound: how often
  MayShutdown,         \* may the router be shut down in this behaviour?
  Router, Idle, None   \* who asked a process to stop, besides swaps

ASSUME SchedulerAssumption ==
  /\ IsFiniteSet(Requests)
  /\ ModelOf \in [Requests -> Models]
  /\ Limit \in [Models -> Nat \ {0}]
  /\ Priority \in [Models -> Nat]
  /\ \A m \in Models : \A R \in SUBSET Models : PlannedEvictions(m, R) \subseteq R \ {m}
  /\ UnloadTargets \subseteq SUBSET Models /\ MaxUnloads \in Nat
  /\ MayShutdown \in BOOLEAN
  /\ {Router, Idle, None} \cap Requests = {}
  /\ Router # Idle /\ Idle # None /\ Router # None

VARIABLES
  \* FIFO
  active, evict, waiters, reserved, inFlight, queued,
  \* the run loop: what it is doing, for which event, and with what
  loop, task, targets, toAnswer, stopSet, pending, unloads, down,
  \* the requests' goroutines in baseRouter.ServeHTTP
  phase,
  \* the swap goroutines
  swapPc, toStop,
  \* the processes: state, the stop and the start they are working on
  proc, stopper, starter

fifoVars == <<active, evict, waiters, reserved, inFlight, queued>>
loopVars == <<loop, task, targets, toAnswer, stopSet, pending, unloads, down>>
swapVars == <<swapPc, toStop>>
procVars == <<proc, stopper, starter>>
vars     == <<fifoVars, loopVars, phase, swapVars, procVars>>

ProcStates == {"stopped", "starting", "ready", "stopping", "shutdown"}
Loops      == {"select", "answer", "stop", "drain", "done"}
Phases     == {"new", "waiting", "serving", "leaving", "done"}
SwapPcs    == {"none", "run", "starting", "ready", "failed"}
Tasks      == {"serve", "fail", "unload", "shutdown"}

QueueOf(q) == {q[i] : i \in DOMAIN q}

\* what a loop that appends all but some requests leaves of a queue
Kept(q, gone) ==
  LET kept[i \in 0..Len(q)] ==
        IF i = 0 THEN <<>>
        ELSE IF q[i] \in gone THEN kept[i - 1] ELSE Append(kept[i - 1], q[i])
  IN kept[Len(q)]

TypeOK ==
  /\ active \subseteq Models /\ evict \in [Models -> SUBSET Models]
  /\ waiters \in [Models -> SUBSET Requests]
  /\ reserved \in [Models -> Nat] /\ inFlight \in [Models -> Nat]
  /\ queued \in Seq(Requests) /\ pending \in Seq(Requests)
  /\ loop \in Loops /\ task \in Tasks
  /\ toAnswer \subseteq Requests
  /\ targets \subseteq Models /\ stopSet \subseteq Models /\ unloads \in 0..MaxUnloads /\ down \in BOOLEAN
  /\ phase \in [Requests -> Phases]
  /\ swapPc \in [Requests -> SwapPcs] /\ toStop \in [Requests -> SUBSET Models]
  /\ proc \in [Models -> ProcStates]
  /\ stopper \in [Models -> Requests \cup {Router, Idle, None}]
  /\ starter \in [Models -> Requests \cup {None}]

Init ==
  /\ active = {} /\ evict = [m \in Models |-> {}] /\ waiters = [m \in Models |-> {}]
  /\ reserved = [m \in Models |-> 0] /\ inFlight = [m \in Models |-> 0]
  /\ queued = <<>> /\ pending = <<>>
  /\ loop = "select" /\ task = "fail" /\ toAnswer = {}
  /\ targets = {} /\ stopSet = {} /\ unloads = 0 /\ down = FALSE
  /\ phase = [r \in Requests |-> "new"]
  /\ swapPc = [r \in Requests |-> "none"] /\ toStop = [r \in Requests |-> {}]
  /\ proc = [m \in Models |-> "stopped"]
  /\ stopper = [m \in Models |-> None] /\ starter = [m \in Models |-> None]

-----------------------------------------------------------------------------
(***************************************************************************)
(* The decision tree of OnRequest and drainQueue.                          *)
(***************************************************************************)

Up(m) == proc[m] \notin {"stopped", "shutdown"}

\* (variation: forgets the swaps in progress)
RunningSetUp(target) == {m \in Models : Up(m)}

\* runningSet: what the router sees running, and what it has committed to
RunningSet(target) == {m \in Models : Up(m)} \cup (active \ {target})

Evictions(target) == PlannedEvictions(target, RunningSet(target))

\* (variation: forgets that it may evict the target of a running swap)
CollidesOnlyBackward(target, ev) ==
  \E m \in active \ {target} : target \in evict[m] \/ ev \cap evict[m] # {}

CollidesWith(target, ev) ==
  \E m \in active \ {target} :
    m \in ev \/ target \in evict[m] \/ ev \cap evict[m] # {}

\* (variation: off by one)
ConflictsBeyondOne(ev) == \E m \in ev : inFlight[m] > 1

ConflictsWithInFlight(ev) == \E m \in ev : inFlight[m] > 0

\* (2) a swap to the same model is in flight
Join(r) ==
  LET m == ModelOf[r] IN
  /\ m \in active
  /\ waiters' = [waiters EXCEPT ![m] = @ \cup {r}]
  /\ UNCHANGED <<active, evict, swapVars>>

\* (3) ready, nothing to evict, nobody is evicting it
FastPath(r) ==
  LET m == ModelOf[r] IN
  /\ m \notin active
  /\ proc[m] = "ready" /\ Evictions(m) = {} /\ ~CollidesWith(m, {})
  /\ UNCHANGED <<active, evict, waiters, swapVars>>

\* (4) collides with a swap, or (5) would evict a process that is serving
Blocked(r) ==
  LET m == ModelOf[r] IN
  /\ m \notin active
  /\ CollidesWith(m, Evictions(m)) \/ ConflictsWithInFlight(Evictions(m))
  /\ UNCHANGED <<active, evict, waiters, swapVars>>

\* (6) startSwap
StartSwap(r) ==
  LET m == ModelOf[r] IN
  /\ m \notin active
  /\ ~(proc[m] = "ready" /\ Evictions(m) = {})
  /\ ~CollidesWith(m, Evictions(m)) /\ ~ConflictsWithInFlight(Evictions(m))
  /\ active' = active \cup {m}
  /\ evict' = [evict EXCEPT ![m] = Evictions(m)]
  /\ waiters' = [waiters EXCEPT ![m] = {r}]
  /\ swapPc' = [swapPc EXCEPT ![r] = "run"]
  /\ toStop' = [toStop EXCEPT ![r] = Evictions(m)]

\* (variation: a newcomer overtakes its equals)
EnqueueBeforeEquals(q, r) ==
  CHOOSE i \in 1..Len(q) + 1 :
    /\ \A j \in 1..i - 1 : Priority[ModelOf[q[j]]] > Priority[ModelOf[r]]
    /\ i <= Len(q) => Priority[ModelOf[q[i]]] <= Priority[ModelOf[r]]

\* enqueue: before the first request of a strictly lower priority
EnqueueAt(q, r) ==
  CHOOSE i \in 1..Len(q) + 1 :
    /\ \A j \in 1..i - 1 : Priority[ModelOf[q[j]]] >= Priority[ModelOf[r]]
    /\ i <= Len(q) => Priority[ModelOf[q[i]]] < Priority[ModelOf[r]]

Enqueue(q, r) ==
  LET i == EnqueueAt(q, r) IN SubSeq(q, 1, i - 1) \o <<r>> \o SubSeq(q, i, Len(q))

\* release
Release(m) == reserved' = [reserved EXCEPT ![m] = @ - 1]

\* (variation: counted although the client has left)
GrantHandlerCounts(r) ==
  /\ phase' = [phase EXCEPT ![r] = IF @ = "waiting" THEN "serving" ELSE @]
  /\ inFlight' = [inFlight EXCEPT ![ModelOf[r]] = @ + 1] /\ UNCHANGED reserved

\* grantHandler: the send on the unbuffered Respond channel succeeds only if
\* the caller is still there, and only then is the request in flight
GrantHandler(r) ==
  LET m == ModelOf[r] IN
  \/ /\ phase[r] = "waiting"
     /\ phase' = [phase EXCEPT ![r] = "serving"]
     /\ inFlight' = [inFlight EXCEPT ![m] = @ + 1] /\ UNCHANGED reserved
  \/ /\ phase[r] # "waiting"
     /\ Release(m) /\ UNCHANGED <<phase, inFlight>>

\* (variation: the slot is not given back)
GrantErrorKeeps(r) ==
  /\ phase' = [phase EXCEPT ![r] = IF @ = "waiting" THEN "done" ELSE @]
  /\ UNCHANGED <<reserved, inFlight>>

\* grantError
GrantError(r) ==
  /\ Release(ModelOf[r]) /\ UNCHANGED inFlight
  /\ phase' = [phase EXCEPT ![r] = IF @ = "waiting" THEN "done" ELSE @]

\* drainQueue returns at once when the queue is empty
BeginDrain ==
  /\ loop' = IF queued = <<>> THEN "select" ELSE "drain"
  /\ pending' = queued /\ queued' = <<>>

-----------------------------------------------------------------------------
(***************************************************************************)
(* The run loop's events.                                                  *)
(***************************************************************************)

\* OnRequest, when the model's concurrency limit is reached
Reject(r) ==
  /\ loop = "select" /\ phase[r] = "new"
  /\ reserved[ModelOf[r]] >= Limit[ModelOf[r]]
  /\ phase' = [phase EXCEPT ![r] = "done"]
  /\ UNCHANGED <<fifoVars, loopVars, swapVars, procVars>>

\* OnRequest, when the client is gone before its admission or its fast-path
\* grant lands: nothing is reserved, and the client reports its cancellation
OnDepartedRequest(r) ==
  /\ loop = "select" /\ phase[r] = "new"
  /\ phase' = [phase EXCEPT ![r] = "leaving"]
  /\ UNCHANGED <<fifoVars, loopVars, swapVars, procVars>>

\* OnRequest, admitted
OnRequest(r) ==
  /\ loop = "select" /\ phase[r] = "new"
  /\ reserved[ModelOf[r]] < Limit[ModelOf[r]]
  /\ reserved' = [reserved EXCEPT ![ModelOf[r]] = @ + 1]
  /\ \/ /\ FastPath(r) /\ UNCHANGED queued
        /\ phase' = [phase EXCEPT ![r] = "serving"]
        /\ inFlight' = [inFlight EXCEPT ![ModelOf[r]] = @ + 1]
     \/ /\ \/ (Join(r) \/ StartSwap(r)) /\ UNCHANGED queued
           \/ Blocked(r) /\ queued' = Enqueue(queued, r)
        /\ phase' = [phase EXCEPT ![r] = "waiting"] /\ UNCHANGED inFlight
  /\ UNCHANGED <<loopVars, procVars>>

\* drainQueue, one queued request per step; a request still blocked keeps its place
Drain(r) ==
  /\ loop = "drain" /\ pending # <<>> /\ r = Head(pending)
  /\ pending' = Tail(pending)
  /\ \/ FastPath(r) /\ GrantHandler(r) /\ UNCHANGED queued
     \/ /\ \/ (Join(r) \/ StartSwap(r)) /\ UNCHANGED queued
           \/ Blocked(r) /\ queued' = Append(queued, r)
        /\ UNCHANGED <<phase, inFlight, reserved>>
  /\ loop' = IF Len(pending) = 1 THEN "select" ELSE "drain"
  /\ UNCHANGED <<task, targets, toAnswer, stopSet, unloads, down, procVars>>

\* (variation: releases without looking whether the scheduler held the request)
OnCancelReleases(r) ==
  /\ loop = "select" /\ phase[r] = "leaving"
  /\ phase' = [phase EXCEPT ![r] = "done"]
  /\ queued' = Kept(queued, {r})
  /\ waiters' = [m \in Models |-> IF m \in active THEN waiters[m] \ {r} ELSE waiters[m]]
  /\ Release(ModelOf[r])
  /\ UNCHANGED <<active, evict, inFlight, loopVars, swapVars, procVars>>

\* OnCancel: the client has left while its request was waiting
OnCancel(r) ==
  /\ loop = "select" /\ phase[r] = "leaving"
  /\ phase' = [phase EXCEPT ![r] = "done"]
  /\ queued' = Kept(queued, {r})
  /\ waiters' = [m \in Models |-> IF m \in active THEN waiters[m] \ {r} ELSE waiters[m]]
  /\ IF r \in QueueOf(queued) \/ \E m \in active : r \in waiters[m]
     THEN Release(ModelOf[r]) ELSE UNCHANGED reserved
  /\ UNCHANGED <<active, evict, inFlight, loopVars, swapVars, procVars>>

\* (variation: a failed swap answers nobody)
OnSwapDoneSilent(r) ==
  LET m == ModelOf[r] IN
  /\ loop = "select" /\ swapPc[r] \in {"ready", "failed"} /\ m \in active
  /\ swapPc' = [swapPc EXCEPT ![r] = "none"]
  /\ active' = active \ {m} /\ evict' = [evict EXCEPT ![m] = {}]
  /\ toAnswer' = IF swapPc[r] = "ready" THEN waiters[m] ELSE {}
  /\ waiters' = [waiters EXCEPT ![m] = {}]
  /\ loop' = "answer" /\ task' = IF swapPc[r] = "ready" THEN "serve" ELSE "fail"
  /\ UNCHANGED <<reserved, inFlight, queued, targets, stopSet, pending, unloads,
                 down, phase, toStop, procVars>>

\* OnSwapDone, for a swap the scheduler still knows
OnSwapDone(r) ==
  LET m == ModelOf[r] IN
  /\ loop = "select" /\ swapPc[r] \in {"ready", "failed"} /\ m \in active
  /\ swapPc' = [swapPc EXCEPT ![r] = "none"]
  /\ active' = active \ {m} /\ evict' = [evict EXCEPT ![m] = {}]
  /\ toAnswer' = waiters[m] /\ waiters' = [waiters EXCEPT ![m] = {}]
  /\ loop' = "answer" /\ task' = IF swapPc[r] = "ready" THEN "serve" ELSE "fail"
  /\ UNCHANGED <<reserved, inFlight, queued, targets, stopSet, pending, unloads,
                 down, phase, toStop, procVars>>

\* OnSwapDone, for a swap that an unload has dropped
OnSwapDoneUnknown(r) ==
  /\ loop = "select" /\ swapPc[r] \in {"ready", "failed"} /\ ModelOf[r] \notin active
  /\ swapPc' = [swapPc EXCEPT ![r] = "none"]
  /\ UNCHANGED <<fifoVars, loopVars, phase, toStop, procVars>>

\* OnServeDone
OnServeDone(r) ==
  LET m == ModelOf[r] IN
  /\ loop = "select" /\ phase[r] = "serving"
  /\ phase' = [phase EXCEPT ![r] = "done"]
  /\ inFlight' = [inFlight EXCEPT ![m] = @ - 1] /\ Release(m)
  /\ IF inFlight[m] = 1 THEN BeginDrain ELSE UNCHANGED <<loop, pending, queued>>
  /\ UNCHANGED <<active, evict, waiters, task, targets, toAnswer, stopSet, unloads,
                 down, swapVars, procVars>>

\* OnUnload: drop the targets' swaps and queued requests ...
OnUnload(ids) ==
  /\ loop = "select" /\ unloads < MaxUnloads
  /\ unloads' = unloads + 1
  /\ toAnswer' = (UNION {waiters[m] : m \in active \cap ids})
                 \cup {r \in QueueOf(queued) : ModelOf[r] \in ids}
  /\ active' = active \ ids
  /\ evict' = [m \in Models |-> IF m \in ids THEN {} ELSE evict[m]]
  /\ waiters' = [m \in Models |-> IF m \in ids THEN {} ELSE waiters[m]]
  /\ queued' = Kept(queued, {r \in Requests : ModelOf[r] \in ids})
  /\ targets' = ids /\ stopSet' = ids /\ task' = "unload" /\ loop' = "answer"
  /\ UNCHANGED <<reserved, inFlight, pending, down, phase, swapVars, procVars>>

\* (variation: shutdownCtx is not cancelled)
HandleShutdownKeepsCtx ==
  /\ loop = "select" /\ MayShutdown
  /\ toAnswer' = (UNION {waiters[m] : m \in active}) \cup QueueOf(queued)
  /\ targets' = Models /\ stopSet' = Models /\ task' = "shutdown" /\ loop' = "answer"
  /\ UNCHANGED <<fifoVars, pending, unloads, down, phase, swapVars, procVars>>

\* handleShutdown: cancel shutdownCtx, OnShutdown answers everyone still held
HandleShutdown ==
  /\ loop = "select" /\ MayShutdown
  /\ down' = TRUE
  /\ toAnswer' = (UNION {waiters[m] : m \in active}) \cup QueueOf(queued)
  /\ targets' = Models /\ stopSet' = Models /\ task' = "shutdown" /\ loop' = "answer"
  /\ UNCHANGED <<fifoVars, pending, unloads, phase, swapVars, procVars>>

\* one waiter is answered
Answer(r) ==
  /\ loop = "answer" /\ r \in toAnswer
  /\ toAnswer' = toAnswer \ {r}
  /\ \/ task = "serve" /\ GrantHandler(r)
     \/ task # "serve" /\ GrantError(r)
  /\ UNCHANGED <<active, evict, waiters, queued, loop, task, targets, stopSet, pending,
                 unloads, down, swapVars, procVars>>

\* all are: OnSwapDone goes on to the queue, OnUnload and handleShutdown stop processes
Answered ==
  /\ loop = "answer" /\ toAnswer = {}
  /\ \/ task \in {"serve", "fail"} /\ BeginDrain
     \/ task \in {"unload", "shutdown"} /\ loop' = "stop" /\ UNCHANGED <<pending, queued>>
  /\ UNCHANGED <<active, evict, waiters, reserved, inFlight, task, targets, toAnswer,
                 stopSet, unloads, down, phase, swapVars, procVars>>

\* (variation: the queue is not drained after an unload)
UnloadStoppedNoDrain ==
  /\ loop = "stop" /\ task = "unload" /\ stopSet = {}
  /\ loop' = "select" /\ targets' = {}
  /\ UNCHANGED <<fifoVars, pending, task, toAnswer, stopSet, unloads, down, phase,
                 swapVars, procVars>>

\* StopProcesses has returned; OnUnload drains the queue and Unload returns
UnloadStopped ==
  /\ loop = "stop" /\ task = "unload" /\ stopSet = {}
  /\ BeginDrain /\ targets' = {}
  /\ UNCHANGED <<active, evict, waiters, reserved, inFlight, task, toAnswer,
                 stopSet, unloads, down, phase, swapVars, procVars>>

\* every Stop has returned; procCancel ends the processes, and run() returns
ShutdownStopped ==
  /\ loop = "stop" /\ task = "shutdown" /\ stopSet = {}
  /\ loop' = "done" /\ proc' = [m \in Models |-> "shutdown"]
  /\ UNCHANGED <<fifoVars, task, targets, toAnswer, stopSet, pending, unloads,
                 down, phase, swapVars, stopper, starter>>

-----------------------------------------------------------------------------
(***************************************************************************)
(* The requests' goroutines, when the run loop does not hold them.         *)
(***************************************************************************)

\* the client disconnects while it waits for its answer
Disconnect(r) ==
  /\ phase[r] = "waiting" /\ phase' = [phase EXCEPT ![r] = "leaving"]
  /\ UNCHANGED <<fifoVars, loopVars, swapVars, procVars>>

\* case <-b.shutdownCtx.Done() of its selects
SeeShutdown(r) ==
  /\ down /\ phase[r] \in {"waiting", "leaving", "serving"}
  /\ phase' = [phase EXCEPT ![r] = "done"]
  /\ UNCHANGED <<fifoVars, loopVars, swapVars, procVars>>

-----------------------------------------------------------------------------
(***************************************************************************)
(* The swap goroutines, and the processes' side of Stop and EnsureReady.   *)
(***************************************************************************)

\* who is waiting for a Stop of m
WantsStop(c, m) ==
  \/ c = Router /\ loop = "stop" /\ m \in stopSet
  \/ c \in Requests /\ swapPc[c] = "run" /\ m \in toStop[c]

\* Stop returns to c: one process less to wait for
Returned(c, m) ==
  /\ stopSet' = IF c = Router THEN stopSet \ {m} ELSE stopSet
  /\ toStop' = IF c \in Requests THEN [toStop EXCEPT ![c] = @ \ {m}] ELSE toStop

ProcFrame ==
  UNCHANGED <<fifoVars, loop, task, targets, toAnswer, pending, unloads, down, phase>>

\* a process accepts a Stop: at once when stopped; otherwise it is busy with it
AcceptStop(c, m) ==
  /\ stopper[m] = None /\ WantsStop(c, m)
  /\ \/ proc[m] = "stopped" /\ Returned(c, m) /\ UNCHANGED <<proc, stopper>>
     \/ /\ proc[m] \in {"starting", "ready"}
        /\ stopper' = [stopper EXCEPT ![m] = c]
        /\ proc' = [proc EXCEPT ![m] = IF @ = "ready" THEN "stopping" ELSE @]
        /\ UNCHANGED <<stopSet, toStop>>
  /\ ProcFrame /\ UNCHANGED <<swapPc, starter>>

\* the TTL goroutine of the process asks for a Stop
UnloadIdle(m) ==
  /\ stopper[m] = None /\ proc[m] = "ready"
  /\ stopper' = [stopper EXCEPT ![m] = Idle] /\ proc' = [proc EXCEPT ![m] = "stopping"]
  /\ ProcFrame /\ UNCHANGED <<stopSet, swapVars, starter>>

\* the upstream process exits on its own
Crash(m) ==
  /\ stopper[m] = None /\ proc[m] = "ready"
  /\ proc' = [proc EXCEPT ![m] = "stopped"]
  /\ ProcFrame /\ UNCHANGED <<stopSet, swapVars, stopper, starter>>

\* EnsureReady answers the swap goroutine that waits for a start of m
Started(m, ok) ==
  IF starter[m] # None /\ swapPc[starter[m]] = "starting"
  THEN swapPc' = [swapPc EXCEPT ![starter[m]] = IF ok THEN "ready" ELSE "failed"]
  ELSE UNCHANGED swapPc

\* the stop is done; a start it aborted has failed
StopDone(m) ==
  /\ stopper[m] # None /\ proc[m] # "shutdown"
  /\ proc' = [proc EXCEPT ![m] = "stopped"]
  /\ Returned(stopper[m], m) /\ Started(m, FALSE)
  /\ stopper' = [stopper EXCEPT ![m] = None] /\ starter' = [starter EXCEPT ![m] = None]
  /\ ProcFrame

\* (variation: does not wait for the evictions)
EnsureReadyEarly(r) ==
  LET m == ModelOf[r] IN
  /\ swapPc[r] = "run" /\ stopper[m] = None
  /\ \/ /\ proc[m] = "ready"
        /\ swapPc' = [swapPc EXCEPT ![r] = "ready"] /\ UNCHANGED <<proc, starter>>
     \/ /\ proc[m] = "stopped"
        /\ swapPc' = [swapPc EXCEPT ![r] = "starting"]
        /\ proc' = [proc EXCEPT ![m] = "starting"]
        /\ starter' = [starter EXCEPT ![m] = r]
  /\ ProcFrame /\ UNCHANGED <<stopSet, toStop, stopper>>

\* doSwap has stopped every model it evicts and calls EnsureReady, which the
\* process accepts when it is neither starting nor stopping
EnsureReady(r) ==
  LET m == ModelOf[r] IN
  /\ swapPc[r] = "run" /\ toStop[r] = {} /\ stopper[m] = None
  /\ \/ /\ proc[m] = "ready"
        /\ swapPc' = [swapPc EXCEPT ![r] = "ready"] /\ UNCHANGED <<proc, starter>>
     \/ /\ proc[m] = "stopped"
        /\ swapPc' = [swapPc EXCEPT ![r] = "starting"]
        /\ proc' = [proc EXCEPT ![m] = "starting"]
        /\ starter' = [starter EXCEPT ![m] = r]
  /\ ProcFrame /\ UNCHANGED <<stopSet, toStop, stopper>>

\* the start succeeds, or fails
StartDone(m) ==
  /\ proc[m] = "starting" /\ stopper[m] = None
  /\ \E ok \in BOOLEAN :
       /\ proc' = [proc EXCEPT ![m] = IF ok THEN "ready" ELSE "stopped"]
       /\ Started(m, ok)
  /\ starter' = [starter EXCEPT ![m] = None]
  /\ ProcFrame /\ UNCHANGED <<stopSet, toStop, stopper>>

\* shutdownCtx is cancelled: EnsureReady returns, and nobody reads swapDoneCh
SwapSeesShutdown(r) ==
  /\ down /\ swapPc[r] # "none" /\ toStop[r] = {}
  /\ swapPc' = [swapPc EXCEPT ![r] = "none"]
  /\ ProcFrame /\ UNCHANGED <<stopSet, toStop, procVars>>

\* a Stop that finds parentCtx cancelled returns
StopSeesShutdown(r, m) ==
  /\ swapPc[r] = "run" /\ m \in toStop[r] /\ proc[m] = "shutdown"
  /\ toStop' = [toStop EXCEPT ![r] = @ \ {m}]
  /\ ProcFrame /\ UNCHANGED <<stopSet, swapPc, procVars>>

-----------------------------------------------------------------------------
RunLoop ==
  \/ \E r \in Requests :
       OnCancel(r) \/ OnSwapDone(r) \/ OnSwapDoneUnknown(r) \/ OnServeDone(r) \/ Answer(r) \/ Drain(r)
  \/ Answered \/ UnloadStopped \/ ShutdownStopped

Environment ==
  \/ \E r \in Requests : Reject(r) \/ OnDepartedRequest(r) \/ OnRequest(r) \/ Disconnect(r)
  \/ \E ids \in UnloadTargets : OnUnload(ids)
  \/ HandleShutdown
  \/ \E m \in Models : UnloadIdle(m) \/ Crash(m)

Processes ==
  \/ \E m \in Models : \E c \in Requests \cup {Router} : AcceptStop(c, m)
  \/ \E m \in Models : StopDone(m) \/ StartDone(m)
  \/ \E r \in Requests : EnsureReady(r) \/ SwapSeesShutdown(r) \/ SeeShutdown(r)
  \/ \E r \in Requests, m \in Models : StopSeesShutdown(r, m)

Terminated ==
  /\ \A r \in Requests : (phase[r] = "done" \/ (down /\ phase[r] = "new")) /\ swapPc[r] = "none"
  /\ loop \in {"select", "done"} /\ UNCHANGED vars

Next == RunLoop \/ Environment \/ Processes \/ Terminated

Spec == Init /\ [][Next]_vars

\* The run loop, the swap goroutines and the processes' loops are always ready
\* to go on, a served request ends, and stops and starts end (ProcessCommand's
\* StopAnswered and EnsureReadyAnswered).  Nothing is assumed of clients,
\* unloads, shutdown, or of processes that stop by themselves.
Fairness ==
  /\ WF_vars(RunLoop)
  /\ \A r \in Requests :
       /\ WF_vars(OnCancel(r)) /\ WF_vars(OnServeDone(r))
       /\ WF_vars(OnSwapDone(r) \/ OnSwapDoneUnknown(r))
       /\ WF_vars(EnsureReady(r)) /\ WF_vars(SeeShutdown(r)) /\ WF_vars(SwapSeesShutdown(r))
       /\ \A m \in Models : WF_vars(AcceptStop(r, m)) /\ WF_vars(StopSeesShutdown(r, m))
  /\ \A m \in Models :
       WF_vars(StopDone(m)) /\ WF_vars(StartDone(m)) /\ WF_vars(AcceptStop(Router, m))

FairSpec == Spec /\ Fairness

-----------------------------------------------------------------------------
(***************************************************************************)
(* Correctness.                                                            *)
(***************************************************************************)

\* the requests for m that occupy one of its concurrency slots
Holding(m) ==
  {r \in Requests :
     /\ ModelOf[r] = m
     /\ \/ r \in QueueOf(queued) \cup QueueOf(pending) \cup waiters[m] \cup toAnswer
        \/ phase[r] = "serving"}

\* Every admitted request owns exactly one reservation until it is served,
\* refused, cancelled or dropped, through every race between a grant and a
\* departing client: slots are neither leaked nor released twice (release
\* would panic), and the concurrency limit is never exceeded.
ReservationAccounting ==
  ~down => \A m \in Models :
             reserved[m] = Cardinality(Holding(m)) /\ reserved[m] <= Limit[m]

\* inFlight counts exactly the handlers that were really handed to a client
\* (grantHandler): a counter left too high would block evictions for ever.
InFlightMatches ==
  ~down => \A m \in Models :
    inFlight[m] = Cardinality({r \in Requests : ModelOf[r] = m /\ phase[r] = "serving"})

\* Parallel swaps never work against each other: no model is the target of one
\* swap and in the eviction set of another, or in the eviction sets of two.
SwapsDisjoint ==
  \A m \in active :
    /\ m \notin evict[m]
    /\ \A n \in active \ {m} : n \notin evict[m] /\ evict[n] \cap evict[m] = {}

\* A request is held in one place only, so that it is answered at most once.
HeldOnce ==
  ~down => \A r \in Requests :
    /\ \A m \in Models : r \in waiters[m] => m = ModelOf[r] /\ m \in active
    /\ Cardinality({h \in {<<1, QueueOf(queued)>>, <<2, QueueOf(pending)>>, <<3, toAnswer>>,
                           <<4, UNION {waiters[m] : m \in Models}>>} : r \in h[2]}) <= 1

\* No lost wake-up: drainQueue runs only after an event, so whenever the run
\* loop rests with requests queued, a swap or a served request that will
\* cause such an event is outstanding.
QueuedHasWaker ==
  loop = "select" /\ queued # <<>> =>
    active # {} \/ \E m \in Models : inFlight[m] > 0

\* Between the queue, the waiters of the swaps and the answers under way no request
\* is lost: each is in one place, from which something will take it.
NoRequestLost == HeldOnce /\ QueuedHasWaker

\* Models that evict each other are never up together, whatever swaps run in
\* parallel (collidesWith).
Rivals == {p \in Models \X Models :
             p[2] \in PlannedEvictions(p[1], {p[1], p[2]}) /\ p[1] \in PlannedEvictions(p[2], {p[1], p[2]})}

RivalsApart == \A p \in Rivals : ~(Up(p[1]) /\ Up(p[2]))

\* "Stopping a busy process would cancel its callers' connections, so the
\* scheduler defers the swap": a swap never stops a model that serves.
SparesBusy ==
  [][\A r \in Requests, m \in Models :
       ~Up(m) \/ inFlight[m] = 0 \/ ~(stopper[m] = None /\ stopper'[m] = r)]_vars

\* A process starts only for a swap that the scheduler knows of, with every
\* model of its eviction set down.
StartsAreKnown ==
  [][\A m \in Models : proc[m] = "stopped" /\ proc'[m] = "starting" =>
       m \in active /\ \A e \in evict[m] : ~Up(e)]_vars

\* The queue serves higher priorities first and keeps arrival order otherwise:
\* it stays sorted by priority, what is queued keeps its order across every
\* drain, and a newcomer goes behind its equals.
Line == queued \o pending
Before(q, r1, r2) == \E i, j \in DOMAIN q : i < j /\ q[i] = r1 /\ q[j] = r2
QueueFairOrder ==
  [][/\ \A i, j \in DOMAIN Line' :
          i < j => Priority[ModelOf[Line'[i]]] >= Priority[ModelOf[Line'[j]]]
     /\ \A r1, r2 \in QueueOf(Line') :
          /\ Before(Line, r1, r2) => Before(Line', r1, r2)
          /\ r1 \in QueueOf(Line) /\ r2 \notin QueueOf(Line)
             /\ Priority[ModelOf[r1]] = Priority[ModelOf[r2]] => Before(Line', r1, r2)]_vars

\* fifo.go:258-259: "after Unload returns, the process is stopped".
UnloadStops == [][UnloadStopped => \A m \in targets : proc[m] = "stopped"]_vars

\* Every request that waits is answered, served to its end, or has left.
RequestsSettle == \A r \in Requests : phase[r] \in {"waiting", "leaving"} ~> phase[r] \in {"serving", "done"}

\* Shutdown ends, and leaves no process and no request behind.
ShutdownCompletes ==
  task = "shutdown" ~>
          /\ loop = "done" /\ \A m \in Models : proc[m] = "shutdown"
          /\ \A r \in Requests : phase[r] \in {"new", "done"} /\ swapPc[r] = "none"

=============================================================================
