------------------------ MODULE FIFOScheduler_proofs ------------------------
(***************************************************************************)
(* Safety of the scheduler for every set of models and requests and every  *)
(* eviction planner: first its swaps, then its requests.                   *)
(*                                                                         *)
(* Two swaps never share a model; a swap's evictions serve nobody from the *)
(* moment it is decided until it is done, and once stopped they stay down; *)
(* so when its target starts, everything it had to replace is down.        *)
(***************************************************************************)
EXTENDS FIFOScheduler, FiniteSetTheorems, SequenceTheorems, WellFoundedInduction, TLAPS

NoUnload == MaxUnloads = 0

\* The planner decides about each running model by itself, as groupSwapper does.
PairwisePlanner ==
  \A m, n \in Models : \A R \in SUBSET Models :
    n \in PlannedEvictions(m, R) <=> n \in R /\ n \in PlannedEvictions(m, {m, n})

-----------------------------------------------------------------------------
\* The part of TypeOK that does not depend on the queues.
SwapShape ==
  /\ active \subseteq Models /\ evict \in [Models -> SUBSET Models]
  /\ waiters \in [Models -> SUBSET Requests]
  /\ swapPc \in [Requests -> SwapPcs] /\ toStop \in [Requests -> SUBSET Models]
  /\ unloads \in Nat

ServeShape == inFlight \in [Models -> Int] /\ phase \in [Requests -> Phases]

ProcShape ==
  /\ proc \in [Models -> ProcStates]
  /\ stopper \in [Models -> Requests \cup {Router, Idle, None}]
  /\ starter \in [Models -> Requests \cup {None}]

Serving(m) == {r \in Requests : ModelOf[r] = m /\ phase[r] = "serving"}

\* The counter of each model counts its requests that are served; after a
\* shutdown some of those have gone without the run loop hearing of it.
Counted ==
  \A m \in Models :
    /\ Cardinality(Serving(m)) <= inFlight[m]
    /\ ~down => inFlight[m] = Cardinality(Serving(m))

\* Swap goroutines: at most one for each model, for a swap the scheduler knows.
SwapOwned ==
  \A r \in Requests : swapPc[r] # "none" =>
    /\ ModelOf[r] \in active /\ toStop[r] \subseteq evict[ModelOf[r]]
    /\ \A q \in Requests \ {r} : swapPc[q] # "none" => ModelOf[q] # ModelOf[r]

\* What a swap evicts serves nobody.
EvictedIdle == \A m \in active : \A e \in evict[m] : inFlight[e] = 0

\* The requests a finished swap is about to hand over are for its own model,
\* which nobody is evicting.
WaitersOwn == \A m \in Models : \A r \in waiters[m] : ModelOf[r] = m

AnswersSpared ==
  loop = "answer" /\ task = "serve" =>
    \A r \in toAnswer \cap Requests : \A n \in active : ModelOf[r] \notin evict[n]

\* What a swap has already stopped stays down.
EvictedDown ==
  \A r \in Requests : swapPc[r] # "none" =>
    \A e \in evict[ModelOf[r]] \ toStop[r] : ~Up(e)

\* A swap evicts each rival of its target that is up, and no rival has a swap.
RivalSwaps ==
  \A p \in Rivals : p[1] \in active =>
    p[2] \notin active /\ (Up(p[2]) => p[2] \in evict[p[1]])

-----------------------------------------------------------------------------
\* Each step keeps the shape of the swaps.
LEMMA SwapShapeStep == SwapShape /\ [Next]_vars => SwapShape'
<1> SUFFICES ASSUME SwapShape, [Next]_vars PROVE SwapShape'
  OBVIOUS
<1> USE SchedulerAssumption DEF SchedulerAssumption, SwapShape, SwapPcs, loopVars
<1>a. ASSUME NEW r \in Requests, Join(r), UNCHANGED unloads PROVE SwapShape'
  BY <1>a DEF Join, swapVars
<1>b. ASSUME NEW r \in Requests, StartSwap(r), UNCHANGED unloads PROVE SwapShape'
  <2>1. Evictions(ModelOf[r]) \in SUBSET Models
    BY DEF Evictions, RunningSet
  <2> QED
    BY <1>b, <2>1 DEF StartSwap
<1>c. ASSUME NEW r \in Requests, FastPath(r) \/ Blocked(r), UNCHANGED unloads PROVE SwapShape'
  BY <1>c DEF FastPath, Blocked, swapVars
<1>1. ASSUME NEW r \in Requests, Reject(r) \/ OnDepartedRequest(r) \/ Disconnect(r) \/ SeeShutdown(r)
      PROVE SwapShape'
  BY <1>1 DEF Reject, OnDepartedRequest, Disconnect, SeeShutdown, fifoVars, swapVars
<1>2. ASSUME NEW r \in Requests, OnRequest(r) PROVE SwapShape'
  BY <1>2, <1>a, <1>b, <1>c DEF OnRequest
<1>3. ASSUME NEW r \in Requests, Drain(r) PROVE SwapShape'
  BY <1>3, <1>a, <1>b, <1>c DEF Drain
<1>4. ASSUME NEW r \in Requests, OnCancel(r) PROVE SwapShape'
  BY <1>4 DEF OnCancel, swapVars
<1>5. ASSUME NEW r \in Requests, OnSwapDone(r) PROVE SwapShape'
  BY <1>5 DEF OnSwapDone
<1>6. ASSUME NEW r \in Requests, OnSwapDoneUnknown(r) PROVE SwapShape'
  BY <1>6 DEF OnSwapDoneUnknown, fifoVars
<1>7. ASSUME NEW r \in Requests, OnServeDone(r) \/ Answer(r) PROVE SwapShape'
  BY <1>7 DEF OnServeDone, Answer, swapVars
<1>8. ASSUME NEW ids \in UnloadTargets, OnUnload(ids) PROVE SwapShape'
  BY <1>8 DEF OnUnload, swapVars
<1>9. CASE HandleShutdown \/ Answered \/ UnloadStopped \/ ShutdownStopped
  BY <1>9 DEF HandleShutdown, Answered, UnloadStopped, ShutdownStopped, fifoVars, swapVars
<1>10. ASSUME NEW m \in Models, NEW c \in Requests \cup {Router}, AcceptStop(c, m) PROVE SwapShape'
  BY <1>10 DEF AcceptStop, Returned, ProcFrame, fifoVars
<1>11. ASSUME NEW m \in Models, UnloadIdle(m) \/ Crash(m) PROVE SwapShape'
  BY <1>11 DEF UnloadIdle, Crash, ProcFrame, fifoVars, swapVars
<1>12. ASSUME NEW m \in Models, StopDone(m) PROVE SwapShape'
  BY <1>12 DEF StopDone, Returned, Started, ProcFrame, fifoVars
<1>13. ASSUME NEW m \in Models, StartDone(m) PROVE SwapShape'
  BY <1>13 DEF StartDone, Started, ProcFrame, fifoVars
<1>14. ASSUME NEW r \in Requests, EnsureReady(r) PROVE SwapShape'
  BY <1>14 DEF EnsureReady, ProcFrame, fifoVars
<1>15. ASSUME NEW r \in Requests, SwapSeesShutdown(r) PROVE SwapShape'
  BY <1>15 DEF SwapSeesShutdown, ProcFrame, fifoVars
<1>16. ASSUME NEW r \in Requests, NEW m \in Models, StopSeesShutdown(r, m) PROVE SwapShape'
  BY <1>16 DEF StopSeesShutdown, ProcFrame, fifoVars
<1>17. CASE Terminated \/ UNCHANGED vars
  BY <1>17 DEF Terminated, vars, fifoVars, swapVars
<1> QED
  BY <1>1, <1>2, <1>3, <1>4, <1>5, <1>6, <1>7, <1>8, <1>9, <1>10, <1>11, <1>12,
     <1>13, <1>14, <1>15, <1>16, <1>17 DEF Next, RunLoop, Environment, Processes

-----------------------------------------------------------------------------
\* Each step keeps the processes' shape, brings a process up only by an
\* EnsureReady, and gives a process that is free to a swap only if the swap has
\* still to stop it.
LEMMA ProcMoves ==
  ASSUME ProcShape, SwapShape, [Next]_vars
  PROVE  /\ ProcShape'
         /\ \A e \in Models : ~Up(e) /\ Up(e)' =>
              \E r \in Requests : EnsureReady(r) /\ e = ModelOf[r]
         /\ \A e \in Models, r \in Requests : stopper[e] = None /\ stopper'[e] = r =>
              swapPc[r] = "run" /\ e \in toStop[r]
<1> DEFINE Goal ==
         /\ ProcShape'
         /\ \A e \in Models : ~Up(e) /\ Up(e)' =>
              \E r \in Requests : EnsureReady(r) /\ e = ModelOf[r]
         /\ \A e \in Models, r \in Requests : stopper[e] = None /\ stopper'[e] = r =>
              swapPc[r] = "run" /\ e \in toStop[r]
<1> USE SchedulerAssumption DEF SchedulerAssumption, ProcShape, ProcStates, Up
<1>0. ASSUME UNCHANGED procVars PROVE Goal
  BY <1>0 DEF procVars
<1>1. ASSUME NEW r \in Requests,
             \/ Reject(r) \/ OnDepartedRequest(r) \/ Disconnect(r) \/ SeeShutdown(r)
             \/ OnRequest(r) \/ Drain(r) \/ OnCancel(r) \/ OnSwapDone(r)
             \/ OnSwapDoneUnknown(r) \/ OnServeDone(r) \/ Answer(r) \/ SwapSeesShutdown(r)
      PROVE Goal
  <2>1. UNCHANGED procVars
    BY <1>1 DEF Reject, OnDepartedRequest, Disconnect, SeeShutdown, OnRequest, Drain,
       OnCancel, OnSwapDone, OnSwapDoneUnknown, OnServeDone, Answer, SwapSeesShutdown
  <2> QED
    BY <2>1, <1>0
<1>2. CASE \/ \E ids \in UnloadTargets : OnUnload(ids)
           \/ HandleShutdown \/ Answered \/ UnloadStopped
           \/ \E r \in Requests, m \in Models : StopSeesShutdown(r, m)
           \/ Terminated \/ UNCHANGED vars
  <2>1. UNCHANGED procVars
    BY <1>2 DEF OnUnload, HandleShutdown, Answered, UnloadStopped, StopSeesShutdown,
       Terminated, vars
  <2> QED
    BY <2>1, <1>0
<1>3. CASE ShutdownStopped
  BY <1>3 DEF ShutdownStopped
<1>4. ASSUME NEW m \in Models, NEW c \in Requests \cup {Router}, AcceptStop(c, m) PROVE Goal
  <2>1. ProcShape' /\ \A e \in Models : Up(e)' => Up(e)
    BY <1>4 DEF AcceptStop
  <2>2. ASSUME NEW e \in Models, NEW r \in Requests, stopper[e] = None, stopper'[e] = r
        PROVE swapPc[r] = "run" /\ e \in toStop[r]
    <3>1. e = m /\ c = r
      BY <1>4, <2>2 DEF AcceptStop
    <3> QED
      BY <1>4, <3>1 DEF AcceptStop, WantsStop
  <2> QED
    BY <2>1, <2>2
<1>5. ASSUME NEW m \in Models, UnloadIdle(m) \/ Crash(m) PROVE Goal
  BY <1>5 DEF UnloadIdle, Crash
<1>6. ASSUME NEW m \in Models, StopDone(m) PROVE Goal
  BY <1>6 DEF StopDone
<1>7. ASSUME NEW m \in Models, StartDone(m) PROVE Goal
  BY <1>7 DEF StartDone
<1>8. ASSUME NEW r \in Requests, EnsureReady(r) PROVE Goal
  <2>1. ProcShape' /\ stopper' = stopper
    BY <1>8 DEF EnsureReady
  <2>2. \A e \in Models : ~Up(e) /\ Up(e)' => e = ModelOf[r]
    BY <1>8 DEF EnsureReady
  <2> QED
    BY <1>8, <2>1, <2>2
<1> QED
  BY <1>1, <1>2, <1>3, <1>4, <1>5, <1>6, <1>7, <1>8
     DEF Next, RunLoop, Environment, Processes

-----------------------------------------------------------------------------
\* The scheduler's table of swaps changes only when a swap starts, when one is
\* done, and in an unload; the waiters of a model ask for that model.
LEMMA SwapMoves ==
  ASSUME SwapShape, WaitersOwn, [Next]_vars
  PROVE  /\ WaitersOwn'
         /\ \/ UNCHANGED <<active, evict>>
            \/ \E r \in Requests : StartSwap(r) /\ UNCHANGED <<inFlight, procVars>>
            \/ \E r \in Requests : OnSwapDone(r)
            \/ \E ids \in UnloadTargets : OnUnload(ids)
<1> DEFINE Goal ==
         /\ WaitersOwn'
         /\ \/ UNCHANGED <<active, evict>>
            \/ \E r \in Requests : StartSwap(r) /\ UNCHANGED <<inFlight, procVars>>
            \/ \E r \in Requests : OnSwapDone(r)
            \/ \E ids \in UnloadTargets : OnUnload(ids)
<1> USE SchedulerAssumption DEF SchedulerAssumption, SwapShape, WaitersOwn
<1>0. ASSUME UNCHANGED <<active, evict, waiters>> PROVE Goal
  BY <1>0
<1>a. ASSUME NEW r \in Requests, Join(r) PROVE Goal
  BY <1>a DEF Join
<1>b. ASSUME NEW r \in Requests, StartSwap(r), UNCHANGED <<inFlight, procVars>> PROVE Goal
  <2>1. WaitersOwn'
    BY <1>b DEF StartSwap
  <2> QED
    BY <2>1, <1>b
<1>c. ASSUME NEW r \in Requests, FastPath(r) \/ Blocked(r) PROVE Goal
  BY <1>c DEF FastPath, Blocked
<1>1. ASSUME NEW r \in Requests,
             \/ Reject(r) \/ OnDepartedRequest(r) \/ Disconnect(r) \/ SeeShutdown(r)
             \/ OnSwapDoneUnknown(r) \/ OnServeDone(r) \/ Answer(r) \/ SwapSeesShutdown(r)
             \/ EnsureReady(r)
      PROVE Goal
  <2>1. UNCHANGED <<active, evict, waiters>>
    BY <1>1 DEF Reject, OnDepartedRequest, Disconnect, SeeShutdown, OnSwapDoneUnknown,
       OnServeDone, Answer, SwapSeesShutdown, EnsureReady, ProcFrame, fifoVars
  <2> QED
    BY <2>1, <1>0
<1>2. ASSUME NEW r \in Requests, OnRequest(r) PROVE Goal
  BY <1>2, <1>a, <1>b, <1>c DEF OnRequest
<1>3. ASSUME NEW r \in Requests, Drain(r) PROVE Goal
  BY <1>3, <1>a, <1>b, <1>c DEF Drain
<1>4. ASSUME NEW r \in Requests, OnCancel(r) PROVE Goal
  BY <1>4 DEF OnCancel
<1>5. ASSUME NEW r \in Requests, OnSwapDone(r) PROVE Goal
  <2>1. WaitersOwn'
    BY <1>5 DEF OnSwapDone
  <2> QED
    BY <2>1, <1>5
<1>6. ASSUME NEW ids \in UnloadTargets, OnUnload(ids) PROVE Goal
  <2>1. WaitersOwn'
    BY <1>6 DEF OnUnload
  <2> QED
    BY <2>1, <1>6
<1>7. CASE \/ HandleShutdown \/ Answered \/ UnloadStopped \/ ShutdownStopped
           \/ \E r \in Requests, m \in Models : StopSeesShutdown(r, m)
           \/ \E m \in Models : UnloadIdle(m) \/ Crash(m) \/ StopDone(m) \/ StartDone(m)
           \/ \E m \in Models, c \in Requests \cup {Router} : AcceptStop(c, m)
           \/ Terminated \/ UNCHANGED vars
  <2>1. UNCHANGED <<active, evict, waiters>>
    BY <1>7 DEF HandleShutdown, Answered, UnloadStopped, ShutdownStopped, StopSeesShutdown,
       UnloadIdle, Crash, StopDone, StartDone, AcceptStop, Terminated, vars, ProcFrame, fifoVars
  <2> QED
    BY <2>1, <1>0
<1> QED
  BY <1>1, <1>2, <1>3, <1>4, <1>5, <1>6, <1>7 DEF Next, RunLoop, Environment, Processes

-----------------------------------------------------------------------------
\* Handing a request to a waiting client makes one more of the model's requests
\* served; the end of serving one fewer.
LEMMA ServeGain ==
  ASSUME NEW r \in Requests, ServeShape, Counted, phase[r] # "serving",
         phase' = [phase EXCEPT ![r] = "serving"],
         inFlight' = [inFlight EXCEPT ![ModelOf[r]] = @ + 1], down' = down
  PROVE  ServeShape' /\ Counted'
<1> USE DEF ServeShape
<1>0. IsFiniteSet(Requests) /\ ModelOf[r] \in Models
  BY SchedulerAssumption DEF SchedulerAssumption
<1>1. ServeShape'
  <2>1. phase' \in [Requests -> Phases]
    BY DEF Phases
  <2>2. inFlight' \in [Models -> Int]
    BY <1>0
  <2> QED
    BY <2>1, <2>2
<1>2. ASSUME NEW m \in Models, m # ModelOf[r] PROVE Serving(m)' = Serving(m)
  BY <1>2 DEF Serving
<1>3. Serving(ModelOf[r])' = Serving(ModelOf[r]) \cup {r} /\ r \notin Serving(ModelOf[r])
  BY DEF Serving
<1>4. IsFiniteSet(Serving(ModelOf[r]))
  BY <1>0, FS_Subset DEF Serving
<1>5. Cardinality(Serving(ModelOf[r])') = Cardinality(Serving(ModelOf[r])) + 1
  BY <1>3, <1>4, FS_AddElement
<1>6. Cardinality(Serving(ModelOf[r])) \in Nat
  BY <1>4, FS_CardinalityType
<1> QED
  BY <1>0, <1>1, <1>2, <1>5, <1>6 DEF Counted

LEMMA ServeLoss ==
  ASSUME NEW r \in Requests, ServeShape, Counted, phase[r] = "serving",
         phase' = [phase EXCEPT ![r] = "done"],
         inFlight' = [inFlight EXCEPT ![ModelOf[r]] = @ - 1], down' = down
  PROVE  ServeShape' /\ Counted'
<1> USE DEF ServeShape
<1>0. IsFiniteSet(Requests) /\ ModelOf[r] \in Models
  BY SchedulerAssumption DEF SchedulerAssumption
<1>1. ServeShape'
  <2>1. phase' \in [Requests -> Phases]
    BY DEF Phases
  <2>2. inFlight' \in [Models -> Int]
    BY <1>0
  <2> QED
    BY <2>1, <2>2
<1>2. ASSUME NEW m \in Models, m # ModelOf[r] PROVE Serving(m)' = Serving(m)
  BY <1>2 DEF Serving
<1>3. Serving(ModelOf[r])' = Serving(ModelOf[r]) \ {r} /\ r \in Serving(ModelOf[r])
  BY DEF Serving
<1>4. IsFiniteSet(Serving(ModelOf[r]))
  BY <1>0, FS_Subset DEF Serving
<1>5. Cardinality(Serving(ModelOf[r])') = Cardinality(Serving(ModelOf[r])) - 1
  BY <1>3, <1>4, FS_RemoveElement
<1>6. Cardinality(Serving(ModelOf[r])) \in Nat
  BY <1>4, FS_CardinalityType
<1> QED
  BY <1>0, <1>1, <1>2, <1>5, <1>6 DEF Counted

\* A goroutine that was not served, and is not served now, changes no count.
LEMMA ServeSame ==
  ASSUME NEW r \in Requests, ServeShape, Counted, NEW p \in Phases \ {"serving"},
         phase[r] # "serving", phase' = [phase EXCEPT ![r] = p],
         inFlight' = inFlight, down' = down
  PROVE  ServeShape' /\ Counted'
<1>1. ServeShape'
  BY DEF ServeShape
<1>2. \A m : Serving(m)' = Serving(m)
  BY DEF Serving, ServeShape
<1> QED
  BY <1>1, <1>2 DEF Counted

\* Each step keeps the counters right, and a model that serves nobody comes to
\* serve only on the fast path, or when its own swap is done.
LEMMA ServeMoves ==
  ASSUME ServeShape, Counted, [Next]_vars
  PROVE  /\ ServeShape' /\ Counted'
         /\ \A e \in Models : inFlight[e] = 0 /\ inFlight'[e] # 0 =>
              \E r \in Requests : /\ e = ModelOf[r]
                                  /\ FastPath(r) \/ (Answer(r) /\ task = "serve")
<1> DEFINE Exact == ServeShape' /\ Counted'
           Goal == /\ Exact
                   /\ \A e \in Models : inFlight[e] = 0 /\ inFlight'[e] # 0 =>
                        \E r \in Requests : /\ e = ModelOf[r]
                                            /\ FastPath(r) \/ (Answer(r) /\ task = "serve")
<1> USE SchedulerAssumption DEF SchedulerAssumption
<1>0. ASSUME UNCHANGED <<phase, inFlight, down>> PROVE Goal
  BY <1>0 DEF ServeShape, Counted, Serving
<1>1. ASSUME NEW r \in Requests, Reject(r) \/ OnDepartedRequest(r) \/ Disconnect(r) PROVE Goal
  <2>1. /\ phase[r] \in {"new", "waiting"} /\ inFlight' = inFlight /\ down' = down
        /\ phase' = [phase EXCEPT ![r] = "done"] \/ phase' = [phase EXCEPT ![r] = "leaving"]
    BY <1>1 DEF Reject, OnDepartedRequest, Disconnect, fifoVars, loopVars
  <2> QED
    BY <2>1, ServeSame DEF Phases
<1>2. ASSUME NEW r \in Requests, SeeShutdown(r) PROVE Goal
  <2>1. /\ ServeShape' /\ inFlight' = inFlight /\ down /\ down'
        /\ \A m \in Models : Serving(m)' \subseteq Serving(m)
    BY <1>2 DEF SeeShutdown, ServeShape, Phases, Serving, fifoVars, loopVars
  <2>2. ASSUME NEW m \in Models PROVE Cardinality(Serving(m)') <= inFlight[m]
    <3>1. IsFiniteSet(Serving(m)) /\ IsFiniteSet(Serving(m)')
      BY FS_Subset DEF Serving
    <3>2. Cardinality(Serving(m)') <= Cardinality(Serving(m))
      BY <2>1, <3>1, FS_Subset
    <3>3. Cardinality(Serving(m)') \in Nat /\ Cardinality(Serving(m)) \in Nat
      BY <3>1, FS_CardinalityType
    <3>4. inFlight[m] \in Int /\ Cardinality(Serving(m)) <= inFlight[m]
      BY DEF Counted, ServeShape
    <3> QED
      BY <3>2, <3>3, <3>4
  <2> QED
    BY <2>1, <2>2 DEF Counted
<1>3. ASSUME NEW r \in Requests, OnRequest(r) PROVE Goal
  <2>1. phase[r] = "new" /\ down' = down
    BY <1>3 DEF OnRequest, loopVars
  <2>2. CASE /\ FastPath(r) /\ phase' = [phase EXCEPT ![r] = "serving"]
             /\ inFlight' = [inFlight EXCEPT ![ModelOf[r]] = @ + 1]
    <3>1. Exact
      BY <2>1, <2>2, ServeGain
    <3> QED
      BY <2>2, <3>1 DEF ServeShape
  <2>3. CASE phase' = [phase EXCEPT ![r] = "waiting"] /\ UNCHANGED inFlight
    BY <2>1, <2>3, ServeSame DEF Phases
  <2> QED
    BY <1>3, <2>2, <2>3 DEF OnRequest
<1>4. ASSUME NEW r \in Requests, GrantHandler(r), down' = down PROVE Exact
  <2>1. CASE phase[r] = "waiting"
    BY <1>4, <2>1, ServeGain DEF GrantHandler
  <2>2. CASE phase[r] # "waiting"
    BY <1>4, <2>2 DEF GrantHandler, ServeShape, Counted, Serving
  <2> QED
    BY <2>1, <2>2
<1>5. ASSUME NEW r \in Requests, Drain(r) PROVE Goal
  <2>1. CASE FastPath(r) /\ GrantHandler(r)
    <3>1. Exact
      BY <1>5, <2>1, <1>4 DEF Drain
    <3>2. \A e \in Models \ {ModelOf[r]} : inFlight'[e] = inFlight[e]
      BY <2>1 DEF GrantHandler, ServeShape
    <3> QED
      BY <2>1, <3>1, <3>2
  <2>2. CASE UNCHANGED <<phase, inFlight, reserved>>
    BY <1>5, <2>2, <1>0 DEF Drain
  <2> QED
    BY <1>5, <2>1, <2>2 DEF Drain
<1>6. ASSUME NEW r \in Requests, Answer(r) PROVE Goal
  <2>1. CASE task = "serve" /\ GrantHandler(r)
    <3>1. Exact
      BY <1>6, <2>1, <1>4 DEF Answer
    <3>2. \A e \in Models \ {ModelOf[r]} : inFlight'[e] = inFlight[e]
      BY <2>1 DEF GrantHandler, ServeShape
    <3> QED
      BY <1>6, <2>1, <3>1, <3>2
  <2>2. CASE GrantError(r)
    <3>1. CASE phase[r] = "waiting"
      BY <1>6, <2>2, <3>1, ServeSame DEF GrantError, Answer, Phases
    <3>2. CASE phase[r] # "waiting"
      BY <1>6, <2>2, <3>2, <1>0 DEF GrantError, Answer, ServeShape
    <3> QED
      BY <3>1, <3>2
  <2> QED
    BY <1>6, <2>1, <2>2 DEF Answer
<1>7. ASSUME NEW r \in Requests, OnCancel(r) PROVE Goal
  BY <1>7, ServeSame DEF OnCancel, Phases, loopVars
<1>8. ASSUME NEW r \in Requests, OnServeDone(r) PROVE Goal
  <2>1. /\ phase[r] = "serving" /\ phase' = [phase EXCEPT ![r] = "done"]
        /\ inFlight' = [inFlight EXCEPT ![ModelOf[r]] = @ - 1] /\ down' = down
    BY <1>8 DEF OnServeDone
  <2>2. Exact
    BY <2>1, ServeLoss
  <2>3. inFlight[ModelOf[r]] # 0
    <3>1. IsFiniteSet(Serving(ModelOf[r])) /\ r \in Serving(ModelOf[r])
      BY <2>1, FS_Subset DEF Serving
    <3>2. Cardinality(Serving(ModelOf[r])) \in Nat \ {0}
      BY <3>1, FS_CardinalityType, FS_EmptySet
    <3>3. Cardinality(Serving(ModelOf[r])) <= inFlight[ModelOf[r]]
      BY DEF Counted
    <3> QED
      BY <3>2, <3>3
  <2>4. \A e \in Models \ {ModelOf[r]} : inFlight'[e] = inFlight[e]
    BY <2>1 DEF ServeShape
  <2> QED
    BY <2>2, <2>3, <2>4
<1>9. ASSUME NEW ids \in UnloadTargets, OnUnload(ids) PROVE Goal
  BY <1>9, <1>0 DEF OnUnload
<1>10. CASE HandleShutdown
  BY <1>10 DEF HandleShutdown, fifoVars, ServeShape, Counted, Serving
<1>11. CASE \/ Answered \/ UnloadStopped \/ ShutdownStopped
            \/ \E r \in Requests, m \in Models : StopSeesShutdown(r, m)
            \/ \E m \in Models : UnloadIdle(m) \/ Crash(m) \/ StopDone(m) \/ StartDone(m)
            \/ \E m \in Models, c \in Requests \cup {Router} : AcceptStop(c, m)
            \/ \E r \in Requests : OnSwapDone(r) \/ OnSwapDoneUnknown(r) \/ EnsureReady(r)
                                   \/ SwapSeesShutdown(r)
            \/ Terminated \/ UNCHANGED vars
  <2>1. UNCHANGED <<phase, inFlight, down>>
    BY <1>11 DEF Answered, UnloadStopped, ShutdownStopped, StopSeesShutdown, UnloadIdle,
       Crash, StopDone, StartDone, AcceptStop, OnSwapDone, OnSwapDoneUnknown, EnsureReady,
       SwapSeesShutdown, Terminated, vars, ProcFrame, fifoVars, loopVars
  <2> QED
    BY <2>1, <1>0
<1> QED
  BY <1>1, <1>2, <1>3, <1>5, <1>6, <1>7, <1>8, <1>9, <1>10, <1>11
     DEF Next, RunLoop, Environment, Processes

-----------------------------------------------------------------------------
\* A swap goroutine appears only when its swap starts; it only ever strikes
\* processes off its list, and those are down.
LEMMA GoroutineMoves ==
  ASSUME SwapShape, ProcShape, [Next]_vars, NEW q \in Requests
  PROVE  \/ StartSwap(q)
         \/ /\ swapPc'[q] # "none" => swapPc[q] # "none"
            /\ toStop'[q] \subseteq toStop[q]
            /\ \A e \in toStop[q] \ toStop'[q] : ~Up(e)'
<1> DEFINE Goal ==
         \/ StartSwap(q)
         \/ /\ swapPc'[q] # "none" => swapPc[q] # "none"
            /\ toStop'[q] \subseteq toStop[q]
            /\ \A e \in toStop[q] \ toStop'[q] : ~Up(e)'
<1> USE DEF SwapShape, SwapPcs
<1>0. ASSUME UNCHANGED swapVars PROVE Goal
  BY <1>0 DEF swapVars
<1>a. ASSUME NEW r \in Requests, StartSwap(r) PROVE Goal
  BY <1>a DEF StartSwap
<1>1. ASSUME NEW r \in Requests, OnRequest(r) \/ Drain(r) PROVE Goal
  <2>1. StartSwap(r) \/ UNCHANGED swapVars
    BY <1>1 DEF OnRequest, Drain, FastPath, Join, Blocked
  <2> QED
    BY <2>1, <1>0, <1>a
<1>2. ASSUME NEW r \in Requests,
             OnSwapDone(r) \/ OnSwapDoneUnknown(r) \/ EnsureReady(r) \/ SwapSeesShutdown(r)
      PROVE Goal
  <2>1. toStop' = toStop
    BY <1>2 DEF OnSwapDone, OnSwapDoneUnknown, EnsureReady, SwapSeesShutdown
  <2>2. swapPc'[q] # "none" => swapPc[q] # "none"
    BY <1>2 DEF OnSwapDone, OnSwapDoneUnknown, EnsureReady, SwapSeesShutdown
  <2> QED
    BY <2>1, <2>2
<1>3. ASSUME NEW m \in Models, NEW c \in Requests \cup {Router}, AcceptStop(c, m) PROVE Goal
  <2>1. swapPc' = swapPc
    BY <1>3 DEF AcceptStop
  <2>2. \/ toStop' = toStop
        \/ proc[m] = "stopped" /\ proc' = proc /\ toStop' = [toStop EXCEPT ![c] = @ \ {m}]
    BY <1>3 DEF AcceptStop, Returned
  <2> QED
    BY <2>1, <2>2 DEF Up
<1>4. ASSUME NEW m \in Models, StopDone(m) PROVE Goal
  <2>1. swapPc'[q] # "none" => swapPc[q] # "none"
    BY <1>4 DEF StopDone, Started
  <2>2. \/ toStop' = toStop
        \/ toStop' = [toStop EXCEPT ![stopper[m]] = @ \ {m}]
    BY <1>4 DEF StopDone, Returned
  <2>3. proc' = [proc EXCEPT ![m] = "stopped"]
    BY <1>4 DEF StopDone
  <2> QED
    BY <2>1, <2>2, <2>3 DEF Up, ProcShape
<1>5. ASSUME NEW m \in Models, StartDone(m) PROVE Goal
  <2>1. swapPc'[q] # "none" => swapPc[q] # "none"
    BY <1>5 DEF StartDone, Started
  <2>2. toStop' = toStop
    BY <1>5 DEF StartDone
  <2> QED
    BY <2>1, <2>2
<1>6. ASSUME NEW r \in Requests, NEW m \in Models, StopSeesShutdown(r, m) PROVE Goal
  BY <1>6 DEF StopSeesShutdown, Up, procVars
<1>7. CASE \/ \E r \in Requests : \/ Reject(r) \/ OnDepartedRequest(r) \/ Disconnect(r)
                                  \/ SeeShutdown(r) \/ OnCancel(r) \/ OnServeDone(r) \/ Answer(r)
           \/ \E ids \in UnloadTargets : OnUnload(ids)
           \/ HandleShutdown \/ Answered \/ UnloadStopped \/ ShutdownStopped
           \/ \E m \in Models : UnloadIdle(m) \/ Crash(m)
           \/ Terminated \/ UNCHANGED vars
  <2>1. UNCHANGED swapVars
    BY <1>7 DEF Reject, OnDepartedRequest, Disconnect, SeeShutdown, OnCancel, OnServeDone,
       Answer, OnUnload, HandleShutdown, Answered, UnloadStopped, ShutdownStopped,
       UnloadIdle, Crash, Terminated, vars
  <2> QED
    BY <2>1, <1>0
<1> QED
  BY <1>1, <1>2, <1>3, <1>4, <1>5, <1>6, <1>7 DEF Next, RunLoop, Environment, Processes

-----------------------------------------------------------------------------
\* The run loop hands out a finished swap's grants right after OnSwapDone, and
\* decides nothing meanwhile.
LEMMA AnswerMoves ==
  ASSUME SwapShape, [Next]_vars, loop' = "answer", task' = "serve"
  PROVE  \/ \E r \in Requests : OnSwapDone(r)
         \/ /\ loop = "answer" /\ task = "serve" /\ toAnswer' \subseteq toAnswer
            /\ UNCHANGED <<active, evict>>
<1> DEFINE Goal ==
         \/ \E r \in Requests : OnSwapDone(r)
         \/ /\ loop = "answer" /\ task = "serve" /\ toAnswer' \subseteq toAnswer
            /\ UNCHANGED <<active, evict>>
<1>1. CASE \E r \in Requests : OnRequest(r) \/ Drain(r) \/ OnServeDone(r)
  BY <1>1 DEF OnRequest, Drain, OnServeDone, BeginDrain, loopVars
<1>2. CASE \E r \in Requests : Reject(r) \/ OnDepartedRequest(r) \/ OnCancel(r) \/ OnSwapDoneUnknown(r)
  BY <1>2 DEF Reject, OnDepartedRequest, OnCancel, OnSwapDoneUnknown, loopVars
<1>3. CASE \/ \E ids \in UnloadTargets : OnUnload(ids)
           \/ HandleShutdown \/ Answered \/ UnloadStopped \/ ShutdownStopped
  BY <1>3 DEF OnUnload, HandleShutdown, Answered, UnloadStopped, ShutdownStopped, BeginDrain
<1>4. CASE \E r \in Requests : Answer(r)
  BY <1>4 DEF Answer
<1>5. CASE \/ \E r \in Requests : EnsureReady(r) \/ SwapSeesShutdown(r)
           \/ \E r \in Requests, m \in Models : StopSeesShutdown(r, m)
           \/ \E m \in Models : UnloadIdle(m) \/ Crash(m) \/ StopDone(m) \/ StartDone(m)
           \/ \E m \in Models, c \in Requests \cup {Router} : AcceptStop(c, m)
  BY <1>5 DEF EnsureReady, SwapSeesShutdown, StopSeesShutdown, UnloadIdle, Crash, StopDone,
     StartDone, AcceptStop, ProcFrame, fifoVars
<1>6. CASE \/ \E r \in Requests : Disconnect(r) \/ SeeShutdown(r)
           \/ Terminated \/ UNCHANGED vars
  BY <1>6 DEF Disconnect, SeeShutdown, Terminated, vars, fifoVars, loopVars
<1> QED
  BY <1>1, <1>2, <1>3, <1>4, <1>5, <1>6 DEF Next, RunLoop, Environment, Processes

-----------------------------------------------------------------------------
\* With any planner, and unloads at any time.
Shapes == SwapShape /\ ServeShape /\ ProcShape

Base == Shapes /\ WaitersOwn /\ Counted /\ SwapsDisjoint

LEMMA InitBase == Init => Base
<1> SUFFICES ASSUME Init PROVE Base
  OBVIOUS
<1> USE DEF Init
<1>1. Shapes
  BY SchedulerAssumption DEF SchedulerAssumption, Shapes, SwapShape, ServeShape, ProcShape,
     SwapPcs, Phases, ProcStates
<1>2. WaitersOwn /\ SwapsDisjoint
  BY DEF WaitersOwn, SwapsDisjoint
<1>3. \A m \in Models : Serving(m) = {}
  BY DEF Serving
<1>4. \A m \in Models : Cardinality(Serving(m)) = 0 /\ inFlight[m] = 0
  BY <1>3, FS_EmptySet
<1>5. Counted
  BY <1>4 DEF Counted
<1> QED
  BY <1>1, <1>2, <1>5 DEF Base

\* A swap that starts shares no model with the swaps in progress (collidesWith),
\* whatever the planner asks for.
LEMMA StartSwapDisjoint ==
  ASSUME SwapShape, SwapsDisjoint, NEW r \in Requests, StartSwap(r)
  PROVE  SwapsDisjoint'
<1> DEFINE m == ModelOf[r]
<1>1. /\ m \in Models /\ m \notin Evictions(m) /\ Evictions(m) \subseteq Models
  BY SchedulerAssumption DEF SchedulerAssumption, SwapShape, Evictions, RunningSet
<1>2. /\ active' = active \cup {m} /\ m \notin active
      /\ evict'[m] = Evictions(m) /\ \A n \in Models \ {m} : evict'[n] = evict[n]
  BY <1>1 DEF StartSwap, SwapShape
<1>3. \A n \in active : n \notin Evictions(m) /\ m \notin evict[n] /\ Evictions(m) \cap evict[n] = {}
  BY <1>2 DEF StartSwap, CollidesWith
<1> HIDE DEF m
<1> QED
  BY <1>1, <1>2, <1>3 DEF SwapsDisjoint, SwapShape

LEMMA BaseStep == Base /\ [Next]_vars => Base'
<1> SUFFICES ASSUME Base, [Next]_vars PROVE Base'
  OBVIOUS
<1> USE DEF Base, Shapes
<1>1. Shapes' /\ WaitersOwn' /\ Counted'
  BY SwapShapeStep, ServeMoves, ProcMoves, SwapMoves
<1>2. SwapsDisjoint'
  <2>1. CASE UNCHANGED <<active, evict>>
    BY <2>1 DEF SwapsDisjoint
  <2>2. CASE \E r \in Requests : StartSwap(r)
    BY <2>2, StartSwapDisjoint
  <2>3. CASE \E r \in Requests : OnSwapDone(r)
    BY <2>3 DEF OnSwapDone, SwapsDisjoint, SwapShape
  <2>4. CASE \E ids \in UnloadTargets : OnUnload(ids)
    BY <2>4 DEF OnUnload, SwapsDisjoint, SwapShape
  <2> QED
    BY <2>1, <2>2, <2>3, <2>4, SwapMoves
<1> QED
  BY <1>1, <1>2

THEOREM BaseHolds == Spec => []Base
BY InitBase, BaseStep, PTL DEF Spec

\* Parallel swaps share no model, for every planner and with unloads at any
\* time (collidesWith in fifo.go).
THEOREM SwapsDisjointHolds == Spec => []SwapsDisjoint
<1>1. Base => SwapsDisjoint
  BY DEF Base
<1> QED
  BY <1>1, BaseHolds, PTL

\* inFlight counts exactly the requests that are served, whatever client leaves
\* and whatever grant fails (grantHandler in fifo.go).
THEOREM InFlightMatchesHolds == Spec => []InFlightMatches
<1>1. Base => InFlightMatches
  BY DEF Base, Counted, InFlightMatches, Serving
<1> QED
  BY <1>1, BaseHolds, PTL

-----------------------------------------------------------------------------
\* Without unloads, a swap owns what it evicts from start to end.
Guarded == SwapOwned /\ EvictedIdle /\ AnswersSpared /\ EvictedDown

\* How the table of swaps may change when nobody unloads.
LEMMA SwapMovesNoUnload ==
  ASSUME Base, [Next]_vars, NoUnload
  PROVE  \/ UNCHANGED <<active, evict>>
         \/ \E r \in Requests : StartSwap(r) /\ UNCHANGED <<inFlight, procVars>>
         \/ \E r \in Requests : OnSwapDone(r)
<1>1. ~(unloads < MaxUnloads)
  BY DEF NoUnload, Base, Shapes, SwapShape
<1>2. \A ids \in UnloadTargets : ~OnUnload(ids)
  BY <1>1 DEF OnUnload
<1> QED
  BY <1>2, SwapMoves DEF Base, Shapes

LEMMA SwapOwnedStep ==
  ASSUME Base, SwapOwned, [Next]_vars, NoUnload PROVE SwapOwned'
<1> USE DEF Base, Shapes
<1>0. \A r \in Requests : ModelOf[r] \in Models
  BY SchedulerAssumption DEF SchedulerAssumption
<1>1. CASE UNCHANGED <<active, evict>>
  <2>1. \A r \in Requests : ~StartSwap(r)
    BY <1>1 DEF StartSwap
  <2>2. \A r \in Requests : /\ swapPc'[r] # "none" => swapPc[r] # "none"
                            /\ toStop'[r] \subseteq toStop[r]
    BY <2>1, GoroutineMoves
  <2> QED
    BY <1>1, <2>2 DEF SwapOwned
<1>2. ASSUME NEW s \in Requests, StartSwap(s) PROVE SwapOwned'
  <2>1. /\ ModelOf[s] \notin active /\ active' = active \cup {ModelOf[s]}
        /\ \A r \in Requests \ {s} : swapPc'[r] = swapPc[r] /\ toStop'[r] = toStop[r]
        /\ evict'[ModelOf[s]] = toStop'[s]
        /\ \A m \in Models \ {ModelOf[s]} : evict'[m] = evict[m]
    BY <1>0, <1>2 DEF StartSwap, SwapShape
  <2> QED
    BY <1>0, <2>1 DEF SwapOwned
<1>3. ASSUME NEW s \in Requests, OnSwapDone(s) PROVE SwapOwned'
  <2>1. /\ swapPc[s] # "none" /\ active' = active \ {ModelOf[s]}
        /\ swapPc'[s] = "none" /\ toStop' = toStop
        /\ \A r \in Requests \ {s} : swapPc'[r] = swapPc[r]
        /\ \A m \in Models \ {ModelOf[s]} : evict'[m] = evict[m]
    BY <1>0, <1>3 DEF OnSwapDone, SwapShape
  <2> QED
    BY <1>0, <2>1 DEF SwapOwned
<1> QED
  BY <1>1, <1>2, <1>3, SwapMovesNoUnload

LEMMA EvictedIdleStep ==
  ASSUME Base, EvictedIdle, AnswersSpared, [Next]_vars, NoUnload PROVE EvictedIdle'
<1> USE DEF Base, Shapes
<1>0. \A r \in Requests : ModelOf[r] \in Models
  BY SchedulerAssumption DEF SchedulerAssumption
<1>1. ASSUME NEW s \in Requests, StartSwap(s), UNCHANGED inFlight PROVE EvictedIdle'
  <2>1. /\ active' = active \cup {ModelOf[s]} /\ evict'[ModelOf[s]] = Evictions(ModelOf[s])
        /\ \A m \in Models \ {ModelOf[s]} : evict'[m] = evict[m]
    BY <1>0, <1>1 DEF StartSwap, SwapShape
  <2>2. \A e \in Evictions(ModelOf[s]) : inFlight[e] = 0
    <3> SUFFICES ASSUME NEW e \in Evictions(ModelOf[s]) PROVE inFlight[e] = 0
      OBVIOUS
    <3>1. e \in Models
      BY <1>0, SchedulerAssumption DEF SchedulerAssumption, Evictions, RunningSet, SwapShape
    <3>2. ~(inFlight[e] > 0)
      BY <1>1 DEF StartSwap, ConflictsWithInFlight
    <3>3. IsFiniteSet(Serving(e))
      BY SchedulerAssumption, FS_Subset DEF SchedulerAssumption, Serving
    <3>4. Cardinality(Serving(e)) \in Nat /\ Cardinality(Serving(e)) <= inFlight[e] /\ inFlight[e] \in Int
      BY <3>1, <3>3, FS_CardinalityType DEF Counted, ServeShape
    <3> QED
      BY <3>2, <3>4
  <2> QED
    BY <1>1, <2>1, <2>2 DEF EvictedIdle, SwapShape
<1>2. CASE ~ \E s \in Requests : StartSwap(s) /\ UNCHANGED inFlight
  <2>1. \A n \in active' : n \in active /\ evict'[n] = evict[n]
    BY <1>0, <1>2, SwapMovesNoUnload DEF OnSwapDone, SwapShape
  <2> SUFFICES ASSUME NEW n \in active', NEW e \in evict'[n], inFlight'[e] # 0 PROVE FALSE
    BY DEF EvictedIdle
  <2>2. n \in active /\ e \in evict[n] /\ e \in Models /\ inFlight[e] = 0
    BY <2>1 DEF EvictedIdle, SwapShape
  <2>3. PICK r \in Requests : e = ModelOf[r] /\ (FastPath(r) \/ (Answer(r) /\ task = "serve"))
    BY <2>2, ServeMoves
  <2>4. CASE FastPath(r)
    <3>1. e \notin active /\ ~CollidesWith(e, {})
      BY <2>3, <2>4 DEF FastPath
    <3> QED
      BY <2>2, <3>1 DEF CollidesWith
  <2>5. CASE Answer(r) /\ task = "serve"
    BY <2>2, <2>3, <2>5 DEF Answer, AnswersSpared
  <2> QED
    BY <2>3, <2>4, <2>5
<1> QED
  BY <1>1, <1>2

LEMMA AnswersSparedStep ==
  ASSUME Base, AnswersSpared, [Next]_vars PROVE AnswersSpared'
<1> USE DEF Base, Shapes
<1> SUFFICES ASSUME loop' = "answer", task' = "serve",
                    NEW r \in toAnswer' \cap Requests, NEW n \in active'
             PROVE  ModelOf[r] \notin evict'[n]
  BY DEF AnswersSpared
<1>1. ASSUME NEW s \in Requests, OnSwapDone(s) PROVE ModelOf[r] \notin evict'[n]
  <2>1. /\ ModelOf[s] \in active /\ r \in waiters[ModelOf[s]]
        /\ n \in active \ {ModelOf[s]} /\ evict'[n] = evict[n]
    BY <1>1 DEF OnSwapDone, SwapShape
  <2>2. ModelOf[r] = ModelOf[s]
    BY <2>1 DEF WaitersOwn, SwapShape
  <2> QED
    BY <2>1, <2>2 DEF SwapsDisjoint
<1>2. CASE /\ loop = "answer" /\ task = "serve" /\ toAnswer' \subseteq toAnswer
           /\ UNCHANGED <<active, evict>>
  BY <1>2 DEF AnswersSpared
<1> QED
  BY <1>1, <1>2, AnswerMoves

\* The process an EnsureReady starts is the target of a swap, and so in no
\* swap's evictions.
LEMMA StartedIsTarget ==
  ASSUME Base, SwapOwned, NEW q \in Requests, EnsureReady(q)
  PROVE  ModelOf[q] \in active /\ \A n \in active : ModelOf[q] \notin evict[n]
BY DEF EnsureReady, SwapOwned, Base, SwapsDisjoint

LEMMA EvictedDownStep ==
  ASSUME Base, SwapOwned, EvictedDown, [Next]_vars, NoUnload PROVE EvictedDown'
<1> USE DEF Base, Shapes
<1>0. \A r \in Requests : ModelOf[r] \in Models
  BY SchedulerAssumption DEF SchedulerAssumption
<1> SUFFICES ASSUME NEW r \in Requests, swapPc'[r] # "none",
                    NEW e \in evict'[ModelOf[r]] \ toStop'[r]
             PROVE  ~Up(e)'
  BY DEF EvictedDown
<1>1. CASE StartSwap(r)
  BY <1>0, <1>1 DEF StartSwap, SwapShape
<1>2. CASE ~StartSwap(r)
  <2>1. /\ swapPc[r] # "none" /\ toStop'[r] \subseteq toStop[r]
        /\ \A x \in toStop[r] \ toStop'[r] : ~Up(x)'
    BY <1>2, GoroutineMoves
  <2>2. ModelOf[r] \in active /\ \A q \in Requests \ {r} : swapPc[q] # "none" => ModelOf[q] # ModelOf[r]
    BY <2>1 DEF SwapOwned
  <2>3. evict'[ModelOf[r]] = evict[ModelOf[r]]
    <3>1. ASSUME NEW s \in Requests, StartSwap(s) PROVE evict'[ModelOf[r]] = evict[ModelOf[r]]
      BY <1>0, <2>2, <3>1 DEF StartSwap, SwapShape
    <3>2. ASSUME NEW s \in Requests, OnSwapDone(s) PROVE evict'[ModelOf[r]] = evict[ModelOf[r]]
      <4>1. s # r
        BY <3>2 DEF OnSwapDone, SwapShape
      <4>2. ModelOf[s] # ModelOf[r]
        BY <2>2, <3>2, <4>1 DEF OnSwapDone
      <4> QED
        BY <1>0, <3>2, <4>2 DEF OnSwapDone, SwapShape
    <3> QED
      BY <3>1, <3>2, SwapMovesNoUnload
  <2>4. CASE e \in toStop[r]
    BY <2>1, <2>4
  <2>5. CASE e \notin toStop[r]
    <3>1. ~Up(e) /\ e \in Models /\ e \in evict[ModelOf[r]]
      BY <1>0, <2>1, <2>3, <2>5 DEF EvictedDown, SwapShape
    <3>2. \A q \in Requests : EnsureReady(q) => e # ModelOf[q]
      BY <2>2, <3>1, StartedIsTarget
    <3> QED
      BY <3>1, <3>2, ProcMoves
  <2> QED
    BY <2>4, <2>5
<1> QED
  BY <1>1, <1>2

LEMMA InitGuarded == Init => Guarded
BY DEF Init, Guarded, SwapOwned, EvictedIdle, AnswersSpared, EvictedDown

LEMMA GuardedStep ==
  ASSUME NoUnload PROVE Base /\ Guarded /\ [Next]_vars => Guarded'
BY SwapOwnedStep, EvictedIdleStep, AnswersSparedStep, EvictedDownStep DEF Guarded

\* A swap never stops a model that serves (the deferral in OnRequest and
\* drainQueue), for every planner, provided nobody unloads.
THEOREM SparesBusyHolds == ASSUME NoUnload PROVE Spec => SparesBusy
<1>1. Base /\ Guarded /\ [Next]_vars =>
        \A r \in Requests, m \in Models :
          ~Up(m) \/ inFlight[m] = 0 \/ ~(stopper[m] = None /\ stopper'[m] = r)
  <2> SUFFICES ASSUME Base, Guarded, [Next]_vars, NEW r \in Requests, NEW m \in Models,
                      stopper[m] = None, stopper'[m] = r
               PROVE  inFlight[m] = 0
    OBVIOUS
  <2>1. swapPc[r] # "none" /\ m \in toStop[r]
    BY ProcMoves DEF Base, Shapes
  <2>2. ModelOf[r] \in active /\ m \in evict[ModelOf[r]]
    BY <2>1 DEF Guarded, SwapOwned
  <2> QED
    BY <2>2 DEF Guarded, EvictedIdle
<1>2. Spec => [](Base /\ Guarded)
  BY InitBase, BaseStep, InitGuarded, GuardedStep, PTL DEF Spec
<1> QED
  BY <1>1, <1>2, PTL DEF Spec, SparesBusy

\* A process starts only for a swap the scheduler knows of, and only when what
\* that swap evicts is down (doSwap), for every planner, without unloads.
THEOREM StartsAreKnownHolds == ASSUME NoUnload PROVE Spec => StartsAreKnown
<1>1. Base /\ Guarded /\ [Next]_vars =>
        \A m \in Models : proc[m] = "stopped" /\ proc'[m] = "starting" =>
          m \in active /\ \A e \in evict[m] : ~Up(e)
  <2> SUFFICES ASSUME Base, Guarded, [Next]_vars, NEW m \in Models,
                      proc[m] = "stopped", proc'[m] = "starting"
               PROVE  m \in active /\ \A e \in evict[m] : ~Up(e)
    OBVIOUS
  <2>1. PICK r \in Requests : EnsureReady(r) /\ m = ModelOf[r]
    BY ProcMoves DEF Base, Shapes, Up
  <2>2. swapPc[r] # "none" /\ toStop[r] = {}
    BY <2>1 DEF EnsureReady
  <2> QED
    BY <2>1, <2>2 DEF Guarded, SwapOwned, EvictedDown
<1>2. Spec => [](Base /\ Guarded)
  BY InitBase, BaseStep, InitGuarded, GuardedStep, PTL DEF Spec
<1> QED
  BY <1>1, <1>2, PTL DEF Spec, StartsAreKnown

-----------------------------------------------------------------------------
\* With a pairwise planner, rivals stay apart.
LEMMA RivalsAreModels ==
  \A p \in Rivals : /\ p[1] \in Models /\ p[2] \in Models /\ p[1] # p[2]
                    /\ <<p[2], p[1]>> \in Rivals
<1> SUFFICES ASSUME NEW p \in Rivals
             PROVE  /\ p[1] \in Models /\ p[2] \in Models /\ p[1] # p[2]
                    /\ <<p[2], p[1]>> \in Rivals
  OBVIOUS
<1>1. /\ p \in Models \X Models
      /\ p[2] \in PlannedEvictions(p[1], {p[1], p[2]})
      /\ p[1] \in PlannedEvictions(p[2], {p[1], p[2]})
  BY DEF Rivals
<1>2. {p[1], p[2]} \subseteq Models /\ {p[1], p[2]} = {p[2], p[1]}
  BY <1>1
<1>3. PlannedEvictions(p[1], {p[1], p[2]}) \subseteq {p[1], p[2]} \ {p[1]}
  BY <1>1, <1>2, SchedulerAssumption DEF SchedulerAssumption
<1> QED
  BY <1>1, <1>2, <1>3 DEF Rivals

\* A rival that runs, or that has a swap, is among the planned evictions.
LEMMA RivalPlanned ==
  ASSUME PairwisePlanner, SwapShape, NEW p \in Rivals,
         Up(p[2]) \/ p[2] \in active
  PROVE  p[2] \in Evictions(p[1])
<1>1. p[1] \in Models /\ p[2] \in Models /\ p[1] # p[2]
  BY RivalsAreModels
<1>2. p[2] \in RunningSet(p[1]) /\ RunningSet(p[1]) \subseteq Models
  BY <1>1 DEF RunningSet, SwapShape
<1>3. p[2] \in PlannedEvictions(p[1], {p[1], p[2]})
  BY DEF Rivals
<1> QED
  BY <1>1, <1>2, <1>3 DEF PairwisePlanner, Evictions

LEMMA RivalSwapsStep ==
  ASSUME Base, SwapOwned, RivalSwaps, [Next]_vars, NoUnload, PairwisePlanner
  PROVE  RivalSwaps'
<1> USE DEF Base, Shapes
<1>0. \A r \in Requests : ModelOf[r] \in Models
  BY SchedulerAssumption DEF SchedulerAssumption
<1> SUFFICES ASSUME NEW p \in Rivals, p[1] \in active'
             PROVE  p[2] \notin active' /\ (Up(p[2])' => p[2] \in evict'[p[1]])
  BY DEF RivalSwaps, Rivals
<1> DEFINE x == p[1]
           y == p[2]
           q == <<y, x>>
<1>1. x \in Models /\ y \in Models /\ x # y /\ q \in Rivals /\ q[1] = y /\ q[2] = x
  BY RivalsAreModels
<1>2. ASSUME NEW s \in Requests, StartSwap(s), UNCHANGED procVars
      PROVE  y \notin active' /\ (Up(y)' => y \in evict'[x])
  <2>0. /\ active' = active \cup {ModelOf[s]} /\ ModelOf[s] \notin active
        /\ evict'[ModelOf[s]] = Evictions(ModelOf[s])
        /\ \A m \in Models \ {ModelOf[s]} : evict'[m] = evict[m]
        /\ \A m \in active : m \notin Evictions(ModelOf[s])
        /\ proc' = proc
    BY <1>0, <1>2 DEF StartSwap, CollidesWith, SwapShape, procVars
  <2>1. CASE x = ModelOf[s]
    <3>1. Up(y) \/ y \in active => y \in Evictions(x)
      BY RivalPlanned
    <3> QED
      BY <1>1, <2>0, <2>1, <3>1 DEF Up
  <2>2. CASE x # ModelOf[s]
    <3>1. x \in active
      BY <2>0, <2>2
    <3>2. x \in Evictions(y)
      BY <1>1, <3>1, RivalPlanned
    <3>3. y # ModelOf[s]
      BY <2>0, <3>1, <3>2
    <3> QED
      BY <1>1, <2>0, <2>2, <3>1, <3>3 DEF RivalSwaps, Up
  <2> QED
    BY <2>1, <2>2
<1>3. ASSUME NEW s \in Requests, OnSwapDone(s)
      PROVE  y \notin active' /\ (Up(y)' => y \in evict'[x])
  <2>1. /\ x \in active /\ active' \subseteq active /\ evict'[x] = evict[x] /\ proc' = proc
    BY <1>0, <1>1, <1>3 DEF OnSwapDone, SwapShape, procVars
  <2> QED
    BY <2>1 DEF RivalSwaps, Up
<1>4. CASE UNCHANGED <<active, evict>>
  <2>1. y \notin active /\ (Up(y) => y \in evict[x])
    BY <1>4 DEF RivalSwaps
  <2>2. \A r \in Requests : EnsureReady(r) => ModelOf[r] \in active
    BY StartedIsTarget
  <2>3. Up(y)' => Up(y)
    BY <1>1, <2>1, <2>2, ProcMoves
  <2> QED
    BY <1>4, <2>1, <2>3
<1> QED
  BY <1>2, <1>3, <1>4, SwapMovesNoUnload

LEMMA RivalsApartStep ==
  ASSUME Base, Guarded, RivalSwaps, RivalsApart, [Next]_vars PROVE RivalsApart'
<1> SUFFICES ASSUME NEW p \in Rivals, Up(p[1])', Up(p[2])' PROVE FALSE
  BY DEF RivalsApart, Rivals
<1>1. /\ p[1] \in Models /\ p[2] \in Models
      /\ <<p[2], p[1]>> \in Rivals /\ ~(Up(p[1]) /\ Up(p[2]))
  BY RivalsAreModels DEF RivalsApart
\* whoever of the two comes up finds the other one down
<1>2. ASSUME NEW z \in Rivals, z[1] \in Models, z[2] \in Models, ~Up(z[1]), Up(z[1])'
      PROVE  z[1] \in active /\ ~Up(z[2])
  <2>1. PICK r \in Requests : EnsureReady(r) /\ z[1] = ModelOf[r]
    BY <1>2, ProcMoves DEF Base, Shapes
  <2>2. /\ swapPc[r] # "none" /\ toStop[r] = {} /\ z[1] \in active
    BY <2>1, StartedIsTarget DEF EnsureReady, Guarded
  <2>3. Up(z[2]) => z[2] \in evict[z[1]]
    BY <2>2 DEF RivalSwaps
  <2> QED
    BY <2>1, <2>2, <2>3 DEF Guarded, EvictedDown
<1>3. CASE ~Up(p[1]) /\ ~Up(p[2])
  <2>1. p[1] \in active /\ p[2] \in active
    BY <1>1, <1>2, <1>3
  <2> QED
    BY <2>1 DEF RivalSwaps
<1>4. CASE ~Up(p[1]) /\ Up(p[2])
  BY <1>1, <1>2, <1>4
<1>5. CASE Up(p[1]) /\ ~Up(p[2])
  BY <1>1, <1>2, <1>5
<1> QED
  BY <1>1, <1>3, <1>4, <1>5

\* Models that evict each other are never up together, for every number of
\* models and requests, for planners that decide pairwise, without unloads.
THEOREM RivalsApartHolds == ASSUME NoUnload, PairwisePlanner PROVE Spec => []RivalsApart
<1>1. Init => RivalSwaps /\ RivalsApart
  <2> SUFFICES ASSUME Init PROVE RivalSwaps /\ RivalsApart
    OBVIOUS
  <2>1. \A p \in Rivals : ~Up(p[1])
    BY RivalsAreModels DEF Init, Up
  <2> QED
    BY <2>1 DEF Init, RivalSwaps, RivalsApart
<1>2. Base /\ Guarded /\ RivalSwaps /\ RivalsApart /\ [Next]_vars => (RivalSwaps /\ RivalsApart)'
  BY RivalSwapsStep, RivalsApartStep DEF Guarded
<1> QED
  BY <1>1, <1>2, InitBase, BaseStep, InitGuarded, GuardedStep, PTL DEF Spec

-----------------------------------------------------------------------------
(* The group planner.                                                      *)

Group(GroupOf, Swap, Exclusive, Persistent) == INSTANCE GroupSwapper

\* The planner is groupSwapper, with these groups.
GroupPlanner(GroupOf, Swap, Exclusive, Persistent) ==
  \A m \in Models : \A R \in SUBSET Models :
    PlannedEvictions(m, R) = Group(GroupOf, Swap, Exclusive, Persistent)!EvictionFor(m, R)

\* EvictionFor of group.go decides about each running model by itself, and never evicts
\* the target: what the theorems about rivals ask of a planner.
THEOREM GroupPlannerIsPairwise ==
  ASSUME NEW GroupOf, NEW Swap, NEW Exclusive, NEW Persistent,
         GroupPlanner(GroupOf, Swap, Exclusive, Persistent)
  PROVE  /\ PairwisePlanner
         /\ \A m \in Models : \A R \in SUBSET Models : PlannedEvictions(m, R) \subseteq R \ {m}
         /\ \A m, n \in Models :
              n \in PlannedEvictions(m, {m, n})
                <=> Group(GroupOf, Swap, Exclusive, Persistent)!Evicts(m, n)
<1>1. \A m, n \in Models : \A R \in SUBSET Models :
        n \in PlannedEvictions(m, R)
          <=> n \in R /\ Group(GroupOf, Swap, Exclusive, Persistent)!Evicts(m, n)
  BY DEF GroupPlanner, Group!EvictionFor
<1>2. \A m, n \in Models : Group(GroupOf, Swap, Exclusive, Persistent)!Evicts(m, n) => m # n
  BY DEF Group!Evicts
<1>3. \A m \in Models : \A R \in SUBSET Models : PlannedEvictions(m, R) \subseteq R
  BY DEF GroupPlanner, Group!EvictionFor
<1> QED
  BY <1>1, <1>2, <1>3 DEF PairwisePlanner

\* With the group planner, a swap group has one model up at a time, and so have two
\* exclusive groups of which none is persistent (the groups section of the
\* configuration; consider() in group.go), whatever swaps run in parallel and for any
\* number of groups, models and requests; without unloads.
THEOREM GroupsApart ==
  ASSUME NEW CONSTANT GroupOf, NEW CONSTANT Swap, NEW CONSTANT Exclusive,
         NEW CONSTANT Persistent, NoUnload,
         GroupPlanner(GroupOf, Swap, Exclusive, Persistent)
  PROVE  Spec => [](\A m, n \in Models : m # n /\ Up(m) /\ Up(n) =>
                      IF GroupOf[m] = GroupOf[n]
                        THEN GroupOf[m] \notin Swap
                        ELSE ~({GroupOf[m], GroupOf[n]} \subseteq Exclusive \ Persistent))
<1>1. PairwisePlanner
  BY GroupPlannerIsPairwise
<1>2. RivalsApart =>
        \A m, n \in Models : m # n /\ Up(m) /\ Up(n) =>
          IF GroupOf[m] = GroupOf[n]
            THEN GroupOf[m] \notin Swap
            ELSE ~({GroupOf[m], GroupOf[n]} \subseteq Exclusive \ Persistent)
  <2> SUFFICES ASSUME RivalsApart, NEW m \in Models, NEW n \in Models, m # n, Up(m), Up(n)
               PROVE  IF GroupOf[m] = GroupOf[n]
                        THEN GroupOf[m] \notin Swap
                        ELSE ~({GroupOf[m], GroupOf[n]} \subseteq Exclusive \ Persistent)
    OBVIOUS
  <2>1. <<m, n>> \notin Rivals
    BY DEF RivalsApart
  <2>2. ~(n \in PlannedEvictions(m, {m, n}) /\ m \in PlannedEvictions(n, {m, n}))
    BY <2>1 DEF Rivals
  <2>3. {m, n} = {n, m}
    OBVIOUS
  <2>4. ~(/\ Group(GroupOf, Swap, Exclusive, Persistent)!Evicts(m, n)
          /\ Group(GroupOf, Swap, Exclusive, Persistent)!Evicts(n, m))
    BY <2>2, <2>3, GroupPlannerIsPairwise
  <2> QED
    BY <2>4 DEF Group!Evicts
<1> QED
  BY <1>1, <1>2, RivalsApartHolds, PTL

-----------------------------------------------------------------------------
\* For any notion of models that may run together: a planner preserves it when
\* stopping what it plans makes room for the target, also beside some of the
\* models it was told about.
UpModels == {m \in Models : Up(m)}

Closed(Allowed) == {} \in Allowed /\ \A A \in Allowed : \A B \in SUBSET A : B \in Allowed

PlannerKeeps(Allowed) ==
  \A t \in Models : \A R \in SUBSET Models : \A Y \in SUBSET R :
    Y \in Allowed /\ (t \in R => t \in Y) => (Y \ PlannedEvictions(t, R)) \cup {t} \in Allowed

\* What is up is allowed, and stays so whichever of the swaps in progress are
\* carried out first.
EvictedBy(X) == UNION {evict[n] : n \in X}
Outcome(X) == (UpModels \ EvictedBy(X)) \cup X
Outcomes(Allowed) == \A X \in SUBSET active : Outcome(X) \in Allowed

LEMMA OutcomesStartSwap ==
  ASSUME NEW Allowed, PlannerKeeps(Allowed), Base, Outcomes(Allowed),
         NEW s \in Requests, StartSwap(s), UNCHANGED procVars
  PROVE  Outcomes(Allowed)'
<1> DEFINE t == ModelOf[s]
<1> USE DEF Base, Shapes
<1>1. t \in Models /\ UpModels \subseteq Models
  BY SchedulerAssumption DEF SchedulerAssumption, UpModels
<1>2. /\ active' = active \cup {t} /\ evict'[t] = Evictions(t)
      /\ \A n \in active : evict'[n] = evict[n]
  BY <1>1 DEF StartSwap, SwapShape
<1>3. /\ t \notin active
      /\ \A n \in active : n \notin Evictions(t) /\ t \notin evict[n]
  BY DEF StartSwap, CollidesWith
<1>4. UpModels' = UpModels
  BY DEF UpModels, Up, procVars
<1>5. RunningSet(t) = UpModels \cup active /\ RunningSet(t) \in SUBSET Models
  BY <1>1, <1>3 DEF RunningSet, UpModels, SwapShape
<1> HIDE DEF t
<1>6. ASSUME NEW X \in SUBSET active PROVE EvictedBy(X)' = EvictedBy(X)
  BY <1>2 DEF EvictedBy
<1>7. ASSUME NEW X \in SUBSET active' PROVE Outcome(X)' \in Allowed
  <2>1. CASE t \notin X
    <3>1. X \in SUBSET active
      BY <1>2, <2>1
    <3>2. Outcome(X)' = Outcome(X)
      BY <1>4, <1>6, <3>1 DEF Outcome
    <3> QED
      BY <3>1, <3>2 DEF Outcomes
  <2>2. CASE t \in X
    <3> DEFINE Z == X \ {t}
               Y == Outcome(Z)
    <3>1. Z \in SUBSET active /\ X = Z \cup {t}
      BY <1>2, <2>2
    <3>2. Y \in Allowed
      BY <3>1 DEF Outcomes
    <3>3. Y \in SUBSET RunningSet(t)
      BY <1>5, <3>1 DEF Outcome
    <3>4. t \in RunningSet(t) => t \in Y
      <4>1. t \notin EvictedBy(Z)
        BY <1>3, <3>1 DEF EvictedBy
      <4> QED
        BY <1>3, <1>5, <4>1 DEF Outcome
    <3>5. (Y \ Evictions(t)) \cup {t} \in Allowed
      BY <1>1, <1>5, <3>2, <3>3, <3>4 DEF PlannerKeeps, Evictions
    <3>6. EvictedBy(X)' = EvictedBy(Z) \cup Evictions(t)
      BY <1>2, <1>6, <3>1 DEF EvictedBy
    <3>7. Z \cap Evictions(t) = {}
      BY <1>3, <3>1
    <3>8. Outcome(X)' = (Y \ Evictions(t)) \cup {t}
      BY <1>4, <3>1, <3>6, <3>7 DEF Outcome
    <3> QED
      BY <3>5, <3>8
  <2> QED
    BY <2>1, <2>2
<1> QED
  BY <1>7 DEF Outcomes

\* Processes that stop leave the outcomes allowed; one that starts is the
\* target of a swap whose evictions are down, so an outcome of that swap.
LEMMA OutcomesProcStep ==
  ASSUME NEW Allowed, Closed(Allowed), Base, Guarded, Outcomes(Allowed), [Next]_vars,
         NEW A, A \subseteq active, NEW X \in SUBSET A,
         active' = A, \A n \in A : evict'[n] = evict[n]
  PROVE  Outcome(X)' \in Allowed
<1> USE DEF Base, Shapes
<1> DEFINE N == UpModels' \ UpModels
<1>1. \A e \in N : e \in active /\ (\A n \in active : e \notin evict[n]) /\ evict[e] \cap UpModels = {}
  <2> SUFFICES ASSUME NEW e \in N
               PROVE  e \in active /\ (\A n \in active : e \notin evict[n]) /\ evict[e] \cap UpModels = {}
    OBVIOUS
  <2>1. PICK r \in Requests : EnsureReady(r) /\ e = ModelOf[r]
    BY ProcMoves DEF UpModels
  <2>2. swapPc[r] # "none" /\ toStop[r] = {}
    BY <2>1 DEF EnsureReady
  <2>3. \A x \in evict[e] : ~Up(x)
    BY <2>1, <2>2 DEF Guarded, EvictedDown
  <2> QED
    BY <2>1, <2>3, StartedIsTarget DEF Guarded, UpModels
<1>2. Outcome(X \cup N) \in Allowed
  BY <1>1 DEF Outcomes
<1>3. EvictedBy(X)' = EvictedBy(X)
  BY DEF EvictedBy
<1>4. EvictedBy(X \cup N) \cap UpModels \subseteq EvictedBy(X)
  BY <1>1 DEF EvictedBy
<1>5. Outcome(X)' \subseteq Outcome(X \cup N)
  BY <1>3, <1>4 DEF Outcome
<1> QED
  BY <1>2, <1>5 DEF Closed

LEMMA OutcomesStep ==
  ASSUME NEW Allowed, Closed(Allowed), PlannerKeeps(Allowed), NoUnload,
         Base, Guarded, Outcomes(Allowed), [Next]_vars
  PROVE  Outcomes(Allowed)'
<1> USE DEF Base, Shapes
<1>1. CASE \E s \in Requests : StartSwap(s) /\ UNCHANGED <<inFlight, procVars>>
  BY <1>1, OutcomesStartSwap
<1>2. CASE UNCHANGED <<active, evict>> \/ \E s \in Requests : OnSwapDone(s)
  <2>1. active' \subseteq active /\ \A n \in active' : evict'[n] = evict[n]
    BY <1>2, SchedulerAssumption DEF SchedulerAssumption, OnSwapDone, SwapShape
  <2> QED
    BY <2>1, OutcomesProcStep DEF Outcomes
<1> QED
  BY <1>1, <1>2, SwapMovesNoUnload

LEMMA OutcomesInit ==
  ASSUME NEW Allowed, Closed(Allowed), Init
  PROVE  Outcomes(Allowed)
<1>1. active = {} /\ UpModels = {}
  BY DEF Init, UpModels, Up
<1> QED
  BY <1>1 DEF Outcomes, Outcome, EvictedBy, Closed

LEMMA OutcomesUp ==
  ASSUME NEW Allowed, Outcomes(Allowed)
  PROVE  UpModels \in Allowed
<1>1. Outcome({}) = UpModels
  BY DEF Outcome, EvictedBy
<1> QED
  BY <1>1 DEF Outcomes

\* Whatever swaps run in parallel, what is up together is allowed to be, for
\* every planner that keeps it so one swap at a time, without unloads.
THEOREM UpModelsAllowed ==
  ASSUME NEW CONSTANT Allowed, Closed(Allowed), PlannerKeeps(Allowed), NoUnload
  PROVE  Spec => [](UpModels \in Allowed)
<1>1. Init => Outcomes(Allowed)
  BY OutcomesInit
<1>2. Base /\ Guarded /\ Outcomes(Allowed) /\ [Next]_vars => Outcomes(Allowed)'
  BY OutcomesStep
<1>3. Outcomes(Allowed) => UpModels \in Allowed
  BY OutcomesUp
<1> QED
  BY <1>1, <1>2, <1>3, InitBase, BaseStep, InitGuarded, GuardedStep, PTL DEF Spec

\* A planner that answers from a family of sets: nothing goes for a model that
\* runs; for another, all but one of the sets with it, or, in none, everything.
SetPlanner(Sets) ==
  \A t \in Models : \A R \in SUBSET Models :
    IF t \in R THEN PlannedEvictions(t, R) = {}
    ELSE \/ PlannedEvictions(t, R) = R
         \/ \E S \in Sets : t \in S /\ PlannedEvictions(t, R) = R \ S

FitsOneSet(Sets) == {A \in SUBSET Models : (\E S \in Sets : A \subseteq S) \/ \E m \in Models : A \subseteq {m}}

\* What a planner of this kind keeps: all that runs fits in one of its sets, or
\* is a single model (of no set, or alone in one).
LEMMA SetPlannerKeeps ==
  ASSUME NEW CONSTANT Sets, SetPlanner(Sets), Models # {}
  PROVE  Closed(FitsOneSet(Sets)) /\ PlannerKeeps(FitsOneSet(Sets))
<1> DEFINE Allowed == FitsOneSet(Sets)
<1>1. Closed(Allowed)
  BY DEF Closed, FitsOneSet
<1>2. ASSUME NEW t \in Models, NEW R \in SUBSET Models, NEW Y \in SUBSET R,
             Y \in Allowed, t \in R => t \in Y
      PROVE  (Y \ PlannedEvictions(t, R)) \cup {t} \in Allowed
  <2> DEFINE E == PlannedEvictions(t, R)
  <2>1. CASE t \in R
    <3>1. E = {}
      BY <2>1 DEF SetPlanner
    <3>2. (Y \ E) \cup {t} = Y
      BY <3>1, <2>1, <1>2
    <3> QED
      BY <3>2, <1>2
  <2>2. CASE t \notin R /\ E = R
    <3>1. (Y \ E) \cup {t} = {t}
      BY <2>2
    <3> QED
      BY <3>1 DEF FitsOneSet
  <2>3. CASE t \notin R /\ \E S \in Sets : t \in S /\ E = R \ S
    <3>1. PICK S \in Sets : t \in S /\ E = R \ S
      BY <2>3
    <3>2. (Y \ E) \cup {t} \subseteq S /\ (Y \ E) \cup {t} \subseteq Models
      BY <3>1
    <3> QED
      BY <3>2 DEF FitsOneSet
  <2> QED
    BY <2>1, <2>2, <2>3 DEF SetPlanner
<1> QED
  BY <1>1, <1>2 DEF PlannerKeeps

\* The router with the matrix planner: the models that are up, whatever swaps run
\* in parallel, all belong to one set of the configuration, or there is only one.
THEOREM SetPlannerKeepsSets ==
  ASSUME NEW CONSTANT Sets, SetPlanner(Sets), Models # {}, NoUnload
  PROVE  Spec => [](UpModels \in FitsOneSet(Sets))
<1> DEFINE Allowed == FitsOneSet(Sets)
<1>1. Closed(Allowed) /\ PlannerKeeps(Allowed)
  BY SetPlannerKeeps
<1> HIDE DEF Allowed
<1>2. Init => Outcomes(Allowed)
  BY <1>1, OutcomesInit
<1>3. Base /\ Guarded /\ Outcomes(Allowed) /\ [Next]_vars => Outcomes(Allowed)'
  BY <1>1, OutcomesStep
<1>4. Outcomes(Allowed) => UpModels \in Allowed
  BY OutcomesUp
<1>5. Spec => [](UpModels \in Allowed)
  BY <1>2, <1>3, <1>4, InitBase, BaseStep, InitGuarded, GuardedStep, PTL DEF Spec
<1> QED
  BY <1>5 DEF Allowed

-----------------------------------------------------------------------------
(* No request is lost, whatever the priorities, limits, unloads and        *)
(* shutdown: each request is in one place, each slot of the concurrency    *)
(* limit belongs to one request, and the queue keeps its order.  Every     *)
(* step of the run loop adds one request to those it holds, takes one out, *)
(* or moves some between its places; and it changes the line of queued     *)
(* requests by putting one in or thinning it out.                          *)

\* Induction over the numbers up to n, for a set.
LEMMA Induct ==
  ASSUME NEW n \in Nat, NEW T, 0 \in T, \A i \in 0..n - 1 : i \in T => i + 1 \in T
  PROVE  n \in T
<1> DEFINE Less == {p \in Nat \X Nat : p[1] < p[2]}
           U == {i \in 0..n : i \notin T}
<1> SUFFICES ASSUME n \notin T PROVE FALSE
  OBVIOUS
<1>1. IsWellFoundedOn(Less, Nat)
  BY NatLessThanWellFounded, Zenon DEF OpToRel
<1>2. U \subseteq Nat /\ U # {}
  OBVIOUS
<1> HIDE DEF Less, U
<1>3. PICK x \in U : \A y \in U : ~(<<y, x>> \in Less)
  BY <1>1, <1>2, WFMin
<1>4. x \in 0..n /\ x \notin T /\ x # 0
  BY <1>3 DEF U
<1>5. x - 1 \in 0..n - 1 /\ <<x - 1, x>> \in Less
  BY <1>4 DEF Less
<1>6. x - 1 \in T
  BY <1>3, <1>5 DEF U
<1>7. (x - 1) + 1 \in T
  BY <1>5, <1>6
<1> QED
  BY <1>4, <1>7

\* A set of numbers has a least one.
LEMMA Least ==
  ASSUME NEW T \in SUBSET Nat, T # {}
  PROVE  \E x \in T : \A y \in T : x <= y
<1> DEFINE Less == {p \in Nat \X Nat : p[1] < p[2]}
<1>1. IsWellFoundedOn(Less, Nat)
  BY NatLessThanWellFounded, Zenon DEF OpToRel
<1> HIDE DEF Less
<1>2. PICK x \in T : \A y \in T : ~(<<y, x>> \in Less)
  BY <1>1, WFMin
<1>3. ASSUME NEW y \in T PROVE x <= y
  <2>1. x \in Nat /\ y \in Nat
    OBVIOUS
  <2>2. ~(y < x)
    BY <1>2, <2>1 DEF Less
  <2> QED
    BY <2>1, <2>2
<1> QED
  BY <1>3

-----------------------------------------------------------------------------
\* Thinning: s is what is left of t, in t's order.
Picks(e, s, t) ==
  /\ e \in [1..Len(s) -> 1..Len(t)]
  /\ \A i, j \in 1..Len(s) : i < j => e[i] < e[j]
  /\ \A i \in 1..Len(s) : s[i] = t[e[i]]

Thins(s, t) == \E e : Picks(e, s, t)

Distinct(q) == \A i, j \in DOMAIN q : q[i] = q[j] => i = j

\* One turn of the loop of Kept.
KeptStep(q, gone, f, i) ==
  IF i = 0 THEN <<>> ELSE IF q[i] \in gone THEN f[i - 1] ELSE Append(f[i - 1], q[i])

\* Kept is the result of its turns.
LEMMA KeptIs ==
  ASSUME NEW S, NEW q \in Seq(S), NEW gone
  PROVE  \E f \in [0..Len(q) -> Seq(S)] :
           /\ \A i \in 0..Len(q) : f[i] = KeptStep(q, gone, f, i)
           /\ Kept(q, gone) = f[Len(q)]
<1> DEFINE n == Len(q)
           Upto(m, f) == /\ f \in [0..m -> Seq(S)]
                         /\ \A i \in 0..m : f[i] = KeptStep(q, gone, f, i)
           T == {m \in 0..n : \E f : Upto(m, f)}
           k == CHOOSE f : f = [i \in 0..n |-> KeptStep(q, gone, f, i)]
<1>0. n \in Nat
  OBVIOUS
<1>1. Kept(q, gone) = k[n]
  BY DEF Kept, KeptStep
<1>2. n \in T
  <2>1. 0 \in T
    <3> DEFINE e == [i \in 0..0 |-> <<>>]
    <3>1. Upto(0, e)
      BY DEF KeptStep
    <3> QED
      BY <3>1
  <2>2. ASSUME NEW m \in 0..n - 1, m \in T PROVE m + 1 \in T
    <3>1. PICK f : Upto(m, f)
      BY <2>2
    <3> DEFINE g == [i \in 0..m + 1 |-> IF i = m + 1 THEN KeptStep(q, gone, f, i) ELSE f[i]]
    <3>2. KeptStep(q, gone, f, m + 1) \in Seq(S)
      <4>1. q[m + 1] \in S /\ f[m] \in Seq(S)
        BY <3>1
      <4>2. Append(f[m], q[m + 1]) \in Seq(S)
        BY <4>1
      <4> QED
        BY <4>1, <4>2 DEF KeptStep
    <3>3. g \in [0..m + 1 -> Seq(S)]
      BY <3>1, <3>2
    <3>4. ASSUME NEW i \in 0..m + 1 PROVE g[i] = KeptStep(q, gone, g, i)
      <4>1. i # 0 => g[i - 1] = f[i - 1]
        OBVIOUS
      <4>2. KeptStep(q, gone, g, i) = KeptStep(q, gone, f, i)
        BY <4>1 DEF KeptStep
      <4>3. i \in 0..m => g[i] = KeptStep(q, gone, f, i)
        BY <3>1
      <4> QED
        BY <4>2, <4>3
    <3>5. Upto(m + 1, g)
      BY <3>3, <3>4
    <3>6. m + 1 \in 0..n
      BY <1>0
    <3> QED
      BY <3>5, <3>6
  <2> HIDE DEF T
  <2> QED
    BY <1>0, <2>1, <2>2, Induct
<1>3. PICK f : Upto(n, f)
  BY <1>2
<1>4. f = [i \in 0..n |-> KeptStep(q, gone, f, i)]
  <2> DEFINE h == [i \in 0..n |-> KeptStep(q, gone, f, i)]
  <2> HIDE DEF n
  <2>1. f = [i \in 0..n |-> f[i]]
    BY <1>3
  <2>2. [i \in 0..n |-> f[i]] = h
    BY <1>3
  <2> QED
    BY <2>1, <2>2
<1>5. k = [i \in 0..n |-> KeptStep(q, gone, k, i)]
  BY <1>4
<1>6. \A i \in 0..n : k[i] = KeptStep(q, gone, k, i)
  <2> HIDE DEF n
  <2> QED
    BY <1>5
<1> HIDE DEF k, n
<1>7. k \in [0..n -> Seq(S)]
  <2> DEFINE A == {m \in 0..n : k[m] \in Seq(S)}
  <2>1. 0 \in A
    <3>1. k[0] = KeptStep(q, gone, k, 0) /\ 0 \in 0..n
      BY <1>0, <1>6
    <3>2. k[0] = <<>>
      BY <3>1 DEF KeptStep
    <3>3. k[0] \in Seq(S)
      BY <3>2
    <3> QED
      BY <3>1, <3>3
  <2>2. ASSUME NEW m \in 0..n - 1, m \in A PROVE m + 1 \in A
    <3>1. q[m + 1] \in S /\ k[m] \in Seq(S)
      BY <2>2 DEF n
    <3>2. Append(k[m], q[m + 1]) \in Seq(S)
      BY <3>1
    <3>3. k[m + 1] = KeptStep(q, gone, k, m + 1) /\ m + 1 \in 0..n
      BY <1>0, <1>6
    <3>4. KeptStep(q, gone, k, m + 1) \in Seq(S)
      BY <3>1, <3>2 DEF KeptStep
    <3> QED
      BY <3>3, <3>4
  <2>3. ASSUME NEW m \in 0..n PROVE m \in A
    <3> HIDE DEF A
    <3> QED
      BY <1>0, <2>1, <2>2, Induct
  <2>4. k = [i \in 0..n |-> k[i]]
    BY <1>5
  <2> QED
    BY <2>3, <2>4
<1> QED
  BY <1>1, <1>6, <1>7 DEF n

\* Kept thins the queue out, and takes exactly what it should.
LEMMA KeptThins ==
  ASSUME NEW S, NEW q \in Seq(S), NEW gone
  PROVE  /\ Kept(q, gone) \in Seq(S) /\ Thins(Kept(q, gone), q)
         /\ QueueOf(Kept(q, gone)) = QueueOf(q) \ gone
<1>0. PICK f \in [0..Len(q) -> Seq(S)] :
        /\ \A i \in 0..Len(q) : f[i] = KeptStep(q, gone, f, i)
        /\ Kept(q, gone) = f[Len(q)]
  BY ZenonT(40), KeptIs
<1> DEFINE n == Len(q)
           Upto(m, e) ==
             /\ e \in [1..Len(f[m]) -> 1..m]
             /\ \A i, j \in 1..Len(f[m]) : i < j => e[i] < e[j]
             /\ \A i \in 1..Len(f[m]) : f[m][i] = q[e[i]] /\ q[e[i]] \notin gone
             /\ \A j \in 1..m : q[j] \notin gone => \E i \in 1..Len(f[m]) : e[i] = j
           T == {m \in 0..n : \E e : Upto(m, e)}
<1>1. n \in Nat /\ DOMAIN q = 1..n
  OBVIOUS
<1> HIDE DEF n
<1>2. 0 \in T
  <2>1. f[0] = <<>>
    BY <1>0, <1>1 DEF KeptStep, n
  <2>2. Upto(0, [i \in 1..0 |-> 0])
    BY <2>1
  <2> QED
    BY <2>2, <1>1
<1>3. ASSUME NEW m \in 0..n - 1, m \in T PROVE m + 1 \in T
  <2>1. PICK e : Upto(m, e)
    BY <1>3
  <2>2. m + 1 \in 0..n /\ m \in 0..n
    BY <1>1
  <2>3. /\ f[m] \in Seq(S) /\ q[m + 1] \in S
        /\ f[m + 1] = IF q[m + 1] \in gone THEN f[m] ELSE Append(f[m], q[m + 1])
    <3>1. f[m] \in Seq(S) /\ q[m + 1] \in S
      BY <1>0, <1>1, <2>2 DEF n
    <3>2. f[m + 1] = KeptStep(q, gone, f, m + 1)
      BY <1>0, <2>2 DEF n
    <3>3. m + 1 # 0 /\ (m + 1) - 1 = m
      BY <1>1, <2>2
    <3> QED
      BY <3>1, <3>2, <3>3 DEF KeptStep
  <2>4. CASE q[m + 1] \in gone
    <3>1. f[m + 1] = f[m]
      BY <2>3, <2>4
    <3>2. Upto(m + 1, e)
      BY <2>1, <2>3, <2>4, <3>1
    <3> QED
      BY <3>2, <2>2
  <2>5. CASE q[m + 1] \notin gone
    <3> DEFINE l == Len(f[m])
               d == [i \in 1..l + 1 |-> IF i = l + 1 THEN m + 1 ELSE e[i]]
    <3>1. /\ l \in Nat /\ Len(f[m + 1]) = l + 1 /\ f[m + 1][l + 1] = q[m + 1]
          /\ \A i \in 1..l : f[m + 1][i] = f[m][i]
      BY <2>3, <2>5, AppendProperties
    <3> HIDE DEF l
    <3>2. d \in [1..l + 1 -> 1..m + 1]
      BY <2>1, <3>1 DEF l
    <3>3. ASSUME NEW i \in 1..l + 1, NEW j \in 1..l + 1, i < j PROVE d[i] < d[j]
      <4>1. i \in 1..l /\ d[i] = e[i] /\ e[i] \in 1..m
        <5>1. i \in 1..l /\ i # l + 1
          BY <3>1, <3>3
        <5>2. e[i] \in 1..m
          BY <2>1, <5>1 DEF l
        <5> QED
          BY <5>1, <5>2
      <4>2. CASE j = l + 1
        BY <4>1, <4>2, <2>2, <1>1
      <4>3. CASE j \in 1..l
        <5>1. e[i] < e[j]
          BY <2>1, <3>3, <4>1, <4>3 DEF l
        <5>2. d[j] = e[j]
          BY <4>3, <3>1
        <5> QED
          BY <4>1, <5>1, <5>2
      <4> QED
        BY <3>1, <4>2, <4>3
    <3>4. \A i \in 1..l + 1 : f[m + 1][i] = q[d[i]] /\ q[d[i]] \notin gone
      BY <2>1, <2>5, <3>1 DEF l
    <3>5. ASSUME NEW j \in 1..m + 1, q[j] \notin gone PROVE \E i \in 1..l + 1 : d[i] = j
      <4>1. CASE j = m + 1
        <5>1. l + 1 \in 1..l + 1 /\ d[l + 1] = j
          BY <4>1, <3>1
        <5> QED
          BY <5>1
      <4>2. CASE j # m + 1
        <5>1. PICK i \in 1..l : e[i] = j
          BY <2>1, <3>5, <4>2 DEF l
        <5>2. i \in 1..l + 1 /\ d[i] = j
          BY <3>1, <5>1
        <5> QED
          BY <5>2
      <4> QED
        BY <4>1, <4>2
    <3>6. Upto(m + 1, d)
      <4> HIDE DEF d
      <4> QED
        BY <3>1, <3>2, <3>3, <3>4, <3>5
    <3> QED
      BY <3>6, <2>2
  <2> QED
    BY <2>4, <2>5
<1>4. n \in T
  <2> HIDE DEF T
  <2> QED
    BY <1>1, <1>2, <1>3, Induct
<1>5. PICK e : Upto(n, e)
  BY <1>4
<1>6. Kept(q, gone) \in Seq(S) /\ Kept(q, gone) = f[n]
  BY <1>0, <1>1 DEF n
<1>7. Picks(e, Kept(q, gone), q)
  BY <1>5, <1>6 DEF Picks, n
<1>8. QueueOf(Kept(q, gone)) \subseteq QueueOf(q) \ gone
  <2> SUFFICES ASSUME NEW i \in 1..Len(f[n]) PROVE f[n][i] \in QueueOf(q) \ gone
    <3>1. DOMAIN f[n] = 1..Len(f[n])
      BY <1>6
    <3> QED
      BY <1>6, <3>1 DEF QueueOf
  <2>1. e[i] \in 1..n /\ f[n][i] = q[e[i]] /\ q[e[i]] \notin gone
    BY <1>5
  <2>2. DOMAIN q = 1..n
    BY DEF n
  <2> QED
    BY <2>1, <2>2 DEF QueueOf
<1>9. QueueOf(q) \ gone \subseteq QueueOf(Kept(q, gone))
  <2> SUFFICES ASSUME NEW j \in 1..n, q[j] \notin gone PROVE q[j] \in QueueOf(Kept(q, gone))
    BY <1>1 DEF QueueOf
  <2>1. PICK i \in 1..Len(f[n]) : e[i] = j
    BY <1>5
  <2>2. f[n][i] = q[j] /\ i \in DOMAIN f[n]
    BY <1>5, <1>6, <2>1
  <2> QED
    BY <2>2, <1>6 DEF QueueOf
<1> QED
  BY <1>6, <1>7, <1>8, <1>9 DEF Thins

-----------------------------------------------------------------------------
\* What thinning keeps: no request twice, the order of two requests, and the
\* order by priority.
ByPriority(q) ==
  \A i, j \in DOMAIN q : i < j => Priority[ModelOf[q[i]]] >= Priority[ModelOf[q[j]]]

LEMMA ThinsKeeps ==
  ASSUME NEW t \in Seq(Requests), NEW s \in Seq(Requests), Thins(s, t)
  PROVE  /\ QueueOf(s) \subseteq QueueOf(t)
         /\ Distinct(t) => Distinct(s)
         /\ ByPriority(t) => ByPriority(s)
         /\ \A r1, r2 \in QueueOf(s) : Distinct(t) /\ Before(t, r1, r2) => Before(s, r1, r2)
         /\ \A r1, r2 : Before(s, r1, r2) => Before(t, r1, r2)
<1>1. PICK e : Picks(e, s, t)
  BY DEF Thins
<1>2. DOMAIN s = 1..Len(s) /\ DOMAIN t = 1..Len(t) /\ Len(s) \in Nat /\ Len(t) \in Nat
  OBVIOUS
<1>3. \A i \in 1..Len(s) : e[i] \in 1..Len(t) /\ s[i] = t[e[i]]
  BY <1>1 DEF Picks
<1>4. \A i, j \in 1..Len(s) : e[i] = e[j] => i = j
  <2> SUFFICES ASSUME NEW i \in 1..Len(s), NEW j \in 1..Len(s), e[i] = e[j], i # j
               PROVE FALSE
    OBVIOUS
  <2>1. i < j \/ j < i
    BY <1>2
  <2>2. e[i] < e[j] \/ e[j] < e[i]
    BY <1>1, <2>1 DEF Picks
  <2> QED
    BY <1>2, <1>3, <2>2
<1>5. QueueOf(s) \subseteq QueueOf(t)
  BY <1>2, <1>3 DEF QueueOf
<1>6. ASSUME Distinct(t) PROVE Distinct(s)
  BY <1>2, <1>3, <1>4, <1>6 DEF Distinct
<1>7. ASSUME ByPriority(t) PROVE ByPriority(s)
  <2> SUFFICES ASSUME NEW i \in 1..Len(s), NEW j \in 1..Len(s), i < j
               PROVE  Priority[ModelOf[s[i]]] >= Priority[ModelOf[s[j]]]
    BY <1>2 DEF ByPriority
  <2>1. e[i] < e[j]
    BY <1>1 DEF Picks
  <2>2. Priority[ModelOf[t[e[i]]]] >= Priority[ModelOf[t[e[j]]]]
    BY <1>2, <1>3, <1>7, <2>1 DEF ByPriority
  <2> QED
    BY <1>3, <2>2
<1>8. ASSUME NEW r1 \in QueueOf(s), NEW r2 \in QueueOf(s), Distinct(t), Before(t, r1, r2)
      PROVE  Before(s, r1, r2)
  <2>1. PICK i \in 1..Len(s), j \in 1..Len(s) : s[i] = r1 /\ s[j] = r2
    BY <1>2 DEF QueueOf
  <2>2. PICK k \in 1..Len(t), l \in 1..Len(t) : k < l /\ t[k] = r1 /\ t[l] = r2
    BY <1>2, <1>8 DEF Before
  <2>3. e[i] = k /\ e[j] = l
    BY <1>2, <1>3, <1>8, <2>1, <2>2 DEF Distinct
  <2>4. ~(j < i) /\ i # j
    <3>1. j < i => e[j] < e[i]
      BY <1>1 DEF Picks
    <3> QED
      BY <2>2, <2>3, <3>1
  <2>5. i < j
    BY <1>2, <2>4
  <2> QED
    BY <1>2, <2>1, <2>5 DEF Before
<1>9. ASSUME NEW r1, NEW r2, Before(s, r1, r2) PROVE Before(t, r1, r2)
  <2>1. PICK i \in 1..Len(s), j \in 1..Len(s) : i < j /\ s[i] = r1 /\ s[j] = r2
    BY <1>2, <1>9 DEF Before
  <2>2. e[i] < e[j] /\ e[i] \in 1..Len(t) /\ e[j] \in 1..Len(t) /\ t[e[i]] = r1 /\ t[e[j]] = r2
    BY <1>1, <2>1 DEF Picks
  <2> QED
    BY <1>2, <2>2 DEF Before
<1> QED
  BY <1>5, <1>6, <1>7, <1>8, <1>9

-----------------------------------------------------------------------------
\* Putting one request into a queue.
Inserted(q, r, i) == SubSeq(q, 1, i - 1) \o <<r>> \o SubSeq(q, i, Len(q))

LEMMA InsertedIs ==
  ASSUME NEW q \in Seq(Requests), NEW r \in Requests, NEW i \in 1..Len(q) + 1
  PROVE  /\ Inserted(q, r, i) \in Seq(Requests) /\ Len(Inserted(q, r, i)) = Len(q) + 1
         /\ \A j \in 1..Len(q) + 1 :
              Inserted(q, r, i)[j] = IF j < i THEN q[j] ELSE IF j = i THEN r ELSE q[j - 1]
<1> DEFINE front == SubSeq(q, 1, i - 1)
           back  == SubSeq(q, i, Len(q))
           mid   == front \o <<r>>
<1>0. Len(q) \in Nat
  OBVIOUS
<1>1. /\ front \in Seq(Requests) /\ Len(front) = i - 1
      /\ \A j \in 1..i - 1 : front[j] = q[j]
  BY <1>0, SubSeqProperties
<1>2. /\ back \in Seq(Requests) /\ Len(back) = Len(q) + 1 - i
      /\ \A j \in 1..Len(q) + 1 - i : back[j] = q[i + j - 1]
  BY <1>0, SubSeqProperties
<1>3. <<r>> \in Seq(Requests) /\ Len(<<r>>) = 1 /\ <<r>>[1] = r
  OBVIOUS
<1> HIDE DEF front, back
<1>4. /\ mid \in Seq(Requests) /\ Len(mid) = i
      /\ \A j \in 1..i - 1 : mid[j] = q[j]
      /\ mid[i] = r
  BY <1>1, <1>3, ConcatProperties
<1> HIDE DEF mid
<1>5. /\ mid \o back \in Seq(Requests) /\ Len(mid \o back) = Len(q) + 1
      /\ \A j \in 1..i : (mid \o back)[j] = mid[j]
      /\ \A j \in i + 1..Len(q) + 1 : (mid \o back)[j] = back[j - i]
  BY <1>0, <1>2, <1>4, ConcatProperties
<1>6. Inserted(q, r, i) = mid \o back
  BY DEF Inserted, mid, front, back
<1>7. ASSUME NEW j \in i + 1..Len(q) + 1 PROVE back[j - i] = q[j - 1]
  <2>1. j - i \in 1..Len(q) + 1 - i /\ i + (j - i) - 1 = j - 1
    BY <1>0
  <2> QED
    BY <1>2, <2>1
<1> QED
  BY <1>0, <1>4, <1>5, <1>6, <1>7

\* There is a place behind all of a higher or equal priority, and the request is
\* put there.
LEMMA EnqueueIs ==
  ASSUME NEW q \in Seq(Requests), NEW r \in Requests
  PROVE  \E i \in 1..Len(q) + 1 :
           /\ Enqueue(q, r) = Inserted(q, r, i)
           /\ \A j \in 1..i - 1 : Priority[ModelOf[q[j]]] >= Priority[ModelOf[r]]
           /\ i <= Len(q) => Priority[ModelOf[q[i]]] < Priority[ModelOf[r]]
<1> DEFINE P(x) == Priority[ModelOf[x]]
           Place(i) == /\ \A j \in 1..i - 1 : P(q[j]) >= P(r)
                       /\ i <= Len(q) => P(q[i]) < P(r)
           T == {i \in 1..Len(q) + 1 : i <= Len(q) => P(q[i]) < P(r)}
<1>0. Len(q) \in Nat /\ \A j \in 1..Len(q) : q[j] \in Requests
  OBVIOUS
<1>1. \A x \in Requests : P(x) \in Nat
  BY SchedulerAssumption DEF SchedulerAssumption
<1> HIDE DEF P
<1>2. T \in SUBSET Nat /\ Len(q) + 1 \in T
  BY <1>0
<1>3. PICK i \in T : \A y \in T : i <= y
  BY <1>2, Least
<1>4. ASSUME NEW j \in 1..i - 1 PROVE P(q[j]) >= P(r)
  <2>1. j \notin T /\ j \in 1..Len(q)
    BY <1>0, <1>3
  <2> QED
    BY <1>0, <1>1, <2>1
<1>5. \E k \in 1..Len(q) + 1 : Place(k)
  BY <1>3, <1>4
<1>6. EnqueueAt(q, r) = CHOOSE k \in 1..Len(q) + 1 : Place(k)
  BY DEF EnqueueAt, P
<1>7. EnqueueAt(q, r) \in 1..Len(q) + 1 /\ Place(EnqueueAt(q, r))
  BY <1>5, <1>6
<1>8. Enqueue(q, r) = Inserted(q, r, EnqueueAt(q, r))
  BY DEF Enqueue, Inserted
<1> QED
  BY <1>7, <1>8 DEF P

\* What a newcomer changes: it is added, the others keep their order, and it
\* goes behind its equals.
LEMMA EnqueueKeeps ==
  ASSUME NEW q \in Seq(Requests), NEW r \in Requests
  PROVE  /\ Enqueue(q, r) \in Seq(Requests)
         /\ QueueOf(Enqueue(q, r)) = QueueOf(q) \cup {r}
         /\ Distinct(q) /\ r \notin QueueOf(q) => Distinct(Enqueue(q, r))
         /\ ByPriority(q) => ByPriority(Enqueue(q, r))
         /\ \A r1, r2 : Before(q, r1, r2) => Before(Enqueue(q, r), r1, r2)
         /\ ByPriority(q) => \A r1 \in QueueOf(q) :
              Priority[ModelOf[r1]] = Priority[ModelOf[r]] => Before(Enqueue(q, r), r1, r)
<1> DEFINE P(x) == Priority[ModelOf[x]]
           n == Len(q)
           e == Enqueue(q, r)
<1>0. PICK i \in 1..n + 1 :
        /\ e = Inserted(q, r, i)
        /\ \A j \in 1..i - 1 : P(q[j]) >= P(r)
        /\ i <= n => P(q[i]) < P(r)
  BY EnqueueIs
<1>1. n \in Nat /\ DOMAIN q = 1..n /\ \A j \in 1..n : q[j] \in Requests
  OBVIOUS
<1>2. \A x \in Requests : P(x) \in Nat
  BY SchedulerAssumption DEF SchedulerAssumption
<1>3. /\ e \in Seq(Requests) /\ DOMAIN e = 1..n + 1
      /\ \A j \in 1..n + 1 : e[j] = IF j < i THEN q[j] ELSE IF j = i THEN r ELSE q[j - 1]
  <2>1. /\ Inserted(q, r, i) \in Seq(Requests) /\ Len(Inserted(q, r, i)) = n + 1
        /\ \A j \in 1..n + 1 :
             Inserted(q, r, i)[j] = IF j < i THEN q[j] ELSE IF j = i THEN r ELSE q[j - 1]
    BY ZenonT(40), InsertedIs
  <2> HIDE DEF P, n, e
  <2> QED
    BY <1>0, <2>1
<1> HIDE DEF P, n, e
<1> DEFINE up(j) == IF j < i THEN j ELSE j + 1
<1>4. \A j \in 1..n : up(j) \in 1..n + 1 /\ up(j) # i /\ e[up(j)] = q[j]
  BY <1>1, <1>3
<1>5. \A j \in 1..n + 1 : j # i => \E k \in 1..n : up(k) = j
  <2> SUFFICES ASSUME NEW j \in 1..n + 1, j # i PROVE \E k \in 1..n : up(k) = j
    OBVIOUS
  <2>1. CASE j < i
    <3>1. j \in 1..n /\ up(j) = j
      BY <1>1, <2>1
    <3> QED
      BY <3>1
  <2>2. CASE j > i
    <3>1. j - 1 \in 1..n /\ up(j - 1) = j
      BY <1>1, <2>2
    <3> QED
      BY <3>1
  <2> QED
    BY <2>1, <2>2
<1>6. \A j, k \in 1..n : j < k => up(j) < up(k)
  BY <1>1
<1>7. \A j, k \in 1..n : up(j) < up(k) => j < k
  BY <1>1
<1>8. e[i] = r /\ i \in 1..n + 1
  BY <1>1, <1>3
<1>9. \A j \in 1..n : (up(j) < i <=> j < i) /\ (i < up(j) <=> i <= j)
  BY <1>1
<1> HIDE DEF up
<1>10. QueueOf(e) = QueueOf(q) \cup {r}
  <2>0. QueueOf(e) = {e[j] : j \in 1..n + 1} /\ QueueOf(q) = {q[j] : j \in 1..n}
    BY <1>1, <1>3 DEF QueueOf
  <2>1. ASSUME NEW j \in 1..n + 1 PROVE e[j] \in QueueOf(q) \cup {r}
    BY <1>4, <1>5, <1>8, <2>0
  <2>2. ASSUME NEW j \in 1..n PROVE q[j] \in QueueOf(e)
    BY <1>4, <2>0
  <2>3. r \in QueueOf(e)
    BY <1>8, <2>0
  <2> QED
    BY <2>0, <2>1, <2>2, <2>3
<1>11. ASSUME Distinct(q), r \notin QueueOf(q) PROVE Distinct(e)
  <2> SUFFICES ASSUME NEW j \in 1..n + 1, NEW k \in 1..n + 1, e[j] = e[k] PROVE j = k
    BY <1>3 DEF Distinct
  <2>1. \A l \in 1..n : q[l] # r
    BY <1>1, <1>11 DEF QueueOf
  <2>2. CASE j = i \/ k = i
    BY <1>4, <1>5, <1>8, <2>1, <2>2
  <2>3. CASE j # i /\ k # i
    <3>1. PICK a \in 1..n, b \in 1..n : up(a) = j /\ up(b) = k
      BY <1>5, <2>3
    <3>2. q[a] = q[b]
      BY <1>4, <3>1
    <3> QED
      BY <1>1, <1>11, <3>1, <3>2 DEF Distinct
  <2> QED
    BY <2>2, <2>3
<1>12. ASSUME ByPriority(q) PROVE ByPriority(e)
  <2>0. \A j, k \in 1..n : j < k => P(q[j]) >= P(q[k])
    BY <1>1, <1>12 DEF ByPriority, P
  <2>1. \A k \in 1..n : i <= k => P(q[k]) < P(r)
    <3> SUFFICES ASSUME NEW k \in 1..n, i <= k PROVE P(q[k]) < P(r)
      OBVIOUS
    <3>1. i \in 1..n /\ P(q[i]) < P(r)
      BY <1>0, <1>1
    <3>2. i = k \/ P(q[i]) >= P(q[k])
      BY <2>0, <3>1
    <3>3. P(q[i]) \in Nat /\ P(q[k]) \in Nat /\ P(r) \in Nat
      BY <1>1, <1>2, <3>1
    <3> QED
      BY <3>1, <3>2, <3>3
  <2> SUFFICES ASSUME NEW j \in 1..n + 1, NEW k \in 1..n + 1, j < k PROVE P(e[j]) >= P(e[k])
    BY <1>3 DEF ByPriority, P
  <2>2. CASE j = i
    <3>1. PICK b \in 1..n : up(b) = k
      BY <1>5, <2>2
    <3>2. P(q[b]) < P(r) /\ P(q[b]) \in Nat /\ P(r) \in Nat
      BY <1>1, <1>2, <1>9, <2>1, <2>2, <3>1
    <3> QED
      BY <1>4, <1>8, <2>2, <3>1, <3>2
  <2>3. CASE k = i
    <3>1. PICK a \in 1..n : up(a) = j
      BY <1>5, <2>3
    <3>2. a \in 1..i - 1
      BY <1>1, <1>9, <2>3, <3>1
    <3> QED
      BY <1>0, <1>4, <1>8, <2>3, <3>1, <3>2
  <2>4. CASE j # i /\ k # i
    <3>1. PICK a \in 1..n, b \in 1..n : up(a) = j /\ up(b) = k
      BY <1>5, <2>4
    <3>2. a < b
      BY <1>7, <3>1
    <3> QED
      BY <1>4, <2>0, <3>1, <3>2
  <2> QED
    BY <2>2, <2>3, <2>4
<1>13. ASSUME NEW r1, NEW r2, Before(q, r1, r2) PROVE Before(e, r1, r2)
  <2>1. PICK j \in 1..n, k \in 1..n : j < k /\ q[j] = r1 /\ q[k] = r2
    BY <1>1, <1>13 DEF Before
  <2>2. /\ up(j) \in 1..n + 1 /\ up(k) \in 1..n + 1 /\ up(j) < up(k)
        /\ e[up(j)] = r1 /\ e[up(k)] = r2
    BY <1>4, <1>6, <2>1
  <2> QED
    BY <1>3, <2>2 DEF Before
<1>14. ASSUME ByPriority(q), NEW r1 \in QueueOf(q), P(r1) = P(r) PROVE Before(e, r1, r)
  <2>1. PICK k \in 1..n : q[k] = r1
    BY <1>1 DEF QueueOf
  <2>2. ~(i <= k)
    <3> SUFFICES ASSUME i <= k PROVE FALSE
      OBVIOUS
    <3>1. i \in 1..n /\ P(q[i]) < P(r)
      BY <1>0, <1>1
    <3>2. i = k \/ P(q[i]) >= P(q[k])
      BY <1>1, <1>14, <3>1 DEF ByPriority, P
    <3>3. P(q[i]) \in Nat /\ P(q[k]) \in Nat /\ P(r) \in Nat
      BY <1>1, <1>2, <3>1
    <3> QED
      BY <1>14, <2>1, <3>1, <3>2, <3>3
  <2>3. up(k) \in 1..n + 1 /\ up(k) < i /\ e[up(k)] = r1
    BY <1>1, <1>4, <1>9, <2>1, <2>2
  <2> QED
    BY <1>3, <1>8, <2>3 DEF Before
<1> QED
  BY <1>3, <1>10, <1>11, <1>12, <1>13, <1>14 DEF P, e

-----------------------------------------------------------------------------
\* Two queues one behind the other.
LEMMA QueueOfConcat ==
  ASSUME NEW q \in Seq(Requests), NEW p \in Seq(Requests)
  PROVE  /\ q \o p \in Seq(Requests)
         /\ QueueOf(q \o p) = QueueOf(q) \cup QueueOf(p)
         /\ Distinct(q \o p) => QueueOf(q) \cap QueueOf(p) = {}
<1> DEFINE c == q \o p
<1>1. /\ c \in Seq(Requests) /\ DOMAIN c = 1..Len(q) + Len(p)
      /\ \A i \in 1..Len(q) : c[i] = q[i]
      /\ \A i \in 1..Len(p) : c[Len(q) + i] = p[i]
  OBVIOUS
<1>2. /\ Len(q) \in Nat /\ Len(p) \in Nat
      /\ QueueOf(c) = {c[i] : i \in 1..Len(q) + Len(p)}
      /\ QueueOf(q) = {q[i] : i \in 1..Len(q)} /\ QueueOf(p) = {p[i] : i \in 1..Len(p)}
  BY <1>1 DEF QueueOf
<1> HIDE DEF c
<1>3. ASSUME NEW i \in 1..Len(q) + Len(p) PROVE c[i] \in QueueOf(q) \cup QueueOf(p)
  <2>1. CASE i \in 1..Len(q)
    BY <1>1, <1>2, <2>1
  <2>2. CASE i \notin 1..Len(q)
    <3>1. i - Len(q) \in 1..Len(p) /\ Len(q) + (i - Len(q)) = i
      BY <1>2, <2>2
    <3> QED
      BY <1>1, <1>2, <3>1
  <2> QED
    BY <2>1, <2>2
<1>4. ASSUME NEW i \in 1..Len(q) PROVE q[i] \in QueueOf(c)
  <2>1. i \in 1..Len(q) + Len(p) /\ c[i] = q[i]
    BY <1>1, <1>2
  <2> QED
    BY <1>2, <2>1
<1>5. ASSUME NEW i \in 1..Len(p) PROVE p[i] \in QueueOf(c)
  <2>1. Len(q) + i \in 1..Len(q) + Len(p) /\ c[Len(q) + i] = p[i]
    BY <1>1, <1>2
  <2> QED
    BY <1>2, <2>1
<1>6. ASSUME Distinct(c) PROVE QueueOf(q) \cap QueueOf(p) = {}
  <2> SUFFICES ASSUME NEW i \in 1..Len(q), NEW j \in 1..Len(p), q[i] = p[j] PROVE FALSE
    BY <1>2
  <2>1. i \in DOMAIN c /\ Len(q) + j \in DOMAIN c /\ c[i] = c[Len(q) + j] /\ i # Len(q) + j
    BY <1>1, <1>2
  <2> QED
    BY <1>6, <2>1 DEF Distinct
<1>7. QueueOf(c) \subseteq QueueOf(q) \cup QueueOf(p)
  BY <1>2, <1>3
<1>8. QueueOf(q) \subseteq QueueOf(c) /\ QueueOf(p) \subseteq QueueOf(c)
  BY <1>2, <1>4, <1>5
<1> QED
  BY <1>1, <1>6, <1>7, <1>8 DEF c

\* Taking the head of the second queue: it joins the first, or it goes.
LEMMA HeadMoves ==
  ASSUME NEW q \in Seq(Requests), NEW p \in Seq(Requests), p # <<>>
  PROVE  /\ Head(p) \in Requests /\ Tail(p) \in Seq(Requests)
         /\ Append(q, Head(p)) \in Seq(Requests)
         /\ Append(q, Head(p)) \o Tail(p) = q \o p
         /\ Thins(q \o Tail(p), q \o p)
         /\ QueueOf(q \o p) = QueueOf(q \o Tail(p)) \cup {Head(p)}
         /\ Distinct(q \o p) => Head(p) \notin QueueOf(q \o Tail(p))
<1> DEFINE c == q \o p
           d == q \o Tail(p)
           n == Len(q)
           k == Len(p)
           e == [i \in 1..n + k - 1 |-> IF i <= n THEN i ELSE i + 1]
<1>1. /\ Head(p) = p[1] /\ p[1] \in Requests /\ Tail(p) \in Seq(Requests) /\ Len(Tail(p)) = k - 1
      /\ \A i \in 1..k - 1 : Tail(p)[i] = p[i + 1]
      /\ n \in Nat /\ k \in Nat \ {0}
  OBVIOUS
<1>2. /\ c \in Seq(Requests) /\ DOMAIN c = 1..n + k /\ Len(c) = n + k
      /\ \A i \in 1..n + k : c[i] = IF i <= n THEN q[i] ELSE p[i - n]
  OBVIOUS
<1>3. /\ d \in Seq(Requests) /\ Len(d) = n + k - 1 /\ DOMAIN d = 1..n + k - 1
      /\ \A i \in 1..n + k - 1 : d[i] = IF i <= n THEN q[i] ELSE Tail(p)[i - n]
  BY <1>1
<1>4. /\ Append(q, Head(p)) \in Seq(Requests)
      /\ Append(q, Head(p)) \o Tail(p) = q \o p
  BY <1>1
<1> HIDE DEF c, d, n, k
<1>5. \A i \in 1..n + k - 1 : e[i] \in 1..n + k /\ e[i] # n + 1 /\ d[i] = c[e[i]]
  <2> SUFFICES ASSUME NEW i \in 1..n + k - 1
               PROVE  e[i] \in 1..n + k /\ e[i] # n + 1 /\ d[i] = c[e[i]]
    OBVIOUS
  <2>1. CASE i <= n
    BY <1>1, <1>2, <1>3, <2>1
  <2>2. CASE i > n
    <3>1. i - n \in 1..k - 1 /\ (i + 1) - n = (i - n) + 1 /\ i + 1 \in 1..n + k
      BY <1>1, <2>2
    <3>2. d[i] = p[(i - n) + 1]
      BY <1>1, <1>3, <2>2, <3>1
    <3>3. c[i + 1] = p[(i + 1) - n]
      BY <1>1, <1>2, <2>2, <3>1
    <3>4. e[i] = i + 1
      BY <1>1, <2>2
    <3> QED
      BY <1>1, <2>2, <3>1, <3>2, <3>3, <3>4
  <2> QED
    BY <1>1, <2>1, <2>2
<1>6. Picks(e, d, c)
  <2>1. e \in [1..Len(d) -> 1..Len(c)]
    <3>1. \A i \in 1..n + k - 1 : e[i] \in 1..n + k
      BY <1>5
    <3> QED
      BY <1>2, <1>3, <3>1
  <2>2. \A i, j \in 1..Len(d) : i < j => e[i] < e[j]
    BY <1>1, <1>3
  <2> QED
    BY <1>3, <1>5, <2>1, <2>2 DEF Picks
<1>7. n + 1 \in 1..n + k /\ c[n + 1] = Head(p)
  BY <1>1, <1>2
<1>8. \A i \in 1..n + k : i # n + 1 => \E j \in 1..n + k - 1 : e[j] = i
  <2> SUFFICES ASSUME NEW i \in 1..n + k, i # n + 1 PROVE \E j \in 1..n + k - 1 : e[j] = i
    OBVIOUS
  <2>1. CASE i <= n
    <3>1. i \in 1..n + k - 1 /\ e[i] = i
      BY <1>1, <2>1
    <3> QED
      BY <3>1
  <2>2. CASE i > n
    <3>1. i - 1 \in 1..n + k - 1 /\ e[i - 1] = i
      BY <1>1, <2>2
    <3> QED
      BY <3>1
  <2> QED
    BY <1>1, <2>1, <2>2
<1> HIDE DEF e
<1>9. QueueOf(c) = {c[i] : i \in 1..n + k} /\ QueueOf(d) = {d[i] : i \in 1..n + k - 1}
  BY <1>2, <1>3 DEF QueueOf
<1>10. QueueOf(c) = QueueOf(d) \cup {Head(p)}
  <2>1. ASSUME NEW i \in 1..n + k PROVE c[i] \in QueueOf(d) \cup {Head(p)}
    BY <1>5, <1>7, <1>8, <1>9
  <2>2. ASSUME NEW i \in 1..n + k - 1 PROVE d[i] \in QueueOf(c)
    BY <1>5, <1>9
  <2> QED
    BY <1>7, <1>9, <2>1, <2>2
<1>11. ASSUME Distinct(c) PROVE Head(p) \notin QueueOf(d)
  <2> SUFFICES ASSUME NEW i \in 1..n + k - 1, d[i] = Head(p) PROVE FALSE
    BY <1>9
  <2> QED
    BY <1>2, <1>5, <1>7, <1>11 DEF Distinct
<1>12. Thins(d, c)
  BY <1>6 DEF Thins
<1> QED
  BY <1>1, <1>4, <1>10, <1>11, <1>12 DEF c, d

-----------------------------------------------------------------------------
(***************************************************************************)
(* The invariants of the run loop.                                         *)
(***************************************************************************)

\* The part of TypeOK that SwapShape, ServeShape and ProcShape leave.
QueueShape ==
  /\ queued \in Seq(Requests) /\ pending \in Seq(Requests)
  /\ loop \in Loops /\ task \in Tasks /\ toAnswer \subseteq Requests
  /\ targets \subseteq Models /\ stopSet \subseteq Models
  /\ unloads \in 0..MaxUnloads /\ down \in BOOLEAN /\ reserved \in [Models -> Int]

\* Where the loop is says which of its queues may hold something.
LoopAt ==
  /\ pending # <<>> => loop = "drain"
  /\ toAnswer # {} => loop = "answer"
  /\ down <=> task = "shutdown"
  /\ down => loop \in {"answer", "stop", "done"}

\* Waiters belong to a swap in progress.
WaitersActive == \A m \in Models : waiters[m] # {} => m \in active

Waiting == UNION {waiters[m] : m \in Models}
Held    == QueueOf(Line) \cup toAnswer \cup Waiting

\* No request is in two places.
Apart ==
  ~down => /\ toAnswer \cap Waiting = {} /\ QueueOf(Line) \cap toAnswer = {}
           /\ QueueOf(Line) \cap Waiting = {}

\* What is held is a request whose client waits, or has left without the loop
\* knowing; and who waits is held.
HeldWaits ==
  ~down => /\ \A r \in Held : phase[r] \in {"waiting", "leaving"}
           /\ \A r \in Requests : phase[r] = "waiting" => r \in Held

\* The slots that the loop still has to give back: after a shutdown only those
\* of the requests it is answering.
Served == {r \in Requests : phase[r] = "serving"}
Owed   == IF down THEN toAnswer ELSE Held \cup Served

OwedBy(m) == {r \in Owed : ModelOf[r] = m}

Accounts ==
  \A m \in Models :
    /\ Cardinality(OwedBy(m)) <= reserved[m]
    /\ ~down => reserved[m] = Cardinality(OwedBy(m)) /\ reserved[m] <= Limit[m]

\* While the loop goes through the queue, too, what it leaves queued has a waker.
HasWaker ==
  loop \in {"select", "drain"} /\ queued # <<>> =>
    active # {} \/ \E m \in Models : inFlight[m] > 0

-----------------------------------------------------------------------------
\* What the run loop holds changes in its own steps and in the clients' only.
heldVars == <<active, waiters, reserved, inFlight, queued, pending, loop, task, targets,
              toAnswer, unloads, down, phase>>

LEMMA LoopSteps ==
  ASSUME [Next]_vars
  PROVE  \/ UNCHANGED heldVars /\ stopSet' \subseteq stopSet
         \/ \E r \in Requests :
              \/ Reject(r) \/ OnDepartedRequest(r) \/ OnRequest(r) \/ Disconnect(r) \/ SeeShutdown(r)
              \/ OnCancel(r) \/ OnSwapDone(r) \/ OnServeDone(r) \/ Answer(r) \/ Drain(r)
         \/ \E ids \in UnloadTargets : OnUnload(ids)
         \/ HandleShutdown \/ Answered \/ UnloadStopped \/ ShutdownStopped
<1> DEFINE Quiet == UNCHANGED heldVars /\ stopSet' \subseteq stopSet
<1>1. ASSUME NEW m \in Models, NEW c \in Requests \cup {Router}, AcceptStop(c, m) PROVE Quiet
  BY <1>1 DEF AcceptStop, Returned, ProcFrame, fifoVars, heldVars
<1>2. ASSUME NEW m \in Models, UnloadIdle(m) \/ Crash(m) \/ StopDone(m) \/ StartDone(m) PROVE Quiet
  BY <1>2 DEF UnloadIdle, Crash, StopDone, StartDone, Returned, ProcFrame, fifoVars, heldVars
<1>3. ASSUME NEW r \in Requests, EnsureReady(r) \/ SwapSeesShutdown(r) PROVE Quiet
  BY <1>3 DEF EnsureReady, SwapSeesShutdown, ProcFrame, fifoVars, heldVars
<1>4. ASSUME NEW r \in Requests, NEW m \in Models, StopSeesShutdown(r, m) PROVE Quiet
  BY <1>4 DEF StopSeesShutdown, ProcFrame, fifoVars, heldVars
<1>5. ASSUME NEW r \in Requests, OnSwapDoneUnknown(r) PROVE Quiet
  BY <1>5 DEF OnSwapDoneUnknown, fifoVars, loopVars, heldVars
<1>6. ASSUME Terminated \/ UNCHANGED vars PROVE Quiet
  BY <1>6 DEF Terminated, vars, fifoVars, loopVars, heldVars
<1> HIDE DEF Quiet
<1>7. ASSUME ~Quiet
      PROVE  \/ \E r \in Requests :
                  \/ Reject(r) \/ OnDepartedRequest(r) \/ OnRequest(r) \/ Disconnect(r) \/ SeeShutdown(r)
                  \/ OnCancel(r) \/ OnSwapDone(r) \/ OnServeDone(r) \/ Answer(r) \/ Drain(r)
             \/ \E ids \in UnloadTargets : OnUnload(ids)
             \/ HandleShutdown \/ Answered \/ UnloadStopped \/ ShutdownStopped
  <2>1. CASE RunLoop
    BY <1>5, <1>7, <2>1 DEF RunLoop
  <2>2. CASE Environment
    BY <1>2, <1>7, <2>2 DEF Environment
  <2>3. CASE Processes
    BY <1>1, <1>2, <1>3, <1>4, <1>7, <2>3 DEF Processes
  <2>4. CASE Terminated \/ UNCHANGED vars
    BY <1>7, <2>4, <1>6
  <2> QED
    BY <2>1, <2>2, <2>3, <2>4 DEF Next
<1> QED
  BY <1>7 DEF Quiet

-----------------------------------------------------------------------------
\* Taking the whole queue to go through it leaves the line as it is.
LEMMA BeginDrainLine ==
  ASSUME QueueShape, pending = <<>>, BeginDrain
  PROVE  /\ Line' = Line /\ Line = queued
         /\ queued' \in Seq(Requests) /\ pending' \in Seq(Requests)
<1>1. Line' = <<>> \o queued
  BY DEF Line, BeginDrain
<1>2. Line = queued \o <<>>
  BY DEF Line
<1>3. queued \in Seq(Requests)
  BY DEF QueueShape
<1>4. <<>> \o queued = queued /\ queued \o <<>> = queued
  BY <1>3, ConcatEmptySeq
<1> QED
  BY <1>1, <1>2, <1>3, <1>4 DEF BeginDrain, QueueShape

\* At rest the line is the queue.
LEMMA LineAtRest ==
  ASSUME QueueShape, LoopAt, loop # "drain"
  PROVE  pending = <<>> /\ Line = queued
<1>1. pending = <<>> /\ queued \in Seq(Requests)
  BY DEF LoopAt, QueueShape
<1> QED
  BY <1>1, ConcatEmptySeq DEF Line

\* What each event does to the line, and to the requests in it.
LEMMA LineOnRequest ==
  ASSUME QueueShape, LoopAt, NEW r \in Requests, OnRequest(r)
  PROVE  /\ queued' \in Seq(Requests) /\ pending' = <<>>
         /\ queued' = queued => Line' = Line
         /\ queued' = Enqueue(queued, r) => Line' = Enqueue(Line, r)
<1>1. loop = "select" /\ pending' = pending /\ (queued' = queued \/ queued' = Enqueue(queued, r))
  BY DEF OnRequest, loopVars
<1>2. pending = <<>> /\ Line = queued /\ queued \in Seq(Requests)
  BY <1>1, LineAtRest DEF QueueShape
<1>3. Enqueue(queued, r) \in Seq(Requests)
  BY <1>2, EnqueueKeeps
<1>4. queued' \in Seq(Requests) /\ Line' = queued'
  <2>1. queued' \in Seq(Requests)
    BY <1>1, <1>2, <1>3
  <2>2. queued' \o <<>> = queued'
    BY <2>1, ConcatEmptySeq
  <2> QED
    BY <1>1, <1>2, <2>1, <2>2 DEF Line
<1> QED
  BY <1>1, <1>2, <1>4

LEMMA LineDrain ==
  ASSUME QueueShape, NEW r \in Requests, Drain(r)
  PROVE  /\ queued' \in Seq(Requests) /\ pending' \in Seq(Requests)
         /\ r \in QueueOf(Line)
         /\ \/ Blocked(r) /\ Line' = Line /\ UNCHANGED <<phase, inFlight, reserved>>
            \/ /\ \/ FastPath(r) /\ GrantHandler(r)
                  \/ (Join(r) \/ StartSwap(r)) /\ UNCHANGED <<phase, inFlight, reserved>>
               /\ queued' = queued /\ Thins(Line', Line)
               /\ Distinct(Line) => QueueOf(Line') = QueueOf(Line) \ {r}
<1>1. /\ queued \in Seq(Requests) /\ pending \in Seq(Requests) /\ pending # <<>>
      /\ r = Head(pending) /\ pending' = Tail(pending)
  BY DEF QueueShape, Drain
<1>2. /\ Tail(pending) \in Seq(Requests) /\ Append(queued, r) \in Seq(Requests)
      /\ Append(queued, r) \o Tail(pending) = Line
      /\ Thins(queued \o Tail(pending), Line)
      /\ QueueOf(Line) = QueueOf(queued \o Tail(pending)) \cup {r}
      /\ Distinct(Line) => r \notin QueueOf(queued \o Tail(pending))
  BY <1>1, HeadMoves DEF Line
<1>3. CASE Blocked(r) /\ queued' = Append(queued, r) /\ UNCHANGED <<phase, inFlight, reserved>>
  BY <1>1, <1>2, <1>3 DEF Line
<1>4. CASE queued' = queued
  <2>1. Line' = queued \o Tail(pending)
    BY <1>1, <1>4 DEF Line
  <2>2. \/ FastPath(r) /\ GrantHandler(r)
        \/ (Join(r) \/ StartSwap(r)) /\ UNCHANGED <<phase, inFlight, reserved>>
        \/ Blocked(r) /\ queued' = Append(queued, r) /\ UNCHANGED <<phase, inFlight, reserved>>
    BY DEF Drain
  <2> QED
    BY <1>1, <1>2, <1>3, <1>4, <2>1, <2>2
<1> QED
  BY <1>3, <1>4 DEF Drain

LEMMA LineKept ==
  ASSUME QueueShape, LoopAt, loop = "select", NEW gone, queued' = Kept(queued, gone),
         pending' = pending
  PROVE  /\ queued' \in Seq(Requests) /\ pending' = <<>> /\ Line' = queued' /\ Line = queued
         /\ Thins(Line', Line) /\ QueueOf(Line') = QueueOf(Line) \ gone
<1>1. pending = <<>> /\ Line = queued /\ queued \in Seq(Requests)
  BY LineAtRest DEF QueueShape
<1>2. /\ Kept(queued, gone) \in Seq(Requests) /\ Thins(Kept(queued, gone), queued)
      /\ QueueOf(Kept(queued, gone)) = QueueOf(queued) \ gone
  BY <1>1, KeptThins
<1>3. Line' = queued'
  BY <1>1, <1>2, ConcatEmptySeq DEF Line
<1> QED
  BY <1>1, <1>2, <1>3

-----------------------------------------------------------------------------
\* Every step leaves the line as it is, puts the request that arrives into it,
\* or thins it out.
LEMMA LineMoves ==
  ASSUME QueueShape, LoopAt, [Next]_vars
  PROVE  \/ Line' = Line
         \/ \E r \in Requests : OnRequest(r) /\ Line' = Enqueue(Line, r)
         \/ Thins(Line', Line) /\ Line' \in Seq(Requests)
<1>1. ASSUME UNCHANGED <<queued, pending>> PROVE Line' = Line
  BY <1>1 DEF Line
<1>2. ASSUME NEW r \in Requests,
             \/ Reject(r) \/ OnDepartedRequest(r) \/ Disconnect(r) \/ SeeShutdown(r)
             \/ OnSwapDone(r) \/ Answer(r)
      PROVE Line' = Line
  BY <1>1, <1>2 DEF Reject, OnDepartedRequest, Disconnect, SeeShutdown, OnSwapDone, Answer,
     fifoVars, loopVars
<1>3. ASSUME NEW r \in Requests, OnServeDone(r) PROVE Line' = Line
  <2>1. pending = <<>>
    BY <1>3, LineAtRest DEF OnServeDone
  <2> QED
    BY <1>1, <1>3, <2>1, BeginDrainLine DEF OnServeDone
<1>4. CASE Answered \/ UnloadStopped
  <2>1. pending = <<>>
    BY <1>4, LineAtRest DEF Answered, UnloadStopped
  <2> QED
    BY <1>1, <1>4, <2>1, BeginDrainLine DEF Answered, UnloadStopped
<1>5. ASSUME NEW r \in Requests, OnCancel(r) PROVE Thins(Line', Line) /\ Line' \in Seq(Requests)
  BY <1>5, LineKept DEF OnCancel, loopVars
<1>6. ASSUME NEW ids \in UnloadTargets, OnUnload(ids)
      PROVE  Thins(Line', Line) /\ Line' \in Seq(Requests)
  BY <1>6, LineKept DEF OnUnload
<1>7. ASSUME NEW r \in Requests, Drain(r)
      PROVE  Line' = Line \/ (Thins(Line', Line) /\ Line' \in Seq(Requests))
  <2>1. Line' \in Seq(Requests)
    <3>1. queued' \in Seq(Requests) /\ pending' \in Seq(Requests)
      BY <1>7, LineDrain
    <3> QED
      BY <3>1 DEF Line
  <2> QED
    BY <1>7, <2>1, LineDrain
<1>8. CASE HandleShutdown \/ ShutdownStopped
  BY <1>1, <1>8 DEF HandleShutdown, ShutdownStopped, fifoVars
<1>9. ASSUME NEW r \in Requests, OnRequest(r)
      PROVE Line' = Line \/ (OnRequest(r) /\ Line' = Enqueue(Line, r))
  <2>1. queued' = queued \/ queued' = Enqueue(queued, r)
    BY <1>9 DEF OnRequest
  <2> QED
    BY <1>9, <2>1, LineOnRequest
<1>10. CASE UNCHANGED heldVars
  BY <1>1, <1>10 DEF heldVars
<1> QED
  BY <1>2, <1>3, <1>4, <1>5, <1>6, <1>7, <1>8, <1>9, <1>10, LoopSteps

-----------------------------------------------------------------------------
\* Typing.
LEMMA QueueShapeStep ==
  ASSUME SwapShape, QueueShape, LoopAt, [Next]_vars
  PROVE  QueueShape'
<1> USE DEF Loops, Tasks
<1>0. /\ \A r \in Requests : ModelOf[r] \in Models
      /\ UnloadTargets \subseteq SUBSET Models /\ MaxUnloads \in Nat
  BY SchedulerAssumption DEF SchedulerAssumption
<1>1. CASE UNCHANGED heldVars /\ stopSet' \subseteq stopSet
  BY <1>1 DEF heldVars, QueueShape
<1>2. ASSUME NEW r \in Requests, Reject(r) \/ OnDepartedRequest(r) \/ Disconnect(r) \/ SeeShutdown(r)
      PROVE QueueShape'
  BY <1>2 DEF Reject, OnDepartedRequest, Disconnect, SeeShutdown, fifoVars, loopVars, QueueShape
<1>3. ASSUME NEW r \in Requests, OnRequest(r) PROVE QueueShape'
  <2>1. queued' \in Seq(Requests) /\ pending' \in Seq(Requests)
    <3>1. queued' \in Seq(Requests) /\ pending' = <<>>
      BY <1>3, LineOnRequest
    <3> QED
      BY <3>1
  <2>2. reserved' \in [Models -> Int]
    <3>1. reserved' = [reserved EXCEPT ![ModelOf[r]] = @ + 1]
      BY <1>3 DEF OnRequest
    <3> QED
      BY <1>0, <3>1 DEF QueueShape
  <2>3. UNCHANGED <<loop, task, targets, toAnswer, stopSet, unloads, down>>
    BY <1>3 DEF OnRequest, loopVars
  <2> QED
    BY <2>1, <2>2, <2>3 DEF QueueShape
<1>4. ASSUME NEW r \in Requests, OnCancel(r) PROVE QueueShape'
  <2>1. queued' \in Seq(Requests)
    BY <1>4, LineKept DEF OnCancel, loopVars
  <2> QED
    BY <1>4, <2>1 DEF OnCancel, Release, loopVars, QueueShape
<1>5. ASSUME NEW r \in Requests, OnSwapDone(r) PROVE QueueShape'
  BY <1>0, <1>5 DEF OnSwapDone, QueueShape, SwapShape
<1>6. ASSUME NEW r \in Requests, OnServeDone(r) PROVE QueueShape'
  <2>1. pending = <<>>
    BY <1>6, LineAtRest DEF OnServeDone
  <2>2. queued' \in Seq(Requests) /\ pending' \in Seq(Requests) /\ loop' \in Loops
    BY <1>6, <2>1, BeginDrainLine DEF OnServeDone, BeginDrain, QueueShape
  <2>3. reserved' \in [Models -> Int]
    <3>1. reserved' = [reserved EXCEPT ![ModelOf[r]] = @ - 1]
      BY <1>6 DEF OnServeDone, Release
    <3> QED
      BY <1>0, <3>1 DEF QueueShape
  <2>4. UNCHANGED <<task, targets, toAnswer, stopSet, unloads, down>>
    BY <1>6 DEF OnServeDone
  <2> QED
    BY <2>2, <2>3, <2>4 DEF QueueShape
<1>7. ASSUME NEW r \in Requests, Answer(r) PROVE QueueShape'
  BY <1>7 DEF Answer, GrantHandler, GrantError, Release, QueueShape
<1>8. ASSUME NEW r \in Requests, Drain(r) PROVE QueueShape'
  <2>1. queued' \in Seq(Requests) /\ pending' \in Seq(Requests)
    BY <1>8, LineDrain
  <2>2. reserved' \in [Models -> Int]
    BY <1>8 DEF Drain, GrantHandler, Release, QueueShape
  <2> QED
    BY <1>8, <2>1, <2>2 DEF Drain, QueueShape
<1>9. ASSUME NEW ids \in UnloadTargets, OnUnload(ids) PROVE QueueShape'
  <2>0. QueueOf(queued) \subseteq Requests
    BY DEF QueueOf, QueueShape
  <2>1. queued' \in Seq(Requests)
    BY <1>9, LineKept DEF OnUnload
  <2>2. toAnswer' \subseteq Requests
    <3>1. \A m \in active \cap ids : waiters[m] \subseteq Requests
      BY DEF SwapShape
    <3>2. toAnswer' \subseteq (UNION {waiters[m] : m \in active \cap ids}) \cup QueueOf(queued)
      BY <1>9 DEF OnUnload
    <3> QED
      BY <2>0, <3>1, <3>2
  <2> QED
    BY <1>0, <1>9, <2>1, <2>2 DEF OnUnload, QueueShape
<1>10. CASE HandleShutdown
  <2>0. QueueOf(queued) \subseteq Requests
    BY DEF QueueOf, QueueShape
  <2>1. toAnswer' \subseteq Requests
    <3>1. \A m \in active : waiters[m] \subseteq Requests
      BY DEF SwapShape
    <3>2. toAnswer' = (UNION {waiters[m] : m \in active}) \cup QueueOf(queued)
      BY <1>10 DEF HandleShutdown
    <3> QED
      BY <2>0, <3>1, <3>2
  <2> QED
    BY <1>10, <2>1 DEF HandleShutdown, fifoVars, QueueShape
<1>11. CASE Answered \/ UnloadStopped
  <2>1. pending = <<>>
    BY <1>11, LineAtRest DEF Answered, UnloadStopped
  <2>2. queued' \in Seq(Requests) /\ pending' \in Seq(Requests) /\ loop' \in Loops
    BY <1>11, <2>1, BeginDrainLine DEF Answered, UnloadStopped, BeginDrain, QueueShape
  <2> QED
    BY <1>11, <2>2 DEF Answered, UnloadStopped, QueueShape
<1>12. CASE ShutdownStopped
  BY <1>12 DEF ShutdownStopped, fifoVars, QueueShape
<1> QED
  BY <1>1, <1>2, <1>3, <1>4, <1>5, <1>6, <1>7, <1>8, <1>9, <1>10, <1>11, <1>12, LoopSteps

LEMMA LoopAtStep ==
  ASSUME QueueShape, LoopAt, [Next]_vars
  PROVE  LoopAt'
<1>1. CASE UNCHANGED heldVars
  BY <1>1 DEF heldVars, LoopAt
<1>2. ASSUME NEW r \in Requests,
             \/ Reject(r) \/ OnDepartedRequest(r) \/ Disconnect(r) \/ SeeShutdown(r)
             \/ OnRequest(r) \/ OnCancel(r)
      PROVE LoopAt'
  BY <1>2 DEF Reject, OnDepartedRequest, Disconnect, SeeShutdown, OnRequest, OnCancel,
     loopVars, LoopAt
<1>3. ASSUME NEW r \in Requests, OnSwapDone(r) \/ Answer(r) PROVE LoopAt'
  BY <1>3 DEF OnSwapDone, Answer, LoopAt
<1>4. ASSUME NEW r \in Requests, OnServeDone(r) PROVE LoopAt'
  BY <1>4 DEF OnServeDone, BeginDrain, LoopAt
<1>5. ASSUME NEW r \in Requests, Drain(r) PROVE LoopAt'
  <2>1. pending \in Seq(Requests) /\ pending # <<>> /\ pending' = Tail(pending)
    BY <1>5 DEF Drain, QueueShape
  <2>2. pending' # <<>> => Len(pending) # 1
    BY <2>1
  <2> QED
    BY <1>5, <2>2 DEF Drain, LoopAt
<1>6. ASSUME NEW ids \in UnloadTargets, OnUnload(ids) PROVE LoopAt'
  BY <1>6 DEF OnUnload, LoopAt
<1>7. CASE HandleShutdown \/ ShutdownStopped
  BY <1>7 DEF HandleShutdown, ShutdownStopped, fifoVars, LoopAt
<1>8. CASE Answered \/ UnloadStopped
  BY <1>8 DEF Answered, UnloadStopped, BeginDrain, LoopAt
<1> QED
  BY <1>1, <1>2, <1>3, <1>4, <1>5, <1>6, <1>7, <1>8, LoopSteps

-----------------------------------------------------------------------------
\* A request that joins a swap, or starts one, waits for that swap.
LEMMA TakesIn ==
  ASSUME SwapShape, WaitersActive, NEW r \in Requests, Join(r) \/ StartSwap(r)
  PROVE  WaitersActive' /\ Waiting' = Waiting \cup {r} /\ active \subseteq active' /\ active' # {}
<1> DEFINE m == ModelOf[r]
<1>1. m \in Models
  BY SchedulerAssumption DEF SchedulerAssumption
<1>2. /\ m \in active' /\ active \subseteq active' /\ waiters'[m] = waiters[m] \cup {r}
      /\ \A n \in Models \ {m} : waiters'[n] = waiters[n]
  <2>1. CASE Join(r)
    BY <1>1, <2>1 DEF Join, SwapShape
  <2>2. CASE StartSwap(r)
    <3>1. waiters[m] = {}
      BY <1>1, <2>2 DEF StartSwap, WaitersActive
    <3> QED
      BY <1>1, <2>2, <3>1 DEF StartSwap, SwapShape
  <2> QED
    BY <2>1, <2>2
<1> HIDE DEF m
<1>3. WaitersActive'
  BY <1>1, <1>2 DEF WaitersActive
<1>4. Waiting' = Waiting \cup {r}
  BY <1>1, <1>2 DEF Waiting
<1> QED
  BY <1>2, <1>3, <1>4

LEMMA WaitersActiveStep ==
  ASSUME SwapShape, WaitersActive, [Next]_vars
  PROVE  WaitersActive'
<1>1. CASE UNCHANGED heldVars
  BY <1>1 DEF heldVars, WaitersActive
<1>2. ASSUME NEW r \in Requests,
             \/ Reject(r) \/ OnDepartedRequest(r) \/ Disconnect(r) \/ SeeShutdown(r)
             \/ OnServeDone(r) \/ Answer(r)
      PROVE WaitersActive'
  BY <1>2 DEF Reject, OnDepartedRequest, Disconnect, SeeShutdown, OnServeDone, Answer,
     fifoVars, WaitersActive
<1>3. ASSUME NEW r \in Requests, OnRequest(r) \/ Drain(r) PROVE WaitersActive'
  <2>1. \/ Join(r) \/ StartSwap(r) \/ UNCHANGED <<active, waiters>>
    BY <1>3 DEF OnRequest, Drain, FastPath, Blocked
  <2> QED
    BY <2>1, TakesIn DEF WaitersActive
<1>4. ASSUME NEW r \in Requests, OnCancel(r) PROVE WaitersActive'
  BY <1>4 DEF OnCancel, WaitersActive
<1>5. ASSUME NEW r \in Requests, OnSwapDone(r) PROVE WaitersActive'
  BY <1>5 DEF OnSwapDone, WaitersActive, SwapShape
<1>6. ASSUME NEW ids \in UnloadTargets, OnUnload(ids) PROVE WaitersActive'
  BY <1>6 DEF OnUnload, WaitersActive
<1>7. CASE HandleShutdown \/ Answered \/ UnloadStopped \/ ShutdownStopped
  BY <1>7 DEF HandleShutdown, Answered, UnloadStopped, ShutdownStopped, fifoVars, WaitersActive
<1> QED
  BY <1>1, <1>2, <1>3, <1>4, <1>5, <1>6, <1>7, LoopSteps

\* An unload or a shutdown answers whoever waits for one of its models; a request
\* that is cancelled waits no more.
LEMMA WaitingIs ==
  ASSUME SwapShape, WaitersActive
  PROVE  /\ Waiting = UNION {waiters[m] : m \in active}
         /\ Waiting \subseteq Requests
         /\ WaitersOwn => \A m \in Models : waiters[m] = {r \in Waiting : ModelOf[r] = m}
  BY DEF Waiting, WaitersActive, WaitersOwn, SwapShape

-----------------------------------------------------------------------------
\* The books after a step: nothing changes for them, a request takes a slot
\* below the limit, or one gives its slot back.
SlotMove ==
  \/ /\ reserved' = reserved /\ Owed' \subseteq Owed
     /\ ~down' => ~down /\ Owed' = Owed
  \/ \E r \in Requests \ Owed :
       /\ Owed' = Owed \cup {r} /\ reserved' = [reserved EXCEPT ![ModelOf[r]] = @ + 1]
       /\ reserved[ModelOf[r]] < Limit[ModelOf[r]] /\ down' = down
  \/ \E r \in Owed :
       /\ Owed' = Owed \ {r} /\ reserved' = [reserved EXCEPT ![ModelOf[r]] = @ - 1]
       /\ down' = down

Books == Apart' /\ HeldWaits' /\ SlotMove

LEMMA HeldTyped ==
  ASSUME QueueShape, SwapShape
  PROVE  Line \in Seq(Requests) /\ Held \subseteq Requests /\ Owed \subseteq Requests
<1>1. Line \in Seq(Requests)
  BY DEF Line, QueueShape
<1>2. QueueOf(Line) \subseteq Requests
  BY <1>1 DEF QueueOf
<1>3. Waiting \subseteq Requests /\ toAnswer \subseteq Requests
  BY DEF Waiting, SwapShape, QueueShape
<1> QED
  BY <1>1, <1>2, <1>3 DEF Held, Owed, Served

\* A client that leaves, or that is turned away, changes nothing that is held.
LEMMA ClientBooks ==
  ASSUME QueueShape, SwapShape, LoopAt, ServeShape, Apart, HeldWaits, NEW r \in Requests,
         Reject(r) \/ OnDepartedRequest(r) \/ Disconnect(r) \/ SeeShutdown(r)
  PROVE  Books
<1>1. UNCHANGED <<reserved, down, toAnswer>> /\ Line' = Line /\ Waiting' = Waiting
  BY DEF Reject, OnDepartedRequest, Disconnect, SeeShutdown, fifoVars, loopVars, Line, Waiting
<1>2. Held' = Held /\ QueueOf(Line') = QueueOf(Line)
  BY <1>1 DEF Held
<1>3. Apart'
  BY <1>1, <1>2 DEF Apart
<1>4. CASE down
  BY <1>1, <1>2, <1>3, <1>4 DEF Books, SlotMove, Owed, HeldWaits
<1>5. CASE ~down
  <2>1. \/ phase[r] = "new" /\ phase' = [phase EXCEPT ![r] = "done"]
        \/ phase[r] = "new" /\ phase' = [phase EXCEPT ![r] = "leaving"]
        \/ phase[r] = "waiting" /\ phase' = [phase EXCEPT ![r] = "leaving"]
    BY <1>5 DEF Reject, OnDepartedRequest, Disconnect, SeeShutdown
  <2>2. \A q \in Requests \ {r} : phase'[q] = phase[q]
    BY <2>1 DEF ServeShape
  <2>3. phase'[r] \in {"done", "leaving"} /\ (phase[r] = "new" \/ phase'[r] = "leaving")
    BY <2>1 DEF ServeShape
  <2>4. Served' = Served
    BY <2>1, <2>2, <2>3 DEF Served
  <2>5. HeldWaits'
    <3>1. ASSUME NEW q \in Held PROVE phase'[q] \in {"waiting", "leaving"}
      <4>1. phase[q] \in {"waiting", "leaving"}
        BY <1>5, <3>1 DEF HeldWaits
      <4>2. q \in Requests
        BY HeldTyped
      <4> QED
        BY <4>1, <4>2, <2>2, <2>3
    <3>2. ASSUME NEW q \in Requests, phase'[q] = "waiting" PROVE q \in Held
      BY <1>5, <2>2, <2>3, <3>2 DEF HeldWaits
    <3> QED
      BY <1>2, <3>1, <3>2 DEF HeldWaits
  <2> QED
    BY <1>1, <1>2, <1>3, <2>4, <2>5 DEF Books, SlotMove, Owed
<1> QED
  BY <1>4, <1>5

\* Where one request moves, the rest stays where it is.
LEMMA MovesOne ==
  ASSUME NEW r \in Requests, ServeShape, NEW p \in Phases, phase' = [phase EXCEPT ![r] = p]
  PROVE  /\ phase'[r] = p /\ \A q \in Requests \ {r} : phase'[q] = phase[q]
         /\ Served' = IF p = "serving" THEN Served \cup {r} ELSE Served \ {r}
<1>1. phase'[r] = p /\ \A q \in Requests \ {r} : phase'[q] = phase[q]
  BY DEF ServeShape
<1> QED
  BY <1>1 DEF Served

\* OnRequest.
LEMMA OnRequestBooks ==
  ASSUME QueueShape, SwapShape, WaitersActive, LoopAt, ServeShape, Apart, HeldWaits,
         NEW r \in Requests, OnRequest(r)
  PROVE  Books
<1> USE HeldTyped
<1>1. /\ loop = "select" /\ phase[r] = "new" /\ ~down /\ down' = down /\ toAnswer = {} /\ toAnswer' = {}
      /\ reserved[ModelOf[r]] < Limit[ModelOf[r]]
      /\ reserved' = [reserved EXCEPT ![ModelOf[r]] = @ + 1]
  BY DEF OnRequest, LoopAt, loopVars, QueueShape
<1>2. r \notin Held /\ r \notin Served
  BY <1>1 DEF HeldWaits, Served
<1>3. CASE FastPath(r) /\ queued' = queued /\ phase' = [phase EXCEPT ![r] = "serving"]
  <2>1. Line' = Line /\ Waiting' = Waiting
    BY <1>3, LineOnRequest DEF FastPath, Waiting
  <2>2. Held' = Held /\ QueueOf(Line') = QueueOf(Line)
    BY <1>1, <2>1 DEF Held
  <2>3. /\ phase'[r] = "serving" /\ \A q \in Requests \ {r} : phase'[q] = phase[q]
        /\ Served' = Served \cup {r}
    BY <1>3, MovesOne DEF Phases
  <2>4. Owed' = Owed \cup {r} /\ r \notin Owed
    BY <1>1, <1>2, <2>2, <2>3 DEF Owed
  <2>5. HeldWaits'
    BY <1>1, <1>2, <2>2, <2>3 DEF HeldWaits
  <2>6. Apart'
    BY <1>1, <2>1, <2>2 DEF Apart
  <2>7. SlotMove
    BY <1>1, <2>4 DEF SlotMove
  <2> QED
    BY <2>5, <2>6, <2>7 DEF Books
<1>4. CASE /\ \/ (Join(r) \/ StartSwap(r)) /\ UNCHANGED queued
              \/ Blocked(r) /\ queued' = Enqueue(queued, r)
           /\ phase' = [phase EXCEPT ![r] = "waiting"]
  <2>1. \/ QueueOf(Line') = QueueOf(Line) /\ Waiting' = Waiting \cup {r}
        \/ QueueOf(Line') = QueueOf(Line) \cup {r} /\ Waiting' = Waiting
    <3>1. CASE (Join(r) \/ StartSwap(r)) /\ UNCHANGED queued
      BY <3>1, LineOnRequest, TakesIn
    <3>2. CASE Blocked(r) /\ queued' = Enqueue(queued, r)
      <4>1. Line' = Enqueue(Line, r)
        BY <3>2, LineOnRequest
      <4>2. QueueOf(Line') = QueueOf(Line) \cup {r}
        BY <4>1, EnqueueKeeps
      <4> QED
        BY <3>2, <4>2 DEF Blocked, Waiting
    <3> QED
      BY <1>4, <3>1, <3>2
  <2>2. Held' = Held \cup {r}
    BY <1>1, <2>1 DEF Held
  <2>3. /\ phase'[r] = "waiting" /\ \A q \in Requests \ {r} : phase'[q] = phase[q]
        /\ Served' = Served
    <3>1. "waiting" \in Phases
      BY DEF Phases
    <3>2. Served' = Served \ {r}
      BY <1>4, <3>1, MovesOne
    <3>3. Served \ {r} = Served
      BY <1>2
    <3> QED
      BY <1>4, <3>1, <3>2, <3>3, MovesOne
  <2>4. Owed' = Owed \cup {r} /\ r \notin Owed
    BY <1>1, <1>2, <2>2, <2>3 DEF Owed
  <2>5. HeldWaits'
    <3>1. ASSUME NEW q \in Held' PROVE phase'[q] \in {"waiting", "leaving"}
      BY <1>1, <2>2, <2>3 DEF HeldWaits
    <3>2. ASSUME NEW q \in Requests, phase'[q] = "waiting" PROVE q \in Held'
      BY <1>1, <2>2, <2>3, <3>2 DEF HeldWaits
    <3> QED
      BY <3>1, <3>2 DEF HeldWaits
  <2>6. Apart'
    BY <1>1, <1>2, <2>1 DEF Apart, Held
  <2>7. SlotMove
    BY <1>1, <2>4 DEF SlotMove
  <2> QED
    BY <2>5, <2>6, <2>7 DEF Books
<1> QED
  BY <1>3, <1>4 DEF OnRequest

\* A request that is taken out of what is held, and handed to its client or
\* refused, is served from now on or gives its slot back.
LEMMA LeavesBooks ==
  ASSUME QueueShape, SwapShape, ServeShape, HeldWaits, ~down, down' = down,
         NEW r \in Held, Held' = Held \ {r}, GrantHandler(r) \/ GrantError(r)
  PROVE  HeldWaits' /\ SlotMove
<1>0. Held \subseteq Requests /\ r \in Requests
  BY HeldTyped
<1>1. phase[r] \in {"waiting", "leaving"} /\ r \notin Served
  BY DEF HeldWaits, Served
<1>2. CASE phase[r] = "waiting" /\ phase' = [phase EXCEPT ![r] = "serving"] /\ UNCHANGED reserved
  <2>1. /\ \A q \in Requests \ {r} : phase'[q] = phase[q]
        /\ phase'[r] = "serving" /\ Served' = Served \cup {r}
    BY <1>0, <1>2, MovesOne DEF Phases
  <2>2. Owed' = Owed
    BY <2>1 DEF Owed
  <2> QED
    BY <1>0, <1>2, <2>1, <2>2 DEF HeldWaits, SlotMove
<1>3. CASE Release(ModelOf[r]) /\ phase' = [phase EXCEPT ![r] = IF @ = "waiting" THEN "done" ELSE @]
  <2>1. /\ \A q \in Requests \ {r} : phase'[q] = phase[q]
        /\ phase'[r] \in {"done", "leaving"}
    BY <1>0, <1>1, <1>3 DEF ServeShape
  <2>2. Served' = Served
    BY <1>1, <2>1 DEF Served
  <2>3. Owed' = Owed \ {r} /\ r \in Owed
    BY <1>1, <2>2 DEF Owed
  <2>4. SlotMove
    BY <1>3, <2>3 DEF SlotMove, Release
  <2>5. HeldWaits'
    BY <1>0, <2>1 DEF HeldWaits
  <2> QED
    BY <2>4, <2>5
<1>4. CASE phase[r] # "waiting" /\ Release(ModelOf[r]) /\ phase' = phase
  <2>1. Owed' = Owed \ {r} /\ r \in Owed
    BY <1>1, <1>4 DEF Owed, Served
  <2>2. SlotMove
    BY <1>4, <2>1 DEF SlotMove, Release
  <2>3. HeldWaits'
    BY <1>0, <1>4 DEF HeldWaits
  <2> QED
    BY <2>2, <2>3
<1> QED
  BY <1>2, <1>3, <1>4 DEF GrantHandler, GrantError

\* Drain: the request is granted, waits for a swap, or keeps its place.
LEMMA DrainBooks ==
  ASSUME QueueShape, SwapShape, WaitersActive, LoopAt, ServeShape, Distinct(Line), Apart,
         HeldWaits, NEW r \in Requests, Drain(r)
  PROVE  Books
<1>1. ~down /\ down' = down /\ toAnswer = {} /\ toAnswer' = toAnswer
  BY DEF Drain, LoopAt, QueueShape
<1>2. r \in QueueOf(Line) /\ r \notin Waiting /\ r \in Held
  BY <1>1, LineDrain DEF Apart, Held
<1>3. CASE Blocked(r) /\ Line' = Line /\ UNCHANGED <<phase, inFlight, reserved>>
  <2>1. Waiting' = Waiting
    BY <1>3 DEF Blocked, Waiting
  <2>2. Held' = Held /\ Served' = Served
    BY <1>1, <1>3, <2>1 DEF Held, Served
  <2>3. Apart' /\ HeldWaits'
    BY <1>1, <1>3, <2>1, <2>2 DEF Apart, HeldWaits
  <2>4. Owed' = Owed
    BY <1>1, <2>2 DEF Owed
  <2>5. SlotMove
    BY <1>1, <1>3, <2>4 DEF SlotMove
  <2> QED
    BY <2>3, <2>5 DEF Books
<1>4. CASE FastPath(r) /\ GrantHandler(r) /\ QueueOf(Line') = QueueOf(Line) \ {r}
  <2>1. Waiting' = Waiting
    BY <1>4 DEF FastPath, Waiting
  <2>2. Held' = Held \ {r}
    BY <1>1, <1>2, <1>4, <2>1 DEF Held
  <2>3. Apart'
    BY <1>1, <1>4, <2>1 DEF Apart
  <2>4. HeldWaits' /\ SlotMove
    BY <1>1, <1>2, <1>4, <2>2, LeavesBooks
  <2> QED
    BY <2>3, <2>4 DEF Books
<1>5. CASE /\ Join(r) \/ StartSwap(r)
           /\ UNCHANGED <<phase, inFlight, reserved>> /\ QueueOf(Line') = QueueOf(Line) \ {r}
  <2>1. Waiting' = Waiting \cup {r}
    BY <1>5, TakesIn
  <2>2. Held' = Held /\ Served' = Served
    BY <1>1, <1>2, <1>5, <2>1 DEF Held, Served
  <2>3. Apart'
    BY <1>1, <1>5, <2>1 DEF Apart
  <2>4. HeldWaits'
    BY <1>1, <1>5, <2>2 DEF HeldWaits
  <2>5. Owed' = Owed
    BY <1>1, <2>2 DEF Owed
  <2>6. SlotMove
    BY <1>1, <1>5, <2>5 DEF SlotMove
  <2> QED
    BY <2>3, <2>4, <2>6 DEF Books
<1> QED
  BY <1>3, <1>4, <1>5, LineDrain

\* OnCancel takes the request out of wherever it is held, and gives back its
\* slot if it held one.
LEMMA OnCancelBooks ==
  ASSUME QueueShape, SwapShape, WaitersActive, LoopAt, ServeShape, Apart, HeldWaits,
         NEW r \in Requests, OnCancel(r)
  PROVE  Books
<1>1. /\ loop = "select" /\ ~down /\ down' = down /\ toAnswer = {} /\ toAnswer' = toAnswer
      /\ phase[r] = "leaving" /\ phase' = [phase EXCEPT ![r] = "done"]
  BY DEF OnCancel, LoopAt, loopVars, QueueShape
<1>2. Line = queued /\ QueueOf(Line') = QueueOf(Line) \ {r}
  BY LineKept DEF OnCancel, loopVars
<1>3. Waiting' = Waiting \ {r}
  <2>1. \A m \in Models : waiters'[m] = waiters[m] \ {r}
    BY DEF OnCancel, WaitersActive
  <2> QED
    BY <2>1 DEF Waiting
<1>4. Held' = Held \ {r}
  BY <1>1, <1>2, <1>3 DEF Held
<1>5. r \in Held <=> r \in QueueOf(queued) \/ \E m \in active : r \in waiters[m]
  BY <1>1, <1>2, WaitingIs DEF Held
<1>6. /\ phase'[r] = "done" /\ \A q \in Requests \ {r} : phase'[q] = phase[q]
      /\ Served' = Served \ {r} /\ r \notin Served
  <2>1. "done" \in Phases
    BY DEF Phases
  <2> QED
    BY <1>1, <2>1, MovesOne DEF Served
<1>7. Apart'
  BY <1>1, <1>2, <1>3 DEF Apart
<1>8. HeldWaits'
  BY <1>1, <1>4, <1>6, HeldTyped DEF HeldWaits
<1>9. Owed' = Owed \ {r} /\ (r \in Owed <=> r \in Held)
  BY <1>1, <1>4, <1>6 DEF Owed
<1>10. SlotMove
  <2>1. CASE r \in Held
    <3>1. Release(ModelOf[r])
      BY <1>5, <2>1 DEF OnCancel
    <3> QED
      BY <1>1, <1>9, <2>1, <3>1 DEF SlotMove, Release
  <2>2. CASE r \notin Held
    <3>1. reserved' = reserved
      BY <1>5, <2>2 DEF OnCancel
    <3>2. Owed' = Owed
      BY <1>9, <2>2
    <3> QED
      BY <1>1, <3>1, <3>2 DEF SlotMove
  <2> QED
    BY <2>1, <2>2
<1> QED
  BY <1>7, <1>8, <1>10 DEF Books

\* Where no request changes its owner, the books stay.
LEMMA SameBooks ==
  ASSUME HeldWaits, Held' = Held, UNCHANGED <<phase, reserved, down>>, down => toAnswer' = toAnswer
  PROVE  HeldWaits' /\ SlotMove
<1>1. HeldWaits'
  BY DEF HeldWaits
<1>2. Owed' = Owed
  <2>1. Served' = Served
    BY DEF Served
  <2> QED
    BY <2>1 DEF Owed
<1> QED
  BY <1>1, <1>2 DEF SlotMove

\* OnSwapDone: the waiters of the swap become those to answer.
LEMMA OnSwapDoneBooks ==
  ASSUME QueueShape, SwapShape, WaitersOwn, WaitersActive, LoopAt, Apart, HeldWaits,
         NEW r \in Requests, OnSwapDone(r)
  PROVE  Books
<1> DEFINE m == ModelOf[r]
<1>0. m \in Models
  BY SchedulerAssumption DEF SchedulerAssumption
<1>1. /\ ~down /\ UNCHANGED <<phase, reserved, down>> /\ toAnswer = {} /\ toAnswer' = waiters[m]
      /\ Line' = Line /\ waiters' = [waiters EXCEPT ![m] = {}]
  BY DEF OnSwapDone, LoopAt, QueueShape, Line
<1> HIDE DEF m
<1>2. /\ Waiting' = Waiting \ waiters[m] /\ waiters[m] \subseteq Waiting
  <2>1. \A n \in Models \ {m} : waiters'[n] = waiters[n] /\ waiters[n] \cap waiters[m] = {}
    BY <1>0, <1>1 DEF SwapShape, WaitersOwn
  <2>2. waiters'[m] = {}
    BY <1>0, <1>1 DEF SwapShape
  <2> QED
    BY <1>0, <2>1, <2>2 DEF Waiting
<1>3. Held' = Held
  BY <1>1, <1>2 DEF Held
<1>4. Apart'
  BY <1>1, <1>2 DEF Apart
<1>5. HeldWaits' /\ SlotMove
  BY <1>1, <1>3, SameBooks
<1> QED
  BY <1>4, <1>5 DEF Books

\* OnServeDone.
LEMMA OnServeDoneBooks ==
  ASSUME QueueShape, SwapShape, LoopAt, ServeShape, Apart, HeldWaits,
         NEW r \in Requests, OnServeDone(r)
  PROVE  Books
<1>1. /\ loop = "select" /\ ~down /\ down' = down /\ toAnswer' = toAnswer /\ phase[r] = "serving"
      /\ phase' = [phase EXCEPT ![r] = "done"]
      /\ reserved' = [reserved EXCEPT ![ModelOf[r]] = @ - 1]
  BY DEF OnServeDone, LoopAt, QueueShape, Release
<1>2. Line' = Line /\ Waiting' = Waiting
  <2>1. pending = <<>>
    BY <1>1, LineAtRest
  <2>2. Line' = Line
    BY <2>1, BeginDrainLine DEF OnServeDone, Line
  <2> QED
    BY <2>2 DEF OnServeDone, Waiting
<1>3. Held' = Held /\ r \notin Held
  BY <1>1, <1>2 DEF Held, HeldWaits
<1>4. /\ phase'[r] = "done" /\ \A q \in Requests \ {r} : phase'[q] = phase[q]
      /\ Served' = Served \ {r} /\ r \in Served
  <2>1. "done" \in Phases
    BY DEF Phases
  <2> QED
    BY <1>1, <2>1, MovesOne DEF Served
<1>5. Apart'
  BY <1>1, <1>2 DEF Apart
<1>6. HeldWaits'
  BY <1>1, <1>3, <1>4, HeldTyped DEF HeldWaits
<1>7. Owed' = Owed \ {r} /\ r \in Owed
  BY <1>1, <1>3, <1>4 DEF Owed
<1>8. SlotMove
  BY <1>1, <1>7 DEF SlotMove
<1> QED
  BY <1>5, <1>6, <1>8 DEF Books

\* Answer, also after a shutdown, when the loop gives back the slots of those
\* it answers.
LEMMA AnswerBooks ==
  ASSUME QueueShape, SwapShape, LoopAt, ServeShape, Apart, HeldWaits,
         NEW r \in Requests, Answer(r)
  PROVE  Books
<1>1. /\ r \in toAnswer /\ toAnswer' = toAnswer \ {r} /\ down' = down
      /\ Line' = Line /\ Waiting' = Waiting
      /\ \/ task = "serve" /\ GrantHandler(r)
         \/ task # "serve" /\ GrantError(r)
  BY DEF Answer, Line, Waiting
<1>2. Apart'
  BY <1>1 DEF Apart
<1>3. CASE ~down
  <2>1. Held' = Held \ {r} /\ r \in Held
    BY <1>1, <1>3 DEF Held, Apart
  <2> QED
    BY <1>1, <1>2, <1>3, <2>1, LeavesBooks DEF Books
<1>4. CASE down
  <2>1. task # "serve"
    BY <1>4 DEF LoopAt
  <2>2. Release(ModelOf[r])
    BY <1>1, <2>1 DEF GrantError
  <2>3. Owed' = Owed \ {r} /\ r \in Owed
    BY <1>1, <1>4 DEF Owed
  <2>4. SlotMove
    BY <1>1, <2>2, <2>3 DEF SlotMove, Release
  <2>5. HeldWaits'
    BY <1>1, <1>4 DEF HeldWaits
  <2> QED
    BY <1>2, <2>4, <2>5 DEF Books
<1> QED
  BY <1>3, <1>4

\* OnUnload: the waiters and the queued requests of the models become those to
\* answer.
LEMMA OnUnloadBooks ==
  ASSUME QueueShape, SwapShape, WaitersOwn, WaitersActive, LoopAt, Apart, HeldWaits,
         NEW ids \in UnloadTargets, OnUnload(ids)
  PROVE  Books
<1> DEFINE mine == {r \in Requests : ModelOf[r] \in ids}
           w == UNION {waiters[m] : m \in active \cap ids}
<1>0. ids \subseteq Models
  BY SchedulerAssumption DEF SchedulerAssumption
<1>1. /\ ~down /\ UNCHANGED <<phase, reserved, down>> /\ toAnswer = {} /\ loop = "select"
  BY DEF OnUnload, LoopAt, QueueShape
<1>2. Line = queued /\ QueueOf(Line') = QueueOf(Line) \ mine
  BY <1>1, LineKept DEF OnUnload
<1>3. toAnswer' = w \cup {r \in QueueOf(Line) : ModelOf[r] \in ids}
  BY <1>2 DEF OnUnload
<1>4. w = Waiting \cap mine
  BY <1>0, WaitingIs DEF WaitersOwn, WaitersActive
<1>5. Waiting' = Waiting \ mine
  <2>1. \A m \in Models : waiters'[m] = IF m \in ids THEN {} ELSE waiters[m]
    BY DEF OnUnload
  <2>2. Waiting' = UNION {waiters'[m] : m \in Models}
    BY DEF Waiting
  <2>3. \A x \in Waiting' : x \in Waiting \ mine
    BY <2>1, <2>2 DEF Waiting, WaitersOwn
  <2>4. \A x \in Waiting \ mine : x \in Waiting'
    BY <2>1, <2>2, WaitingIs DEF Waiting, WaitersOwn
  <2> QED
    BY <2>3, <2>4
<1>6. {r \in QueueOf(Line) : ModelOf[r] \in ids} = QueueOf(Line) \cap mine
  <2>1. QueueOf(Line) \subseteq Requests
    BY HeldTyped DEF Held
  <2> QED
    BY <2>1
<1> HIDE DEF mine, w
<1>7. Held' = Held
  BY <1>1, <1>2, <1>3, <1>4, <1>5, <1>6 DEF Held
<1>8. Apart'
  BY <1>1, <1>2, <1>3, <1>4, <1>5, <1>6 DEF Apart
<1>9. HeldWaits' /\ SlotMove
  BY <1>1, <1>7, SameBooks
<1> QED
  BY <1>8, <1>9 DEF Books

\* Every step keeps the books.
LEMMA BooksStep ==
  ASSUME QueueShape, SwapShape, WaitersOwn, WaitersActive, LoopAt, ServeShape,
         Distinct(Line), Apart, HeldWaits, [Next]_vars
  PROVE  Books
<1>1. CASE UNCHANGED heldVars
  <2>1. /\ UNCHANGED <<phase, reserved, down, toAnswer>> /\ Line' = Line /\ Waiting' = Waiting
    BY <1>1 DEF heldVars, Line, Waiting
  <2>2. Held' = Held
    BY <2>1 DEF Held
  <2> QED
    BY <2>1, <2>2, SameBooks DEF Apart, Books
<1>2. CASE Answered \/ UnloadStopped
  <2>1. /\ UNCHANGED <<phase, reserved, down, toAnswer>> /\ Waiting' = Waiting
    BY <1>2 DEF Answered, UnloadStopped, Waiting
  <2>2. Line' = Line
    <3>1. pending = <<>>
      BY <1>2, LineAtRest DEF Answered, UnloadStopped
    <3> QED
      BY <1>2, <3>1, BeginDrainLine DEF Answered, UnloadStopped, Line
  <2>3. Held' = Held
    BY <2>1, <2>2 DEF Held
  <2> QED
    BY <2>1, <2>2, <2>3, SameBooks DEF Apart, Books
<1>3. CASE ShutdownStopped
  <2>1. /\ UNCHANGED <<phase, reserved, down, toAnswer>> /\ Line' = Line /\ Waiting' = Waiting
    BY <1>3 DEF ShutdownStopped, fifoVars, Line, Waiting
  <2>2. Held' = Held
    BY <2>1 DEF Held
  <2> QED
    BY <2>1, <2>2, SameBooks DEF Apart, Books
<1>4. CASE HandleShutdown
  <2>1. down' /\ reserved' = reserved /\ ~down
    BY <1>4 DEF HandleShutdown, fifoVars, LoopAt
  <2>2. toAnswer' \subseteq Held
    <3>1. toAnswer' = Waiting \cup QueueOf(queued)
      BY <1>4, WaitingIs DEF HandleShutdown
    <3>2. Line = queued
      BY <1>4, LineAtRest DEF HandleShutdown
    <3> QED
      BY <3>1, <3>2 DEF Held
  <2>3. Owed' \subseteq Owed
    BY <2>1, <2>2 DEF Owed
  <2> QED
    BY <2>1, <2>3 DEF Books, SlotMove, Apart, HeldWaits
<1> QED
  BY <1>1, <1>2, <1>3, <1>4, LoopSteps, ClientBooks, OnRequestBooks, OnCancelBooks, OnSwapDoneBooks,
     OnServeDoneBooks, AnswerBooks, DrainBooks, OnUnloadBooks

-----------------------------------------------------------------------------
\* The counters follow the books.
LEMMA AccountsStep ==
  ASSUME QueueShape, QueueShape', SwapShape, SwapShape', Accounts, SlotMove
  PROVE  Accounts'
<1>0. /\ IsFiniteSet(Requests) /\ Limit \in [Models -> Nat \ {0}] /\ ModelOf \in [Requests -> Models]
      /\ Owed \subseteq Requests /\ Owed' \subseteq Requests
      /\ reserved \in [Models -> Int]
  <2>1. Owed \subseteq Requests
    BY HeldTyped
  <2>2. Owed' \subseteq Requests
    BY <2>1 DEF SlotMove
  <2> QED
    BY <2>1, <2>2, SchedulerAssumption DEF SchedulerAssumption, QueueShape
<1>1. \A m : /\ IsFiniteSet(OwedBy(m)) /\ Cardinality(OwedBy(m)) \in Nat
             /\ IsFiniteSet(OwedBy(m)') /\ Cardinality(OwedBy(m)') \in Nat
  <2> SUFFICES ASSUME NEW m
               PROVE  /\ IsFiniteSet(OwedBy(m)) /\ Cardinality(OwedBy(m)) \in Nat
                      /\ IsFiniteSet(OwedBy(m)') /\ Cardinality(OwedBy(m)') \in Nat
    OBVIOUS
  <2>1. OwedBy(m) \subseteq Requests /\ OwedBy(m)' \subseteq Requests
    BY <1>0 DEF OwedBy
  <2> QED
    BY <1>0, <2>1, FS_Subset, FS_CardinalityType
<1>2. CASE /\ reserved' = reserved /\ Owed' \subseteq Owed
           /\ ~down' => ~down /\ Owed' = Owed
  <2> SUFFICES ASSUME NEW m \in Models
               PROVE  /\ Cardinality(OwedBy(m)') <= reserved[m]
                      /\ ~down' => reserved[m] = Cardinality(OwedBy(m)') /\ reserved[m] <= Limit[m]
    BY <1>2 DEF Accounts
  <2>1. OwedBy(m)' \subseteq OwedBy(m) /\ (~down' => ~down /\ OwedBy(m)' = OwedBy(m))
    BY <1>2 DEF OwedBy
  <2>2. Cardinality(OwedBy(m)') <= Cardinality(OwedBy(m))
    BY <1>1, <2>1, FS_Subset
  <2>3. Cardinality(OwedBy(m)') <= reserved[m]
    BY <1>0, <1>1, <2>2 DEF Accounts
  <2> QED
    BY <2>1, <2>3 DEF Accounts
<1>3. ASSUME NEW r \in Requests \ Owed,
             Owed' = Owed \cup {r}, reserved' = [reserved EXCEPT ![ModelOf[r]] = @ + 1],
             reserved[ModelOf[r]] < Limit[ModelOf[r]], down' = down
      PROVE  Accounts'
  <2> DEFINE k == ModelOf[r]
  <2>1. k \in Models /\ reserved'[k] = reserved[k] + 1 /\ reserved[k] \in Int /\ Limit[k] \in Nat
    BY <1>0, <1>3
  <2>2. \A m \in Models \ {k} : reserved'[m] = reserved[m] /\ OwedBy(m)' = OwedBy(m)
    BY <1>0, <1>3 DEF OwedBy
  <2>3. OwedBy(k)' = OwedBy(k) \cup {r} /\ r \notin OwedBy(k)
    BY <1>3 DEF OwedBy
  <2> HIDE DEF k
  <2>4. Cardinality(OwedBy(k)') = Cardinality(OwedBy(k)) + 1
    BY <1>1, <2>3, FS_AddElement
  <2>5. reserved[k] < Limit[k]
    BY <1>3 DEF k
  <2> QED
    BY <1>1, <1>3, <2>1, <2>2, <2>4, <2>5 DEF Accounts
<1>4. ASSUME NEW r \in Owed,
             Owed' = Owed \ {r}, reserved' = [reserved EXCEPT ![ModelOf[r]] = @ - 1], down' = down
      PROVE  Accounts'
  <2> DEFINE k == ModelOf[r]
  <2>1. /\ k \in Models /\ reserved'[k] = reserved[k] - 1 /\ reserved[k] \in Int /\ Limit[k] \in Nat
    BY <1>0, <1>4
  <2>2. \A m \in Models \ {k} : reserved'[m] = reserved[m] /\ OwedBy(m)' = OwedBy(m)
    BY <1>0, <1>4 DEF OwedBy
  <2>3. OwedBy(k)' = OwedBy(k) \ {r} /\ r \in OwedBy(k)
    BY <1>4 DEF OwedBy
  <2> HIDE DEF k
  <2>4. Cardinality(OwedBy(k)') = Cardinality(OwedBy(k)) - 1
    BY <1>1, <2>3, FS_RemoveElement
  <2> QED
    BY <1>1, <1>4, <2>1, <2>2, <2>4 DEF Accounts
<1> QED
  BY <1>2, <1>3, <1>4 DEF SlotMove

\* A request that is put back into the queue waits for a swap, or for a request
\* that is served.
LEMMA BlockedHasWaker ==
  ASSUME SwapShape, ServeShape, NEW r \in Requests, Blocked(r)
  PROVE  active # {} \/ \E m \in Models : inFlight[m] > 0
<1>1. CollidesWith(ModelOf[r], Evictions(ModelOf[r])) => active # {}
  BY DEF CollidesWith
<1>2. ConflictsWithInFlight(Evictions(ModelOf[r])) => \E m \in Models : inFlight[m] > 0
  <2>1. RunningSet(ModelOf[r]) \in SUBSET Models /\ ModelOf[r] \in Models
    BY SchedulerAssumption DEF SchedulerAssumption, RunningSet, SwapShape
  <2>2. Evictions(ModelOf[r]) \subseteq Models
    BY <2>1, SchedulerAssumption DEF SchedulerAssumption, Evictions
  <2> QED
    BY <2>2 DEF ConflictsWithInFlight
<1> QED
  BY <1>1, <1>2 DEF Blocked

LEMMA HasWakerStep ==
  ASSUME QueueShape, SwapShape, WaitersActive, LoopAt, ServeShape, Counted, HasWaker, [Next]_vars
  PROVE  HasWaker'
<1> DEFINE Wakers == active # {} \/ \E m \in Models : inFlight[m] > 0
<1>0. \A r \in Requests : ModelOf[r] \in Models
  BY SchedulerAssumption DEF SchedulerAssumption
<1>1. CASE UNCHANGED heldVars
  BY <1>1 DEF heldVars, HasWaker
<1>2. ASSUME NEW r \in Requests, Reject(r) \/ OnDepartedRequest(r) \/ Disconnect(r) \/ SeeShutdown(r)
      PROVE HasWaker'
  BY <1>2 DEF Reject, OnDepartedRequest, Disconnect, SeeShutdown, fifoVars, loopVars, HasWaker
<1>3. CASE \/ \E r \in Requests : OnSwapDone(r) \/ Answer(r)
           \/ \E ids \in UnloadTargets : OnUnload(ids)
           \/ HandleShutdown \/ ShutdownStopped
  BY <1>3 DEF OnSwapDone, Answer, OnUnload, HandleShutdown, ShutdownStopped, HasWaker
<1>4. CASE Answered \/ UnloadStopped
  BY <1>4 DEF Answered, UnloadStopped, BeginDrain, HasWaker
\* decisions only add to those who will wake the queue
<1>5. ASSUME NEW r \in Requests, Join(r) \/ StartSwap(r) PROVE Wakers'
  BY <1>5, TakesIn
<1>6. ASSUME NEW r \in Requests, Wakers, UNCHANGED active,
             inFlight' = inFlight \/ inFlight' = [inFlight EXCEPT ![ModelOf[r]] = @ + 1]
      PROVE  Wakers'
  BY <1>0, <1>6 DEF ServeShape
<1>7. ASSUME NEW r \in Requests, Blocked(r), inFlight' = inFlight PROVE Wakers'
  <2>1. Wakers
    BY <1>7, BlockedHasWaker
  <2>2. active' = active
    BY <1>7 DEF Blocked
  <2> QED
    BY <1>7, <2>1, <2>2
<1>8. ASSUME NEW r \in Requests, OnRequest(r) PROVE HasWaker'
  <2>1. CASE FastPath(r) /\ queued' = queued /\ inFlight' = [inFlight EXCEPT ![ModelOf[r]] = @ + 1]
    <3>1. active' = active /\ loop = "select"
      BY <1>8, <2>1 DEF FastPath, OnRequest
    <3>2. queued # <<>> => Wakers
      BY <3>1 DEF HasWaker
    <3>3. queued # <<>> => Wakers'
      BY <2>1, <3>1, <3>2, <1>6
    <3> QED
      BY <2>1, <3>3 DEF HasWaker
  <2>2. CASE Join(r) \/ StartSwap(r)
    BY <2>2, <1>5 DEF HasWaker
  <2>3. CASE Blocked(r) /\ inFlight' = inFlight
    BY <2>3, <1>7 DEF HasWaker
  <2> QED
    BY <1>8, <2>1, <2>2, <2>3 DEF OnRequest
<1>9. ASSUME NEW r \in Requests, Drain(r) PROVE HasWaker'
  <2>1. CASE FastPath(r) /\ queued' = queued /\ GrantHandler(r)
    <3>1. active' = active /\ loop = "drain"
      BY <1>9, <2>1 DEF FastPath, Drain
    <3>2. queued # <<>> => Wakers
      BY <3>1 DEF HasWaker
    <3>3. inFlight' = inFlight \/ inFlight' = [inFlight EXCEPT ![ModelOf[r]] = @ + 1]
      BY <2>1 DEF GrantHandler
    <3>4. queued # <<>> => Wakers'
      BY <3>1, <3>2, <3>3, <1>6
    <3> QED
      BY <2>1, <3>4 DEF HasWaker
  <2>2. CASE Join(r) \/ StartSwap(r)
    BY <2>2, <1>5 DEF HasWaker
  <2>3. CASE Blocked(r) /\ inFlight' = inFlight
    BY <2>3, <1>7 DEF HasWaker
  <2> QED
    BY <1>9, <2>1, <2>2, <2>3 DEF Drain
<1>10. ASSUME NEW r \in Requests, OnCancel(r) PROVE HasWaker'
  <2>1. loop = "select" /\ UNCHANGED <<active, inFlight>>
    BY <1>10 DEF OnCancel, loopVars
  <2>2. queued = <<>> => queued' = <<>>
    <3> SUFFICES ASSUME queued = <<>> PROVE queued' = <<>>
      OBVIOUS
    <3>1. Line' = queued' /\ queued' \in Seq(Requests) /\ QueueOf(queued') \subseteq QueueOf(queued)
      BY <1>10, LineKept DEF OnCancel, loopVars
    <3>2. QueueOf(queued') = {}
      BY <3>1 DEF QueueOf
    <3>3. Len(queued') \in Nat /\ (Len(queued') # 0 => queued'[1] \in QueueOf(queued'))
      BY <3>1 DEF QueueOf
    <3> QED
      BY <3>1, <3>2, <3>3
  <2>3. queued # <<>> => Wakers'
    BY <2>1 DEF HasWaker
  <2> QED
    BY <2>2, <2>3 DEF HasWaker
<1>11. ASSUME NEW r \in Requests, OnServeDone(r) PROVE HasWaker'
  <2> DEFINE m == ModelOf[r]
  <2>1. /\ m \in Models /\ phase[r] = "serving" /\ inFlight' = [inFlight EXCEPT ![m] = @ - 1]
    BY <1>0, <1>11 DEF OnServeDone
  <2>2. CASE inFlight[m] = 1
    BY <1>11, <2>2 DEF OnServeDone, BeginDrain, HasWaker
  <2>3. CASE inFlight[m] # 1
    <3>1. IsFiniteSet(Serving(m)) /\ r \in Serving(m)
      BY <2>1, FS_Subset, SchedulerAssumption DEF Serving, SchedulerAssumption
    <3>2. Cardinality(Serving(m)) \in Nat \ {0}
      BY <3>1, FS_CardinalityType, FS_EmptySet
    <3>3. inFlight[m] \in Int /\ Cardinality(Serving(m)) <= inFlight[m]
      BY <2>1 DEF Counted, ServeShape
    <3>4. inFlight[m] > 1
      BY <3>2, <3>3, <2>3
    <3>5. inFlight'[m] > 0
      BY <2>1, <3>3, <3>4 DEF ServeShape
    <3>6. Wakers'
      BY <2>1, <3>5
    <3> QED
      BY <3>6 DEF HasWaker
  <2> QED
    BY <2>2, <2>3
<1> QED
  BY <1>1, <1>2, <1>3, <1>4, <1>8, <1>9, <1>10, <1>11, LoopSteps

-----------------------------------------------------------------------------
\* The invariant of the run loop.
Loop ==
  /\ QueueShape /\ LoopAt /\ WaitersActive /\ Distinct(Line) /\ ByPriority(Line)
  /\ Apart /\ HeldWaits /\ Accounts /\ HasWaker

LEMMA InitLoop == Init => Loop
<1> SUFFICES ASSUME Init PROVE Loop
  OBVIOUS
<1> USE DEF Init
<1>1. Line = <<>>
  BY DEF Line
<1>2. QueueOf(Line) = {} /\ Distinct(Line) /\ ByPriority(Line)
  BY <1>1 DEF QueueOf, Distinct, ByPriority
<1>3. Waiting = {} /\ Held = {} /\ Owed = {}
  BY <1>2 DEF Waiting, Held, Owed, Served
<1>4. QueueShape
  <2>1. <<>> \in Seq(Requests) /\ reserved \in [Models -> Int]
    OBVIOUS
  <2>2. 0 \in 0..MaxUnloads
    BY SchedulerAssumption DEF SchedulerAssumption
  <2> QED
    BY <2>1, <2>2 DEF QueueShape, Loops, Tasks
<1>5. LoopAt /\ WaitersActive /\ HasWaker
  BY DEF LoopAt, WaitersActive, HasWaker
<1>6. Apart /\ HeldWaits
  BY <1>2, <1>3 DEF Apart, HeldWaits
<1>7. Accounts
  <2>1. \A m \in Models : OwedBy(m) = {} /\ reserved[m] = 0 /\ Limit[m] \in Nat
    BY <1>3, SchedulerAssumption DEF OwedBy, SchedulerAssumption
  <2>2. \A m \in Models : Cardinality(OwedBy(m)) = 0
    BY <2>1, FS_EmptySet
  <2> HIDE DEF Init
  <2> QED
    BY <2>1, <2>2 DEF Accounts
<1> QED
  BY <1>2, <1>4, <1>5, <1>6, <1>7 DEF Loop

LEMMA LineStep ==
  ASSUME Loop, [Next]_vars
  PROVE  Distinct(Line)' /\ ByPriority(Line)'
<1>0. Line \in Seq(Requests)
  BY DEF Loop, QueueShape, Line
<1>1. CASE Line' = Line
  BY <1>1 DEF Loop
<1>2. ASSUME NEW r \in Requests, OnRequest(r), Line' = Enqueue(Line, r)
      PROVE  Distinct(Line)' /\ ByPriority(Line)'
  <2>1. r \notin QueueOf(Line)
    BY <1>2 DEF OnRequest, Loop, LoopAt, HeldWaits, Held
  <2> QED
    BY <1>0, <1>2, <2>1, EnqueueKeeps DEF Loop
<1>3. CASE Thins(Line', Line) /\ Line' \in Seq(Requests)
  BY <1>0, <1>3, ThinsKeeps DEF Loop
<1> QED
  BY <1>1, <1>2, <1>3, LineMoves DEF Loop

LEMMA LoopStep == Base /\ Loop /\ [Next]_vars => Loop'
<1> SUFFICES ASSUME Base, Loop, [Next]_vars PROVE Loop'
  OBVIOUS
<1> USE DEF Base, Shapes, Loop
<1>1. QueueShape' /\ LoopAt' /\ WaitersActive' /\ HasWaker' /\ SwapShape'
  BY QueueShapeStep, LoopAtStep, WaitersActiveStep, HasWakerStep, SwapShapeStep
<1>2. Apart' /\ HeldWaits' /\ SlotMove
  BY BooksStep DEF Books
<1>3. Accounts'
  BY <1>1, <1>2, AccountsStep
<1> QED
  BY <1>1, <1>2, <1>3, LineStep

LEMMA LoopHolds == Spec => [](Base /\ Loop)
BY InitBase, BaseStep, InitLoop, LoopStep, PTL DEF Spec

-----------------------------------------------------------------------------
\* What a request holds is a slot of its own model (Holding).
LEMMA HoldingIs ==
  ASSUME Base, Loop, ~down, NEW m \in Models
  PROVE  Holding(m) = OwedBy(m)
<1> USE DEF Base, Shapes, Loop
<1>1. QueueOf(Line) = QueueOf(queued) \cup QueueOf(pending)
  BY QueueOfConcat DEF Line, QueueShape
<1>2. Owed \subseteq Requests
  BY HeldTyped
<1>3. waiters[m] = {r \in Waiting : ModelOf[r] = m}
  BY WaitingIs
<1>4. \A r \in Requests : ModelOf[r] = m =>
        (r \in Owed <=> \/ r \in QueueOf(queued) \cup QueueOf(pending) \cup waiters[m] \cup toAnswer
                       \/ phase[r] = "serving")
  BY <1>1, <1>3 DEF Owed, Held, Served
<1> QED
  BY <1>2, <1>4 DEF Holding, OwedBy

\* The scheduler's variables keep their types: no counter of slots or of served
\* requests falls below zero, where release would panic (fifo.go).
THEOREM TypeOKHolds == Spec => []TypeOK
<1>1. Base /\ Loop => TypeOK
  <2> SUFFICES ASSUME Base, Loop PROVE TypeOK
    OBVIOUS
  <2> USE DEF Base, Shapes, Loop
  <2>0. IsFiniteSet(Requests)
    BY SchedulerAssumption DEF SchedulerAssumption
  <2>1. reserved \in [Models -> Nat]
    <3>1. ASSUME NEW m \in Models PROVE reserved[m] \in Nat
      <4>1. OwedBy(m) \subseteq Requests
        BY HeldTyped DEF OwedBy
      <4>2. Cardinality(OwedBy(m)) \in Nat
        BY <2>0, <4>1, FS_Subset, FS_CardinalityType
      <4>3. reserved[m] \in Int /\ Cardinality(OwedBy(m)) <= reserved[m]
        BY DEF QueueShape, Accounts
      <4> QED
        BY <4>2, <4>3
    <3> QED
      BY <3>1 DEF QueueShape
  <2>2. inFlight \in [Models -> Nat]
    <3>1. ASSUME NEW m \in Models PROVE inFlight[m] \in Nat
      <4>1. Cardinality(Serving(m)) \in Nat
        BY <2>0, FS_Subset, FS_CardinalityType DEF Serving
      <4>2. inFlight[m] \in Int /\ Cardinality(Serving(m)) <= inFlight[m]
        BY DEF ServeShape, Counted
      <4> QED
        BY <4>1, <4>2
    <3> QED
      BY <3>1 DEF ServeShape
  <2> QED
    BY <2>1, <2>2 DEF TypeOK, SwapShape, ServeShape, ProcShape, QueueShape
<1> QED
  BY <1>1, LoopHolds, PTL

\* Each admitted request owns one reservation of its model until it is served,
\* refused, cancelled or dropped, and the concurrency limit is never exceeded
\* (OnRequest, release), whatever races with a departing client.
THEOREM ReservationAccountingHolds == Spec => []ReservationAccounting
<1>1. Base /\ Loop => ReservationAccounting
  BY HoldingIs DEF ReservationAccounting, Loop, Accounts
<1> QED
  BY <1>1, LoopHolds, PTL

\* Every waiting request is in one place of the scheduler, from which an event
\* will take it: the queue, the waiters of a swap, or the answers under way; and
\* whenever requests are queued, such an event is outstanding.
THEOREM NoRequestLostHolds == Spec => []NoRequestLost
<1>1. Base /\ Loop => HeldOnce
  <2> SUFFICES ASSUME Base, Loop, ~down, NEW r \in Requests
               PROVE  /\ \A m \in Models : r \in waiters[m] => m = ModelOf[r] /\ m \in active
                      /\ Cardinality({h \in {<<1, QueueOf(queued)>>, <<2, QueueOf(pending)>>, <<3, toAnswer>>,
                             <<4, UNION {waiters[m] : m \in Models}>>} : r \in h[2]}) <= 1
    BY DEF HeldOnce
  <2> USE DEF Base, Shapes, Loop
  <2>1. \A m \in Models : r \in waiters[m] => m = ModelOf[r] /\ m \in active
    BY DEF WaitersOwn, WaitersActive
  <2> DEFINE H == {h \in {<<1, QueueOf(queued)>>, <<2, QueueOf(pending)>>, <<3, toAnswer>>,
                         <<4, Waiting>>} : r \in h[2]}
  <2>2. /\ QueueOf(Line) = QueueOf(queued) \cup QueueOf(pending)
        /\ QueueOf(queued) \cap QueueOf(pending) = {}
    BY QueueOfConcat DEF Line, QueueShape
  <2>3. \A g, h \in H : g = h
    BY <2>2 DEF Apart
  <2>4. H = {} \/ \E h : H = {h}
    <3> HIDE DEF H
    <3> SUFFICES ASSUME NEW h \in H PROVE H = {h}
      OBVIOUS
    <3> QED
      BY <2>3
  <2>5. Cardinality(H) <= 1
    <3> HIDE DEF H
    <3>1. CASE H = {}
      BY <3>1, FS_EmptySet
    <3>2. ASSUME NEW h, H = {h} PROVE Cardinality(H) <= 1
      <4>1. Cardinality({h}) = 1
        BY FS_Singleton
      <4> QED
        BY <3>2, <4>1
    <3> QED
      BY <2>4, <3>1, <3>2
  <2> QED
    BY <2>1, <2>5 DEF Waiting
<1>2. Loop => QueuedHasWaker
  BY DEF Loop, HasWaker, QueuedHasWaker
<1> QED
  BY <1>1, <1>2, LoopHolds, PTL DEF NoRequestLost

\* A client that waits for its answer waits for something: its request is in
\* the queue, among the waiters of a swap in progress, or about to be answered.
THEOREM WaitingIsHeld ==
  Spec => [](~down => \A r \in Requests : phase[r] = "waiting" =>
               \/ r \in QueueOf(queued) \cup QueueOf(pending) \cup toAnswer
               \/ \E m \in active : r \in waiters[m])
<1>1. Base /\ Loop => (~down => \A r \in Requests : phase[r] = "waiting" =>
                       \/ r \in QueueOf(queued) \cup QueueOf(pending) \cup toAnswer
                       \/ \E m \in active : r \in waiters[m])
  <2> SUFFICES ASSUME Base, Loop, ~down, NEW r \in Requests, phase[r] = "waiting"
               PROVE  \/ r \in QueueOf(queued) \cup QueueOf(pending) \cup toAnswer
                      \/ \E m \in active : r \in waiters[m]
    OBVIOUS
  <2>1. r \in Held
    BY DEF Loop, HeldWaits
  <2>2. QueueOf(Line) = QueueOf(queued) \cup QueueOf(pending)
    BY QueueOfConcat DEF Line, QueueShape, Loop
  <2>3. Waiting = UNION {waiters[m] : m \in active}
    BY WaitingIs DEF Base, Shapes, Loop
  <2> QED
    BY <2>1, <2>2, <2>3 DEF Held
<1> QED
  BY <1>1, LoopHolds, PTL

\* The queue is sorted by priority and first-in-first-out among equals (enqueue,
\* drainQueue): no step reorders what stays queued, and a newcomer goes behind
\* its equals.
THEOREM QueueFairOrderHolds == Spec => QueueFairOrder
<1>1. Base /\ Loop /\ [Next]_vars =>
        /\ \A i, j \in DOMAIN Line' :
             i < j => Priority[ModelOf[Line'[i]]] >= Priority[ModelOf[Line'[j]]]
        /\ \A r1, r2 \in QueueOf(Line') :
             /\ Before(Line, r1, r2) => Before(Line', r1, r2)
             /\ r1 \in QueueOf(Line) /\ r2 \notin QueueOf(Line)
                /\ Priority[ModelOf[r1]] = Priority[ModelOf[r2]] => Before(Line', r1, r2)
  <2> SUFFICES ASSUME Base, Loop, [Next]_vars
               PROVE  /\ \A i, j \in DOMAIN Line' :
                           i < j => Priority[ModelOf[Line'[i]]] >= Priority[ModelOf[Line'[j]]]
                      /\ \A r1, r2 \in QueueOf(Line') :
                           /\ Before(Line, r1, r2) => Before(Line', r1, r2)
                           /\ r1 \in QueueOf(Line) /\ r2 \notin QueueOf(Line)
                              /\ Priority[ModelOf[r1]] = Priority[ModelOf[r2]] => Before(Line', r1, r2)
    OBVIOUS
  <2>0. Line \in Seq(Requests)
    BY DEF Loop, QueueShape, Line
  <2>1. \A i, j \in DOMAIN Line' :
          i < j => Priority[ModelOf[Line'[i]]] >= Priority[ModelOf[Line'[j]]]
    BY LineStep DEF ByPriority
  <2>2. ASSUME NEW r1 \in QueueOf(Line'), NEW r2 \in QueueOf(Line')
        PROVE  /\ Before(Line, r1, r2) => Before(Line', r1, r2)
               /\ r1 \in QueueOf(Line) /\ r2 \notin QueueOf(Line)
                  /\ Priority[ModelOf[r1]] = Priority[ModelOf[r2]] => Before(Line', r1, r2)
    <3>1. CASE Line' = Line
      BY <3>1
    <3>2. ASSUME NEW r \in Requests, Line' = Enqueue(Line, r)
          PROVE  /\ Before(Line, r1, r2) => Before(Line', r1, r2)
                 /\ r1 \in QueueOf(Line) /\ r2 \notin QueueOf(Line)
                    /\ Priority[ModelOf[r1]] = Priority[ModelOf[r2]] => Before(Line', r1, r2)
      <4>1. r2 \in QueueOf(Line) \cup {r}
        BY <2>0, <3>2, EnqueueKeeps
      <4> QED
        BY <2>0, <3>2, <4>1, EnqueueKeeps DEF Loop
    <3>3. CASE Thins(Line', Line) /\ Line' \in Seq(Requests)
      BY <2>0, <3>3, ThinsKeeps DEF Loop
    <3> QED
      BY <3>1, <3>2, <3>3, LineMoves DEF Loop
  <2> QED
    BY <2>1, <2>2
<1> QED
  BY <1>1, LoopHolds, PTL DEF Spec, QueueFairOrder

=============================================================================
