----------------------- MODULE ProcessCommand_proofs -----------------------
(***************************************************************************)
(* Safety of ProcessCommand for every number of callers and of starts.     *)
(* The inductive invariant says which part of the run loop and of doStart  *)
(* owns an upstream process at each point: that is what makes "one at a    *)
(* time" and "Stopped means dead" preserved by each step.                  *)
(***************************************************************************)
EXTENDS ProcessCommand, FiniteSetTheorems, TLAPS

USE DEF TTLs, Starters, StopCalls, Callers, Threads

\* doStart runs exactly while the loop sits in the inner select or aborts it,
\* and has launched its process unless it is at "spawn".
StartOwned ==
  /\ start = "none" <=> loop \notin {"starting", "abortStop", "abortParent"}
  /\ start = "spawn" => starts < MaxStarts
  /\ start \in {"probe", "abort", "ok"} => starts > 0

\* What State() reports at each place of the loop.
StateOfLoop ==
  /\ loop = "select" => state = IF cmd = 0 THEN "stopped" ELSE "ready"
  /\ loop \in {"starting", "abortStop"} => state = "starting"
  /\ loop = "killStop" => state = "stopping"
  /\ loop \in {"abortParent", "killParent", "done"} => state = "shutdown"

\* The latched command is the latest one, and the loop is where it can kill it.
CmdOwned ==
  cmd # 0 => cmd = starts /\ loop \in {"select", "killStop", "killParent"}

\* A process runs only if it is the latest one, and somebody owns it.
AliveOwned ==
  /\ alive \subseteq {starts}
  /\ cmd = 0 /\ start \in {"none", "spawn", "failed"} => alive = {}

Ownership == StartOwned /\ StateOfLoop /\ CmdOwned /\ AliveOwned

\* The requests the in-flight counter counts.
Tracked == {s \in Servers : pc[s] \in {"proxied", "used"}}

Counted == inflight = Cardinality(Tracked)

IInv == TypeOK /\ Ownership /\ Counted

-----------------------------------------------------------------------------
\* The initial state satisfies the inductive invariant: nothing runs, no
\* request is in flight.
LEMMA InitIInv == Init => IInv
<1> SUFFICES ASSUME Init PROVE IInv
  OBVIOUS
<1> USE ConstantsAssumption DEF ConstantsAssumption
<1>1. TypeOK
  <2>1. LoopTypeOK
    BY DEF Init, LoopTypeOK, States, Loops, Starts
  <2>2. OSTypeOK /\ inflight \in Nat
    BY DEF Init, OSTypeOK
  <2>3. pc \in [Threads -> PCs]
    BY DEF Init, PCs
  <2>4. resp \in [Threads -> {"ok", "error", None}]
    BY DEF Init
  <2>5. FlagTypeOK
    BY DEF Init, FlagTypeOK
  <2>6. QED
    BY <2>1, <2>2, <2>3, <2>4, <2>5 DEF TypeOK, CallTypeOK
<1>2. Ownership
  BY DEF Init, Ownership, StartOwned, StateOfLoop, CmdOwned, AliveOwned
<1>3. Counted
  <2>1. Tracked = {}
    BY DEF Init, Tracked
  <2>2. QED
    BY <2>1, FS_EmptySet DEF Init, Counted
<1>4. QED
  BY <1>1, <1>2, <1>3 DEF IInv

-----------------------------------------------------------------------------
\* Whatever is answered to whom, the response channels stay well typed.
LEMMA AnswerType ==
  ASSUME CallTypeOK, NEW oks, NEW errs, Answer(oks, errs)
  PROVE  resp' \in [Threads -> {"ok", "error", None}]
  BY DEF CallTypeOK, Answer

\* Ownership of the upstream process moves only as the code's branches say.
LEMMA OwnershipStep == TypeOK /\ Ownership /\ [Next]_vars => Ownership'
<1> SUFFICES ASSUME TypeOK, Ownership, [Next]_vars PROVE Ownership'
  OBVIOUS
<1> USE ConstantsAssumption DEF ConstantsAssumption, TypeOK, LoopTypeOK, OSTypeOK,
        Ownership, StartOwned, StateOfLoop, CmdOwned, AliveOwned
<1>1. ASSUME NEW s \in Subscribers, RecvWaitReady(s) PROVE Ownership'
  BY <1>1 DEF RecvWaitReady, startVars, osVars
<1>2. ASSUME NEW c \in Starters, RecvStartSettled(c) PROVE Ownership'
  BY <1>2 DEF RecvStartSettled, loopVars, startVars, osVars
<1>3. ASSUME NEW c \in Starters, RecvStart(c) PROVE Ownership'
  BY <1>3 DEF RecvStart, osVars
<1>4. CASE StartReady
  BY <1>4 DEF StartReady, osVars
<1>5. CASE StartFailed
  BY <1>5 DEF StartFailed, osVars
<1>6. CASE StartAborted
  BY <1>6 DEF StartAborted, StartUndone, osVars
<1>7. CASE ParentDoneStarting
  BY <1>7 DEF ParentDoneStarting, osVars
<1>8. CASE StartShutdown
  BY <1>8 DEF StartShutdown, StartUndone, osVars
<1>9. ASSUME NEW s \in StopCalls, RecvStopStarting(s) PROVE Ownership'
  BY <1>9 DEF RecvStopStarting, osVars
<1>10. ASSUME NEW s \in StopCalls, RecvStop(s) PROVE Ownership'
  BY <1>10 DEF RecvStop, startVars, osVars
<1>11. ASSUME NEW s \in StopCalls, RecvStopIdle(s) PROVE Ownership'
  BY <1>11 DEF RecvStopIdle, startVars, osVars
<1>12. CASE StopDone
  BY <1>12 DEF StopDone, startVars, osVars
<1>13. CASE UpstreamGone
  BY <1>13 DEF UpstreamGone, startVars, osVars
<1>14. CASE ParentDone
  BY <1>14 DEF ParentDone, startVars, osVars
<1>15. CASE ShutdownDone
  BY <1>15 DEF ShutdownDone, startVars, osVars
<1>16. CASE SpawnFails
  BY <1>16 DEF SpawnFails, loopVars, osVars
<1>17. CASE Spawn
  BY <1>17 DEF Spawn, loopVars
<1>18. CASE Probe
  BY <1>18 DEF Probe, loopVars, osVars
<1>19. CASE Aborted
  BY <1>19 DEF Aborted, loopVars, osVars
<1>20. CASE Escalate
  BY <1>20 DEF Escalate, loopVars, startVars
<1>21. ASSUME NEW i \in TTLs, Exit(i) PROVE Ownership'
  BY <1>21 DEF Exit, loopVars, startVars
<1>22. CASE UNCHANGED <<loopVars, startVars, osVars>>
  BY <1>22 DEF loopVars, startVars, osVars
<1>23. CASE Caller \/ Serve \/ Terminated \/ UNCHANGED vars
  <2>1. UNCHANGED <<loopVars, startVars, osVars>>
    BY <1>23 DEF Caller, Serve, Terminated, vars, Call, CancelCtx, SeeParentDone, Abandon,
       Return, CancelParent, ServeLoad, ServeEnter, ServeUsed, ServeLeave, ServeStep,
       Elapse, TTLTick, TTLStep
  <2>2. QED
    BY <2>1, <1>22
<1>24. QED
  BY <1>1, <1>2, <1>3, <1>4, <1>5, <1>6, <1>7, <1>8, <1>9, <1>10, <1>11, <1>12, <1>13,
     <1>14, <1>15, <1>16, <1>17, <1>18, <1>19, <1>20, <1>21, <1>23
     DEF Next, Loop, DoStart
-----------------------------------------------------------------------------
\* The variables of run() and doStart stay well typed.
LEMMA LoopTypeStep == TypeOK /\ Ownership /\ [Next]_vars => LoopTypeOK'
<1> SUFFICES ASSUME TypeOK, Ownership, [Next]_vars PROVE LoopTypeOK'
  OBVIOUS
<1> USE DEF TypeOK, LoopTypeOK, States, Loops, Starts
<1>1. CASE Loop
  <2>1. ASSUME NEW s \in Subscribers, RecvWaitReady(s) PROVE LoopTypeOK'
    BY <2>1 DEF RecvWaitReady, startVars
  <2>2. ASSUME NEW c \in Starters, RecvStartSettled(c) \/ RecvStart(c) PROVE LoopTypeOK'
    BY <2>2 DEF RecvStartSettled, RecvStart, loopVars, startVars
  <2>3. CASE StartReady
    BY <2>3 DEF StartReady, OSTypeOK
  <2>4. CASE StartFailed \/ StartAborted \/ StartShutdown
    BY <2>4 DEF StartFailed, StartAborted, StartShutdown
  <2>5. CASE ParentDoneStarting
    BY <2>5 DEF ParentDoneStarting
  <2>6. ASSUME NEW s \in StopCalls, RecvStopStarting(s) \/ RecvStop(s) \/ RecvStopIdle(s)
        PROVE  LoopTypeOK'
    BY <2>6 DEF RecvStopStarting, RecvStop, RecvStopIdle, startVars
  <2>7. CASE StopDone \/ UpstreamGone \/ ParentDone \/ ShutdownDone
    BY <2>7, ConstantsAssumption
       DEF StopDone, UpstreamGone, ParentDone, ShutdownDone, startVars, ConstantsAssumption
  <2>8. QED
    BY <1>1, <2>1, <2>2, <2>3, <2>4, <2>5, <2>6, <2>7 DEF Loop
<1>2. CASE DoStart
  BY <1>2 DEF DoStart, SpawnFails, Spawn, Probe, Aborted, loopVars
<1>3. CASE UNCHANGED <<loopVars, startVars>>
  BY <1>3 DEF loopVars, startVars
<1>4. CASE Escalate \/ (\E i \in TTLs : Exit(i)) \/ Caller \/ Serve \/ Terminated \/ UNCHANGED vars
  <2>1. UNCHANGED <<loopVars, startVars>>
    BY <1>4 DEF Escalate, Exit, Caller, Serve, Terminated, vars, Call, CancelCtx,
       SeeParentDone, Abandon, Return, CancelParent, ServeLoad, ServeEnter, ServeUsed,
       ServeLeave, ServeStep, Elapse, TTLTick, TTLStep
  <2>2. QED
    BY <2>1, <1>3
<1>5. QED
  BY <1>1, <1>2, <1>4 DEF Next

\* The operating system's side: an incarnation more only when there is room for it.
LEMMA OSTypeStep == TypeOK /\ Ownership /\ [Next]_vars => OSTypeOK'
<1> SUFFICES ASSUME TypeOK, Ownership, [Next]_vars PROVE OSTypeOK'
  OBVIOUS
<1> USE DEF TypeOK, OSTypeOK
<1>1. CASE Spawn
  BY <1>1, ConstantsAssumption DEF Spawn, Ownership, StartOwned, ConstantsAssumption
<1>2. CASE Escalate
  BY <1>2 DEF Escalate
<1>3. ASSUME NEW i \in TTLs, Exit(i) PROVE OSTypeOK'
  BY <1>3 DEF Exit
<1>4. CASE Loop \/ SpawnFails \/ Probe \/ Aborted \/ Caller \/ Serve \/ Terminated \/ UNCHANGED vars
  <2>1. UNCHANGED osVars
    BY <1>4 DEF Loop, RecvWaitReady, RecvStartSettled, RecvStart, StartReady, StartFailed,
       StartAborted, ParentDoneStarting, StartShutdown, RecvStopStarting, RecvStop,
       RecvStopIdle, StopDone, UpstreamGone, ParentDone, ShutdownDone, SpawnFails, Probe,
       Aborted, Caller, Serve, Terminated, vars, Call, CancelCtx, SeeParentDone, Abandon,
       Return, CancelParent, ServeLoad, ServeEnter, ServeUsed, ServeLeave, ServeStep,
       Elapse, TTLTick, TTLStep
  <2>2. QED
    BY <2>1 DEF osVars
<1>5. QED
  BY <1>1, <1>2, <1>3, <1>4 DEF Next, DoStart

\* The booleans stay booleans.
LEMMA FlagTypeStep == TypeOK /\ [Next]_vars => FlagTypeOK'
<1> SUFFICES ASSUME FlagTypeOK, [Next]_vars PROVE FlagTypeOK'
  BY DEF TypeOK
<1>1. cancelled' \in BOOLEAN
  BY DEF FlagTypeOK, Next, Loop, RecvWaitReady, RecvStartSettled, RecvStart, StartReady,
     StartFailed, StartAborted, ParentDoneStarting, StartShutdown, RecvStopStarting,
     RecvStop, RecvStopIdle, StopDone, UpstreamGone, ParentDone, ShutdownDone, DoStart,
     SpawnFails, Spawn, Probe, Aborted, Escalate, Exit, Caller, Serve, Terminated, Call,
     CancelCtx, SeeParentDone, Abandon, Return, CancelParent, ServeLoad, ServeEnter,
     ServeUsed, ServeLeave, ServeStep, Elapse, TTLTick, TTLStep, startVars, vars
<1>2. parentDone' \in BOOLEAN
  BY DEF FlagTypeOK, Next, Loop, RecvWaitReady, RecvStartSettled, RecvStart, StartReady,
     StartFailed, StartAborted, ParentDoneStarting, StartShutdown, RecvStopStarting,
     RecvStop, RecvStopIdle, StopDone, UpstreamGone, ParentDone, ShutdownDone, DoStart,
     SpawnFails, Spawn, Probe, Aborted, Escalate, Exit, Caller, Serve, Terminated, Call,
     CancelCtx, SeeParentDone, Abandon, Return, CancelParent, ServeLoad, ServeEnter,
     ServeUsed, ServeLeave, ServeStep, Elapse, TTLTick, TTLStep, vars
<1>3. idle' \in BOOLEAN
  BY DEF FlagTypeOK, Next, Loop, RecvWaitReady, RecvStartSettled, RecvStart, StartReady,
     StartFailed, StartAborted, ParentDoneStarting, StartShutdown, RecvStopStarting,
     RecvStop, RecvStopIdle, StopDone, UpstreamGone, ParentDone, ShutdownDone, DoStart,
     SpawnFails, Spawn, Probe, Aborted, Escalate, Exit, Caller, Serve, Terminated, Call,
     CancelCtx, SeeParentDone, Abandon, Return, CancelParent, ServeLoad, ServeEnter,
     ServeUsed, ServeLeave, ServeStep, Elapse, TTLTick, TTLStep, useVars, vars
<1>4. QED
  BY <1>1, <1>2, <1>3 DEF FlagTypeOK
\* Program counters and answers stay well typed.
LEMMA CallTypeStep == TypeOK /\ Ownership /\ [Next]_vars => CallTypeOK'
<1> SUFFICES ASSUME TypeOK, Ownership, [Next]_vars PROVE CallTypeOK'
  OBVIOUS
<1> USE DEF TypeOK
<1>1. CASE Loop
  <2>1. pc' \in [Threads -> PCs]
    BY <1>1 DEF CallTypeOK, PCs, Loop, Received, RecvWaitReady, RecvStartSettled, RecvStart,
       StartReady, StartFailed, StartAborted, ParentDoneStarting, StartShutdown,
       RecvStopStarting, RecvStop, RecvStopIdle, StopDone, UpstreamGone, ParentDone,
       ShutdownDone, callVars
  <2>2. resp' = resp \/ \E oks, errs : Answer(oks, errs)
    BY <1>1 DEF Loop, RecvWaitReady, RecvStartSettled, RecvStart, StartReady, StartFailed,
       StartAborted, ParentDoneStarting, StartShutdown, RecvStopStarting, RecvStop,
       RecvStopIdle, StopDone, UpstreamGone, ParentDone, ShutdownDone, callVars
  <2>3. QED
    BY <2>1, <2>2, AnswerType DEF CallTypeOK
<1>2. CASE DoStart \/ Escalate \/ (\E i \in TTLs : Exit(i)) \/ Terminated \/ UNCHANGED vars
  BY <1>2 DEF CallTypeOK, DoStart, SpawnFails, Spawn, Probe, Aborted, Escalate, Exit,
     Terminated, callVars, vars
<1>3. CASE Caller
  BY <1>3 DEF CallTypeOK, PCs, Caller, Call, CancelCtx, SeeParentDone, Abandon, Return,
     CancelParent, callVars
<1>4. CASE Serve
  BY <1>4 DEF CallTypeOK, PCs, Serve, ServeLoad, ServeEnter, ServeUsed, ServeLeave,
     ServeStep, Elapse, TTLTick, TTLStep, callVars
<1>5. QED
  BY <1>1, <1>2, <1>3, <1>4 DEF Next

-----------------------------------------------------------------------------
\* The tracked requests are finitely many, so they can be counted.
LEMMA TrackedFinite == IsFiniteSet(Tracked) /\ Cardinality(Tracked) \in Nat
<1>1. IsFiniteSet(Tracked)
  BY ConstantsAssumption, FS_Subset DEF ConstantsAssumption, Tracked
<1>2. QED
  BY <1>1, FS_CardinalityType

\* A step that moves no request in or out of the counter leaves it right.
LEMMA CountedFrame ==
  ASSUME Counted, inflight' = inflight,
         \A s \in Servers : pc'[s] \in {"proxied", "used"} <=> pc[s] \in {"proxied", "used"}
  PROVE  Counted'
<1>1. Tracked' = Tracked
  BY DEF Tracked
<1>2. QED
  BY <1>1 DEF Counted

\* ServeHTTP's deferred decrement matches its increment on every path.
LEMMA CountedStep == TypeOK /\ Ownership /\ Counted /\ [Next]_vars => Counted'
<1> SUFFICES ASSUME TypeOK, Ownership, Counted, [Next]_vars PROVE Counted'
  OBVIOUS
<1> USE DEF TypeOK, CallTypeOK
<1>1. CASE Loop
  <2>1. \A s \in Servers : pc'[s] = pc[s]
    <3>1. CASE StartReady
      <4>1. starts \in TTLs
        BY <3>1, ConstantsAssumption
           DEF StartReady, ConstantsAssumption, Ownership, StartOwned, OSTypeOK
      <4>2. starts \notin Servers
        BY <4>1, ConstantsAssumption DEF ConstantsAssumption
      <4>3. pc' = pc \/ pc' = [pc EXCEPT ![starts] = "tick"]
        BY <3>1 DEF StartReady
      <4>4. QED
        BY <4>2, <4>3
    <3>2. CASE ~StartReady
      <4>1. \/ pc' = pc
            \/ \E t \in Starters \cup Subscribers \cup StopCalls : Received(t)
        BY <1>1, <3>2 DEF Loop, RecvWaitReady, RecvStartSettled, RecvStart,
           StartFailed, StartAborted, ParentDoneStarting, StartShutdown, RecvStopStarting,
           RecvStop, RecvStopIdle, StopDone, UpstreamGone, ParentDone, ShutdownDone, callVars
      <4>2. QED
        BY <4>1, ConstantsAssumption DEF ConstantsAssumption, Received
    <3>3. QED
      BY <3>1, <3>2
  <2>2. inflight' = inflight
    BY <1>1 DEF Loop, RecvWaitReady, RecvStartSettled, RecvStart, StartReady, StartFailed,
       StartAborted, ParentDoneStarting, StartShutdown, RecvStopStarting, RecvStop,
       RecvStopIdle, StopDone, UpstreamGone, ParentDone, ShutdownDone, useVars
  <2>3. QED
    BY <2>1, <2>2, CountedFrame
<1>2. CASE DoStart \/ Escalate \/ (\E i \in TTLs : Exit(i)) \/ Terminated \/ UNCHANGED vars
  <2>1. pc' = pc /\ inflight' = inflight
    BY <1>2 DEF DoStart, SpawnFails, Spawn, Probe, Aborted, Escalate, Exit, Terminated,
       callVars, useVars, vars
  <2>2. QED
    BY <2>1, CountedFrame
<1>3. CASE Caller
  <2>1. inflight' = inflight
    BY <1>3 DEF Caller, Call, CancelCtx, SeeParentDone, Abandon, Return, CancelParent, useVars
  <2>2. \A s \in Servers : pc'[s] = pc[s]
    BY <1>3, ConstantsAssumption DEF ConstantsAssumption, Caller, Call, CancelCtx,
       SeeParentDone, Abandon, Return, CancelParent, callVars
  <2>3. QED
    BY <2>1, <2>2, CountedFrame
<1>4. ASSUME NEW s \in Servers,
             ServeLoad(s) \/ ServeUsed(s) \/ ServeStep(s, "loaded", "untracked")
                          \/ ServeStep(s, "untracked", "idle"),
             inflight' = inflight
      PROVE  Counted'
  BY <1>4, CountedFrame DEF ServeLoad, ServeUsed, ServeStep
<1>5. ASSUME NEW s \in Servers, ServeStep(s, "loaded", "proxied"), inflight' = inflight + 1
      PROVE  Counted'
  <2>1. s \notin Tracked /\ Tracked' = Tracked \cup {s}
    BY <1>5 DEF ServeStep, Tracked
  <2>2. QED
    BY <2>1, <1>5, TrackedFinite, FS_AddElement DEF Counted
<1>6. ASSUME NEW s \in Servers, ServeStep(s, "used", "idle"), inflight' = inflight - 1
      PROVE  Counted'
  <2>1. s \in Tracked /\ Tracked' = Tracked \ {s}
    BY <1>6 DEF ServeStep, Tracked
  <2>2. QED
    BY <2>1, <1>6, TrackedFinite, FS_RemoveElement DEF Counted
<1>7. CASE Elapse \/ \E i \in TTLs : TTLTick(i)
  <2>1. inflight' = inflight
    BY <1>7 DEF Elapse, TTLTick, TTLStep, useVars
  <2>2. \A s \in Servers : pc'[s] = pc[s]
    BY <1>7, ConstantsAssumption
       DEF ConstantsAssumption, Elapse, TTLTick, TTLStep, callVars
  <2>3. QED
    BY <2>1, <2>2, CountedFrame
<1>8. QED
  BY <1>1, <1>2, <1>3, <1>4, <1>5, <1>6, <1>7
     DEF Next, Serve, ServeLoad, ServeUsed, ServeEnter, ServeLeave

\* The invariant is inductive.
LEMMA NextIInv == IInv /\ [Next]_vars => IInv'
<1> SUFFICES ASSUME IInv, [Next]_vars PROVE IInv'
  OBVIOUS
<1>1. Ownership' /\ LoopTypeOK' /\ OSTypeOK' /\ FlagTypeOK' /\ CallTypeOK' /\ Counted'
  BY OwnershipStep, LoopTypeStep, OSTypeStep, FlagTypeStep, CallTypeStep, CountedStep DEF IInv
<1>2. inflight' \in Nat
  <2>1. IsFiniteSet(Tracked')
    BY ConstantsAssumption, FS_Subset DEF ConstantsAssumption, Tracked
  <2>2. QED
    BY <1>1, <2>1, FS_CardinalityType DEF Counted
<1>3. QED
  BY <1>1, <1>2 DEF IInv, TypeOK

\* Every reachable state satisfies it.
LEMMA Invariant == Spec => []IInv
  BY InitIInv, NextIInv, PTL DEF Spec

-----------------------------------------------------------------------------
\* Every variable keeps its type; in particular the in-flight counter, which
\* requests decrement on their own, never drops below zero.
THEOREM TypeCorrect == Spec => []TypeOK
<1>1. IInv => TypeOK
  BY DEF IInv
<1>2. QED
  BY <1>1, Invariant, PTL

\* No two upstream processes of one model ever run together.
THEOREM OneUpstreamHolds == Spec => []OneUpstream
<1>1. IInv => OneUpstream
  BY DEF IInv, Ownership, AliveOwned, OneUpstream
<1>2. QED
  BY <1>1, Invariant, PTL

\* When State() says Stopped, or run() has returned, nothing runs.
THEOREM StoppedMeansDownHolds == Spec => []StoppedMeansDown
<1>1. IInv => StoppedMeansDown
  BY DEF IInv, Ownership, StartOwned, StateOfLoop, CmdOwned, AliveOwned, StoppedMeansDown,
     TypeOK, LoopTypeOK, Loops
<1>2. QED
  BY <1>1, Invariant, PTL

\* The TTL goroutine never reads zero while a request it must spare is being
\* counted or has not stored lastUse yet.
THEOREM InflightCoversUseHolds == Spec => []InflightCoversUse
<1>1. IInv => InflightCoversUse
  <2> SUFFICES ASSUME IInv, inflight = 0 PROVE Tracked = {}
    BY DEF InflightCoversUse, Tracked
  <2>1. QED
    BY TrackedFinite, FS_EmptySet DEF IInv, Counted
<1>2. QED
  BY <1>1, Invariant, PTL
-----------------------------------------------------------------------------
\* Each step of run(), doStart or the upstream process is a step of the
\* lifecycle the Process interface promises, or leaves it unchanged.
LEMMA LifecycleStep == IInv /\ [Next]_vars => [Lifecycle!Next]_(Lifecycle!vars)
<1> SUFFICES ASSUME IInv, [Next]_vars PROVE [Lifecycle!Next]_(Lifecycle!vars)
  OBVIOUS
<1> USE DEF IInv, TypeOK, LoopTypeOK, OSTypeOK, Ownership, StartOwned, StateOfLoop,
        CmdOwned, AliveOwned, Loops
<1>1. CASE UNCHANGED <<state, alive>>
  BY <1>1 DEF Lifecycle!vars
<1>2. ASSUME NEW c \in Starters, RecvStart(c) PROVE Lifecycle!Begin
  BY <1>2 DEF RecvStart, osVars, Lifecycle!Begin
<1>3. CASE StartReady
  <2>1. Lifecycle!Become
    BY <1>3 DEF StartReady, osVars, Lifecycle!Become
  <2>2. QED
    BY <2>1 DEF Lifecycle!Next
<1>4. CASE StartFailed \/ StartAborted
  <2>1. alive = {} /\ alive' = alive
    BY <1>4 DEF StartFailed, StartAborted, StartUndone, osVars
  <2>2. state = "starting" /\ state' = "stopped"
    BY <1>4 DEF StartFailed, StartAborted
  <2>3. QED
    BY <2>1, <2>2 DEF Lifecycle!Next, Lifecycle!Settle
<1>5. CASE ParentDoneStarting \/ ParentDone
  <2>1. state # "shutdown" /\ state' = "shutdown" /\ alive' = alive
    BY <1>5 DEF ParentDoneStarting, ParentDone, osVars
  <2>2. QED
    BY <2>1 DEF Lifecycle!Next, Lifecycle!Shut
<1>6. ASSUME NEW s \in StopCalls, RecvStop(s) PROVE Lifecycle!BeginStop
  BY <1>6 DEF RecvStop, osVars, Lifecycle!BeginStop
<1>7. CASE StopDone \/ UpstreamGone
  <2>1. alive = {} /\ alive' = alive
    BY <1>7 DEF StopDone, UpstreamGone, osVars
  <2>2. state \in {"ready", "stopping"} /\ state' = "stopped"
    BY <1>7 DEF StopDone, UpstreamGone
  <2>3. QED
    BY <2>1, <2>2 DEF Lifecycle!Next, Lifecycle!Settle
<1>8. CASE Spawn
  <2>1. alive = {} /\ alive' # {} /\ state \in {"starting", "shutdown"} /\ state' = state
    BY <1>8 DEF Spawn, loopVars
  <2>2. QED
    BY <2>1 DEF Lifecycle!Next, Lifecycle!Launch
<1>9. ASSUME NEW i \in TTLs, Exit(i) PROVE Lifecycle!Die
  <2>1. alive # {} /\ alive' = {} /\ state' = state
    BY <1>9 DEF Exit, loopVars
  <2>2. QED
    BY <2>1 DEF Lifecycle!Die
<1>10. \/ UNCHANGED <<state, alive>>
       \/ \E c \in Starters : RecvStart(c)
       \/ StartReady \/ StartFailed \/ StartAborted \/ ParentDoneStarting \/ ParentDone
       \/ \E s \in StopCalls : RecvStop(s)
       \/ StopDone \/ UpstreamGone \/ Spawn
       \/ \E i \in TTLs : Exit(i)
  BY DEF Next, Loop, RecvWaitReady, RecvStartSettled, StartShutdown, RecvStopStarting,
     RecvStopIdle, ShutdownDone, DoStart, SpawnFails, Probe, Aborted, Escalate, Caller,
     Serve, Terminated, Call, CancelCtx, SeeParentDone, Abandon, Return, CancelParent,
     ServeLoad, ServeEnter, ServeUsed, ServeLeave, ServeStep, Elapse, TTLTick, TTLStep,
     loopVars, osVars, vars
<1>11. QED
  BY <1>1, <1>2, <1>3, <1>4, <1>5, <1>6, <1>7, <1>8, <1>9, <1>10 DEF Lifecycle!Next

\* ProcessCommand implements the lifecycle of process.go.
THEOREM LifecycleImplemented == Spec => ImplementsLifecycle
<1>1. Init => Lifecycle!Init
  BY DEF Init, Lifecycle!Init
<1>2. QED
  BY <1>1, LifecycleStep, Invariant, PTL DEF Spec, ImplementsLifecycle, Lifecycle!Spec

-----------------------------------------------------------------------------
\* Until the loop is told to shut down, the handler ServeHTTP loads is the one
\* of the latched command: only ParentDone withdraws it before the process is dead.
HandlerLatched == loop \notin {"killParent", "done"} => handler = cmd

\* A step outside run() touches nothing that run() owns.
LEMMA LoopFrame ==
  ASSUME [Next]_vars, ~Loop
  PROVE  <<loop, cmd, handler, waiters, runResp>>' = <<loop, cmd, handler, waiters, runResp>>
         /\ state' = state
<1>1. CASE DoStart
  BY <1>1 DEF DoStart, SpawnFails, Spawn, Probe, Aborted, loopVars
<1>2. CASE Escalate \/ \E i \in TTLs : Exit(i)
  BY <1>2 DEF Escalate, Exit, loopVars
<1>3. CASE Caller
  BY <1>3 DEF Caller, Call, CancelCtx, SeeParentDone, Abandon, Return, CancelParent, loopVars
<1>4. CASE Serve
  BY <1>4 DEF Serve, ServeLoad, ServeEnter, ServeUsed, ServeLeave, ServeStep, Elapse,
     TTLTick, TTLStep, loopVars
<1>5. CASE Terminated \/ UNCHANGED vars
  BY <1>5 DEF Terminated, vars, loopVars
<1>6. QED
  BY <1>1, <1>2, <1>3, <1>4, <1>5 DEF Next

\* Every branch of run() that changes the command changes the handler with it.
LEMMA HandlerStep == HandlerLatched /\ [Next]_vars => HandlerLatched'
<1> SUFFICES ASSUME HandlerLatched, [Next]_vars PROVE HandlerLatched'
  OBVIOUS
<1> USE DEF HandlerLatched
<1>1. CASE Loop
  <2>1. ASSUME NEW t \in Subscribers, RecvWaitReady(t) PROVE HandlerLatched'
    BY <2>1 DEF RecvWaitReady
  <2>2. ASSUME NEW t \in Starters, RecvStartSettled(t) \/ RecvStart(t) PROVE HandlerLatched'
    BY <2>2 DEF RecvStartSettled, RecvStart, loopVars
  <2>3. CASE StartReady \/ StopDone \/ UpstreamGone
    BY <2>3 DEF StartReady, StopDone, UpstreamGone
  <2>4. CASE StartFailed \/ StartAborted \/ ParentDoneStarting
    BY <2>4 DEF StartFailed, StartAborted, ParentDoneStarting
  <2>5. CASE StartShutdown \/ ParentDone \/ ShutdownDone
    BY <2>5 DEF StartShutdown, ParentDone, ShutdownDone
  <2>6. ASSUME NEW t \in StopCalls, RecvStopStarting(t) \/ RecvStop(t) \/ RecvStopIdle(t)
        PROVE  HandlerLatched'
    BY <2>6 DEF RecvStopStarting, RecvStop, RecvStopIdle
  <2>7. QED
    BY <1>1, <2>1, <2>2, <2>3, <2>4, <2>5, <2>6 DEF Loop
<1>2. CASE ~Loop
  BY <1>2, LoopFrame
<1>3. QED
  BY <1>1, <1>2

\* A subscriber is parked only while the outcome is open: the step that makes
\* the process ready and the steps that end the loop take the whole list along.
LEMMA WaitersStep == NoStrandedWaiter /\ [Next]_vars => NoStrandedWaiter'
<1> SUFFICES ASSUME NoStrandedWaiter, [Next]_vars PROVE NoStrandedWaiter'
  OBVIOUS
<1>1. CASE Loop
  BY <1>1 DEF NoStrandedWaiter, Loop, RecvWaitReady, RecvStartSettled, RecvStart, StartReady, StartFailed,
     StartAborted, ParentDoneStarting, StartShutdown, RecvStopStarting, RecvStop,
     RecvStopIdle, StopDone, UpstreamGone, ParentDone, ShutdownDone, loopVars
<1>2. CASE ~Loop
  BY <1>2, LoopFrame DEF NoStrandedWaiter
<1>3. QED
  BY <1>1, <1>2

\* Nobody stays parked on a ready process, nor once run() has returned (the
\* comment at process_command.go:220).
THEOREM NoStrandedWaiterHolds == Spec => []NoStrandedWaiter
<1>1. Init => NoStrandedWaiter
  BY DEF Init, NoStrandedWaiter
<1>2. QED
  BY <1>1, WaitersStep, PTL DEF Spec

LEMMA HandlerIsLatched == Spec => []HandlerLatched
<1>1. Init => HandlerLatched
  BY DEF Init, HandlerLatched
<1>2. QED
  BY <1>1, HandlerStep, PTL DEF Spec

-----------------------------------------------------------------------------
\* What one Answer gives: success only to those it names, and anything only to
\* those it names.
LEMMA AnswerGives ==
  ASSUME NEW oks, NEW errs, Answer(oks, errs), NEW t \in Threads, resp[t] = None
  PROVE  /\ resp'[t] # None => t \in oks \cup errs
         /\ resp'[t] = "ok" => t \in oks \/ resp[t] = "ok"
  BY DEF Answer

\* A step outside run() gives no answer: it only takes answers away.
LEMMA NoAnswerOutside ==
  ASSUME TypeOK, [Next]_vars, ~Loop, NEW t \in Threads, resp[t] = None
  PROVE  resp'[t] = None
<1> USE DEF TypeOK, CallTypeOK
<1>1. CASE DoStart
  BY <1>1 DEF DoStart, SpawnFails, Spawn, Probe, Aborted, callVars
<1>2. CASE Escalate \/ \E i \in TTLs : Exit(i)
  BY <1>2 DEF Escalate, Exit, callVars
<1>3. CASE Caller
  BY <1>3 DEF Caller, Call, CancelCtx, SeeParentDone, Abandon, Return, CancelParent, callVars
<1>4. CASE Serve
  BY <1>4 DEF Serve, ServeLoad, ServeEnter, ServeUsed, ServeLeave, ServeStep, Elapse,
     TTLTick, TTLStep, callVars
<1>5. CASE Terminated \/ UNCHANGED vars
  BY <1>5 DEF Terminated, vars, callVars
<1>6. QED
  BY <1>1, <1>2, <1>3, <1>4, <1>5 DEF Next

\* Stop is answered only by the steps that have just seen the process dead, or
\* found none: the aborted start, the finished kill, the idle loop.
LEMMA StopAnsweredDown ==
  ASSUME TypeOK, Ownership, [Next]_vars,
         NEW s \in StopCalls, resp[s] = None, resp'[s] # None
  PROVE  alive' = {}
<1> USE ConstantsAssumption DEF ConstantsAssumption
<1>1. Loop
  BY NoAnswerOutside
<1>2. s \in Threads /\ s \notin Starters /\ s \notin Subscribers /\ s # None
  OBVIOUS
<1> USE DEF TypeOK, LoopTypeOK
<1> HIDE DEF Threads, StopCalls, Starters, TTLs, Callers
<1>3. starter # s /\ runResp # s /\ s \notin waiters
  BY <1>2, Zenon DEF Starters
<1>4. CASE StartAborted \/ StopDone \/ \E t \in StopCalls : RecvStopIdle(t)
  BY <1>4 DEF StartAborted, StartUndone, StopDone, RecvStopIdle, osVars, startVars, OSTypeOK,
     Ownership, StartOwned, CmdOwned, AliveOwned
<1>5. CASE \E t \in Subscribers : RecvWaitReady(t)
  <2>1. PICK t \in Subscribers : RecvWaitReady(t)
    BY <1>5
  <2>2. resp' = resp \/ Answer({t}, {}) \/ Answer({}, {t})
    BY <2>1 DEF RecvWaitReady
  <2>3. QED
    BY <2>2, <1>2, AnswerGives
<1>6. CASE \E c \in Starters : RecvStartSettled(c) \/ RecvStart(c)
  <2>1. PICK c \in Starters : RecvStartSettled(c) \/ RecvStart(c)
    BY <1>6
  <2>2. resp' = resp \/ Answer({c}, {}) \/ Answer({}, {c})
    BY <2>1 DEF RecvStartSettled, RecvStart
  <2>3. QED
    BY <2>2, <1>2, AnswerGives
<1>7. CASE StartReady
  <2>1. Answer(waiters, {}) \/ Answer(waiters \cup {starter}, {})
    BY <1>7 DEF StartReady
  <2>2. QED
    BY <2>1, <1>2, <1>3, AnswerGives
<1>8. CASE StartFailed
  <2>1. Answer({}, waiters \cup {starter})
    BY <1>8 DEF StartFailed
  <2>2. QED
    BY <2>1, <1>2, <1>3, AnswerGives
<1>9. CASE StartShutdown \/ UpstreamGone \/ ShutdownDone
  <2>1. Answer({}, waiters \cup {runResp})
    BY <1>9 DEF StartShutdown, UpstreamGone, ShutdownDone
  <2>2. QED
    BY <2>1, <1>2, <1>3, AnswerGives
<1>10. CASE ParentDoneStarting \/ ParentDone
            \/ \E t \in StopCalls : RecvStopStarting(t) \/ RecvStop(t)
  BY <1>10 DEF ParentDoneStarting, ParentDone, RecvStopStarting, RecvStop, callVars
<1>11. QED
  BY <1>1, <1>4, <1>5, <1>6, <1>7, <1>8, <1>9, <1>10 DEF Loop

\* Success reaches an EnsureReady or a WaitReady only from the loop that is
\* ready, or in the step that becomes ready; both have a handler.
LEMMA OkMeansReady ==
  ASSUME TypeOK, Ownership, HandlerLatched, [Next]_vars,
         NEW c \in Ensurers \cup Subscribers, resp[c] = None, resp'[c] = "ok"
  PROVE  state' = "ready" /\ handler' # 0
<1> USE ConstantsAssumption DEF ConstantsAssumption
<1>0. resp'[c] # None
  OBVIOUS
<1>1. Loop
  BY <1>0, NoAnswerOutside
<1>2. c \in Threads /\ c \notin StopCalls /\ c \notin Runners /\ c # None
  OBVIOUS
<1> USE DEF TypeOK, LoopTypeOK
<1> HIDE DEF Threads, StopCalls, Starters, TTLs, Callers
<1>3. runResp # c /\ stopper # c
  BY <1>2, Zenon
<1>4. CASE StartReady
  BY <1>4 DEF StartReady, Ownership, StartOwned, OSTypeOK
<1>5. CASE \E t \in Subscribers : RecvWaitReady(t)
  <2>1. PICK t \in Subscribers : RecvWaitReady(t)
    BY <1>5
  <2>2. CASE state = "ready"
    BY <2>1, <2>2 DEF RecvWaitReady, Ownership, StateOfLoop, HandlerLatched
  <2>3. CASE state # "ready"
    <3>1. resp' = resp \/ Answer({}, {t})
      BY <2>1, <2>3 DEF RecvWaitReady
    <3>2. QED
      BY <3>1, <1>2, <1>0, AnswerGives
  <2>4. QED
    BY <2>2, <2>3
<1>6. CASE \E t \in Starters : RecvStartSettled(t) \/ RecvStart(t)
  <2>1. PICK t \in Starters : RecvStartSettled(t) \/ RecvStart(t)
    BY <1>6
  <2>2. CASE RecvStartSettled(t) /\ state = "ready"
    BY <2>2 DEF RecvStartSettled, loopVars, Ownership, StateOfLoop, HandlerLatched
  <2>3. CASE RecvStart(t) \/ state # "ready"
    <3>1. resp' = resp \/ Answer({}, {t})
      BY <2>1, <2>3 DEF RecvStartSettled, RecvStart
    <3>2. QED
      BY <3>1, <1>2, <1>0, AnswerGives
  <2>4. QED
    BY <2>1, <2>2, <2>3
<1>7. CASE StartFailed \/ StartShutdown \/ UpstreamGone \/ ShutdownDone
  <2>1. \E errs : Answer({}, errs)
    BY <1>7 DEF StartFailed, StartShutdown, UpstreamGone, ShutdownDone
  <2>2. QED
    BY <2>1, <1>2, <1>0, AnswerGives
<1>8. CASE StartAborted
  <2>1. Answer({stopper}, waiters \cup {starter})
    BY <1>8 DEF StartAborted
  <2>2. QED
    BY <2>1, <1>2, <1>3, <1>0, AnswerGives
<1>9. CASE StopDone
  <2>1. Answer({runResp, stopper}, waiters)
    BY <1>9 DEF StopDone
  <2>2. QED
    BY <2>1, <1>2, <1>3, <1>0, AnswerGives
<1>10. CASE \E t \in StopCalls : RecvStopIdle(t)
  <2>1. PICK t \in StopCalls : RecvStopIdle(t)
    BY <1>10
  <2>2. Answer({runResp, t}, {})
    BY <2>1 DEF RecvStopIdle
  <2>3. QED
    BY <2>2, <1>2, <1>3, <1>0, AnswerGives
<1>11. CASE ParentDoneStarting \/ ParentDone
            \/ \E t \in StopCalls : RecvStopStarting(t) \/ RecvStop(t)
  BY <1>11, <1>0 DEF ParentDoneStarting, ParentDone, RecvStopStarting, RecvStop, callVars
<1>12. QED
  BY <1>1, <1>4, <1>5, <1>6, <1>7, <1>8, <1>9, <1>10, <1>11 DEF Loop

\* No answer is a lie: Stop and the idle unload hear of success over a dead
\* process, EnsureReady and WaitReady over a ready one.
THEOREM AnswersAreTrueHolds == Spec => AnswersAreTrue
<1>1. ASSUME IInv, [Next]_vars
      PROVE  \A s \in StopCalls : resp[s] = None /\ resp'[s] # None => alive' = {}
  BY <1>1, StopAnsweredDown DEF IInv
<1>2. ASSUME IInv, HandlerLatched, [Next]_vars
      PROVE  \A c \in Ensurers \cup Subscribers :
               resp[c] = None /\ resp'[c] = "ok" => state' = "ready" /\ handler' # 0
  BY <1>2, OkMeansReady DEF IInv
<1>3. QED
  BY <1>1, <1>2, Invariant, HandlerIsLatched, PTL DEF Spec, AnswersAreTrue

\* Run returns to its caller, success or not, only over a dead process; while
\* it is parked nothing else is given its answer.
THEOREM RunOutlivesProcessHolds == Spec => RunOutlivesProcess
<1>1. ASSUME IInv, [Next]_vars PROVE runResp # None /\ runResp' = None => alive' = {}
  <2> SUFFICES ASSUME runResp # None, runResp' = None PROVE alive' = {}
    OBVIOUS
  <2>1. Loop
    BY <1>1, LoopFrame
  <2>2. ~StartReady
    BY ConstantsAssumption DEF StartReady, ConstantsAssumption
  <2>3. StartShutdown \/ StopDone \/ UpstreamGone \/ ShutdownDone
          \/ \E t \in StopCalls : RecvStopIdle(t)
    BY <2>1, <2>2 DEF Loop, RecvWaitReady, RecvStartSettled, RecvStart, StartFailed,
       StartAborted, ParentDoneStarting, RecvStopStarting, RecvStop, ParentDone, loopVars
  <2>4. QED
    BY <1>1, <2>3 DEF StartShutdown, StartUndone, StopDone, UpstreamGone, ShutdownDone,
       RecvStopIdle, osVars, startVars, IInv, TypeOK, OSTypeOK, Ownership, StartOwned,
       CmdOwned, AliveOwned
<1>2. QED
  BY <1>1, Invariant, PTL DEF Spec, RunOutlivesProcess
=============================================================================
