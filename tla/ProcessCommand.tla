--------------------------- MODULE ProcessCommand ---------------------------
(***************************************************************************)
(* The lifecycle of one upstream process: ProcessCommand of                *)
(* internal/process/process_command.go.  One goroutine, run(), owns the    *)
(* state; the public methods send it requests over unbuffered channels and *)
(* wait for an answer on a channel of their own.  Beside it run doStart    *)
(* (one goroutine per start), the upstream process itself, one goroutine   *)
(* per start that unloads an idle process (the TTL goroutine), and the     *)
(* ServeHTTP calls, which read the handler and the in-flight counter       *)
(* without going through run().                                            *)
(*                                                                         *)
(* Every caller is a thread with a program counter: idle, send (blocked on *)
(* the request channel), wait (blocked on its answer), gone (abandoned the *)
(* call or finished).  An incarnation is the number of the upstream        *)
(* process started; 0 stands for nil.                                      *)
(***************************************************************************)
EXTENDS Naturals, FiniteSets

CONSTANTS
  Runners, Ensurers, Subscribers, Stoppers, Servers, \* threads, by the method they call
  MaxStarts,         \* bound: how many upstream processes are ever started
  UnloadAfter,       \* is a TTL configured?
  HealthCheck,       \* is checkEndpoint something else than "none"?
  IgnoreWebsockets,  \* compat.ignoreWebsockets
  None

TTLs      == 1..MaxStarts          \* the TTL goroutine of each incarnation
Starters  == Runners \cup Ensurers
StopCalls == Stoppers \cup TTLs
Callers   == Starters \cup Subscribers \cup Stoppers
Threads   == Callers \cup Servers \cup TTLs

ASSUME ConstantsAssumption ==
  /\ MaxStarts \in Nat
  /\ UnloadAfter \in BOOLEAN /\ HealthCheck \in BOOLEAN /\ IgnoreWebsockets \in BOOLEAN
  /\ None \notin Threads /\ None \notin {"ok", "error"}
  /\ IsFiniteSet(Servers)
  /\ Runners \cap Ensurers = {}
  /\ Starters \cap (Subscribers \cup StopCalls \cup Servers) = {}
  /\ Subscribers \cap (StopCalls \cup Servers) = {}
  /\ StopCalls \cap Servers = {} /\ Stoppers \cap TTLs = {}

VARIABLES
  \* owned by run()
  state, loop, cmd, handler, waiters, runResp, starter, stopper,
  \* the doStart goroutine and its context
  start, cancelled,
  \* the operating system: incarnations so far, those running, those sent SIGKILL
  starts, alive, sigkilled,
  \* the callers, the answers in their respond channels, parentCtx
  pc, resp, parentDone,
  \* in-flight requests; has more than the TTL passed since lastUse?
  inflight, idle

loopVars  == <<state, loop, cmd, handler, waiters, runResp, starter, stopper>>
startVars == <<start, cancelled>>
osVars    == <<starts, alive, sigkilled>>
callVars  == <<pc, resp>>
useVars   == <<inflight, idle>>
vars      == <<loopVars, startVars, osVars, callVars, parentDone, useVars>>

States == {"stopped", "starting", "ready", "stopping", "shutdown"}
Loops  == {"select", "starting", "abortStop", "abortParent",
           "killStop", "killParent", "done"}
Starts == {"none", "spawn", "probe", "abort", "ok", "failed"}
PCs    == {"idle", "send", "wait", "gone",
           "loaded", "proxied", "used", "untracked",
           "off", "tick", "readInflight", "readLastUse"}

LoopTypeOK ==
  /\ state \in States /\ loop \in Loops /\ start \in Starts
  /\ cmd \in 0..MaxStarts /\ handler \in 0..MaxStarts /\ waiters \subseteq Subscribers
  /\ runResp \in Runners \cup {None} /\ starter \in Starters \cup {None}
  /\ stopper \in StopCalls \cup {None}

OSTypeOK == starts \in 0..MaxStarts /\ alive \subseteq TTLs /\ sigkilled \subseteq TTLs

CallTypeOK == pc \in [Threads -> PCs] /\ resp \in [Threads -> {"ok", "error", None}]

FlagTypeOK == cancelled \in BOOLEAN /\ parentDone \in BOOLEAN /\ idle \in BOOLEAN

TypeOK == LoopTypeOK /\ OSTypeOK /\ CallTypeOK /\ FlagTypeOK /\ inflight \in Nat

Init ==
  /\ state = "stopped" /\ loop = "select" /\ cmd = 0 /\ handler = 0
  /\ waiters = {} /\ runResp = None /\ starter = None /\ stopper = None
  /\ start = "none" /\ cancelled = FALSE
  /\ starts = 0 /\ alive = {} /\ sigkilled = {}
  /\ pc = [t \in Threads |-> IF t \in TTLs THEN "off" ELSE "idle"]
  /\ resp = [t \in Threads |-> None]
  /\ parentDone = FALSE
  /\ inflight = 0 /\ idle = TRUE

\* One value into the buffered respond channel of each thread; nobody reads
\* the channel of a caller that gave up.
Answer(oks, errs) ==
  resp' = [t \in Threads |->
             IF pc'[t] # "wait" THEN resp[t]
             ELSE IF t \in oks  THEN "ok"
             ELSE IF t \in errs THEN "error"
             ELSE resp[t]]

Received(t) == pc[t] = "send" /\ pc' = [pc EXCEPT ![t] = "wait"]

-----------------------------------------------------------------------------
(***************************************************************************)
(* The run loop.                                                           *)
(***************************************************************************)

\* case req := <-p.waitReadyCh
RecvWaitReady(s) ==
  /\ loop = "select" /\ Received(s)
  /\ \/ /\ state \in {"ready", "shutdown"}
        /\ IF state = "ready" THEN Answer({s}, {}) ELSE Answer({}, {s})
        /\ UNCHANGED waiters
     \/ /\ state \notin {"ready", "shutdown"}
        /\ waiters' = waiters \cup {s} /\ UNCHANGED resp
  /\ UNCHANGED <<state, loop, cmd, handler, runResp, starter, stopper,
                 startVars, osVars, parentDone, useVars>>

\* case req := <-p.startCh, when nothing is to be started
RecvStartSettled(c) ==
  /\ loop = "select" /\ Received(c) /\ state # "stopped"
  /\ IF c \in Ensurers /\ state = "ready" THEN Answer({c}, {}) ELSE Answer({}, {c})
  /\ UNCHANGED <<loopVars, startVars, osVars, parentDone, useVars>>

\* case req := <-p.startCh from StateStopped: the loop moves to the inner select
RecvStart(c) ==
  /\ loop = "select" /\ Received(c) /\ state = "stopped" /\ starts < MaxStarts
  /\ state' = "starting" /\ loop' = "starting" /\ starter' = c
  /\ start' = "spawn" /\ cancelled' = FALSE
  /\ UNCHANGED <<cmd, handler, waiters, runResp, stopper, resp,
                 osVars, parentDone, useVars>>

\* case res := <-resultCh with no error: latch cmd and handler, wake the
\* subscribers, park Run or answer EnsureReady, start the TTL goroutine
StartReady ==
  /\ loop = "starting" /\ start = "ok"
  /\ state' = "ready" /\ loop' = "select" /\ start' = "none"
  /\ cmd' = starts /\ handler' = starts
  /\ pc' = IF UnloadAfter THEN [pc EXCEPT ![starts] = "tick"] ELSE pc
  /\ waiters' = {} /\ starter' = None
  /\ \/ starter \in Runners /\ runResp' = starter /\ Answer(waiters, {})
     \/ starter \in Ensurers /\ UNCHANGED runResp /\ Answer(waiters \cup {starter}, {})
  /\ UNCHANGED <<stopper, cancelled, osVars, parentDone, useVars>>

\* Variations: the failed start leaves its subscribers parked; it reports success.
StartFailedForgets ==
  /\ loop = "starting" /\ start = "failed"
  /\ state' = "stopped" /\ loop' = "select" /\ start' = "none"
  /\ UNCHANGED pc /\ Answer({}, {starter}) /\ starter' = None
  /\ UNCHANGED <<cmd, handler, waiters, runResp, stopper, cancelled, osVars, parentDone, useVars>>

StartFailedReportsReady ==
  /\ loop = "starting" /\ start = "failed"
  /\ state' = "stopped" /\ loop' = "select" /\ start' = "none"
  /\ UNCHANGED pc /\ Answer(waiters, {starter})
  /\ waiters' = {} /\ starter' = None
  /\ UNCHANGED <<cmd, handler, runResp, stopper, cancelled, osVars, parentDone, useVars>>

\* case res := <-resultCh with an error
StartFailed ==
  /\ loop = "starting" /\ start = "failed"
  /\ state' = "stopped" /\ loop' = "select" /\ start' = "none"
  /\ UNCHANGED pc /\ Answer({}, waiters \cup {starter})
  /\ waiters' = {} /\ starter' = None
  /\ UNCHANGED <<cmd, handler, runResp, stopper, cancelled, osVars, parentDone, useVars>>

\* Variation: a command that won the race against the abort is not killed.
StartUndoneLeaks == start \in {"ok", "failed"}

\* doStart has returned, and a command it returned has been killed
StartUndone == start = "failed" \/ (start = "ok" /\ starts \notin alive)

\* case stop := <-p.stopCh in the inner select: abort the start ...
RecvStopStarting(s) ==
  /\ loop = "starting" /\ Received(s)
  /\ loop' = "abortStop" /\ stopper' = s /\ cancelled' = TRUE
  /\ UNCHANGED <<state, cmd, handler, waiters, runResp, starter, start,
                 osVars, resp, parentDone, useVars>>

\* ... and once doStart has returned, answer everyone
StartAborted ==
  /\ loop = "abortStop" /\ StartUndone
  /\ state' = "stopped" /\ loop' = "select" /\ start' = "none"
  /\ UNCHANGED pc /\ Answer({stopper}, waiters \cup {starter})
  /\ waiters' = {} /\ starter' = None /\ stopper' = None
  /\ UNCHANGED <<cmd, handler, runResp, cancelled, osVars, parentDone, useVars>>

\* case <-p.parentCtx.Done() in the inner select: abort the start ...
ParentDoneStarting ==
  /\ loop = "starting" /\ parentDone
  /\ state' = "shutdown" /\ loop' = "abortParent" /\ cancelled' = TRUE
  /\ UNCHANGED <<cmd, handler, waiters, runResp, starter, stopper, start,
                 osVars, callVars, parentDone, useVars>>

\* ... and return for good; req.respond is not answered, its reader watches parentCtx
StartShutdown ==
  /\ loop = "abortParent" /\ StartUndone
  /\ loop' = "done" /\ start' = "none"
  /\ UNCHANGED pc /\ Answer({}, waiters \cup {runResp})
  /\ waiters' = {} /\ runResp' = None /\ starter' = None
  /\ UNCHANGED <<state, cmd, handler, stopper, cancelled, osVars, parentDone, useVars>>

\* Variation: the parked Run is answered before the kill.
RecvStopAnswersRun(s) ==
  /\ loop = "select" /\ Received(s) /\ cmd # 0
  /\ state' = "stopping" /\ loop' = "killStop" /\ stopper' = s
  /\ Answer({runResp}, {}) /\ runResp' = None
  /\ UNCHANGED <<cmd, handler, waiters, starter, startVars, osVars, parentDone, useVars>>

\* case stop := <-p.stopCh with a process: killProcess blocks the loop ...
RecvStop(s) ==
  /\ loop = "select" /\ Received(s) /\ cmd # 0
  /\ state' = "stopping" /\ loop' = "killStop" /\ stopper' = s
  /\ UNCHANGED <<cmd, handler, waiters, runResp, starter,
                 startVars, osVars, resp, parentDone, useVars>>

\* ... until it is dead
StopDone ==
  /\ loop = "killStop" /\ cmd \notin alive
  /\ state' = "stopped" /\ loop' = "select" /\ cmd' = 0 /\ handler' = 0
  /\ UNCHANGED pc /\ Answer({runResp, stopper}, waiters)
  /\ waiters' = {} /\ runResp' = None /\ stopper' = None
  /\ UNCHANGED <<starter, startVars, osVars, parentDone, useVars>>

\* case stop := <-p.stopCh without one: the subscribers keep waiting
RecvStopIdle(s) ==
  /\ loop = "select" /\ Received(s) /\ cmd = 0
  /\ state' = "stopped" /\ Answer({runResp, s}, {}) /\ runResp' = None
  /\ UNCHANGED <<loop, cmd, handler, waiters, starter, stopper,
                 startVars, osVars, parentDone, useVars>>

\* case <-cmdDone: the upstream process exited on its own
UpstreamGone ==
  /\ loop = "select" /\ cmd # 0 /\ cmd \notin alive
  /\ state' = "stopped" /\ cmd' = 0 /\ handler' = 0
  /\ UNCHANGED pc /\ Answer({}, waiters \cup {runResp})
  /\ waiters' = {} /\ runResp' = None
  /\ UNCHANGED <<loop, starter, stopper, startVars, osVars, parentDone, useVars>>

\* case <-p.parentCtx.Done(): shutdown is announced before the kill ...
ParentDone ==
  /\ loop = "select" /\ parentDone
  /\ state' = "shutdown" /\ loop' = "killParent" /\ handler' = 0
  /\ UNCHANGED <<cmd, waiters, runResp, starter, stopper,
                 startVars, osVars, callVars, parentDone, useVars>>

\* Variation: shutdown forgets the subscribers.
ShutdownForgets ==
  /\ loop = "killParent" /\ cmd \notin alive
  /\ loop' = "done" /\ cmd' = 0
  /\ UNCHANGED pc /\ Answer({}, {runResp}) /\ runResp' = None
  /\ UNCHANGED <<state, handler, waiters, starter, stopper, startVars, osVars,
                 parentDone, useVars>>

\* ... and the loop returns after it
ShutdownDone ==
  /\ loop = "killParent" /\ cmd \notin alive
  /\ loop' = "done" /\ cmd' = 0
  /\ UNCHANGED pc /\ Answer({}, waiters \cup {runResp})
  /\ waiters' = {} /\ runResp' = None
  /\ UNCHANGED <<state, handler, starter, stopper, startVars, osVars, parentDone, useVars>>

-----------------------------------------------------------------------------
(***************************************************************************)
(* The doStart goroutine, and the upstream process.                        *)
(***************************************************************************)

\* a bad configuration, or cmd.Start fails: there is no process
SpawnFails ==
  /\ start = "spawn" /\ start' = "failed"
  /\ UNCHANGED <<loopVars, cancelled, osVars, callVars, parentDone, useVars>>

Spawn ==
  /\ start = "spawn"
  /\ starts' = starts + 1 /\ alive' = alive \cup {starts + 1}
  /\ start' = IF cancelled THEN "abort" ELSE IF HealthCheck THEN "probe" ELSE "ok"
  /\ UNCHANGED <<loopVars, cancelled, sigkilled, callVars, parentDone, useVars>>

\* the health check: passed, which whoever listens on the port may cause; the
\* command exited; cancelled, or past the deadline, which may pass at any time
Probe ==
  /\ start = "probe"
  /\ \/ start' = "ok"
     \/ starts \notin alive /\ start' = "failed"
     \/ start' = "abort"
  /\ UNCHANGED <<loopVars, cancelled, osVars, callVars, parentDone, useVars>>

\* Variation: abort() signals the process and does not wait for it.
AbortedEarly ==
  /\ start = "abort" /\ start' = "failed"
  /\ UNCHANGED <<loopVars, cancelled, osVars, callVars, parentDone, useVars>>

\* abort() returns once killProcess has
Aborted ==
  /\ start = "abort" /\ starts \notin alive /\ start' = "failed"
  /\ UNCHANGED <<loopVars, cancelled, osVars, callVars, parentDone, useVars>>

DoStart == SpawnFails \/ Spawn \/ Probe \/ Aborted

\* Variation: only the loop's own kills escalate to SIGKILL.
KillTargetRunning == IF loop \in {"killStop", "killParent"} THEN cmd ELSE 0

\* the incarnation a killProcess call is tearing down, 0 if there is none
KillTarget ==
  IF loop \in {"killStop", "killParent"} THEN cmd
  ELSE IF start = "abort" \/ (start = "ok" /\ loop \in {"abortStop", "abortParent"})
  THEN starts ELSE 0

\* the graceful timeout of killProcess fires: SIGKILL
Escalate ==
  /\ KillTarget \in alive \ sigkilled
  /\ sigkilled' = sigkilled \cup {KillTarget}
  /\ UNCHANGED <<loopVars, startVars, starts, alive, callVars, parentDone, useVars>>

\* an upstream process exits: by itself, or because of a stop signal
Exit(i) ==
  /\ i \in alive /\ alive' = alive \ {i}
  /\ UNCHANGED <<loopVars, startVars, starts, sigkilled, callVars, parentDone, useVars>>

\* nothing survives SIGKILL, and cmd.WaitDelay bounds the wait for its pipes
ForcedExit(i) == i \in sigkilled /\ Exit(i)

-----------------------------------------------------------------------------
(***************************************************************************)
(* The callers: Run, EnsureReady, WaitReady, Stop.                         *)
(***************************************************************************)

Call(c) ==
  /\ pc[c] = "idle" /\ pc' = [pc EXCEPT ![c] = "send"]
  /\ UNCHANGED <<loopVars, startVars, osVars, resp, parentDone, useVars>>

Abandon(c) ==
  /\ pc' = [pc EXCEPT ![c] = "gone"] /\ resp' = [resp EXCEPT ![c] = None]
  /\ UNCHANGED <<loopVars, startVars, osVars, parentDone, useVars>>

\* case <-ctx.Done() of EnsureReady and WaitReady
CancelCtx(c) == pc[c] \in {"send", "wait"} /\ Abandon(c)

\* case <-p.parentCtx.Done(): every method watches it while it sends, only
\* Run and EnsureReady while they wait
SeeParentDone(c) ==
  /\ parentDone /\ (pc[c] = "send" \/ (pc[c] = "wait" /\ c \in Starters))
  /\ Abandon(c)

Return(c) ==
  /\ pc[c] = "wait" /\ resp[c] # None
  /\ pc' = [pc EXCEPT ![c] = IF c \in TTLs THEN "gone" ELSE "idle"]
  /\ resp' = [resp EXCEPT ![c] = None]
  /\ UNCHANGED <<loopVars, startVars, osVars, parentDone, useVars>>

\* parentCtx is cancelled by the router
CancelParent ==
  /\ ~parentDone /\ parentDone' = TRUE
  /\ UNCHANGED <<loopVars, startVars, osVars, callVars, useVars>>

-----------------------------------------------------------------------------
(***************************************************************************)
(* ServeHTTP (a call that finds no handler answers 503 and changes         *)
(* nothing), and the TTL goroutine.                                        *)
(***************************************************************************)

ServeStep(s, from, to) ==
  /\ pc[s] = from /\ pc' = [pc EXCEPT ![s] = to]
  /\ UNCHANGED <<loopVars, startVars, osVars, resp, parentDone>>

ServeLoad(s) ==
  /\ handler # 0 /\ ServeStep(s, "idle", "loaded") /\ UNCHANGED <<inflight, idle>>

ServeEnter(s) ==
  \/ ServeStep(s, "loaded", "proxied") /\ inflight' = inflight + 1 /\ UNCHANGED idle
  \/ IgnoreWebsockets /\ ServeStep(s, "loaded", "untracked") /\ UNCHANGED <<inflight, idle>>

\* Variation: the deferred function decrements before it stores lastUse.
ServeUsedSwapped(s) ==
  /\ ServeStep(s, "proxied", "used") /\ inflight' = inflight - 1 /\ UNCHANGED idle

\* the proxied call returns; the deferred function stores lastUse first
ServeUsed(s) ==
  /\ ServeStep(s, "proxied", "used") /\ idle' = FALSE /\ UNCHANGED inflight

\* Variation: an untracked websocket is counted out as well.
ServeLeaveUncounted(s) ==
  /\ ServeStep(s, "used", "idle") \/ ServeStep(s, "untracked", "idle")
  /\ inflight' = inflight - 1 /\ UNCHANGED idle

ServeLeave(s) ==
  \/ ServeStep(s, "used", "idle") /\ inflight' = inflight - 1 /\ UNCHANGED idle
  \/ ServeStep(s, "untracked", "idle") /\ UNCHANGED <<inflight, idle>>

\* time passes: the last use is more than the TTL ago
Elapse ==
  /\ ~idle /\ idle' = TRUE
  /\ UNCHANGED <<loopVars, startVars, osVars, callVars, parentDone, inflight>>

TTLStep(i, from, to) ==
  /\ pc[i] = from /\ pc' = [pc EXCEPT ![i] = to]
  /\ UNCHANGED <<loopVars, startVars, osVars, resp, parentDone, useVars>>

\* Variation: the goroutine ends when it finds the process busy.
TTLTickReturns(i) ==
  \/ TTLStep(i, "tick", IF state = "ready" THEN "readInflight" ELSE "gone")
  \/ TTLStep(i, "readInflight", IF inflight = 0 THEN "readLastUse" ELSE "gone")
  \/ TTLStep(i, "readLastUse", IF idle THEN "send" ELSE "tick")

\* each tick reads the state, then the counter, then lastUse; then it calls Stop
TTLTick(i) ==
  \/ TTLStep(i, "tick", IF state = "ready" THEN "readInflight" ELSE "gone")
  \/ TTLStep(i, "readInflight", IF inflight = 0 THEN "readLastUse" ELSE "tick")
  \/ TTLStep(i, "readLastUse", IF idle THEN "send" ELSE "tick")

-----------------------------------------------------------------------------
Loop ==
  \/ \E s \in Subscribers : RecvWaitReady(s)
  \/ \E c \in Starters : RecvStartSettled(c) \/ RecvStart(c)
  \/ StartReady \/ StartFailed \/ StartAborted
  \/ ParentDoneStarting \/ StartShutdown
  \/ \E s \in StopCalls : RecvStopStarting(s) \/ RecvStop(s) \/ RecvStopIdle(s)
  \/ StopDone \/ UpstreamGone \/ ParentDone \/ ShutdownDone

Caller ==
  \/ \E c \in Callers : Call(c)
  \/ \E c \in Ensurers \cup Subscribers : CancelCtx(c)
  \/ \E c \in Callers \cup TTLs : SeeParentDone(c) \/ Return(c)
  \/ CancelParent

Serve ==
  \/ \E s \in Servers : ServeLoad(s) \/ ServeEnter(s) \/ ServeUsed(s) \/ ServeLeave(s)
  \/ \E i \in TTLs : TTLTick(i)
  \/ Elapse

\* after shutdown, when every caller has left, nothing is left to happen
Terminated ==
  /\ loop = "done" /\ \A c \in Callers : pc[c] = "gone"
  /\ UNCHANGED vars

Next ==
  \/ Loop \/ DoStart \/ Escalate \/ (\E i \in TTLs : Exit(i))
  \/ Caller \/ Serve \/ Terminated

Spec == Init /\ [][Next]_vars

\* The run loop and doStart are goroutines that are always ready to go on, the
\* health check has a deadline and killProcess a timer; callers read their
\* answers and watch parentCtx; the TTL ticker fires and time passes.  Go's select picks at random
\* among its ready cases, so a cancelled parentCtx is not passed over for ever.
\* That a caller calls, gives up or that an upstream process exits unasked is
\* not assumed.
Fairness ==
  /\ WF_vars(Loop) /\ WF_vars(DoStart) /\ WF_vars(Escalate) /\ WF_vars(Elapse)
  /\ SF_vars(ParentDone)
  /\ \A i \in TTLs : WF_vars(ForcedExit(i)) /\ WF_vars(TTLTick(i)) /\ WF_vars(RecvStop(i))
  /\ \A c \in Callers \cup TTLs : WF_vars(Return(c)) /\ WF_vars(SeeParentDone(c))

FairSpec == Spec /\ Fairness

-----------------------------------------------------------------------------
(***************************************************************************)
(* Properties.                                                             *)
(***************************************************************************)

\* Whatever mix of starts, aborts, failed health checks and stops, no two
\* upstream processes of one model ever run together: every path that gives
\* up a process kills it before the loop accepts the next start.
OneUpstream == \A i, j \in alive : i = j

\* Reporting Stopped, and ending the run loop, mean the process is dead.
StoppedMeansDown == state = "stopped" \/ loop = "done" => alive = {}

\* The comment at process_command.go:220: nobody is parked on the ready
\* question while the process is ready, nor once the loop has returned.
NoStrandedWaiter == waiters # {} => state \notin {"ready"} /\ loop # "done"

\* The counter TTL reads covers every tracked request until its lastUse is stored.
InflightCoversUse == inflight = 0 => \A s \in Servers : pc[s] \notin {"proxied", "used"}

\* Every answer is true when it is given: Stop answers only when nothing of this
\* process runs any more, EnsureReady and WaitReady answer success only in a ready
\* process with a handler.
AnswersAreTrue ==
  /\ [][\A s \in StopCalls : resp[s] = None /\ resp'[s] # None => alive' = {}]_vars
  /\ [][\A c \in Ensurers \cup Subscribers :
          resp[c] = None /\ resp'[c] = "ok" => state' = "ready" /\ handler' # 0]_vars

\* Run blocks until the process it started has terminated.
RunOutlivesProcess == [][runResp # None /\ runResp' = None => alive' = {}]_vars

\* run() implements the lifecycle the Process interface promises: the
\* transitions, and that Stopped is never reported over a live process.
Lifecycle == INSTANCE ProcessLifecycle WITH up <- (alive # {})
ImplementsLifecycle == Lifecycle!Spec

\* A Stop the loop has received is answered, whatever it interrupted.
StopAnswered == \A s \in StopCalls : pc[s] = "wait" ~> pc[s] # "wait"

\* Likewise a start: an EnsureReady ends in an answer or its caller leaves, and a
\* subscriber parked when a start begins is woken by its outcome (issue #946).
StartAnswered ==
  /\ \A c \in Ensurers : pc[c] = "wait" ~> pc[c] # "wait"
  /\ \A s \in Subscribers : state = "starting" /\ s \in waiters ~> s \notin waiters

\* Cancelling parentCtx ends the run loop, with nothing left running.
ShutdownCompletes == parentDone ~> loop = "done" /\ alive = {}

\* A ready process nobody uses is unloaded: it cannot stay ready for ever
\* unless requests keep coming.
IdleUnloads ==
  <>[](state = "ready") => []<>(\E s \in Servers : pc[s] # "idle")

-----------------------------------------------------------------------------
(***************************************************************************)
(* What a comment says, and the code does not do.                          *)
(***************************************************************************)

\* process_command.go:304: the TTL goroutine "self-terminates when state
\* leaves StateReady", so it never ends a later incarnation's start.
TTLEndsWithItsProcess ==
  [][\A i \in TTLs : loop = "starting" /\ loop' = "abortStop" => stopper' # i]_vars
=============================================================================
