-------------------------- MODULE ProcessLifecycle --------------------------
(***************************************************************************)
(* What the Process interface (internal/process/process.go) promises the   *)
(* rest of the program about one model's process: the states it reports,   *)
(* the transitions between them, and when an upstream process may exist.   *)
(* ProcessCommand implements it (ProcessCommand!Lifecycle), and            *)
(* FIFOScheduler relies on no more than this.                              *)
(***************************************************************************)
VARIABLES state,  \* what State() reports
          up      \* is an upstream process of this model running?

vars == <<state, up>>

Init == state = "stopped" /\ up = FALSE

\* a start is accepted from Stopped alone, when nothing runs
Begin == state = "stopped" /\ ~up /\ state' = "starting" /\ UNCHANGED up

\* only a start brings a process up, and the abort of one when shutting down
Launch == state \in {"starting", "shutdown"} /\ ~up /\ up' = TRUE /\ UNCHANGED state

Die == up /\ up' = FALSE /\ UNCHANGED state

Become == state = "starting" /\ state' = "ready" /\ UNCHANGED up

BeginStop == state = "ready" /\ state' = "stopping" /\ UNCHANGED up

\* a failed or aborted start, a finished stop or an unexpected exit: the
\* process is gone before Stopped is reported
Settle == state \in {"starting", "ready", "stopping"} /\ ~up /\ state' = "stopped" /\ UNCHANGED up

\* shutdown is announced in any state, and is final
Shut == state # "shutdown" /\ state' = "shutdown" /\ UNCHANGED up

Next == Begin \/ Launch \/ Die \/ Become \/ BeginStop \/ Settle \/ Shut

Spec == Init /\ [][Next]_vars
=============================================================================
