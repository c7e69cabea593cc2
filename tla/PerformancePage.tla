--------------------------- MODULE PerformancePage ---------------------------
(***************************************************************************)
(* routes/Performance.svelte: the samples of the system and of the GPUs    *)
(* that the page has loaded, the interval that polls for newer ones, and   *)
(* what visibility changes, the refresh button and leaving the page do to  *)
(* it.  The two samplers of internal/perf/monitor.go run by themselves.    *)
(*                                                                         *)
(* Each visit mounts the component anew, with variables of its own; what   *)
(* an earlier visit still awaits, and its interval, go on beside the next. *)
(* A sample is known by the time it was taken at; no two are taken at the  *)
(* same time.                                                              *)
(***************************************************************************)
EXTENDS Naturals, Sequences

CONSTANTS Intervals,            \* handles of setInterval
          None,
          MaxVisits, MaxSamples, MaxCalls, MaxHides   \* bounds

PerformanceAssumption == MaxVisits \in Nat /\ None \notin Intervals

Visits == 1..MaxVisits

VARIABLES
  now, sysRing, gpuRing,        \* the server's samples
  visit, mounted,               \* the last visit, and whether it lasts
  visible, sysData, gpuData, refreshing,   \* the last visit's
  polling, pollTimer,           \* each visit's: is an interval selected; its handle
  running,                      \* the intervals that tick, with their visits
  calls,                        \* calls of fetchPerformance
  hasty,                        \* history: the visits left while a load was awaited
  made, hides                   \* for the bounds

server == <<now, sysRing, gpuRing>>
data   == <<sysData, gpuData>>
timers == <<running, pollTimer>>
stay   == <<visit, mounted, hasty>>
vars   == <<server, stay, visible, data, refreshing, polling, timers, calls, made, hides>>

\* the selected interval is stored, and each visit begins with it
Init ==
  /\ now = 0 /\ sysRing = <<>> /\ gpuRing = <<>>
  /\ visit = 0 /\ mounted = FALSE /\ hasty = {}
  /\ visible = TRUE /\ sysData = <<>> /\ gpuData = <<>> /\ refreshing = FALSE
  /\ \E selected \in BOOLEAN : polling = [v \in Visits |-> selected]
  /\ pollTimer = [v \in Visits |-> None] /\ running = {}
  /\ calls = {} /\ made = 0 /\ hides = 0

-----------------------------------------------------------------------------
Sample ==
  /\ now < MaxSamples
  /\ now' = now + 1
  /\ \/ sysRing' = Append(sysRing, now') /\ UNCHANGED gpuRing
     \/ gpuRing' = Append(gpuRing, now') /\ UNCHANGED sysRing
  /\ UNCHANGED <<stay, visible, data, refreshing, polling, timers, calls, made, hides>>

\* handleAPIPerformance: both rings, filtered by the one time that was asked for
Newer(ring, after) == SelectSeq(ring, LAMBDA t : t > after)

Read(c) ==
  /\ ~c.read
  /\ calls' = (calls \ {c}) \cup
       {[c EXCEPT !.read = TRUE, !.sys = Newer(sysRing, c.after), !.gpu = Newer(gpuRing, c.after)]}
  /\ UNCHANGED <<server, stay, visible, data, refreshing, polling, timers, made, hides>>

-----------------------------------------------------------------------------
\* a call of fetchPerformance, for loadAll or loadIncremental
Fetch(v, kind, after) ==
  /\ made < MaxCalls
  /\ made' = made + 1
  /\ calls' = calls \cup {[n |-> made, visit |-> v, kind |-> kind, after |-> after,
                           read |-> FALSE, sys |-> <<>>, gpu |-> <<>>]}

\* the time of the last system sample, also for the GPUs
Since == IF sysData = <<>> THEN 0 ELSE sysData[Len(sysData)]

StopPolling(v) ==
  /\ running' = running \ {<<v, pollTimer[v]>>}
  /\ pollTimer' = [pollTimer EXCEPT ![v] = None]

\* (variation: an interval that runs already is not cleared)
StartAnother(v) ==
  IF ~polling[v] THEN StopPolling(v)
  ELSE \E i \in {j \in Intervals : <<v, j>> \notin running} :
         /\ running' = running \cup {<<v, i>>}
         /\ pollTimer' = [pollTimer EXCEPT ![v] = i]

StartPolling(v) ==
  IF ~polling[v] THEN StopPolling(v)
  ELSE \E i \in {j \in Intervals : <<v, j>> \notin running} :
         /\ running' = (running \ {<<v, pollTimer[v]>>}) \cup {<<v, i>>}
         /\ pollTimer' = [pollTimer EXCEPT ![v] = i]

Mount ==
  /\ ~mounted /\ visit < MaxVisits
  /\ visit' = visit + 1 /\ mounted' = TRUE
  /\ visible' = TRUE /\ sysData' = <<>> /\ gpuData' = <<>> /\ refreshing' = FALSE
  /\ Fetch(visit + 1, "all", 0)
  /\ UNCHANGED <<server, hasty, polling, timers, hides>>

\* what is awaited goes on, and startPolling follows the end of a load
Unmount ==
  /\ mounted
  /\ mounted' = FALSE
  /\ hasty' = IF \E c \in calls : c.visit = visit /\ c.kind = "all"
                THEN hasty \cup {visit} ELSE hasty
  /\ calls' = {c \in calls : c.kind = "all"}
  /\ StopPolling(visit)
  /\ UNCHANGED <<server, visit, visible, data, refreshing, polling, made, hides>>

\* handleVisibility, which is heard while the page is mounted
Hide ==
  /\ mounted /\ visible /\ hides < MaxHides
  /\ visible' = FALSE /\ hides' = hides + 1
  /\ StopPolling(visit)
  /\ UNCHANGED <<server, stay, data, refreshing, polling, calls, made>>

Show ==
  /\ mounted /\ ~visible
  /\ visible' = TRUE
  /\ Fetch(visit, "all", 0)
  /\ UNCHANGED <<server, stay, data, refreshing, polling, timers, hides>>

\* the visits to come find what is selected now, and startPolling too
HandleIntervalChange(on) ==
  /\ mounted
  /\ polling' = [v \in Visits |-> IF v < visit THEN polling[v] ELSE on]
  /\ IF ~visible THEN UNCHANGED timers
     ELSE IF ~on THEN StopPolling(visit)
     ELSE \E i \in {j \in Intervals : <<visit, j>> \notin running} :
            /\ running' = (running \ {<<visit, pollTimer[visit]>>}) \cup {<<visit, i>>}
            /\ pollTimer' = [pollTimer EXCEPT ![visit] = i]
  /\ UNCHANGED <<server, stay, visible, data, refreshing, calls, made, hides>>

\* the interval of a visit that was left asks as well, and nobody shows the answer
Tick(i) ==
  /\ mounted /\ visible /\ <<visit, i>> \in running
  /\ Fetch(visit, "poll", Since)
  /\ UNCHANGED <<server, stay, visible, data, refreshing, polling, timers, hides>>

ManualRefresh ==
  /\ mounted /\ ~refreshing
  /\ refreshing' = TRUE
  /\ Fetch(visit, "manual", Since)
  /\ UNCHANGED <<server, stay, visible, data, polling, timers, hides>>

\* what follows the await of a call that kept or lost its answer
Then(c) ==
  /\ IF c.kind = "all" THEN StartPolling(c.visit) ELSE UNCHANGED timers
  /\ refreshing' = (refreshing /\ c.kind # "manual")

Shown(c) == mounted /\ c.visit = visit

Answered(c) ==
  /\ c.read
  /\ calls' = calls \ {c}
  /\ sysData' = IF ~Shown(c) THEN sysData ELSE IF c.kind = "all" THEN c.sys ELSE sysData \o c.sys
  /\ gpuData' = IF ~Shown(c) THEN gpuData ELSE IF c.kind = "all" THEN c.gpu ELSE gpuData \o c.gpu
  /\ Then(c)
  /\ UNCHANGED <<server, stay, visible, polling, made, hides>>

Fails(c) ==
  /\ calls' = calls \ {c}
  /\ Then(c)
  /\ UNCHANGED <<server, stay, visible, data, polling, made, hides>>

-----------------------------------------------------------------------------
Next ==
  \/ Sample \/ Mount \/ Unmount \/ Hide \/ Show \/ ManualRefresh
  \/ \E on \in BOOLEAN : HandleIntervalChange(on)
  \/ \E i \in Intervals : Tick(i)
  \/ \E c \in calls : Read(c) \/ Answered(c) \/ Fails(c)

Spec == Init /\ [][Next]_vars

-----------------------------------------------------------------------------
\* However the ends of loads, visibility changes, changes of the interval and
\* visits fall together, an interval that ticks is the one its visit knows and
\* can stop: two loads that end one after the other do not leave two.  It is
\* that of the visit that lasts, unless a visit was left while it awaited a load:
\* the end of that load starts an interval that nobody stops, beside the one of
\* each later visit.
OnePoller ==
  \A p \in running :
    /\ p[2] = pollTimer[p[1]]
    /\ p[1] \in hasty \/ (mounted /\ p[1] = visit)
=============================================================================
