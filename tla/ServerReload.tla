---------------------------- MODULE ServerReload ----------------------------
(***************************************************************************)
(* The reload of the configuration and the exit of the program             *)
(* (llama-swap.go), with the watcher of the configuration file             *)
(* (internal/watcher): a reload builds a new server, with a store of its   *)
(* own when the path has changed, installs it, and shuts down the old one. *)
(* Signals and the watcher ask for reloads; one that is asked for while    *)
(* another runs is dropped.  Servers and opened stores are numbered.  It   *)
(* begins when main has made the first server of the configuration it read *)
(* and has started the watcher, which has not looked at the file yet.      *)
(***************************************************************************)
EXTENDS Naturals

CONSTANTS
  Paths,        \* paths of stores
  MaxEdits,     \* bounds: changes of the file,
  MaxSignals,   \*   SIGHUPs, and
  MaxReloads,   \*   reloads that get as far as a new server
  Terminate     \* whether SIGINT or SIGTERM may come

ReloadAssumption ==
  /\ Paths # {} /\ "none" \notin Paths
  /\ MaxEdits \in Nat /\ MaxSignals \in Nat /\ MaxReloads \in Nat
  /\ Terminate \in BOOLEAN

VARIABLES
  file,       \* the configuration file: which edit it is from, and what is in it
  prev,       \* what the watcher saw last, 0 when the file was missing
  watcher,    \* Watcher.Run: started, waiting for its ticker, or in OnChange
  signals,    \* SIGHUPs so far
  reload,     \* the one reload that may run
  servers,    \* each server: its version of the file, its store and its phase
  stores,     \* each opened store: its path, and whether it is open
  activeSrv, activeStore,
  applied,    \* version of the settings the performance monitor and the loggers have
  exiting,    \* the goroutine of the signals after SIGTERM, and the server it read
  stale       \* a change was dropped since the file was loaded, or that reload failed, or
              \* the watcher took for its baseline a file that was not the one loaded

active == <<activeSrv, activeStore, applied>>
built == <<servers, stores, active>>
vars == <<file, prev, watcher, signals, reload, servers, stores, activeSrv, activeStore,
          applied, exiting, stale>>

Ids == 1..(MaxReloads + 1)
Unused == [version |-> 0, store |-> 0, phase |-> "unused"]
Closed == [path |-> "none", open |-> FALSE]
NoReload ==
  [pc |-> "idle", by |-> "none", version |-> 0, path |-> "none", store |-> 0, changed |-> FALSE,
   srv |-> 0, old |-> 0]

\* the modification time and the size, as stat reads them, are of one edit.  The file
\* loads as a configuration, or does not; the program began with edit 0
Files == [edit : 0..MaxEdits, exists : BOOLEAN, loads : BOOLEAN, path : Paths]
Seen(f) == IF f.exists THEN f.edit + 1 ELSE 0

Reloads ==
  [pc : {"idle", "load", "open", "build", "install", "stop", "stopping", "close"},
   by : {"none", "watcher", "signal"}, version : 0..MaxEdits, path : Paths \cup {"none"},
   store : Ids \cup {0}, changed : BOOLEAN, srv : Ids \cup {0}, old : Ids \cup {0}]
Servers ==
  [version : 0..MaxEdits, store : Ids \cup {0}, phase : {"unused", "up", "stopping", "down", "failed"}]
Stores == [path : Paths \cup {"none"}, open : BOOLEAN]
Exits ==
  [pc : {"run", "stop", "stopping", "close", "exited", "forced"}, srv : Ids \cup {0},
   store : Ids \cup {0}]

TypeOK ==
  /\ file \in Files
  /\ prev \in 0..(MaxEdits + 1)
  /\ watcher \in {"start", "tick", "change"}
  /\ signals \in 0..MaxSignals
  /\ reload \in Reloads
  /\ servers \in [Ids -> Servers]
  /\ stores \in [Ids -> Stores]
  /\ activeSrv \in Ids /\ activeStore \in Ids
  /\ exiting \in Exits
  /\ applied \in [perf : 0..MaxEdits, log : 0..MaxEdits]
  /\ stale \in BOOLEAN

Init ==
  /\ \E path \in Paths :
       /\ file = [edit |-> 0, exists |-> TRUE, loads |-> TRUE, path |-> path]
       /\ stores = [[n \in Ids |-> Closed] EXCEPT ![1] = [path |-> path, open |-> TRUE]]
  /\ prev = 0
  /\ watcher = "start"
  /\ signals = 0
  /\ reload = NoReload
  /\ servers = [[n \in Ids |-> Unused] EXCEPT
                  ![1] = [version |-> 0, store |-> 1, phase |-> "up"]]
  /\ activeSrv = 1 /\ activeStore = 1
  /\ applied = [perf |-> 0, log |-> 0]
  /\ exiting = [pc |-> "run", srv |-> 0, store |-> 0]
  /\ stale = FALSE

Running == exiting.pc \notin {"exited", "forced"}

\* an editor writes the file; it may be missing for a while, and be put back
Edit ==
  /\ file.edit < MaxEdits
  /\ \E loads \in BOOLEAN, path \in Paths :
       file' = [edit |-> file.edit + 1, exists |-> TRUE, loads |-> loads, path |-> path]
  /\ UNCHANGED <<prev, watcher, signals, reload, built, exiting, stale>>
MoveAway ==
  /\ file' = [file EXCEPT !.exists = ~@]
  /\ UNCHANGED <<prev, watcher, signals, reload, built, exiting, stale>>

\* reload(): the flag under reloadMu
Ask(who) ==
  IF reload.pc = "idle"
  THEN reload' = [NoReload EXCEPT !.pc = "load", !.by = who] /\ UNCHANGED stale
  ELSE UNCHANGED reload /\ stale' = TRUE

\* the watcher's baseline: what changed since the configuration was read it never tells
Baseline ==
  /\ watcher = "start"
  /\ watcher' = "tick" /\ prev' = Seen(file)
  /\ stale' = (stale \/ (file.exists /\ file.edit # applied.perf))
  /\ UNCHANGED <<file, signals, reload, built, exiting>>

\* the watcher's ticker; OnChange is reload() and returns when that does.  After the
\* watcher was cancelled its select may still take a tick that is due.
Changed == file.exists /\ Seen(file) # prev
Tick ==
  /\ watcher = "tick"
  /\ prev' = Seen(file)
  /\ IF Changed
     THEN Ask("watcher") /\ watcher' = IF reload.pc = "idle" THEN "change" ELSE "tick"
     ELSE UNCHANGED <<watcher, reload, stale>>
  /\ UNCHANGED <<file, signals, built, exiting>>

\* the goroutine of the signals starts one for each SIGHUP, until SIGTERM
Hangup ==
  /\ exiting.pc = "run"
  /\ signals < MaxSignals
  /\ signals' = signals + 1
  /\ Ask("signal")
  /\ UNCHANGED <<file, prev, watcher, built, exiting>>

Finish ==
  /\ reload' = NoReload
  /\ watcher' = IF reload.by = "watcher" THEN "tick" ELSE watcher
Fails == Finish /\ stale' = TRUE

\* config.LoadConfigSources, and the new settings of the performance monitor
Load ==
  /\ reload.pc = "load"
  /\ IF file.exists /\ file.loads
     THEN /\ reload' = [reload EXCEPT !.pc = "open", !.version = file.edit,
                                         !.path = file.path]
          /\ applied' = [applied EXCEPT !.perf = file.edit]
          /\ stale' = FALSE
          /\ UNCHANGED watcher
     ELSE Fails /\ UNCHANGED applied
  /\ UNCHANGED <<file, prev, signals, servers, stores, activeSrv, activeStore, exiting>>

\* the next number of a store and of a server
NewStore(n) == stores[n] = Closed /\ \A k \in 1..(n - 1) : stores[k] # Closed
NewServer(n) == servers[n] = Unused /\ \A k \in 1..(n - 1) : servers[k] # Unused

\* the store of the new configuration: the active one, a new one, or none when that fails
Open ==
  /\ reload.pc = "open"
  /\ \/ /\ reload.path = stores[activeStore].path
        /\ reload' = [reload EXCEPT !.pc = "build", !.store = activeStore]
        /\ UNCHANGED <<stores, watcher, stale>>
     \/ /\ reload.path # stores[activeStore].path
        /\ \E n \in Ids :
             /\ NewStore(n)
             /\ stores' = [stores EXCEPT ![n] = [path |-> reload.path, open |-> TRUE]]
             /\ reload' = [reload EXCEPT !.pc = "build", !.store = n, !.changed = TRUE]
        /\ UNCHANGED <<watcher, stale>>
     \/ reload.path # stores[activeStore].path /\ Fails /\ UNCHANGED stores
  /\ UNCHANGED <<file, prev, signals, servers, active, exiting>>

CloseStore(n) == stores' = [stores EXCEPT ![n].open = FALSE]

Starts ==
  \E n \in Ids :
    /\ NewServer(n)
    /\ servers' = [servers EXCEPT ![n] =
         [version |-> reload.version, store |-> reload.store, phase |-> "up"]]
    /\ reload' = [reload EXCEPT !.pc = "install", !.srv = n]

\* variation: a store opened for a server that cannot be built stays open
BuildKeepsStore ==
  /\ reload.pc = "build"
  /\ \/ Starts /\ UNCHANGED <<watcher, stale>>
     \/ Fails /\ UNCHANGED servers
  /\ UNCHANGED <<file, prev, signals, stores, active, exiting>>

\* server.New
Build ==
  /\ reload.pc = "build"
  /\ \/ Starts /\ UNCHANGED <<stores, watcher, stale>>
     \/ /\ Fails
        /\ IF reload.changed THEN CloseStore(reload.store) ELSE UNCHANGED stores
        /\ UNCHANGED servers
  /\ UNCHANGED <<file, prev, signals, active, exiting>>

Install ==
  /\ reload.pc = "install"
  /\ activeSrv' = reload.srv
  /\ activeStore' = reload.store
  /\ reload' = [reload EXCEPT !.pc = "stop", !.old = activeSrv]
  /\ applied' = [applied EXCEPT !.log = reload.version]
  /\ UNCHANGED <<file, prev, watcher, signals, servers, stores, exiting, stale>>

\* Server.Shutdown returns at once when another call has begun.  When a router fails or
\* takes too long the server is given up: what it runs may still be up
Stop ==
  /\ reload.pc = "stop"
  /\ IF servers[reload.old].phase = "up"
     THEN /\ servers' = [servers EXCEPT ![reload.old].phase = "stopping"]
          /\ reload' = [reload EXCEPT !.pc = "stopping"]
     ELSE UNCHANGED servers /\ reload' = [reload EXCEPT !.pc = "close"]
  /\ UNCHANGED <<file, prev, watcher, signals, stores, active, exiting, stale>>
Stopped ==
  /\ reload.pc = "stopping"
  /\ \E phase \in {"down", "failed"} : servers' = [servers EXCEPT ![reload.old].phase = phase]
  /\ reload' = [reload EXCEPT !.pc = "close"]
  /\ UNCHANGED <<file, prev, watcher, signals, stores, active, exiting, stale>>
CloseOld ==
  /\ reload.pc = "close"
  /\ IF reload.changed THEN CloseStore(servers[reload.old].store) ELSE UNCHANGED stores
  /\ Finish
  /\ UNCHANGED <<file, prev, signals, servers, active, exiting, stale>>

\* SIGINT or SIGTERM: the active server and store are read together, its streams are
\* closed and requests drained, then it is shut down and the store closed
Term ==
  /\ Terminate /\ exiting.pc = "run"
  /\ exiting' = [pc |-> "stop", srv |-> activeSrv, store |-> activeStore]
  /\ UNCHANGED <<file, prev, watcher, signals, reload, built, stale>>
TermStop ==
  /\ exiting.pc = "stop"
  /\ IF servers[exiting.srv].phase = "up"
     THEN /\ servers' = [servers EXCEPT ![exiting.srv].phase = "stopping"]
          /\ exiting' = [exiting EXCEPT !.pc = "stopping"]
     ELSE UNCHANGED servers /\ exiting' = [exiting EXCEPT !.pc = "close"]
  /\ UNCHANGED <<file, prev, watcher, signals, reload, stores, active, stale>>
TermStopped ==
  /\ exiting.pc = "stopping"
  /\ \E phase \in {"down", "failed"} : servers' = [servers EXCEPT ![exiting.srv].phase = phase]
  /\ exiting' = [exiting EXCEPT !.pc = "close"]
  /\ UNCHANGED <<file, prev, watcher, signals, reload, stores, active, stale>>
TermClose ==
  /\ exiting.pc = "close"
  /\ CloseStore(exiting.store)
  /\ exiting' = [exiting EXCEPT !.pc = "exited"]
  /\ UNCHANGED <<file, prev, watcher, signals, reload, servers, active, stale>>

\* the backstop: all of it takes five seconds more than a shutdown may
ForceExit ==
  /\ exiting.pc \in {"stop", "stopping", "close"}
  /\ exiting' = [exiting EXCEPT !.pc = "forced"]
  /\ UNCHANGED <<file, prev, watcher, signals, reload, built, stale>>

Reload == Load \/ Open \/ Build \/ Install \/ Stop \/ Stopped \/ CloseOld
Exit == Term \/ TermStop \/ TermStopped \/ TermClose \/ ForceExit

Next == Running /\ (Edit \/ MoveAway \/ Baseline \/ Tick \/ Hangup \/ Reload \/ Exit)

Spec == Init /\ [][Next]_vars

-----------------------------------------------------------------------------
\* A server serves or is being shut down.  One whose shutdown has failed is not counted:
\* the program has given it up, and nothing says what it still runs.
Live(n) == servers[n].phase \in {"up", "stopping"}

\* Until the program is told to stop, a store is open as long as a server that uses it
\* serves or is being shut down.
StoreOutlivesServers ==
  exiting.pc = "run" => \A n \in Ids : Live(n) => stores[servers[n].store].open

\* Between reloads, nothing is left of earlier ones and of those that failed: the active
\* server is the only one up, except those whose shutdown has failed, and its store the
\* only one open.
OldServersGone ==
  exiting.pc = "run" /\ reload.pc = "idle" =>
    /\ {n \in Ids : Live(n)} = {activeSrv}
    /\ {n \in Ids : stores[n].open} = {activeStore}
    /\ servers[activeSrv].store = activeStore

\* When the watcher has seen the file as it is and no reload runs, the active server has
\* been made from it and its settings apply, except when the last reload has failed,
\* when one was dropped after the last had loaded the file, and when the file was
\* changed after the program had read it and before the watcher took its baseline, and
\* nothing was loaded since.
ConfigSettles ==
  reload.pc = "idle" /\ watcher = "tick" /\ prev = Seen(file) /\ file.exists /\ ~stale
    => /\ servers[activeSrv].version = file.edit
       /\ applied.perf = file.edit /\ applied.log = file.edit

\* The program leaves no server up and no store open when it exits, except when it is
\* forced to, when the shutdown of a server has failed, and when a reload ran meanwhile,
\* which may install a server, or leave one, that nobody shuts down.
ExitLeavesNothing ==
  exiting.pc = "exited" /\ reload.pc = "idle" /\ activeSrv = exiting.srv =>
    \A n \in Ids : ~Live(n) /\ ~stores[n].open
=============================================================================
