--------------------------- MODULE MCPages_proofs ---------------------------
(***************************************************************************)
(* The properties of the pages and services, for any values of their       *)
(* constants.  Each part of MCPages is proved on its own: an inductive     *)
(* invariant of the part, which holds at its Init and is kept by its Next. *)
(* PartsBegin and PartsStep then carry it over to behaviours of MCPages.   *)
(*                                                                         *)
(* A part's variables are v1, v2, ... in MCPages; here they have the names *)
(* they have in the part's module.                                         *)
(***************************************************************************)
EXTENDS MCPages, FiniteSetTheorems, SequenceTheorems, TLAPS

-----------------------------------------------------------------------------
(* The spillover selector.                                                 *)

process == v1
inflight == v2
rr == v3
pc == v4
running == v5
target == v6
USE DEF process, inflight, rr, pc, running, target

\* A request that has a reservation, or had one, has chosen a target, and one that is to
\* choose has none.
Chosen ==
  \A r \in SpillRequests :
    /\ pc[r] \in {"rewrite", "serve", "free"} => target[r] \in Targets
    /\ pc[r] = "choose" => target[r] = 0

SelectorInv == Selector!TypeOK /\ Chosen /\ Selector!CountsHeld

\* The part counts with its own Cardinality, which is that of the library.
LEMMA SelectorCounts ==
  /\ \A S : Selector!IsFiniteSet(S) <=> IsFiniteSet(S)
  /\ \A S : Selector!Cardinality(S) = Cardinality(S)
PROOF
<1>1. \A S : Selector!IsFiniteSet(S) <=> IsFiniteSet(S) BY DEF IsFiniteSet, Selector!IsFiniteSet
<1>2. \A S : Selector!Cardinality(S) = Cardinality(S)
  BY <1>1 DEF Cardinality, Selector!Cardinality, IsFiniteSet, Selector!IsFiniteSet
<1> QED BY <1>1, <1>2

LEMMA HoldersFinite ==
  ASSUME Selector!SpilloverAssumption, NEW t \in Targets
  PROVE  IsFiniteSet(Selector!Holders(t)) /\ Cardinality(Selector!Holders(t)) \in Nat
PROOF
<1>1. Selector!Holders(t) \subseteq SpillRequests BY DEF Selector!Holders
<1> QED BY <1>1, SelectorCounts, FS_Subset, FS_CardinalityType DEF Selector!SpilloverAssumption

-----------------------------------------------------------------------------
LEMMA SelectorInit == ASSUME Selector!SpilloverAssumption, Selector!Init PROVE SelectorInv
PROOF
<1>1. Selector!TypeOK BY DEF Selector!Init, Selector!TypeOK, Selector!ProcessStates,
  Selector!ReadStates
<1>2. Chosen BY DEF Selector!Init, Chosen
<1>3. Selector!CountsHeld
  <2>1. \A t \in Targets : Selector!Holders(t) = {} /\ inflight[t] = 0
    BY DEF Selector!Init, Selector!Holders, Selector!Holding
  <2> QED BY <2>1, SelectorCounts, FS_EmptySet DEF Selector!CountsHeld
<1> QED BY <1>1, <1>2, <1>3 DEF SelectorInv

\* A choice is a target, and reserves it.
LEMMA ChoiceReserves ==
  ASSUME Selector!TypeOK, NEW r \in SpillRequests, Selector!StrategySpillover(r)
  PROVE  /\ pc[r] = "choose" /\ UNCHANGED <<process, running>> /\ rr' \in Nat
         /\ \/ \E t \in Targets : Selector!Reserve(r, t)
            \/ pc' = [pc EXCEPT ![r] = "done"] /\ UNCHANGED <<inflight, target>>
PROOF
<1> DEFINE now == running[r]
<1>1. pc[r] = "choose" /\ UNCHANGED <<process, running>> BY DEF Selector!StrategySpillover
<1>2. CASE Selector!StartNext(r, now)
  <2>1. Selector!Cold(now) \subseteq Targets BY DEF Selector!Cold
  <2> QED BY <1>1, <1>2, <2>1 DEF Selector!StartNext, Selector!TypeOK
<1>3. CASE Selector!ShareLeastBusy(r, now)
  <2>1. Selector!LeastBusy(Selector!Active(now)) \subseteq Targets BY
    DEF Selector!LeastBusy, Selector!Active
  <2> QED BY <1>1, <1>3, <2>1 DEF Selector!ShareLeastBusy, Selector!TypeOK
<1>4. CASE Selector!Refuse(r, now)
  BY <1>1, <1>4 DEF Selector!Refuse, Selector!TypeOK
<1> QED BY <1>2, <1>3, <1>4 DEF Selector!StrategySpillover

LEMMA ReleaseTypes ==
  ASSUME Selector!TypeOK, NEW t \in Targets, Selector!Release(t)
  PROVE  inflight' \in [Targets -> Nat]
PROOF BY DEF Selector!Release, Selector!TypeOK

LEMMA SelectorTypeKept ==
  ASSUME Selector!TypeOK, Chosen, [Selector!Next]_(Selector!vars)
  PROVE  Selector!TypeOK' /\ Chosen'
PROOF
<1>1. CASE UNCHANGED Selector!vars BY <1>1 DEF Selector!vars, Selector!TypeOK, Chosen
<1>2. ASSUME NEW r \in SpillRequests, NEW t \in Local, Selector!Read(r, t)
      PROVE  Selector!TypeOK' /\ Chosen'
  <2>1. (IF process[t] \in {"stopped",
    "shutdown"} THEN "" ELSE process[t]) \in Selector!ReadStates
    BY Zenon DEF Selector!TypeOK, Selector!ProcessStates, Selector!ReadStates
  <2>2. running' \in [SpillRequests -> [Local -> Selector!ReadStates]]
    BY Zenon, <1>2, <2>1 DEF Selector!Read, Selector!TypeOK
  <2> QED BY Zenon, <1>2, <2>2 DEF Selector!Read, Selector!TypeOK, Chosen
<1>3. ASSUME NEW r \in SpillRequests, Selector!StrategySpillover(r)
      PROVE  Selector!TypeOK' /\ Chosen'
  <2>1. ASSUME NEW t \in Targets, Selector!Reserve(r, t)
        PROVE  Selector!TypeOK' /\ Chosen'
    <3>1. inflight' \in [Targets -> Nat] BY <2>1 DEF Selector!Reserve, Selector!TypeOK
    <3>2. /\ pc' \in [SpillRequests -> {"choose", "rewrite", "serve", "free", "done"}]
          /\ target' \in [SpillRequests -> Targets \cup {0}]
      BY <2>1 DEF Selector!Reserve, Selector!TypeOK
    <3>3. Chosen' BY <2>1 DEF Selector!Reserve, Selector!TypeOK, Chosen
    <3> QED BY <1>3, <3>1, <3>2, <3>3, ChoiceReserves DEF Selector!TypeOK
  <2>2. CASE pc' = [pc EXCEPT ![r] = "done"] /\ UNCHANGED <<inflight, target>>
    BY <1>3, <2>2, ChoiceReserves DEF Selector!TypeOK, Chosen
  <2> QED BY <1>3, <2>1, <2>2, ChoiceReserves
<1>4. ASSUME NEW r \in SpillRequests, Selector!Rewrite(r)
      PROVE  Selector!TypeOK' /\ Chosen'
  <2>1. target[r] \in Targets BY <1>4 DEF Selector!Rewrite, Chosen
  <2>2. inflight' \in [Targets -> Nat]
    BY <1>4, <2>1, ReleaseTypes DEF Selector!Rewrite, Selector!TypeOK
  <2>3. pc' \in [SpillRequests -> {"choose", "rewrite", "serve", "free", "done"}]
    BY <1>4 DEF Selector!Rewrite, Selector!TypeOK
  <2>4. Chosen' BY <1>4, <2>1 DEF Selector!Rewrite, Selector!TypeOK, Chosen
  <2> QED BY <1>4, <2>2, <2>3, <2>4 DEF Selector!Rewrite, Selector!TypeOK
<1>5. ASSUME NEW r \in SpillRequests, Selector!Leave(r)
      PROVE  Selector!TypeOK' /\ Chosen'
  BY <1>5 DEF Selector!Leave, Selector!Release, Selector!TypeOK, Chosen
<1>6. ASSUME NEW t \in Local, Selector!Process(t)
      PROVE  Selector!TypeOK' /\ Chosen'
  <2>1. \A s \in Selector!ProcessStates : Selector!Moves(s) \subseteq Selector!ProcessStates
    BY DEF Selector!Moves, Selector!ProcessStates
  <2> QED BY <1>6, <2>1 DEF Selector!Process, Selector!TypeOK, Chosen
<1> QED BY <1>1, <1>2, <1>3, <1>4, <1>5, <1>6 DEF Selector!Next

-----------------------------------------------------------------------------
\* A reservation adds its request to those that hold the target, and no other.
LEMMA Reserves ==
  ASSUME Selector!SpilloverAssumption, SelectorInv, NEW r \in SpillRequests,
    pc[r] = "choose",
         NEW t \in Targets, Selector!Reserve(r, t)
  PROVE  Selector!CountsHeld'
PROOF
<1> SUFFICES ASSUME NEW u \in Targets PROVE inflight'[u] = Cardinality(Selector!Holders(u)')
  BY SelectorCounts DEF Selector!CountsHeld
<1>1. /\ inflight[u] = Cardinality(Selector!Holders(u))
      /\ inflight'[u] = IF u = t THEN inflight[u] + 1 ELSE inflight[u]
  BY SelectorCounts DEF SelectorInv, Selector!CountsHeld, Selector!Reserve, Selector!TypeOK
<1>2. r \notin Selector!Holders(u) BY DEF Selector!Holders, Selector!Holding
<1>3. CASE u = t
  <2>1. Selector!Holders(u)' = Selector!Holders(u) \cup {r}
    BY <1>3 DEF SelectorInv, Selector!TypeOK, Selector!Reserve, Selector!Holders,
      Selector!Holding
  <2>2. IsFiniteSet(Selector!Holders(u)) BY HoldersFinite
  <2>3. Cardinality(Selector!Holders(u) \cup {r}) = Cardinality(Selector!Holders(u)) + 1
    BY Zenon, <1>2, <2>2, FS_AddElement
  <2> QED BY <1>1, <1>3, <2>1, <2>3
<1>4. CASE u # t
  <2>1. Selector!Holders(u)' = Selector!Holders(u)
    BY <1>4 DEF SelectorInv, Selector!TypeOK, Selector!Reserve, Selector!Holders,
      Selector!Holding
  <2> QED BY <1>1, <1>4, <2>1
<1> QED BY <1>3, <1>4

\* Giving a reservation back takes its request away from those that hold the target; the
\* count is not at zero then.
LEMMA GivesBack ==
  ASSUME Selector!SpilloverAssumption, SelectorInv, NEW r \in SpillRequests,
    Selector!Holding(r), Selector!Release(target[r]),
         NEW step \in {"free", "done"}, pc' = [pc EXCEPT ![r] = step], target' = target
  PROVE  Selector!CountsHeld'
PROOF
<1> SUFFICES ASSUME NEW u \in Targets PROVE inflight'[u] = Cardinality(Selector!Holders(u)')
  BY SelectorCounts DEF Selector!CountsHeld
<1>1. inflight[u] = Cardinality(Selector!Holders(u))
  BY SelectorCounts DEF SelectorInv, Selector!CountsHeld
<1>2. target[r] \in Targets BY DEF SelectorInv, Chosen, Selector!Holding
<1>3. CASE u = target[r]
  <2>1. r \in Selector!Holders(u) /\ Selector!Holders(u)' = Selector!Holders(u) \ {r}
    BY <1>3 DEF SelectorInv, Selector!TypeOK, Selector!Holders, Selector!Holding
  <2>2. /\ Cardinality(Selector!Holders(u)') = Cardinality(Selector!Holders(u)) - 1
        /\ Cardinality(Selector!Holders(u)) # 0
    BY <2>1, HoldersFinite, FS_RemoveElement, FS_EmptySet
  <2>3. inflight'[u] = IF inflight[u] > 0 THEN inflight[u] - 1 ELSE inflight[u]
    BY <1>3 DEF SelectorInv, Selector!TypeOK, Selector!Release
  <2> QED BY <1>1, <2>2, <2>3, HoldersFinite
<1>4. CASE u # target[r]
  <2>1. Selector!Holders(u)' = Selector!Holders(u) /\ inflight'[u] = inflight[u]
    BY <1>2, <1>4 DEF SelectorInv, Selector!TypeOK, Selector!Release, Selector!Holders,
      Selector!Holding
  <2> QED BY <1>1, <2>1
<1> QED BY <1>3, <1>4

\* A step that moves no request into or out of its reservation keeps the counts.
LEMMA KeepsReservations ==
  ASSUME SelectorInv, inflight' = inflight, target' = target,
         \A q \in SpillRequests : Selector!Holding(q)' <=> Selector!Holding(q)
  PROVE  Selector!CountsHeld'
PROOF
<1>1. \A t \in Targets : Selector!Holders(t)' = Selector!Holders(t) BY DEF Selector!Holders
<1> QED BY <1>1 DEF SelectorInv, Selector!CountsHeld

LEMMA SelectorStep == ASSUME Selector!SpilloverAssumption, SelectorInv,
  [Selector!Next]_(Selector!vars) PROVE SelectorInv'
PROOF
<1>1. Selector!TypeOK' /\ Chosen' BY SelectorTypeKept DEF SelectorInv
<1>2. CASE UNCHANGED Selector!vars BY <1>1, <1>2, KeepsReservations DEF SelectorInv,
  Selector!vars, Selector!Holding
<1>3. ASSUME NEW r \in SpillRequests, NEW t \in Local, Selector!Read(r, t)
      PROVE  Selector!CountsHeld'
  BY Zenon, <1>3, KeepsReservations DEF Selector!Read, Selector!Holding
<1>4. ASSUME NEW r \in SpillRequests, Selector!StrategySpillover(r)
      PROVE  Selector!CountsHeld'
  <2>1. CASE \E t \in Targets : Selector!Reserve(r, t)
    BY <1>4, <2>1, ChoiceReserves, Reserves DEF SelectorInv
  <2>2. CASE pc' = [pc EXCEPT ![r] = "done"] /\ UNCHANGED <<inflight, target>>
    BY <1>4, <2>2, ChoiceReserves, KeepsReservations DEF SelectorInv, Selector!TypeOK,
      Selector!Holding
  <2> QED BY <1>4, <2>1, <2>2, ChoiceReserves DEF SelectorInv
<1>5. ASSUME NEW r \in SpillRequests, Selector!Rewrite(r)
      PROVE  Selector!CountsHeld'
  <2>1. Selector!Holding(r) /\ target' = target BY <1>5 DEF Selector!Rewrite,
    Selector!Holding
  <2>2. CASE pc' = [pc EXCEPT ![r] = "serve"] /\ UNCHANGED inflight
    BY <1>5, <2>1, <2>2, KeepsReservations DEF SelectorInv, Selector!TypeOK,
      Selector!Rewrite, Selector!Holding
  <2>3. CASE \E step \in {"free", "done"} :
               pc' = [pc EXCEPT ![r] = step] /\ Selector!Release(target[r])
    BY <2>1, <2>3, GivesBack
  <2> QED BY <1>5, <2>2, <2>3 DEF Selector!Rewrite
<1>6. ASSUME NEW r \in SpillRequests, Selector!Leave(r)
      PROVE  Selector!CountsHeld'
  <2>1. CASE pc[r] = "serve" /\ Selector!Release(target[r])
    BY <1>6, <2>1, GivesBack DEF Selector!Leave, Selector!Holding
  <2>2. CASE pc[r] = "free" /\ UNCHANGED inflight
    BY <1>6, <2>2, KeepsReservations DEF SelectorInv, Selector!TypeOK, Selector!Leave,
      Selector!Holding
  <2> QED BY <1>6, <2>1, <2>2 DEF Selector!Leave
<1>7. ASSUME NEW t \in Local, Selector!Process(t)
      PROVE  Selector!CountsHeld'
  BY <1>7, KeepsReservations DEF Selector!Process, Selector!Holding
<1> QED BY <1>1, <1>2, <1>3, <1>4, <1>5, <1>6, <1>7 DEF SelectorInv, Selector!Next

\* SelectorSpillover.Spec: whatever path a request takes (selector.go:106-137), its
\* reservation is counted while it has it and no longer.
THEOREM ReservationsBalance ==
  ASSUME Selector!SpilloverAssumption
  PROVE  Selector!Spec => []Selector!CountsHeld
PROOF
<1>1. Selector!Init => SelectorInv BY SelectorInit
<1>2. SelectorInv /\ [Selector!Next]_(Selector!vars) => SelectorInv' BY SelectorStep
<1>3. SelectorInv => Selector!CountsHeld BY DEF SelectorInv
<1> QED BY <1>1, <1>2, <1>3, PTL DEF Selector!Spec

-----------------------------------------------------------------------------
\* Only its own choice gives a request a target.
LEMMA ChoosesItself ==
  ASSUME Selector!SpilloverAssumption, SelectorInv, [Selector!Next]_(Selector!vars),
    NEW r \in SpillRequests, NEW t \in Targets,
         pc[r] = "choose", target'[r] = t
  PROVE  /\ \A q \in Local : running[r][q] # "unread"
         /\ \/ \E c \in Selector!Cold(running[r]) :
                 c = t /\ Selector!Spills(running[r])
                   /\ \A u \in Selector!Cold(running[r]) : t <= u
            \/ t \in Selector!Active(running[r])
PROOF
<1>1. target[r] # t BY DEF SelectorInv, Chosen, Selector!SpilloverAssumption
<1>2. ASSUME NEW q \in SpillRequests, Selector!StrategySpillover(q)
      PROVE  q = r
  BY <1>1, <1>2 DEF Selector!StrategySpillover, Selector!StartNext,
    Selector!ShareLeastBusy, Selector!Refuse, Selector!Reserve, SelectorInv,
                    Selector!TypeOK
<1>3. target' # target BY <1>1
<1>4. Selector!StrategySpillover(r)
  BY Zenon, <1>2, <1>3 DEF Selector!Next, Selector!vars, Selector!Read, Selector!Rewrite,
    Selector!Leave, Selector!Process
<1>5. CASE Selector!StartNext(r, running[r])
  BY <1>4, <1>5 DEF Selector!StartNext, Selector!StrategySpillover, Selector!Reserve,
    SelectorInv, Selector!TypeOK
<1>6. CASE Selector!ShareLeastBusy(r, running[r])
  BY <1>4, <1>6 DEF Selector!ShareLeastBusy, Selector!StrategySpillover,
    Selector!LeastBusy, Selector!Reserve, SelectorInv, Selector!TypeOK
<1>7. CASE Selector!Refuse(r, running[r])
  BY <1>3, <1>7 DEF Selector!Refuse
<1> QED BY <1>4, <1>5, <1>6, <1>7 DEF Selector!StrategySpillover

LEMMA StepFillsInOrder ==
  ASSUME Selector!SpilloverAssumption, SelectorInv, [Selector!Next]_(Selector!vars)
  PROVE  Selector!FilledInOrder
PROOF
<1> SUFFICES ASSUME NEW r \in SpillRequests, NEW t \in Targets, NEW u \in Targets \ {t},
                    pc[r] = "choose", target'[r] = t, inflight[t] = 0, ~Selector!SeenUp(r,
                      t)
             PROVE  \/ Selector!SeenStopping(r, u)
                    \/ inflight[u] >= Spillover
                    \/ u > t /\ inflight[u] = 0 /\ ~Selector!SeenUp(r, u)
  BY DEF Selector!FilledInOrder
<1> DEFINE now == running[r]
<1>1. t \notin Selector!Active(now) BY DEF Selector!Active, Selector!SeenUp
<1>2. Selector!Spills(now) /\ \A v \in Selector!Cold(now) : t <= v
  BY <1>1, ChoosesItself
<1>3. CASE u \in Selector!Leaving(now)
  BY <1>3 DEF Selector!Leaving, Selector!SeenStopping
<1>4. CASE u \in Selector!Active(now)
  BY <1>2, <1>4 DEF Selector!Spills
<1>5. CASE u \notin Selector!Leaving(now) /\ u \notin Selector!Active(now)
  <2>1. t <= u /\ u # t BY <1>2, <1>5 DEF Selector!Cold
  <2>2. inflight[u] = 0 /\ ~Selector!SeenUp(r, u)
    BY <1>5 DEF Selector!Active, Selector!SeenUp, SelectorInv, Selector!TypeOK
  <2>3. u \in Nat /\ t \in Nat BY DEF Selector!SpilloverAssumption
  <2> QED BY <2>1, <2>2, <2>3
<1> QED BY <1>3, <1>4, <1>5

\* Targets start in the selector's order, each when those before it have their
\* reservations, whatever runs and whatever each request has read of it
\* (config.example.yaml:221-222, selector.go:184-229).
THEOREM FillsInOrder ==
  ASSUME Selector!SpilloverAssumption
  PROVE  Selector!Spec => [][Selector!FilledInOrder]_(Selector!vars)
PROOF
<1>1. Selector!Init => SelectorInv BY SelectorInit
<1>2. SelectorInv /\ [Selector!Next]_(Selector!vars) => SelectorInv' BY SelectorStep
<1>3. SelectorInv
  /\ [Selector!Next]_(Selector!vars) => Selector!FilledInOrder BY StepFillsInOrder
<1> QED BY <1>1, <1>2, <1>3, PTL
  DEF Selector!Spec

HIDE DEF process, inflight, rr, pc, running, target
-----------------------------------------------------------------------------
(* The reload and the exit of the program.                                 *)

file == v1
prev == v2
watcher == v3
signals == v4
reload == v5
servers == v6
stores == v7
activeSrv == v8
activeStore == v9
applied == v10
exiting == v11
stale == v12
USE DEF file, prev, watcher, signals, reload, servers, stores, activeSrv, activeStore,
        applied, exiting, stale

LiveServers == {n \in Reload!Ids : Reload!Live(n)}
OpenStores == {n \in Reload!Ids : stores[n].open}

\* The store of the server that a reload has replaced.
OldStore == servers[reload.old].store

\* While the program exits, the server it shuts down is the active one, unless a reload
\* has installed another one since.
Attended ==
  exiting.pc = "run" \/ (exiting.pc \notin {"exited", "forced"} /\ activeSrv = exiting.srv)
ActivePhases ==
  IF exiting.pc = "stopping" THEN {"stopping"}
  ELSE IF exiting.pc = "close" THEN {"down", "failed"} ELSE {"up"}
ActiveUp == IF exiting.pc = "close" THEN {} ELSE {activeSrv}

Ended == {"stopping", "down", "failed"}

\* At each step of a reload: which servers are up and which stores are open.
Holds ==
  /\ servers[activeSrv].phase \in ActivePhases /\ servers[activeSrv].store = activeStore
  /\ reload.pc \in {"idle", "load", "open"} =>
       LiveServers = ActiveUp /\ OpenStores = {activeStore}
  /\ reload.pc \in {"load", "open"} => ~reload.changed
  /\ reload.pc = "build" =>
       /\ LiveServers = ActiveUp
       /\ reload.store \in Reload!Ids /\ OpenStores = {activeStore, reload.store}
       /\ reload.changed <=> reload.store # activeStore
  /\ reload.pc = "install" =>
       /\ reload.srv \in Reload!Ids /\ LiveServers = ActiveUp \cup {reload.srv}
       /\ reload.srv # activeSrv
       /\ servers[reload.srv].phase = "up" /\ servers[reload.srv].store = reload.store
       /\ reload.store \in Reload!Ids /\ OpenStores = {activeStore, reload.store}
       /\ reload.changed <=> reload.store # activeStore
  /\ reload.pc \in {"stop", "stopping"} =>
       /\ reload.old \in Reload!Ids /\ LiveServers = ActiveUp \cup {reload.old}
       /\ reload.old # activeSrv
       /\ servers[reload.old].phase = IF reload.pc = "stop" THEN "up" ELSE "stopping"
       /\ OldStore \in Reload!Ids /\ OpenStores = {activeStore, OldStore}
       /\ reload.changed <=> OldStore # activeStore
  /\ reload.pc = "close" =>
       /\ reload.old \in Reload!Ids /\ LiveServers = ActiveUp
       /\ OldStore \in Reload!Ids /\ OpenStores = {activeStore, OldStore}
       /\ reload.changed <=> OldStore # activeStore

\* What the exit has read stays true of the server it shuts down; if no other one was
\* installed and no reload runs, nothing is left at the end.
Leaves ==
  /\ exiting.pc # "run" =>
       /\ exiting.srv \in Reload!Ids /\ servers[exiting.srv].phase # "unused"
       /\ reload.pc = "install" => reload.srv # exiting.srv
       /\ activeSrv = exiting.srv => exiting.store = activeStore
  /\ exiting.pc = "exited" /\ reload.pc = "idle" /\ activeSrv = exiting.srv =>
       LiveServers = {} /\ OpenStores = {}

\* Which edit of the file each part of the program has.
Current ==
  /\ prev <= file.edit + 1 /\ applied.perf <= file.edit
  /\ reload.pc # "load" /\ ~stale /\ prev # 0 => prev - 1 <= applied.perf
  /\ reload.pc \in {"open", "build", "install"} => reload.version = applied.perf
  /\ reload.pc = "install" =>
       /\ servers[reload.srv].version = reload.version
       /\ servers[reload.srv].phase # "unused"
  /\ reload.pc \in {"stop", "stopping", "close"} \/ (reload.pc = "idle" /\ ~stale) =>
       servers[activeSrv].version = applied.perf /\ applied.log = applied.perf
  /\ servers[activeSrv].phase # "unused"

\* What a reload has opened and built has a number.
Numbered ==
  /\ reload.pc \in {"build", "install"} => reload.store \in Reload!Ids
  /\ reload.pc = "install" => reload.srv \in Reload!Ids

ReloadInv == Reload!TypeOK /\ Numbered /\ (Attended => Holds) /\ Leaves /\ Current

-----------------------------------------------------------------------------
LEMMA IdsTypes == ASSUME Reload!ReloadAssumption PROVE 1 \in Reload!Ids
  /\ 0 \in 0..MaxEdits /\ 0 \notin Reload!Ids
PROOF BY DEF Reload!ReloadAssumption, Reload!Ids

LEMMA ReloadInit == ASSUME Reload!ReloadAssumption, Reload!Init PROVE ReloadInv
PROOF
<1>1. PICK path \in Paths :
        /\ file = [edit |-> 0, exists |-> TRUE, loads |-> TRUE, path |-> path]
        /\ stores = [[n \in Reload!Ids |-> Reload!Closed] EXCEPT ![1] = [path |-> path,
          open |-> TRUE]]
  BY DEF Reload!Init
<1>2. Reload!TypeOK
  <2>1. file \in Reload!Files BY <1>1, IdsTypes DEF Reload!Files
  <2>2. stores \in [Reload!Ids -> Reload!Stores] BY <1>1 DEF Reload!Closed, Reload!Stores
  <2>3. servers \in [Reload!Ids -> Reload!Servers] BY IdsTypes DEF Reload!Init,
    Reload!Unused, Reload!Servers
  <2>4. prev \in 0..(MaxEdits + 1) /\ signals \in 0..MaxSignals
    BY DEF Reload!Init, Reload!ReloadAssumption
  <2>5. reload \in Reload!Reloads /\ exiting \in Reload!Exits
    BY IdsTypes DEF Reload!Init, Reload!NoReload, Reload!Reloads, Reload!Exits
  <2> QED BY <2>1, <2>2, <2>3, <2>4, <2>5, IdsTypes DEF Reload!Init, Reload!TypeOK
<1>3. LiveServers = {1} BY IdsTypes DEF Reload!Init, LiveServers, Reload!Live, Reload!Unused
<1>4. OpenStores = {1} BY <1>1, IdsTypes DEF OpenStores, Reload!Closed
<1>5. servers[1].phase = "up" /\ servers[1].store = 1 BY IdsTypes DEF Reload!Init
<1>6. Numbered /\ Holds
  BY <1>3, <1>4, <1>5 DEF Reload!Init, Numbered, Holds, ActivePhases, ActiveUp, Reload!NoReload
<1>7. Leaves BY DEF Reload!Init, Leaves
<1>8. Current BY <1>1, <1>5, IdsTypes DEF Reload!Init, Current, Reload!NoReload
<1> QED BY <1>2, <1>6, <1>7, <1>8 DEF ReloadInv

-----------------------------------------------------------------------------
\* Typing

LEMMA NoReloadTypes == ASSUME Reload!ReloadAssumption PROVE Reload!NoReload \in Reload!Reloads
PROOF BY IdsTypes DEF Reload!NoReload, Reload!Reloads

LEMMA FinishTypes ==
  ASSUME Reload!ReloadAssumption, Reload!TypeOK, Reload!Finish
  PROVE  reload' \in Reload!Reloads /\ watcher' \in {"start", "tick", "change"}
PROOF BY NoReloadTypes DEF Reload!Finish, Reload!TypeOK

LEMMA CloseTypes ==
  ASSUME Reload!TypeOK, NEW n, Reload!CloseStore(n)
  PROVE  stores' \in [Reload!Ids -> Reload!Stores]
PROOF BY DEF Reload!CloseStore, Reload!TypeOK, Reload!Stores

LEMMA PhaseTypes ==
  ASSUME Reload!TypeOK, NEW n \in Reload!Ids \cup {0}, NEW phase \in Ended,
         servers' = [servers EXCEPT ![n].phase = phase]
  PROVE  servers' \in [Reload!Ids -> Reload!Servers]
PROOF BY DEF Reload!TypeOK, Reload!Servers, Ended

LEMMA AskTypes ==
  ASSUME Reload!ReloadAssumption, Reload!TypeOK, NEW who \in {"watcher", "signal"},
    Reload!Ask(who)
  PROVE  reload' \in Reload!Reloads /\ stale' \in BOOLEAN
PROOF
<1>1. CASE reload.pc = "idle"
  <2>1. [Reload!NoReload EXCEPT !.pc = "load",
    !.by = who] \in Reload!Reloads BY NoReloadTypes DEF Reload!Reloads
  <2> QED BY <1>1, <2>1 DEF Reload!Ask, Reload!TypeOK
<1>2. CASE reload.pc # "idle" BY <1>2 DEF Reload!Ask, Reload!TypeOK
<1> QED BY <1>1, <1>2

LEMMA ReloadTypeKept ==
  ASSUME Reload!ReloadAssumption, Reload!TypeOK, Numbered, [Reload!Next]_(Reload!vars)
  PROVE  Reload!TypeOK'
PROOF
<1> USE DEF Reload!built, Reload!active
<1>1. CASE UNCHANGED Reload!vars BY <1>1 DEF Reload!vars, Reload!TypeOK
<1>2. ASSUME Reload!Edit
      PROVE  Reload!TypeOK'
  <2>1. file' \in Reload!Files BY <1>2 DEF Reload!Edit, Reload!TypeOK, Reload!Files,
    Reload!ReloadAssumption
  <2> QED BY <1>2, <2>1 DEF Reload!Edit, Reload!TypeOK
<1>3. ASSUME Reload!MoveAway
      PROVE  Reload!TypeOK'
  <2>1. file' \in Reload!Files BY <1>3 DEF Reload!MoveAway, Reload!TypeOK, Reload!Files
  <2> QED BY <1>3, <2>1 DEF Reload!MoveAway, Reload!TypeOK
<1>4. ASSUME Reload!Tick
      PROVE  Reload!TypeOK'
  <2>1. prev' \in 0..(MaxEdits + 1)
    BY <1>4 DEF Reload!Tick, Reload!Seen, Reload!TypeOK, Reload!Files,
      Reload!ReloadAssumption
  <2>2. reload' \in Reload!Reloads /\ stale' \in BOOLEAN /\ watcher' \in {"start", "tick", "change"}
    BY <1>4, AskTypes DEF Reload!Tick, Reload!TypeOK
  <2> QED BY <1>4, <2>1, <2>2 DEF Reload!Tick, Reload!TypeOK
<1>5. ASSUME Reload!Hangup
      PROVE  Reload!TypeOK'
  <2>1. signals' \in 0..MaxSignals BY <1>5 DEF Reload!Hangup, Reload!TypeOK,
    Reload!ReloadAssumption
  <2>2. reload' \in Reload!Reloads /\ stale' \in BOOLEAN BY <1>5, AskTypes DEF Reload!Hangup
  <2> QED BY <1>5, <2>1, <2>2 DEF Reload!Hangup, Reload!TypeOK
<1>6. ASSUME Reload!Load
      PROVE  Reload!TypeOK'
  <2>1. CASE file.exists /\ file.loads
    <3>1. file.edit \in 0..MaxEdits /\ file.path \in Paths BY DEF Reload!TypeOK,
      Reload!Files
    <3>2. reload' \in Reload!Reloads
      <4>1. reload' = [reload EXCEPT !.pc = "open", !.version = file.edit, !.path = file.path]
        BY Zenon, <1>6, <2>1 DEF Reload!Load
      <4>2. reload \in Reload!Reloads BY Zenon DEF Reload!TypeOK
      <4> QED BY <3>1, <4>1, <4>2 DEF Reload!Reloads
    <3>3. applied' \in [perf : 0..MaxEdits, log : 0..MaxEdits]
      BY <1>6, <2>1, <3>1 DEF Reload!Load, Reload!TypeOK
    <3> QED BY <1>6, <2>1, <3>2, <3>3 DEF Reload!Load, Reload!TypeOK
  <2>2. CASE ~(file.exists /\ file.loads)
    BY <1>6, <2>2, FinishTypes DEF Reload!Load, Reload!Fails, Reload!TypeOK
  <2> QED BY <2>1, <2>2
<1>7. ASSUME Reload!Open
      PROVE  Reload!TypeOK'
  <2>1. CASE Reload!Fails /\ UNCHANGED stores
    BY Zenon, <1>7, <2>1, FinishTypes DEF Reload!Open, Reload!Fails, Reload!TypeOK
  <2>2. CASE reload' = [reload EXCEPT !.pc = "build", !.store = activeStore]
             /\ UNCHANGED <<stores, watcher, stale>>
    <3>1. reload' \in Reload!Reloads BY <2>2 DEF Reload!TypeOK, Reload!Reloads
    <3> QED BY Zenon, <1>7, <2>2, <3>1 DEF Reload!Open, Reload!TypeOK
  <2>3. ASSUME NEW n \in Reload!Ids, UNCHANGED <<watcher, stale>>,
               stores' = [stores EXCEPT ![n] = [path |-> reload.path, open |-> TRUE]],
               reload' = [reload EXCEPT !.pc = "build", !.store = n, !.changed = TRUE]
        PROVE  Reload!TypeOK'
    <3>1. reload' \in Reload!Reloads BY <2>3 DEF Reload!TypeOK, Reload!Reloads
    <3>2. reload.path \in Paths \cup {"none"} BY DEF Reload!TypeOK, Reload!Reloads
    <3>3. stores' \in [Reload!Ids -> Reload!Stores] BY <2>3, <3>2 DEF Reload!TypeOK,
      Reload!Stores
    <3> QED BY Zenon, <1>7, <2>3, <3>1, <3>3 DEF Reload!Open, Reload!TypeOK
  <2> QED BY Zenon, <1>7, <2>1, <2>2, <2>3 DEF Reload!Open
<1>8. ASSUME Reload!Build
      PROVE  Reload!TypeOK'
  <2>1. CASE Reload!Starts /\ UNCHANGED <<stores, watcher, stale>>
    <3>1. PICK n \in Reload!Ids :
            /\ servers' = [servers EXCEPT ![n] =
                 [version |-> reload.version, store |-> reload.store, phase |-> "up"]]
            /\ reload' = [reload EXCEPT !.pc = "install", !.srv = n]
      BY Zenon, <2>1 DEF Reload!Starts
    <3>2. reload' \in Reload!Reloads BY <3>1 DEF Reload!TypeOK, Reload!Reloads
    <3>3. reload.version \in 0..MaxEdits /\ reload.store \in Reload!Ids \cup {0}
      BY DEF Reload!TypeOK, Reload!Reloads
    <3>4. servers' \in [Reload!Ids -> Reload!Servers] BY <3>1, <3>3 DEF Reload!TypeOK,
      Reload!Servers
    <3> QED BY <1>8, <2>1, <3>2, <3>4 DEF Reload!Build, Reload!TypeOK
  <2>2. CASE /\ Reload!Fails
             /\ IF reload.changed THEN Reload!CloseStore(reload.store) ELSE UNCHANGED stores
             /\ UNCHANGED servers
    <3>1. reload.store \in Reload!Ids \cup {0} BY DEF Reload!TypeOK, Reload!Reloads
    <3>2. stores' \in [Reload!Ids -> Reload!Stores] BY <2>2, <3>1, CloseTypes
      DEF Reload!TypeOK
    <3> QED BY <1>8, <2>2, <3>2, FinishTypes DEF Reload!Build, Reload!Fails, Reload!TypeOK
  <2> QED BY <1>8, <2>1, <2>2 DEF Reload!Build
<1>9. ASSUME Reload!Install
      PROVE  Reload!TypeOK'
  <2>1. reload.srv \in Reload!Ids /\ reload.store \in Reload!Ids BY <1>9
    DEF Reload!Install, Numbered
  <2>2. reload.version \in 0..MaxEdits BY DEF Reload!TypeOK, Reload!Reloads
  <2>3. reload' \in Reload!Reloads BY <1>9 DEF Reload!Install, Reload!TypeOK, Reload!Reloads
  <2>4. applied' \in [perf : 0..MaxEdits, log : 0..MaxEdits]
    BY <1>9, <2>2 DEF Reload!Install, Reload!TypeOK
  <2> QED BY <1>9, <2>1, <2>3, <2>4 DEF Reload!Install, Reload!TypeOK
<1>10. ASSUME Reload!Stop
      PROVE  Reload!TypeOK'
  <2>1. reload.old \in Reload!Ids \cup {0} BY DEF Reload!TypeOK, Reload!Reloads
  <2>2. servers' \in [Reload!Ids -> Reload!Servers] BY <1>10, <2>1, PhaseTypes
    DEF Reload!Stop, Reload!TypeOK, Ended
  <2>3. reload' \in Reload!Reloads BY <1>10 DEF Reload!Stop, Reload!TypeOK, Reload!Reloads
  <2> QED BY <1>10, <2>2, <2>3 DEF Reload!Stop, Reload!TypeOK
<1>11. ASSUME Reload!Stopped
      PROVE  Reload!TypeOK'
  <2>1. reload.old \in Reload!Ids \cup {0} BY DEF Reload!TypeOK, Reload!Reloads
  <2>2. servers' \in [Reload!Ids -> Reload!Servers] BY <1>11, <2>1, PhaseTypes
    DEF Reload!Stopped, Ended
  <2>3. reload' \in Reload!Reloads BY <1>11 DEF Reload!Stopped, Reload!TypeOK,
    Reload!Reloads
  <2> QED BY <1>11, <2>2, <2>3 DEF Reload!Stopped, Reload!TypeOK
<1>12. ASSUME Reload!CloseOld
      PROVE  Reload!TypeOK'
  <2>1. stores' \in [Reload!Ids -> Reload!Stores]
    BY <1>12, CloseTypes DEF Reload!CloseOld, Reload!TypeOK
  <2> QED BY <1>12, <2>1, FinishTypes DEF Reload!CloseOld, Reload!TypeOK
<1>13. ASSUME Reload!Term
      PROVE  Reload!TypeOK'
  <2>1. exiting' \in Reload!Exits BY <1>13 DEF Reload!Term, Reload!TypeOK, Reload!Exits
  <2> QED BY <1>13, <2>1 DEF Reload!Term, Reload!TypeOK
<1>14. ASSUME Reload!TermStop
      PROVE  Reload!TypeOK'
  <2>1. exiting.srv \in Reload!Ids \cup {0} BY DEF Reload!TypeOK, Reload!Exits
  <2>2. servers' \in [Reload!Ids -> Reload!Servers] BY <1>14, <2>1, PhaseTypes
    DEF Reload!TermStop, Reload!TypeOK, Ended
  <2>3. exiting' \in Reload!Exits BY <1>14 DEF Reload!TermStop, Reload!TypeOK, Reload!Exits
  <2> QED BY <1>14, <2>2, <2>3 DEF Reload!TermStop, Reload!TypeOK
<1>15. ASSUME Reload!TermStopped
      PROVE  Reload!TypeOK'
  <2>1. exiting.srv \in Reload!Ids \cup {0} BY DEF Reload!TypeOK, Reload!Exits
  <2>2. servers' \in [Reload!Ids -> Reload!Servers] BY <1>15, <2>1, PhaseTypes
    DEF Reload!TermStopped, Ended
  <2>3. exiting' \in Reload!Exits BY <1>15 DEF Reload!TermStopped, Reload!TypeOK,
    Reload!Exits
  <2> QED BY <1>15, <2>2, <2>3 DEF Reload!TermStopped, Reload!TypeOK
<1>16. ASSUME Reload!TermClose
      PROVE  Reload!TypeOK'
  <2>1. exiting.store \in Reload!Ids \cup {0} BY DEF Reload!TypeOK, Reload!Exits
  <2>2. stores' \in [Reload!Ids -> Reload!Stores] BY <1>16, <2>1, CloseTypes
    DEF Reload!TermClose
  <2>3. exiting' \in Reload!Exits BY <1>16 DEF Reload!TermClose, Reload!TypeOK, Reload!Exits
  <2> QED BY <1>16, <2>2, <2>3 DEF Reload!TermClose, Reload!TypeOK
<1>17. ASSUME Reload!Baseline
       PROVE  Reload!TypeOK'
  <2>1. prev' \in 0..(MaxEdits + 1)
    BY <1>17 DEF Reload!Baseline, Reload!Seen, Reload!TypeOK, Reload!Files,
      Reload!ReloadAssumption
  <2>2. stale' \in BOOLEAN BY Zenon, <1>17 DEF Reload!Baseline
  <2> QED BY <1>17, <2>1, <2>2 DEF Reload!Baseline, Reload!TypeOK
<1>18. ASSUME Reload!ForceExit
       PROVE  Reload!TypeOK'
  <2>1. exiting' \in Reload!Exits
    BY <1>18 DEF Reload!ForceExit, Reload!TypeOK, Reload!Exits
  <2> QED BY <1>18, <2>1 DEF Reload!ForceExit, Reload!TypeOK
<1> QED BY <1>1, <1>2, <1>3, <1>4, <1>5, <1>6, <1>7, <1>8, <1>9, <1>10, <1>11, <1>12, <1>13,
           <1>14, <1>15, <1>16, <1>17, <1>18 DEF Reload!Next, Reload!Reload, Reload!Exit

\* Open and Build give what they made its number; nothing else goes on to build or install.
LEMMA NumberedKept ==
  ASSUME Reload!ReloadAssumption, Reload!TypeOK, Numbered, [Reload!Next]_(Reload!vars)
  PROVE  Numbered'
PROOF
<1> USE DEF Numbered
<1>1. CASE reload' = reload BY <1>1
<1>2. CASE reload' = Reload!NoReload BY <1>2 DEF Reload!NoReload
<1>3. ASSUME NEW who, Reload!Ask(who)
      PROVE  Numbered'
  BY <1>1, <1>3 DEF Reload!Ask, Reload!NoReload
<1>4. ASSUME Reload!Load
      PROVE  Numbered'
  BY <1>2, <1>4 DEF Reload!Load, Reload!Fails, Reload!Finish, Reload!TypeOK, Reload!Reloads
<1>5. ASSUME Reload!Open
      PROVE  Numbered'
  BY Zenon, <1>2, <1>5 DEF Reload!Open, Reload!Fails, Reload!Finish, Reload!TypeOK, Reload!Reloads
<1>6. ASSUME Reload!Build
      PROVE  Numbered'
  BY Zenon, <1>2, <1>6 DEF Reload!Build, Reload!Starts, Reload!Fails, Reload!Finish,
    Reload!TypeOK, Reload!Reloads
<1>7. ASSUME Reload!Install \/ Reload!Stop \/ Reload!Stopped
      PROVE  Numbered'
  BY <1>7 DEF Reload!Install, Reload!Stop, Reload!Stopped, Reload!TypeOK, Reload!Reloads
<1>8. ASSUME Reload!CloseOld
      PROVE  Numbered'
  BY <1>2, <1>8 DEF Reload!CloseOld, Reload!Finish
<1>9. CASE UNCHANGED Reload!vars BY <1>1, <1>9 DEF Reload!vars
<1>10. CASE Reload!Edit \/ Reload!MoveAway \/ Reload!Baseline \/ Reload!Exit
  BY <1>1, <1>10 DEF Reload!Edit, Reload!MoveAway, Reload!Baseline, Reload!Exit, Reload!Term,
    Reload!TermStop, Reload!TermStopped, Reload!TermClose, Reload!ForceExit
<1>11. CASE Reload!Tick \/ Reload!Hangup
  BY <1>1, <1>3, <1>11 DEF Reload!Tick, Reload!Hangup
<1> QED BY <1>4, <1>5, <1>6, <1>7, <1>8, <1>9, <1>10, <1>11 DEF Reload!Next, Reload!Reload

-----------------------------------------------------------------------------
\* What the steps do to the servers that are up and the stores that are open

LEMMA StartsOne ==
  ASSUME Reload!TypeOK, NEW n \in Reload!Ids, NEW s, s.phase = "up", servers[n] = Reload!Unused,
         servers' = [servers EXCEPT ![n] = s]
  PROVE  /\ n \notin LiveServers /\ LiveServers' = LiveServers \cup {n}
         /\ servers[n].phase = "unused" /\ servers'[n] = s
         /\ \A k \in Reload!Ids \ {n} : servers'[k] = servers[k]
PROOF
<1>1. servers'[n] = s BY DEF Reload!TypeOK
<1>2. \A k \in Reload!Ids \ {n} : servers'[k] = servers[k] BY DEF Reload!TypeOK
<1>3. \A k \in Reload!Ids : Reload!Live(k)' <=> (Reload!Live(k) \/ k = n) BY <1>1, <1>2
  DEF Reload!Live
<1> QED BY <1>1, <1>2, <1>3 DEF LiveServers, Reload!Live, Reload!Unused

LEMMA TurnsTo ==
  ASSUME Reload!TypeOK, NEW n \in Reload!Ids, NEW phase \in Ended,
         servers' = [servers EXCEPT ![n].phase = phase]
  PROVE  /\ servers'[n].phase = phase /\ servers'[n].store = servers[n].store
         /\ \A k \in Reload!Ids \ {n} : servers'[k] = servers[k]
         /\ n \in LiveServers /\ phase = "stopping" => LiveServers' = LiveServers
         /\ phase # "stopping" => LiveServers' = LiveServers \ {n}
PROOF
<1>1. servers'[n].phase = phase /\ servers'[n].store = servers[n].store
  BY DEF Reload!TypeOK, Reload!Servers
<1>2. \A k \in Reload!Ids \ {n} : servers'[k] = servers[k] BY DEF Reload!TypeOK
<1> QED BY <1>1, <1>2 DEF LiveServers, Reload!Live, Ended

LEMMA OpensOne ==
  ASSUME Reload!TypeOK, NEW n \in Reload!Ids, NEW path, stores[n] = Reload!Closed,
         stores' = [stores EXCEPT ![n] = [path |-> path, open |-> TRUE]]
  PROVE  n \notin OpenStores /\ OpenStores' = OpenStores \cup {n}
PROOF
<1>1. stores'[n].open /\ \A k \in Reload!Ids \ {n} : stores'[k] = stores[k] BY
  DEF Reload!TypeOK
<1> QED BY <1>1 DEF OpenStores, Reload!Closed

LEMMA ClosesOne ==
  ASSUME Reload!TypeOK, NEW n \in Reload!Ids, Reload!CloseStore(n)
  PROVE  OpenStores' = OpenStores \ {n}
PROOF
<1>1. ~stores'[n].open /\ \A k \in Reload!Ids \ {n} : stores'[k] = stores[k]
  BY DEF Reload!CloseStore, Reload!TypeOK, Reload!Stores
<1> QED BY <1>1 DEF OpenStores

-----------------------------------------------------------------------------
\* What a step does to the versions, stores and phases of the servers when it stops one
LEMMA PhaseOnly ==
  ASSUME Reload!TypeOK, NEW n, NEW phase \in Ended,
         servers' = [servers EXCEPT ![n].phase = phase]
  PROVE  \A k \in Reload!Ids :
           /\ servers'[k].version = servers[k].version /\ servers'[k].store = servers[k].store
           /\ servers'[k].phase \in {servers[k].phase, phase}
PROOF BY DEF Reload!TypeOK, Reload!Servers

-----------------------------------------------------------------------------
\* A step that reads what is up and open changes it as the next step expects it, as long
\* as the exit has the active server.
LEMMA AttendedBefore ==
  ASSUME Reload!TypeOK, Leaves, [Reload!Next]_(Reload!vars), Attended'
  PROVE  Attended /\ (Reload!Install => exiting.pc = "run")
PROOF
<1> USE DEF Attended, Reload!built, Reload!active
<1>1. CASE UNCHANGED <<exiting, activeSrv>> /\ ~Reload!Install
  BY <1>1
<1>2. CASE Reload!Install
  BY <1>2 DEF Reload!Install, Leaves
<1>3. CASE Reload!Exit
  BY <1>3 DEF Reload!Exit, Reload!Term, Reload!TermStop, Reload!TermStopped,
    Reload!TermClose, Reload!ForceExit, Reload!TypeOK, Reload!Exits, Reload!Install
<1>4. CASE ~Reload!Install /\ ~Reload!Exit
  BY Zenon, <1>1, <1>4 DEF Reload!Next, Reload!vars, Reload!Edit, Reload!MoveAway, Reload!Baseline,
    Reload!Tick, Reload!Hangup, Reload!Reload, Reload!Load, Reload!Open, Reload!Build, Reload!Stop,
    Reload!Stopped, Reload!CloseOld
<1> QED BY <1>2, <1>3, <1>4

LEMMA HoldsKept ==
  ASSUME Reload!ReloadAssumption, Reload!TypeOK, Numbered, Attended, Holds, Leaves, Attended',
    [Reload!Next]_(Reload!vars)
  PROVE  Holds'
PROOF
<1> USE DEF Holds, Reload!active
<1>0. /\ UNCHANGED servers => LiveServers' = LiveServers
      /\ UNCHANGED stores => OpenStores' = OpenStores
      /\ UNCHANGED <<exiting, activeSrv>> => ActiveUp' = ActiveUp /\ ActivePhases' = ActivePhases
      /\ exiting.pc = "run" => ActiveUp = {activeSrv} /\ ActivePhases = {"up"}
      /\ exiting'.pc = "run" => ActiveUp' = {activeSrv'} /\ ActivePhases' = {"up"}
      /\ ActiveUp \subseteq {activeSrv} /\ "unused" \notin ActivePhases
  BY DEF LiveServers, Reload!Live, OpenStores, ActiveUp, ActivePhases
<1>1. ASSUME UNCHANGED <<reload, servers, stores, activeSrv, activeStore, exiting>>
      PROVE  Holds'
  BY <1>0, <1>1 DEF OldStore
<1>2. ASSUME NEW who, Reload!Ask(who),
             UNCHANGED <<servers, stores, activeSrv, activeStore, exiting>>
      PROVE  Holds'
  BY <1>0, <1>1, <1>2 DEF Reload!Ask, Reload!NoReload
<1>3. ASSUME reload.pc \in {"load", "open"}, reload' = Reload!NoReload,
             UNCHANGED <<servers, stores, activeSrv, activeStore, exiting>>
      PROVE  Holds'
  BY <1>0, <1>3 DEF Reload!NoReload
<1>4. ASSUME Reload!Load
      PROVE  Holds'
  <2>1. CASE file.exists /\ file.loads
    <3>1. reload'.pc = "open" /\ reload'.changed = reload.changed
      BY <1>4, <2>1 DEF Reload!Load, Reload!TypeOK, Reload!Reloads
    <3> QED BY <1>0, <1>4, <3>1 DEF Reload!Load
  <2>2. CASE ~(file.exists /\ file.loads)
    BY <1>3, <1>4, <2>2 DEF Reload!Load, Reload!Fails, Reload!Finish
  <2> QED BY <2>1, <2>2
<1>5. ASSUME Reload!Open
      PROVE  Holds'
  <2>1. CASE Reload!Fails /\ UNCHANGED stores
    BY Zenon, <1>3, <1>5, <2>1 DEF Reload!Open, Reload!Fails, Reload!Finish
  <2>2. CASE reload.path = stores[activeStore].path
             /\ reload' = [reload EXCEPT !.pc = "build", !.store = activeStore]
             /\ UNCHANGED <<stores, watcher, stale>>
    BY <1>0, <1>5, <2>2 DEF Reload!Open, Reload!TypeOK, Reload!Reloads
  <2>3. ASSUME NEW n \in Reload!Ids, Reload!NewStore(n),
               stores' = [stores EXCEPT ![n] = [path |-> reload.path, open |-> TRUE]],
               reload' = [reload EXCEPT !.pc = "build", !.store = n, !.changed = TRUE]
        PROVE  Holds'
    <3>1. n \notin OpenStores /\ OpenStores' = OpenStores \cup {n}
      BY <2>3, OpensOne DEF Reload!NewStore
    <3>2. /\ reload.pc = "open" /\ UNCHANGED <<activeSrv, activeStore, exiting, servers>>
          /\ activeStore \in OpenStores
      BY Zenon, <1>5 DEF Reload!Open
    <3>3. reload'.pc = "build" /\ reload'.store = n /\ reload'.changed
      BY <2>3 DEF Reload!TypeOK, Reload!Reloads
    <3> QED BY <1>0, <3>1, <3>2, <3>3
  <2> QED BY Zenon, <1>5, <2>1, <2>2, <2>3 DEF Reload!Open
<1>6. ASSUME Reload!Build
      PROVE  Holds'
  <2>1. CASE Reload!Starts /\ UNCHANGED <<stores, watcher, stale>>
    <3> DEFINE s == [version |-> reload.version, store |-> reload.store, phase |-> "up"]
    <3>1. PICK n \in Reload!Ids :
            /\ Reload!NewServer(n)
            /\ servers' = [servers EXCEPT ![n] = s]
            /\ reload' = [reload EXCEPT !.pc = "install", !.srv = n]
      BY Zenon, <2>1 DEF Reload!Starts
    <3>2. /\ n \notin LiveServers /\ LiveServers' = LiveServers \cup {n}
          /\ servers[n].phase = "unused" /\ servers'[n] = s
          /\ \A k \in Reload!Ids \ {n} : servers'[k] = servers[k]
      <4>1. servers[n] = Reload!Unused BY <3>1 DEF Reload!NewServer
      <4>2. s.phase = "up" OBVIOUS
      <4> HIDE DEF s
      <4> QED BY <3>1, <4>1, <4>2, StartsOne
    <3>3. /\ reload.pc = "build" /\ UNCHANGED <<activeSrv, activeStore, exiting, stores>>
          /\ activeSrv # n /\ servers'[activeSrv] = servers[activeSrv]
      BY <1>0, <1>6, <2>1, <3>2 DEF Reload!Build, Reload!TypeOK
    <3>4. /\ reload'.pc = "install" /\ reload'.srv = n /\ reload'.store = reload.store
          /\ reload'.changed = reload.changed
      BY <3>1 DEF Reload!TypeOK, Reload!Reloads
    <3> QED BY <1>0, <3>1, <3>2, <3>3, <3>4
  <2>2. CASE /\ Reload!Fails
             /\ IF reload.changed THEN Reload!CloseStore(reload.store) ELSE UNCHANGED stores
             /\ UNCHANGED servers
    <3>1. OpenStores' = {activeStore}
      BY <1>0, <1>6, <2>2, ClosesOne DEF Reload!Build, Reload!TypeOK
    <3> QED BY <1>0, <1>6, <2>2, <3>1 DEF Reload!Build, Reload!Fails, Reload!Finish,
      Reload!NoReload
  <2> QED BY <1>6, <2>1, <2>2 DEF Reload!Build
<1>7. ASSUME Reload!Install
      PROVE  Holds'
  BY <1>0, <1>7 DEF Reload!Install, Attended, Leaves, OldStore, Reload!TypeOK, Reload!Reloads
<1>8. ASSUME Reload!Stop
      PROVE  Holds'
  <2>1. /\ servers' = [servers EXCEPT ![reload.old].phase = "stopping"]
        /\ reload' = [reload EXCEPT !.pc = "stopping"]
        /\ reload.old \in Reload!Ids
    BY <1>8 DEF Reload!Stop
  <2>2. /\ servers'[reload.old].phase = "stopping" /\ OldStore' = OldStore
        /\ servers'[activeSrv] = servers[activeSrv] /\ LiveServers' = LiveServers
    <3>1. reload'.old = reload.old BY <2>1 DEF Reload!TypeOK, Reload!Reloads
    <3>2. activeSrv \in Reload!Ids \ {reload.old} BY <1>8 DEF Reload!Stop, Reload!TypeOK
    <3>3. /\ servers'[reload.old].phase = "stopping"
          /\ servers'[reload.old].store = servers[reload.old].store
          /\ \A k \in Reload!Ids \ {reload.old} : servers'[k] = servers[k]
          /\ (reload.old \in LiveServers => LiveServers' = LiveServers)
      BY <2>1, TurnsTo DEF Ended
    <3> QED BY <1>8, <3>1, <3>2, <3>3 DEF Reload!Stop, OldStore
  <2> QED BY <1>0, <1>8, <2>1, <2>2 DEF Reload!Stop, Reload!TypeOK, Reload!Reloads
<1>9. ASSUME Reload!Stopped
      PROVE  Holds'
  <2>0. PICK phase \in {"down", "failed"} :
          servers' = [servers EXCEPT ![reload.old].phase = phase]
    BY Zenon, <1>9 DEF Reload!Stopped
  <2>1. /\ reload' = [reload EXCEPT !.pc = "close"]
        /\ reload.old \in Reload!Ids
    BY <1>9 DEF Reload!Stopped
  <2>2. /\ OldStore' = OldStore /\ servers'[activeSrv] = servers[activeSrv]
        /\ LiveServers' = LiveServers \ {reload.old}
    <3>1. reload'.old = reload.old BY <2>1 DEF Reload!TypeOK, Reload!Reloads
    <3>2. activeSrv \in Reload!Ids \ {reload.old} BY <1>9 DEF Reload!Stopped, Reload!TypeOK
    <3>3. /\ servers'[reload.old].store = servers[reload.old].store
          /\ \A k \in Reload!Ids \ {reload.old} : servers'[k] = servers[k]
          /\ LiveServers' = LiveServers \ {reload.old}
      BY <2>0, <2>1, TurnsTo DEF Ended
    <3> QED BY <1>9, <3>1, <3>2, <3>3 DEF Reload!Stopped, OldStore
  <2> QED BY <1>0, <1>9, <2>1, <2>2 DEF Reload!Stopped, Reload!TypeOK, Reload!Reloads
<1>10. ASSUME Reload!CloseOld
      PROVE  Holds'
  <2>1. OpenStores' = {activeStore}
    BY <1>0, <1>10, ClosesOne DEF Reload!CloseOld, OldStore
  <2> QED BY <1>0, <1>10, <2>1 DEF Reload!CloseOld, Reload!Finish, Reload!NoReload
<1>11. CASE UNCHANGED Reload!vars BY <1>1, <1>11 DEF Reload!vars
<1>12. CASE Reload!Edit \/ Reload!MoveAway \/ Reload!Baseline
  BY <1>1, <1>12 DEF Reload!Edit, Reload!MoveAway, Reload!Baseline, Reload!built
<1>13. CASE Reload!Tick \/ Reload!Hangup
  BY <1>1, <1>2, <1>13 DEF Reload!Tick, Reload!Hangup, Reload!built
<1>14. ASSUME Reload!Term
      PROVE  Holds'
  BY <1>0, <1>14 DEF Reload!Term, Reload!built, ActiveUp, ActivePhases, OldStore
<1>15. ASSUME Reload!TermStop
      PROVE  Holds'
  <2>1. activeSrv = exiting.srv /\ activeSrv \in Reload!Ids /\ servers[activeSrv].phase = "up"
    BY <1>15 DEF Reload!TermStop, Attended, ActivePhases, Reload!TypeOK
  <2>2. servers' = [servers EXCEPT ![activeSrv].phase = "stopping"] /\ exiting'.pc = "stopping"
    BY <1>15, <2>1 DEF Reload!TermStop, Reload!TypeOK, Reload!Exits
  <2>3. /\ servers'[activeSrv].phase = "stopping"
        /\ servers'[activeSrv].store = servers[activeSrv].store
        /\ \A k \in Reload!Ids \ {activeSrv} : servers'[k] = servers[k]
        /\ LiveServers' = LiveServers
    <3>1. activeSrv \in LiveServers BY <2>1 DEF LiveServers, Reload!Live
    <3> QED BY <2>1, <2>2, <3>1, TurnsTo DEF Ended
  <2>4. ActiveUp' = ActiveUp /\ ActivePhases' = {"stopping"}
    BY <1>15, <2>2 DEF Reload!TermStop, ActiveUp, ActivePhases
  <2>5. \A k \in Reload!Ids : servers'[k].store = servers[k].store BY <2>3
  <2>6. UNCHANGED <<reload, stores, activeSrv, activeStore>> BY <1>15 DEF Reload!TermStop
  <2>7. reload.old \in Reload!Ids => OldStore' = OldStore BY <2>5, <2>6 DEF OldStore
  <2> QED BY <1>0, <2>3, <2>4, <2>6, <2>7
<1>16. ASSUME Reload!TermStopped
      PROVE  Holds'
  <2>1. activeSrv = exiting.srv /\ activeSrv \in Reload!Ids
    BY <1>16 DEF Reload!TermStopped, Attended, Reload!TypeOK
  <2>0. PICK phase \in {"down", "failed"} :
          servers' = [servers EXCEPT ![activeSrv].phase = phase]
    BY Zenon, <1>16, <2>1 DEF Reload!TermStopped
  <2>2. exiting'.pc = "close"
    BY <1>16 DEF Reload!TermStopped, Reload!TypeOK, Reload!Exits
  <2>3. /\ servers'[activeSrv].phase \in {"down", "failed"}
        /\ servers'[activeSrv].store = servers[activeSrv].store
        /\ \A k \in Reload!Ids \ {activeSrv} : servers'[k] = servers[k]
        /\ LiveServers' = LiveServers \ {activeSrv}
    <3>1. phase \in Ended /\ phase # "stopping" BY DEF Ended
    <3> QED BY ZenonT(40), <2>0, <2>1, <3>1, TurnsTo
  <2>4. ActiveUp = {activeSrv} /\ ActiveUp' = {} /\ ActivePhases' = {"down", "failed"}
    BY <1>16, <2>2 DEF Reload!TermStopped, ActiveUp, ActivePhases
  <2>5. \A k \in Reload!Ids : servers'[k].store = servers[k].store BY <2>3
  <2>6. UNCHANGED <<reload, stores, activeSrv, activeStore>> BY <1>16 DEF Reload!TermStopped
  <2>7. reload.old \in Reload!Ids => OldStore' = OldStore BY <2>5, <2>6 DEF OldStore
  <2> QED BY <1>0, <2>3, <2>4, <2>6, <2>7
<1>17. CASE Reload!TermClose \/ Reload!ForceExit
  BY <1>17 DEF Reload!TermClose, Reload!ForceExit, Attended, Reload!TypeOK, Reload!Exits
<1> QED BY <1>4, <1>5, <1>6, <1>7, <1>8, <1>9, <1>10, <1>11, <1>12, <1>13, <1>14, <1>15, <1>16,
           <1>17 DEF Reload!Next, Reload!Reload, Reload!Exit

\* A server that another reload builds is not the one that the exit shuts down.
LEMMA LeavesKept ==
  ASSUME Reload!ReloadAssumption, Reload!TypeOK, Numbered, Attended => Holds, Leaves, Current,
         [Reload!Next]_(Reload!vars)
  PROVE  Leaves'
PROOF
<1> USE DEF Leaves, Reload!active, Reload!built
<1>1. ASSUME UNCHANGED <<reload, servers, stores, activeSrv, activeStore, exiting>>
      PROVE  Leaves'
  BY <1>1 DEF LiveServers, OpenStores, Reload!Live
<1>2. ASSUME UNCHANGED <<servers, activeSrv, activeStore, exiting>>, exiting.pc # "exited",
             reload'.pc # "install"
      PROVE  Leaves'
  BY <1>2
<1>3. ASSUME NEW who, Reload!Ask(who),
             UNCHANGED <<servers, stores, activeSrv, activeStore, exiting>>,
             exiting.pc # "exited"
      PROVE  Leaves'
  BY <1>1, <1>2, <1>3 DEF Reload!Ask, Reload!NoReload
<1>4. CASE UNCHANGED Reload!vars BY <1>1, <1>4 DEF Reload!vars
<1> SUFFICES ASSUME exiting.pc # "exited", Reload!Next
             PROVE  Leaves'
  BY <1>4 DEF Reload!Next, Reload!Running
<1>5. CASE Reload!Edit \/ Reload!MoveAway \/ Reload!Baseline
  BY <1>1, <1>5 DEF Reload!Edit, Reload!MoveAway, Reload!Baseline
<1>6. CASE Reload!Tick \/ Reload!Hangup
  BY <1>1, <1>3, <1>6 DEF Reload!Tick, Reload!Hangup
<1>7. CASE Reload!Load \/ Reload!Open \/ Reload!CloseOld
  <2>1. UNCHANGED <<servers, activeSrv, activeStore, exiting>>
    BY Zenon, <1>7 DEF Reload!Load, Reload!Open, Reload!CloseOld
  <2>2. Reload!Finish => reload'.pc = "idle" BY DEF Reload!Finish, Reload!NoReload
  <2>3. Reload!Load => reload'.pc # "install"
    BY <2>2 DEF Reload!Load, Reload!Fails, Reload!TypeOK, Reload!Reloads
  <2>4. Reload!Open => reload'.pc # "install"
    BY Zenon, <2>2 DEF Reload!Open, Reload!Fails, Reload!TypeOK, Reload!Reloads
  <2>5. Reload!CloseOld => reload'.pc # "install"
    BY <2>2 DEF Reload!CloseOld
  <2> QED BY <1>2, <1>7, <2>1, <2>3, <2>4, <2>5
<1>8. ASSUME Reload!Build
      PROVE  Leaves'
  <2>1. CASE Reload!Fails /\ UNCHANGED servers
    <3>1. reload'.pc # "install" BY <2>1 DEF Reload!Fails, Reload!Finish, Reload!NoReload
    <3> QED BY <1>2, <1>8, <2>1, <3>1 DEF Reload!Build
  <2>2. CASE Reload!Starts
    <3>1. PICK n \in Reload!Ids :
            /\ Reload!NewServer(n)
            /\ servers' = [servers EXCEPT ![n] =
                 [version |-> reload.version, store |-> reload.store, phase |-> "up"]]
            /\ reload' = [reload EXCEPT !.pc = "install", !.srv = n]
      BY Zenon, <2>2 DEF Reload!Starts
    <3>2. UNCHANGED <<exiting, activeSrv, activeStore>> BY <1>8 DEF Reload!Build
    <3>3. reload'.srv = n BY <3>1 DEF Reload!TypeOK, Reload!Reloads
    <3>4. servers[n].phase = "unused" BY <3>1 DEF Reload!NewServer, Reload!Unused
    <3>5. \A k \in Reload!Ids \ {n} : servers'[k] = servers[k] BY <3>1 DEF Reload!TypeOK
    <3> QED BY <3>2, <3>3, <3>4, <3>5
  <2> QED BY <1>8, <2>1, <2>2 DEF Reload!Build
<1>9. ASSUME Reload!Install
      PROVE  Leaves'
  <2>1. reload'.pc = "stop" BY <1>9 DEF Reload!Install, Reload!TypeOK, Reload!Reloads
  <2> QED BY <1>9, <2>1 DEF Reload!Install
<1>10. ASSUME Reload!Stop \/ Reload!Stopped
       PROVE  Leaves'
  <2>1. UNCHANGED <<exiting, activeSrv, activeStore>> /\ reload'.pc # "install"
    BY <1>10 DEF Reload!Stop, Reload!Stopped, Reload!TypeOK, Reload!Reloads
  <2>2. \A k \in Reload!Ids : servers'[k].phase \in Ended \cup {servers[k].phase}
    BY <1>10, PhaseOnly DEF Reload!Stop, Reload!Stopped, Ended
  <2> QED BY <2>1, <2>2 DEF Ended
<1>11. ASSUME Reload!Term
       PROVE  Leaves'
  <2>1. reload.pc = "install" => reload.srv # activeSrv
    BY <1>11 DEF Reload!Term, Attended, Holds
  <2>2. activeSrv \in Reload!Ids /\ servers[activeSrv].phase # "unused"
    BY DEF Current, Reload!TypeOK
  <2> QED BY <1>11, <2>1, <2>2 DEF Reload!Term
<1>12. ASSUME Reload!TermStop \/ Reload!TermStopped
       PROVE  Leaves'
  <2>1. /\ UNCHANGED <<reload, activeSrv, activeStore>>
        /\ exiting.pc # "run" /\ exiting'.pc # "exited"
        /\ exiting'.srv = exiting.srv /\ exiting'.store = exiting.store
    BY <1>12 DEF Reload!TermStop, Reload!TermStopped, Reload!TypeOK, Reload!Exits
  <2>2. \A k \in Reload!Ids : servers'[k].phase \in Ended \cup {servers[k].phase}
    BY <1>12, PhaseOnly DEF Reload!TermStop, Reload!TermStopped, Ended
  <2> QED BY <2>1, <2>2 DEF Ended
<1>13. ASSUME Reload!TermClose
       PROVE  Leaves'
  <2>1. /\ UNCHANGED <<reload, servers, activeSrv, activeStore>> /\ exiting.pc = "close"
        /\ Reload!CloseStore(exiting.store)
        /\ exiting'.srv = exiting.srv /\ exiting'.store = exiting.store
    BY <1>13 DEF Reload!TermClose, Reload!TypeOK, Reload!Exits
  <2>2. ASSUME reload.pc = "idle", activeSrv = exiting.srv
        PROVE  LiveServers' = {} /\ OpenStores' = {}
    <3>1. LiveServers = {} /\ OpenStores = {activeStore} /\ exiting.store = activeStore
      BY <2>1, <2>2 DEF Attended, Holds, ActiveUp
    <3>2. LiveServers' = LiveServers BY <2>1 DEF LiveServers, Reload!Live
    <3>3. OpenStores' = OpenStores \ {activeStore}
      BY <2>1, <3>1, ClosesOne DEF Reload!TypeOK
    <3> QED BY <3>1, <3>2, <3>3
  <2> QED BY <2>1, <2>2
<1>14. ASSUME Reload!ForceExit
       PROVE  Leaves'
  <2>1. /\ UNCHANGED <<reload, servers, activeSrv, activeStore>> /\ exiting.pc # "run"
        /\ exiting'.pc = "forced"
        /\ exiting'.srv = exiting.srv /\ exiting'.store = exiting.store
    BY <1>14 DEF Reload!ForceExit, Reload!TypeOK, Reload!Exits
  <2> QED BY <2>1
<1> QED BY <1>5, <1>6, <1>7, <1>8, <1>9, <1>10, <1>11, <1>12, <1>13, <1>14
        DEF Reload!Next, Reload!Reload, Reload!Exit

\* A change that is not applied is still to be seen, or makes the configuration stale.
LEMMA CurrentKept ==
  ASSUME Reload!ReloadAssumption, Reload!TypeOK, Numbered, Current, [Reload!Next]_(Reload!vars)
  PROVE  Current'
PROOF
<1> USE DEF Current, Reload!active, Reload!built
<1>0. /\ file.edit \in Nat /\ prev \in Nat /\ applied.perf \in Nat /\ applied.log \in Nat
      /\ activeSrv \in Reload!Ids /\ file.exists \in BOOLEAN
  BY DEF Reload!TypeOK, Reload!Files, Reload!ReloadAssumption
<1>1. ASSUME UNCHANGED <<file, prev, reload, servers, activeSrv, applied, stale>>
      PROVE  Current'
  BY <1>1
<1>2. ASSUME NEW who, Reload!Ask(who), UNCHANGED <<file, servers, activeSrv, applied>>,
             prev' <= file.edit + 1,
             reload.pc # "load" /\ ~stale /\ prev' # 0 /\ UNCHANGED <<reload, stale>>
               => prev' - 1 <= applied.perf
      PROVE  Current'
  <2>1. CASE reload.pc = "idle"
    <3>1. reload'.pc = "load" BY <1>2, <2>1 DEF Reload!Ask, Reload!NoReload
    <3> QED BY <1>2, <3>1
  <2>2. CASE reload.pc # "idle"
    BY <1>2, <2>2 DEF Reload!Ask
  <2> QED BY <2>1, <2>2
<1>3. ASSUME Reload!Fails, UNCHANGED <<file, prev, servers, activeSrv, applied>>
      PROVE  Current'
  BY <1>3 DEF Reload!Fails, Reload!Finish, Reload!NoReload
<1>4. CASE UNCHANGED Reload!vars BY <1>1, <1>4 DEF Reload!vars
<1>5. ASSUME Reload!Edit
      PROVE  Current'
  BY <1>0, <1>5 DEF Reload!Edit
<1>6. ASSUME Reload!MoveAway
      PROVE  Current'
  <2>1. file'.edit = file.edit BY <1>6 DEF Reload!MoveAway, Reload!TypeOK, Reload!Files
  <2> QED BY <1>6, <2>1 DEF Reload!MoveAway
<1>7. ASSUME Reload!Tick
      PROVE  Current'
  <2>1. prev' = (IF file.exists THEN file.edit + 1 ELSE 0) BY <1>7 DEF Reload!Tick, Reload!Seen
  <2>2. CASE Reload!Changed
    <3>1. Reload!Ask("watcher") BY <1>7, <2>2 DEF Reload!Tick
    <3>2. UNCHANGED <<file, servers, activeSrv, applied>> BY <1>7 DEF Reload!Tick
    <3>3. ~(UNCHANGED <<reload, stale>> /\ ~stale)
      <4>1. CASE reload.pc = "idle"
        <5>1. reload'.pc = "load" BY <3>1, <4>1 DEF Reload!Ask, Reload!NoReload
        <5> QED BY <4>1, <5>1
      <4>2. CASE reload.pc # "idle"
        <5>1. stale' = TRUE BY <3>1, <4>2 DEF Reload!Ask
        <5> QED BY Zenon, <5>1
      <4> QED BY <4>1, <4>2
    <3> QED BY <1>0, <1>2, <2>1, <3>1, <3>2, <3>3
  <2>3. CASE ~Reload!Changed
    <3>1. UNCHANGED <<file, reload, servers, activeSrv, applied, stale>>
      BY <1>7, <2>3 DEF Reload!Tick
    <3>2. prev' = prev \/ prev' = 0 BY <2>1, <2>3 DEF Reload!Changed, Reload!Seen
    <3> QED BY <1>0, <3>1, <3>2
  <2> QED BY <2>2, <2>3
<1>8. ASSUME Reload!Hangup
      PROVE  Current'
  BY <1>2, <1>8 DEF Reload!Hangup
<1>9. ASSUME Reload!Load
      PROVE  Current'
  <2>1. CASE file.exists /\ file.loads
    <3>1. /\ reload'.pc = "open" /\ reload'.version = file.edit
          /\ applied'.perf = file.edit /\ applied'.log = applied.log
      BY <1>9, <2>1 DEF Reload!Load, Reload!TypeOK, Reload!Reloads
    <3> QED BY <1>0, <1>9, <3>1 DEF Reload!Load
  <2>2. CASE ~(file.exists /\ file.loads)
    BY <1>3, <1>9, <2>2 DEF Reload!Load
  <2> QED BY <2>1, <2>2
<1>10. ASSUME Reload!Open
       PROVE  Current'
  <2>1. UNCHANGED <<file, prev, servers, activeSrv, applied>> BY Zenon, <1>10 DEF Reload!Open
  <2>2. CASE Reload!Fails BY <1>3, <2>1, <2>2
  <2>3. CASE ~Reload!Fails
    <3>1. /\ reload.pc = "open" /\ reload'.pc = "build" /\ reload'.version = reload.version
          /\ UNCHANGED stale
      BY Zenon, <1>10, <2>3 DEF Reload!Open, Reload!TypeOK, Reload!Reloads
    <3> QED BY <2>1, <3>1
  <2> QED BY <2>2, <2>3
<1>11. ASSUME Reload!Build
       PROVE  Current'
  <2>1. UNCHANGED <<file, prev, activeSrv, applied>> /\ reload.pc = "build"
    BY <1>11 DEF Reload!Build
  <2>2. CASE Reload!Fails /\ UNCHANGED servers BY <1>3, <2>1, <2>2
  <2>3. CASE Reload!Starts /\ UNCHANGED stale
    <3>1. PICK n \in Reload!Ids :
            /\ Reload!NewServer(n)
            /\ servers' = [servers EXCEPT ![n] =
                 [version |-> reload.version, store |-> reload.store, phase |-> "up"]]
            /\ reload' = [reload EXCEPT !.pc = "install", !.srv = n]
      BY Zenon, <2>3 DEF Reload!Starts
    <3>2. reload'.pc = "install" /\ reload'.srv = n /\ reload'.version = reload.version
      BY <3>1 DEF Reload!TypeOK, Reload!Reloads
    <3>3. servers[n].phase = "unused" BY <3>1 DEF Reload!NewServer, Reload!Unused
    <3>4. /\ servers'[n].version = reload.version /\ servers'[n].phase = "up"
          /\ \A k \in Reload!Ids \ {n} : servers'[k] = servers[k]
      BY <3>1 DEF Reload!TypeOK
    <3> QED BY <1>0, <2>1, <2>3, <3>2, <3>3, <3>4
  <2> QED BY <1>11, <2>2, <2>3 DEF Reload!Build
<1>12. ASSUME Reload!Install
       PROVE  Current'
  <2>1. reload'.pc = "stop" BY <1>12 DEF Reload!Install, Reload!TypeOK, Reload!Reloads
  <2>2. applied'.perf = applied.perf /\ applied'.log = reload.version
    BY <1>12 DEF Reload!Install, Reload!TypeOK
  <2> QED BY <1>12, <2>1, <2>2 DEF Reload!Install
<1>13. ASSUME Reload!Stop \/ Reload!Stopped
       PROVE  Current'
  <2>1. /\ UNCHANGED <<file, prev, activeSrv, applied, stale>>
        /\ reload.pc \in {"stop", "stopping"} /\ reload'.pc \in {"stopping", "close"}
    BY <1>13 DEF Reload!Stop, Reload!Stopped, Reload!TypeOK, Reload!Reloads
  <2>2. \A k \in Reload!Ids : /\ servers'[k].version = servers[k].version
                              /\ servers'[k].phase \in Ended \cup {servers[k].phase}
    BY <1>13, PhaseOnly DEF Reload!Stop, Reload!Stopped, Ended
  <2> QED BY <1>0, <2>1, <2>2 DEF Ended
<1>14. ASSUME Reload!CloseOld
       PROVE  Current'
  <2>1. reload'.pc = "idle" BY <1>14 DEF Reload!CloseOld, Reload!Finish, Reload!NoReload
  <2> QED BY <1>14, <2>1 DEF Reload!CloseOld
<1>15. CASE Reload!Term \/ Reload!TermClose \/ Reload!ForceExit
  BY <1>1, <1>15 DEF Reload!Term, Reload!TermClose, Reload!ForceExit
<1>16. ASSUME Reload!TermStop \/ Reload!TermStopped
       PROVE  Current'
  <2>1. UNCHANGED <<file, prev, reload, activeSrv, applied, stale>>
    BY <1>16 DEF Reload!TermStop, Reload!TermStopped
  <2>2. \A k \in Reload!Ids : /\ servers'[k].version = servers[k].version
                              /\ servers'[k].phase \in Ended \cup {servers[k].phase}
    BY <1>16, PhaseOnly DEF Reload!TermStop, Reload!TermStopped, Ended
  <2> QED BY <1>0, <2>1, <2>2 DEF Numbered, Ended
<1>17. ASSUME Reload!Baseline
       PROVE  Current'
  <2>1. prev' = (IF file.exists THEN file.edit + 1 ELSE 0)
    BY <1>17 DEF Reload!Baseline, Reload!Seen
  <2>2. ~stale' => ~stale /\ (file.exists => file.edit = applied.perf)
    BY Zenon, <1>17 DEF Reload!Baseline
  <2>3. UNCHANGED <<file, reload, servers, activeSrv, applied>>
    BY <1>17 DEF Reload!Baseline
  <2> QED BY <1>0, <2>1, <2>2, <2>3
<1> QED BY <1>4, <1>5, <1>6, <1>7, <1>8, <1>9, <1>10, <1>11, <1>12, <1>13, <1>14, <1>15, <1>16,
           <1>17
        DEF Reload!Next, Reload!Reload, Reload!Exit

LEMMA ReloadStep ==
  ASSUME Reload!ReloadAssumption, ReloadInv, [Reload!Next]_(Reload!vars)
  PROVE  ReloadInv'
PROOF
<1>1. Reload!TypeOK' /\ Numbered' BY ReloadTypeKept, NumberedKept DEF ReloadInv
<1>2. Leaves' /\ Current' BY LeavesKept, CurrentKept DEF ReloadInv
<1>3. Attended' => Holds' BY AttendedBefore, HoldsKept DEF ReloadInv
<1> QED BY <1>1, <1>2, <1>3 DEF ReloadInv

-----------------------------------------------------------------------------
LEMMA HoldsMeans == ReloadInv => Reload!StoreOutlivesServers /\ Reload!OldServersGone
PROOF
<1> SUFFICES ASSUME ReloadInv, exiting.pc = "run"
             PROVE  /\ \A n \in Reload!Ids : Reload!Live(n) => stores[servers[n].store].open
                    /\ reload.pc = "idle" =>
                         /\ LiveServers = {activeSrv} /\ OpenStores = {activeStore}
                         /\ servers[activeSrv].store = activeStore
  BY DEF Reload!StoreOutlivesServers, Reload!OldServersGone, LiveServers, OpenStores
<1>1. /\ Holds /\ ActiveUp = {activeSrv}
      /\ activeSrv \in Reload!Ids /\ activeStore \in Reload!Ids
  BY DEF ReloadInv, Attended, ActiveUp, Reload!TypeOK
<1>2. ASSUME NEW n \in LiveServers
      PROVE  servers[n].store \in OpenStores
  BY <1>1, <1>2 DEF Holds, OldStore, ReloadInv, Reload!TypeOK, Reload!Reloads
<1>3. \A n \in Reload!Ids : Reload!Live(n) => stores[servers[n].store].open
  BY <1>2 DEF LiveServers, OpenStores
<1> QED BY <1>1, <1>3 DEF Holds

LEMMA CurrentMeans ==
  ASSUME Reload!ReloadAssumption, ReloadInv
  PROVE  Reload!ConfigSettles /\ Reload!ExitLeavesNothing
PROOF
<1>1. file.edit \in Nat /\ applied.perf \in Nat
  BY DEF ReloadInv, Reload!TypeOK, Reload!Files, Reload!ReloadAssumption
<1>2. Reload!ConfigSettles
  BY <1>1 DEF ReloadInv, Current, Reload!ConfigSettles, Reload!Seen
<1>3. Reload!ExitLeavesNothing
  BY DEF ReloadInv, Leaves, Reload!ExitLeavesNothing, LiveServers, OpenStores
<1> QED BY <1>2, <1>3

\* ServerReload.Spec: until the program is told to stop, a reload takes no store from a
\* server that still needs it and leaves no store behind, and no server but one whose
\* shutdown failed or timed out, which is given up; a change that the watcher has seen and
\* that came while no reload ran is what runs; and an exit that nobody forces leaves
\* nothing up if no reload ran meanwhile (llama-swap.go:176-361).  A change that comes
\* before the watcher's baseline stat (watcher.go:35-47) is never seen.
THEOREM ReloadLeavesNothing ==
  ASSUME Reload!ReloadAssumption
  PROVE  Reload!Spec => [](/\ Reload!TypeOK
                           /\ Reload!StoreOutlivesServers /\ Reload!OldServersGone
                           /\ Reload!ConfigSettles /\ Reload!ExitLeavesNothing)
PROOF
<1>1. Reload!Init => ReloadInv BY ReloadInit
<1>2. ReloadInv /\ [Reload!Next]_(Reload!vars) => ReloadInv' BY ReloadStep
<1>3. ReloadInv => /\ Reload!TypeOK
                   /\ Reload!StoreOutlivesServers /\ Reload!OldServersGone
                   /\ Reload!ConfigSettles /\ Reload!ExitLeavesNothing
  BY HoldsMeans, CurrentMeans DEF ReloadInv
<1> QED BY <1>1, <1>2, <1>3, PTL DEF Reload!Spec

HIDE DEF file, prev, watcher, signals, reload, servers, stores, activeSrv, activeStore,
         applied, exiting, stale
-----------------------------------------------------------------------------
(* The poller of the performance page.                                     *)

visit == v4
lasts == v5        \* PerformancePage's mounted
pollTimer == v11
ticking == v12     \* PerformancePage's running
awaited == v13     \* PerformancePage's calls
hasty == v14
USE DEF visit, lasts, pollTimer, ticking, awaited, hasty

\* The visit v is the one that lasts, or was left while it awaited a load.
MayTick(v) == v \in hasty \/ (lasts /\ v = visit)

\* A load is awaited by the visit that lasts, or by one that was left so.
PollerInv ==
  /\ visit \in Nat /\ (lasts => visit \in Performance!Visits)
  /\ DOMAIN pollTimer = Performance!Visits
  /\ \A p \in ticking : p = <<p[1], p[2]>> /\ p[1] \in Performance!Visits
  /\ \A c \in awaited : {"kind", "visit"} \subseteq DOMAIN c
  /\ \A c \in awaited : c.kind = "all" => c.visit \in Performance!Visits /\ MayTick(c.visit)
  /\ Performance!OnePoller

LEMMA PollerInit == ASSUME Performance!Init PROVE PollerInv
PROOF BY DEF Performance!Init, Performance!OnePoller, PollerInv

\* The interval of one visit is cleared, and another may be set.
TimersSet(v, more) ==
  /\ DOMAIN pollTimer' = Performance!Visits
  /\ \A p \in ticking' : /\ p = <<p[1], p[2]>> /\ p[1] \in Performance!Visits
                         /\ p[2] = pollTimer'[p[1]]
                         /\ p[1] # v \/ more # {}
                         /\ p[1] # v => MayTick(p[1])
LEMMA TimerSet ==
  ASSUME PollerInv, NEW v \in Performance!Visits, NEW i, NEW more \in {{}, {<<v, i>>}},
         ticking' = (ticking \ {<<v, pollTimer[v]>>}) \cup more,
         pollTimer' = [pollTimer EXCEPT ![v] = i]
  PROVE  TimersSet(v, more)
PROOF
<1>1. pollTimer'[v] = i /\ \A w \in Performance!Visits : w # v => pollTimer'[w] = pollTimer[w]
  BY DEF PollerInv
<1>2. ASSUME NEW p \in ticking, p # <<v, pollTimer[v]>>
      PROVE  p[1] # v /\ p[2] = pollTimer'[p[1]] /\ MayTick(p[1])
  <2>1. /\ p = <<p[1], p[2]>> /\ p[1] \in Performance!Visits /\ p[2] = pollTimer[p[1]]
        /\ MayTick(p[1])
    BY DEF PollerInv, Performance!OnePoller, MayTick
  <2>2. p[1] # v BY <1>2, <2>1
  <2> QED BY <1>1, <2>1, <2>2
<1>3. DOMAIN pollTimer' = Performance!Visits BY DEF PollerInv
<1> QED BY <1>1, <1>2, <1>3 DEF PollerInv, TimersSet

LEMMA PollerStep ==
  ASSUME Performance!PerformanceAssumption, PollerInv, [Performance!Next]_(Performance!vars)
  PROVE  PollerInv'
PROOF
<1> USE DEF Performance!timers, Performance!stay
<1>0. MaxVisits \in Nat BY DEF Performance!PerformanceAssumption
<1>1. ASSUME UNCHANGED <<ticking, pollTimer, visit, lasts, hasty>>,
             \A c \in awaited' : {"kind", "visit"} \subseteq DOMAIN c,
             \A c \in awaited' : c.kind = "all" =>
               c.visit \in Performance!Visits /\ MayTick(c.visit)
      PROVE  PollerInv'
  BY <1>1 DEF PollerInv, MayTick, Performance!OnePoller
<1>2. ASSUME NEW v, NEW kind, NEW after, Performance!Fetch(v, kind, after),
             UNCHANGED <<ticking, pollTimer, visit, lasts, hasty>>,
             kind = "all" => v \in Performance!Visits /\ MayTick(v)
      PROVE  PollerInv'
  <2> DEFINE new == [n |-> v15, visit |-> v, kind |-> kind, after |-> after,
                     read |-> FALSE, sys |-> <<>>, gpu |-> <<>>]
  <2>1. new.kind = kind /\ new.visit = v /\ {"kind", "visit"} \subseteq DOMAIN new OBVIOUS
  <2>2. awaited' = awaited \cup {new} BY <1>2 DEF Performance!Fetch
  <2> HIDE DEF new
  <2> QED BY <1>1, <1>2, <2>1, <2>2 DEF PollerInv
<1>3. ASSUME NEW v \in Performance!Visits, NEW i, NEW more \in {{}, {<<v, i>>}},
             ticking' = (ticking \ {<<v, pollTimer[v]>>}) \cup more,
             pollTimer' = [pollTimer EXCEPT ![v] = i], MayTick(v),
             UNCHANGED <<visit, lasts, hasty>>, awaited' \subseteq awaited
      PROVE  PollerInv'
  <2>1. \A w : MayTick(w)' <=> MayTick(w) BY <1>3 DEF MayTick
  <2>2. /\ DOMAIN pollTimer' = Performance!Visits
        /\ \A p \in ticking' : /\ p = <<p[1], p[2]>> /\ p[1] \in Performance!Visits
                               /\ p[2] = pollTimer'[p[1]] /\ MayTick(p[1])
    <3>1. TimersSet(v, more) BY Zenon, <1>3, TimerSet
    <3> QED BY <1>3, <3>1 DEF TimersSet
  <2>3. Performance!OnePoller' BY <2>1, <2>2 DEF Performance!OnePoller, MayTick
  <2> QED BY <1>3, <2>1, <2>2, <2>3 DEF PollerInv
<1>4. ASSUME Performance!Mount PROVE PollerInv'
  <2>1. /\ ~lasts /\ lasts' /\ visit' = visit + 1 /\ visit < MaxVisits
        /\ Performance!Fetch(visit + 1, "all", 0) /\ UNCHANGED <<ticking, pollTimer, hasty>>
    BY <1>4 DEF Performance!Mount
  <2>2. visit' \in Performance!Visits /\ visit' \in Nat
    BY <1>0, <2>1 DEF PollerInv, Performance!Visits
  <2>3. \A w : MayTick(w) => MayTick(w)' BY <2>1 DEF MayTick
  <2>4. \A w : w = visit' => MayTick(w)' BY <2>1 DEF MayTick
  <2>5. \A c \in awaited' : \/ c \in awaited
                            \/ c.visit = visit' /\ {"kind", "visit"} \subseteq DOMAIN c
    <3> DEFINE new == [n |-> v15, visit |-> visit + 1, kind |-> "all", after |-> 0,
                       read |-> FALSE, sys |-> <<>>, gpu |-> <<>>]
    <3>1. new.visit = visit + 1 /\ {"kind", "visit"} \subseteq DOMAIN new OBVIOUS
    <3>2. awaited' = awaited \cup {new} BY <2>1 DEF Performance!Fetch
    <3> HIDE DEF new
    <3> QED BY <2>1, <3>1, <3>2
  <2> QED BY <2>1, <2>2, <2>3, <2>4, <2>5 DEF PollerInv, Performance!OnePoller, MayTick
<1>5. ASSUME Performance!Unmount PROVE PollerInv'
  <2>1. /\ lasts /\ ~lasts' /\ visit' = visit /\ visit \in Performance!Visits
        /\ awaited' = {c \in awaited : c.kind = "all"}
        /\ ticking' = (ticking \ {<<visit, pollTimer[visit]>>}) \cup {}
        /\ pollTimer' = [pollTimer EXCEPT ![visit] = None]
        /\ hasty' = IF \E c \in awaited : c.visit = visit /\ c.kind = "all"
                    THEN hasty \cup {visit} ELSE hasty
    BY <1>5 DEF Performance!Unmount, Performance!StopPolling, PollerInv
  <2>2. hasty \subseteq hasty' BY <2>1
  <2>3. /\ DOMAIN pollTimer' = Performance!Visits
        /\ \A p \in ticking' : /\ p = <<p[1], p[2]>> /\ p[1] \in Performance!Visits
                               /\ p[2] = pollTimer'[p[1]] /\ p[1] # visit /\ MayTick(p[1])
    <3>1. {} \in {{}, {<<visit, None>>}} OBVIOUS
    <3>2. visit \in Performance!Visits BY <2>1
    <3>3. TimersSet(visit, {}) BY Zenon, <2>1, <3>1, <3>2, TimerSet
    <3> QED BY <3>3 DEF TimersSet
  <2>4. \A c \in awaited' : c.visit \in Performance!Visits /\ c.visit \in hasty'
    BY <2>1, <2>2 DEF PollerInv, MayTick
  <2>5. \A p \in ticking' : p[1] \in hasty' BY <2>2, <2>3 DEF MayTick
  <2> QED BY <2>1, <2>3, <2>4, <2>5 DEF PollerInv, Performance!OnePoller, MayTick
<1>6. ASSUME Performance!Hide PROVE PollerInv'
  <2>1. /\ ticking' = (ticking \ {<<visit, pollTimer[visit]>>}) \cup {}
        /\ pollTimer' = [pollTimer EXCEPT ![visit] = None] /\ {} \in {{}, {<<visit, None>>}}
        /\ visit \in Performance!Visits /\ MayTick(visit)
        /\ UNCHANGED <<visit, lasts, hasty, awaited>>
    BY <1>6 DEF Performance!Hide, Performance!StopPolling, PollerInv, MayTick
  <2> QED BY <1>3, <2>1
<1>7. ASSUME NEW on \in BOOLEAN, Performance!HandleIntervalChange(on) PROVE PollerInv'
  <2>1. /\ visit \in Performance!Visits /\ MayTick(visit)
        /\ UNCHANGED <<visit, lasts, hasty, awaited>>
    BY <1>7 DEF Performance!HandleIntervalChange, PollerInv, MayTick
  <2>2. CASE UNCHANGED <<ticking, pollTimer>> BY <1>1, <2>1, <2>2 DEF PollerInv
  <2>3. CASE Performance!StopPolling(visit)
    BY <1>3, <2>1, <2>3 DEF Performance!StopPolling
  <2>4. ASSUME NEW i \in Intervals,
               ticking' = (ticking \ {<<visit, pollTimer[visit]>>}) \cup {<<visit, i>>},
               pollTimer' = [pollTimer EXCEPT ![visit] = i]
        PROVE  PollerInv'
    BY <1>3, <2>1, <2>4
  <2> QED BY <1>7, <2>2, <2>3, <2>4 DEF Performance!HandleIntervalChange
<1>8. ASSUME NEW c \in awaited, Performance!Then(c), UNCHANGED <<visit, lasts, hasty>>,
             awaited' \subseteq awaited
      PROVE  PollerInv'
  <2>1. CASE c.kind # "all"
    BY <1>1, <1>8, <2>1 DEF Performance!Then, PollerInv
  <2>2. CASE c.kind = "all"
    <3>1. c.visit \in Performance!Visits /\ MayTick(c.visit) BY <2>2 DEF PollerInv
    <3>2. CASE Performance!StopPolling(c.visit)
      BY <1>3, <1>8, <3>1, <3>2 DEF Performance!StopPolling
    <3>3. ASSUME NEW i \in Intervals,
                 ticking' = (ticking \ {<<c.visit, pollTimer[c.visit]>>}) \cup {<<c.visit, i>>},
                 pollTimer' = [pollTimer EXCEPT ![c.visit] = i]
          PROVE  PollerInv'
      BY <1>3, <1>8, <3>1, <3>3
    <3> QED BY <1>8, <2>2, <3>2, <3>3 DEF Performance!Then, Performance!StartPolling
  <2> QED BY <2>1, <2>2
<1>9. ASSUME NEW c \in awaited, Performance!Answered(c) \/ Performance!Fails(c) PROVE PollerInv'
  BY <1>8, <1>9 DEF Performance!Answered, Performance!Fails
<1>10. ASSUME NEW c \in awaited, Performance!Read(c) PROVE PollerInv'
  <2> DEFINE new == [c EXCEPT !.read = TRUE, !.sys = Performance!Newer(v2, c.after),
                              !.gpu = Performance!Newer(v3, c.after)]
  <2>1. /\ awaited' = (awaited \ {c}) \cup {new}
        /\ UNCHANGED <<ticking, pollTimer, visit, lasts, hasty>>
    BY <1>10 DEF Performance!Read
  <2>2. /\ new.kind = c.kind /\ new.visit = c.visit
        /\ {"kind", "visit"} \subseteq DOMAIN new
    BY DEF PollerInv
  <2> HIDE DEF new
  <2> QED BY <1>1, <2>1, <2>2 DEF PollerInv
<1>11. CASE Performance!Sample \/ Performance!Show \/ Performance!ManualRefresh
  <2>1. CASE Performance!Sample BY <1>1, <2>1 DEF Performance!Sample, PollerInv
  <2>2. CASE Performance!Show BY <1>2, <2>2 DEF Performance!Show, PollerInv, MayTick
  <2>3. CASE Performance!ManualRefresh BY <1>2, <2>3 DEF Performance!ManualRefresh
  <2> QED BY <1>11, <2>1, <2>2, <2>3
<1>12. ASSUME NEW i, Performance!Tick(i) PROVE PollerInv'
  BY <1>2, <1>12 DEF Performance!Tick
<1>13. CASE UNCHANGED Performance!vars BY <1>1, <1>13 DEF Performance!vars, PollerInv
<1> QED BY <1>4, <1>5, <1>6, <1>7, <1>9, <1>10, <1>11, <1>12, <1>13 DEF Performance!Next

HIDE DEF visit, lasts, pollTimer, ticking, awaited, hasty
-----------------------------------------------------------------------------
(* The tags editor of a model's page.                                      *)

editor == v4
asked == v6      \* ModelDetail's calls
made == v7
USE DEF editor, asked, made

Asking == {c \in asked : ModelPage!Live(c) /\ c.kind \in {"tags", "save"}}

EditorFields ==
  {"n", "tags", "of", "loading", "saving", "editing", "draft", "error"}
IsEditor(e) == DOMAIN e = EditorFields /\ e = [f \in EditorFields |-> e[f]]

\* Editors and requests are numbered as they are made.  A request is under way only while
\* its editor loads or saves, and there is one.
EditorInv ==
  /\ made \in Nat
  /\ \A c \in asked : c.for \in Nat /\ c.for <= made
  /\ editor # None => IsEditor(editor) /\ editor.n \in Nat /\ editor.n <= made
  /\ \A c \in Asking : editor.loading \/ editor.saving
  /\ \A c, d \in Asking : c = d

\* A request without a text, of the editor e
Request(k, n, m, e) == [kind |-> k, n |-> n, model |-> m, text |-> "", for |-> e]
LEMMA RequestFields ==
  \A k, n, m, e : Request(k, n, m, e).kind = k /\ Request(k, n, m, e).for = e
PROOF BY Zenon DEF Request

LEMMA EditorInit == ASSUME ModelPage!Init PROVE EditorInv
PROOF
<1>1. made = 2 /\ editor = ModelPage!NewEditor(1) BY Zenon DEF ModelPage!Init
<1>2. \A c \in asked : \E k \in {"tags", "memory"} :
        c = Request(k, IF k = "tags" THEN 1 ELSE 2, ModelPage!Model, 1)
  BY Zenon DEF ModelPage!Init, Request
<1>3. IsEditor(editor) /\ editor.n = 1 /\ editor.loading
  BY Zenon, <1>1 DEF ModelPage!NewEditor, IsEditor, EditorFields
<1>4. \A c \in asked : c.for = 1 BY <1>2, RequestFields
<1>5. \A c \in Asking : c = Request("tags", 1, ModelPage!Model, 1)
  BY <1>2, RequestFields DEF Asking
<1> QED BY <1>1, <1>3, <1>4, <1>5 DEF EditorInv

\* A step that only writes the draft keeps the requests.
LEMMA EditKeeps ==
  ASSUME EditorInv, editor # None, editor' # None => IsEditor(editor'), editor'.n = editor.n,
         editor'.loading = editor.loading, editor'.saving = editor.saving,
         UNCHANGED <<asked, made>>
  PROVE  EditorInv'
PROOF
<1>1. Asking' \subseteq Asking BY DEF Asking, ModelPage!Live
<1> QED BY <1>1 DEF EditorInv

\* A request that ends: its editor, if it is there still, has no other.
LEMMA EndKeeps ==
  ASSUME EditorInv, NEW c \in asked, c.kind \in {"tags", "save"}, asked' = asked \ {c},
         UNCHANGED made,
         IF ModelPage!Live(c)
         THEN (editor' # None => IsEditor(editor')) /\ editor'.n = editor.n
         ELSE editor' = editor
  PROVE  EditorInv'
PROOF
<1>1. CASE ModelPage!Live(c)
  <2>1. Asking \subseteq {c} BY <1>1 DEF EditorInv, Asking
  <2>2. Asking' \subseteq Asking \ {c} BY <1>1 DEF Asking, ModelPage!Live
  <2> QED BY <1>1, <2>1, <2>2 DEF EditorInv, ModelPage!Live
<1>2. CASE ~ModelPage!Live(c)
  <2>1. Asking' \subseteq Asking BY <1>2 DEF Asking, ModelPage!Live
  <2> QED BY <1>2, <2>1 DEF EditorInv
<1> QED BY <1>1, <1>2

LEMMA TurnKeeps ==
  ASSUME EditorInv, NEW name, NEW chosen, ModelPage!Turn(name, chosen)
  PROVE  EditorInv'
PROOF
<1> DEFINE new == ModelPage!Shown(name, chosen)
           Asked(k) == Request(k, made + (IF k = "tags" THEN 1 ELSE 2), new, made + 1)
<1>1. CASE UNCHANGED ModelPage!editorVars
  BY <1>1 DEF ModelPage!editorVars, EditorInv, Asking, ModelPage!Live
<1>2. CASE editor' = None /\ UNCHANGED <<asked, made>>
  <2>1. Asking' = {} BY <1>2 DEF Asking, ModelPage!Live
  <2> QED BY <1>2, <2>1 DEF EditorInv
<1>3. CASE /\ made' = made + 2 /\ editor' = ModelPage!NewEditor(made + 1)
           /\ asked' = asked \cup {Asked(k) : k \in {"tags", "memory"}}
  <2>0. \A c \in asked' : c \in asked \/ c = Asked("tags") \/ c = Asked("memory")
    <3> HIDE DEF Asked
    <3> QED BY <1>3
  <2>1. IsEditor(editor') /\ editor'.n = made + 1 /\ editor'.loading
    BY Zenon, <1>3 DEF ModelPage!NewEditor, IsEditor, EditorFields
  <2>2. \A c \in asked' : c \in asked \/ c.for = made + 1 BY <2>0, RequestFields
  <2>3. \A c \in Asking' : c = Asked("tags")
    <3>1. \A c \in Asking' : c \in asked' /\ c.for = made + 1 /\ c.kind # "memory"
      BY <2>1 DEF Asking, ModelPage!Live
    <3>2. \A c \in Asking' : c \notin asked BY <3>1 DEF EditorInv
    <3> QED BY <2>0, <3>1, <3>2, RequestFields
  <2> QED BY <1>3, <2>1, <2>2, <2>3 DEF EditorInv
<1> QED BY Zenon, <1>1, <1>2, <1>3 DEF ModelPage!Turn, Request

LEMMA EditorStep ==
  ASSUME EditorInv, [ModelPage!Next]_(ModelPage!vars)
  PROVE  EditorInv'
PROOF
<1>1. CASE UNCHANGED <<editor, asked, made>>
  BY <1>1 DEF EditorInv, Asking, ModelPage!Live
<1>2. CASE \/ \E name \in RouteNames : ModelPage!Navigate(name)
           \/ \E i \in 1..Len(DetailModels) : ModelPage!SelectVariant(i)
  BY <1>2, TurnKeeps DEF ModelPage!Navigate, ModelPage!SelectVariant
<1>3. CASE ModelPage!StartEdit \/ ModelPage!CancelEdit \/ \E text \in TagTexts : ModelPage!Write(text)
  <2>1. editor # None /\ IsEditor(editor)
    BY <1>3 DEF ModelPage!StartEdit, ModelPage!CancelEdit, ModelPage!Write, EditorInv
  <2>2. /\ IsEditor(editor') /\ editor'.n = editor.n
        /\ editor'.loading = editor.loading /\ editor'.saving = editor.saving
        /\ UNCHANGED <<asked, made>>
    BY <1>3, <2>1 DEF ModelPage!StartEdit, ModelPage!CancelEdit, ModelPage!Write,
      ModelPage!Edit, IsEditor, EditorFields
  <2> QED BY <2>1, <2>2, EditKeeps
<1>4. ASSUME ModelPage!Save
      PROVE  EditorInv'
  <2>1. /\ editor # None /\ IsEditor(editor) /\ ~editor.loading /\ ~editor.saving
        /\ editor' = [editor EXCEPT !.saving = TRUE, !.error = FALSE]
        /\ asked' = asked \cup {ModelPage!Call("save", editor.draft)} /\ made' = made + 1
    BY <1>4 DEF ModelPage!Save, EditorInv
  <2>2. IsEditor(editor') /\ editor'.n = editor.n /\ editor'.saving
    BY <2>1 DEF IsEditor, EditorFields
  <2>3. Asking = {} BY <2>1 DEF EditorInv
  <2>4. ModelPage!Call("save", editor.draft).for = editor.n BY DEF ModelPage!Call
  <2>5. Asking' \subseteq {ModelPage!Call("save", editor.draft)}
    BY <2>1, <2>2, <2>3 DEF Asking, ModelPage!Live
  <2> QED BY <2>1, <2>2, <2>4, <2>5 DEF EditorInv
<1>5. ASSUME NEW c \in asked, ModelPage!TagsAnswered(c) \/ ModelPage!EditorFails(c)
      PROVE  EditorInv'
  <2>1. /\ c.kind \in {"tags", "save"} /\ asked' = asked \ {c} /\ UNCHANGED made
        /\ ~ModelPage!Live(c) => editor' = editor
    BY <1>5 DEF ModelPage!TagsAnswered, ModelPage!EditorFails
  <2>2. ModelPage!Live(c) => IsEditor(editor') /\ editor'.n = editor.n
    <3>1. SUFFICES ASSUME ModelPage!Live(c)
                   PROVE  IsEditor(editor') /\ editor'.n = editor.n
      OBVIOUS
    <3>2. IsEditor(editor) BY <3>1 DEF ModelPage!Live, EditorInv
    <3>3. CASE ModelPage!TagsAnswered(c)
      BY <3>1, <3>2, <3>3 DEF ModelPage!TagsAnswered, IsEditor, EditorFields
    <3>4. CASE ModelPage!EditorFails(c)
      BY <3>1, <3>2, <3>4 DEF ModelPage!EditorFails, IsEditor, EditorFields
    <3> QED BY <1>5, <3>3, <3>4
  <2> QED BY <2>1, <2>2, EndKeeps
<1>6. ASSUME NEW c \in asked, ModelPage!Saved(c)
      PROVE  EditorInv'
  <2>1. CASE ~ModelPage!Live(c)
    BY <1>6, <2>1, EndKeeps DEF ModelPage!Saved
  <2>2. CASE ModelPage!Live(c)
    <3> DEFINE again == ModelPage!Call("tags", "")
    <3>1. /\ c.kind = "save" /\ editor # None /\ IsEditor(editor)
          /\ editor' = [editor EXCEPT !.editing = FALSE, !.loading = TRUE, !.error = FALSE]
          /\ asked' = (asked \ {c}) \cup {again} /\ made' = made + 1
      BY Zenon, <1>6, <2>2 DEF ModelPage!Saved, ModelPage!Live, EditorInv
    <3>2. IsEditor(editor') /\ editor'.n = editor.n /\ editor'.loading
      BY Zenon, <3>1 DEF IsEditor, EditorFields
    <3>3. again.for = editor.n BY DEF ModelPage!Call
    <3> HIDE DEF again
    <3>4. Asking \subseteq {c} BY <2>2, <3>1 DEF EditorInv, Asking
    <3>5. Asking' \subseteq {again}
      BY <3>1, <3>2, <3>4 DEF Asking, ModelPage!Live
    <3>6. \A d \in asked' : d.for \in Nat /\ d.for <= made'
      BY <3>1, <3>3 DEF EditorInv
    <3>7. made' \in Nat /\ editor'.n \in Nat /\ editor'.n <= made'
      BY <3>1, <3>2 DEF EditorInv
    <3> QED BY <3>2, <3>5, <3>6, <3>7 DEF EditorInv
  <2> QED BY <2>1, <2>2
<1>7. ASSUME NEW c \in asked, ModelPage!MemoryAnswered(c)
      PROVE  EditorInv'
  <2>1. asked' = asked \ {c} /\ UNCHANGED <<editor, made>>
    BY <1>7 DEF ModelPage!MemoryAnswered
  <2>2. Asking' \subseteq Asking BY <2>1 DEF Asking, ModelPage!Live
  <2> QED BY <2>1, <2>2 DEF EditorInv
<1>8. CASE UNCHANGED ModelPage!vars BY <1>1, <1>8 DEF ModelPage!vars, ModelPage!editorVars
<1> QED BY <1>2, <1>3, <1>4, <1>5, <1>6, <1>7, <1>8 DEF ModelPage!Next

LEMMA EditorMeans == ASSUME EditorInv PROVE ModelPage!OneCall
PROOF BY DEF EditorInv, Asking, ModelPage!OneCall

HIDE DEF editor, asked, made

-----------------------------------------------------------------------------
(* The loads of the models page.                                           *)

requests == v5
loadControllers == v6
pendingLoads == v7
loads == v16
USE DEF requests, loadControllers, pendingLoads, loads

\* A request is of a model that this server has, and a model has one at most; then the
\* model is pending, with the controller of that request.
RowsInv ==
  /\ loads \in Nat
  /\ requests \subseteq [n : Nat, model : RowModels, aborted : BOOLEAN]
  /\ \A r \in requests : ~r.model.peer
  /\ \A r, s \in requests : r.model = s.model => r = s
  /\ DOMAIN loadControllers = RowModels
  /\ loadControllers = [m \in RowModels |-> loadControllers[m]]
  /\ pendingLoads = {r.model : r \in requests}
  /\ \A r \in requests : r.n = loadControllers[r.model]

LEMMA RowsInit == ASSUME ModelList!Init PROVE RowsInv
PROOF BY DEF ModelList!Init, RowsInv

LEMMA ToggleKeeps ==
  ASSUME RowsInv, NEW m \in ModelList!LocalModels, ModelList!OnToggleLoad(m)
  PROVE  RowsInv'
PROOF
<1>0. m \in RowModels /\ ~m.peer BY DEF ModelList!LocalModels, ModelList!VisibleModels
<1>1. ASSUME ModelList!HandleLoadModel(m)
      PROVE  RowsInv'
  <2> DEFINE new == [n |-> loads + 1, model |-> m, aborted |-> FALSE]
  <2>1. /\ m \notin pendingLoads /\ loads' = loads + 1 /\ requests' = requests \cup {new}
        /\ loadControllers' = [loadControllers EXCEPT ![m] = loads + 1]
        /\ pendingLoads' = pendingLoads \cup {m}
    BY <1>1 DEF ModelList!HandleLoadModel
  <2>2. \A r \in requests : r.model # m BY <2>1 DEF RowsInv
  <2>3. /\ new \in [n : Nat, model : RowModels, aborted : BOOLEAN]
        /\ new.model = m /\ new.n = loads + 1
    BY <1>0 DEF RowsInv
  <2>4. /\ DOMAIN loadControllers' = RowModels
        /\ loadControllers' = [k \in RowModels |-> loadControllers'[k]]
        /\ loadControllers'[m] = loads + 1
        /\ \A k \in RowModels \ {m} : loadControllers'[k] = loadControllers[k]
    BY <1>0, <2>1 DEF RowsInv
  <2> HIDE DEF new
  <2>5. loads' \in Nat /\ requests' \subseteq [n : Nat, model : RowModels, aborted : BOOLEAN]
    BY <2>1, <2>3 DEF RowsInv
  <2>6. /\ \A r \in requests' : ~r.model.peer
        /\ \A r, s \in requests' : r.model = s.model => r = s
    BY <1>0, <2>1, <2>2, <2>3 DEF RowsInv
  <2>7. pendingLoads' = {r.model : r \in requests'} BY <2>1, <2>3 DEF RowsInv
  <2>8. \A r \in requests' : r.n = loadControllers'[r.model]
    BY <2>1, <2>2, <2>3, <2>4 DEF RowsInv
  <2> QED BY <2>4, <2>5, <2>6, <2>7, <2>8 DEF RowsInv
<1>2. ASSUME ModelList!CancelLoad(m)
      PROVE  RowsInv'
  <2> DEFINE Cancelled(r) == IF r.n = loadControllers[m] THEN [r EXCEPT !.aborted = TRUE] ELSE r
  <2>1. /\ requests' = {Cancelled(r) : r \in requests}
        /\ UNCHANGED <<loadControllers, pendingLoads, loads>>
    BY <1>2 DEF ModelList!CancelLoad
  <2>2. \A r \in requests :
          /\ Cancelled(r) \in [n : Nat, model : RowModels, aborted : BOOLEAN]
          /\ Cancelled(r).n = r.n /\ Cancelled(r).model = r.model
    BY DEF RowsInv
  <2> HIDE DEF Cancelled
  <2>3. /\ requests' \subseteq [n : Nat, model : RowModels, aborted : BOOLEAN]
        /\ \A r \in requests' : ~r.model.peer
        /\ \A r, s \in requests' : r.model = s.model => r = s
    BY <2>1, <2>2 DEF RowsInv
  <2>4. pendingLoads' = {r.model : r \in requests'} BY <2>1, <2>2 DEF RowsInv
  <2>5. \A r \in requests' : r.n = loadControllers'[r.model]
    BY <2>1, <2>2 DEF RowsInv
  <2> QED BY <2>1, <2>3, <2>4, <2>5 DEF RowsInv
<1>3. CASE ModelList!UnloadSingleModel(m)
  BY <1>3 DEF ModelList!UnloadSingleModel, ModelList!load, RowsInv
<1> QED BY <1>1, <1>2, <1>3 DEF ModelList!OnToggleLoad

LEMMA SettledKeeps ==
  ASSUME RowsInv, NEW r \in requests, ModelList!LoadSettled(r)
  PROVE  RowsInv'
PROOF
<1>1. /\ requests' = requests \ {r} /\ loads' = loads
      /\ loadControllers' = [loadControllers EXCEPT ![r.model] = None]
      /\ pendingLoads' = pendingLoads \ {r.model}
  BY DEF ModelList!LoadSettled
<1>2. \A s \in requests' : s.model # r.model BY <1>1 DEF RowsInv
<1>3. /\ DOMAIN loadControllers' = RowModels
      /\ loadControllers' = [k \in RowModels |-> loadControllers'[k]]
      /\ \A k \in RowModels \ {r.model} : loadControllers'[k] = loadControllers[k]
  BY <1>1 DEF RowsInv
<1>4. pendingLoads' = {s.model : s \in requests'} BY <1>1, <1>2 DEF RowsInv
<1>5. \A s \in requests' : s.n = loadControllers'[s.model]
  BY <1>1, <1>2, <1>3 DEF RowsInv
<1> QED BY <1>1, <1>3, <1>4, <1>5 DEF RowsInv

LEMMA RowsStep ==
  ASSUME RowsInv, [ModelList!Next]_(ModelList!vars)
  PROVE  RowsInv'
PROOF
<1>1. CASE UNCHANGED ModelList!load BY <1>1 DEF ModelList!load, RowsInv
<1>2. CASE \E m \in ModelList!LocalModels : ModelList!OnToggleLoad(m)
  BY <1>2, ToggleKeeps
<1>3. CASE \E r \in requests : ModelList!LoadSettled(r)
  BY <1>3, SettledKeeps
<1>4. CASE \E m \in RowModels : ModelList!Starts(m) \/ ModelList!Started(m) \/ ModelList!Stops(m)
  BY <1>1, <1>4 DEF ModelList!Starts, ModelList!Started, ModelList!Stops
<1>5. CASE \/ ModelList!ModelStatus \/ ModelList!HandleUnloadAll \/ ModelList!ToggleUnlisted
           \/ \E u \in v8 : ModelList!Unloaded(u)
  BY <1>1, <1>5 DEF ModelList!ModelStatus, ModelList!HandleUnloadAll,
    ModelList!ToggleUnlisted, ModelList!Unloaded
<1>6. CASE \/ ModelList!RescanModels \/ ModelList!Scans \/ ModelList!ScanAnswered
           \/ ModelList!ScanFails
           \/ \E c \in v14 : ModelList!ReadTags(c) \/ ModelList!TagsLoaded(c)
  BY <1>1, <1>6 DEF ModelList!RescanModels, ModelList!Scans, ModelList!ScanAnswered,
    ModelList!ScanFails, ModelList!ReadTags, ModelList!TagsLoaded
<1>7. CASE UNCHANGED ModelList!vars BY <1>1, <1>7 DEF ModelList!vars
<1> QED BY <1>2, <1>3, <1>4, <1>5, <1>6, <1>7 DEF ModelList!Next

LEMMA RowsMeans == ASSUME RowsInv PROVE ModelList!LoadCancellable
PROOF
<1>1. ASSUME NEW m \in RowModels
      PROVE  LET own == {r \in requests : r.model = m}
             IN  /\ m \in pendingLoads <=> own # {}
                 /\ own # {} => {r.n : r \in own} = {loadControllers[m]}
  BY DEF RowsInv
<1>2. ASSUME NEW row \in ModelList!Rows, row.button = "Load", NEW r \in requests,
             r.model = row.model
      PROVE  FALSE
  <2>1. PICK m \in ModelList!LocalModels \cup ModelList!PeerModels : row = ModelList!Row(m)
    BY <1>2 DEF ModelList!Rows
  <2>2. r.model = m /\ ~m.peer BY <1>2, <2>1 DEF ModelList!Row, RowsInv
  <2>3. ModelList!Button(m) = "Load" BY <1>2, <2>1, <2>2 DEF ModelList!Row
  <2>4. m \notin pendingLoads BY <2>3 DEF ModelList!Button
  <2> QED BY <2>2, <2>4 DEF RowsInv
<1> QED BY <1>1, <1>2 DEF ModelList!LoadCancellable

HIDE DEF requests, loadControllers, pendingLoads, loads
-----------------------------------------------------------------------------
(* The panels of a log.                                                    *)

panels == v3
settings == v2     \* LogPanel's stored
picked == v4       \* LogPanel's chosen
USE DEF panels, settings, picked

NoFilter == ""
Settings == [fontSize : Panel!Sizes, wrapText : BOOLEAN, showFilter : BOOLEAN]
Filled == DOMAIN Matches \cup {NoFilter}

\* A panel has a filter only while its box is open.
PanelInv ==
  /\ panels \in [Panel!Panels -> [settings : Settings, filterRegex : Filled]]
  /\ settings \in Settings /\ picked = settings
  /\ \A p \in Panel!Panels :
       panels[p].filterRegex # NoFilter => panels[p].settings.showFilter

LEMMA OpenedPanels ==
  ASSUME NEW s \in Settings
  PROVE  LET opened == Panel!Opened(s)
         IN  /\ opened \in [Panel!Panels -> [settings : Settings, filterRegex : Filled]]
             /\ \A p \in Panel!Panels : opened[p].filterRegex = NoFilter
PROOF
<1>1. Panel!Opened(s) = [p \in Panel!Panels |-> [settings |-> s, filterRegex |-> NoFilter]]
  BY Zenon DEF Panel!Opened, NoFilter
<1> QED BY <1>1 DEF Filled

LEMMA PanelInit == ASSUME Panel!Init PROVE PanelInv
PROOF
<1>1. Panel!Defaults \in Settings BY DEF Panel!Defaults, Settings, Panel!Sizes
<1>2. panels = Panel!Opened(Panel!Defaults) /\ settings = Panel!Defaults /\ picked = settings
  BY Zenon DEF Panel!Init
<1> QED BY <1>1, <1>2, OpenedPanels DEF PanelInv

\* A change of a setting that leaves no filter in a panel whose box it closes
LEMMA SetKeeps ==
  ASSUME PanelInv, NEW p \in Panel!Panels, NEW key, NEW value, NEW filter \in Filled,
         Panel!Set(p, key, value, filter),
         \A s \in Settings : [s EXCEPT ![key] = value] \in Settings,
         filter # NoFilter => [panels[p].settings EXCEPT ![key] = value].showFilter
  PROVE  PanelInv'
PROOF
<1>1. /\ panels' = [panels EXCEPT ![p].settings[key] = value, ![p].filterRegex = filter]
      /\ settings' = [settings EXCEPT ![key] = value]
      /\ picked' = [picked EXCEPT ![key] = value]
  BY DEF Panel!Set
<1>2. settings' \in Settings /\ picked' = settings' BY <1>1 DEF PanelInv
<1> DEFINE new == [panels[p].settings EXCEPT ![key] = value]
           Kind == [settings : Settings, filterRegex : Filled]
<1>3. panels \in [Panel!Panels -> Kind] BY DEF PanelInv
<1>4. panels[p] \in Kind /\ new \in Settings BY <1>3
<1>5. filter # NoFilter => new.showFilter OBVIOUS
<1>6. panels'[p] = [[panels[p] EXCEPT !.settings = new] EXCEPT !.filterRegex = filter]
  BY Zenon, <1>1, <1>3
<1> HIDE DEF new
<1>7. panels'[p].settings = new /\ panels'[p].filterRegex = filter /\ panels'[p] \in Kind
  BY <1>4, <1>6
<1>8. /\ DOMAIN panels' = Panel!Panels
      /\ \A q \in Panel!Panels : q # p => panels'[q] = panels[q]
  BY <1>1, <1>3
<1>9. panels' \in [Panel!Panels -> Kind] BY <1>1, <1>3, <1>7, <1>8
<1> QED BY <1>2, <1>5, <1>7, <1>8, <1>9 DEF PanelInv

LEMMA PanelStep ==
  ASSUME PanelInv, [Panel!Next]_(Panel!vars)
  PROVE  PanelInv'
PROOF
<1>1. CASE UNCHANGED <<panels, settings, picked>> BY <1>1 DEF PanelInv
<1>2. ASSUME NEW p \in Panel!Panels, Panel!ToggleFontSize(p)
      PROVE  PanelInv'
  <2> DEFINE size == Panel!NextSize[panels[p].settings.fontSize]
  <2>1. panels[p].settings \in Settings /\ panels[p].filterRegex \in Filled
    BY DEF PanelInv
  <2>2. size \in Panel!Sizes BY <2>1 DEF Settings, Panel!Sizes, Panel!NextSize
  <2>3. Panel!Set(p, "fontSize", size, panels[p].filterRegex)
    BY Zenon, <1>2 DEF Panel!ToggleFontSize
  <2> HIDE DEF size
  <2>4. \A s \in Settings : /\ [s EXCEPT !["fontSize"] = size] \in Settings
                            /\ [s EXCEPT !["fontSize"] = size].showFilter = s.showFilter
    BY <2>2 DEF Settings
  <2>5. panels[p].filterRegex # NoFilter => panels[p].settings.showFilter BY DEF PanelInv
  <2> QED BY <2>1, <2>3, <2>4, <2>5, SetKeeps
<1>3. ASSUME NEW p \in Panel!Panels, Panel!ToggleWrapText(p)
      PROVE  PanelInv'
  <2> DEFINE wrap == ~panels[p].settings.wrapText
  <2>1. panels[p].settings \in Settings /\ panels[p].filterRegex \in Filled
    BY DEF PanelInv
  <2>2. wrap \in BOOLEAN OBVIOUS
  <2>3. Panel!Set(p, "wrapText", wrap, panels[p].filterRegex)
    BY Zenon, <1>3 DEF Panel!ToggleWrapText
  <2> HIDE DEF wrap
  <2>4. \A s \in Settings : /\ [s EXCEPT !["wrapText"] = wrap] \in Settings
                            /\ [s EXCEPT !["wrapText"] = wrap].showFilter = s.showFilter
    BY <2>2 DEF Settings
  <2>5. panels[p].filterRegex # NoFilter => panels[p].settings.showFilter BY DEF PanelInv
  <2> QED BY <2>1, <2>3, <2>4, <2>5, SetKeeps
<1>4. ASSUME NEW p \in Panel!Panels, Panel!ToggleFilter(p)
      PROVE  PanelInv'
  <2> DEFINE open == ~panels[p].settings.showFilter
             filter == IF panels[p].settings.showFilter THEN NoFilter ELSE panels[p].filterRegex
  <2>1. panels[p].settings \in Settings /\ panels[p].filterRegex \in Filled
    BY DEF PanelInv
  <2>2. open \in BOOLEAN /\ filter \in Filled BY <2>1 DEF Filled
  <2>3. Panel!Set(p, "showFilter", open, filter)
    BY Zenon, <1>4 DEF Panel!ToggleFilter, NoFilter
  <2>4. filter = NoFilter BY DEF PanelInv
  <2> HIDE DEF open, filter
  <2>5. \A s \in Settings : [s EXCEPT !["showFilter"] = open] \in Settings
    BY <2>2 DEF Settings
  <2> QED BY <2>2, <2>3, <2>4, <2>5, SetKeeps
<1>5. ASSUME NEW p \in Panel!Panels, NEW text \in Filled, Panel!TypeFilter(p, text)
      PROVE  PanelInv'
  <2>1. /\ panels[p].settings.showFilter /\ UNCHANGED <<settings, picked>>
        /\ panels' = [panels EXCEPT ![p].filterRegex = text]
    BY <1>5 DEF Panel!TypeFilter
  <2> DEFINE Kind == [settings : Settings, filterRegex : Filled]
  <2>2. panels \in [Panel!Panels -> Kind] BY DEF PanelInv
  <2>3. panels[p] \in Kind BY <2>2
  <2>4. panels'[p] = [panels[p] EXCEPT !.filterRegex = text] BY <2>1, <2>2
  <2>5. panels'[p].settings = panels[p].settings /\ panels'[p].filterRegex = text
        /\ panels'[p] \in Kind
    BY <2>3, <2>4
  <2>6. /\ DOMAIN panels' = Panel!Panels
        /\ \A q \in Panel!Panels : q # p => panels'[q] = panels[q]
    BY <2>1, <2>2
  <2>7. panels' \in [Panel!Panels -> Kind] BY <2>1, <2>2, <2>5, <2>6
  <2> QED BY <2>1, <2>5, <2>6, <2>7 DEF PanelInv
<1>6. ASSUME Panel!Reload
      PROVE  PanelInv'
  <2>1. panels' = Panel!Opened(settings) /\ UNCHANGED <<settings, picked>>
    BY Zenon, <1>6 DEF Panel!Reload
  <2> QED BY <2>1, OpenedPanels DEF PanelInv
<1>7. ASSUME NEW line, Panel!LogLine(line)
      PROVE  PanelInv'
  BY <1>1, <1>7 DEF Panel!LogLine
<1>8. CASE UNCHANGED Panel!vars BY <1>1, <1>8 DEF Panel!vars
<1> QED BY Zenon, <1>2, <1>3, <1>4, <1>5, <1>6, <1>7, <1>8 DEF Panel!Next, Filled, NoFilter

LEMMA PanelMeans == ASSUME PanelInv PROVE Panel!NothingHidden
PROOF
<1>1. ASSUME NEW p \in Panel!Panels, Panel!Filtered(p) # v1
      PROVE  panels[p].filterRegex # NoFilter
  BY Zenon, <1>1 DEF Panel!Filtered, NoFilter
<1>2. settings = picked BY DEF PanelInv
<1>3. \A p \in Panel!Panels :
        Panel!Filtered(p) # v1 => panels[p].settings.showFilter /\ panels[p].filterRegex # NoFilter
  BY <1>1 DEF PanelInv
<1> QED BY Zenon, <1>2, <1>3 DEF Panel!NothingHidden, NoFilter

HIDE DEF panels, settings, picked
-----------------------------------------------------------------------------
(* The log of a model.                                                     *)

written == v1
broadcastCh == v2
dropped == v3
streams == v4
current == v5
acc == v6
logData == v7
USE DEF written, broadcastCh, dropped, streams, current, acc, logData

Entry == [model : LogModels, line : Nat, live : BOOLEAN]
Text == Seq(Entry)
LinesOf(seq) == {k \in Nat : \E i \in 1..Len(seq) : Logs!LiveLine(seq[i]) /\ seq[i].line = k}
OfModel(seq, m) == \A i \in 1..Len(seq) : seq[i].model = m
Precede(S, T) == \A x \in S, y \in T : x < y

\* Live lines in order, all of one model
InOrder(seq) ==
  \A i, j \in 1..Len(seq) :
    i < j /\ Logs!LiveLine(seq[i]) /\ Logs!LiveLine(seq[j]) => seq[i].line < seq[j].line
LogOf(m, seq) == seq \in Text /\ OfModel(seq, m) /\ InOrder(seq)

LEMMA EmptyLog ==
  ASSUME NEW m
  PROVE  LogOf(m, <<>>) /\ LinesOf(<<>>) = {}
PROOF BY DEF LogOf, Text, OfModel, InOrder, LinesOf

LEMMA TailOfLog ==
  ASSUME NEW m, NEW seq, LogOf(m, seq), seq # <<>>
  PROVE  /\ LogOf(m, Tail(seq)) /\ LinesOf(Tail(seq)) \subseteq LinesOf(seq)
         /\ Head(seq) \in Entry /\ Head(seq).model = m
         /\ Logs!LiveLine(Head(seq)) =>
              /\ Head(seq).line \in LinesOf(seq)
              /\ Precede({Head(seq).line}, LinesOf(Tail(seq)))
PROOF
<1>1. seq \in Seq(Entry) /\ Len(seq) \in Nat /\ Len(seq) > 0
  BY DEF LogOf, Text
<1>2. /\ Tail(seq) \in Seq(Entry) /\ Len(Tail(seq)) = Len(seq) - 1 /\ Head(seq) = seq[1]
      /\ \A i \in 1..Len(Tail(seq)) : Tail(seq)[i] = seq[i + 1] /\ i + 1 \in 1..Len(seq)
  BY <1>1
<1>3. seq[1] \in Entry /\ seq[1].line \in Nat
  <2>1. seq[1] \in Entry BY <1>1
  <2> QED BY <2>1 DEF Entry
<1>4. OfModel(Tail(seq), m) /\ seq[1].model = m BY <1>1, <1>2 DEF LogOf, OfModel
<1>5. InOrder(Tail(seq))
  <2> SUFFICES ASSUME NEW i \in 1..Len(Tail(seq)), NEW j \in 1..Len(Tail(seq)), i < j,
                      Logs!LiveLine(Tail(seq)[i]), Logs!LiveLine(Tail(seq)[j])
               PROVE  Tail(seq)[i].line < Tail(seq)[j].line
    BY DEF InOrder
  <2> QED BY <1>1, <1>2 DEF LogOf, InOrder
<1>6. LinesOf(Tail(seq)) \subseteq LinesOf(seq) BY <1>2 DEF LinesOf
<1>7. ASSUME Logs!LiveLine(seq[1])
      PROVE  seq[1].line \in LinesOf(seq) /\ Precede({seq[1].line}, LinesOf(Tail(seq)))
  <2>1. seq[1].line \in LinesOf(seq) BY <1>1, <1>3, <1>7 DEF LinesOf
  <2>2. ASSUME NEW k \in LinesOf(Tail(seq))
        PROVE  seq[1].line < k
    <3>1. PICK i \in 1..Len(Tail(seq)) : Logs!LiveLine(Tail(seq)[i]) /\ Tail(seq)[i].line = k
      BY <2>2 DEF LinesOf
    <3>2. i + 1 \in 1..Len(seq) /\ 1 < i + 1 /\ Logs!LiveLine(seq[i + 1]) /\ seq[i + 1].line = k
      BY <1>2, <3>1
    <3> QED BY <1>1, <1>7, <3>2 DEF LogOf, InOrder
  <2> QED BY <2>1, <2>2 DEF Precede
<1> QED BY <1>2, <1>3, <1>4, <1>5, <1>6, <1>7 DEF LogOf, Text

LEMMA AppendToLog ==
  ASSUME NEW m, NEW seq, LogOf(m, seq), NEW e \in Entry, e.model = m,
         Logs!LiveLine(e) => Precede(LinesOf(seq), {e.line})
  PROVE  /\ LogOf(m, Append(seq, e))
         /\ \A k \in LinesOf(Append(seq, e)) :
              k \in LinesOf(seq) \/ (Logs!LiveLine(e) /\ k = e.line)
PROOF
<1>1. seq \in Seq(Entry) /\ Len(seq) \in Nat BY DEF LogOf, Text
<1> DEFINE new == Append(seq, e)
<1>2. /\ new \in Seq(Entry) /\ Len(new) = Len(seq) + 1 /\ new[Len(seq) + 1] = e
      /\ \A i \in 1..Len(seq) : new[i] = seq[i]
  BY <1>1
<1>3. \A i \in 1..Len(new) : i \in 1..Len(seq) \/ i = Len(seq) + 1 BY <1>1, <1>2
<1> HIDE DEF new
<1>4. OfModel(new, m) BY <1>2, <1>3 DEF LogOf, OfModel
<1>5. InOrder(new)
  <2> SUFFICES ASSUME NEW i \in 1..Len(new), NEW j \in 1..Len(new), i < j,
                      Logs!LiveLine(new[i]), Logs!LiveLine(new[j])
               PROVE  new[i].line < new[j].line
    BY DEF InOrder
  <2>1. i \in 1..Len(seq) /\ new[i] = seq[i] BY <1>1, <1>2, <1>3
  <2>2. CASE j \in 1..Len(seq) BY <1>2, <2>1, <2>2 DEF LogOf, InOrder
  <2>3. CASE j = Len(seq) + 1
    <3>1. seq[i] \in Entry BY <1>1, <2>1
    <3>2. seq[i].line \in Nat BY <3>1 DEF Entry
    <3>3. seq[i].line \in LinesOf(seq) BY <2>1, <3>2 DEF LinesOf
    <3> QED BY <1>2, <2>1, <2>3, <3>3 DEF Precede
  <2> QED BY <1>3, <2>2, <2>3
<1>6. ASSUME NEW k \in LinesOf(new)
      PROVE  k \in LinesOf(seq) \/ (Logs!LiveLine(e) /\ k = e.line)
  <2>1. PICK i \in 1..Len(new) : Logs!LiveLine(new[i]) /\ new[i].line = k BY <1>6 DEF LinesOf
  <2>2. k \in Nat BY <1>6 DEF LinesOf
  <2>3. CASE i \in 1..Len(seq) BY <1>2, <2>1, <2>2, <2>3 DEF LinesOf
  <2>4. CASE i = Len(seq) + 1 BY <1>2, <2>1, <2>4
  <2> QED BY <1>3, <2>3, <2>4
<1> QED BY <1>2, <1>4, <1>5, <1>6 DEF LogOf, Text, new

LEMMA EndOfLog ==
  ASSUME NEW m, NEW seq, LogOf(m, seq), NEW n \in Nat \ {0}
  PROVE  LogOf(m, Logs!TailOf(seq, n)) /\ LinesOf(Logs!TailOf(seq, n)) \subseteq LinesOf(seq)
PROOF
<1>1. seq \in Seq(Entry) /\ Len(seq) \in Nat BY DEF LogOf, Text
<1>2. CASE Len(seq) <= n BY <1>1, <1>2 DEF Logs!TailOf
<1>3. CASE Len(seq) > n
  <2> DEFINE end == SubSeq(seq, Len(seq) - n + 1, Len(seq))
             from == Len(seq) - n
  <2>1. from \in Nat /\ from + n = Len(seq) BY <1>1, <1>3
  <2>2. /\ end \in Seq(Entry) /\ Len(end) = n
        /\ \A i \in 1..n : end[i] = seq[from + i] /\ from + i \in 1..Len(seq)
    BY <1>1, <1>3
  <2>3. Logs!TailOf(seq, n) = end BY <1>3 DEF Logs!TailOf
  <2> HIDE DEF end, from
  <2>4. OfModel(end, m) BY <2>2 DEF LogOf, OfModel
  <2>5. InOrder(end)
    <3> SUFFICES ASSUME NEW i \in 1..n, NEW j \in 1..n, i < j,
                        Logs!LiveLine(end[i]), Logs!LiveLine(end[j])
                 PROVE  end[i].line < end[j].line
      BY <2>2 DEF InOrder
    <3>1. from + i < from + j BY <2>1
    <3> QED BY <2>2, <3>1 DEF LogOf, InOrder
  <2>6. LinesOf(end) \subseteq LinesOf(seq) BY <2>2 DEF LinesOf
  <2> QED BY <2>2, <2>3, <2>4, <2>5, <2>6 DEF LogOf, Text
<1> QED BY <1>1, <1>2, <1>3

\* The first of one log becomes the last of the one it precedes.
LEMMA MoveOn ==
  ASSUME NEW m, NEW from, NEW to, LogOf(m, from), LogOf(m, to), from # <<>>,
         Precede(LinesOf(to), LinesOf(from))
  PROVE  LET on == Append(to, Head(from))
         IN  /\ LogOf(m, Tail(from)) /\ LogOf(m, on)
             /\ Precede(LinesOf(on), LinesOf(Tail(from)))
             /\ LinesOf(Tail(from)) \subseteq LinesOf(from)
             /\ LinesOf(on) \subseteq LinesOf(to) \cup LinesOf(from)
PROOF
<1> DEFINE on == Append(to, Head(from))
           e == Head(from)
<1>1. /\ LogOf(m, Tail(from)) /\ LinesOf(Tail(from)) \subseteq LinesOf(from)
      /\ e \in Entry /\ e.model = m
      /\ Logs!LiveLine(e) => e.line \in LinesOf(from) /\ Precede({e.line}, LinesOf(Tail(from)))
  BY Zenon, TailOfLog
<1>2. Logs!LiveLine(e) => Precede(LinesOf(to), {e.line}) BY <1>1 DEF Precede
<1> HIDE DEF e
<1>3. /\ LogOf(m, Append(to, e))
      /\ \A k \in LinesOf(Append(to, e)) : k \in LinesOf(to) \/ (Logs!LiveLine(e) /\ k = e.line)
  BY <1>1, <1>2, AppendToLog
<1>4. Precede(LinesOf(Append(to, e)), LinesOf(Tail(from)))
  BY <1>1, <1>3 DEF Precede
<1> QED BY <1>1, <1>3, <1>4 DEF e

\* A stream: what its client is sent, from the wire back to the bus, and the lines C
\* that the monitor has still to broadcast.
Phases == {"asked", "history", "live", "closed", "aborted"}
Stream == [model : LogModels, phase : Phases, bus : Text, send : Text, wire : Text,
           seen : Nat, missed : BOOLEAN]
Ahead(st) == LinesOf(st.wire) \cup LinesOf(st.send) \cup LinesOf(st.bus)
Flows(st, C) ==
  /\ LogOf(st.model, st.wire) /\ LogOf(st.model, st.send) /\ LogOf(st.model, st.bus)
  /\ Precede(LinesOf(st.wire), LinesOf(st.send)) /\ Precede(LinesOf(st.wire), LinesOf(st.bus))
  /\ Precede(LinesOf(st.send), LinesOf(st.bus)) /\ Precede(Ahead(st), C)

\* A stream goes on as another, the monitor with fewer lines to broadcast.
GoesOn(st, C, next, D) ==
  /\ next \in Stream /\ next.model = st.model /\ Flows(next, D)
  /\ Ahead(next) \cup D \subseteq Ahead(st) \cup C

\* What the monitor has still to broadcast: w lines are written, and those of ch wait.
Coming(w, ch) == {k \in Nat : k > w \/ \E i \in 1..Len(ch) : ch[i] = k}
Queued(w, ch) ==
  /\ \A i \in 1..Len(ch) : ch[i] > 0 /\ ch[i] <= w
  /\ \A i, j \in 1..Len(ch) : i < j => ch[i] < ch[j]

Monitors ==
  /\ written \in [LogModels -> Nat] /\ dropped \in [LogModels -> Nat]
  /\ broadcastCh \in [LogModels -> Seq(Nat)]
  /\ \A m \in LogModels : Queued(written[m], broadcastCh[m])
StreamKept(st) == st \in Stream /\ Flows(st, Coming(written[st.model], broadcastCh[st.model]))
Shown(st) ==
  /\ LogOf(st.model, acc)
  /\ Precede(LinesOf(acc), Ahead(st) \cup Coming(written[st.model], broadcastCh[st.model]))

LogInv ==
  /\ Monitors
  /\ streams \in Seq(Stream) /\ \A s \in 1..Len(streams) : StreamKept(streams[s])
  /\ current \in 0..Len(streams)
  /\ IF current = 0 THEN acc = <<>> ELSE Shown(streams[current])
  /\ logData \in {acc, <<>>}

\* One stream goes on while the monitors keep what they have to broadcast, or lose some.
Follows(st, next) ==
  GoesOn(st, Coming(written[st.model], broadcastCh[st.model]),
         next, Coming(written'[st.model], broadcastCh'[st.model]))

LEMMA LogInit == ASSUME Logs!Init PROVE LogInv
PROOF BY DEF Logs!Init, LogInv, Monitors, Queued

LEMMA FollowedKept ==
  ASSUME NEW st, NEW next, Follows(st, next), UNCHANGED acc
  PROVE  /\ next \in Stream /\ next.model = st.model
         /\ next \in Stream
              /\ Flows(next, Coming(written'[next.model], broadcastCh'[next.model]))
         /\ Shown(st) =>
              /\ LogOf(next.model, acc')
              /\ Precede(LinesOf(acc'),
                   Ahead(next) \cup Coming(written'[next.model], broadcastCh'[next.model]))
PROOF BY Zenon DEF Follows, GoesOn, Shown, Precede

\* The streams go on and nothing else of the log view changes.
LEMMA StreamsGoOn ==
  ASSUME LogInv, Monitors', streams' \in Seq(Stream), Len(streams') = Len(streams),
         \A s \in 1..Len(streams) : Follows(streams[s], streams'[s]),
         UNCHANGED <<current, acc>>, logData' \in {logData, <<>>}
  PROVE  LogInv'
PROOF
<1>1. \A s \in 1..Len(streams) : StreamKept(streams[s])'
  BY FollowedKept DEF StreamKept
<1>2. logData' \in {acc', <<>>} BY DEF LogInv
<1>3. current' \in 0..Len(streams') /\ (current' = 0 => acc' = <<>>) BY DEF LogInv
<1>4. ASSUME current # 0
      PROVE  Shown(streams[current])'
  <2>1. current \in 1..Len(streams) /\ Shown(streams[current]) BY <1>4 DEF LogInv
  <2>2. Follows(streams[current], streams'[current]) BY <2>1
  <2> QED BY <2>1, <2>2, FollowedKept DEF Shown
<1> QED BY <1>1, <1>2, <1>3, <1>4 DEF LogInv

\* One stream goes on.
LEMMA OneGoesOn ==
  ASSUME LogInv, NEW s \in 1..Len(streams), NEW next,
         streams' = [streams EXCEPT ![s] = next], Follows(streams[s], next),
         UNCHANGED <<written, dropped, broadcastCh>>
  PROVE  /\ Monitors' /\ streams' \in Seq(Stream) /\ Len(streams') = Len(streams)
         /\ \A q \in 1..Len(streams) : Follows(streams[q], streams'[q])
PROOF
<1>1. streams \in Seq(Stream) /\ next \in Stream BY DEF LogInv, Follows, GoesOn
<1>2. /\ streams' \in Seq(Stream) /\ Len(streams') = Len(streams) /\ streams'[s] = next
      /\ \A q \in 1..Len(streams) : q # s => streams'[q] = streams[q]
  BY <1>1
<1>3. ASSUME NEW q \in 1..Len(streams), q # s
      PROVE  Follows(streams[q], streams'[q])
  <2>1. StreamKept(streams[q]) BY DEF LogInv
  <2> QED BY Zenon, <1>2, <1>3, <2>1 DEF Follows, GoesOn, StreamKept
<1>4. Monitors' BY DEF LogInv, Monitors
<1> QED BY <1>2, <1>3, <1>4

\* A stream whose lines are only passed on or lost goes on.
LEMMA PassedOn ==
  ASSUME NEW st, NEW C, Flows(st, C), NEW next \in Stream, next.model = st.model,
         LogOf(st.model, next.wire), LogOf(st.model, next.send), LogOf(st.model, next.bus),
         Precede(LinesOf(next.wire), LinesOf(next.send)),
         Precede(LinesOf(next.wire), LinesOf(next.bus)),
         Precede(LinesOf(next.send), LinesOf(next.bus)),
         LinesOf(next.wire) \subseteq Ahead(st), LinesOf(next.send) \subseteq Ahead(st),
         LinesOf(next.bus) \subseteq Ahead(st),
         NEW D, D \subseteq C
  PROVE  GoesOn(st, C, next, D)
PROOF
<1>1. Ahead(next) \subseteq Ahead(st) BY DEF Ahead
<1>2. Precede(Ahead(next), D) BY <1>1 DEF Flows, Precede
<1> QED BY Zenon, <1>1, <1>2 DEF GoesOn, Flows

LEMMA HistoryLog ==
  ASSUME NEW m \in LogModels, written \in [LogModels -> Nat], PartsAssumption
  PROVE  LogOf(m, Logs!History(m)) /\ LinesOf(Logs!History(m)) = {}
PROOF
<1> DEFINE first == IF written[m] > BufferSize THEN written[m] - BufferSize ELSE 0
           n == written[m] - first
           history == Logs!History(m)
<1>1. BufferSize \in Nat /\ written[m] \in Nat BY DEF PartsAssumption, Logs!LogAssumption
<1>2. first \in Nat /\ n \in Nat BY <1>1
<1>3. history = [i \in 1..n |-> Logs!Line(m, first + i, FALSE)] BY DEF Logs!History
<1> HIDE DEF first, n, history
<1>4. \A i \in 1..n : history[i] \in Entry /\ history[i].model = m /\ history[i].live = FALSE
  BY <1>2, <1>3 DEF Entry, Logs!Line
<1>5. history \in Seq(Entry) /\ Len(history) = n
  <2>1. history \in [1..n -> Entry] BY <1>3, <1>4
  <2> QED BY <1>2, <2>1, SeqDef, LenProperties
<1> QED BY <1>4, <1>5 DEF LogOf, Text, OfModel, InOrder, LinesOf, Logs!LiveLine, history

\* What a stream passes on, whatever the page and the handler do with it
LEMMA StreamSteps ==
  ASSUME LogInv, PartsAssumption, NEW s \in 1..Len(streams),
         \/ Logs!SendHistory(s) \/ Logs!Subscribe(s) \/ Logs!OnLogData(s)
         \/ Logs!Forward(s) \/ Logs!Close(s) \/ Logs!Fails(s)
  PROVE  LogInv'
PROOF
<1> DEFINE st == streams[s]
           C == Coming(written[st.model], broadcastCh[st.model])
<1>1. st \in Stream /\ Flows(st, C) BY DEF LogInv, StreamKept
<1>2. /\ st.model \in LogModels /\ st.phase \in Phases
      /\ st.bus \in Text /\ st.send \in Text /\ st.wire \in Text
  BY <1>1 DEF Stream
<1>3. /\ LogOf(st.model, st.wire) /\ LogOf(st.model, st.send) /\ LogOf(st.model, st.bus)
      /\ Precede(LinesOf(st.wire), LinesOf(st.send))
      /\ Precede(LinesOf(st.wire), LinesOf(st.bus))
      /\ Precede(LinesOf(st.send), LinesOf(st.bus))
  BY <1>1 DEF Flows
<1> HIDE DEF st, C
<1>4. ASSUME NEW next, streams' = [streams EXCEPT ![s] = next], GoesOn(st, C, next, C),
             UNCHANGED <<written, dropped, broadcastCh, current, acc>>,
             logData' \in {logData, <<>>}
      PROVE  LogInv'
  <2>1. Follows(streams[s], next) BY <1>4 DEF Follows, st, C
  <2> QED BY <1>4, <2>1, OneGoesOn, StreamsGoOn
<1>5. LogOf(st.model, <<>>) /\ LinesOf(<<>>) = {} /\ <<>> \in Text
  BY EmptyLog DEF LogOf
<1>6. CASE Logs!SendHistory(s)
  <2> DEFINE history == Logs!History(st.model)
             ch == broadcastCh[st.model]
             lost == ch # <<>> /\ Head(ch) + Len(ch) - 1 < written[st.model]
             next == [st EXCEPT !.phase = "history", !.wire = history, !.seen = written[st.model],
                                !.missed = lost]
  <2>1. /\ streams' = [streams EXCEPT ![s] = next]
        /\ UNCHANGED <<written, dropped, broadcastCh, current, acc, logData>>
    BY Zenon, <1>6 DEF Logs!SendHistory, Logs!monitors, Logs!tab, st
  <2>2. LogOf(st.model, history) /\ LinesOf(history) = {} /\ history \in Text
    BY <1>2, HistoryLog DEF LogInv, Monitors, LogOf
  <2>5. lost \in BOOLEAN BY Zenon
  <2> HIDE DEF history, lost
  <2>6. written[st.model] \in Nat BY <1>2 DEF LogInv, Monitors
  <2>3. /\ next \in Stream /\ next.model = st.model /\ next.wire = history
        /\ next.send = st.send /\ next.bus = st.bus
    BY <1>1, <2>2, <2>5, <2>6 DEF Stream, Phases
  <2> HIDE DEF next
  <2>4. GoesOn(st, C, next, C)
    BY <1>1, <1>3, <2>2, <2>3, PassedOn DEF Ahead, Precede
  <2> QED BY <1>4, <2>1, <2>4
<1>7. CASE Logs!Subscribe(s)
  <2> DEFINE next == [st EXCEPT !.phase = "live"]
  <2>1. /\ streams' = [streams EXCEPT ![s] = next]
        /\ UNCHANGED <<written, dropped, broadcastCh, current, acc, logData>>
    BY Zenon, <1>7 DEF Logs!Subscribe, Logs!monitors, Logs!tab, st
  <2>2. /\ next \in Stream /\ next.model = st.model /\ next.wire = st.wire
        /\ next.send = st.send /\ next.bus = st.bus
    BY <1>1 DEF Stream, Phases
  <2> HIDE DEF next
  <2>3. GoesOn(st, C, next, C)
    BY <1>1, <1>3, <2>2, PassedOn DEF Ahead
  <2> QED BY <1>4, <2>1, <2>3
<1>8. CASE Logs!OnLogData(s)
  <2> DEFINE send == IF Len(st.send) < SendSize THEN Append(st.send, Head(st.bus)) ELSE st.send
             lost == st.missed \/ Len(st.send) >= SendSize
             next == [st EXCEPT !.bus = Tail(st.bus), !.send = send, !.missed = lost]
  <2>1. /\ streams' = [streams EXCEPT ![s] = next] /\ st.bus # <<>>
        /\ UNCHANGED <<written, dropped, broadcastCh, current, acc, logData>>
    BY Zenon, <1>8 DEF Logs!OnLogData, Logs!monitors, Logs!tab, st
  <2>2. /\ LogOf(st.model, Tail(st.bus)) /\ LogOf(st.model, send)
        /\ Precede(LinesOf(send), LinesOf(Tail(st.bus)))
        /\ LinesOf(Tail(st.bus)) \subseteq LinesOf(st.bus)
        /\ LinesOf(send) \subseteq LinesOf(st.send) \cup LinesOf(st.bus)
    <3>1. CASE Len(st.send) < SendSize
      BY <1>3, <2>1, <3>1, MoveOn
    <3>2. CASE ~(Len(st.send) < SendSize)
      <4>1. LogOf(st.model, Tail(st.bus)) /\ LinesOf(Tail(st.bus)) \subseteq LinesOf(st.bus)
        BY <1>3, <2>1, TailOfLog
      <4> QED BY <1>3, <3>2, <4>1 DEF Precede
    <3> QED BY <3>1, <3>2
  <2>7. lost \in BOOLEAN BY Zenon
  <2> HIDE DEF send, lost
  <2>3. Tail(st.bus) \in Text /\ send \in Text BY <2>2 DEF LogOf
  <2>4. /\ next \in Stream /\ next.model = st.model /\ next.wire = st.wire
        /\ next.send = send /\ next.bus = Tail(st.bus)
    BY <1>1, <2>3, <2>7 DEF Stream
  <2> HIDE DEF next
  <2>5. Precede(LinesOf(st.wire), LinesOf(send)) /\ Precede(LinesOf(st.wire), LinesOf(Tail(st.bus)))
    BY <1>3, <2>2 DEF Precede
  <2>6. GoesOn(st, C, next, C)
    BY <1>1, <1>3, <2>2, <2>4, <2>5, PassedOn DEF Ahead
  <2> QED BY <1>4, <2>1, <2>6
<1>9. CASE Logs!Forward(s)
  <2> DEFINE wire == Append(st.wire, Head(st.send))
             next == [st EXCEPT !.send = Tail(st.send), !.wire = wire]
  <2>1. /\ streams' = [streams EXCEPT ![s] = next] /\ st.send # <<>>
        /\ UNCHANGED <<written, dropped, broadcastCh, current, acc, logData>>
    BY Zenon, <1>9 DEF Logs!Forward, Logs!monitors, Logs!tab, st
  <2>2. /\ LogOf(st.model, Tail(st.send)) /\ LogOf(st.model, wire)
        /\ Precede(LinesOf(wire), LinesOf(Tail(st.send)))
        /\ LinesOf(Tail(st.send)) \subseteq LinesOf(st.send)
        /\ LinesOf(wire) \subseteq LinesOf(st.wire) \cup LinesOf(st.send)
    BY <1>3, <2>1, MoveOn
  <2> HIDE DEF wire
  <2>3. Tail(st.send) \in Text /\ wire \in Text BY <2>2 DEF LogOf
  <2>4. /\ next \in Stream /\ next.model = st.model /\ next.wire = wire
        /\ next.send = Tail(st.send) /\ next.bus = st.bus
    BY <1>1, <2>3 DEF Stream
  <2> HIDE DEF next
  <2>5. Precede(LinesOf(wire), LinesOf(st.bus)) /\ Precede(LinesOf(Tail(st.send)), LinesOf(st.bus))
    BY <1>3, <2>2 DEF Precede
  <2>6. GoesOn(st, C, next, C)
    BY <1>1, <1>3, <2>2, <2>4, <2>5, PassedOn DEF Ahead
  <2> QED BY <1>4, <2>1, <2>6
<1>10. CASE Logs!Close(s)
  <2> DEFINE next == [st EXCEPT !.phase = "closed", !.bus = <<>>, !.send = <<>>]
  <2>1. /\ streams' = [streams EXCEPT ![s] = next]
        /\ UNCHANGED <<written, dropped, broadcastCh, current, acc, logData>>
    BY Zenon, <1>10 DEF Logs!Close, Logs!monitors, Logs!tab, st
  <2>2. /\ next \in Stream /\ next.model = st.model /\ next.wire = st.wire
        /\ next.send = <<>> /\ next.bus = <<>>
    BY <1>1, <1>5 DEF Stream, Phases
  <2> HIDE DEF next
  <2>3. GoesOn(st, C, next, C)
    BY <1>1, <1>3, <1>5, <2>2, PassedOn DEF Ahead, Precede
  <2> QED BY <1>4, <2>1, <2>3
<1>11. CASE Logs!Fails(s)
  <2> DEFINE next == [st EXCEPT !.phase = "closed", !.bus = <<>>, !.send = <<>>, !.wire = <<>>]
  <2>1. /\ streams' = [streams EXCEPT ![s] = next] /\ logData' = <<>>
        /\ UNCHANGED <<written, dropped, broadcastCh, current, acc>>
    BY Zenon, <1>11 DEF Logs!Fails, Logs!monitors, st
  <2>2. /\ next \in Stream /\ next.model = st.model /\ next.wire = <<>>
        /\ next.send = <<>> /\ next.bus = <<>>
    BY <1>1, <1>5 DEF Stream, Phases
  <2> HIDE DEF next
  <2>3. GoesOn(st, C, next, C)
    BY <1>1, <1>3, <1>5, <2>2, PassedOn DEF Ahead, Precede
  <2> QED BY <1>4, <2>1, <2>3
<1> QED BY <1>6, <1>7, <1>8, <1>9, <1>10, <1>11

LEMMA ReadStep ==
  ASSUME LogInv, PartsAssumption, NEW s \in 1..Len(streams), Logs!Read(s)
  PROVE  LogInv'
PROOF
<1> DEFINE st == streams[s]
           C == Coming(written[st.model], broadcastCh[st.model])
           wire == Tail(st.wire)
           next == [st EXCEPT !.wire = wire]
           read == Append(acc, Head(st.wire))
<1>1. /\ streams' = [streams EXCEPT ![s] = next] /\ st.wire # <<>> /\ s = current
      /\ acc' = Logs!TailOf(read, Limit) /\ logData' = acc'
      /\ UNCHANGED <<written, dropped, broadcastCh, current>>
  BY Zenon DEF Logs!Read, Logs!monitors
<1>2. st \in Stream /\ Flows(st, C) BY DEF LogInv, StreamKept
<1>3. LogOf(st.model, acc) /\ Precede(LinesOf(acc), Ahead(st) \cup C)
  BY <1>1 DEF LogInv, Shown
<1> HIDE DEF st, C
<1>4. /\ LogOf(st.model, st.wire) /\ LogOf(st.model, st.send) /\ LogOf(st.model, st.bus)
      /\ Precede(LinesOf(st.wire), LinesOf(st.send))
      /\ Precede(LinesOf(st.wire), LinesOf(st.bus))
      /\ Precede(LinesOf(st.send), LinesOf(st.bus))
      /\ Precede(Ahead(st), C)
  BY <1>2 DEF Flows
<1>5. Precede(LinesOf(acc), LinesOf(st.wire)) BY <1>3 DEF Precede, Ahead
<1>6. /\ LogOf(st.model, wire) /\ LogOf(st.model, read)
      /\ Precede(LinesOf(read), LinesOf(wire))
      /\ LinesOf(wire) \subseteq LinesOf(st.wire)
      /\ LinesOf(read) \subseteq LinesOf(acc) \cup LinesOf(st.wire)
  BY <1>1, <1>3, <1>4, <1>5, MoveOn
<1>7. wire \in Text BY <1>6 DEF LogOf
<1> HIDE DEF wire, read
<1>8. /\ next \in Stream /\ next.model = st.model /\ next.wire = wire
      /\ next.send = st.send /\ next.bus = st.bus
  BY <1>2, <1>7 DEF Stream
<1> HIDE DEF next
<1>9. Precede(LinesOf(wire), LinesOf(st.send)) /\ Precede(LinesOf(wire), LinesOf(st.bus))
  BY <1>4, <1>6 DEF Precede
<1>10. GoesOn(st, C, next, C)
  BY <1>2, <1>4, <1>6, <1>8, <1>9, PassedOn DEF Ahead
<1>11. Follows(streams[s], next) BY <1>1, <1>10 DEF Follows, st, C
<1>12. /\ Monitors' /\ streams' \in Seq(Stream) /\ Len(streams') = Len(streams)
       /\ \A q \in 1..Len(streams) : Follows(streams[q], streams'[q])
  BY <1>1, <1>11, OneGoesOn
<1>13. streams'[s] = next BY <1>1 DEF LogInv
<1>14. \A q \in 1..Len(streams) : StreamKept(streams[q])'
  BY <1>12 DEF StreamKept, Follows, GoesOn
<1>15. LogOf(st.model, acc') /\ LinesOf(acc') \subseteq LinesOf(read)
  BY <1>1, <1>6, EndOfLog DEF PartsAssumption, Logs!LogAssumption
<1>16. /\ Precede(LinesOf(acc), LinesOf(st.send)) /\ Precede(LinesOf(acc), LinesOf(st.bus))
       /\ Precede(LinesOf(acc), C) /\ Precede(LinesOf(st.wire), C)
  BY Zenon, <1>3, <1>4 DEF Precede, Ahead
<1>17. /\ Precede(LinesOf(acc'), LinesOf(wire)) /\ Precede(LinesOf(acc'), LinesOf(st.send))
       /\ Precede(LinesOf(acc'), LinesOf(st.bus)) /\ Precede(LinesOf(acc'), C)
  BY Zenon, <1>4, <1>6, <1>15, <1>16 DEF Precede
<1>18. Precede(LinesOf(acc'), Ahead(next) \cup C)
  BY Zenon, <1>8, <1>17 DEF Precede, Ahead
<1>19. Shown(streams[current])'
  BY <1>1, <1>8, <1>13, <1>15, <1>18 DEF Shown, C
<1> QED BY <1>1, <1>12, <1>14, <1>19 DEF LogInv

\* The page leaves a stream, or asks for a new one.
LEMMA AbortedKept ==
  ASSUME LogInv
  PROVE  LET left == Logs!Aborted
         IN  /\ left \in Seq(Stream) /\ Len(left) = Len(streams)
             /\ \A s \in 1..Len(streams) : StreamKept(left[s])
PROOF
<1>1. CASE current = 0 BY <1>1 DEF LogInv, Logs!Aborted
<1>2. CASE current # 0
  <2> DEFINE st == streams[current]
             C == Coming(written[st.model], broadcastCh[st.model])
             next == [st EXCEPT !.phase = "aborted", !.bus = <<>>, !.send = <<>>, !.wire = <<>>]
  <2>1. Logs!Aborted = [streams EXCEPT ![current] = next]
    BY Zenon, <1>2 DEF Logs!Aborted
  <2>2. current \in 1..Len(streams) BY <1>2 DEF LogInv
  <2>3. st \in Stream BY <2>2 DEF LogInv, StreamKept
  <2>4. LogOf(st.model, <<>>) /\ LinesOf(<<>>) = {} /\ <<>> \in Text
    BY EmptyLog DEF LogOf
  <2> HIDE DEF st
  <2>5. /\ next \in Stream /\ next.model = st.model /\ next.wire = <<>>
        /\ next.send = <<>> /\ next.bus = <<>>
    BY <2>3, <2>4 DEF Stream, Phases
  <2> HIDE DEF next
  <2>6. StreamKept(next)
    BY Zenon, <2>4, <2>5 DEF StreamKept, Flows, Ahead, Precede
  <2>7. \A s \in 1..Len(streams) : StreamKept(streams[s]) BY DEF LogInv
  <2> QED BY <2>1, <2>2, <2>5, <2>6, <2>7 DEF LogInv
<1> QED BY <1>1, <1>2

LEMMA PageSteps ==
  ASSUME LogInv, (\E m \in LogModels : Logs!Show(m)) \/ Logs!Leave
  PROVE  LogInv'
PROOF
<1> DEFINE left == Logs!Aborted
<1>1. /\ left \in Seq(Stream) /\ Len(left) = Len(streams)
      /\ \A s \in 1..Len(streams) : StreamKept(left[s])
  BY AbortedKept
<1> HIDE DEF left
<1>2. ASSUME UNCHANGED <<written, dropped, broadcastCh>>
      PROVE  Monitors' /\ \A st : StreamKept(st) =>
               st \in Stream /\ Flows(st, Coming(written'[st.model], broadcastCh'[st.model]))
  BY <1>2 DEF LogInv, Monitors, StreamKept
<1>3. ASSUME NEW m \in LogModels, Logs!Show(m)
      PROVE  LogInv'
  <2> DEFINE new == Logs!Asked(m)
  <2>1. /\ streams' = Append(left, new) /\ current' = Len(streams) + 1
        /\ acc' = <<>> /\ logData' = <<>> /\ UNCHANGED <<written, dropped, broadcastCh>>
    BY <1>3 DEF Logs!Show, Logs!monitors, left
  <2>2. LogOf(m, <<>>) /\ LinesOf(<<>>) = {} /\ <<>> \in Text
    BY EmptyLog DEF LogOf
  <2>3. /\ new \in Stream /\ new.model = m /\ new.wire = <<>> /\ new.send = <<>>
        /\ new.bus = <<>>
    BY <2>2 DEF Stream, Phases, Logs!Asked
  <2> HIDE DEF new
  <2>4. StreamKept(new)
    BY Zenon, <2>2, <2>3 DEF StreamKept, Flows, Ahead, Precede
  <2>5. /\ streams' \in Seq(Stream) /\ Len(streams') = Len(streams) + 1
        /\ streams'[Len(streams) + 1] = new
        /\ \A s \in 1..Len(streams) : streams'[s] = left[s]
    BY <1>1, <2>1, <2>3
  <2>6. Len(streams) \in Nat BY DEF LogInv
  <2>7. ASSUME NEW s \in 1..Len(streams')
        PROVE  StreamKept(streams'[s])
    <3>1. s \in 1..Len(streams) \/ s = Len(streams) + 1 BY <2>5, <2>6
    <3> QED BY <1>1, <2>4, <2>5, <3>1
  <2>8. \A s \in 1..Len(streams') : StreamKept(streams[s])'
    BY <1>2, <2>1, <2>7 DEF StreamKept
  <2>9. Shown(streams[current])'
    BY Zenon, <2>1, <2>2, <2>3, <2>5 DEF Shown, Precede
  <2>10. current' \in 0..Len(streams') /\ current' # 0 BY <2>1, <2>5, <2>6
  <2> QED BY <1>2, <2>1, <2>5, <2>8, <2>9, <2>10 DEF LogInv
<1>4. ASSUME Logs!Leave
      PROVE  LogInv'
  <2>1. /\ streams' = left /\ current' = 0 /\ acc' = <<>> /\ logData' = <<>>
        /\ UNCHANGED <<written, dropped, broadcastCh>>
    BY <1>4 DEF Logs!Leave, Logs!monitors, left
  <2>2. \A s \in 1..Len(streams') : StreamKept(streams[s])'
    BY <1>1, <1>2, <2>1 DEF StreamKept
  <2> QED BY <1>1, <1>2, <2>1, <2>2 DEF LogInv
<1> QED BY <1>3, <1>4

LEMMA LineQueued ==
  ASSUME NEW w \in Nat, NEW ch \in Seq(Nat), Queued(w, ch)
  PROVE  /\ Queued(w + 1, Append(ch, w + 1))
         /\ Coming(w + 1, Append(ch, w + 1)) \subseteq Coming(w, ch)
         /\ Queued(w + 1, ch) /\ Coming(w + 1, ch) \subseteq Coming(w, ch)
PROOF
<1> DEFINE new == Append(ch, w + 1)
<1>1. /\ Len(ch) \in Nat /\ new \in Seq(Nat) /\ Len(new) = Len(ch) + 1
      /\ new[Len(ch) + 1] = w + 1 /\ \A i \in 1..Len(ch) : new[i] = ch[i] /\ ch[i] \in Nat
  OBVIOUS
<1>2. \A i \in 1..Len(new) : i \in 1..Len(ch) \/ i = Len(ch) + 1 BY <1>1
<1> HIDE DEF new
<1>3. \A i \in 1..Len(ch) : ch[i] > 0 /\ ch[i] <= w BY DEF Queued
<1>4. \A i \in 1..Len(new) : new[i] > 0 /\ new[i] <= w + 1
  <2> SUFFICES ASSUME NEW i \in 1..Len(new) PROVE new[i] > 0 /\ new[i] <= w + 1
    OBVIOUS
  <2>1. CASE i \in 1..Len(ch)
    <3>1. new[i] \in Nat /\ new[i] > 0 /\ new[i] <= w BY <1>1, <1>3, <2>1
    <3> QED BY <3>1
  <2>2. CASE i = Len(ch) + 1
    <3>1. new[i] = w + 1 BY <1>1, <2>2
    <3> QED BY <3>1
  <2> QED BY <1>2, <2>1, <2>2
<1>5. ASSUME NEW i \in 1..Len(new), NEW j \in 1..Len(new), i < j
      PROVE  new[i] < new[j]
  <2>1. i \in 1..Len(ch) BY <1>1, <1>5
  <2>2. CASE j \in 1..Len(ch) BY <1>1, <1>5, <2>1, <2>2 DEF Queued
  <2>3. CASE j = Len(ch) + 1
    <3>1. new[i] \in Nat /\ new[i] <= w BY <1>1, <1>3, <2>1
    <3>2. new[j] = w + 1 BY <1>1, <2>3
    <3> QED BY <3>1, <3>2
  <2> QED BY <1>2, <2>2, <2>3
<1>6. Coming(w + 1, new) \subseteq Coming(w, ch)
  <2> SUFFICES ASSUME NEW k \in Nat, k > w + 1 \/ \E i \in 1..Len(new) : new[i] = k
               PROVE  k > w \/ \E i \in 1..Len(ch) : ch[i] = k
    BY DEF Coming
  <2> QED BY <1>1, <1>2
<1>7. Queued(w + 1, ch) BY <1>1, <1>3 DEF Queued
<1>8. Coming(w + 1, ch) \subseteq Coming(w, ch) BY DEF Coming
<1> QED BY <1>4, <1>5, <1>6, <1>7, <1>8 DEF Queued, new

LEMMA LineTaken ==
  ASSUME NEW w \in Nat, NEW ch \in Seq(Nat), Queued(w, ch), ch # <<>>
  PROVE  /\ Queued(w, Tail(ch)) /\ Coming(w, Tail(ch)) \subseteq Coming(w, ch)
         /\ Head(ch) \in Coming(w, ch) /\ Head(ch) > 0
         /\ Precede({Head(ch)}, Coming(w, Tail(ch)))
PROOF
<1> DEFINE rest == Tail(ch)
<1>1. /\ Len(ch) \in Nat /\ Len(ch) > 0 /\ rest \in Seq(Nat) /\ Len(rest) = Len(ch) - 1
      /\ Head(ch) = ch[1]
      /\ \A i \in 1..Len(rest) : rest[i] = ch[i + 1] /\ i + 1 \in 1..Len(ch)
      /\ \A i \in 1..Len(ch) : ch[i] \in Nat
  OBVIOUS
<1> HIDE DEF rest
<1>2. /\ \A i \in 1..Len(ch) : ch[i] > 0 /\ ch[i] <= w
      /\ \A i, j \in 1..Len(ch) : i < j => ch[i] < ch[j]
  BY DEF Queued
<1>3. \A i \in 1..Len(rest) : rest[i] > 0 /\ rest[i] <= w
  BY <1>1, <1>2
<1>4. ASSUME NEW i \in 1..Len(rest), NEW j \in 1..Len(rest), i < j
      PROVE  rest[i] < rest[j]
  <2>1. i + 1 < j + 1 BY <1>4
  <2> QED BY <1>1, <1>2, <2>1
<1>5. Coming(w, rest) \subseteq Coming(w, ch) BY <1>1 DEF Coming
<1>6. 1 \in 1..Len(ch) /\ ch[1] \in Nat /\ ch[1] \in Coming(w, ch) BY <1>1 DEF Coming
<1>7. ASSUME NEW k \in Coming(w, rest)
      PROVE  ch[1] < k
  <2>1. k \in Nat /\ (k > w \/ \E i \in 1..Len(rest) : rest[i] = k) BY <1>7 DEF Coming
  <2>2. CASE k > w BY <1>2, <1>6, <2>1, <2>2
  <2>3. CASE \E i \in 1..Len(rest) : rest[i] = k
    <3>1. PICK i \in 1..Len(rest) : rest[i] = k BY <2>3
    <3>2. i + 1 \in 1..Len(ch) /\ ch[i + 1] = k BY <1>1, <3>1
    <3>3. 1 < i + 1 BY <3>1
    <3> QED BY <1>2, <1>6, <3>2, <3>3
  <2> QED BY <2>1, <2>2, <2>3
<1> QED BY <1>1, <1>2, <1>3, <1>4, <1>5, <1>6, <1>7 DEF Queued, Precede, rest

LEMMA StreamStays ==
  ASSUME LogInv, NEW s \in 1..Len(streams), NEW D,
         D \subseteq Coming(written[streams[s].model], broadcastCh[streams[s].model])
  PROVE  GoesOn(streams[s], Coming(written[streams[s].model], broadcastCh[streams[s].model]),
                streams[s], D)
PROOF
<1>1. StreamKept(streams[s]) BY DEF LogInv
<1> QED BY Zenon, <1>1 DEF StreamKept, GoesOn, Flows, Precede

\* A stream that has lost a line goes on as it was.
LEMMA MissedGoesOn ==
  ASSUME LogInv, NEW s \in 1..Len(streams), NEW D,
         D \subseteq Coming(written[streams[s].model], broadcastCh[streams[s].model])
  PROVE  GoesOn(streams[s], Coming(written[streams[s].model], broadcastCh[streams[s].model]),
                [streams[s] EXCEPT !.missed = TRUE], D)
PROOF
<1> DEFINE st == streams[s]
           C == Coming(written[st.model], broadcastCh[st.model])
           next == [st EXCEPT !.missed = TRUE]
<1>1. st \in Stream /\ Flows(st, C) BY DEF LogInv, StreamKept
<1> HIDE DEF st, C
<1>2. /\ next \in Stream /\ next.model = st.model /\ next.wire = st.wire
      /\ next.send = st.send /\ next.bus = st.bus
  BY <1>1 DEF Stream
<1> HIDE DEF next
<1>3. D \subseteq C BY DEF st, C
<1>4. GoesOn(st, C, next, D)
  BY Zenon, <1>1, <1>2, <1>3 DEF GoesOn, Flows, Ahead, Precede
<1> QED BY <1>4 DEF st, C, next

\* Streams that are gone through one by one are as many streams.
LEMMA AsMany ==
  ASSUME streams \in Seq(Stream),
         streams' = [s \in DOMAIN streams |-> streams'[s]],
         \A s \in 1..Len(streams) : streams'[s] \in Stream
  PROVE  streams' \in Seq(Stream) /\ Len(streams') = Len(streams)
PROOF
<1>1. DOMAIN streams = 1..Len(streams) /\ Len(streams) \in Nat OBVIOUS
<1>2. streams' \in [1..Len(streams) -> Stream] BY <1>1
<1> QED BY <1>1, <1>2, SeqDef, LenProperties

\* A monitor of which the others know nothing changes.
LEMMA MonitorMoves ==
  ASSUME LogInv, NEW m \in LogModels, NEW w \in Nat, NEW ch \in Seq(Nat), NEW d \in Nat,
         written' = [written EXCEPT ![m] = w], broadcastCh' = [broadcastCh EXCEPT ![m] = ch],
         dropped' = [dropped EXCEPT ![m] = d],
         Queued(w, ch), Coming(w, ch) \subseteq Coming(written[m], broadcastCh[m])
  PROVE  /\ Monitors'
         /\ written'[m] = w /\ broadcastCh'[m] = ch
         /\ \A o \in LogModels :
              Coming(written'[o], broadcastCh'[o]) \subseteq Coming(written[o], broadcastCh[o])
PROOF
<1>1. /\ written'[m] = w /\ broadcastCh'[m] = ch
      /\ \A o \in LogModels : o # m => written'[o] = written[o] /\ broadcastCh'[o] = broadcastCh[o]
      /\ written' \in [LogModels -> Nat] /\ broadcastCh' \in [LogModels -> Seq(Nat)]
      /\ dropped' \in [LogModels -> Nat]
  BY DEF LogInv, Monitors
<1>2. \A o \in LogModels : Queued(written'[o], broadcastCh'[o])
  BY <1>1 DEF LogInv, Monitors
<1>3. \A o \in LogModels :
        Coming(written'[o], broadcastCh'[o]) \subseteq Coming(written[o], broadcastCh[o])
  BY <1>1
<1> QED BY <1>1, <1>2, <1>3 DEF Monitors

LEMMA WriteStep ==
  ASSUME LogInv, NEW m \in LogModels, Logs!Write(m)
  PROVE  LogInv'
PROOF
<1>1. /\ written[m] \in Nat /\ dropped[m] \in Nat /\ broadcastCh[m] \in Seq(Nat)
      /\ Queued(written[m], broadcastCh[m])
      /\ DOMAIN written = LogModels /\ DOMAIN dropped = LogModels
      /\ DOMAIN broadcastCh = LogModels
      /\ written = [o \in LogModels |-> written[o]]
      /\ dropped = [o \in LogModels |-> dropped[o]]
      /\ broadcastCh = [o \in LogModels |-> broadcastCh[o]]
  BY DEF LogInv, Monitors
<1>2. /\ written' = [written EXCEPT ![m] = written[m] + 1]
      /\ UNCHANGED <<current, acc, logData>>
      /\ \/ /\ broadcastCh' = [broadcastCh EXCEPT ![m] = Append(broadcastCh[m], written[m] + 1)]
            /\ UNCHANGED dropped
         \/ dropped' = [dropped EXCEPT ![m] = dropped[m] + 1] /\ UNCHANGED broadcastCh
  BY DEF Logs!Write, Logs!tab
<1>3. /\ [broadcastCh EXCEPT ![m] = broadcastCh[m]] = broadcastCh
      /\ [dropped EXCEPT ![m] = dropped[m]] = dropped
  BY <1>1
<1> DEFINE w == written[m] + 1
           ch == broadcastCh'[m]
           d == dropped'[m]
<1>4. /\ w \in Nat /\ ch \in Seq(Nat) /\ d \in Nat
      /\ ch \in {Append(broadcastCh[m], w), broadcastCh[m]}
      /\ written' = [written EXCEPT ![m] = w] /\ broadcastCh' = [broadcastCh EXCEPT ![m] = ch]
      /\ dropped' = [dropped EXCEPT ![m] = d]
  <2>1. w \in Nat /\ Append(broadcastCh[m], w) \in Seq(Nat) /\ dropped[m] + 1 \in Nat
    BY <1>1
  <2>2. CASE /\ broadcastCh' = [broadcastCh EXCEPT ![m] = Append(broadcastCh[m], written[m] + 1)]
             /\ UNCHANGED dropped
    <3>1. ch = Append(broadcastCh[m], w) /\ d = dropped[m] BY <1>1, <2>2
    <3> QED BY Zenon, <1>1, <1>2, <1>3, <2>1, <2>2, <3>1
  <2>3. CASE dropped' = [dropped EXCEPT ![m] = dropped[m] + 1] /\ UNCHANGED broadcastCh
    <3>1. ch = broadcastCh[m] /\ d = dropped[m] + 1 BY <1>1, <2>3
    <3> QED BY Zenon, <1>1, <1>2, <1>3, <2>1, <2>3, <3>1
  <2> QED BY <1>2, <2>2, <2>3
<1>5. Queued(w, ch) /\ Coming(w, ch) \subseteq Coming(written[m], broadcastCh[m])
  BY <1>1, <1>4, LineQueued
<1> HIDE DEF w, ch, d
<1>6. /\ Monitors'
      /\ \A o \in LogModels :
           Coming(written'[o], broadcastCh'[o]) \subseteq Coming(written[o], broadcastCh[o])
  BY <1>4, <1>5, MonitorMoves
<1>7. /\ streams \in Seq(Stream) /\ DOMAIN streams = 1..Len(streams)
      /\ \A s \in 1..Len(streams) : streams[s].model \in LogModels
  BY DEF LogInv, StreamKept, Stream
<1>8. /\ streams' = [s \in DOMAIN streams |-> streams'[s]]
      /\ \A s \in DOMAIN streams :
           streams'[s] = streams[s] \/ streams'[s] = [streams[s] EXCEPT !.missed = TRUE]
  BY DEF Logs!Write
<1>9. ASSUME NEW s \in 1..Len(streams)
      PROVE  Follows(streams[s], streams'[s])
  <2>1. Coming(written'[streams[s].model], broadcastCh'[streams[s].model])
          \subseteq Coming(written[streams[s].model], broadcastCh[streams[s].model])
    BY <1>6, <1>7
  <2>2. streams'[s] = streams[s] \/ streams'[s] = [streams[s] EXCEPT !.missed = TRUE]
    BY <1>7, <1>8
  <2>3. CASE streams'[s] = streams[s] BY Zenon, <2>1, <2>3, StreamStays DEF Follows
  <2>4. CASE streams'[s] = [streams[s] EXCEPT !.missed = TRUE]
    BY Zenon, <2>1, <2>4, MissedGoesOn DEF Follows
  <2> QED BY <2>2, <2>3, <2>4
<1>10. \A s \in 1..Len(streams) : streams'[s] \in Stream BY <1>9 DEF Follows, GoesOn
<1>11. streams' \in Seq(Stream) /\ Len(streams') = Len(streams) BY <1>7, <1>8, <1>10, AsMany
<1> QED BY <1>2, <1>6, <1>9, <1>11, StreamsGoOn

LEMMA BroadcastStep ==
  ASSUME LogInv, NEW m \in LogModels, Logs!Broadcast(m)
  PROVE  LogInv'
PROOF
<1> DEFINE w == written[m]
           ch == broadcastCh[m]
           h == Head(ch)
           marker == Logs!Marker(m)
           line == Logs!Line(m, h, TRUE)
           news == (IF dropped[m] > 0 THEN <<marker>> ELSE <<>>) \o <<line>>
<1>1. w \in Nat /\ ch \in Seq(Nat) /\ Queued(w, ch) /\ written \in [LogModels -> Nat]
  BY DEF LogInv, Monitors
<1>2. /\ ch # <<>>
      /\ streams' = [s \in DOMAIN streams |->
           IF streams[s].phase = "live" /\ streams[s].model = m
           THEN [streams[s] EXCEPT !.bus = @ \o news]
           ELSE IF streams[s].phase = "history" /\ streams[s].model = m /\ h > streams[s].seen
           THEN [streams[s] EXCEPT !.missed = TRUE] ELSE streams[s]]
      /\ broadcastCh' = [broadcastCh EXCEPT ![m] = Tail(ch)]
      /\ dropped' = [dropped EXCEPT ![m] = 0]
      /\ UNCHANGED <<written, current, acc, logData>>
  BY Zenon DEF Logs!Broadcast, Logs!tab
<1>3. /\ Queued(w, Tail(ch)) /\ Coming(w, Tail(ch)) \subseteq Coming(w, ch)
      /\ h \in Coming(w, ch) /\ h > 0 /\ Precede({h}, Coming(w, Tail(ch)))
  BY <1>1, <1>2, LineTaken
<1>4. Tail(ch) \in Seq(Nat) /\ written' = [written EXCEPT ![m] = w] BY <1>1, <1>2
<1>5. /\ Monitors' /\ written'[m] = w /\ broadcastCh'[m] = Tail(ch)
      /\ \A o \in LogModels :
           Coming(written'[o], broadcastCh'[o]) \subseteq Coming(written[o], broadcastCh[o])
  <2> HIDE DEF h
  <2>1. w = written[m] /\ ch = broadcastCh[m] /\ 0 \in Nat OBVIOUS
  <2> HIDE DEF w, ch
  <2> QED BY Zenon, <1>1, <1>2, <1>3, <1>4, <2>1, MonitorMoves
<1>6. h \in Nat BY <1>3 DEF Coming
<1> HIDE DEF h
<1>7. /\ line \in Entry /\ line.model = m /\ line.line = h /\ Logs!LiveLine(line)
      /\ marker \in Entry /\ marker.model = m /\ ~Logs!LiveLine(marker)
  BY <1>3, <1>6 DEF Entry, Logs!Line, Logs!Marker, Logs!LiveLine
<1> HIDE DEF line, marker
<1>8. ASSUME NEW st \in Stream, st.model = m, Flows(st, Coming(w, ch))
      PROVE  GoesOn(st, Coming(w, ch), [st EXCEPT !.bus = @ \o news], Coming(w, Tail(ch)))
  <2> DEFINE C == Coming(w, ch)
             D == Coming(w, Tail(ch))
             bus == st.bus \o news
             next == [st EXCEPT !.bus = bus]
  <2>1. /\ LogOf(m, st.wire) /\ LogOf(m, st.send) /\ LogOf(m, st.bus)
        /\ Precede(LinesOf(st.wire), LinesOf(st.send))
        /\ Precede(LinesOf(st.wire), LinesOf(st.bus))
        /\ Precede(LinesOf(st.send), LinesOf(st.bus))
        /\ Precede(Ahead(st), C)
    BY <1>8 DEF Flows
  <2> HIDE DEF C, D
  <2>2. C = Coming(w, ch) /\ D = Coming(w, Tail(ch)) BY DEF C, D
  <2>3. h \in C /\ Precede({h}, D) /\ D \subseteq C BY <1>3, <2>2
  <2>4. Precede(LinesOf(st.bus), {h}) BY <2>1, <2>3 DEF Precede, Ahead
  <2>5. LogOf(m, bus) /\ \A k \in LinesOf(bus) : k \in LinesOf(st.bus) \/ k = h
    <3> DEFINE marked == Append(st.bus, marker)
    <3>1. st.bus \in Seq(Entry) BY <2>1 DEF LogOf, Text
    <3>2. CASE ~(dropped[m] > 0)
      <4>1. bus = st.bus \o (<<>> \o <<line>>) BY Zenon, <3>2
      <4>2. <<line>> \in Seq(Entry) BY <1>7
      <4>3. bus = Append(st.bus, line)
        BY <1>7, <3>1, <4>1, <4>2, ConcatEmptySeq, AppendIsConcat
      <4> HIDE DEF bus
      <4> QED BY <1>7, <2>1, <2>4, <4>3, AppendToLog
    <3>3. CASE dropped[m] > 0
      <4>1. LogOf(m, marked) /\ LinesOf(marked) \subseteq LinesOf(st.bus)
        BY <1>7, <2>1, AppendToLog
      <4>2. Precede(LinesOf(marked), {line.line}) BY <1>7, <2>4, <4>1 DEF Precede
      <4>3. bus = st.bus \o (<<marker>> \o <<line>>) BY Zenon, <3>3
      <4>4. <<line>> \in Seq(Entry) /\ <<marker>> \in Seq(Entry) BY <1>7
      <4>5. st.bus \o (<<marker>> \o <<line>>) = (st.bus \o <<marker>>) \o <<line>>
        BY <3>1, <4>4, ConcatAssociative
      <4>6. marked \in Seq(Entry) /\ marked = st.bus \o <<marker>>
        BY <1>7, <3>1, AppendIsConcat
      <4>7. bus = Append(marked, line) BY <1>7, <4>3, <4>5, <4>6, AppendIsConcat
      <4> HIDE DEF bus, marked
      <4> QED BY <1>7, <4>1, <4>2, <4>7, AppendToLog
    <3> QED BY <3>2, <3>3
  <2> HIDE DEF bus
  <2>6. bus \in Text BY <2>5 DEF LogOf
  <2>7. /\ next \in Stream /\ next.model = m /\ next.wire = st.wire /\ next.send = st.send
        /\ next.bus = bus
    BY <1>8, <2>6 DEF Stream
  <2> HIDE DEF next
  <2>8. Precede(LinesOf(st.wire), {h}) /\ Precede(LinesOf(st.send), {h})
    BY <2>1, <2>3 DEF Precede, Ahead
  <2>9. Precede(LinesOf(st.wire), LinesOf(bus)) /\ Precede(LinesOf(st.send), LinesOf(bus))
    BY <2>1, <2>5, <2>8 DEF Precede
  <2>10. \A k \in Ahead(next) : k \in Ahead(st) \/ k = h BY <2>5, <2>7 DEF Ahead
  <2>11. Precede(Ahead(next), D) BY <2>1, <2>3, <2>10 DEF Precede
  <2>12. Flows(next, D)
    BY Zenon, <2>1, <2>5, <2>7, <2>9, <2>11 DEF Flows
  <2>13. Ahead(next) \cup D \subseteq Ahead(st) \cup C BY <2>3, <2>10
  <2>14. GoesOn(st, C, next, D) BY <1>8, <2>7, <2>12, <2>13 DEF GoesOn
  <2> QED BY <2>14 DEF C, D, next, bus
<1> HIDE DEF news
<1>9. streams \in Seq(Stream) /\ \A s \in 1..Len(streams) : StreamKept(streams[s])
  BY DEF LogInv
<1>10. ASSUME NEW s \in 1..Len(streams)
       PROVE  Follows(streams[s], streams'[s])
  <2>1. streams[s].model \in LogModels /\ streams[s] \in Stream
    BY <1>9 DEF StreamKept, Stream
  <2>2. CASE streams[s].phase = "live" /\ streams[s].model = m
    <3>1. streams'[s] = [streams[s] EXCEPT !.bus = @ \o news] 
      <4>1. s \in DOMAIN streams BY <1>9
      <4> QED BY Zenon, <1>2, <2>2, <4>1
    <3>2. Flows(streams[s], Coming(w, ch)) BY <1>9, <2>2 DEF StreamKept
    <3>3. GoesOn(streams[s], Coming(w, ch), streams'[s], Coming(w, Tail(ch)))
      BY <1>8, <2>1, <2>2, <3>1, <3>2
    <3> QED BY <1>5, <2>2, <3>3 DEF Follows
  <2>3. CASE ~(streams[s].phase = "live" /\ streams[s].model = m)
    <3>1. \/ streams'[s] = streams[s]
          \/ streams'[s] = [streams[s] EXCEPT !.missed = TRUE]
      <4>1. s \in DOMAIN streams BY <1>9
      <4> QED BY Zenon, <1>2, <2>3, <4>1
    <3>2. Coming(written'[streams[s].model], broadcastCh'[streams[s].model])
            \subseteq Coming(written[streams[s].model], broadcastCh[streams[s].model])
      BY <1>5, <2>1
    <3>3. CASE streams'[s] = streams[s] BY Zenon, <3>2, <3>3, StreamStays DEF Follows
    <3>4. CASE streams'[s] = [streams[s] EXCEPT !.missed = TRUE]
      BY Zenon, <3>2, <3>4, MissedGoesOn DEF Follows
    <3> QED BY <3>1, <3>3, <3>4
  <2> QED BY <2>2, <2>3
<1>11. streams' \in Seq(Stream) /\ Len(streams') = Len(streams)
  <2>1. streams' = [s \in DOMAIN streams |-> streams'[s]] BY <1>2
  <2>2. \A s \in 1..Len(streams) : streams'[s] \in Stream BY <1>10 DEF Follows, GoesOn
  <2> QED BY <1>9, <2>1, <2>2, AsMany
<1> QED BY <1>2, <1>5, <1>10, <1>11, StreamsGoOn

LEMMA LogStep ==
  ASSUME LogInv, PartsAssumption, [Logs!Next]_(Logs!vars)
  PROVE  LogInv'
PROOF
<1>1. CASE UNCHANGED Logs!vars
  BY <1>1 DEF Logs!vars, Logs!monitors, Logs!tab, LogInv, Monitors, StreamKept, Shown
<1>2. CASE Logs!Next
  <2>1. DOMAIN streams = 1..Len(streams) BY DEF LogInv
  <2>2. \/ \E m \in LogModels : Logs!Write(m)
        \/ \E m \in LogModels : Logs!Broadcast(m)
        \/ (\E m \in LogModels : Logs!Show(m)) \/ Logs!Leave
        \/ \E s \in 1..Len(streams) :
             \/ Logs!SendHistory(s) \/ Logs!Subscribe(s) \/ Logs!OnLogData(s)
             \/ Logs!Forward(s) \/ Logs!Close(s) \/ Logs!Fails(s)
        \/ \E s \in 1..Len(streams) : Logs!Read(s)
    BY Zenon, <1>2, <2>1 DEF Logs!Next
  <2> QED BY <2>2, WriteStep, BroadcastStep, PageSteps, StreamSteps, ReadStep
<1> QED BY <1>1, <1>2

LEMMA LogMeans == ASSUME LogInv PROVE Logs!OneLogInOrder
PROOF
<1>1. CASE logData = <<>> BY <1>1 DEF Logs!OneLogInOrder
<1>2. CASE logData # <<>>
  <2>1. current # 0 /\ logData = acc /\ Shown(streams[current])
    BY <1>2 DEF LogInv
  <2>2. LogOf(streams[current].model, logData) BY <2>1 DEF Shown
  <2>3. DOMAIN logData = 1..Len(logData) BY <2>2 DEF LogOf, Text
  <2> QED BY Zenon, <2>2, <2>3 DEF Logs!OneLogInOrder, LogOf, OfModel, InOrder
<1> QED BY <1>1, <1>2

HIDE DEF written, broadcastCh, dropped, streams, current, acc, logData
-----------------------------------------------------------------------------
(* The parts together.                                                     *)

LEMMA PartsBegin ==
  ASSUME Init
  PROVE  /\ part = "Selector" => Selector!Init
         /\ part = "Reload" => Reload!Init
         /\ part = "Performance" => Performance!Init
         /\ part = "ModelPage" => ModelPage!Init
         /\ part = "ModelList" => ModelList!Init
         /\ part = "Panel" => Panel!Init
         /\ part = "Logs" => Logs!Init
PROOF BY Zenon DEF Init

LEMMA PartsStep ==
  ASSUME [Next /\ UNCHANGED part]_vars
  PROVE  /\ part' = part
         /\ part = "Selector" => [Selector!Next]_(Selector!vars)
         /\ part = "Reload" => [Reload!Next]_(Reload!vars)
         /\ part = "Performance" => [Performance!Next]_(Performance!vars)
         /\ part = "ModelPage" => [ModelPage!Next]_(ModelPage!vars)
         /\ part = "ModelList" => [ModelList!Next]_(ModelList!vars)
         /\ part = "Panel" => [Panel!Next]_(Panel!vars)
         /\ part = "Logs" => [Logs!Next]_(Logs!vars)
PROOF
<1>1. CASE UNCHANGED vars
  <2>1. part' = part /\ UNCHANGED <<v1, v2, v3, v4, v5, v6, v7, v8, v9, v10, v11, v12, v13,
                                    v14, v15, v16, v17, v18>>
    BY <1>1 DEF vars
  <2>2. UNCHANGED Selector!vars /\ UNCHANGED Reload!vars
    BY <2>1 DEF Selector!vars, Reload!vars
  <2>6. UNCHANGED Performance!vars /\ UNCHANGED Panel!vars
    BY <2>1 DEF Performance!vars, Performance!server, Performance!data, Performance!timers,
                Performance!stay,
                Panel!vars
  <2>3. UNCHANGED ModelPage!vars
    BY <2>1 DEF ModelPage!vars, ModelPage!editorVars
  <2>4. UNCHANGED ModelList!vars
    BY <2>1 DEF ModelList!vars, ModelList!server, ModelList!load, ModelList!unload, ModelList!scanVars
  <2>5. UNCHANGED Logs!vars BY <2>1 DEF Logs!vars, Logs!monitors, Logs!tab
  <2> QED BY <2>1, <2>2, <2>3, <2>4, <2>5, <2>6
<1>2. CASE Next /\ UNCHANGED part BY Zenon, <1>2 DEF Next
<1> QED BY <1>1, <1>2

\* MCPages!NothingLeftBehind, whatever the number of requests, targets and reloads: a
\* selector's reservations balance and its targets fill in order; a reload and the exit
\* leave no server and no store behind, but for a server whose shutdown failed and for an
\* exit that is forced or that a reload runs beside.
THEOREM NothingIsLeftBehind == Spec => NothingLeftBehind
PROOF
<1> DEFINE Inv == /\ part = "Selector" => SelectorInv
                  /\ part = "Reload" => ReloadInv
<1>1. Init => Inv
  BY PartsBegin, PartsAssumption, SelectorInit, ReloadInit
<1>2. Inv /\ [Next /\ UNCHANGED part]_vars => Inv'
  BY PartsStep, PartsAssumption, SelectorStep, ReloadStep
<1>3. Inv => /\ part = "Selector" => Selector!TypeOK /\ Selector!CountsHeld
             /\ part = "Reload" => /\ Reload!TypeOK
                                   /\ Reload!StoreOutlivesServers /\ Reload!OldServersGone
                                   /\ Reload!ConfigSettles /\ Reload!ExitLeavesNothing
  BY PartsAssumption, HoldsMeans, CurrentMeans DEF SelectorInv, ReloadInv
<1>4. Inv /\ [Next /\ UNCHANGED part]_vars => [part = "Selector" => Selector!FilledInOrder]_vars
  BY PartsStep, PartsAssumption, StepFillsInOrder
<1> QED BY <1>1, <1>2, <1>3, <1>4, PTL DEF Spec, NothingLeftBehind

\* MCPages!OneAtATime, whatever the intervals, visits, models and calls: one poller ticks
\* for a visit, and for a visit that was left none, unless it was left while it awaited its
\* load (Performance.svelte:142, 144-148); one call of a tag editor is awaited; and a load
\* that is under way can be cancelled.
THEOREM OneAtATimeHolds == Spec => []OneAtATime
PROOF
<1> DEFINE Inv == /\ part = "Performance" => PollerInv
                  /\ part = "ModelPage" => EditorInv
                  /\ part = "ModelList" => RowsInv
<1>1. Init => Inv
  BY PartsBegin, PartsAssumption, PollerInit, EditorInit, RowsInit
<1>2. Inv /\ [Next /\ UNCHANGED part]_vars => Inv'
  BY PartsStep, PartsAssumption, PollerStep, EditorStep, RowsStep
<1>3. Inv => OneAtATime
  BY EditorMeans, RowsMeans DEF OneAtATime, PollerInv
<1> QED BY <1>1, <1>2, <1>3, PTL DEF Spec

\* MCPages!LogShown, whatever the buffers, channels and limits: the log on the page is
\* one model's, its live lines in order and none twice, and a panel leaves out lines of it
\* only under a filter that it shows.  The log itself may have lost lines.
THEOREM LogIsShown == Spec => []LogShown
PROOF
<1> DEFINE Inv == /\ part = "Logs" => LogInv
                  /\ part = "Panel" => PanelInv
<1>1. Init => Inv BY PartsBegin, LogInit, PanelInit
<1>2. Inv /\ [Next /\ UNCHANGED part]_vars => Inv'
  BY PartsStep, PartsAssumption, LogStep, PanelStep
<1>3. Inv => LogShown BY LogMeans, PanelMeans DEF LogShown
<1> QED BY <1>1, <1>2, <1>3, PTL DEF Spec
=============================================================================
