--------------------------- MODULE MCMatrixRouter ---------------------------
(***************************************************************************)
(* The matrix planner on its own, and the router with it.  The two share   *)
(* no state here: in a behaviour of the planner the router stays as it     *)
(* began, in a behaviour of the router the planner has no program.         *)
(*                                                                         *)
(* Planner: small programs over a, b, c; d is in no set.  Set s1 is a      *)
(* choice or a combination of two models; set s2 combines a reference to   *)
(* s1 with models, two operators deep.                                     *)
(*                                                                         *)
(* Router: {a, b}, {a, c} and {c, d} may run together.  Swaps run in       *)
(* parallel, each planned on what runs and what is about to run.           *)
(***************************************************************************)
EXTENDS FIFOScheduler, TLC

CONSTANTS a, b, c, d, r1, r2, r3, r4

Leaf(m)     == [kind |-> "leaf", model |-> m]
Ref(s)      == [kind |-> "ref", set |-> s]
Op(k, x, y) == [kind |-> k, kids |-> <<x, y>>]

-----------------------------------------------------------------------------
(* The planner.                                                            *)

VARIABLES program, cost, up, last   \* of MatrixSwapper; None when the router moves

\* nodes 1-3: the models; 4: s1; 5: +s1; 6: the inner operator of s2; 7: s2
SmallPrograms ==
  {[nodes |-> <<Leaf(a), Leaf(b), Leaf(c), Op(k1, x1, y1), Ref("s1"), Op(k2, x2, 5), Op(k3, 6, x3)>>,
    root  |-> [s \in {"s1", "s2"} |-> IF s = "s1" THEN 4 ELSE 7],
    defs  |-> <<"s2", "s1">>] :
      k1 \in {"and", "or"}, x1 \in {1}, y1 \in {2, 3},
      k2 \in {"and", "or"}, x2 \in 2..3, k3 \in {"and", "or"}, x3 \in 1..3}

OnesAndATwo == {[m \in Models |-> IF m = a THEN 2 ELSE 1]}

Planner == INSTANCE MatrixSwapper_proofs WITH
             Programs <- SmallPrograms, CostTables <- OnesAndATwo, running <- up

ASSUME PlannerAssumption == Planner!MatrixAssumption

plannerVars == <<program, cost, up, last>>

-----------------------------------------------------------------------------
(* The router.                                                             *)

\* sets: first: a & (b | c), second: c & d
Program == Planner!Compile(
  [nodes |-> <<Leaf(a), Leaf(b), Leaf(c), Leaf(d),
               Op("or", 2, 3), Op("and", 1, 5), Op("and", 3, 4)>>,
   root  |-> [s \in {"first", "second"} |-> IF s = "first" THEN 6 ELSE 7],
   defs  |-> <<"first", "second">>])

CostOne == [m \in Models |-> 1]

\* the planner as a table, and the sets that may run
MatrixPlan == [target \in Models |-> [R \in SUBSET Models |->
                 Planner!Solve(Program, CostOne, target, R).evict]]
MayRun == {R \in SUBSET Models : Planner!CanContainAll(Program, R)}

MatrixEvictionFor(target, running) == MatrixPlan[target][running]

FourModels == (r1 :> a @@ r2 :> b @@ r3 :> c @@ r4 :> d)
LimitOne   == [m \in Models |-> 1]
Equal      == [m \in Models |-> 0]
Never      == {}

-----------------------------------------------------------------------------
PlannerOrRouterInit ==
  /\ Init
  /\ \/ program = None /\ cost = None /\ up = None /\ last = None
     \/ Planner!Init

PlannerOrRouterNext ==
  \/ program = None /\ Next /\ UNCHANGED plannerVars
  \/ program # None /\ Planner!Next /\ UNCHANGED vars

PlannerOrRouter == PlannerOrRouterInit /\ [][PlannerOrRouterNext]_<<vars, plannerVars>>

-----------------------------------------------------------------------------
\* Whatever swaps run in parallel, what is up is always part of one set of the
\* configuration: each swap is planned against the targets of the others
\* (runningSet), and may not disturb them (collidesWith).  So is what the planner
\* alone leaves running, or it is a model of no set.
OneSetUp == IF program = None THEN {m \in Models : Up(m)} \in MayRun ELSE Planner!OneSetRuns

\* Pruning loses no combination: CanContainAll agrees with the full expansion.
ContainsExact == program # None => Planner!ContainsExact

\* Every answer of the planner, cached or not, is a best one for the models that
\* run when it is given.
AnswersBest == [][program # None => Planner!AnswersWell]_plannerVars
=============================================================================
