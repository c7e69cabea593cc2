--------------------------- MODULE MatrixSwapper ---------------------------
(***************************************************************************)
(* The matrix planner, matrixSwapper of internal/router/matrix.go, with    *)
(* the DSL of internal/matrix/program.go that it asks: which models may    *)
(* run together, and what to stop when one more is asked for.              *)
(*                                                                         *)
(* A configuration names sets of models that may run together, each by an  *)
(* expression: "a & (b | c)" allows {a, b} and {a, c}.  The planner picks,  *)
(* among all the sets the expressions allow, the one that holds the target *)
(* and evicts least.  It never expands the expressions: each node is       *)
(* evaluated to the few combinations that matter for the running models.   *)
(*                                                                         *)
(* A compiled program p is a record: p.nodes, the expression nodes, of     *)
(* kind "leaf" (model), "ref" (set), "and", "or" (kids, a sequence of      *)
(* nodes); p.root, the node of each set; p.order, the sets in the order    *)
(* they are tried.  Before compilation p.defs is the order of definition.  *)
(*                                                                         *)
(* The planner remembers its last decision.  The models it is asked about  *)
(* are those that run; a request makes its model run once the evictions    *)
(* are done, and processes exit.                                           *)
(***************************************************************************)
EXTENDS Naturals, Sequences, SequencesExt

CONSTANTS
  Models,     \* model IDs
  Programs,   \* bound: the programs considered
  CostTables, \* bound: the evict_costs considered, 1 for models not listed
  None

MatrixAssumption == CostTables \subseteq [Models -> Nat \ {0}]

-----------------------------------------------------------------------------
(* Compile *)

\* The sets that an expression refers to, in order of appearance
RefsOf(p) ==
  LET R[n \in DOMAIN p.nodes] ==
        CASE p.nodes[n].kind = "ref"  -> <<p.nodes[n].set>>
          [] p.nodes[n].kind = "leaf" -> <<>>
          [] OTHER -> FlattenSeq([i \in DOMAIN p.nodes[n].kids |-> R[p.nodes[n].kids[i]]])
  IN R

Refs(p, set) == RefsOf(p)[p.root[set]]

\* visit: the order so far, then what the set refers to, then the set
VisitAll(visit, order, names) == FoldLeft(LAMBDA o, name : visit[<<name, o>>], order, names)

Visit(p) ==
  LET V[v \in (DOMAIN p.root) \X Seq(DOMAIN p.root)] ==
        IF Contains(v[2], v[1]) THEN v[2]
        ELSE Append(VisitAll(V, v[2], Refs(p, v[1])), v[1])
  IN V

\* topologicalOrder: depth first over the references, in definition order
TopologicalOrder(p) == VisitAll(Visit(p), <<>>, p.defs)

Compile(p) == [nodes |-> p.nodes, root |-> p.root, order |-> TopologicalOrder(p)]

\* computeSupport: the models that occur in an expression
Collect(p) ==
  LET S[n \in DOMAIN p.nodes] ==
        CASE p.nodes[n].kind = "leaf" -> {p.nodes[n].model}
          [] p.nodes[n].kind = "ref"  -> S[p.root[p.nodes[n].set]]
          [] OTHER -> UNION {S[k] : k \in ToSet(p.nodes[n].kids)}
  IN S

Support(p, set) == Collect(p)[p.root[set]]

-----------------------------------------------------------------------------
(* Evaluation, projected onto the relevant models *)

\* the states that are not gone, in their order
Kept(states, gone) ==
  FoldLeft(LAMBDA kept, s : IF s \in gone THEN kept ELSE Append(kept, s), <<>>, states)

\* (variation: the smaller combination wins)
AddToFrontierSmaller(states, candidate) ==
  IF \E s \in ToSet(states) : s.mask \subseteq candidate.mask THEN states
  ELSE Append(Kept(states, {s \in ToSet(states) : candidate.mask \subseteq s.mask}), candidate)

\* addToFrontier: a combination is dropped for one that keeps more running
AddToFrontier(states, candidate) ==
  IF \E s \in ToSet(states) : candidate.mask \subseteq s.mask THEN states
  ELSE Append(Kept(states, {s \in ToSet(states) : s.mask \subseteq candidate.mask}), candidate)

AddAll(states, candidates) == FoldLeft(AddToFrontier, states, candidates)

Join(left, right) == [mask |-> left.mask \cup right.mask, models |-> left.models \cup right.models]

JoinEach(left, rights) == [j \in DOMAIN rights |-> Join(left, rights[j])]

\* every combination of one state of each sequence
Combine(lefts, rights) ==
  FoldLeft(LAMBDA states, left : AddAll(states, JoinEach(left, rights)), <<>>, lefts)

\* evaluate, from the combinations of the operands: one of them, or one of each
EvaluateOr(operands) == FoldLeft(AddAll, <<>>, operands)

EvaluateAnd(operands) == FoldLeft(Combine, <<[mask |-> {}, models |-> {}]>>, operands)

\* evaluate: a node's combinations, with the whole set each stands for (witness)
Evaluate(p, relevant) ==
  LET E[n \in DOMAIN p.nodes] ==
        LET node == p.nodes[n] IN
        CASE node.kind = "leaf" ->
               <<[mask |-> {node.model} \cap relevant, models |-> {node.model}]>>
          [] node.kind = "ref" -> E[p.root[node.set]]
          [] node.kind = "or"  -> EvaluateOr([i \in DOMAIN node.kids |-> E[node.kids[i]]])
          [] node.kind = "and" -> EvaluateAnd([i \in DOMAIN node.kids |-> E[node.kids[i]]])
  IN E

\* CanContainAll, and the search of findContaining
CanContainAll(p, models) ==
  \/ models = {}
  \/ \E i \in DOMAIN p.order :
       /\ models \subseteq Support(p, p.order[i])
       /\ \E s \in ToSet(Evaluate(p, models)[p.root[p.order[i]]]) : models \subseteq s.mask

-----------------------------------------------------------------------------
(* Solve *)

EvictionCost(cost, evicted) == MapThenSumSet(LAMBDA m : cost[m], evicted)

\* the combinations that hold the target, in the order in which they are tried
Candidates(p, target, running) ==
  FlattenSeq([i \in DOMAIN p.order |->
    IF target \notin Support(p, p.order[i]) THEN <<>>
    ELSE LET states == Evaluate(p, running \cup {target})[p.root[p.order[i]]]
         IN  Kept(states, {s \in ToSet(states) : target \notin s.mask})])

\* Solve: the first of the cheapest combinations; if the target is in no set,
\* it runs alone
Solve(p, cost, target, running) ==
  LET states == Candidates(p, target, running)
      Cost(i) == EvictionCost(cost, running \ states[i].mask)
      best == CHOOSE i \in DOMAIN states :
                \A j \in DOMAIN states : Cost(i) < Cost(j) \/ (Cost(i) = Cost(j) /\ i <= j)
  IN CASE target \in running -> [evict |-> {}, set |-> running, cost |-> 0]
       [] target \notin running /\ states = <<>> -> [evict |-> running, set |-> {target}, cost |-> 0]
       [] OTHER -> [evict |-> running \ states[best].mask, set |-> states[best].models,
                    cost |-> Cost(best)]

-----------------------------------------------------------------------------
(* What the expressions mean: every set of models they allow. *)

\* one set of each operand, united
Products(operands) ==
  {UNION {f[i] : i \in DOMAIN operands} :
     f \in {g \in [DOMAIN operands -> UNION ToSet(operands)] :
              \A i \in DOMAIN operands : g[i] \in operands[i]}}

AllowedBy(p) ==
  LET A[n \in DOMAIN p.nodes] ==
        LET node == p.nodes[n] IN
        CASE node.kind = "leaf" -> {{node.model}}
          [] node.kind = "ref"  -> A[p.root[node.set]]
          [] node.kind = "or"   -> UNION {A[k] : k \in ToSet(node.kids)}
          [] node.kind = "and"  -> Products([i \in DOMAIN node.kids |-> A[node.kids[i]]])
  IN A

Allows(p, set) == AllowedBy(p)[p.root[set]]

AllowedSets(p) == UNION {Allows(p, set) : set \in DOMAIN p.root}

-----------------------------------------------------------------------------
(* The planner. *)

VARIABLES
  program, cost,   \* fixed by the configuration
  running,
  last             \* lastTarget, lastRunning, lastResult; None when ~lastValid

vars == <<program, cost, running, last>>

Init ==
  /\ program \in {Compile(p) : p \in Programs} /\ cost \in CostTables
  /\ running = {} /\ last = None

\* (variation: the cache is keyed by the target alone)
PlanByTarget(target) ==
  IF last # None /\ last.target = target THEN last
  ELSE [target |-> target, running |-> running, result |-> Solve(program, cost, target, running)]

\* solve: the cached decision if it is for the same target and running models
Plan(target) ==
  IF last # None /\ last.target = target /\ last.running = running THEN last
  ELSE [target |-> target, running |-> running, result |-> Solve(program, cost, target, running)]

\* EvictionFor, for a request that has to wait
EvictionFor(target) ==
  last' = Plan(target) /\ UNCHANGED <<program, cost, running>>

\* EvictionFor and OnSwapStart, for a swap that then takes place
OnSwapStart(target) ==
  /\ last' = Plan(target)
  /\ running' = (running \ last'.result.evict) \cup {target}
  /\ UNCHANGED <<program, cost>>

\* a process stops or fails
Exit(m) ==
  /\ m \in running /\ running' = running \ {m} /\ UNCHANGED <<program, cost, last>>

Next == \E m \in Models : EvictionFor(m) \/ OnSwapStart(m) \/ Exit(m)

Spec == Init /\ [][Next]_vars

-----------------------------------------------------------------------------
\* Every answer is a best one for the models that run when it is given: its set
\* is one the configuration allows, it evicts exactly what is not in that set,
\* and no allowed set with the target evicts more cheaply.  A target in no set
\* evicts everybody, a running one nobody.
Best(d, target) ==
  LET sets == {S \in AllowedSets(program) : target \in S} IN
  IF target \in running THEN d.evict = {}
  ELSE /\ d.evict = running \ d.set
       /\ IF sets = {} THEN d.set = {target}
          ELSE /\ d.set \in sets
               /\ \A S \in sets : EvictionCost(cost, d.evict) <= EvictionCost(cost, running \ S)

AnswersWell == \A m \in Models : EvictionFor(m) \/ OnSwapStart(m) => Best(last'.result, m)
AnswersBest == [][AnswersWell]_vars

\* Pruning loses no combination: CanContainAll agrees with the full expansion.
ContainsExact ==
  \A M \in SUBSET Models :
    CanContainAll(program, M) <=> M = {} \/ \E S \in AllowedSets(program) : M \subseteq S

\* What runs together is always part of one allowed set, or a model of no set
\* that runs alone.
OneSetRuns ==
  CanContainAll(program, running) \/ \E m \in Models : running = {m}
=============================================================================
