----------------------- MODULE MCMatrixRouter_proofs -----------------------
(***************************************************************************)
(* The properties of the run of MCMatrixRouter, and what stands behind     *)
(* them: whatever the program, the costs and the swaps in parallel, the    *)
(* router with the matrix planner keeps what is up within one set.         *)
(***************************************************************************)
EXTENDS MCMatrixRouter, FIFOScheduler_proofs

\* the models of the run

FourKnown == {a, b, c, d} \subseteq Models

-----------------------------------------------------------------------------
(* Programs of seven nodes.                                                *)

Rank == [n \in 1..7 |-> n]

\* a leaf, a reference or an operator, above what it is made of
Node(node, n, root) ==
  \/ \E m \in Models : node = Leaf(m)
  \/ \E s \in DOMAIN root : node = Ref(s) /\ root[s] < n
  \/ \E k \in {"and", "or"} : \E x, y \in 1..n - 1 : node = Op(k, x, y)

\* A pair of members is a sequence of them.
LEMMA PairTyped == \A S : \A x, y \in S : <<x, y>> \in Seq(S)
<1> SUFFICES ASSUME NEW S, NEW x \in S, NEW y \in S PROVE <<x, y>> \in Seq(S)
  OBVIOUS
<1>1. <<>> \in Seq(S)
  OBVIOUS
<1>2. <<x, y>> = Append(Append(<<>>, x), y)
  OBVIOUS
<1> QED
  BY <1>1, <1>2

\* Such a program has no circle: a node is above what it is made of.
LEMMA SevenNodes ==
  ASSUME NEW p, NEW q, p.nodes = q, DOMAIN q = 1..7,
         p.root \in [DOMAIN p.root -> 1..7],
         \A n \in 1..7 : Node(q[n], n, p.root)
  PROVE  Planner!WellRanked(p, Rank)
<1>1. Rank \in [1..7 -> 0..7] /\ \A n \in 1..7 : Rank[n] = n
  BY DEF Rank
<1>2. ASSUME NEW n \in 1..7
      PROVE  \/ q[n].kind = "leaf" /\ q[n].model \in Models
             \/ /\ q[n].kind = "ref" /\ q[n].set \in DOMAIN p.root
                /\ Rank[p.root[q[n].set]] < Rank[n]
             \/ /\ q[n].kind \in {"or", "and"} /\ q[n].kids \in Seq(1..7)
                /\ \A k \in Planner!ToSet(q[n].kids) : Rank[k] < Rank[n]
  <2>1. CASE \E m \in Models : q[n] = Leaf(m)
    BY <2>1 DEF Leaf
  <2>2. CASE \E s \in DOMAIN p.root : q[n] = Ref(s) /\ p.root[s] < n
    <3>1. PICK s \in DOMAIN p.root : q[n] = Ref(s) /\ p.root[s] < n
      BY <2>2
    <3>2. q[n].kind = "ref" /\ q[n].set = s
      BY <3>1 DEF Ref
    <3>3. Rank[p.root[s]] < Rank[n]
      BY <1>1, <3>1
    <3> QED
      BY <3>2, <3>3
  <2>3. CASE \E k \in {"and", "or"} : \E x, y \in 1..n - 1 : q[n] = Op(k, x, y)
    <3>1. PICK k \in {"and", "or"}, x \in 1..n - 1, y \in 1..n - 1 : q[n] = Op(k, x, y)
      BY <2>3
    <3>2. q[n].kind = k /\ q[n].kids = <<x, y>>
      BY <3>1 DEF Op
    <3>3. x \in 1..7 /\ y \in 1..7 /\ x < n /\ y < n
      OBVIOUS
    <3>4. <<x, y>> \in Seq(1..7)
      BY <3>3, PairTyped
    <3>5. Planner!ToSet(<<x, y>>) = {x, y}
      BY DEF Planner!ToSet
    <3>6. \A i \in Planner!ToSet(<<x, y>>) : Rank[i] < Rank[n]
      BY <1>1, <3>3, <3>5
    <3> QED
      BY <3>2, <3>4, <3>6
  <2> QED
    BY <2>1, <2>2, <2>3 DEF Node
<1> QED
  BY <1>1, <1>2 DEF Planner!WellRanked

\* A definition of each of two sets.
LEMMA TwoDefined ==
  ASSUME NEW S, NEW x, NEW y, S = {x, y}
  PROVE  <<x, y>> \in Seq(S) /\ Planner!ToSet(<<x, y>>) = S
<1>1. <<x, y>> \in Seq(S)
  BY PairTyped
<1>2. Planner!ToSet(<<x, y>>) = {x, y}
  BY DEF Planner!ToSet
<1> QED
  BY <1>1, <1>2

\* The planner's small programs are such programs.
LEMMA SmallProgramsMade ==
  ASSUME FourKnown, NEW p \in SmallPrograms
  PROVE  Planner!WellMade(p)
<1>1. PICK k1 \in {"and", "or"}, x1 \in {1}, y1 \in {2, 3},
           k2 \in {"and", "or"}, x2 \in 2..3, k3 \in {"and", "or"}, x3 \in 1..3 :
        p = [nodes |-> <<Leaf(a), Leaf(b), Leaf(c), Op(k1, x1, y1), Ref("s1"), Op(k2, x2, 5), Op(k3, 6, x3)>>,
             root  |-> [s \in {"s1", "s2"} |-> IF s = "s1" THEN 4 ELSE 7],
             defs  |-> <<"s2", "s1">>]
  BY DEF SmallPrograms
<1> DEFINE q == <<Leaf(a), Leaf(b), Leaf(c), Op(k1, x1, y1), Ref("s1"), Op(k2, x2, 5), Op(k3, 6, x3)>>
<1>2. p.nodes = q /\ p.defs = <<"s2", "s1">>
  BY <1>1
<1>3. /\ DOMAIN p.root = {"s1", "s2"} /\ p.root["s1"] = 4
      /\ p.root \in [DOMAIN p.root -> 1..7]
  BY <1>1
<1>4. /\ DOMAIN q = 1..7
      /\ q[1] = Leaf(a) /\ q[2] = Leaf(b) /\ q[3] = Leaf(c)
      /\ q[4] = Op(k1, x1, y1) /\ q[5] = Ref("s1") /\ q[6] = Op(k2, x2, 5) /\ q[7] = Op(k3, 6, x3)
  OBVIOUS
<1> HIDE DEF q
<1>5. \A n \in 1..7 : Node(q[n], n, p.root)
  <2>1. \A n \in {1, 2, 3} : Node(q[n], n, p.root)
    BY <1>4 DEF Node, FourKnown
  <2>2. Node(q[4], 4, p.root)
    <3>1. x1 \in 1..3 /\ y1 \in 1..3
      OBVIOUS
    <3> QED
      BY <1>4, <3>1 DEF Node
  <2>3. Node(q[5], 5, p.root)
    BY <1>3, <1>4 DEF Node
  <2>4. Node(q[6], 6, p.root)
    <3>1. x2 \in 1..5 /\ 5 \in 1..5
      OBVIOUS
    <3> QED
      BY <1>4, <3>1 DEF Node
  <2>5. Node(q[7], 7, p.root)
    <3>1. 6 \in 1..6 /\ x3 \in 1..6
      OBVIOUS
    <3> QED
      BY <1>4, <3>1 DEF Node
  <2>6. \A n \in 1..7 : n \in {1, 2, 3} \/ n = 4 \/ n = 5 \/ n = 6 \/ n = 7
    OBVIOUS
  <2> QED
    BY <2>1, <2>2, <2>3, <2>4, <2>5, <2>6
<1>6. Planner!WellRanked(p, Rank)
  BY <1>2, <1>3, <1>4, <1>5, SevenNodes
<1>7. p.defs \in Seq(DOMAIN p.root) /\ Planner!ToSet(p.defs) = DOMAIN p.root
  <2>1. DOMAIN p.root = {"s2", "s1"}
    BY <1>3
  <2> QED
    BY <1>2, <2>1, TwoDefined
<1> QED
  BY <1>6, <1>7 DEF Planner!WellMade

\* So the theorems of MatrixSwapper_proofs apply.
LEMMA PlannerConfigured == FourKnown => Planner!Configured
<1>1. Planner!MatrixAssumption
  BY DEF Planner!MatrixAssumption, OnesAndATwo
<1> QED
  BY <1>1, SmallProgramsMade DEF Planner!Configured

-----------------------------------------------------------------------------
(* The planner on its own.                                                 *)

\* the planner's invariant, while it moves
PlannerPart == program = None \/ Planner!PlannerInv

\* The planner's invariant holds at first ...
LEMMA PlannerPartInit ==
  ASSUME FourKnown
  PROVE  PlannerOrRouterInit => PlannerPart
BY PlannerConfigured, Planner!PlannerInvInit DEF PlannerOrRouterInit, PlannerPart

\* ... and after every step, of the planner or of the router.
LEMMA PlannerPartStep == PlannerPart /\ [PlannerOrRouterNext]_<<vars, plannerVars>> => PlannerPart'
<1> SUFFICES ASSUME PlannerPart, [PlannerOrRouterNext]_<<vars, plannerVars>> PROVE PlannerPart'
  OBVIOUS
<1>1. CASE program = None /\ UNCHANGED plannerVars
  BY <1>1 DEF PlannerPart, plannerVars
<1>2. CASE program # None /\ [Planner!Next]_(Planner!vars)
  BY <1>2, Planner!PlannerInvStep DEF PlannerPart
<1>3. UNCHANGED plannerVars => UNCHANGED Planner!vars
  BY DEF plannerVars, Planner!vars
<1> QED
  BY <1>1, <1>2, <1>3 DEF PlannerOrRouterNext, plannerVars

\* Pruning loses no combination.
THEOREM ContainsExactHolds ==
  ASSUME FourKnown
  PROVE  PlannerOrRouter => []ContainsExact
<1>1. PlannerPart => ContainsExact
  BY Planner!ContainsExactIs DEF PlannerPart, ContainsExact
<1> QED
  BY <1>1, PlannerPartInit, PlannerPartStep, PTL DEF PlannerOrRouter

\* Every answer of the planner is a best one.
THEOREM AnswersBestHolds ==
  ASSUME FourKnown
  PROVE  PlannerOrRouter => AnswersBest
<1>1. PlannerPart /\ [PlannerOrRouterNext]_<<vars, plannerVars>>
        => [program # None => Planner!AnswersWell]_plannerVars
  <2> SUFFICES ASSUME PlannerPart, PlannerOrRouterNext, program # None PROVE Planner!AnswersWell
    BY DEF plannerVars
  <2>1. Planner!PlannerInv /\ Planner!Next
    BY DEF PlannerPart, PlannerOrRouterNext
  <2> QED
    BY <2>1, Planner!AnswersWellStep
<1> QED
  BY <1>1, PlannerPartInit, PlannerPartStep, PTL DEF PlannerOrRouter, AnswersBest
-----------------------------------------------------------------------------
(* The router with it.                                                     *)

\* The planner of the router is Solve, for one program and one table of costs.
PlansBy(p, costs) ==
  \A t \in Models : \A R \in SUBSET Models :
    PlannedEvictions(t, R) = Planner!Solve(p, costs, t, R).evict

\* Solve answers from the family of the allowed sets.
LEMMA SolveIsSetPlanner ==
  ASSUME NEW p, Planner!Compiled(p), NEW costs \in [Models -> Nat], IsFiniteSet(Models), PlansBy(p, costs)
  PROVE  SetPlanner(Planner!AllowedSets(p))
<1> SUFFICES ASSUME NEW t \in Models, NEW R \in SUBSET Models
             PROVE  IF t \in R THEN PlannedEvictions(t, R) = {}
                    ELSE \/ PlannedEvictions(t, R) = R
                         \/ \E S \in Planner!AllowedSets(p) : t \in S /\ PlannedEvictions(t, R) = R \ S
  BY DEF SetPlanner
<1> DEFINE answer == Planner!Solve(p, costs, t, R)
           sets == {S \in Planner!AllowedSets(p) : t \in S}
<1>1. Planner!Priced(costs, R)
  <2>1. IsFiniteSet(R) /\ \A m \in R : costs[m] \in Nat
    BY FS_Subset
  <2>2. Planner!IsFiniteSet(R)
    BY <2>1 DEF IsFiniteSet, Planner!IsFiniteSet
  <2> QED
    BY <2>1, <2>2 DEF Planner!Priced
<1>2. Planner!IsBest(answer, p, costs, t, R)
  BY <1>1, Planner!SolveIsBest
<1>3. PlannedEvictions(t, R) = answer.evict
  BY DEF PlansBy
<1> HIDE DEF answer
<1>4. CASE t \in R
  BY <1>2, <1>3, <1>4 DEF Planner!IsBest
<1>5. CASE t \notin R /\ sets = {}
  <2>1. answer.evict = R \ answer.set /\ answer.set = {t}
    BY <1>2, <1>5 DEF Planner!IsBest
  <2>2. answer.evict = R
    BY <1>5, <2>1
  <2> QED
    BY <1>3, <1>5, <2>2
<1>6. CASE t \notin R /\ sets # {}
  <2>1. answer.evict = R \ answer.set /\ answer.set \in sets
    BY <1>2, <1>6 DEF Planner!IsBest
  <2> QED
    BY <1>3, <1>6, <2>1
<1> QED
  BY <1>4, <1>5, <1>6

\* what is up may run together, or it is one model
UpFits(p) == Planner!CanContainAll(p, UpModels) \/ \E m \in Models : UpModels \subseteq {m}

\* A router that plans by Solve keeps what is up in one of them.
LEMMA RouterKeepsSets ==
  ASSUME NEW p, Planner!Compiled(p), NEW costs \in [Models -> Nat], PlansBy(p, costs),
         IsFiniteSet(Models), Models # {}
  PROVE  /\ Closed(FitsOneSet(Planner!AllowedSets(p)))
         /\ PlannerKeeps(FitsOneSet(Planner!AllowedSets(p)))
         /\ UpModels \in FitsOneSet(Planner!AllowedSets(p)) => UpFits(p)
<1> DEFINE Sets == Planner!AllowedSets(p)
<1>1. SetPlanner(Sets)
  BY SolveIsSetPlanner
<1>2. Closed(FitsOneSet(Sets)) /\ PlannerKeeps(FitsOneSet(Sets))
  BY <1>1, SetPlannerKeeps
<1>3. UpModels \in FitsOneSet(Sets) => UpFits(p)
  <2>1. UpModels \in SUBSET Models
    BY DEF UpModels
  <2> QED
    BY <2>1, Planner!CanContainAllIs DEF FitsOneSet, UpFits
<1> QED
  BY <1>2, <1>3

\* Whatever swaps run in parallel, and for every program, what is up may run
\* together, or it is one model.
THEOREM MatrixRouterKeepsSets ==
  ASSUME NEW CONSTANT p, Planner!Compiled(p), NEW CONSTANT costs \in [Models -> Nat],
         PlansBy(p, costs), IsFiniteSet(Models), Models # {}, NoUnload
  PROVE  Spec => []UpFits(p)
<1> DEFINE Allowed == FitsOneSet(Planner!AllowedSets(p))
<1>1. Closed(Allowed) /\ PlannerKeeps(Allowed) /\ (UpModels \in Allowed => UpFits(p))
  BY RouterKeepsSets
<1> HIDE DEF Allowed
<1>2. Init => Outcomes(Allowed)
  BY <1>1, OutcomesInit
<1>3. Base /\ Guarded /\ Outcomes(Allowed) /\ [Next]_vars => Outcomes(Allowed)'
  BY <1>1, OutcomesStep
<1>4. Outcomes(Allowed) => UpFits(p)
  BY <1>1, OutcomesUp
<1> QED
  BY <1>2, <1>3, <1>4, InitBase, BaseStep, InitGuarded, GuardedStep, PTL DEF Spec

-----------------------------------------------------------------------------
(* Its program: a & (b | c) and c & d.                                     *)

\* The program of the run has no circle, and its compilation lists both sets.
LEMMA ProgramMade ==
  ASSUME FourKnown
  PROVE  /\ Planner!WellRanked(Program, Rank) /\ Planner!Compiled(Program)
         /\ Program.nodes = <<Leaf(a), Leaf(b), Leaf(c), Leaf(d),
                              Op("or", 2, 3), Op("and", 1, 5), Op("and", 3, 4)>>
         /\ Program.root = [s \in {"first", "second"} |-> IF s = "first" THEN 6 ELSE 7]
<1> DEFINE q == <<Leaf(a), Leaf(b), Leaf(c), Leaf(d), Op("or", 2, 3), Op("and", 1, 5), Op("and", 3, 4)>>
           root == [s \in {"first", "second"} |-> IF s = "first" THEN 6 ELSE 7]
           p == [nodes |-> q, root |-> root, defs |-> <<"first", "second">>]
<1>1. /\ DOMAIN q = 1..7
      /\ q[1] = Leaf(a) /\ q[2] = Leaf(b) /\ q[3] = Leaf(c) /\ q[4] = Leaf(d)
      /\ q[5] = Op("or", 2, 3) /\ q[6] = Op("and", 1, 5) /\ q[7] = Op("and", 3, 4)
  OBVIOUS
<1>2. DOMAIN root = {"first", "second"} /\ root \in [DOMAIN root -> 1..7]
  OBVIOUS
<1>3. Program = Planner!Compile(p)
  BY DEF Program
<1> HIDE DEF q, root
<1>4. p.nodes = q /\ p.root = root /\ p.defs = <<"first", "second">>
  OBVIOUS
<1> HIDE DEF p
<1>5. \A n \in 1..7 : Node(q[n], n, root)
  <2>1. \A n \in {1, 2, 3, 4} : Node(q[n], n, root)
    BY <1>1 DEF Node, FourKnown
  <2>2. Node(q[5], 5, root) /\ Node(q[6], 6, root) /\ Node(q[7], 7, root)
    BY <1>1 DEF Node
  <2>3. \A n \in 1..7 : n \in {1, 2, 3, 4} \/ n = 5 \/ n = 6 \/ n = 7
    OBVIOUS
  <2> QED
    BY <2>1, <2>2, <2>3
<1>6. Planner!WellRanked(p, Rank)
  BY <1>1, <1>2, <1>4, <1>5, SevenNodes
<1>7. Planner!WellMade(p)
  <2>1. p.defs \in Seq(DOMAIN p.root) /\ Planner!ToSet(p.defs) = DOMAIN p.root
    BY <1>2, <1>4, TwoDefined
  <2> QED
    BY <1>6, <2>1 DEF Planner!WellMade
<1>8. Program.nodes = q /\ Program.root = root
  BY <1>3, <1>4 DEF Planner!Compile
<1>9. Planner!WellRanked(Program, Rank)
  BY <1>4, <1>6, <1>8 DEF Planner!WellRanked
<1>10. Planner!Compiled(Program)
  BY <1>3, <1>7, Planner!CompileIs
<1> QED
  BY <1>8, <1>9, <1>10 DEF q, root

\* A set of each of two operands, united, is one of their "and".
LEMMA ProductOfTwo ==
  \A X, Y : \A x \in X, y \in Y : x \cup y \in Planner!Products(<<X, Y>>)
<1> SUFFICES ASSUME NEW X, NEW Y, NEW x \in X, NEW y \in Y PROVE x \cup y \in Planner!Products(<<X, Y>>)
  OBVIOUS
<1> DEFINE f == [i \in 1..2 |-> IF i = 1 THEN x ELSE y]
           ops == <<X, Y>>
<1>1. DOMAIN ops = 1..2 /\ ops[1] = X /\ ops[2] = Y
  OBVIOUS
<1>2. Planner!ToSet(ops) = {X, Y}
  BY DEF Planner!ToSet
<1> HIDE DEF ops
<1>3. f \in [DOMAIN ops -> UNION Planner!ToSet(ops)] /\ \A i \in DOMAIN ops : f[i] \in ops[i]
  BY <1>1, <1>2
<1>4. UNION {f[i] : i \in DOMAIN ops} = x \cup y
  <2>1. {f[i] : i \in DOMAIN ops} = {x, y}
    BY <1>1
  <2> QED
    BY <2>1
<1> HIDE DEF f
<1>5. x \cup y \in Planner!Products(ops)
  BY <1>3, <1>4 DEF Planner!Products
<1> QED
  BY <1>5 DEF ops

\* Every model is in one of the sets.
LEMMA ProgramAllows ==
  ASSUME FourKnown, NEW m \in {a, b, c, d}
  PROVE  \E S \in Planner!AllowedSets(Program) : m \in S
<1> DEFINE q == <<Leaf(a), Leaf(b), Leaf(c), Leaf(d), Op("or", 2, 3), Op("and", 1, 5), Op("and", 3, 4)>>
           A == Planner!AllowedBy(Program)
<1>1. Program.nodes = q /\ Planner!WellRanked(Program, Rank)
  BY ProgramMade
<1>2. /\ DOMAIN Program.root = {"first", "second"}
      /\ Program.root["first"] = 6 /\ Program.root["second"] = 7
  BY ProgramMade
<1>3. /\ DOMAIN q = 1..7
      /\ q[1] = Leaf(a) /\ q[2] = Leaf(b) /\ q[3] = Leaf(c) /\ q[4] = Leaf(d)
      /\ q[5] = Op("or", 2, 3) /\ q[6] = Op("and", 1, 5) /\ q[7] = Op("and", 3, 4)
  OBVIOUS
<1> HIDE DEF q, A
<1>4. \A n \in 1..7 : A[n] = Planner!AllowsStep(Program, A, n)
  BY <1>1, <1>3, Planner!AllowedByIs DEF A
<1>5. A[1] = {{a}} /\ A[2] = {{b}} /\ A[3] = {{c}} /\ A[4] = {{d}}
  <2>1. ASSUME NEW n \in 1..7, NEW k, q[n] = Leaf(k) PROVE A[n] = {{k}}
    <3>1. Program.nodes[n].kind = "leaf" /\ Program.nodes[n].model = k
      BY <1>1, <2>1 DEF Leaf
    <3>2. A[n] = {{Program.nodes[n].model}}
      BY <1>4, <3>1 DEF Planner!AllowsStep
    <3> QED
      BY <3>1, <3>2
  <2> QED
    BY <1>3, <2>1
<1>6. \A n \in 1..7 : \A x, y : q[n] = Op("and", x, y) => A[n] = Planner!Products(<<A[x], A[y]>>)
  <2> SUFFICES ASSUME NEW n \in 1..7, NEW x, NEW y, q[n] = Op("and", x, y)
               PROVE  A[n] = Planner!Products(<<A[x], A[y]>>)
    OBVIOUS
  <2> DEFINE kids == <<x, y>>
  <2>1. q[n].kind = "and" /\ q[n].kids = kids
    BY DEF Op
  <2>2. [i \in DOMAIN kids |-> A[kids[i]]] = <<A[x], A[y]>>
    OBVIOUS
  <2> HIDE DEF kids
  <2>3. A[n] = Planner!Products([i \in DOMAIN kids |-> A[kids[i]]])
    BY <1>1, <1>4, <2>1 DEF Planner!AllowsStep
  <2> QED
    BY <2>2, <2>3
<1>7. {b} \in A[5]
  <2>1. Program.nodes[5].kind = "or" /\ Program.nodes[5].kids = <<2, 3>>
    BY <1>1, <1>3 DEF Op
  <2>2. A[5] = UNION {A[k] : k \in Planner!ToSet(Program.nodes[5].kids)}
    <3>1. A[5] = Planner!AllowsStep(Program, A, 5)
      BY <1>4
    <3>2. Program.nodes[5].kind # "leaf" /\ Program.nodes[5].kind # "ref" /\ Program.nodes[5].kind # "and"
      BY <2>1
    <3> QED
      BY <2>1, <3>1, <3>2 DEF Planner!AllowsStep
  <2>3. Planner!ToSet(<<2, 3>>) = {2, 3}
    BY DEF Planner!ToSet
  <2>4. A[2] \in {A[k] : k \in {2, 3}}
    OBVIOUS
  <2> QED
    BY <1>5, <2>1, <2>2, <2>3, <2>4
<1>8. {a} \cup {b} \in A[6] /\ {c} \cup {d} \in A[7]
  <2>1. A[6] = Planner!Products(<<A[1], A[5]>>) /\ A[7] = Planner!Products(<<A[3], A[4]>>)
    BY <1>3, <1>6
  <2>2. {a} \in A[1] /\ {c} \in A[3] /\ {d} \in A[4]
    BY <1>5
  <2> QED
    BY <1>7, <2>1, <2>2, ProductOfTwo
<1>9. {a} \cup {b} \in Planner!AllowedSets(Program) /\ {c} \cup {d} \in Planner!AllowedSets(Program)
  BY <1>2, <1>8 DEF Planner!AllowedSets, Planner!Allows, A
<1>10. m \in {a} \cup {b} \/ m \in {c} \cup {d}
  OBVIOUS
<1> QED
  BY <1>9, <1>10

\* What the run gives the constants that matter here.
MatrixRouter ==
  /\ Models = {a, b, c, d} /\ NoUnload
  /\ \A t \in Models : \A R \in SUBSET Models : PlannedEvictions(t, R) = MatrixEvictionFor(t, R)

\* In the run, where every model is in a set: what is up is part of one of its
\* sets, while swaps run in parallel.
THEOREM OneSetUpHolds ==
  ASSUME MatrixRouter
  PROVE  PlannerOrRouter => []OneSetUp
<1>1. FourKnown /\ IsFiniteSet(Models) /\ Models # {}
  <2>1. IsFiniteSet({a, b, c, d})
    <3>1. IsFiniteSet({a}) /\ IsFiniteSet({b}) /\ IsFiniteSet({c}) /\ IsFiniteSet({d})
      BY FS_Singleton
    <3>2. IsFiniteSet({a} \cup {b}) /\ IsFiniteSet({c} \cup {d})
      BY <3>1, FS_Union
    <3>3. IsFiniteSet(({a} \cup {b}) \cup ({c} \cup {d}))
      BY <3>2, FS_Union
    <3>4. {a, b, c, d} = ({a} \cup {b}) \cup ({c} \cup {d})
      OBVIOUS
    <3> QED
      BY <3>3, <3>4
  <2> QED
    BY <2>1 DEF FourKnown, MatrixRouter
<1>2. Planner!Compiled(Program) /\ CostOne \in [Models -> Nat]
  BY <1>1, ProgramMade DEF CostOne
<1>3. PlansBy(Program, CostOne)
  BY DEF PlansBy, MatrixRouter, MatrixEvictionFor, MatrixPlan
<1> DEFINE Fits == UpFits(Program)
<1> DEFINE Allowed == FitsOneSet(Planner!AllowedSets(Program))
<1>4. Closed(Allowed) /\ PlannerKeeps(Allowed) /\ (UpModels \in Allowed => Fits)
  BY <1>1, <1>2, <1>3, RouterKeepsSets
<1>5. Fits => {m \in Models : Up(m)} \in MayRun
  <2> SUFFICES ASSUME Fits PROVE UpModels \in MayRun
    BY DEF UpModels
  <2>1. UpModels \in SUBSET Models
    BY DEF UpModels
  <2>2. ASSUME NEW m \in Models, UpModels \subseteq {m} PROVE Planner!CanContainAll(Program, UpModels)
    <3>1. \E S \in Planner!AllowedSets(Program) : m \in S
      BY <1>1, ProgramAllows DEF MatrixRouter
    <3>2. \E S \in Planner!AllowedSets(Program) : UpModels \subseteq S
      BY <2>2, <3>1
    <3> QED
      BY <1>2, <2>1, <3>2, Planner!CanContainAllIs
  <2> QED
    BY <2>1, <2>2 DEF MayRun, UpFits
<1> HIDE DEF Fits, Allowed
<1>9. Init => Outcomes(Allowed)
  BY <1>4, OutcomesInit
<1>10. Base /\ Guarded /\ Outcomes(Allowed) /\ [Next]_vars => Outcomes(Allowed)'
  BY <1>4, OutcomesStep DEF MatrixRouter
<1>11. Outcomes(Allowed) => Fits
  BY <1>4, OutcomesUp
<1>6. PlannerPart /\ Fits => OneSetUp
  BY <1>5 DEF PlannerPart, OneSetUp, Planner!PlannerInv
<1>7. PlannerOrRouterInit => Init /\ PlannerPart
  BY <1>1, PlannerPartInit DEF PlannerOrRouterInit
<1>8. [PlannerOrRouterNext]_<<vars, plannerVars>> => [Next]_vars
  BY DEF PlannerOrRouterNext
<1>12. Base /\ Guarded /\ [Next]_vars => Guarded'
  BY GuardedStep DEF MatrixRouter
<1> QED
  BY <1>6, <1>7, <1>8, <1>9, <1>10, <1>11, <1>12, InitBase, BaseStep, InitGuarded,
     PlannerPartStep, PTL DEF PlannerOrRouter

=============================================================================
