---------------------------- MODULE MCGroupRouter ----------------------------
(***************************************************************************)
(* The router with the group planner: a and b are the members of a swap    *)
(* group, c is alone in an exclusive one.                                  *)
(***************************************************************************)
EXTENDS FIFOScheduler, TLC

CONSTANTS a, b, c, r1, r2, r3, r4, swapGroup, otherGroup

G == INSTANCE GroupSwapper WITH
       GroupOf    <- [m \in {a, b, c} |-> IF m = c THEN otherGroup ELSE swapGroup],
       Swap       <- {swapGroup},
       Exclusive  <- {otherGroup},
       Persistent <- {}

GroupEvictionFor(target, running) == G!EvictionFor(target, running)

Three == {a, b, c}
Two   == {a, b}

\* two requests for one model and one for its rival
SameAndRival == (r1 :> a @@ r2 :> a @@ r3 :> b)
OneEach      == (r1 :> a @@ r2 :> b)
AllModels    == (r1 :> a @@ r2 :> a @@ r3 :> b @@ r4 :> c)

LimitOne == [m \in Models |-> 1]
LimitTwo == [m \in Models |-> 2]
CFirst   == [m \in Models |-> IF m = c THEN 1 ELSE 0]
Equal    == [m \in Models |-> 0]

UnloadA   == {{a}}
UnloadAny == {{a}, {a, b}}
Never     == {}
=============================================================================
