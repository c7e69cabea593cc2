---------------------------- MODULE GroupSwapper ----------------------------
(***************************************************************************)
(* The default eviction planner, groupSwapper of internal/router/group.go: *)
(* which running models must stop before a target may start.               *)
(***************************************************************************)
CONSTANTS
  GroupOf,     \* the group of each model
  Swap,        \* groups with swap = true: one member at a time
  Exclusive,   \* groups whose models evict the other groups' ...
  Persistent   \* ... except the groups that are persistent

\* the switch of consider()
Evicts(target, other) ==
  /\ other # target
  /\ \/ GroupOf[other] = GroupOf[target] /\ GroupOf[target] \in Swap
     \/ /\ GroupOf[other] # GroupOf[target]
        /\ GroupOf[target] \in Exclusive
        /\ GroupOf[other] \notin Persistent

EvictionFor(target, running) == {m \in running : Evicts(target, m)}
=============================================================================
