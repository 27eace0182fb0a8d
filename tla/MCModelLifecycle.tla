-------------------------- MODULE MCModelLifecycle --------------------------
(* Instances of ModelLifecycle for TLC: one node, one exclusion group.     *)
EXTENDS ModelLifecycle, TLC

CONSTANTS m1, m2, n1, g1, c1, c2

OneNode == [m \in Models |-> n1]
OneGroup == [m \in Models |-> g1]

ModelAndClientSymmetry == Permutations(Models) \cup Permutations(Clients)
=============================================================================
