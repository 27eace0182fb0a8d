--------------------------- MODULE MCTaskProtocol ---------------------------
(* Instances of TaskProtocol for TLC: the agents are model values that are *)
(* interchangeable, so safety runs may identify states by permutation.     *)
EXTENDS TaskProtocol, TLC

AgentSymmetry == Permutations(Agents)
=============================================================================
