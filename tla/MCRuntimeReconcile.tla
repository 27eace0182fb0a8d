------------------------- MODULE MCRuntimeReconcile -------------------------
(* Instances of RuntimeReconcile for TLC.                                  *)
EXTENDS RuntimeReconcile, TLC

\* Two instances of one kind on one node with distinct ports.
OneNode == [i \in Instances |-> "n1"]
OneKind == [i \in Instances |-> "llama"]
OwnPorts == [i \in Instances |-> {i}]

\* Both kinds of rivals: 1 and 2 of one kind, 1 and 3 on one port.
TwoKinds == [i \in Instances |-> IF i = 3 THEN "tei" ELSE "llama"]
MixedPorts == [i \in Instances |-> {IF i = 2 THEN 8081 ELSE 8080}]

ClientSymmetry == Permutations(Clients)

\* What instances start in: stopped, running as desired, or not yet running.
Stopped == <<"stopped", "stopped">>
Running == <<"running", "running">>
Wanted == <<"running", "stopped">>

AllStopped == {[i \in Instances |-> Stopped]}
AllWanted == {[i \in Instances |-> Wanted]}

\* All of three want the slot, one has it, or one of the rivals has it and the
\* other one wants it.
SlotIsContested ==
  {<<Wanted, Wanted, Wanted>>, <<Running, Wanted, Wanted>>,
   <<Stopped, Running, Wanted>>}

\* What the loop may find out about the agent: nothing against it (it is online
\* and the instance was observed in the last two minutes), or one of the two.
AgentsUp == {{}}
AgentsMayFail == {{}, {"stale"}, {"offline"}}
=============================================================================
