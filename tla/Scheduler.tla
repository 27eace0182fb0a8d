----------------------------- MODULE Scheduler ------------------------------
(***************************************************************************)
(* pkg/scheduler: the model that runs in each mutual exclusion group.      *)
(* Every operation is one critical section of Scheduler.mu, hence a        *)
(* function from one map runningByGroup to the next.                       *)
(***************************************************************************)
CONSTANTS
  Models,
  Groups,         \* mutual exclusion groups
  GroupOf,        \* the group of a model's policy, or NoGroup
  NoGroup,
  NoModel         \* no model of the group runs

ASSUME GroupsAreDistinct == NoGroup \notin Groups /\ NoModel \notin Models
ASSUME EveryModelHasPolicy == GroupOf \in [Models -> Groups \cup {NoGroup}]

Grouped(m) == GroupOf[m] # NoGroup

\* Nobody runs in any group (NewScheduler).
NobodyRuns == [g \in Groups |-> NoModel]

CanRun(running, m) == Grouped(m) => running[GroupOf[m]] \in {NoModel, m}

MarkRunning(running, m) ==
  [g \in Groups |-> IF g = GroupOf[m] THEN m ELSE running[g]]

MarkStopped(running, m) ==
  [g \in Groups |-> IF running[g] = m THEN NoModel ELSE running[g]]
=============================================================================
