----------------------------- MODULE TaskLedger -----------------------------
(***************************************************************************)
(* What the task table promises to its readers (the console, the runtime   *)
(* executor, the test runs), without saying how controller and agents      *)
(* arrange it:                                                             *)
(*                                                                         *)
(*   - a task is opened once and its status only moves forward; a terminal *)
(*     status is never replaced;                                           *)
(*   - a task delegated to an agent goes through every stage, its work is  *)
(*     run at most once, only while the record says "running", and it is   *)
(*     closed only after that run.                                         *)
(*                                                                         *)
(* Module TaskProtocol is shown to implement it.                           *)
(***************************************************************************)
EXTENDS Naturals

CONSTANT TaskIDs

VARIABLES
  status,      \* status[t], "absent" until the task is opened
  delegated,   \* the tasks assigned to an agent
  runs         \* how often an agent has carried out task t

vars == <<status, delegated, runs>>

Terminal == {"success", "failed", "timeout", "canceled"}

\* The order of the stages; every terminal status is last.
Stage(s) ==
  IF s = "absent" THEN 0
  ELSE IF s = "pending" THEN 1
  ELSE IF s = "dispatched" THEN 2
  ELSE IF s = "running" THEN 3
  ELSE 4

Statuses == {"absent", "pending", "dispatched", "running"} \cup Terminal

Init ==
  /\ status = [t \in TaskIDs |-> "absent"]
  /\ delegated = {}
  /\ runs = [t \in TaskIDs |-> 0]

Open(t) ==
  /\ status[t] = "absent"
  /\ status' = [status EXCEPT ![t] = "pending"]
  /\ delegated' \in {delegated, delegated \cup {t}}
  /\ UNCHANGED runs

\* The controller's own executor may skip stages, never go back.
Advance(t) ==
  /\ t \notin delegated
  /\ \E s \in Statuses :
       /\ status[t] # "absent"
       /\ Stage(status[t]) < Stage(s)
       /\ status' = [status EXCEPT ![t] = s]
  /\ UNCHANGED <<delegated, runs>>

Take(t) ==
  /\ t \in delegated
  /\ status[t] = "pending"
  /\ status' = [status EXCEPT ![t] = "dispatched"]
  /\ UNCHANGED <<delegated, runs>>

Begin(t) ==
  /\ t \in delegated
  /\ status[t] = "dispatched"
  /\ status' = [status EXCEPT ![t] = "running"]
  /\ UNCHANGED <<delegated, runs>>

Run(t) ==
  /\ t \in delegated
  /\ status[t] = "running"
  /\ runs[t] = 0
  /\ runs' = [runs EXCEPT ![t] = 1]
  /\ UNCHANGED <<status, delegated>>

Close(t) ==
  /\ t \in delegated
  /\ status[t] = "running"
  /\ runs[t] = 1
  /\ \E s \in {"success", "failed"} :
       status' = [status EXCEPT ![t] = s]
  /\ UNCHANGED <<delegated, runs>>

\* One controller step may open a task and take another; every step is one
\* of the following, for one task.
Next ==
  \E t \in TaskIDs :
    Open(t) \/ Advance(t) \/ Take(t) \/ Begin(t) \/ Run(t) \/ Close(t)

Spec == Init /\ [][Next]_vars
=============================================================================
