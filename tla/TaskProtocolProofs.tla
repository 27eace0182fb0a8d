------------------------- MODULE TaskProtocolProofs -------------------------
(***************************************************************************)
(* Theorems about TaskProtocol, for every number of agents and tasks and   *)
(* every bound on faults.                                                  *)
(*                                                                         *)
(* AtMostOneRun, SuccessIsEarned and TerminalIsFinal are not inductive: a  *)
(* handler writes back a row it read earlier, and nothing in the handler   *)
(* looks at the status it replaces.  The strengthening below says what     *)
(* makes that safe: per task at most one report is in flight; a report is  *)
(* in flight only in the one stage it may close; the row a handler holds   *)
(* is still the row of the table; and an agent that still holds the task   *)
(* is waiting for exactly that report.                                     *)
(***************************************************************************)
EXTENDS TaskProtocol, TLAPS

\* Rows appear in the order of their ids; agent rows pass through every stage
\* and runs counts the execution that separates "running" from the result.
RowOK(t) ==
  /\ tasks[t].status = "absent" <=> nextID <= t
  /\ nextID <= t => /\ tasks[t] = NoTask
                     /\ pc[t] = "none"
                     /\ sub[t] = NoID
                     /\ calls[t] = 0
  /\ tasks[t].agent = NoAgent => runs[t] = 0
  /\ tasks[t].agent # NoAgent =>
       /\ pc[t] = "none"
       /\ tasks[t].status \notin {"timeout", "canceled"}
       /\ tasks[t].status \in {"pending", "dispatched"} => runs[t] = 0
       /\ tasks[t].status = "running" => runs[t] \in {0, 1}
       /\ tasks[t].status \in {"success", "failed"} => runs[t] = 1

\* What an agent holds, by the place its loop is at.
HolderOK(a) ==
  IF apc[a] = "idle"
    THEN atask[a] = NoID
    ELSE /\ atask[a] \in TaskIDs
         /\ tasks[atask[a]].agent = a
         /\ apc[a] \in {"claimed", "waitRun"} =>
              tasks[atask[a]].status = "dispatched"
         /\ apc[a] = "execute" =>
              tasks[atask[a]].status = "running" /\ runs[atask[a]] = 0
         /\ apc[a] \in {"executed", "waitFinal"} =>
              tasks[atask[a]].status = "running" /\ runs[atask[a]] = 1
         /\ apc[a] = "executed" => aresult[a] # "none"

\* A report in flight: the stage it closes, the row its handler has read, and
\* its sender, who waits for it or has given the task up.
ReportOK(r) ==
  /\ tasks[r.task].agent = r.agent
  /\ r.status = "running" => tasks[r.task].status = "dispatched"
  /\ r.status # "running" => tasks[r.task].status = "running" /\ runs[r.task] = 1
  /\ r.phase = "read" => r.seen = tasks[r.task]
  /\ atask[r.agent] = r.task => Waiting(r)

OneReportPerTask == \A r1, r2 \in requests : r1.task = r2.task => r1 = r2

\* The goroutine of a runtime task and the row it owns.
ExecOK(p) ==
  /\ pc[p] # "none" =>
       /\ tasks[p].agent = NoAgent
       /\ tasks[p].type \in RuntimeTypes
       /\ tasks[p].path # "agent"
       /\ tasks[p].status \in {"pending", "dispatched", "running"}
       /\ pc[p] \in {"dispatch", "begin"} => tasks[p].status # "running"
       /\ pc[p] = "dispatch" => tasks[p].status = "pending"
  /\ pc[p] \in {"dispatch", "begin", "route", "await", "fallback"} => calls[p] = 0
  /\ pc[p] = "await" => sub[p] # NoID
  /\ pc[p] = "finish" <=> outcome[p] # "none"
  /\ outcome[p] = "agent" =>
       /\ calls[p] = 0
       /\ sub[p] # NoID
       /\ tasks[sub[p]].status = "success"
  /\ outcome[p] = "success" => calls[p] >= 1
  /\ sub[p] # NoID => tasks[sub[p]].agent # NoAgent

RowsOK    == \A t \in TaskIDs : RowOK(t)
HoldersOK == \A a \in Agents : HolderOK(a)
ReportsOK == \A r \in requests : ReportOK(r)
ExecsOK   == \A p \in TaskIDs : ExecOK(p)

\* The inductive invariant.
IInv ==
  /\ TypeOK
  /\ RowsOK
  /\ HoldersOK
  /\ ReportsOK
  /\ OneReportPerTask
  /\ ExecsOK
  /\ SuccessIsEarned

-----------------------------------------------------------------------------
\* The empty table satisfies the inductive invariant.
LEMMA InitIInv == Init => IInv
<1> SUFFICES ASSUME Init PROVE IInv
  OBVIOUS
<1>1. NoTask \in Task
  BY DEF NoTask, Task, Statuses, Terminal, Paths
<1>2. TypeOK
  BY <1>1, BoundsAreNat DEF Init, TypeOK, TaskIDs, ExecPC, AgentPC, Outcomes, NoID
<1>3. RowsOK
  BY DEF Init, RowsOK, RowOK, NoTask, TaskIDs
<1>4. HoldersOK /\ ReportsOK /\ OneReportPerTask
  BY DEF Init, HoldersOK, HolderOK, ReportsOK, OneReportPerTask
<1>5. ExecsOK
  BY DEF Init, ExecsOK, ExecOK, NoTask, NoID
<1>6. SuccessIsEarned
  BY DEF Init, SuccessIsEarned, NoTask
<1> QED
  BY <1>2, <1>3, <1>4, <1>5, <1>6 DEF IInv

-----------------------------------------------------------------------------
(* Frame lemmas: what each part of the invariant looks at.                 *)

\* RowOK of a task whose row and histories are left alone.
LEMMA RowFrame ==
  ASSUME NEW t \in TaskIDs, RowOK(t),
         tasks'[t] = tasks[t], pc'[t] = pc[t], sub'[t] = sub[t],
         calls'[t] = calls[t], runs'[t] = runs[t],
         nextID' = nextID \/ (nextID # t /\ nextID' = nextID + 1),
         nextID \in Nat
  PROVE  RowOK(t)'
BY DEF RowOK, NoTask, TaskIDs

\* HolderOK of an agent that does not move and whose task is left alone.
LEMMA HolderFrame ==
  ASSUME NEW a \in Agents, HolderOK(a),
         apc'[a] = apc[a], atask'[a] = atask[a], aresult'[a] = aresult[a],
         atask[a] \in TaskIDs =>
           tasks'[atask[a]] = tasks[atask[a]] /\ runs'[atask[a]] = runs[atask[a]]
  PROVE  HolderOK(a)'
BY DEF HolderOK

\* ReportOK of a report whose task is left alone and whose sender, if it still
\* holds the task, does not move.
LEMMA ReportFrame ==
  ASSUME NEW r \in requests, r \in Request, ReportOK(r),
         tasks'[r.task] = tasks[r.task], runs'[r.task] = runs[r.task],
         atask'[r.agent] = r.task =>
           atask[r.agent] = r.task /\ apc'[r.agent] = apc[r.agent]
  PROVE  ReportOK(r)'
BY DEF ReportOK, Waiting

\* ExecOK of a goroutine that does not move: its sub-task may only move on.
LEMMA ExecFrame ==
  ASSUME NEW p \in TaskIDs, ExecOK(p),
         pc'[p] = pc[p], sub'[p] = sub[p], outcome'[p] = outcome[p], calls'[p] = calls[p],
         pc[p] # "none" => tasks'[p] = tasks[p],
         sub[p] # NoID =>
           /\ tasks'[sub[p]].agent = tasks[sub[p]].agent
           /\ tasks[sub[p]].status = "success" => tasks'[sub[p]].status = "success"
  PROVE  ExecOK(p)'
BY DEF ExecOK

\* SuccessIsEarned, one task at a time.
Earned(t) ==
  tasks[t].status = "success" =>
    IF IsAgentTask(t)
      THEN runs[t] = 1
      ELSE IF tasks[t].path = "agent"
             THEN /\ calls[t] = 0
                  /\ sub[t] # NoID
                  /\ tasks[sub[t]].status = "success"
                  /\ runs[sub[t]] = 1
             ELSE calls[t] >= 1

\* SuccessIsEarned is Earned of every task.
LEMMA EarnedAll == SuccessIsEarned <=> \A t \in TaskIDs : Earned(t)
BY DEF SuccessIsEarned, Earned

\* Earned of a task that does not become a success and whose sub-task keeps its own.
LEMMA EarnedFrame ==
  ASSUME NEW t \in TaskIDs, Earned(t),
         tasks'[t] = tasks[t] \/ tasks'[t].status # "success",
         sub'[t] = sub[t], calls'[t] = calls[t], runs'[t] = runs[t],
         sub[t] # NoID =>
           /\ tasks[sub[t]].status = "success" => tasks'[sub[t]].status = "success"
           /\ runs[sub[t]] = 1 => runs'[sub[t]] = 1
  PROVE  Earned(t)'
BY DEF Earned, IsAgentTask

-----------------------------------------------------------------------------
(* What a step shows to the reader of the table: the ledger moves by one of *)
(* its own steps or not at all, and terminal rows are final.                *)

statusOf == [t \in TaskIDs |-> tasks[t].status]
delegatedOf == {t \in TaskIDs : IsAgentTask(t)}

RowsFinal ==
  \A t \in TaskIDs : tasks[t].status \in Terminal => tasks'[t] = tasks[t]

Refines ==
  /\ Ledger!Next \/ (statusOf' = statusOf /\ delegatedOf' = delegatedOf /\ runs' = runs)
  /\ RowsFinal

\* What the ledger sees of a step that changes one row and keeps its assignee.
LEMMA OneRow ==
  ASSUME NEW t \in TaskIDs, tasks' \in [TaskIDs -> Task],
         tasks'[t].agent = tasks[t].agent,
         \A u \in TaskIDs : u # t => tasks'[u] = tasks[u]
  PROVE  /\ statusOf' = [statusOf EXCEPT ![t] = tasks'[t].status]
         /\ delegatedOf' = delegatedOf
BY DEF statusOf, delegatedOf, IsAgentTask

\* A step that changes no row and carries out no work is invisible.
LEMMA QuietRefines ==
  ASSUME tasks' = tasks, runs' = runs
  PROVE  Refines
BY DEF Refines, RowsFinal, statusOf, delegatedOf, IsAgentTask

-----------------------------------------------------------------------------
(* Creating rows.                                                          *)

\* A new row disturbs nothing: no agent, no report and no goroutine knows it.
LEMMA InsertFacts ==
  ASSUME IInv, NEW type \in RuntimeTypes \cup AgentTypes, NEW agent \in Agents \cup {NoAgent},
         InsertTask(type, agent)
  PROVE  /\ nextID \in TaskIDs
         /\ tasks[nextID] = NoTask /\ pc[nextID] = "none" /\ sub[nextID] = NoID
         /\ calls[nextID] = 0 /\ runs[nextID] = 0
         /\ tasks' \in [TaskIDs -> Task]
         /\ nextID' = nextID + 1
         /\ nextID' \in 1 .. MaxTasks + 1
         /\ tasks'[nextID] = NewTask(type, agent)
         /\ \A t \in TaskIDs : t # nextID => tasks'[t] = tasks[t]
         /\ \A a \in Agents : atask[a] # nextID
         /\ \A r \in requests : r.task # nextID
         /\ \A p \in TaskIDs : sub[p] # nextID
<1> USE DEF IInv, InsertTask
<1>1. /\ nextID \in TaskIDs
      /\ tasks[nextID] = NoTask /\ pc[nextID] = "none" /\ sub[nextID] = NoID
      /\ calls[nextID] = 0 /\ runs[nextID] = 0
  BY DEF RowsOK, RowOK, TaskIDs, NoTask
<1>2. NewTask(type, agent) \in Task
  BY DEF NewTask, Task, Statuses, Paths
<1>3. tasks' \in [TaskIDs -> Task]
  BY <1>1, <1>2 DEF TypeOK
<1>4. nextID' \in 1 .. MaxTasks + 1
  BY <1>1, BoundsAreNat DEF TaskIDs, TypeOK
<1>5. \A a \in Agents : atask[a] # nextID
  BY <1>1, NoAgentIsNone DEF HoldersOK, HolderOK, NoTask, TaskIDs, NoID
<1>6. \A r \in requests : r.task # nextID
  BY <1>1 DEF ReportsOK, ReportOK, NoTask
<1>7. \A p \in TaskIDs : sub[p] # nextID
  BY <1>1 DEF ExecsOK, ExecOK, NoTask, TaskIDs, NoID
<1> QED
  BY <1>1, <1>3, <1>4, <1>5, <1>6, <1>7 DEF TypeOK

\* Writing a new row opens a task of the ledger.
LEMMA OpenRefines ==
  ASSUME IInv, NEW type \in RuntimeTypes \cup AgentTypes, NEW agent \in Agents \cup {NoAgent},
         InsertTask(type, agent), runs' = runs
  PROVE  Refines
<1>1. PICK n \in TaskIDs : n = nextID
  BY InsertFacts
<1>2. /\ tasks[n] = NoTask /\ tasks' \in [TaskIDs -> Task]
      /\ tasks'[n] = NewTask(type, agent)
      /\ \A t \in TaskIDs : t # n => tasks'[t] = tasks[t]
  BY <1>1, InsertFacts
<1>3. RowsFinal
  BY <1>2 DEF RowsFinal, NoTask, Terminal
<1>4. statusOf[n] = "absent" /\ statusOf' = [statusOf EXCEPT ![n] = "pending"]
  <2>1. tasks[n].status = "absent" /\ tasks'[n].status = "pending"
    BY <1>2 DEF NoTask, NewTask
  <2>2. \A t \in TaskIDs : t # n => tasks'[t] = tasks[t]
    BY <1>2
  <2> QED
    BY <2>1, <2>2 DEF statusOf
<1>5. delegatedOf' \in {delegatedOf, delegatedOf \cup {n}}
  BY <1>2 DEF delegatedOf, IsAgentTask, NoTask, NewTask
<1>6. Ledger!Open(n)
  BY <1>4, <1>5 DEF Ledger!Open, statusOf, delegatedOf, IsAgentTask
<1> QED
  BY <1>3, <1>6 DEF Refines, Ledger!Next

\* A runtime task is created: its goroutine starts on a fresh row.
LEMMA CreateKeeps ==
  ASSUME IInv, NEW type \in RuntimeTypes, CreateRuntimeTask(type)
  PROVE  IInv' /\ Refines
<1> USE DEF IInv
<1>1. InsertTask(type, NoAgent)
  BY DEF CreateRuntimeTask
<1>2. /\ pc' = [pc EXCEPT ![nextID] = "dispatch"]
      /\ UNCHANGED <<sub, outcome, apc, atask, aresult, requests, runs, calls, hit, aFaults, cFaults>>
  BY DEF CreateRuntimeTask, agentVars, faultVars
<1>0. /\ nextID \in TaskIDs
      /\ tasks[nextID] = NoTask /\ pc[nextID] = "none" /\ sub[nextID] = NoID
      /\ calls[nextID] = 0 /\ runs[nextID] = 0
      /\ tasks' \in [TaskIDs -> Task]
      /\ nextID' = nextID + 1
      /\ nextID' \in 1 .. MaxTasks + 1
      /\ tasks'[nextID] = NewTask(type, NoAgent)
      /\ \A t \in TaskIDs : t # nextID => tasks'[t] = tasks[t]
      /\ \A a \in Agents : atask[a] # nextID
      /\ \A r \in requests : r.task # nextID
      /\ \A p \in TaskIDs : sub[p] # nextID
  BY <1>1, InsertFacts
<1>3. TypeOK'
  BY <1>0, <1>2 DEF TypeOK, ExecPC
<1>4. RowsOK'
  <2> SUFFICES ASSUME NEW t \in TaskIDs PROVE RowOK(t)'
    BY DEF RowsOK
  <2>1. CASE t = nextID
    BY <1>0, <1>2, <2>1 DEF TypeOK, RowOK, NewTask, TaskIDs
  <2>2. CASE t # nextID
    BY <1>0, <1>2, <2>2, RowFrame DEF TypeOK, RowsOK
  <2> QED
    BY <2>1, <2>2
<1>5. HoldersOK'
  BY <1>0, <1>2, HolderFrame DEF HoldersOK
<1>6. ReportsOK' /\ OneReportPerTask'
  BY <1>0, <1>2, ReportFrame DEF TypeOK, ReportsOK, OneReportPerTask, Request
<1>7. ExecsOK'
  <2> SUFFICES ASSUME NEW p \in TaskIDs PROVE ExecOK(p)'
    BY DEF ExecsOK
  <2>1. ExecOK(p) /\ (sub[p] # NoID => sub[p] \in TaskIDs)
    BY DEF ExecsOK, TypeOK
  <2>2. CASE p = nextID
    BY <1>0, <1>2, <2>1, <2>2 DEF TypeOK, ExecOK, NewTask
  <2>3. CASE p # nextID
    BY <1>0, <1>2, <2>1, <2>3, ExecFrame DEF TypeOK
  <2> QED
    BY <2>2, <2>3
<1>8. SuccessIsEarned'
  <2>1. \A t \in TaskIDs : Earned(t) /\ (sub[t] # NoID => sub[t] \in TaskIDs)
    BY EarnedAll DEF TypeOK
  <2>2. \A t \in TaskIDs : tasks'[t] = tasks[t] \/ tasks'[t].status # "success"
    BY <1>0 DEF NewTask
  <2>3. \A t \in TaskIDs : Earned(t)'
    BY <1>0, <1>2, <2>1, <2>2, EarnedFrame
  <2> QED
    BY <2>3 DEF SuccessIsEarned, Earned, IsAgentTask
<1>9. Refines
  BY <1>1, <1>2, OpenRefines
<1> QED
  BY <1>9, <1>3, <1>4, <1>5, <1>6, <1>7, <1>8

\* The same for a row written for an agent, together with a step of goroutine p
\* that makes no call (or, with p the new row, with no goroutine at all).
LEMMA InsertAgentRowKeeps ==
  ASSUME IInv, NEW type \in RuntimeTypes \cup AgentTypes, NEW agent \in Agents,
         InsertTask(type, agent), NEW p \in TaskIDs,
         p # nextID => tasks[p].agent = NoAgent,
         p = nextID => pc'[p] = "none" /\ sub'[p] = NoID,
         nextID <= p => pc'[p] = "none" /\ sub'[p] = NoID,
         pc' \in [TaskIDs -> ExecPC], sub' \in [TaskIDs -> TaskIDs \cup {NoID}],
         outcome' \in [TaskIDs -> Outcomes],
         \A q \in TaskIDs : q # p =>
           pc'[q] = pc[q] /\ sub'[q] = sub[q] /\ outcome'[q] = outcome[q],
         UNCHANGED <<agentVars, requests, runs, calls, faultVars>>,
         ExecOK(p)', Earned(p)'
  PROVE  IInv' /\ Refines
<1> USE DEF IInv
<1>2. UNCHANGED <<apc, atask, aresult, requests, runs, calls, hit, aFaults, cFaults>>
  BY DEF agentVars, faultVars
<1>0. /\ nextID \in TaskIDs
      /\ tasks[nextID] = NoTask /\ pc[nextID] = "none" /\ sub[nextID] = NoID
      /\ calls[nextID] = 0 /\ runs[nextID] = 0
      /\ tasks' \in [TaskIDs -> Task]
      /\ nextID' = nextID + 1
      /\ nextID' \in 1 .. MaxTasks + 1
      /\ tasks'[nextID] = NewTask(type, agent)
      /\ \A t \in TaskIDs : t # nextID => tasks'[t] = tasks[t]
      /\ \A a \in Agents : atask[a] # nextID
      /\ \A r \in requests : r.task # nextID
      /\ \A q \in TaskIDs : sub[q] # nextID
  BY InsertFacts
<1>3. TypeOK'
  BY <1>0, <1>2 DEF TypeOK
<1>4. RowsOK'
  <2> SUFFICES ASSUME NEW t \in TaskIDs PROVE RowOK(t)'
    BY DEF RowsOK
  <2>0. RowOK(t)
    BY DEF RowsOK
  <2>1. CASE t = nextID
    <3>1. pc'[t] = "none"
      BY <1>0, <2>1
    <3>2. tasks'[t] = NewTask(type, agent) /\ runs'[t] = 0
      BY <1>0, <1>2, <2>1
    <3> QED
      BY <1>0, <2>1, <3>1, <3>2 DEF RowOK, NewTask, TaskIDs
  <2>2. CASE t # nextID /\ t # p
    BY <1>0, <1>2, <2>0, <2>2, RowFrame DEF TypeOK
  <2>3. CASE t # nextID /\ t = p
    BY <1>0, <1>2, <2>0, <2>3 DEF TypeOK, RowOK, TaskIDs
  <2> QED
    BY <2>1, <2>2, <2>3
<1>5. HoldersOK'
  BY <1>0, <1>2, HolderFrame DEF HoldersOK
<1>6. ReportsOK' /\ OneReportPerTask'
  BY <1>0, <1>2, ReportFrame DEF TypeOK, ReportsOK, OneReportPerTask, Request
<1>7. ExecsOK'
  <2> SUFFICES ASSUME NEW q \in TaskIDs, q # p PROVE ExecOK(q)'
    BY DEF ExecsOK
  <2>1. ExecOK(q) /\ (sub[q] # NoID => sub[q] \in TaskIDs)
    BY DEF ExecsOK, TypeOK
  <2>2. pc[q] # "none" => q # nextID
    BY <1>0
  <2>3. calls'[q] = calls[q]
    BY <1>2
  <2> QED
    BY <1>0, <2>1, <2>2, <2>3, ExecFrame
<1>8. SuccessIsEarned'
  <2>1. \A t \in TaskIDs : Earned(t) /\ (sub[t] # NoID => sub[t] \in TaskIDs)
    BY EarnedAll DEF TypeOK
  <2>2. \A t \in TaskIDs : tasks'[t] = tasks[t] \/ tasks'[t].status # "success"
    BY <1>0 DEF NewTask
  <2>3. \A t \in TaskIDs : t # p => Earned(t)'
    BY <1>0, <1>2, <2>1, <2>2, EarnedFrame
  <2> QED
    BY <2>3 DEF SuccessIsEarned, Earned, IsAgentTask
<1>9. Refines
  BY <1>2, OpenRefines
<1> QED
  BY <1>9, <1>3, <1>4, <1>5, <1>6, <1>7, <1>8

\* A node-local agent task is created: no goroutine knows it.
LEMMA CreateAgentRowKeeps ==
  ASSUME IInv, NEW type \in AgentTypes, NEW a \in Agents, CreateAgentNodeTask(type, a)
  PROVE  IInv' /\ Refines
<1>1. InsertTask(type, a)
  BY DEF CreateAgentNodeTask
<1>2. /\ UNCHANGED <<agentVars, requests, runs, calls, faultVars>>
      /\ UNCHANGED <<pc, sub, outcome>>
  BY DEF CreateAgentNodeTask, execVars
<1>3. PICK n \in TaskIDs : n = nextID
  BY <1>1, InsertFacts
<1>4. /\ tasks'[n] = NewTask(type, a)
      /\ pc[n] = "none" /\ sub[n] = NoID /\ calls[n] = 0
  BY <1>1, <1>3, InsertFacts
<1>5. pc \in [TaskIDs -> ExecPC] /\ sub \in [TaskIDs -> TaskIDs \cup {NoID}]
      /\ outcome \in [TaskIDs -> Outcomes]
  BY DEF IInv, TypeOK
<1>6. ExecOK(n)
  BY DEF IInv, ExecsOK
<1>7. ExecOK(n)'
  BY <1>2, <1>4, <1>6 DEF ExecOK
<1>8. Earned(n)'
  BY <1>4 DEF Earned, NewTask
<1> QED
  BY <1>1, <1>2, <1>3, <1>4, <1>5, <1>7, <1>8, InsertAgentRowKeeps

-----------------------------------------------------------------------------
(* Steps of a goroutine.                                                   *)

\* A step that touches only the row and the variables of goroutine p.
GoroutineStep(p) ==
  /\ tasks' \in [TaskIDs -> Task]
  /\ tasks'[p].agent = NoAgent /\ tasks'[p].status # "absent"
  /\ pc' \in [TaskIDs -> ExecPC] /\ outcome' \in [TaskIDs -> Outcomes]
  /\ calls' \in [TaskIDs -> Nat]
  /\ \A q \in TaskIDs : q # p =>
       /\ tasks'[q] = tasks[q] /\ pc'[q] = pc[q]
       /\ outcome'[q] = outcome[q] /\ calls'[q] = calls[q]
  /\ UNCHANGED <<nextID, sub, apc, atask, aresult, requests, runs>>
  /\ hit' \subseteq TaskIDs /\ aFaults' \in Nat /\ cFaults' \in Nat

\* Such a step keeps the invariant if it keeps p's own part of it: nobody else
\* looks at p's row.
LEMMA GoroutineIInv ==
  ASSUME IInv, NEW p \in TaskIDs, pc[p] # "none", GoroutineStep(p),
         ExecOK(p)', Earned(p)'
  PROVE  IInv'
<1> USE DEF IInv, GoroutineStep
<1>1. UNCHANGED <<nextID, sub, apc, atask, aresult, requests, runs>>
  OBVIOUS
<1>2. tasks[p].agent = NoAgent
  BY DEF ExecsOK, ExecOK
<1>3. TypeOK'
  BY <1>1 DEF TypeOK
<1>4. RowsOK'
  <2> SUFFICES ASSUME NEW t \in TaskIDs PROVE RowOK(t)'
    BY DEF RowsOK
  <2>0. RowOK(t) /\ nextID \in Nat
    BY DEF RowsOK, TypeOK
  <2>1. CASE t = p
    BY <1>1, <1>2, <2>0, <2>1 DEF RowOK
  <2>2. CASE t # p
    BY <1>1, <2>0, <2>2, RowFrame
  <2> QED
    BY <2>1, <2>2
<1>5. HoldersOK'
  <2> SUFFICES ASSUME NEW a \in Agents PROVE HolderOK(a)'
    BY DEF HoldersOK
  <2>1. HolderOK(a) /\ (atask[a] \in TaskIDs => atask[a] # p)
    BY <1>2, NoAgentIsNone DEF HoldersOK, HolderOK, NoID, TaskIDs
  <2> QED
    BY <1>1, <2>1, HolderFrame
<1>6. ReportsOK' /\ OneReportPerTask'
  <2>1. \A r \in requests : r \in Request /\ ReportOK(r) /\ r.task \in TaskIDs
    BY DEF TypeOK, ReportsOK, Request
  <2>2. \A r \in requests : r.task # p
    BY <1>2, <2>1, NoAgentIsNone DEF ReportOK, Request
  <2>3. \A r \in requests : ReportOK(r)'
    BY <1>1, <2>1, <2>2, ReportFrame
  <2> QED
    BY <1>1, <2>3 DEF ReportsOK, OneReportPerTask
<1>7. \A q \in TaskIDs : sub[q] # NoID => sub[q] \in TaskIDs /\ sub[q] # p
  BY <1>2 DEF ExecsOK, ExecOK, TypeOK
<1>8. ExecsOK'
  <2> SUFFICES ASSUME NEW q \in TaskIDs, q # p PROVE ExecOK(q)'
    BY DEF ExecsOK
  <2>1. ExecOK(q) /\ sub'[q] = sub[q]
    BY <1>1 DEF ExecsOK
  <2> QED
    BY <1>7, <2>1, ExecFrame
<1>9. SuccessIsEarned'
  <2>1. \A t \in TaskIDs : Earned(t)
    BY EarnedAll
  <2>2. \A t \in TaskIDs : t # p => Earned(t)'
    BY <1>1, <1>7, <2>1, EarnedFrame
  <2> QED
    BY <2>2 DEF SuccessIsEarned, Earned, IsAgentTask
<1> QED
  BY <1>3, <1>4, <1>5, <1>6, <1>8, <1>9

\* What is known of goroutine p before any of its steps.
GoroutineState(p) ==
  /\ tasks \in [TaskIDs -> Task] /\ tasks[p] \in Task
  /\ tasks[p].agent = NoAgent /\ tasks[p].path # "agent"
  /\ tasks[p].type \in RuntimeTypes
  /\ tasks[p].status \in {"pending", "dispatched", "running"}
  /\ tasks[p].progress \in 0 .. 100
  /\ pc \in [TaskIDs -> ExecPC] /\ sub \in [TaskIDs -> TaskIDs \cup {NoID}]
  /\ outcome \in [TaskIDs -> Outcomes] /\ calls \in [TaskIDs -> Nat]
  /\ hit \subseteq TaskIDs /\ aFaults \in Nat /\ cFaults \in Nat
  /\ sub[p] # NoID => sub[p] \in TaskIDs /\ sub[p] # p

\* GoroutineState follows from the invariant while the goroutine runs.
LEMMA GoroutineFacts ==
  ASSUME IInv, NEW p \in TaskIDs, pc[p] # "none"
  PROVE  GoroutineState(p) /\ ExecOK(p)
<1>1. ExecOK(p)
  BY DEF IInv, ExecsOK
<1> QED
  BY <1>1 DEF IInv, TypeOK, ExecOK, Task, GoroutineState

\* A goroutine step that writes row (or loses the write), and one that does not.
LEMMA PatchStep ==
  ASSUME IInv, NEW p \in TaskIDs, pc[p] # "none", NEW row \in Task,
         row.agent = NoAgent, row.status # "absent", PatchTask(p, row),
         NEW next \in ExecPC, pc' = [pc EXCEPT ![p] = next],
         outcome' \in [TaskIDs -> Outcomes],
         \A q \in TaskIDs : q # p => outcome'[q] = outcome[q],
         UNCHANGED <<nextID, sub, apc, atask, aresult, requests, runs, calls>>
  PROVE  GoroutineStep(p) /\ tasks'[p] \in {tasks[p], row}
<1>1. GoroutineState(p)
  BY GoroutineFacts
<1>2. CASE tasks' = [tasks EXCEPT ![p] = row] /\ UNCHANGED faultVars
  BY <1>1, <1>2 DEF faultVars, GoroutineState, GoroutineStep
<1>3. CASE ControllerFault({p}) /\ UNCHANGED tasks
  BY <1>1, <1>3 DEF ControllerFault, GoroutineState, GoroutineStep
<1> QED
  BY <1>2, <1>3 DEF PatchTask

\* A goroutine step that writes no row.
LEMMA LocalStep ==
  ASSUME IInv, NEW p \in TaskIDs, pc[p] # "none",
         NEW next \in ExecPC, pc' = [pc EXCEPT ![p] = next],
         outcome' \in [TaskIDs -> Outcomes], calls' \in [TaskIDs -> Nat],
         \A q \in TaskIDs : q # p => outcome'[q] = outcome[q] /\ calls'[q] = calls[q],
         UNCHANGED <<tasks, nextID, sub, apc, atask, aresult, requests, runs,
                     hit, aFaults, cFaults>>
  PROVE  GoroutineStep(p)
<1>1. GoroutineState(p)
  BY GoroutineFacts
<1> QED
  BY <1>1 DEF GoroutineState, GoroutineStep

\* maxProgress stays in its range.
LEMMA Max2Progress ==
  ASSUME NEW m \in 0 .. 100, NEW n \in 0 .. 100
  PROVE  Max2(m, n) \in 0 .. 100
BY DEF Max2

\* A goroutine's write: the status stays or moves on, never out of a terminal one.
LEMMA AdvanceRefines ==
  ASSUME IInv, NEW p \in TaskIDs, GoroutineStep(p), pc[p] # "none",
         \/ tasks'[p].status = tasks[p].status
         \/ tasks'[p].status \in Terminal
         \/ tasks'[p].status = "running" /\ tasks[p].status \in {"pending", "dispatched"}
         \/ tasks'[p].status = "dispatched" /\ tasks[p].status = "pending"
  PROVE  Refines
<1>1. /\ tasks[p].agent = NoAgent
      /\ tasks[p].status \in {"pending", "dispatched", "running"}
  BY GoroutineFacts DEF GoroutineState
<1>2. /\ tasks' \in [TaskIDs -> Task] /\ tasks'[p].agent = NoAgent /\ runs' = runs
      /\ \A q \in TaskIDs : q # p => tasks'[q] = tasks[q]
      /\ tasks'[p].status \in Statuses
  BY DEF GoroutineStep, Task
<1>3. RowsFinal
  BY <1>1, <1>2 DEF RowsFinal, Terminal
<1>4. statusOf' = [statusOf EXCEPT ![p] = tasks'[p].status] /\ delegatedOf' = delegatedOf
  BY <1>1, <1>2, OneRow
<1>5. CASE tasks'[p].status = tasks[p].status
  <2>1. statusOf' = statusOf
    BY <1>4, <1>5 DEF statusOf
  <2> QED
    BY <1>2, <1>3, <1>4, <2>1 DEF Refines
<1>6. CASE tasks'[p].status # tasks[p].status
  <2>1. p \notin delegatedOf /\ statusOf[p] = tasks[p].status
    BY <1>1 DEF delegatedOf, IsAgentTask, statusOf
  <2>2. PICK s \in Statuses : s = tasks'[p].status
    BY <1>2
  <2>3. Ledger!Stage(statusOf[p]) < Ledger!Stage(s)
    BY <1>1, <1>6, <2>1, <2>2 DEF Ledger!Stage, Terminal
  <2>4. Ledger!Advance(p)
    BY <1>1, <1>2, <1>4, <2>1, <2>2, <2>3
    DEF Ledger!Advance, Ledger!Statuses, Ledger!Terminal, Statuses, Terminal, statusOf, delegatedOf
  <2> QED
    BY <1>3, <2>4 DEF Refines, Ledger!Next
<1> QED
  BY <1>5, <1>6

\* The goroutine marks its row dispatched.
LEMMA ExecDispatchKeeps ==
  ASSUME IInv, NEW p \in TaskIDs, ExecDispatch(p)
  PROVE  IInv' /\ Refines
<1>1. /\ pc[p] = "dispatch" /\ pc' = [pc EXCEPT ![p] = "begin"]
      /\ UNCHANGED <<nextID, sub, outcome, apc, atask, aresult, requests, runs, calls>>
  BY DEF ExecDispatch, agentVars
<1>2. GoroutineState(p) /\ ExecOK(p)
  BY <1>1, GoroutineFacts
<1> DEFINE row == [tasks[p] EXCEPT !.status = "dispatched", !.progress = Max2(@, 10)]
<1>3. /\ row \in Task /\ row.agent = NoAgent /\ row.status = "dispatched"
      /\ row.type = tasks[p].type /\ row.path = tasks[p].path
  <2>1. tasks[p].progress \in 0 .. 100 /\ 10 \in 0 .. 100
    BY <1>2 DEF GoroutineState
  <2>3. Max2(tasks[p].progress, 10) \in 0 .. 100
    BY <2>1, Max2Progress
  <2> HIDE DEF row
  <2>2. row = [tasks[p] EXCEPT !.status = "dispatched", !.progress = Max2(tasks[p].progress, 10)]
    BY DEF row
  <2> QED
    BY <1>2, <2>2, <2>3 DEF GoroutineState, Task, Statuses
<1>4. PatchTask(p, row)
  BY DEF ExecDispatch
<1> HIDE DEF row
<1>5. GoroutineStep(p) /\ tasks'[p] \in {tasks[p], row}
  BY <1>1, <1>2, <1>3, <1>4, PatchStep DEF GoroutineState, ExecPC
<1>6. ExecOK(p)'
  BY <1>1, <1>2, <1>3, <1>5 DEF GoroutineState, GoroutineStep, ExecOK
<1>7. Earned(p)'
  BY <1>2, <1>3, <1>5 DEF GoroutineState, Earned
<1>8. Refines
  BY <1>1, <1>2, <1>3, <1>5, AdvanceRefines DEF GoroutineState, ExecOK
<1> QED
  BY <1>1, <1>5, <1>6, <1>7, <1>8, GoroutineIInv

\* The goroutine marks its row running.
LEMMA ExecBeginKeeps ==
  ASSUME IInv, NEW p \in TaskIDs, ExecBegin(p)
  PROVE  IInv' /\ Refines
<1>1. /\ pc[p] = "begin" /\ pc' = [pc EXCEPT ![p] = "route"]
      /\ UNCHANGED <<nextID, sub, outcome, apc, atask, aresult, requests, runs, calls>>
  BY DEF ExecBegin, agentVars
<1>2. GoroutineState(p) /\ ExecOK(p)
  BY <1>1, GoroutineFacts
<1> DEFINE row == [tasks[p] EXCEPT !.status = "running", !.progress = Max2(@, 30)]
<1>3. /\ row \in Task /\ row.agent = NoAgent /\ row.status = "running"
      /\ row.type = tasks[p].type /\ row.path = tasks[p].path
  <2>1. tasks[p].progress \in 0 .. 100 /\ 30 \in 0 .. 100
    BY <1>2 DEF GoroutineState
  <2>2. Max2(tasks[p].progress, 30) \in 0 .. 100
    BY <2>1, Max2Progress
  <2> QED
    BY <1>2, <2>2 DEF GoroutineState, Task, Statuses
<1>4. PatchTask(p, row)
  BY DEF ExecBegin
<1> HIDE DEF row
<1>5. GoroutineStep(p) /\ tasks'[p] \in {tasks[p], row}
  BY <1>1, <1>2, <1>3, <1>4, PatchStep DEF GoroutineState, ExecPC
<1>6. ExecOK(p)'
  BY <1>1, <1>2, <1>3, <1>5 DEF GoroutineState, GoroutineStep, ExecOK
<1>7. Earned(p)'
  BY <1>2, <1>3, <1>5 DEF GoroutineState, Earned
<1>8. Refines
  BY <1>1, <1>2, <1>3, <1>5, AdvanceRefines DEF GoroutineState, ExecOK
<1> QED
  BY <1>1, <1>5, <1>6, <1>7, <1>8, GoroutineIInv

\* The goroutine records that it falls back to the direct call.
LEMMA ExecFallbackKeeps ==
  ASSUME IInv, NEW p \in TaskIDs, ExecFallback(p)
  PROVE  IInv' /\ Refines
<1>1. /\ pc[p] = "fallback" /\ pc' = [pc EXCEPT ![p] = "direct"]
      /\ UNCHANGED <<nextID, sub, outcome, apc, atask, aresult, requests, runs, calls>>
  BY DEF ExecFallback, agentVars
<1>2. GoroutineState(p) /\ ExecOK(p)
  BY <1>1, GoroutineFacts
<1> DEFINE row == [tasks[p] EXCEPT !.path = "fallback"]
<1>3. /\ row \in Task /\ row.agent = NoAgent /\ row.status = tasks[p].status
      /\ row.type = tasks[p].type /\ row.path = "fallback"
  BY <1>2 DEF GoroutineState, Task, Statuses, Paths
<1>4. PatchTask(p, row)
  BY DEF ExecFallback
<1> HIDE DEF row
<1>5. GoroutineStep(p) /\ tasks'[p] \in {tasks[p], row}
  BY <1>1, <1>2, <1>3, <1>4, PatchStep DEF GoroutineState, ExecPC
<1>6. ExecOK(p)'
  BY <1>1, <1>2, <1>3, <1>5 DEF GoroutineState, GoroutineStep, ExecOK
<1>7. Earned(p)'
  BY <1>2, <1>3, <1>5 DEF GoroutineState, Earned
<1>8. Refines
  BY <1>1, <1>2, <1>3, <1>5, AdvanceRefines DEF GoroutineState, ExecOK
<1> QED
  BY <1>1, <1>5, <1>6, <1>7, <1>8, GoroutineIInv

\* Between the two halves of a restart only the progress changes.
LEMMA ExecRestartPatchKeeps ==
  ASSUME IInv, NEW p \in TaskIDs, ExecRestartPatch(p)
  PROVE  IInv' /\ Refines
<1>1. /\ pc[p] = "restartPatch" /\ pc' = [pc EXCEPT ![p] = "restartStart"]
      /\ UNCHANGED <<nextID, sub, outcome, apc, atask, aresult, requests, runs, calls>>
  BY DEF ExecRestartPatch, agentVars
<1>2. GoroutineState(p) /\ ExecOK(p)
  BY <1>1, GoroutineFacts
<1> DEFINE row == [tasks[p] EXCEPT !.progress = Max2(@, 65)]
<1>3. /\ row \in Task /\ row.agent = NoAgent /\ row.status = tasks[p].status
      /\ row.type = tasks[p].type /\ row.path = tasks[p].path
  <2>1. tasks[p].progress \in 0 .. 100 /\ 65 \in 0 .. 100
    BY <1>2 DEF GoroutineState
  <2>2. Max2(tasks[p].progress, 65) \in 0 .. 100
    BY <2>1, Max2Progress
  <2> QED
    BY <1>2, <2>2 DEF GoroutineState, Task, Statuses
<1>4. PatchTask(p, row)
  BY DEF ExecRestartPatch
<1> HIDE DEF row
<1>5. GoroutineStep(p) /\ tasks'[p] \in {tasks[p], row}
  BY <1>1, <1>2, <1>3, <1>4, PatchStep DEF GoroutineState, ExecPC
<1>6. ExecOK(p)'
  BY <1>1, <1>2, <1>3, <1>5 DEF GoroutineState, GoroutineStep, ExecOK
<1>7. Earned(p)'
  BY <1>2, <1>3, <1>5 DEF GoroutineState, Earned
<1>8. Refines
  BY <1>1, <1>2, <1>3, <1>5, AdvanceRefines DEF GoroutineState, ExecOK
<1> QED
  BY <1>1, <1>5, <1>6, <1>7, <1>8, GoroutineIInv

\* The steps that only move the goroutine on.
LEMMA ExecMoveKeeps ==
  ASSUME IInv, NEW p \in TaskIDs,
         ExecSkipAgent(p) \/ ExecDelegateFails(p) \/ ExecAwaitTimeout(p)
  PROVE  IInv' /\ Refines
<1>1. /\ \/ pc[p] = "route" /\ pc' = [pc EXCEPT ![p] = "direct"]
         \/ pc[p] = "route" /\ pc' = [pc EXCEPT ![p] = "fallback"]
         \/ pc[p] = "await" /\ pc' = [pc EXCEPT ![p] = "fallback"]
      /\ UNCHANGED <<tasks, nextID, sub, outcome, apc, atask, aresult, requests, runs,
                     calls, hit, aFaults, cFaults>>
  BY DEF ExecSkipAgent, ExecDelegateFails, ExecAwaitTimeout, agentVars, faultVars
<1>2. GoroutineState(p) /\ ExecOK(p) /\ Earned(p)
  BY <1>1, GoroutineFacts, EarnedAll DEF IInv
<1>3. PICK next \in {"direct", "fallback"} : pc' = [pc EXCEPT ![p] = next]
  BY <1>1
<1>4. GoroutineStep(p)
  BY <1>1, <1>2, <1>3, LocalStep DEF GoroutineState, ExecPC
<1>5. ExecOK(p)'
  BY <1>1, <1>2 DEF GoroutineState, ExecOK
<1>6. Earned(p)'
  BY <1>1, <1>2 DEF GoroutineState, Earned, IsAgentTask
<1>7. Refines
  BY <1>1, QuietRefines
<1> QED
  BY <1>1, <1>4, <1>5, <1>6, <1>7, GoroutineIInv

\* The direct call is counted before its verdict is recorded.
LEMMA ExecDirectKeeps ==
  ASSUME IInv, NEW p \in TaskIDs, ExecDirect(p)
  PROVE  IInv' /\ Refines
<1>1. /\ pc[p] \in {"direct", "restartStart"} /\ pc' = [pc EXCEPT ![p] = "finish"]
      /\ calls' = [calls EXCEPT ![p] = @ + 1]
      /\ UNCHANGED <<tasks, nextID, sub, apc, atask, aresult, requests, runs,
                     hit, aFaults, cFaults>>
  BY DEF ExecDirect, CallModelService, agentVars, faultVars
<1>2. PICK o \in {"success", "failed", "timeout"} : outcome' = [outcome EXCEPT ![p] = o]
  BY DEF ExecDirect, Verdict
<1>3. GoroutineState(p) /\ ExecOK(p)
  BY <1>1, GoroutineFacts
<1>4. outcome' \in [TaskIDs -> Outcomes] /\ calls' \in [TaskIDs -> Nat] /\ calls'[p] >= 1
      /\ \A q \in TaskIDs : q # p => outcome'[q] = outcome[q] /\ calls'[q] = calls[q]
  BY <1>1, <1>2, <1>3 DEF GoroutineState, Outcomes
<1>5. GoroutineStep(p)
  BY <1>1, <1>4, LocalStep DEF ExecPC
<1>6. ExecOK(p)'
  BY <1>1, <1>2, <1>3, <1>4 DEF GoroutineState, ExecOK
<1>7. Earned(p)'
  BY <1>1, <1>3 DEF GoroutineState, Earned
<1>8. Refines
  BY <1>1, QuietRefines
<1> QED
  BY <1>1, <1>5, <1>6, <1>7, <1>8, GoroutineIInv

\* The stop half of a restart is counted too.
LEMMA ExecRestartStopKeeps ==
  ASSUME IInv, NEW p \in TaskIDs, ExecRestartStop(p)
  PROVE  IInv' /\ Refines
<1>1. /\ pc[p] = "direct"
      /\ calls' = [calls EXCEPT ![p] = @ + 1]
      /\ UNCHANGED <<tasks, nextID, sub, apc, atask, aresult, requests, runs,
                     hit, aFaults, cFaults>>
  BY DEF ExecRestartStop, CallModelService, agentVars, faultVars
<1>2. \/ pc' = [pc EXCEPT ![p] = "restartPatch"] /\ outcome' = outcome
      \/ /\ pc' = [pc EXCEPT ![p] = "finish"]
         /\ \E o \in {"failed", "timeout"} : outcome' = [outcome EXCEPT ![p] = o]
  BY DEF ExecRestartStop, Verdict
<1>3. PICK next \in {"restartPatch", "finish"} : pc' = [pc EXCEPT ![p] = next]
  BY <1>2
<1>4. GoroutineState(p) /\ ExecOK(p)
  BY <1>1, GoroutineFacts
<1>5. outcome' \in [TaskIDs -> Outcomes] /\ calls' \in [TaskIDs -> Nat] /\ calls'[p] >= 1
      /\ \A q \in TaskIDs : q # p => outcome'[q] = outcome[q] /\ calls'[q] = calls[q]
  BY <1>1, <1>2, <1>4 DEF GoroutineState, Outcomes
<1>6. GoroutineStep(p)
  BY <1>1, <1>3, <1>5, LocalStep DEF ExecPC
<1>7. ExecOK(p)'
  BY <1>1, <1>2, <1>4, <1>5 DEF GoroutineState, ExecOK
<1>8. Earned(p)'
  BY <1>1, <1>4 DEF GoroutineState, Earned
<1>9. Refines
  BY <1>1, QuietRefines
<1> QED
  BY <1>1, <1>6, <1>7, <1>8, <1>9, GoroutineIInv

\* What the last write makes of a row.
LEMMA FinalRowFacts ==
  ASSUME NEW old \in Task, NEW o \in {"agent", "success", "failed", "timeout"}
  PROVE  /\ FinalRow(old, o) \in Task
         /\ FinalRow(old, o).agent = old.agent
         /\ FinalRow(old, o).type = old.type
         /\ FinalRow(old, o).status = IF o = "agent" THEN "success" ELSE o
         /\ FinalRow(old, o).path = IF o = "agent" THEN "agent" ELSE old.path
<1>0. 100 \in 0 .. 100 /\ "success" \in Statuses /\ "agent" \in Paths
      /\ (o # "agent" => o \in Statuses)
  BY DEF Statuses, Terminal, Paths
<1>1. CASE o = "agent"
  <2>1. FinalRow(old, o) = [old EXCEPT !.status = "success", !.progress = 100, !.path = "agent"]
    BY <1>1 DEF FinalRow
  <2> QED
    BY <1>0, <1>1, <2>1 DEF Task
<1>2. CASE o # "agent"
  <2>1. FinalRow(old, o) = [old EXCEPT !.status = o, !.progress = 100]
    BY <1>2 DEF FinalRow
  <2>2. PICK n \in 0 .. 100 : FinalRow(old, o) = [old EXCEPT !.status = o, !.progress = n]
    BY <1>0, <2>1
  <2>3. PICK s \in Statuses : s = o
    BY <1>0, <1>2
  <2>4. FinalRow(old, o) = [old EXCEPT !.status = s, !.progress = n]
    BY <2>2, <2>3
  <2>5. FinalRow(old, o) \in Task
    BY <2>4 DEF Task
  <2>6. /\ FinalRow(old, o).agent = old.agent /\ FinalRow(old, o).type = old.type
        /\ FinalRow(old, o).status = s /\ FinalRow(old, o).path = old.path
    BY <2>4 DEF Task
  <2> QED
    BY <1>2, <2>3, <2>5, <2>6
<1> QED
  BY <1>1, <1>2

\* The last write: a success it records is backed by a call or by the sub-task.
LEMMA ExecFinishKeeps ==
  ASSUME IInv, NEW p \in TaskIDs, ExecFinish(p)
  PROVE  IInv' /\ Refines
<1>1. /\ pc[p] = "finish" /\ pc' = [pc EXCEPT ![p] = "none"]
      /\ outcome' = [outcome EXCEPT ![p] = "none"]
      /\ UNCHANGED <<nextID, sub, apc, atask, aresult, requests, runs, calls>>
  BY DEF ExecFinish, agentVars
<1>2. GoroutineState(p) /\ ExecOK(p)
  BY <1>1, GoroutineFacts
<1>3. outcome[p] \in {"agent", "success", "failed", "timeout"}
  BY <1>1, <1>2 DEF GoroutineState, ExecOK, Outcomes
<1> DEFINE row == FinalRow(tasks[p], outcome[p])
<1>4. /\ row \in Task /\ row.agent = NoAgent /\ row.type = tasks[p].type
      /\ row.status = IF outcome[p] = "agent" THEN "success" ELSE outcome[p]
      /\ row.path = IF outcome[p] = "agent" THEN "agent" ELSE tasks[p].path
  <2>1. tasks[p] \in Task /\ tasks[p].agent = NoAgent
    BY <1>2 DEF GoroutineState
  <2> QED
    BY <1>3, <2>1, FinalRowFacts
<1>5. PatchTask(p, row)
  BY DEF ExecFinish
<1> HIDE DEF row
<1>6. GoroutineStep(p) /\ tasks'[p] \in {tasks[p], row}
  <2>1. /\ outcome' \in [TaskIDs -> Outcomes]
        /\ \A q \in TaskIDs : q # p => outcome'[q] = outcome[q]
    BY <1>1, <1>2 DEF GoroutineState, Outcomes
  <2> QED
    BY <1>1, <1>3, <1>4, <1>5, <2>1, PatchStep DEF ExecPC
<1>7. outcome'[p] = "none" /\ pc'[p] = "none"
  BY <1>1, <1>2 DEF GoroutineState
<1>8. sub[p] # NoID => tasks'[sub[p]] = tasks[sub[p]]
  BY <1>2, <1>6 DEF GoroutineState, GoroutineStep
<1>9. ExecOK(p)'
  BY <1>1, <1>2, <1>7, <1>8 DEF ExecOK
<1>10. Earned(p)'
  <2>1. CASE outcome[p] = "agent"
    <3>1. runs[sub[p]] = 1 /\ sub[p] # NoID /\ tasks[sub[p]].status = "success" /\ calls[p] = 0
      BY <1>2, <2>1 DEF ExecOK, GoroutineState, IInv, RowsOK, RowOK
    <3> QED
      BY <1>1, <1>2, <1>4, <1>6, <1>8, <2>1, <3>1 DEF GoroutineState, Earned, IsAgentTask
  <2>2. CASE outcome[p] # "agent"
    BY <1>1, <1>2, <1>3, <1>4, <1>6, <2>2 DEF GoroutineState, ExecOK, Earned, IsAgentTask
  <2> QED
    BY <2>1, <2>2
<1>11. Refines
  BY <1>1, <1>3, <1>4, <1>6, AdvanceRefines DEF Terminal
<1> QED
  BY <1>1, <1>6, <1>9, <1>10, <1>11, GoroutineIInv

\* A delegated action has an agent task type.
LEMMA DelegableFacts ==
  ASSUME NEW type \in DelegableTypes
  PROVE  AgentTypeFor(type) \in AgentTypes
BY DEF DelegableTypes, AgentTypeFor, AgentTypes

\* The goroutine delegates: its sub-task is a fresh agent row.
LEMMA ExecDelegateKeeps ==
  ASSUME IInv, NEW p \in TaskIDs, NEW a \in Agents, ExecDelegate(p, a)
  PROVE  IInv' /\ Refines
<1>1. /\ pc[p] = "route" /\ pc' = [pc EXCEPT ![p] = "await"]
      /\ sub' = [sub EXCEPT ![p] = nextID] /\ outcome' = outcome
      /\ UNCHANGED <<agentVars, requests, runs, calls, faultVars>>
  BY DEF ExecDelegate
<1>2. PICK type \in AgentTypes : InsertTask(type, a)
  BY DelegableFacts DEF ExecDelegate
<1>3. /\ nextID \in TaskIDs /\ pc[nextID] = "none"
      /\ tasks'[nextID] = NewTask(type, a)
      /\ \A t \in TaskIDs : t # nextID => tasks'[t] = tasks[t]
  BY <1>2, InsertFacts
<1>4. GoroutineState(p) /\ ExecOK(p) /\ Earned(p)
  BY <1>1, GoroutineFacts, EarnedAll DEF IInv
<1>5. /\ p # nextID /\ tasks'[p] = tasks[p] /\ tasks[p].agent = NoAgent
      /\ pc'[p] = "await" /\ sub'[p] = nextID /\ calls'[p] = calls[p]
      /\ outcome'[p] = outcome[p] /\ outcome[p] = "none"
  BY <1>1, <1>3, <1>4 DEF GoroutineState, ExecOK
<1>6. /\ pc' \in [TaskIDs -> ExecPC] /\ sub' \in [TaskIDs -> TaskIDs \cup {NoID}]
      /\ outcome' \in [TaskIDs -> Outcomes]
      /\ \A q \in TaskIDs : q # p =>
           pc'[q] = pc[q] /\ sub'[q] = sub[q] /\ outcome'[q] = outcome[q]
  BY <1>1, <1>3, <1>4 DEF GoroutineState, ExecPC
<1>7. tasks'[nextID].agent # NoAgent /\ nextID # NoID
  BY <1>3, NoAgentIsNone DEF NewTask, TaskIDs, NoID
<1>8. ExecOK(p)'
  BY <1>1, <1>4, <1>5, <1>7 DEF GoroutineState, ExecOK
<1>9. Earned(p)'
  BY <1>4, <1>5 DEF GoroutineState, Earned
<1>10. ~ (nextID <= p)
  BY <1>1 DEF IInv, RowsOK, RowOK
<1> QED
  BY <1>1, <1>2, <1>5, <1>6, <1>8, <1>9, <1>10, InsertAgentRowKeeps

\* The wait ends with a terminal sub-task, perhaps asking for a snapshot too.
LEMMA ExecAwaitDoneKeeps ==
  ASSUME IInv, NEW p \in TaskIDs, ExecAwaitDone(p)
  PROVE  IInv' /\ Refines
<1>1. /\ pc[p] = "await" /\ tasks[sub[p]].status \in Terminal
      /\ sub' = sub
      /\ UNCHANGED <<agentVars, requests, runs, calls, faultVars>>
  BY DEF ExecAwaitDone
<1>2. \/ /\ tasks[sub[p]].status = "success"
         /\ \E o \in {"agent", "timeout"} : outcome' = [outcome EXCEPT ![p] = o]
         /\ pc' = [pc EXCEPT ![p] = "finish"]
      \/ outcome' = outcome /\ pc' = [pc EXCEPT ![p] = "fallback"]
  BY DEF ExecAwaitDone
<1>3. GoroutineState(p) /\ ExecOK(p) /\ Earned(p)
  BY <1>1, GoroutineFacts, EarnedAll DEF IInv
<1>4. sub[p] \in TaskIDs /\ sub[p] # NoID /\ tasks[sub[p]].agent # NoAgent
  BY <1>1, <1>3 DEF GoroutineState, ExecOK
<1>5. /\ pc' \in [TaskIDs -> ExecPC] /\ outcome' \in [TaskIDs -> Outcomes]
      /\ \A q \in TaskIDs : q # p => pc'[q] = pc[q] /\ outcome'[q] = outcome[q]
  BY <1>2, <1>3 DEF GoroutineState, ExecPC, Outcomes
<1>6. ASSUME tasks'[p] = tasks[p], tasks'[sub[p]] = tasks[sub[p]]
      PROVE  ExecOK(p)' /\ Earned(p)'
  <2>1. outcome[p] = "none" /\ calls[p] = 0 /\ calls' = calls
    BY <1>1, <1>3 DEF ExecOK
  <2>2. ExecOK(p)'
    BY <1>1, <1>2, <1>3, <1>4, <1>6, <2>1 DEF GoroutineState, ExecOK
  <2>3. Earned(p)'
    BY <1>3, <1>6 DEF GoroutineState, Earned
  <2> QED
    BY <2>2, <2>3
<1>7. CASE tasks[p].type = "refresh" /\ InsertTask("resource_snapshot", tasks[sub[p]].agent)
  <2>1. tasks[sub[p]].agent \in Agents
    BY <1>3, <1>4 DEF GoroutineState, Task
  <2>2. InsertTask("resource_snapshot", tasks[sub[p]].agent)
        /\ "resource_snapshot" \in RuntimeTypes \cup AgentTypes
    BY <1>7 DEF AgentTypes
  <2>3. /\ nextID \in TaskIDs /\ pc[nextID] = "none" /\ \A q \in TaskIDs : sub[q] # nextID
        /\ \A t \in TaskIDs : t # nextID => tasks'[t] = tasks[t]
    BY <2>1, <2>2, InsertFacts
  <2>4. p # nextID /\ sub[p] # nextID
    BY <1>1, <2>3
  <2>5. ExecOK(p)' /\ Earned(p)'
    BY <1>4, <1>6, <2>3, <2>4
  <2>6. ~ (nextID <= p)
    BY <1>1 DEF IInv, RowsOK, RowOK
  <2>7. tasks[p].agent = NoAgent /\ sub' \in [TaskIDs -> TaskIDs \cup {NoID}]
    BY <1>1, <1>3 DEF GoroutineState
  <2> QED
    BY <1>1, <1>5, <2>1, <2>2, <2>4, <2>5, <2>6, <2>7, InsertAgentRowKeeps
<1>8. CASE UNCHANGED <<tasks, nextID>>
  <2>1. UNCHANGED <<tasks, nextID, sub, apc, atask, aresult, requests, runs, calls,
                    hit, aFaults, cFaults>>
    BY <1>1, <1>8 DEF agentVars, faultVars
  <2>2. PICK next \in {"finish", "fallback"} : pc' = [pc EXCEPT ![p] = next]
    BY <1>2
  <2>3. GoroutineStep(p)
    BY <1>1, <1>3, <1>5, <2>1, <2>2, LocalStep DEF GoroutineState, ExecPC
  <2>4. ExecOK(p)' /\ Earned(p)'
    BY <1>6, <2>1
  <2> QED
    BY <1>1, <2>1, <2>3, <2>4, GoroutineIInv, QuietRefines
<1> QED
  BY <1>7, <1>8 DEF ExecAwaitDone, SnapshotAfter

\* Every step of a goroutine keeps the invariant.
LEMMA ExecStepKeeps ==
  ASSUME IInv, NEW p \in TaskIDs, ExecStep(p)
  PROVE  IInv' /\ Refines
BY ExecDispatchKeeps, ExecBeginKeeps, ExecMoveKeeps, ExecDelegateKeeps, ExecAwaitDoneKeeps,
   ExecFallbackKeeps, ExecDirectKeeps, ExecRestartStopKeeps, ExecRestartPatchKeeps,
   ExecFinishKeeps DEF ExecStep

-----------------------------------------------------------------------------
(* Steps of agents and handlers.                                           *)

\* What such a step may do to a row: leave it alone, or move an unfinished agent
\* row on, with runs as its new status wants it.
RowMoves(t) ==
  \/ tasks'[t] = tasks[t] /\ runs'[t] = runs[t]
  \/ /\ tasks[t].agent # NoAgent /\ tasks'[t].agent = tasks[t].agent
     /\ tasks[t].status \in {"pending", "dispatched", "running"}
     /\ tasks'[t].status \in {"dispatched", "running", "success", "failed"}
     /\ tasks'[t].status = "dispatched" => runs'[t] = 0
     /\ tasks'[t].status = "running" => runs'[t] \in {0, 1}
     /\ tasks'[t].status \in {"success", "failed"} => runs'[t] = 1

AgentSide ==
  /\ \A t \in TaskIDs : RowMoves(t)
  /\ UNCHANGED <<nextID, pc, sub, outcome, calls>>

\* A step of agents and handlers keeps what rows and goroutines rely on.
LEMMA AgentSideIInv ==
  ASSUME IInv, AgentSide, TypeOK', HoldersOK', ReportsOK', OneReportPerTask'
  PROVE  IInv'
<1>1. RowsOK'
  <2> SUFFICES ASSUME NEW t \in TaskIDs PROVE RowOK(t)'
    BY DEF RowsOK
  <2>1. RowOK(t) /\ RowMoves(t) /\ nextID \in Nat
        /\ nextID' = nextID /\ pc'[t] = pc[t] /\ sub'[t] = sub[t] /\ calls'[t] = calls[t]
    BY DEF IInv, RowsOK, AgentSide, TypeOK
  <2>2. CASE tasks'[t] = tasks[t] /\ runs'[t] = runs[t]
    BY <2>1, <2>2, RowFrame
  <2>3. CASE ~ (tasks'[t] = tasks[t] /\ runs'[t] = runs[t])
    BY <2>1, <2>3 DEF RowMoves, RowOK
  <2> QED
    BY <2>2, <2>3
<1>2. \A p \in TaskIDs : sub[p] # NoID => sub[p] \in TaskIDs
  BY DEF IInv, TypeOK
<1>3. \A p \in TaskIDs :
        ExecOK(p) /\ (pc[p] # "none" => tasks'[p] = tasks[p])
  BY DEF IInv, ExecsOK, ExecOK, AgentSide, RowMoves
<1>4. \A t \in TaskIDs :
        /\ tasks'[t].agent = tasks[t].agent
        /\ tasks[t].status = "success" =>
             tasks'[t].status = "success" /\ runs'[t] = runs[t]
        /\ (tasks'[t].status = "success" /\ ~ IsAgentTask(t)) => tasks'[t] = tasks[t]
  BY DEF AgentSide, RowMoves, IsAgentTask
<1>5. ExecsOK'
  <2> SUFFICES ASSUME NEW p \in TaskIDs PROVE ExecOK(p)'
    BY DEF ExecsOK
  <2>1. pc'[p] = pc[p] /\ sub'[p] = sub[p] /\ outcome'[p] = outcome[p] /\ calls'[p] = calls[p]
    BY DEF AgentSide
  <2> QED
    BY <1>2, <1>3, <1>4, <2>1, ExecFrame
<1>6. SuccessIsEarned'
  <2> SUFFICES ASSUME NEW t \in TaskIDs PROVE Earned(t)'
    BY DEF SuccessIsEarned, Earned, IsAgentTask
  <2>1. sub'[t] = sub[t] /\ calls'[t] = calls[t] /\ RowMoves(t) /\ Earned(t)
    BY EarnedAll DEF AgentSide, IInv
  <2>2. CASE tasks[t].agent # NoAgent
    BY <1>4, <2>1, <2>2 DEF RowMoves, Earned, IsAgentTask
  <2>3. CASE tasks[t].agent = NoAgent
    BY <1>2, <1>4, <2>1, <2>3 DEF RowMoves, Earned, IsAgentTask
  <2> QED
    BY <2>2, <2>3
<1> QED
  BY <1>1, <1>5, <1>6 DEF IInv

\* The claim picks an untouched row: nobody holds or reports it.
ClaimEffect(a, t) ==
  /\ tasks' \in [TaskIDs -> Task]
  /\ tasks[t].status = "pending" /\ tasks[t].agent = a /\ runs[t] = 0
  /\ tasks'[t].status = "dispatched" /\ tasks'[t].agent = a
  /\ \A u \in TaskIDs : u # t => tasks'[u] = tasks[u]
  /\ \A b \in Agents : atask[b] # t
  /\ \A r \in requests : r.task # t

\* ClaimEffect follows from the claim.
LEMMA ClaimFacts ==
  ASSUME IInv, NEW a \in Agents, NEW t \in TaskIDs, Claim(a, t)
  PROVE  ClaimEffect(a, t)
<1> USE DEF IInv
<1>1. tasks[t].status = "pending" /\ tasks[t].agent = a /\ tasks[t].agent # NoAgent
  BY NoAgentIsNone DEF Claim, Claimable
<1>2. tasks[t] \in Task /\ tasks \in [TaskIDs -> Task] /\ tasks[t].progress \in 0 .. 100
      /\ 5 \in 0 .. 100
  BY DEF TypeOK, Task
<1>3. Max2(tasks[t].progress, 5) \in 0 .. 100
  BY <1>2, Max2Progress
<1> DEFINE row == [tasks[t] EXCEPT !.status = "dispatched", !.progress = Max2(tasks[t].progress, 5)]
<1>4. row \in Task /\ row.status = "dispatched" /\ row.agent = tasks[t].agent
  BY <1>2, <1>3 DEF Task, Statuses
<1>5. tasks' = [tasks EXCEPT ![t] = row]
  BY <1>2 DEF Claim
<1> HIDE DEF row
<1>6. runs[t] = 0
  BY <1>1 DEF RowsOK, RowOK
<1>7. \A b \in Agents : atask[b] # t
  BY <1>1 DEF HoldersOK, HolderOK, AgentPC, TypeOK, NoID, TaskIDs
<1>8. \A r \in requests : r.task # t
  BY <1>1 DEF ReportsOK, ReportOK
<1> QED
  BY <1>1, <1>2, <1>4, <1>5, <1>6, <1>7, <1>8 DEF ClaimEffect

\* A claim is a Take of the ledger.
LEMMA TakeRefines ==
  ASSUME NEW a \in Agents, NEW t \in TaskIDs, ClaimEffect(a, t), runs' = runs
  PROVE  Refines
<1>1. RowsFinal
  BY DEF ClaimEffect, RowsFinal, Terminal
<1>2. statusOf' = [statusOf EXCEPT ![t] = "dispatched"] /\ delegatedOf' = delegatedOf
  BY OneRow DEF ClaimEffect
<1>3. t \in delegatedOf /\ statusOf[t] = "pending"
  BY NoAgentIsNone DEF ClaimEffect, delegatedOf, statusOf, IsAgentTask
<1>4. Ledger!Take(t)
  BY <1>2, <1>3 DEF Ledger!Take, statusOf, delegatedOf
<1> QED
  BY <1>1, <1>4 DEF Refines, Ledger!Next

\* A claim whose answer arrives.
LEMMA AgentPollKeeps ==
  ASSUME IInv, NEW a \in Agents, NEW t \in TaskIDs, AgentPoll(a, t)
  PROVE  IInv' /\ Refines
<1>1. /\ apc[a] = "idle" /\ apc' = [apc EXCEPT ![a] = "claimed"]
      /\ atask' = [atask EXCEPT ![a] = t]
      /\ UNCHANGED <<nextID, pc, sub, outcome, aresult, requests, runs, calls, hit, aFaults, cFaults>>
  BY DEF AgentPoll, execVars, faultVars
<1>2. ClaimEffect(a, t)
  BY ClaimFacts DEF AgentPoll
<1>3. AgentSide
  BY <1>1, <1>2, NoAgentIsNone DEF ClaimEffect, AgentSide, RowMoves
<1>4. TypeOK'
  BY <1>1, <1>2 DEF IInv, TypeOK, ClaimEffect, AgentPC
<1>5. HoldersOK'
  <2> SUFFICES ASSUME NEW b \in Agents PROVE HolderOK(b)'
    BY DEF HoldersOK
  <2>1. HolderOK(b)
    BY DEF IInv, HoldersOK
  <2>2. CASE b = a
    BY <1>1, <1>2, <2>2 DEF HolderOK, ClaimEffect, IInv, TypeOK
  <2>3. CASE b # a
    BY <1>1, <1>2, <2>1, <2>3, HolderFrame DEF ClaimEffect
  <2> QED
    BY <2>2, <2>3
<1>6. ReportsOK' /\ OneReportPerTask'
  <2>1. \A r \in requests : r \in Request /\ r.task \in TaskIDs /\ r.agent \in Agents /\ ReportOK(r)
    BY DEF IInv, TypeOK, ReportsOK, Request
  <2>2. \A r \in requests : atask'[r.agent] = r.task =>
                             atask[r.agent] = r.task /\ apc'[r.agent] = apc[r.agent]
    BY <1>1, <1>2, <2>1 DEF ClaimEffect, IInv, TypeOK
  <2>3. \A r \in requests : ReportOK(r)'
    BY <1>1, <1>2, <2>1, <2>2, ReportFrame DEF ClaimEffect
  <2> QED
    BY <1>1, <2>3 DEF IInv, ReportsOK, OneReportPerTask
<1>7. Refines
  BY <1>1, <1>2, TakeRefines
<1> QED
  BY <1>3, <1>4, <1>5, <1>6, <1>7, AgentSideIInv

\* A claim whose answer is lost: nobody will ever hold the task.
LEMMA AgentPollLostKeeps ==
  ASSUME IInv, NEW a \in Agents, NEW t \in TaskIDs, AgentPollLost(a, t)
  PROVE  IInv' /\ Refines
<1>1. UNCHANGED <<nextID, pc, sub, outcome, apc, atask, aresult, requests, runs, calls, cFaults>>
  BY DEF AgentPollLost, AgentFault, execVars, agentVars
<1>2. ClaimEffect(a, t)
  BY ClaimFacts DEF AgentPollLost
<1>3. AgentSide
  BY <1>1, <1>2, NoAgentIsNone DEF ClaimEffect, AgentSide, RowMoves
<1>4. hit' = hit \cup {t} /\ aFaults' = aFaults + 1
  BY DEF AgentPollLost, AgentFault
<1>5. TypeOK'
  BY <1>1, <1>2, <1>4 DEF IInv, TypeOK, ClaimEffect
<1>6. HoldersOK'
  <2>1. \A b \in Agents : HolderOK(b)
    BY DEF IInv, HoldersOK
  <2> QED
    BY <1>1, <1>2, <2>1, HolderFrame DEF HoldersOK, ClaimEffect
<1>7. ReportsOK' /\ OneReportPerTask'
  <2>1. \A r \in requests : r \in Request /\ r.task \in TaskIDs /\ ReportOK(r)
    BY DEF IInv, TypeOK, ReportsOK, Request
  <2>2. \A r \in requests : ReportOK(r)'
    BY <1>1, <1>2, <2>1, ReportFrame DEF ClaimEffect
  <2> QED
    BY <1>1, <2>2 DEF IInv, ReportsOK, OneReportPerTask
<1>8. Refines
  BY <1>1, <1>2, TakeRefines
<1> QED
  BY <1>3, <1>5, <1>6, <1>7, <1>8, AgentSideIInv

\* Before agent a sends, nothing is in flight for the task it holds.
LEMMA SendKeeps ==
  ASSUME IInv, NEW a \in Agents, NEW status \in {"running", "success", "failed"},
         Send(a, status),
         \/ /\ apc[a] = "claimed" /\ status = "running"
            /\ apc' = [apc EXCEPT ![a] = "waitRun"]
         \/ /\ apc[a] = "executed" /\ status # "running"
            /\ apc' = [apc EXCEPT ![a] = "waitFinal"],
         UNCHANGED <<tasks, nextID, pc, sub, outcome, atask, aresult, runs, calls,
                     hit, aFaults, cFaults>>
  PROVE  IInv' /\ Refines
<1>1. HolderOK(a) /\ atask[a] \in TaskIDs /\ tasks[atask[a]].agent = a
  BY DEF IInv, HoldersOK, HolderOK
<1>2. PICK new \in Request :
        /\ requests' = requests \cup {new}
        /\ new.agent = a /\ new.task = atask[a] /\ new.status = status
        /\ new.phase = "sent"
  <2> DEFINE n == [agent |-> a, task |-> atask[a], status |-> status, phase |-> "sent", seen |-> NoTask]
  <2>1. n \in Request
    BY <1>1 DEF Request, Task, NoTask, Statuses, Paths
  <2>2. requests' = requests \cup {n}
    BY DEF Send
  <2> QED
    BY <2>1, <2>2
<1>3. /\ apc'[a] = IF status = "running" THEN "waitRun" ELSE "waitFinal"
      /\ \A b \in Agents : b # a => apc'[b] = apc[b]
      /\ apc' \in [Agents -> AgentPC]
      /\ apc[a] = IF status = "running" THEN "claimed" ELSE "executed"
  BY DEF IInv, TypeOK, AgentPC
<1>4. \A r \in requests : r \in Request /\ r.task \in TaskIDs /\ r.agent \in Agents
                            /\ ReportOK(r) /\ r.task # atask[a]
  <2> SUFFICES ASSUME NEW r \in requests PROVE r \in Request /\ r.task \in TaskIDs
                 /\ r.agent \in Agents /\ ReportOK(r) /\ r.task # atask[a]
    OBVIOUS
  <2>1. r \in Request /\ r.task \in TaskIDs /\ r.agent \in Agents /\ ReportOK(r)
    BY DEF IInv, TypeOK, ReportsOK, Request
  <2>2. ASSUME r.task = atask[a] PROVE FALSE
    <3>1. r.agent = a
      BY <1>1, <2>1, <2>2 DEF ReportOK
    <3>2. Waiting(r)
      BY <2>1, <2>2, <3>1 DEF ReportOK
    <3> QED
      BY <1>3, <3>1, <3>2 DEF Waiting
  <2> QED
    BY <2>1, <2>2
<1>5. AgentSide
  BY DEF AgentSide, RowMoves
<1>6. TypeOK'
  BY <1>2, <1>3 DEF IInv, TypeOK
<1>7. HoldersOK'
  <2> SUFFICES ASSUME NEW b \in Agents PROVE HolderOK(b)'
    BY DEF HoldersOK
  <2>1. HolderOK(b)
    BY DEF IInv, HoldersOK
  <2>2. CASE b = a
    BY <1>1, <1>3, <2>2 DEF HolderOK
  <2>3. CASE b # a
    BY <1>3, <2>1, <2>3, HolderFrame
  <2> QED
    BY <2>2, <2>3
<1>8. ReportsOK'
  <2>1. ReportOK(new)'
    BY <1>1, <1>2, <1>3 DEF ReportOK, Waiting, HolderOK
  <2>2. \A r \in requests : ReportOK(r)'
    <3>1. \A r \in requests : atask'[r.agent] = r.task =>
                               atask[r.agent] = r.task /\ apc'[r.agent] = apc[r.agent]
      BY <1>3, <1>4
    <3> QED
      BY <1>4, <3>1, ReportFrame
  <2> QED
    BY <1>2, <2>1, <2>2 DEF ReportsOK
<1>9. OneReportPerTask'
  BY <1>2, <1>4 DEF IInv, OneReportPerTask
<1>10. Refines
  BY QuietRefines
<1> QED
  BY <1>5, <1>6, <1>7, <1>8, <1>9, <1>10, AgentSideIInv

\* Both reports go through SendKeeps.
LEMMA AgentReportKeeps ==
  ASSUME IInv, NEW a \in Agents, AgentReportRunning(a) \/ AgentReportFinal(a)
  PROVE  IInv' /\ Refines
<1>1. CASE AgentReportRunning(a)
  BY <1>1, SendKeeps DEF AgentReportRunning, execVars, faultVars
<1>2. CASE AgentReportFinal(a)
  <2>1. aresult[a] \in {"success", "failed"}
    BY <1>2 DEF AgentReportFinal, IInv, HoldersOK, HolderOK, TypeOK
  <2> QED
    BY <1>2, <2>1, SendKeeps DEF AgentReportFinal, execVars, faultVars
<1> QED
  BY <1>1, <1>2

\* Carrying out the work is a Run of the ledger.
LEMMA RunRefines ==
  ASSUME NEW t \in TaskIDs, tasks[t].agent \in Agents, tasks[t].status = "running",
         runs[t] = 0, runs' = [runs EXCEPT ![t] = @ + 1], tasks' = tasks
  PROVE  Refines
<1>1. RowsFinal /\ statusOf' = statusOf /\ delegatedOf' = delegatedOf
  BY DEF RowsFinal, statusOf, delegatedOf, IsAgentTask
<1>2. t \in delegatedOf /\ statusOf[t] = "running"
  BY NoAgentIsNone DEF delegatedOf, statusOf, IsAgentTask
<1>3. runs' = [runs EXCEPT ![t] = 1]
  OBVIOUS
<1>4. Ledger!Run(t)
  BY <1>1, <1>2, <1>3 DEF Ledger!Run, statusOf, delegatedOf
<1> QED
  BY <1>1, <1>4 DEF Refines, Ledger!Next

\* An agent carries out its task for the first time: the row says running.
LEMMA AgentExecuteKeeps ==
  ASSUME IInv, NEW a \in Agents, AgentExecute(a)
  PROVE  IInv' /\ Refines
<1>1. /\ apc[a] = "execute" /\ apc' = [apc EXCEPT ![a] = "executed"]
      /\ runs' = [runs EXCEPT ![atask[a]] = @ + 1]
      /\ \E result \in {"success", "failed"} : aresult' = [aresult EXCEPT ![a] = result]
      /\ UNCHANGED <<tasks, nextID, pc, sub, outcome, atask, requests, calls, hit, aFaults, cFaults>>
  BY DEF AgentExecute, execVars, faultVars
<1>2. /\ atask[a] \in TaskIDs /\ tasks[atask[a]].agent = a
      /\ tasks[atask[a]].status = "running" /\ runs[atask[a]] = 0
  BY <1>1 DEF IInv, HoldersOK, HolderOK
<1>3. /\ runs'[atask[a]] = 1
      /\ \A t \in TaskIDs : t # atask[a] => runs'[t] = runs[t]
      /\ runs' \in [TaskIDs -> Nat]
  BY <1>1, <1>2 DEF IInv, TypeOK
<1>4. AgentSide
  BY <1>1, <1>2, <1>3, NoAgentIsNone DEF AgentSide, RowMoves
<1>5. TypeOK'
  BY <1>1, <1>3 DEF IInv, TypeOK, AgentPC
<1>6. HoldersOK'
  <2> SUFFICES ASSUME NEW b \in Agents PROVE HolderOK(b)'
    BY DEF HoldersOK
  <2>1. HolderOK(b)
    BY DEF IInv, HoldersOK
  <2>2. CASE b = a
    BY <1>1, <1>2, <1>3, <2>2 DEF HolderOK, IInv, TypeOK
  <2>3. CASE b # a
    <3>1. atask[b] \in TaskIDs => atask[b] # atask[a]
      BY <1>2, <2>1, <2>3 DEF HolderOK, NoID, TaskIDs
    <3> QED
      BY <1>1, <1>3, <2>1, <2>3, <3>1, HolderFrame DEF IInv, TypeOK
  <2> QED
    BY <2>2, <2>3
<1>7. ReportsOK' /\ OneReportPerTask'
  <2>1. \A r \in requests : r \in Request /\ r.task \in TaskIDs /\ r.agent \in Agents /\ ReportOK(r)
    BY DEF IInv, TypeOK, ReportsOK, Request
  <2>2. \A r \in requests : r.task # atask[a]
    BY <1>2, <2>1 DEF ReportOK
  <2>3. \A r \in requests : atask'[r.agent] = r.task =>
                             atask[r.agent] = r.task /\ apc'[r.agent] = apc[r.agent]
    BY <1>1, <2>1, <2>2 DEF IInv, TypeOK
  <2>4. \A r \in requests : ReportOK(r)'
    BY <1>1, <1>3, <2>1, <2>2, <2>3, ReportFrame
  <2> QED
    BY <1>1, <2>4 DEF IInv, ReportsOK, OneReportPerTask
<1>8. Refines
  BY <1>1, <1>2, <1>3, RunRefines
<1> QED
  BY <1>4, <1>5, <1>6, <1>7, <1>8, AgentSideIInv

\* An agent that lets its task go leaves its report, if any, without a sender.
LEMMA ReleaseKeeps ==
  ASSUME IInv, NEW a \in Agents, apc[a] # "idle", Release(a), AgentFault({atask[a]}),
         UNCHANGED <<tasks, nextID, pc, sub, outcome, requests, runs, calls>>
  PROVE  IInv' /\ Refines
<1>1. /\ apc' = [apc EXCEPT ![a] = "idle"] /\ atask' = [atask EXCEPT ![a] = NoID]
      /\ aresult' = [aresult EXCEPT ![a] = "none"]
      /\ hit' = hit \cup {atask[a]} /\ aFaults' = aFaults + 1 /\ cFaults' = cFaults
  BY DEF Release, AgentFault
<1>2. atask[a] \in TaskIDs
  BY DEF IInv, HoldersOK, HolderOK
<1>3. AgentSide
  BY DEF AgentSide, RowMoves
<1>4. TypeOK'
  BY <1>1, <1>2 DEF IInv, TypeOK, AgentPC
<1>5. HoldersOK'
  <2> SUFFICES ASSUME NEW b \in Agents PROVE HolderOK(b)'
    BY DEF HoldersOK
  <2>1. HolderOK(b)
    BY DEF IInv, HoldersOK
  <2>2. CASE b = a
    BY <1>1, <2>2 DEF HolderOK, IInv, TypeOK
  <2>3. CASE b # a
    BY <1>1, <2>1, <2>3, HolderFrame
  <2> QED
    BY <2>2, <2>3
<1>6. ReportsOK' /\ OneReportPerTask'
  <2>1. \A r \in requests : r \in Request /\ r.task \in TaskIDs /\ r.agent \in Agents /\ ReportOK(r)
    BY DEF IInv, TypeOK, ReportsOK, Request
  <2>2. \A r \in requests : atask'[r.agent] = r.task =>
                             atask[r.agent] = r.task /\ apc'[r.agent] = apc[r.agent]
    BY <1>1, <2>1 DEF IInv, TypeOK, NoID, TaskIDs
  <2>3. \A r \in requests : ReportOK(r)'
    BY <2>1, <2>2, ReportFrame
  <2> QED
    BY <2>3 DEF IInv, ReportsOK, OneReportPerTask
<1>7. Refines
  BY QuietRefines
<1> QED
  BY <1>3, <1>4, <1>5, <1>6, <1>7, AgentSideIInv

\* An agent that gives up or crashes goes through ReleaseKeeps.
LEMMA AgentFaultKeeps ==
  ASSUME IInv, NEW a \in Agents, AgentGivesUp(a) \/ AgentCrash(a)
  PROVE  IInv' /\ Refines
BY ReleaseKeeps DEF AgentGivesUp, AgentCrash, execVars

\* What is known of a report in flight.
LEMMA RequestFacts ==
  ASSUME IInv, NEW r \in requests
  PROVE  /\ r \in Request /\ r.task \in TaskIDs /\ r.agent \in Agents
         /\ r.status \in {"running", "success", "failed"} /\ r.seen \in Task
         /\ tasks[r.task] \in Task /\ ReportOK(r) /\ RowOK(r.task)
BY DEF IInv, TypeOK, ReportsOK, RowsOK, Request

\* A handler reads the row it will write back.
LEMMA HandlerReadKeeps ==
  ASSUME IInv, NEW r \in requests, HandlerRead(r)
  PROVE  IInv' /\ Refines
<1>1. UNCHANGED <<tasks, nextID, pc, sub, outcome, apc, atask, aresult, runs, calls,
                  hit, aFaults, cFaults>>
  BY DEF HandlerRead, execVars, agentVars, faultVars
<1>2. PICK new \in Request :
        /\ requests' = (requests \ {r}) \cup {new}
        /\ new.agent = r.agent /\ new.task = r.task /\ new.status = r.status
        /\ new.phase = "read" /\ new.seen = tasks[r.task]
  <2> DEFINE n == [r EXCEPT !.phase = "read", !.seen = tasks[r.task]]
  <2>1. r \in Request /\ tasks[r.task] \in Task
    BY RequestFacts
  <2>2. /\ n \in Request /\ n.agent = r.agent /\ n.task = r.task /\ n.status = r.status
        /\ n.phase = "read" /\ n.seen = tasks[r.task]
    BY <2>1 DEF Request
  <2>3. requests' = (requests \ {r}) \cup {n}
    BY DEF HandlerRead
  <2> QED
    BY <2>2, <2>3
<1>3. AgentSide
  BY <1>1 DEF AgentSide, RowMoves
<1>4. TypeOK'
  BY <1>1, <1>2 DEF IInv, TypeOK
<1>5. HoldersOK'
  BY <1>1, HolderFrame DEF IInv, HoldersOK
<1>6. ReportsOK'
  <2>1. ReportOK(r)
    BY RequestFacts
  <2>2. ReportOK(new)'
    BY <1>1, <1>2, <2>1 DEF ReportOK, Waiting
  <2>3. \A q \in requests : ReportOK(q)'
    BY <1>1, RequestFacts, ReportFrame
  <2> QED
    BY <1>2, <2>2, <2>3 DEF ReportsOK
<1>7. OneReportPerTask'
  BY <1>2 DEF IInv, OneReportPerTask
<1>8. Refines
  BY <1>1, QuietRefines
<1> QED
  BY <1>3, <1>4, <1>5, <1>6, <1>7, <1>8, AgentSideIInv

\* A report without a sender disappears.
LEMMA HandlerDropKeeps ==
  ASSUME IInv, NEW r \in requests, HandlerDrop(r)
  PROVE  IInv' /\ Refines
<1>1. /\ requests' = requests \ {r}
      /\ UNCHANGED <<tasks, nextID, pc, sub, outcome, apc, atask, aresult, runs, calls,
                     hit, aFaults, cFaults>>
  BY DEF HandlerDrop, execVars, agentVars, faultVars
<1>2. AgentSide
  BY <1>1 DEF AgentSide, RowMoves
<1>3. TypeOK'
  BY <1>1 DEF IInv, TypeOK
<1>4. HoldersOK'
  BY <1>1, HolderFrame DEF IInv, HoldersOK
<1>5. \A q \in requests : ReportOK(q)'
  BY <1>1, RequestFacts, ReportFrame
<1>6. ReportsOK' /\ OneReportPerTask'
  BY <1>1, <1>5 DEF IInv, ReportsOK, OneReportPerTask
<1>7. Refines
  BY <1>1, QuietRefines
<1> QED
  BY <1>2, <1>3, <1>4, <1>6, <1>7, AgentSideIInv

\* The row a handler writes back is the row of the table with the report's
\* status: nothing was written in between.
WriteEffect(r) ==
  /\ tasks' \in [TaskIDs -> Task]
  /\ tasks'[r.task].status = r.status /\ tasks'[r.task].agent = r.agent
  /\ \A t \in TaskIDs : t # r.task => tasks'[t] = tasks[t]
  /\ tasks[r.task].agent = r.agent
  /\ tasks[r.task].status = IF r.status = "running" THEN "dispatched" ELSE "running"
  /\ runs[r.task] = IF r.status = "running" THEN 0 ELSE 1

\* WriteEffect follows from the invariant: the row that was read is current.
LEMMA WriteFacts ==
  ASSUME IInv, NEW r \in requests, HandlerWrite(r)
  PROVE  WriteEffect(r)
<1>1. /\ r \in Request /\ r.task \in TaskIDs /\ r.agent \in Agents
      /\ r.status \in {"running", "success", "failed"} /\ r.seen \in Task
      /\ ReportOK(r) /\ RowOK(r.task)
  BY RequestFacts
<1>2. /\ r.phase = "read" /\ tasks' = [tasks EXCEPT ![r.task] = Reported(r)]
      /\ tasks \in [TaskIDs -> Task]
  BY DEF HandlerWrite, IInv, TypeOK
<1>3. r.seen = tasks[r.task] /\ tasks[r.task].agent = r.agent /\ r.agent # NoAgent
  BY <1>1, <1>2, NoAgentIsNone DEF ReportOK
<1>4. Reported(r) \in Task /\ Reported(r).status = r.status /\ Reported(r).agent = r.seen.agent
  <2>1. PICK s \in Statuses : s = r.status
    BY <1>1 DEF Statuses, Terminal
  <2>2. PICK g \in 0 .. 100 : g = IF r.status = "running" THEN 70 ELSE 100
    OBVIOUS
  <2>3. Reported(r) = [r.seen EXCEPT !.status = s, !.progress = g]
    BY <2>1, <2>2 DEF Reported
  <2>4. Reported(r) \in Task /\ Reported(r).status = s /\ Reported(r).agent = r.seen.agent
    BY <1>1, <2>3 DEF Task
  <2> QED
    BY <2>1, <2>4
<1>5. /\ tasks[r.task].status = IF r.status = "running" THEN "dispatched" ELSE "running"
      /\ runs[r.task] = IF r.status = "running" THEN 0 ELSE 1
  BY <1>1, <1>3 DEF ReportOK, RowOK
<1> QED
  BY <1>1, <1>2, <1>3, <1>4, <1>5 DEF WriteEffect

\* A report begins or closes a task of the ledger.
LEMMA WriteRefines ==
  ASSUME NEW r, r.task \in TaskIDs, r.agent \in Agents,
         r.status \in {"running", "success", "failed"}, WriteEffect(r), runs' = runs
  PROVE  Refines
<1>1. RowsFinal
  BY DEF WriteEffect, RowsFinal, Terminal
<1>2. PICK t \in TaskIDs : t = r.task
  OBVIOUS
<1>3. statusOf' = [statusOf EXCEPT ![t] = r.status] /\ delegatedOf' = delegatedOf
  BY <1>2, OneRow DEF WriteEffect
<1>4. t \in delegatedOf
  BY <1>2, NoAgentIsNone DEF WriteEffect, delegatedOf, IsAgentTask
<1>5. CASE r.status = "running"
  <2>1. statusOf[t] = "dispatched"
    BY <1>2, <1>5 DEF WriteEffect, statusOf
  <2>2. Ledger!Begin(t)
    BY <1>3, <1>4, <1>5, <2>1 DEF Ledger!Begin, statusOf, delegatedOf
  <2> QED
    BY <1>1, <2>2 DEF Refines, Ledger!Next
<1>6. CASE r.status # "running"
  <2>1. statusOf[t] = "running" /\ runs[t] = 1
    BY <1>2, <1>6 DEF WriteEffect, statusOf
  <2>2. Ledger!Close(t)
    BY <1>3, <1>4, <1>6, <2>1 DEF Ledger!Close, statusOf, delegatedOf
  <2> QED
    BY <1>1, <2>2 DEF Refines, Ledger!Next
<1> QED
  BY <1>5, <1>6

\* A handler writes: the sender, if it still waits, goes on; nobody else is hurt.
LEMMA HandlerWriteKeeps ==
  ASSUME IInv, NEW r \in requests, HandlerWrite(r)
  PROVE  IInv' /\ Refines
<1>1. /\ r.task \in TaskIDs /\ r.agent \in Agents
      /\ r.status \in {"running", "success", "failed"} /\ ReportOK(r)
  BY RequestFacts
<1>2. WriteEffect(r)
  BY WriteFacts
<1>3. /\ requests' = requests \ {r}
      /\ UNCHANGED <<nextID, pc, sub, outcome, runs, calls, hit, aFaults, cFaults>>
  BY DEF HandlerWrite, execVars, faultVars
<1>4. \/ /\ Waiting(r) /\ r.status = "running"
         /\ apc' = [apc EXCEPT ![r.agent] = "execute"] /\ UNCHANGED <<atask, aresult>>
      \/ /\ Waiting(r) /\ r.status # "running" /\ Release(r.agent)
      \/ /\ ~ Waiting(r) /\ UNCHANGED <<apc, atask, aresult>>
  BY DEF HandlerWrite, agentVars
<1>5. AgentSide
  BY <1>1, <1>2, <1>3, NoAgentIsNone DEF AgentSide, RowMoves, WriteEffect
<1>6. TypeOK'
  BY <1>1, <1>2, <1>3, <1>4 DEF IInv, TypeOK, WriteEffect, AgentPC, Release
<1>7. HoldersOK'
  <2> SUFFICES ASSUME NEW b \in Agents PROVE HolderOK(b)'
    BY DEF HoldersOK
  <2>1. HolderOK(b)
    BY DEF IInv, HoldersOK
  <2>2. CASE b = r.agent /\ Waiting(r) /\ r.status = "running"
    BY <1>1, <1>2, <1>3, <1>4, <2>1, <2>2 DEF HolderOK, WriteEffect, Waiting, IInv, TypeOK
  <2>3. CASE b = r.agent /\ Waiting(r) /\ r.status # "running"
    BY <1>1, <1>4, <2>3 DEF HolderOK, Release, IInv, TypeOK
  <2>4. CASE ~ (b = r.agent /\ Waiting(r))
    <3>1. apc'[b] = apc[b] /\ atask'[b] = atask[b] /\ aresult'[b] = aresult[b]
      BY <1>1, <1>4, <2>4 DEF Release, IInv, TypeOK
    <3>2. atask[b] \in TaskIDs => atask[b] # r.task
      BY <1>1, <1>2, <2>1, <2>4 DEF HolderOK, ReportOK, WriteEffect, NoID, TaskIDs
    <3> QED
      BY <1>2, <1>3, <2>1, <3>1, <3>2, HolderFrame DEF WriteEffect
  <2> QED
    BY <2>2, <2>3, <2>4
<1>8. ReportsOK' /\ OneReportPerTask'
  <2>1. \A q \in requests \ {r} : q.task # r.task /\ q.task \in TaskIDs /\ q.agent \in Agents
    BY RequestFacts DEF IInv, OneReportPerTask
  <2>2. \A q \in requests \ {r} : atask'[q.agent] = q.task =>
                                   atask[q.agent] = q.task /\ apc'[q.agent] = apc[q.agent]
    BY <1>1, <1>4, <2>1 DEF Release, Waiting, IInv, TypeOK, NoID, TaskIDs
  <2>3. \A q \in requests \ {r} : ReportOK(q)'
    BY <1>2, <1>3, <2>1, <2>2, RequestFacts, ReportFrame DEF WriteEffect
  <2> QED
    BY <1>3, <2>3 DEF IInv, ReportsOK, OneReportPerTask
<1>9. Refines
  BY <1>1, <1>2, <1>3, WriteRefines
<1> QED
  BY <1>5, <1>6, <1>7, <1>8, <1>9, AgentSideIInv

\* A restart of the controller only forgets.
LEMMA ControllerCrashKeeps ==
  ASSUME IInv, ControllerCrash
  PROVE  IInv' /\ Refines
<1>1. /\ pc' = [p \in TaskIDs |-> "none"] /\ outcome' = [p \in TaskIDs |-> "none"]
      /\ requests' = {}
      /\ UNCHANGED <<tasks, nextID, sub, runs, calls>>
  BY DEF ControllerCrash
<1>2. /\ apc' \in [Agents -> AgentPC] /\ atask' \in [Agents -> TaskIDs \cup {NoID}]
      /\ aresult' \in [Agents -> {"none", "success", "failed"}]
      /\ \A a \in Agents :
           \/ apc'[a] = "idle" /\ atask'[a] = NoID
           \/ apc'[a] = apc[a] /\ atask'[a] = atask[a] /\ aresult'[a] = aresult[a]
  BY DEF ControllerCrash, IInv, TypeOK, AgentPC
<1>3. hit' \subseteq TaskIDs /\ aFaults' \in Nat /\ cFaults' \in Nat
  <2>1. \A r \in requests : r.task \in TaskIDs
    BY RequestFacts
  <2> QED
    BY <2>1 DEF ControllerCrash, ControllerFault, IInv, TypeOK
<1>4. TypeOK'
  BY <1>1, <1>2, <1>3 DEF IInv, TypeOK, ExecPC, Outcomes
<1>5. RowsOK'
  BY <1>1 DEF IInv, RowsOK, RowOK
<1>6. HoldersOK'
  BY <1>1, <1>2, HolderFrame DEF IInv, HoldersOK, HolderOK
<1>7. ReportsOK' /\ OneReportPerTask'
  BY <1>1 DEF ReportsOK, OneReportPerTask
<1>8. ExecsOK'
  BY <1>1 DEF IInv, ExecsOK, ExecOK
<1>9. SuccessIsEarned'
  BY <1>1 DEF IInv, SuccessIsEarned, IsAgentTask
<1>10. Refines
  BY <1>1, QuietRefines
<1> QED
  BY <1>10, <1>4, <1>5, <1>6, <1>7, <1>8, <1>9 DEF IInv

\* A stuttering step.
LEMMA StutterKeeps ==
  ASSUME IInv, UNCHANGED vars
  PROVE  IInv' /\ Refines
<1>1. UNCHANGED <<tasks, nextID, pc, sub, outcome, apc, atask, aresult, requests,
                  runs, calls, hit, aFaults, cFaults>>
  BY DEF vars
<1>2. AgentSide
  BY <1>1 DEF AgentSide, RowMoves
<1>3. TypeOK'
  BY <1>1 DEF IInv, TypeOK
<1>4. HoldersOK'
  BY <1>1, HolderFrame DEF IInv, HoldersOK
<1>5. \A q \in requests : ReportOK(q)'
  BY <1>1, RequestFacts, ReportFrame
<1>6. ReportsOK' /\ OneReportPerTask'
  BY <1>1, <1>5 DEF IInv, ReportsOK, OneReportPerTask
<1>7. Refines
  BY <1>1, QuietRefines
<1> QED
  BY <1>2, <1>3, <1>4, <1>6, <1>7, AgentSideIInv

\* Every step keeps the invariant and refines the ledger.
LEMMA NextKeeps == IInv /\ [Next]_vars => IInv' /\ Refines
<1> SUFFICES ASSUME IInv, [Next]_vars PROVE IInv' /\ Refines
  OBVIOUS
<1>1. ASSUME NEW type \in RuntimeRequests, CreateRuntimeTask(type) PROVE IInv' /\ Refines
  BY <1>1, CreateKeeps, RequestsAreKnown
<1>2. ASSUME NEW type \in NodeRequests, NEW a \in Agents, CreateAgentNodeTask(type, a) PROVE IInv' /\ Refines
  BY <1>2, CreateAgentRowKeeps, RequestsAreKnown
<1>3. ASSUME NEW p \in TaskIDs, ExecStep(p) PROVE IInv' /\ Refines
  BY <1>3, ExecStepKeeps
<1>4. ASSUME NEW a \in Agents, AgentStep(a) PROVE IInv' /\ Refines
  BY <1>4, AgentPollKeeps, AgentReportKeeps, AgentExecuteKeeps DEF AgentStep
<1>5. ASSUME NEW a \in Agents, NEW t \in TaskIDs, AgentPollLost(a, t) PROVE IInv' /\ Refines
  BY <1>5, AgentPollLostKeeps
<1>6. ASSUME NEW a \in Agents, AgentGivesUp(a) \/ AgentCrash(a) PROVE IInv' /\ Refines
  BY <1>6, AgentFaultKeeps
<1>7. ASSUME NEW r \in requests, HandlerStep(r) \/ HandlerDrop(r) PROVE IInv' /\ Refines
  BY <1>7, HandlerReadKeeps, HandlerWriteKeeps, HandlerDropKeeps DEF HandlerStep
<1>8. CASE ControllerCrash
  BY <1>8, ControllerCrashKeeps
<1>9. CASE UNCHANGED vars
  BY <1>9, StutterKeeps
<1> QED
  BY <1>1, <1>2, <1>3, <1>4, <1>5, <1>6, <1>7, <1>8, <1>9 DEF Next

-----------------------------------------------------------------------------
(* Why an unfinished row has an owner or a fault to blame.  A waiting agent *)
(* has its report in flight, so a crash of the controller that cuts the     *)
(* agent off names its task among those it has hit.                         *)

WaiterHeard(a) ==
  apc[a] \in {"waitRun", "waitFinal"} =>
    \E r \in requests : r.agent = a /\ r.task = atask[a]

Explained(t) ==
  tasks[t].status \notin Terminal \cup {"absent"} /\ t \notin hit =>
    IF IsAgentTask(t) THEN tasks[t].status = "pending" \/ Held(t)
                      ELSE pc[t] # "none"

\* The strengthening of StuckOnlyByFault; it rests on IInv before and after.
OwnedInv ==
  /\ \A t \in TaskIDs : Explained(t)
  /\ \A a \in Agents : WaiterHeard(a)

\* A task whose row is left alone and that keeps its owner.
LEMMA ExplainedFrame ==
  ASSUME NEW t \in TaskIDs, Explained(t),
         tasks'[t] = tasks[t], hit \subseteq hit',
         pc[t] # "none" => pc'[t] # "none" \/ t \in hit',
         \A a \in Agents : atask[a] = t => atask'[a] = t \/ t \in hit'
  PROVE  Explained(t)'
BY DEF Explained, IsAgentTask, Held

\* An agent that stays where it is and whose reports stay in flight.
LEMMA WaiterFrame ==
  ASSUME NEW a \in Agents, WaiterHeard(a), apc'[a] = apc[a], atask'[a] = atask[a],
         \A r \in requests : r.agent = a /\ r.task = atask[a] =>
           \E q \in requests' : q.agent = a /\ q.task = atask[a]
  PROVE  WaiterHeard(a)'
BY DEF WaiterHeard

\* A client's request adds a row that is pending, and a goroutine for a
\* runtime task.
LEMMA CreationOwned ==
  ASSUME IInv, OwnedInv, NEW type, NEW agent,
         InsertTask(type, agent), UNCHANGED <<apc, atask, requests, hit>>,
         \A t \in TaskIDs : pc'[t] = pc[t] \/ pc'[t] # "none",
         agent = NoAgent => pc'[nextID] # "none"
  PROVE  OwnedInv'
<1>0. PICK n \in TaskIDs : n = nextID
  BY DEF InsertTask
<1>1. /\ tasks'[n] = NewTask(type, agent)
      /\ \A t \in TaskIDs : t # n => tasks'[t] = tasks[t]
  BY <1>0 DEF InsertTask, IInv, TypeOK
<1>2. Explained(n)'
  BY <1>0, <1>1 DEF Explained, IsAgentTask, NewTask
<1>3. \A t \in TaskIDs : t # n => Explained(t)'
  BY <1>1, ExplainedFrame DEF OwnedInv
<1>4. \A a \in Agents : WaiterHeard(a)'
  BY WaiterFrame DEF OwnedInv
<1> QED
  BY <1>2, <1>3, <1>4 DEF OwnedInv

\* A goroutine leaves its row unfinished only if its last write is lost.
LEMMA ExecOwned ==
  ASSUME IInv, IInv', OwnedInv, NEW p \in TaskIDs, ExecStep(p)
  PROVE  OwnedInv'
<1> DEFINE quiet == UNCHANGED <<apc, atask, requests>> /\ hit \subseteq hit'
           others == \A t \in TaskIDs : t # p =>
                       /\ pc'[t] = pc[t]
                       /\ \/ tasks'[t] = tasks[t]
                          \/ tasks'[t].status = "pending" /\ tasks'[t].agent # NoAgent
           goal == quiet /\ others /\ (pc'[p] # "none" \/ Explained(p)')
<1>0. /\ tasks \in [TaskIDs -> Task] /\ pc \in [TaskIDs -> ExecPC]
      /\ (pc[p] # "none" => tasks[p].agent = NoAgent)
      /\ (pc[p] = "await" => tasks[sub[p]].agent # NoAgent)
      /\ (pc[p] = "finish" => outcome[p] \in Outcomes \ {"none"})
  BY DEF IInv, TypeOK, ExecsOK, ExecOK
<1>1. ASSUME ExecDispatch(p) \/ ExecBegin(p) \/ ExecFallback(p) \/ ExecRestartPatch(p)
      PROVE  goal
  <2>1. quiet
    BY <1>1 DEF ExecDispatch, ExecBegin, ExecFallback, ExecRestartPatch, PatchTask,
                ControllerFault, agentVars, faultVars
  <2>2. others /\ pc'[p] # "none"
    BY <1>0, <1>1 DEF ExecDispatch, ExecBegin, ExecFallback, ExecRestartPatch, PatchTask
  <2> QED
    BY <2>1, <2>2
<1>2. ASSUME \/ ExecSkipAgent(p) \/ ExecDelegateFails(p) \/ ExecAwaitTimeout(p)
             \/ ExecDirect(p) \/ ExecRestartStop(p)
      PROVE  goal
  BY <1>0, <1>2 DEF ExecSkipAgent, ExecDelegateFails, ExecAwaitTimeout, ExecDirect,
                    ExecRestartStop, agentVars, faultVars
<1>3. ASSUME NEW a \in Agents, ExecDelegate(p, a) PROVE goal
  <2>1. quiet /\ pc'[p] # "none"
    BY <1>0, <1>3 DEF ExecDelegate, agentVars, faultVars
  <2>2. others
    BY <1>0, <1>3, NoAgentIsNone DEF ExecDelegate, InsertTask, NewTask
  <2> QED
    BY <2>1, <2>2
<1>4. ASSUME ExecAwaitDone(p) PROVE goal
  <2>1. quiet /\ pc'[p] # "none"
    BY <1>0, <1>4 DEF ExecAwaitDone, agentVars, faultVars
  <2>2. others
    BY <1>0, <1>4 DEF ExecAwaitDone, SnapshotAfter, InsertTask, NewTask
  <2> QED
    BY <2>1, <2>2
<1>5. ASSUME ExecFinish(p) PROVE goal
  <2>1. quiet /\ others
    BY <1>0, <1>5 DEF ExecFinish, PatchTask, ControllerFault, agentVars, faultVars
  <2>2. FinalRow(tasks[p], outcome[p]).status \in Terminal
    BY <1>0, <1>5 DEF ExecFinish, FinalRow, Outcomes, Terminal, Task
  <2>3. Explained(p)'
    BY <1>0, <1>5, <2>2 DEF ExecFinish, PatchTask, ControllerFault, Explained
  <2> QED
    BY <2>1, <2>3
<1>6. goal
  BY <1>1, <1>2, <1>3, <1>4, <1>5 DEF ExecStep
<1>7. Explained(p)'
  <2>1. CASE pc'[p] # "none"
    BY <2>1 DEF IInv, ExecsOK, ExecOK, Explained, IsAgentTask
  <2> QED
    BY <1>6, <2>1
<1>8. ASSUME NEW t \in TaskIDs, t # p PROVE Explained(t)'
  <2>1. CASE tasks'[t] = tasks[t]
    BY <1>6, <1>8, <2>1, ExplainedFrame DEF OwnedInv
  <2>2. CASE tasks'[t] # tasks[t]
    BY <1>6, <1>8, <2>2 DEF Explained, IsAgentTask
  <2> QED
    BY <2>1, <2>2
<1>9. \A a \in Agents : WaiterHeard(a)'
  BY <1>6, WaiterFrame DEF OwnedInv
<1> QED
  BY <1>7, <1>8, <1>9 DEF OwnedInv

\* An agent takes a task for itself, or the answer is lost and the task is hit.
LEMMA ClaimOwned ==
  ASSUME IInv, OwnedInv, NEW a \in Agents, NEW t \in TaskIDs,
         AgentPoll(a, t) \/ AgentPollLost(a, t)
  PROVE  OwnedInv'
<1>0. /\ tasks \in [TaskIDs -> Task] /\ atask \in [Agents -> TaskIDs \cup {NoID}]
      /\ apc \in [Agents -> AgentPC]
      /\ apc[a] = "idle" => atask[a] = NoID
  BY DEF IInv, TypeOK, HoldersOK, HolderOK
<1>1. /\ UNCHANGED <<pc, requests>> /\ apc[a] = "idle" /\ hit \subseteq hit'
      /\ \A u \in TaskIDs : u # t => tasks'[u] = tasks[u]
  BY <1>0 DEF AgentPoll, AgentPollLost, Claim, execVars, faultVars, AgentFault
<1>2. tasks'[t].agent = a
  BY ClaimFacts DEF ClaimEffect, AgentPoll, AgentPollLost
<1>3. \A b \in Agents : b # a => apc'[b] = apc[b] /\ atask'[b] = atask[b]
  BY <1>0 DEF AgentPoll, AgentPollLost, agentVars
<1>4. atask'[a] = t \/ t \in hit'
  BY <1>0 DEF AgentPoll, AgentPollLost, AgentFault
<1>5. Explained(t)'
  BY <1>4, <1>2, NoAgentIsNone DEF Explained, IsAgentTask, Held
<1>6. \A u \in TaskIDs : atask[a] # u
  BY <1>0, <1>1 DEF TaskIDs, NoID
<1>7. \A u \in TaskIDs : u # t => Explained(u)'
  BY <1>1, <1>3, <1>6, ExplainedFrame DEF OwnedInv
<1>8. apc'[a] \in {"idle", "claimed"}
  BY <1>0, <1>1 DEF AgentPoll, AgentPollLost, agentVars
<1>9. \A b \in Agents : WaiterHeard(b)'
  BY <1>1, <1>3, <1>8, WaiterFrame DEF OwnedInv, WaiterHeard
<1> QED
  BY <1>5, <1>7, <1>9 DEF OwnedInv

\* The agent works on, or sends a report and waits for its answer.
LEMMA WorkOwned ==
  ASSUME IInv, OwnedInv, NEW a \in Agents,
         AgentReportRunning(a) \/ AgentExecute(a) \/ AgentReportFinal(a)
  PROVE  OwnedInv'
<1>0. apc \in [Agents -> AgentPC]
  BY DEF IInv, TypeOK
<1>1. /\ UNCHANGED <<tasks, pc, atask, hit>> /\ requests \subseteq requests'
      /\ \A b \in Agents : b # a => apc'[b] = apc[b]
  BY <1>0 DEF AgentReportRunning, AgentExecute, AgentReportFinal, Send, execVars, faultVars
<1>2. WaiterHeard(a)'
  BY <1>0 DEF AgentReportRunning, AgentExecute, AgentReportFinal, Send, WaiterHeard
<1>3. \A b \in Agents : b # a => WaiterHeard(b)'
  BY <1>1, WaiterFrame DEF OwnedInv
<1>4. \A t \in TaskIDs : Explained(t)'
  BY <1>1, ExplainedFrame DEF OwnedInv
<1> QED
  BY <1>2, <1>3, <1>4 DEF OwnedInv

\* An agent that gives up or dies hits the task it held.
LEMMA AgentFaultOwned ==
  ASSUME IInv, OwnedInv, NEW a \in Agents, AgentGivesUp(a) \/ AgentCrash(a)
  PROVE  OwnedInv'
<1>0. apc \in [Agents -> AgentPC] /\ atask \in [Agents -> TaskIDs \cup {NoID}]
  BY DEF IInv, TypeOK
<1>1. /\ UNCHANGED <<tasks, pc, requests>> /\ hit' = hit \cup {atask[a]}
      /\ apc'[a] = "idle"
      /\ \A b \in Agents : b # a => apc'[b] = apc[b] /\ atask'[b] = atask[b]
  BY <1>0 DEF AgentGivesUp, AgentCrash, AgentFault, Release, execVars
<1>2. \A t \in TaskIDs : Explained(t)'
  BY <1>1, ExplainedFrame DEF OwnedInv
<1>3. \A b \in Agents : WaiterHeard(b)'
  BY <1>1, WaiterFrame DEF OwnedInv, WaiterHeard
<1> QED
  BY <1>2, <1>3 DEF OwnedInv

\* A report that is read, dropped or written is not the one another agent
\* waits for.
LEMMA HandlerOwned ==
  ASSUME IInv, OwnedInv, NEW r \in requests, HandlerStep(r) \/ HandlerDrop(r)
  PROVE  OwnedInv'
<1>0. /\ r \in Request /\ r.agent \in Agents /\ r.task \in TaskIDs /\ ReportOK(r)
      /\ tasks \in [TaskIDs -> Task] /\ apc \in [Agents -> AgentPC]
      /\ tasks[r.task].agent = r.agent
      /\ atask[r.agent] = r.task => Waiting(r)
  BY DEF IInv, TypeOK, ReportsOK, ReportOK, Request
<1>1. CASE HandlerRead(r)
  <2>1. UNCHANGED <<tasks, pc, apc, atask, hit>>
    BY <1>1 DEF HandlerRead, execVars, agentVars, faultVars
  <2>2. \A t \in TaskIDs : Explained(t)'
    BY <2>1, ExplainedFrame DEF OwnedInv
  <2> DEFINE q == [r EXCEPT !.phase = "read", !.seen = tasks[r.task]]
  <2>3. q.agent = r.agent /\ q.task = r.task /\ requests' = (requests \ {r}) \cup {q}
    BY <1>0, <1>1 DEF HandlerRead, Request
  <2>4. \A a \in Agents : WaiterHeard(a)'
    BY <2>1, <2>3, WaiterFrame DEF OwnedInv
  <2> QED
    BY <2>2, <2>4 DEF OwnedInv
<1>2. CASE HandlerDrop(r)
  <2>1. UNCHANGED <<tasks, pc, apc, atask, hit>> /\ requests' = requests \ {r} /\ ~Waiting(r)
    BY <1>2 DEF HandlerDrop, execVars, agentVars, faultVars
  <2>2. \A t \in TaskIDs : Explained(t)'
    BY <2>1, ExplainedFrame DEF OwnedInv
  <2>3. \A a \in Agents : WaiterHeard(a)'
    BY <1>0, <2>1, WaiterFrame DEF OwnedInv
  <2> QED
    BY <2>2, <2>3 DEF OwnedInv
<1>3. CASE HandlerWrite(r)
  <2>1. /\ UNCHANGED <<pc, hit>> /\ requests' = requests \ {r}
        /\ \A t \in TaskIDs : t # r.task => tasks'[t] = tasks[t]
        /\ tasks'[r.task] = Reported(r)
    BY <1>0, <1>3 DEF HandlerWrite, execVars, faultVars
  <2>2. /\ \A a \in Agents : a # r.agent => apc'[a] = apc[a] /\ atask'[a] = atask[a]
        /\ ~Waiting(r) => apc'[r.agent] = apc[r.agent] /\ atask'[r.agent] = atask[r.agent]
        /\ Waiting(r) => apc'[r.agent] \in {"idle", "execute"}
        /\ r.status = "running" => UNCHANGED atask
    BY <1>0, <1>3 DEF HandlerWrite, Release, agentVars, IInv, TypeOK
  <2>3. Reported(r).status = r.status /\ Reported(r).agent = r.agent
    BY <1>0, <1>3 DEF HandlerWrite, Reported, ReportOK, Task, Request
  <2>4. ASSUME r.status # "running" PROVE \A t \in TaskIDs : Explained(t)'
    <3>1. Explained(r.task)'
      BY <1>0, <2>1, <2>3, <2>4 DEF Explained, Terminal, Request
    <3>2. ASSUME NEW t \in TaskIDs, t # r.task PROVE Explained(t)'
      <4>1. \A a \in Agents : atask[a] = t => atask'[a] = t
        BY <2>2, <3>2 DEF Waiting
      <4> QED
        BY <2>1, <3>2, <4>1, ExplainedFrame DEF OwnedInv
    <3> QED
      BY <3>1, <3>2
  <2>5. ASSUME r.status = "running" PROVE \A t \in TaskIDs : Explained(t)'
    <3>1. Explained(r.task) /\ tasks[r.task].status = "dispatched"
      BY <1>0, <2>5 DEF OwnedInv, ReportOK
    <3>2. Explained(r.task)'
      BY <1>0, <2>1, <2>2, <2>3, <2>5, <3>1, NoAgentIsNone
         DEF Explained, IsAgentTask, Held, Terminal
    <3>3. \A t \in TaskIDs : t # r.task => Explained(t)'
      BY <2>1, <2>2, <2>5, ExplainedFrame DEF OwnedInv
    <3> QED
      BY <3>2, <3>3
  <2>6. ASSUME NEW a \in Agents PROVE WaiterHeard(a)'
    <3>1. CASE a = r.agent /\ Waiting(r)
      BY <2>2, <3>1 DEF WaiterHeard
    <3>2. CASE ~(a = r.agent /\ Waiting(r))
      <4>1. apc'[a] = apc[a] /\ atask'[a] = atask[a]
        BY <2>2, <3>2
      <4>2. ~(r.agent = a /\ r.task = atask[a])
        BY <1>0, <3>2
      <4> QED
        BY <2>1, <4>1, <4>2, WaiterFrame DEF OwnedInv
    <3> QED
      BY <3>1, <3>2
  <2> QED
    BY <2>4, <2>5, <2>6 DEF OwnedInv
<1> QED
  BY <1>1, <1>2, <1>3 DEF HandlerStep

\* A crash of the controller hits every goroutine's task and every report's.
LEMMA CrashOwned ==
  ASSUME IInv, OwnedInv, ControllerCrash
  PROVE  OwnedInv'
<1>1. /\ tasks' = tasks
      /\ hit' = hit \cup ({p \in TaskIDs : pc[p] # "none"} \cup {r.task : r \in requests})
      /\ \A a \in Agents :
           IF apc[a] \in {"waitRun", "waitFinal"} THEN apc'[a] = "idle"
           ELSE apc'[a] = apc[a] /\ atask'[a] = atask[a]
  BY DEF ControllerCrash, ControllerFault
<1>2. \A t \in TaskIDs : pc[t] # "none" => t \in hit'
  BY <1>1
<1>3. ASSUME NEW a \in Agents, apc[a] \in {"waitRun", "waitFinal"} PROVE atask[a] \in hit'
  <2>1. PICK r \in requests : r.task = atask[a]
    BY <1>3 DEF OwnedInv, WaiterHeard
  <2> QED
    BY <1>1, <2>1
<1>4. \A t \in TaskIDs : Explained(t)'
  BY <1>1, <1>2, <1>3, ExplainedFrame DEF OwnedInv
<1>5. \A a \in Agents : WaiterHeard(a)'
  BY <1>1 DEF WaiterHeard
<1> QED
  BY <1>4, <1>5 DEF OwnedInv

\* Every step keeps the owners.
LEMMA NextOwned == IInv /\ IInv' /\ OwnedInv /\ [Next]_vars => OwnedInv'
<1> SUFFICES ASSUME IInv, IInv', OwnedInv, [Next]_vars PROVE OwnedInv'
  OBVIOUS
<1>1. ASSUME NEW type \in RuntimeRequests, CreateRuntimeTask(type) PROVE OwnedInv'
  <2>1. /\ InsertTask(type, NoAgent) /\ UNCHANGED <<apc, atask, requests, hit>>
        /\ \A t \in TaskIDs : pc'[t] = pc[t] \/ pc'[t] # "none"
        /\ pc'[nextID] # "none"
    BY <1>1 DEF CreateRuntimeTask, InsertTask, agentVars, faultVars, IInv, TypeOK
  <2> QED
    BY <2>1, CreationOwned
<1>2. ASSUME NEW type \in NodeRequests, NEW a \in Agents, CreateAgentNodeTask(type, a)
      PROVE  OwnedInv'
  <2>1. /\ InsertTask(type, a) /\ UNCHANGED <<pc, apc, atask, requests, hit>>
        /\ a # NoAgent
    BY <1>2, NoAgentIsNone DEF CreateAgentNodeTask, execVars, agentVars, faultVars
  <2> QED
    BY <2>1, CreationOwned
<1>3. ASSUME NEW p \in TaskIDs, ExecStep(p) PROVE OwnedInv'
  BY <1>3, ExecOwned
<1>4. ASSUME NEW a \in Agents, AgentStep(a) PROVE OwnedInv'
  BY <1>4, ClaimOwned, WorkOwned DEF AgentStep
<1>5. ASSUME NEW a \in Agents, NEW t \in TaskIDs, AgentPollLost(a, t) PROVE OwnedInv'
  BY <1>5, ClaimOwned
<1>6. ASSUME NEW a \in Agents, AgentGivesUp(a) \/ AgentCrash(a) PROVE OwnedInv'
  BY <1>6, AgentFaultOwned
<1>7. ASSUME NEW r \in requests, HandlerStep(r) \/ HandlerDrop(r) PROVE OwnedInv'
  BY <1>7, HandlerOwned
<1>8. CASE ControllerCrash
  BY <1>8, CrashOwned
<1>9. CASE UNCHANGED vars
  BY <1>9 DEF vars, OwnedInv, Explained, WaiterHeard, IsAgentTask, Held
<1> QED
  BY <1>1, <1>2, <1>3, <1>4, <1>5, <1>6, <1>7, <1>8, <1>9 DEF Next

-----------------------------------------------------------------------------
\* The inductive invariant holds in every reachable state.
THEOREM Invariance == Spec => []IInv
BY InitIInv, NextKeeps, PTL DEF Spec

\* Every variable keeps its type: rows, program counters, reports, histories.
THEOREM TypeCorrect == Spec => []TypeOK
<1>1. IInv => TypeOK
  BY DEF IInv
<1> QED
  BY <1>1, Invariance, PTL

\* No agent task is carried out twice, whatever is lost, late or restarted.
THEOREM RunAtMostOnce == Spec => []AtMostOneRun
<1>1. IInv => AtMostOneRun
  <2> SUFFICES ASSUME IInv, NEW t \in TaskIDs PROVE runs[t] <= 1
    BY DEF AtMostOneRun
  <2>1. RowOK(t) /\ tasks[t] \in Task /\ runs[t] \in Nat
    BY DEF IInv, RowsOK, TypeOK
  <2>2. CASE tasks[t].status = "absent"
    <3>1. tasks[t].agent = NoAgent
      BY <2>1, <2>2 DEF RowOK, NoTask
    <3> QED
      BY <2>1, <3>1 DEF RowOK
  <2>3. CASE tasks[t].status # "absent"
    BY <2>1, <2>3 DEF RowOK, Task, Statuses, Terminal
  <2> QED
    BY <2>2, <2>3
<1> QED
  BY <1>1, Invariance, PTL

\* A recorded success is backed by the run or the call it stands for.
THEOREM SuccessBacked == Spec => []SuccessIsEarned
<1>1. IInv => SuccessIsEarned
  BY DEF IInv
<1> QED
  BY <1>1, Invariance, PTL

\* An unfinished task is in somebody's hands, or a fault has touched it.
THEOREM UnfinishedIsOwned == Spec => []StuckOnlyByFault
<1>1. Init => OwnedInv
  BY DEF Init, OwnedInv, Explained, WaiterHeard, NoTask
<1>2. OwnedInv => StuckOnlyByFault
  BY DEF OwnedInv, Explained, StuckOnlyByFault
<1> QED
  BY <1>1, <1>2, NextOwned, Invariance, PTL DEF Spec

\* A terminal row is never written again, although no handler checks for it.
THEOREM TerminalRowsStay == Spec => TerminalIsFinal
<1>1. IInv /\ [Next]_vars =>
        [\A t \in TaskIDs : tasks[t].status \in Terminal => tasks'[t] = tasks[t]]_vars
  BY NextKeeps DEF Refines, RowsFinal
<1> QED
  BY <1>1, Invariance, PTL DEF Spec, TerminalIsFinal

\* The task table with its handlers, goroutines and agents implements the ledger.
THEOREM ImplementsLedger == Spec => LedgerSpec
<1>1. Init => Ledger!Init
  BY DEF Init, Ledger!Init, NoTask, IsAgentTask
<1>2. IInv /\ [Next]_vars => [Ledger!Next]_(Ledger!vars)
  <2> SUFFICES ASSUME IInv, [Next]_vars PROVE Ledger!Next \/ UNCHANGED Ledger!vars
    OBVIOUS
  <2>1. Ledger!Next \/ (statusOf' = statusOf /\ delegatedOf' = delegatedOf /\ runs' = runs)
    BY NextKeeps DEF Refines
  <2> QED
    BY <2>1 DEF Ledger!vars, statusOf, delegatedOf
<1> QED
  BY <1>1, <1>2, Invariance, PTL DEF Spec, LedgerSpec, Ledger!Spec
=============================================================================
