---------------------------- MODULE TaskProtocol ----------------------------
(***************************************************************************)
(* How a task is created, delegated, executed and reported.                *)
(*                                                                         *)
(*   controller   one goroutine per runtime task (executeRuntimeTask) that *)
(*                patches the task's row, delegates the work to an agent   *)
(*                as a sub-task when the node prefers its local agent,     *)
(*                waits for it at most 40 s, and otherwise (or when the    *)
(*                wait fails) calls the model service itself;              *)
(*   task table   the SQLite rows; a claim is one transaction, a report is *)
(*                a read and a later whole-row upsert;                     *)
(*   agent        one loop that polls, reports "running", executes and     *)
(*                reports the result, and gives up on any failed call.     *)
(*                                                                         *)
(* Time is abstracted: a time limit may expire at any moment at which the  *)
(* code is waiting.  Payloads, messages and timestamps are left out; what  *)
(* remains of "detail" is the execution path it records.                   *)
(***************************************************************************)
EXTENDS Naturals, FiniteSets

CONSTANTS
  RuntimeRequests,      \* the runtime actions clients ask for
  NodeRequests,         \* the node-local agent actions clients ask for
  Agents,               \* ids of the registered agents
  NoAgent,              \* assigned_agent_id = ''
  MaxTasks,             \* bound: rows the table can hold
  MaxAgentFaults,       \* bound: agent crashes, lost replies, abandoned calls
  MaxControllerFaults   \* bound: controller crashes, failed row writes

ASSUME NoAgentIsNone == NoAgent \notin Agents
ASSUME BoundsAreNat ==
  /\ MaxTasks \in Nat
  /\ MaxAgentFaults \in Nat
  /\ MaxControllerFaults \in Nat

RuntimeTypes == {"start", "stop", "restart", "refresh"}
AgentTypes == {"docker_start", "docker_stop", "docker_inspect", "resource_snapshot"}

ASSUME RequestsAreKnown ==
  /\ RuntimeRequests \subseteq RuntimeTypes
  /\ NodeRequests \subseteq AgentTypes

\* newTaskID stamps UnixNano: ids grow in the order of creation, which is the
\* created_at order the claim sorts by.
TaskIDs == 1 .. MaxTasks
NoID == 0

Terminal == {"success", "failed", "timeout", "canceled"}
Statuses == {"absent", "pending", "dispatched", "running"} \cup Terminal

\* The runtime actions an agent can take over; "restart" is not among them.
DelegableTypes == {"start", "stop", "refresh"}
AgentTypeFor(type) ==
  [start |-> "docker_start", stop |-> "docker_stop", refresh |-> "docker_inspect"][type]

\* detail.execution_path: "controller" when a runtime task is created,
\* "agent" once a delegated run succeeded, "fallback" once it was given up.
Paths == {"controller", "agent", "fallback"}

Task == [type : RuntimeTypes \cup AgentTypes \cup {"none"},
         agent : Agents \cup {NoAgent},
         status : Statuses,
         progress : 0 .. 100,
         path : Paths]

NoTask == [type |-> "none", agent |-> NoAgent, status |-> "absent",
           progress |-> 0, path |-> "controller"]

Request == [agent : Agents, task : TaskIDs,
            status : {"running", "success", "failed"},
            phase : {"sent", "read"},
            seen : Task]

VARIABLES
  tasks,      \* the rows of table tasks, NoTask where there is none yet
  nextID,     \* the next id newTaskID would give
  pc,         \* pc[p]: where the goroutine of runtime task p is
  sub,        \* sub[p]: the agent sub-task p waits or waited for
  outcome,    \* outcome[p]: what the goroutine of p will write last
  apc,        \* apc[a]: where agent a's loop is
  atask,      \* atask[a]: the task it holds
  aresult,    \* aresult[a]: the result it is about to report
  requests,   \* report calls the controller has not answered
  runs,       \* history: how often an agent executed task t
  calls,      \* history: how often the goroutine of p called the model service
  hit,        \* history: the tasks a fault has touched
  aFaults, cFaults

execVars  == <<pc, sub, outcome>>
agentVars == <<apc, atask, aresult>>
faultVars == <<hit, aFaults, cFaults>>
vars == <<tasks, nextID, pc, sub, outcome, apc, atask, aresult, requests,
          runs, calls, hit, aFaults, cFaults>>

ExecPC  == {"none", "dispatch", "begin", "route", "await", "fallback",
            "direct", "restartPatch", "restartStart", "finish"}
AgentPC == {"idle", "claimed", "waitRun", "execute", "executed", "waitFinal"}
Outcomes == {"none", "agent", "success", "failed", "timeout"}

TypeOK ==
  /\ tasks \in [TaskIDs -> Task]
  /\ nextID \in 1 .. MaxTasks + 1
  /\ pc \in [TaskIDs -> ExecPC]
  /\ sub \in [TaskIDs -> TaskIDs \cup {NoID}]
  /\ outcome \in [TaskIDs -> Outcomes]
  /\ apc \in [Agents -> AgentPC]
  /\ atask \in [Agents -> TaskIDs \cup {NoID}]
  /\ aresult \in [Agents -> {"none", "success", "failed"}]
  /\ requests \subseteq Request
  /\ runs \in [TaskIDs -> Nat]
  /\ calls \in [TaskIDs -> Nat]
  /\ hit \subseteq TaskIDs
  /\ aFaults \in Nat
  /\ cFaults \in Nat

Init ==
  /\ tasks = [t \in TaskIDs |-> NoTask]
  /\ nextID = 1
  /\ pc = [t \in TaskIDs |-> "none"]
  /\ sub = [t \in TaskIDs |-> NoID]
  /\ outcome = [t \in TaskIDs |-> "none"]
  /\ apc = [a \in Agents |-> "idle"]
  /\ atask = [a \in Agents |-> NoID]
  /\ aresult = [a \in Agents |-> "none"]
  /\ requests = {}
  /\ runs = [t \in TaskIDs |-> 0]
  /\ calls = [t \in TaskIDs |-> 0]
  /\ hit = {}
  /\ aFaults = 0
  /\ cFaults = 0

\* Mutation: progress values are added up instead of compared.
Max2_Sum(m, n) == m + n

Max2(m, n) == IF m > n THEN m ELSE n

AgentFault(hurt) ==
  /\ aFaults < MaxAgentFaults
  /\ aFaults' = aFaults + 1
  /\ hit' = hit \cup hurt
  /\ UNCHANGED cFaults

ControllerFault(hurt) ==
  /\ cFaults < MaxControllerFaults
  /\ cFaults' = cFaults + 1
  /\ hit' = hit \cup hurt
  /\ UNCHANGED aFaults

-----------------------------------------------------------------------------
(* Creating rows.                                                          *)

NewTask(type, agent) ==
  [type |-> type, agent |-> agent, status |-> "pending",
   progress |-> 0, path |-> "controller"]

InsertTask(type, agent) ==
  /\ nextID \in TaskIDs
  /\ tasks' = [tasks EXCEPT ![nextID] = NewTask(type, agent)]
  /\ nextID' = nextID + 1

\* POST /tasks/runtime/...: the row is written, then the goroutine is started.
\* A start or restart the gating refuses writes nothing and is no step here.
CreateRuntimeTask(type) ==
  /\ InsertTask(type, NoAgent)
  /\ pc' = [pc EXCEPT ![nextID] = "dispatch"]
  /\ UNCHANGED <<sub, outcome, agentVars, requests, runs, calls, faultVars>>

\* POST /tasks/agent/node-local and the prechecks of the model service: a row
\* for an agent that no executor waits for.
CreateAgentNodeTask(type, a) ==
  /\ InsertTask(type, a)
  /\ UNCHANGED <<execVars, agentVars, requests, runs, calls, faultVars>>

-----------------------------------------------------------------------------
(* The goroutine of runtime task p.  It is the only writer of p's row.     *)

\* patchTask: read, change, upsert; a failed upsert is logged and forgotten.
PatchTask(p, row) ==
  \/ /\ tasks' = [tasks EXCEPT ![p] = row]
     /\ UNCHANGED faultVars
  \/ /\ ControllerFault({p})
     /\ UNCHANGED tasks

ExecDispatch(p) ==
  /\ pc[p] = "dispatch"
  /\ PatchTask(p, [tasks[p] EXCEPT !.status = "dispatched", !.progress = Max2(@, 10)])
  /\ pc' = [pc EXCEPT ![p] = "begin"]
  /\ UNCHANGED <<nextID, sub, outcome, agentVars, requests, runs, calls>>

ExecBegin(p) ==
  /\ pc[p] = "begin"
  /\ PatchTask(p, [tasks[p] EXCEPT !.status = "running", !.progress = Max2(@, 30)])
  /\ pc' = [pc EXCEPT ![p] = "route"]
  /\ UNCHANGED <<nextID, sub, outcome, agentVars, requests, runs, calls>>

\* No agent path: not a container runtime, the node does not prefer its local
\* agent, the agent is offline, or the type cannot be delegated.
ExecSkipAgent(p) ==
  /\ pc[p] = "route"
  /\ pc' = [pc EXCEPT ![p] = "direct"]
  /\ UNCHANGED <<tasks, nextID, sub, outcome, agentVars, requests, runs, calls, faultVars>>

ExecDelegate(p, a) ==
  /\ pc[p] = "route"
  /\ tasks[p].type \in DelegableTypes
  /\ InsertTask(AgentTypeFor(tasks[p].type), a)
  /\ sub' = [sub EXCEPT ![p] = nextID]
  /\ pc' = [pc EXCEPT ![p] = "await"]
  /\ UNCHANGED <<outcome, agentVars, requests, runs, calls, faultVars>>

\* The sub-task's input does not resolve, or its insert fails.
ExecDelegateFails(p) ==
  /\ pc[p] = "route"
  /\ tasks[p].type \in DelegableTypes
  /\ pc' = [pc EXCEPT ![p] = "fallback"]
  /\ UNCHANGED <<tasks, nextID, sub, outcome, agentVars, requests, runs, calls, faultVars>>

\* After a refresh a resource snapshot is requested too, best effort.
SnapshotAfter(p) ==
  \/ /\ tasks[p].type = "refresh"
     /\ InsertTask("resource_snapshot", tasks[sub[p]].agent)
  \/ UNCHANGED <<tasks, nextID>>

\* Mutation: any terminal sub-task counts as a success.
ExecAwaitDone_AnyResult(p) ==
  /\ pc[p] = "await"
  /\ tasks[sub[p]].status \in Terminal
  /\ SnapshotAfter(p)
  /\ outcome' = [outcome EXCEPT ![p] = "agent"]
  /\ pc' = [pc EXCEPT ![p] = "finish"]
  /\ UNCHANGED <<sub, agentVars, requests, runs, calls, faultVars>>

\* A success of the sub-task ends the task, as a timeout if the two-minute
\* limit of the whole execution is over by then; any other end falls back.
ExecAwaitDone(p) ==
  /\ pc[p] = "await"
  /\ tasks[sub[p]].status \in Terminal
  /\ SnapshotAfter(p)
  /\ IF tasks[sub[p]].status = "success"
       THEN /\ \E o \in {"agent", "timeout"} : outcome' = [outcome EXCEPT ![p] = o]
            /\ pc' = [pc EXCEPT ![p] = "finish"]
       ELSE /\ pc' = [pc EXCEPT ![p] = "fallback"]
            /\ UNCHANGED outcome
  /\ UNCHANGED <<sub, agentVars, requests, runs, calls, faultVars>>

\* Mutation: the wait is only cut short while no agent has taken the sub-task.
ExecAwaitTimeout_UntakenOnly(p) ==
  /\ pc[p] = "await"
  /\ tasks[sub[p]].status = "pending"
  /\ pc' = [pc EXCEPT ![p] = "fallback"]
  /\ UNCHANGED <<tasks, nextID, sub, outcome, agentVars, requests, runs, calls, faultVars>>

\* 40 s are over.  The sub-task is left as it is: an agent may still take it.
ExecAwaitTimeout(p) ==
  /\ pc[p] = "await"
  /\ pc' = [pc EXCEPT ![p] = "fallback"]
  /\ UNCHANGED <<tasks, nextID, sub, outcome, agentVars, requests, runs, calls, faultVars>>

ExecFallback(p) ==
  /\ pc[p] = "fallback"
  /\ PatchTask(p, [tasks[p] EXCEPT !.path = "fallback"])
  /\ pc' = [pc EXCEPT ![p] = "direct"]
  /\ UNCHANGED <<nextID, sub, outcome, agentVars, requests, runs, calls>>

CallModelService(p) == calls' = [calls EXCEPT ![p] = @ + 1]

\* An expired two-minute limit is looked at before the result of the call.
Verdict(result, late) ==
  IF late THEN "timeout" ELSE IF result = "ok" THEN "success" ELSE "failed"

ExecDirect(p) ==
  /\ \/ pc[p] = "direct" /\ tasks[p].type # "restart"
     \/ pc[p] = "restartStart"
  /\ CallModelService(p)
  /\ \E result \in {"ok", "refused", "error"}, late \in BOOLEAN :
       outcome' = [outcome EXCEPT ![p] = Verdict(result, late)]
  /\ pc' = [pc EXCEPT ![p] = "finish"]
  /\ UNCHANGED <<tasks, nextID, sub, agentVars, requests, runs, faultVars>>

\* Mutation: an aborted restart returns without failTask.
ExecRestartStop_Return(p) ==
  /\ pc[p] = "direct"
  /\ tasks[p].type = "restart"
  /\ CallModelService(p)
  /\ \/ pc' = [pc EXCEPT ![p] = "restartPatch"]
     \/ pc' = [pc EXCEPT ![p] = "none"]
  /\ UNCHANGED <<tasks, nextID, sub, outcome, agentVars, requests, runs, faultVars>>

\* First half of a restart: only a Go error aborts it, a refused stop does not.
ExecRestartStop(p) ==
  /\ pc[p] = "direct"
  /\ tasks[p].type = "restart"
  /\ CallModelService(p)
  /\ \/ /\ pc' = [pc EXCEPT ![p] = "restartPatch"]
        /\ UNCHANGED outcome
     \/ /\ pc' = [pc EXCEPT ![p] = "finish"]
        /\ \E late \in BOOLEAN :
             outcome' = [outcome EXCEPT ![p] = Verdict("error", late)]
  /\ UNCHANGED <<tasks, nextID, sub, agentVars, requests, runs, faultVars>>

ExecRestartPatch(p) ==
  /\ pc[p] = "restartPatch"
  /\ PatchTask(p, [tasks[p] EXCEPT !.progress = Max2(@, 65)])
  /\ pc' = [pc EXCEPT ![p] = "restartStart"]
  /\ UNCHANGED <<nextID, sub, outcome, agentVars, requests, runs, calls>>

\* The last write: failTask, or the success patch that merges the result's
\* detail (and so the execution path of a delegated run).
FinalRow(row, o) ==
  IF o = "agent"
    THEN [row EXCEPT !.status = "success", !.progress = 100, !.path = "agent"]
    ELSE [row EXCEPT !.status = o, !.progress = 100]

ExecFinish(p) ==
  /\ pc[p] = "finish"
  /\ PatchTask(p, FinalRow(tasks[p], outcome[p]))
  /\ pc' = [pc EXCEPT ![p] = "none"]
  /\ outcome' = [outcome EXCEPT ![p] = "none"]
  /\ UNCHANGED <<nextID, sub, agentVars, requests, runs, calls>>

ExecStep(p) ==
  \/ ExecDispatch(p) \/ ExecBegin(p) \/ ExecSkipAgent(p)
  \/ \E a \in Agents : ExecDelegate(p, a)
  \/ ExecDelegateFails(p) \/ ExecAwaitDone(p) \/ ExecAwaitTimeout(p)
  \/ ExecFallback(p) \/ ExecDirect(p) \/ ExecRestartStop(p)
  \/ ExecRestartPatch(p) \/ ExecFinish(p)

-----------------------------------------------------------------------------
(* Agent a's loop: one task at a time, every call made once.               *)

\* Mutation: an unfinished row is handed out again.
Claimable_Redeliver(a) ==
  {t \in TaskIDs : /\ tasks[t].status \in {"pending", "dispatched", "running"}
                   /\ tasks[t].agent = a
                   /\ tasks[t].type \in AgentTypes}

Claimable(a) ==
  {t \in TaskIDs : /\ tasks[t].status = "pending"
                   /\ tasks[t].agent = a
                   /\ tasks[t].type \in AgentTypes}

\* Mutation: an agent with an unfinished row gets no other.
Claim_OneOutstanding(a, t) ==
  /\ t \in Claimable(a)
  /\ \A u \in Claimable(a) : t <= u
  /\ \A u \in TaskIDs :
       tasks[u].agent = a => tasks[u].status \notin {"dispatched", "running"}
  /\ tasks' = [tasks EXCEPT ![t].status = "dispatched", ![t].progress = Max2(@, 5)]

\* ClaimPendingTaskForAgent: one transaction picks the oldest row and marks it.
Claim(a, t) ==
  /\ t \in Claimable(a)
  /\ \A u \in Claimable(a) : t <= u
  /\ tasks' = [tasks EXCEPT ![t].status = "dispatched", ![t].progress = Max2(@, 5)]

\* GET /agents/{id}/tasks/next, answered.
AgentPoll(a, t) ==
  /\ apc[a] = "idle"
  /\ Claim(a, t)
  /\ apc' = [apc EXCEPT ![a] = "claimed"]
  /\ atask' = [atask EXCEPT ![a] = t]
  /\ UNCHANGED <<nextID, execVars, aresult, requests, runs, calls, faultVars>>

\* The same call when the claim commits and the answer does not arrive.
AgentPollLost(a, t) ==
  /\ apc[a] = "idle"
  /\ Claim(a, t)
  /\ AgentFault({t})
  /\ UNCHANGED <<nextID, execVars, agentVars, requests, runs, calls>>

Send(a, status) ==
  requests' = requests \cup
    {[agent |-> a, task |-> atask[a], status |-> status, phase |-> "sent", seen |-> NoTask]}

\* Mutation: the agent starts the work without waiting for the answer.
AgentReportRunning_NoWait(a) ==
  /\ apc[a] = "claimed"
  /\ Send(a, "running")
  /\ apc' = [apc EXCEPT ![a] = "execute"]
  /\ UNCHANGED <<tasks, nextID, execVars, atask, aresult, runs, calls, faultVars>>

AgentReportRunning(a) ==
  /\ apc[a] = "claimed"
  /\ Send(a, "running")
  /\ apc' = [apc EXCEPT ![a] = "waitRun"]
  /\ UNCHANGED <<tasks, nextID, execVars, atask, aresult, runs, calls, faultVars>>

\* executeAgentTask: the work itself, which may fail.
AgentExecute(a) ==
  /\ apc[a] = "execute"
  /\ runs' = [runs EXCEPT ![atask[a]] = @ + 1]
  /\ \E result \in {"success", "failed"} : aresult' = [aresult EXCEPT ![a] = result]
  /\ apc' = [apc EXCEPT ![a] = "executed"]
  /\ UNCHANGED <<tasks, nextID, execVars, atask, requests, calls, faultVars>>

AgentReportFinal(a) ==
  /\ apc[a] = "executed"
  /\ Send(a, aresult[a])
  /\ apc' = [apc EXCEPT ![a] = "waitFinal"]
  /\ UNCHANGED <<tasks, nextID, execVars, atask, aresult, runs, calls, faultVars>>

Release(a) ==
  /\ apc' = [apc EXCEPT ![a] = "idle"]
  /\ atask' = [atask EXCEPT ![a] = NoID]
  /\ aresult' = [aresult EXCEPT ![a] = "none"]

\* Mutation: a failed "running" report does not stop the agent.
AgentGivesUp_CarriesOn(a) ==
  /\ apc[a] \in {"waitRun", "waitFinal"}
  /\ AgentFault({atask[a]})
  /\ IF apc[a] = "waitRun"
       THEN /\ apc' = [apc EXCEPT ![a] = "execute"]
            /\ UNCHANGED <<atask, aresult>>
       ELSE Release(a)
  /\ UNCHANGED <<tasks, nextID, execVars, requests, runs, calls>>

\* The client's 10 s are over or the connection broke: pollAndExecuteTask
\* returns the error and the loop goes on.  The call may still be in flight.
AgentGivesUp(a) ==
  /\ apc[a] \in {"waitRun", "waitFinal"}
  /\ AgentFault({atask[a]})
  /\ Release(a)
  /\ UNCHANGED <<tasks, nextID, execVars, requests, runs, calls>>

\* The process dies and is started again; it remembers nothing.
AgentCrash(a) ==
  /\ apc[a] # "idle"
  /\ AgentFault({atask[a]})
  /\ Release(a)
  /\ UNCHANGED <<tasks, nextID, execVars, requests, runs, calls>>

AgentStep(a) ==
  \/ \E t \in TaskIDs : AgentPoll(a, t)
  \/ AgentReportRunning(a) \/ AgentExecute(a) \/ AgentReportFinal(a)

-----------------------------------------------------------------------------
(* ReportAgentTask: the handler reads the row, then writes it back whole.  *)

Waiting(r) ==
  /\ atask[r.agent] = r.task
  /\ apc[r.agent] = IF r.status = "running" THEN "waitRun" ELSE "waitFinal"

HandlerRead(r) ==
  /\ r.phase = "sent"
  /\ tasks[r.task].agent \in {NoAgent, r.agent}
  /\ requests' = (requests \ {r}) \cup {[r EXCEPT !.phase = "read", !.seen = tasks[r.task]]}
  /\ UNCHANGED <<tasks, nextID, execVars, agentVars, runs, calls, faultVars>>

\* The agent reports progress 70 with "running" and 100 with a result.
Reported(r) ==
  [r.seen EXCEPT !.status = r.status,
                 !.progress = IF r.status = "running" THEN 70 ELSE 100]

HandlerWrite(r) ==
  /\ r.phase = "read"
  /\ tasks' = [tasks EXCEPT ![r.task] = Reported(r)]
  /\ requests' = requests \ {r}
  /\ IF Waiting(r)
       THEN IF r.status = "running"
              THEN /\ apc' = [apc EXCEPT ![r.agent] = "execute"]
                   /\ UNCHANGED <<atask, aresult>>
              ELSE Release(r.agent)
       ELSE UNCHANGED agentVars
  /\ UNCHANGED <<nextID, execVars, runs, calls, faultVars>>

\* A call whose client is gone may never arrive, or be cancelled half-way.
HandlerDrop(r) ==
  /\ ~ Waiting(r)
  /\ requests' = requests \ {r}
  /\ UNCHANGED <<tasks, nextID, execVars, agentVars, runs, calls, faultVars>>

HandlerStep(r) == HandlerRead(r) \/ HandlerWrite(r)

\* The controller stops and starts again on the same database: goroutines and
\* handlers are gone, waiting agents see their call fail, no row changes.
ControllerCrash ==
  /\ ControllerFault({p \in TaskIDs : pc[p] # "none"} \cup {r.task : r \in requests})
  /\ pc' = [p \in TaskIDs |-> "none"]
  /\ outcome' = [p \in TaskIDs |-> "none"]
  /\ requests' = {}
  /\ LET cut == {a \in Agents : apc[a] \in {"waitRun", "waitFinal"}} IN
       /\ apc' = [a \in Agents |-> IF a \in cut THEN "idle" ELSE apc[a]]
       /\ atask' = [a \in Agents |-> IF a \in cut THEN NoID ELSE atask[a]]
       /\ aresult' = [a \in Agents |-> IF a \in cut THEN "none" ELSE aresult[a]]
  /\ UNCHANGED <<tasks, nextID, sub, runs, calls>>

-----------------------------------------------------------------------------
Next ==
  \/ \E type \in RuntimeRequests : CreateRuntimeTask(type)
  \/ \E type \in NodeRequests, a \in Agents : CreateAgentNodeTask(type, a)
  \/ \E p \in TaskIDs : ExecStep(p)
  \/ \E a \in Agents : AgentStep(a)
  \/ \E a \in Agents, t \in TaskIDs : AgentPollLost(a, t)
  \/ \E a \in Agents : AgentGivesUp(a) \/ AgentCrash(a)
  \/ \E r \in requests : HandlerStep(r) \/ HandlerDrop(r)
  \/ ControllerCrash

Spec == Init /\ [][Next]_vars

-----------------------------------------------------------------------------
(* Safety.                                                                 *)

IsAgentTask(t) == tasks[t].agent # NoAgent
Held(t) == \E a \in Agents : atask[a] = t
InFlight(t) == \E r \in requests : r.task = t

\* The work of an agent task is carried out at most once, through crashes of
\* either side, claims whose answer is lost and reports that arrive after
\* their sender gave up: neither side ever hands the task out again.
AtMostOneRun == \A t \in TaskIDs : runs[t] <= 1

\* A recorded success is backed by work that was done.  An agent task was run;
\* a runtime task was either called for directly, or its sub-task succeeded.
\* The execution path in its detail tells which: "agent" means the controller
\* did not touch the runtime itself.
SuccessIsEarned ==
  \A t \in TaskIDs :
    tasks[t].status = "success" =>
      IF IsAgentTask(t)
        THEN runs[t] = 1
        ELSE IF tasks[t].path = "agent"
               THEN /\ calls[t] = 0
                    /\ sub[t] # NoID
                    /\ tasks[sub[t]].status = "success"
                    /\ runs[sub[t]] = 1
               ELSE calls[t] >= 1

\* Nothing is forgotten without a cause: a runtime task that is not finished
\* has its goroutine, and an agent task taken but not finished is held by its
\* agent, or else a fault (a crash, a lost answer, an abandoned call, a failed
\* write) touched exactly that task.  There is no lease, so this is the whole
\* list of what leaves a row in "dispatched" or "running" for ever.
StuckOnlyByFault ==
  \A t \in TaskIDs :
    /\ tasks[t].status \notin Terminal \cup {"absent"}
    /\ t \notin hit
    => IF IsAgentTask(t)
         THEN tasks[t].status = "pending" \/ Held(t)
         ELSE pc[t] # "none"

\* A row that reached a terminal status keeps it, its progress and its path.
\* Neither UpsertTask nor ReportAgentTask guards this: it rests on the claim
\* being exclusive and on the agent giving up after any failed call.
TerminalIsFinal ==
  [][\A t \in TaskIDs :
       tasks[t].status \in Terminal => tasks'[t] = tasks[t]]_vars

\* The table as its readers see it behaves as module TaskLedger says.
Ledger == INSTANCE TaskLedger WITH
  status <- [t \in TaskIDs |-> tasks[t].status],
  delegated <- {t \in TaskIDs : IsAgentTask(t)}

LedgerSpec == Ledger!Spec

\* The record of a fallback says the sub-task was unavailable or had failed;
\* then its work is not also carried out by the agent afterwards.  The code
\* falls back while the sub-task is still claimable or running.
FallbackExcludesAgent ==
  [][\A p \in TaskIDs :
       (calls[p] > 0 /\ sub[p] # NoID) => runs'[sub[p]] = runs[sub[p]]]_vars

-----------------------------------------------------------------------------
(* Liveness.                                                               *)

\* Goroutines are scheduled, the await ticker ticks and its timer fires.  No
\* fairness is assumed of agents, the network or the controller's handlers.
ExecutorFairness == \A p \in TaskIDs : WF_vars(ExecStep(p))
ExecutorSpec == Spec /\ ExecutorFairness

\* Whatever the agents do, every runtime task comes to a terminal status as
\* long as the controller keeps running and its writes succeed: the await has
\* a limit, and the fallback needs no agent.
RuntimeTasksEnd ==
  \A p \in TaskIDs :
    pc[p] # "none" ~> (tasks[p].status \in Terminal \/ p \in hit)

\* Agents that keep polling, reporting and executing, and a server that answers
\* the calls it received.
AgentFairness ==
  /\ \A a \in Agents : WF_vars(AgentStep(a))
  /\ WF_vars(\E r \in requests : HandlerStep(r))

\* With such agents every agent task that no fault touches is executed and
\* closed, in spite of faults of other tasks of the same agent: a task left
\* behind by a crash or a lost answer does not keep the agent from the next.
AgentTasksEnd ==
  AgentFairness =>
    \A t \in TaskIDs :
      (IsAgentTask(t) /\ tasks[t].status = "pending")
        ~> (tasks[t].status \in Terminal \/ t \in hit)
=============================================================================
