-------------------------- MODULE RuntimeReconcile --------------------------
(***************************************************************************)
(* Who reads and writes the runtime instances.                             *)
(*                                                                         *)
(*   the loop    reconciles all instances from one list, under reconcileMu *)
(*   clients     ask for a start, a stop or a refresh (a reconcile under   *)
(*               the mutex, then perhaps an action of the model service),  *)
(*               act on a model directly, query a reconcile summary, or    *)
(*               are the agent that reports an observation, or the         *)
(*               background refresh of a model ("poll")                    *)
(*                                                                         *)
(* Every write replaces the whole row by a copy read earlier.  The mutex   *)
(* covers reconciles only: observations, model syncs and the release plans *)
(* of a summary query are written without it.  A row and its projection    *)
(* are written in one step here, and the read and the write of a release   *)
(* plan are one step too; every other pair of a read and a write is two.   *)
(***************************************************************************)
EXTENDS RuntimeGating, FiniteSets

CONSTANTS
  Clients,        \* concurrent callers
  Loop,           \* the reconcile loop
  NoThread,       \* nobody holds the mutex
  Kinds,          \* what clients ask for
  Asked,          \* the desired states direct actions ask for
  Reports,        \* the observations agents report
  Signals,        \* the agent signals a reconcile may find
  InitStates,     \* the desired and the observed states at the start
  MaxCalls        \* bound: calls of clients

Threads == Clients \cup {Loop}

\* A restart counts as a start.
CallKinds ==
  {"start", "stop", "refresh", "action", "poll", "report", "summary"}

ASSUME ThreadsAreDistinct == Loop \notin Clients /\ NoThread \notin Threads
ASSUME InputsAreKnown ==
  /\ Kinds \subseteq CallKinds
  /\ Asked \subseteq ModelStates
  /\ Reports \subseteq Observations
  /\ Signals \subseteq SUBSET {"offline", "stale"}
  /\ InitStates \subseteq [Instances -> ModelStates \X ModelStates]
  /\ MaxCalls \in Nat

VARIABLES
  rows,      \* table runtime_instances
  models,    \* the desired state of each model record
  mutex,     \* reconcileMu: who holds it
  list,      \* the list the loop works through
  pc,        \* pc[t]: where thread t is
  kind,      \* kind[t]: what it was called for
  item,      \* item[t]: the instance it is about
  copy,      \* copy[t]: the row it has read and changed
  owed,      \* owed[t]: release plans it has still to write
  wish,      \* wish[t]: the desired state in the model copy of its action
  calls      \* calls made so far

vars == <<rows, models, mutex, list, pc, kind, item, copy, owed, wish, calls>>

PCs == {"idle", "observe", "acquire", "evaluate", "release", "admitted",
        "sync", "syncing", "synced"}

TypeOK ==
  /\ rows \in [Instances -> Row]
  /\ models \in [Instances -> ModelStates]
  /\ mutex \in Threads \cup {NoThread}
  /\ list \in [Instances -> Row]
  /\ pc \in [Threads -> PCs]
  /\ kind \in [Threads -> CallKinds \cup {"none", "pass", "result", "status", "refreshed"}]
  /\ item \in [Threads -> Instances]
  /\ copy \in [Threads -> Row]
  /\ owed \in [Threads -> SUBSET Instances]
  /\ wish \in [Threads -> ModelStates]
  /\ calls \in Nat

\* What a thread's copy is while it has none.
NoRow == NewRow("unknown", "unknown", "unknown")

\* The rows as the bootstrap leaves them: synced from the models.
Init ==
  /\ \E s \in InitStates :
       /\ models = [i \in Instances |-> s[i][1]]
       /\ rows = [i \in Instances |->
                    NewRow(s[i][1], s[i][2],
                           IF s[i][2] = "running" THEN "ready" ELSE "unknown")]
  /\ mutex = NoThread
  /\ list = [i \in Instances |-> NoRow]
  /\ pc = [t \in Threads |-> "idle"]
  /\ kind = [t \in Threads |-> "none"]
  /\ item = [t \in Threads |-> 1]
  /\ copy = [t \in Threads |-> NoRow]
  /\ owed = [t \in Threads |-> {}]
  /\ wish = [t \in Threads |-> "unknown"]
  /\ calls = 0

GoTo(t, place) == pc' = [pc EXCEPT ![t] = place]

Ends(t) ==
  /\ GoTo(t, "idle")
  /\ kind' = [kind EXCEPT ![t] = "none"]
  /\ item' = [item EXCEPT ![t] = 1]
  /\ copy' = [copy EXCEPT ![t] = NoRow]
  /\ wish' = [wish EXCEPT ![t] = "unknown"]

-----------------------------------------------------------------------------
(* Calls.  A summary query reads its row at once, without the mutex, and   *)
(* so does a report; a direct action and the background refresh pass no    *)
(* reconcile.                                                              *)

FirstPlace(k) ==
  CASE k = "summary" -> "evaluate"
    [] k = "report" -> "observe"
    [] k \in {"action", "poll"} -> "admitted"
    [] OTHER -> "acquire"

Call(t, k, i) ==
  /\ pc[t] = "idle"
  /\ calls < MaxCalls
  /\ calls' = calls + 1
  /\ GoTo(t, FirstPlace(k))
  /\ kind' = [kind EXCEPT ![t] = k]
  /\ item' = [item EXCEPT ![t] = i]
  /\ copy' = [copy EXCEPT ![t] = IF k \in {"summary", "report"}
                                 THEN rows[i] ELSE NoRow]
  /\ UNCHANGED <<rows, models, mutex, list, owed, wish>>

\* ApplyAgentTaskObservation writes the row back and then reconciles.
ReportWrite(t, o) ==
  /\ pc[t] = "observe"
  /\ rows' = [rows EXCEPT ![item[t]] = Observed(copy[t], o)]
  /\ copy' = [copy EXCEPT ![t] = NoRow]
  /\ GoTo(t, "acquire")
  /\ UNCHANGED <<models, mutex, list, kind, item, owed, wish, calls>>

-----------------------------------------------------------------------------
(* Reconciling.                                                            *)

Acquire(t) ==
  /\ pc[t] = "acquire"
  /\ mutex = NoThread
  /\ mutex' = t
  /\ copy' = [copy EXCEPT ![t] = rows[item[t]]]
  /\ GoTo(t, "evaluate")
  /\ UNCHANGED <<rows, models, list, kind, item, owed, wish, calls>>

PassBegin ==
  /\ pc[Loop] = "idle"
  /\ mutex = NoThread
  /\ mutex' = Loop
  /\ list' = rows
  /\ kind' = [kind EXCEPT ![Loop] = "pass"]
  /\ copy' = [copy EXCEPT ![Loop] = rows[1]]
  /\ GoTo(Loop, "evaluate")
  /\ UNCHANGED <<rows, models, item, owed, wish, calls>>

\* The conflict check lists the rows afresh.
Evaluate(t, signals) ==
  /\ pc[t] = "evaluate"
  /\ copy' = [copy EXCEPT ![t] =
                Reconciled(item[t], copy[t], rows, kind[t], signals)]
  /\ owed' = [owed EXCEPT ![t] =
                ReleaseTargets(item[t], copy[t], rows, kind[t], signals)]
  /\ GoTo(t, "release")
  /\ UNCHANGED <<rows, models, mutex, list, kind, item, wish, calls>>

\* The desired state of a row overwrites that of its model.
Projects(i, row) == models' = [models EXCEPT ![i] = row.desired]

\* applyReleasePlanToTargets reads a target, replaces its plan, writes it
\* back and projects it onto its model.
Release(t, j) ==
  /\ pc[t] = "release"
  /\ j \in owed[t]
  /\ owed' = [owed EXCEPT ![t] = @ \ {j}]
  /\ rows' = [rows EXCEPT ![j].plan = Unload]
  /\ Projects(j, rows[j])
  /\ UNCHANGED <<mutex, list, pc, kind, item, copy, wish, calls>>

\* The row is replaced by the copy and projected onto its model.
WriteBack(t) ==
  /\ pc[t] = "release"
  /\ owed[t] = {}
  /\ rows' = [rows EXCEPT ![item[t]] = copy[t]]
  /\ Projects(item[t], copy[t])
  /\ UNCHANGED <<owed, calls>>

PassNext ==
  /\ item[Loop] < NumInstances
  /\ WriteBack(Loop)
  /\ item' = [item EXCEPT ![Loop] = @ + 1]
  /\ copy' = [copy EXCEPT ![Loop] = list[item[Loop] + 1]]
  /\ GoTo(Loop, "evaluate")
  /\ UNCHANGED <<mutex, list, kind, wish>>

PassEnd ==
  /\ item[Loop] = NumInstances
  /\ WriteBack(Loop)
  /\ Ends(Loop)
  /\ list' = [i \in Instances |-> NoRow]
  /\ mutex' = NoThread

\* A start goes on only if the gating allows it (fail-fast); a stop and a
\* refresh always do.
Admitted(t) ==
  \/ kind[t] \in {"stop", "refresh"}
  \/ kind[t] = "start" /\ copy[t].gating = "allowed"

ReconcileEnd(t) ==
  /\ kind[t] # "summary"
  /\ WriteBack(t)
  /\ IF Admitted(t)
     THEN /\ GoTo(t, "admitted")
          /\ copy' = [copy EXCEPT ![t] = NoRow]
          /\ UNCHANGED <<kind, item, wish>>
     ELSE Ends(t)
  /\ mutex' = NoThread
  /\ UNCHANGED list

\* The summary of a GET is returned, its row is not written.
SummaryEnd(t) ==
  /\ pc[t] = "release"
  /\ kind[t] = "summary"
  /\ owed[t] = {}
  /\ Ends(t)
  /\ UNCHANGED <<rows, models, mutex, list, owed, calls>>

-----------------------------------------------------------------------------
(* Actions of the model service: executeAction stores the desired state    *)
(* and syncs the instance, calls the adapter, and stores and syncs again.  *)
(* One action at a time per node; another one is refused.                  *)

InAction(t) ==
  /\ pc[t] \in {"sync", "syncing", "synced"}
  /\ kind[t] \notin {"refresh", "refreshed"}

NodeIsFree(i) == \A u \in Clients : InAction(u) => NodeOf[item[u]] # NodeOf[i]

WishesOf(t) ==
  CASE kind[t] = "start" -> {"running"}
    [] kind[t] = "stop" -> {"stopped"}
    [] OTHER -> Asked

ActionBegin(t) ==
  /\ pc[t] = "admitted"
  /\ kind[t] \in {"start", "stop", "action"}
  /\ NodeIsFree(item[t])
  /\ \E d \in WishesOf(t) :
       /\ wish' = [wish EXCEPT ![t] = d]
       /\ models' = [models EXCEPT ![item[t]] = d]
  /\ GoTo(t, "sync")
  /\ UNCHANGED <<rows, mutex, list, kind, item, copy, owed, calls>>

\* A refresh only reads the model and queries the status, without the lock
\* of the node; it stores what it read with the answer.
RefreshBegin(t) ==
  /\ pc[t] = "admitted"
  /\ kind[t] \in {"refresh", "poll"}
  /\ kind' = [kind EXCEPT ![t] = "refresh"]
  /\ wish' = [wish EXCEPT ![t] = models[item[t]]]
  /\ GoTo(t, "synced")
  /\ UNCHANGED <<rows, models, mutex, list, item, copy, owed, calls>>

SyncRead(t) ==
  /\ pc[t] = "sync"
  /\ copy' = [copy EXCEPT ![t] = rows[item[t]]]
  /\ GoTo(t, "syncing")
  /\ UNCHANGED <<rows, models, mutex, list, kind, item, owed, wish, calls>>

SyncWrite(t) ==
  /\ pc[t] = "syncing"
  /\ \E ready \in Readiness, drift \in {"none", "state", "model"} :
       rows' = [rows EXCEPT ![item[t]] = Synced(copy[t], wish[t], ready, drift)]
  /\ copy' = [copy EXCEPT ![t] = NoRow]
  /\ GoTo(t, "synced")
  /\ UNCHANGED <<models, mutex, list, kind, item, owed, wish, calls>>

\* What follows in order: an action stores its copy of the model with the
\* result of the adapter and once more with the status queried after it, a
\* refresh with the status only.
Following(k) ==
  CASE k = "refresh" -> "refreshed"
    [] k = "result" -> "status"
    [] OTHER -> "result"

ActionResult(t) ==
  /\ pc[t] = "synced"
  /\ kind[t] \notin {"status", "refreshed"}
  /\ kind' = [kind EXCEPT ![t] = Following(@)]
  /\ models' = [models EXCEPT ![item[t]] = wish[t]]
  /\ GoTo(t, "sync")
  /\ UNCHANGED <<rows, mutex, list, item, copy, owed, wish, calls>>

\* The action is over, was refused, or was the agent's to execute.
ActionEnd(t) ==
  /\ pc[t] \in {"admitted", "synced"}
  /\ Ends(t)
  /\ UNCHANGED <<rows, models, mutex, list, owed, calls>>
-----------------------------------------------------------------------------

PassStep ==
  \/ PassBegin
  \/ \E signals \in Signals : Evaluate(Loop, signals)
  \/ \E j \in Instances : Release(Loop, j)
  \/ PassNext
  \/ PassEnd

\* Everything a client does but calling and waiting for the mutex.
ClientStep(t) ==
  \/ \E o \in Reports : ReportWrite(t, o)
  \/ \E signals \in Signals : Evaluate(t, signals)
  \/ \E j \in Instances : Release(t, j)
  \/ ReconcileEnd(t)
  \/ SummaryEnd(t)
  \/ ActionBegin(t)
  \/ RefreshBegin(t)
  \/ SyncRead(t)
  \/ SyncWrite(t)
  \/ ActionResult(t)
  \/ ActionEnd(t)

Next ==
  \/ PassStep
  \/ \E t \in Clients :
       \/ \E k \in Kinds, i \in Instances : Call(t, k, i)
       \/ Acquire(t)
       \/ ClientStep(t)

Spec == Init /\ [][Next]_vars

\* The loop's ticker fires and Go schedules every goroutine; a sync.Mutex
\* does not starve a waiter.
Fairness ==
  /\ WF_vars(PassStep)
  /\ \A t \in Clients : SF_vars(Acquire(t)) /\ WF_vars(ClientStep(t))

FairSpec == Spec /\ Fairness
-----------------------------------------------------------------------------
(* Properties.                                                             *)

(***************************************************************************)
(* An instance whose precheck gates is never shown as ready, and its drift *)
(* says why: all writers, with rows read at any time before, keep the      *)
(* three fields consistent (readiness=not_ready, drift explained).         *)
(***************************************************************************)
GatedIsExplained ==
  \A i \in Instances :
    rows[i].precheck => rows[i].ready = "not_ready" /\ rows[i].drift # "none"

(***************************************************************************)
(* The plan of a row is the one its gating led to: a load is planned only  *)
(* where it is allowed, and blocked or deferred as the gating says.  The   *)
(* release plan another instance writes is the only other plan.            *)
(***************************************************************************)
PlanMatchesGating ==
  \A i \in Instances :
    LET plan == rows[i].plan  gating == rows[i].gating
    IN  /\ plan = Granted => gating = "allowed"
        /\ plan.action = "load" /\ plan # Granted => gating = plan.status
        /\ plan.action # "load" => plan \in {NoPlan, Unload}

\* Two instances of one node that are of one kind, or share a port.
AreRivals(i, j) ==
  /\ i # j
  /\ NodeOf[j] = NodeOf[i]
  /\ KindOf[j] = KindOf[i] \/ PortsOf[j] \cap PortsOf[i] # {}

\* No rival of i runs or is meant to run.
SlotIsFree(i) ==
  \A j \in Instances :
    AreRivals(i, j) => rows[j].desired # "running" /\ rows[j].observed # "running"

\* A rival of i runs.
SlotIsTaken(i) ==
  \E j \in Instances : AreRivals(i, j) /\ rows[j].observed = "running"

\* The row i is to be loaded, and nothing in the rows or the binding is against
\* it: what is left to decide is what the loop finds out about the agent.
OnlySignalsDecide(i) ==
  /\ rows[i].desired = "running" /\ rows[i].observed # "running"
  /\ SlotIsFree(i) /\ ~rows[i].precheck /\ i \notin Misbound

\* The plan the planner promises for the state row i is in, whatever it finds
\* out about the agent.
PlanIsDue(i) ==
  LET row == rows[i]
  IN  CASE row.desired = "running" /\ row.observed = "running" ->
             row.plan \in {NoPlan, Unload}
        [] row.desired = "running" /\ row.observed # "running" ->
             /\ SlotIsTaken(i) \/ row.precheck \/ i \in Misbound =>
                  row.plan # Granted
             /\ OnlySignalsDecide(i) => row.plan \in {Granted, BlockedLoad}
        [] row.desired = "stopped" /\ row.observed = "running" ->
             row.plan = Unload
        [] OTHER -> row.plan \in {NoPlan, Unload}

\* From some pass on the loop finds the same about the agent of instance i.
SignalsSettle(i, signals) ==
  <>[][item[Loop] = i /\ pc[Loop] = "evaluate" /\ pc'[Loop] = "release" =>
         Evaluate(Loop, signals)]_vars

(***************************************************************************)
(* When callers have come to rest, the loop takes every instance to the    *)
(* plan its stored state calls for, and keeps it there, whatever calls,    *)
(* lost writes and release plans came before: a taken slot is not granted, *)
(* an instance with a free one is not left waiting for rivals, nothing is  *)
(* left planned that is no longer wanted.  Whether the free slot is        *)
(* granted is up to the agent: it is once the loop finds it online and the *)
(* instance observed within the last two minutes, and the load is blocked  *)
(* once the loop finds it offline or the observation stale, which that of  *)
(* a wanted instance is from the start and again whenever reports stop.    *)
(***************************************************************************)
PlansSettle ==
  /\ <>[](\A i \in Instances : PlanIsDue(i))
  /\ \A i \in Instances, signals \in Signals :
       SignalsSettle(i, signals) =>
         <>[](OnlySignalsDecide(i) =>
                rows[i].plan = IF signals = {} THEN Granted ELSE BlockedLoad)

(* What the documents say and the code does not keep.                      *)

Starting(t) ==
  kind[t] = "start" /\ pc[t] \in {"admitted", "sync", "syncing", "synced"}

(***************************************************************************)
(* Fail-fast admission with the same-kind exclusion (Schema.md 0.5 B, D):  *)
(* no two starts for instances of one kind on one node are let through     *)
(* together.                                                               *)
(***************************************************************************)
AdmissionExcludesRivals ==
  \A t, u \in Clients :
    t # u /\ Starting(t) /\ Starting(u) /\ item[t] # item[u] =>
      ~(/\ NodeOf[item[t]] = NodeOf[item[u]]
        /\ KindOf[item[t]] = KindOf[item[u]])

(***************************************************************************)
(* A transition is "deferred until release targets stop": once they are    *)
(* all stopped somebody gets the slot.                                     *)
(***************************************************************************)
DeferralsEnd ==
  \A i \in Instances :
    rows[i].plan = Deferred ~>
      \E j \in Instances : /\ NodeOf[j] = NodeOf[i] /\ KindOf[j] = KindOf[i]
                           /\ \/ rows[j].observed = "running"
                              \/ rows[j].plan = Granted

(***************************************************************************)
(* A model sync keeps the runtime state the instance already has, so that  *)
(* precheck results and task facts are not overwritten (LOG.md).           *)
(***************************************************************************)
SyncKeepsFacts ==
  [][\A t \in Clients : SyncWrite(t) =>
       /\ rows'[item[t]].observed = rows[item[t]].observed
       /\ rows'[item[t]].precheck = rows[item[t]].precheck]_vars
=============================================================================
