--------------------------- MODULE ModelLifecycle ---------------------------
(***************************************************************************)
(* The state of container models: who believes what about the container.   *)
(*                                                                         *)
(*   container   the truth, at the container engine of the node            *)
(*   memory      the model registry           (ModelRegistry.models)       *)
(*   stored      table models                                              *)
(*   observed    ObservedState of the model's runtime instance             *)
(*   running     the scheduler's runningByGroup                            *)
(*                                                                         *)
(* All of them are read, kept in a local variable across I/O, and written  *)
(* later.  Only actions (load, unload, start, stop) exclude each other,    *)
(* with one lock per node; the refresh loop, refresh requests, reads of    *)
(* the API (which cache what the store holds), the reconcile loop's        *)
(* projection and agent reports take no lock.  A write of the registry     *)
(* and of the store that follow each other are one step.                   *)
(***************************************************************************)
EXTENDS Scheduler, Naturals

CONSTANTS
  NodeOf,         \* NodeOf[m]: the node of model m
  Clients,        \* concurrent requests
  Refresher,      \* the goroutine of StartAutoRefresh
  Reconciler,     \* the goroutine of StartInstanceReconcileLoop
  Ops,            \* what clients ask for
  Background,     \* what the loops do, of what they may do
  InitStates,     \* the states a configured or stored model may have
  MaxCalls,       \* bound: operations of clients
  MaxOutside      \* bound: restarts, failed inspections, and changes nobody
                  \* here asked for

Threads == Clients \cup {Refresher, Reconciler}

Actions == {"load", "unload", "start", "stop"}
Operations == Actions \cup {"refresh", "scan", "save", "view", "project", "report"}

\* "stopped": there is no container; "loaded": there is one, not running.
Containers == {"stopped", "loaded", "running"}
States == Containers \cup {"unknown"}

ASSUME LoopsAreDistinct ==
  Refresher # Reconciler /\ {Refresher, Reconciler} \cap Clients = {}
ASSUME LifecycleInputs ==
  /\ Ops \subseteq Operations /\ Background \subseteq Operations
  /\ InitStates \subseteq States
  /\ MaxCalls \in Nat /\ MaxOutside \in Nat

VARIABLES
  container, memory, stored, observed, running,
  busy,      \* nodeActionMap: nodes on which an action is under way
  pc,        \* pc[t]: where thread t is
  op,        \* op[t]: its operation
  item,      \* item[t]: the model it is about
  copy,      \* copy[t]: the state in its local copy of the model
  seen,      \* seen[t]: the container state it was told
  blamed,    \* history: groups disturbed by something but an action
  calls, outside

vars == <<container, memory, stored, observed, running, busy,
          pc, op, item, copy, seen, blamed, calls, outside>>

PCs == {"idle", "lock", "wish", "check", "prestop", "stopped", "call", "mark", "done",
        "query", "status", "put", "cache", "save", "row", "reported", "project"}

\* Thread t does an action and has locked its node.
Holds(t) == op[t] \in Actions /\ pc[t] # "lock"

TypeOK ==
  /\ container \in [Models -> Containers]
  /\ memory \in [Models -> States]
  /\ stored \in [Models -> States]
  /\ observed \in [Models -> States]
  /\ running \in [Groups -> Models \cup {NoModel}]
  /\ busy \subseteq {NodeOf[m] : m \in Models}
  /\ pc \in [Threads -> PCs]
  /\ op \in [Threads -> Operations \cup {"none"}]
  /\ item \in [Threads -> Models \cup {NoModel}]
  /\ copy \in [Threads -> States]
  /\ seen \in [Threads -> States]
  /\ blamed \subseteq Groups
  /\ calls \in Nat /\ outside \in Nat

\* Groups whose running container the scheduler knew, and does not in state now.
Forgotten(now) ==
  {g \in Groups : \E m \in Models :
     GroupOf[m] = g /\ container[m] = "running" /\ now[g] # m /\ running[g] = m}

\* Groups with a running container.
RunningGroups(c) == {g \in Groups : \E m \in Models : GroupOf[m] = g /\ c[m] = "running"}

Init ==
  /\ container \in [Models -> Containers]
  /\ memory \in [Models -> InitStates]
  /\ stored = memory
  /\ observed = memory
  /\ running = NobodyRuns
  /\ busy = {}
  /\ pc = [t \in Threads |-> "idle"]
  /\ op = [t \in Threads |-> "none"]
  /\ item = [t \in Threads |-> NoModel]
  /\ copy = [t \in Threads |-> "unknown"]
  /\ seen = [t \in Threads |-> "unknown"]
  /\ blamed = RunningGroups(container)
  /\ calls = 0 /\ outside = 0

GoTo(t, place) == pc' = [pc EXCEPT ![t] = place]

\* Mutant: whatever ends gives its node away.
Ends_UnlocksAlways(t) ==
  /\ GoTo(t, "idle")
  /\ op' = [op EXCEPT ![t] = "none"]
  /\ item' = [item EXCEPT ![t] = NoModel]
  /\ copy' = [copy EXCEPT ![t] = "unknown"]
  /\ seen' = [seen EXCEPT ![t] = "unknown"]
  /\ busy' = busy \ {NodeOf[item[t]]}

\* An operation is over; an action that has locked its node unlocks it.
Ends(t) ==
  /\ GoTo(t, "idle")
  /\ op' = [op EXCEPT ![t] = "none"]
  /\ item' = [item EXCEPT ![t] = NoModel]
  /\ copy' = [copy EXCEPT ![t] = "unknown"]
  /\ seen' = [seen EXCEPT ![t] = "unknown"]
  /\ busy' = IF Holds(t) THEN busy \ {NodeOf[item[t]]} ELSE busy

-----------------------------------------------------------------------------
(* Operations begin: each reads what it will later work with.              *)

MayDo(t, o) ==
  CASE t = Refresher -> o \in Background \cap {"scan", "refresh", "save"}
    [] t = Reconciler -> o \in Background \cap {"project"}
    [] OTHER -> o \in Ops /\ calls < MaxCalls

FirstPlace(o) ==
  CASE o \in Actions -> "lock"
    [] o = "refresh" -> "query"
    [] o \in {"scan", "view"} -> "cache"
    [] o = "save" -> "save"
    [] o \in {"project", "report"} -> "row"

\* reconcileMu: held from the read of the row to the write of the model.
MutexIsFree == \A t \in Threads : op[t] # "project"

Begin(t, o, m) ==
  /\ pc[t] = "idle"
  /\ MayDo(t, o)
  /\ o = "project" => MutexIsFree
  /\ GoTo(t, FirstPlace(o))
  /\ op' = [op EXCEPT ![t] = o]
  /\ item' = [item EXCEPT ![t] = m]
  /\ copy' = [copy EXCEPT ![t] =
                CASE o = "view" -> stored[m]
                  [] o \in {"project", "report"} -> "unknown"
                  [] OTHER -> memory[m]]
  /\ seen' = [seen EXCEPT ![t] =
                CASE o = "project" -> observed[m]
                  [] o = "report" -> container[m]
                  [] OTHER -> "unknown"]
  /\ calls' = IF t \in Clients THEN calls + 1 ELSE calls
  /\ UNCHANGED <<container, memory, stored, observed, running, busy, blamed, outside>>

-----------------------------------------------------------------------------
(* executeAction.  The model was read before the node is locked.           *)

ActionLocks(t) ==
  /\ pc[t] = "lock"
  /\ NodeOf[item[t]] \notin busy
  /\ busy' = busy \cup {NodeOf[item[t]]}
  /\ GoTo(t, "wish")
  /\ UNCHANGED <<container, memory, stored, observed, running, op, item, copy,
                 seen, blamed, calls, outside>>

\* The call is refused and changes nothing.
ActionFindsBusy(t) ==
  /\ pc[t] = "lock"
  /\ NodeOf[item[t]] \in busy
  /\ Ends(t)
  /\ UNCHANGED <<container, memory, stored, observed, running, blamed, calls, outside>>

Allowed(o, state) ==
  CASE o = "load" -> state \in {"stopped", "unknown"}
    [] o = "unload" -> state \in {"loaded", "running"}
    [] o = "start" -> TRUE
    [] o = "stop" -> state = "running"

\* Another start of the group, on another node, is past its check.
Rushes(m) ==
  \E u \in Threads :
    /\ op[u] = "start" /\ pc[u] \in {"call", "mark"}
    /\ item[u] # m /\ NodeOf[item[u]] # NodeOf[m]
    /\ Grouped(m) /\ GroupOf[item[u]] = GroupOf[m]

\* Mutant: only a load asks the scheduler.
ActionAdmit_LoadOnly(t) ==
  /\ pc[t] = "check"
  /\ Allowed(op[t], copy[t])
  /\ op[t] = "load" => CanRun(running, item[t])
  /\ GoTo(t, IF op[t] = "unload" /\ copy[t] = "running" THEN "prestop" ELSE "call")
  /\ blamed' = IF op[t] = "start" /\ Rushes(item[t])
               THEN blamed \cup {GroupOf[item[t]]} ELSE blamed
  /\ UNCHANGED <<container, memory, stored, observed, running, busy,
                 op, item, copy, seen, calls, outside>>

\* The desired state is stored; the action goes on if the state of the model
\* allows it and no other model of the group runs.
ActionAdmit(t) ==
  /\ pc[t] = "check"
  /\ Allowed(op[t], copy[t])
  /\ op[t] \in {"load", "start"} => CanRun(running, item[t])
  /\ GoTo(t, IF op[t] = "unload" /\ copy[t] = "running" THEN "prestop" ELSE "call")
  /\ blamed' = IF op[t] = "start" /\ Rushes(item[t])
               THEN blamed \cup {GroupOf[item[t]]} ELSE blamed
  /\ UNCHANGED <<container, memory, stored, observed, running, busy,
                 op, item, copy, seen, calls, outside>>

\* A missing template, a missing adapter, a state or a group that forbids it.
ActionRefuse(t) ==
  /\ pc[t] = "check"
  /\ Ends(t)
  /\ UNCHANGED <<container, memory, stored, observed, running, blamed, calls, outside>>

\* What becomes of container c when an action succeeds (the mutant: a stop
\* whose outcome nobody looked at).
Achieved_Unclear(o, c) ==
  CASE o = "load" -> "loaded"
    [] o = "unload" -> "stopped"
    [] o = "start" -> "running"
    [] o = "stop" -> "unknown"

Achieved(o, c) ==
  CASE o = "load" -> "loaded"
    [] o = "unload" -> "stopped"
    [] o = "start" -> "running"
    [] o = "stop" -> IF c = "stopped" THEN "stopped" ELSE "loaded"

\* And when it reports a failure: some of its requests were carried out.
Outcomes(o, c) ==
  CASE o \in {"load", "start"} -> {c, "stopped", "loaded", Achieved(o, c)}
    [] o = "stop" -> {c, Achieved(o, c)}
    [] o = "unload" -> {c, Achieved("stop", c), "stopped"}

Becomes(m, c) == container' = [container EXCEPT ![m] = c]

\* A running model is stopped before it is unloaded; if that fails the
\* unload is given up.
ActionPrestop(t) ==
  /\ pc[t] = "prestop"
  /\ \/ /\ Becomes(item[t], Achieved("stop", container[item[t]]))
        /\ copy' = [copy EXCEPT ![t] = "loaded"]
        /\ GoTo(t, "stopped")
        /\ UNCHANGED <<busy, op, item, seen>>
     \/ /\ \E c \in Outcomes("stop", container[item[t]]) : Becomes(item[t], c)
        /\ Ends(t)
  /\ UNCHANGED <<memory, stored, observed, running, blamed, calls, outside>>

ActionCall(t) ==
  /\ pc[t] = "call"
  /\ LET c == Achieved(op[t], container[item[t]])
     IN  /\ Becomes(item[t], c)
         /\ seen' = [seen EXCEPT ![t] = c]
  /\ GoTo(t, "mark")
  /\ UNCHANGED <<memory, stored, observed, running, busy, op, item, copy,
                 blamed, calls, outside>>

\* A failed start may have left the container running, unknown to anybody.
ActionCallFails(t) ==
  /\ pc[t] = "call"
  /\ \E c \in Outcomes(op[t], container[item[t]]) :
       /\ Becomes(item[t], c)
       /\ blamed' = IF c = "running" /\ container[item[t]] # c
                    THEN blamed \cup ({GroupOf[item[t]]} \ {NoGroup}) ELSE blamed
  /\ GoTo(t, "done")
  /\ UNCHANGED <<memory, stored, observed, running, busy, op, item, copy, seen,
                 calls, outside>>

\* A container whose inspection fails is taken for a missing one.
Overlooks(t) ==
  /\ outside < MaxOutside
  /\ outside' = outside + 1
  /\ container[item[t]] # "stopped"
  /\ seen' = [seen EXCEPT ![t] = "stopped"]

\* Then there is nothing to stop or to remove, and the action has succeeded.
ActionOverlooks(t) ==
  /\ op[t] \in {"unload", "stop"}
  /\ \/ /\ pc[t] = "call"
        /\ GoTo(t, "mark")
        /\ UNCHANGED copy
     \/ /\ pc[t] = "prestop"
        /\ GoTo(t, "stopped")
        /\ copy' = [copy EXCEPT ![t] = "loaded"]
  /\ Overlooks(t)
  /\ UNCHANGED <<container, memory, stored, observed, running, busy, op, item,
                 blamed, calls>>

-----------------------------------------------------------------------------
(* What all operations share.                                              *)

\* Mutant: a container that is there keeps its place in the group.
Follows_KeepsPlace(t) ==
  LET m == item[t]
      now == CASE seen[t] = "running" -> MarkRunning(running, m)
               [] seen[t] = "stopped" -> MarkStopped(running, m)
               [] OTHER -> running
  IN  /\ running' = now
      /\ blamed' = blamed \cup Forgotten(now)

\* The scheduler follows what thread t was told of its container.
Follows(t) ==
  LET m == item[t]
      now == CASE seen[t] = "running" -> MarkRunning(running, m)
               [] seen[t] = "unknown" -> running
               [] OTHER -> MarkStopped(running, m)
  IN  /\ running' = now
      /\ blamed' = blamed \cup Forgotten(now)

\* After an adapter call, or after a status query (an action's or a refresh's).
Mark(t) ==
  /\ pc[t] \in {"mark", "status"}
  /\ Follows(t)
  /\ copy' = [copy EXCEPT ![t] = seen[t]]
  /\ GoTo(t, IF pc[t] = "mark" THEN "done" ELSE "put")
  /\ UNCHANGED <<container, memory, stored, observed, busy, op, item, seen,
                 calls, outside>>

\* reconcileContainerModel: the status, or a record that only says it failed.
QueryAnswered(t) ==
  /\ pc[t] = "query"
  /\ seen' = [seen EXCEPT ![t] = container[item[t]]]
  /\ GoTo(t, "status")
  /\ UNCHANGED <<container, memory, stored, observed, running, busy, op, item,
                 copy, blamed, calls, outside>>

QueryOverlooks(t) ==
  /\ pc[t] = "query"
  /\ Overlooks(t)
  /\ GoTo(t, "status")
  /\ UNCHANGED <<container, memory, stored, observed, running, busy, op, item,
                 copy, blamed, calls>>

QueryFails(t) ==
  /\ pc[t] = "query"
  /\ GoTo(t, "put")
  /\ UNCHANGED <<container, memory, stored, observed, running, busy, op, item,
                 copy, seen, blamed, calls, outside>>

\* modelRegistry.Upsert and persistModel write the whole local copy.
Store(t) ==
  /\ pc[t] \in {"wish", "stopped", "done", "put"}
  /\ memory' = [memory EXCEPT ![item[t]] = copy[t]]
  /\ stored' = [stored EXCEPT ![item[t]] = copy[t]]
  /\ IF pc[t] = "put"
     THEN Ends(t)
     ELSE /\ GoTo(t, CASE pc[t] = "wish" -> "check"
                       [] pc[t] = "stopped" -> "call"
                       [] pc[t] = "done" -> "query")
          /\ UNCHANGED <<busy, op, item, copy, seen>>
  /\ UNCHANGED <<container, observed, running, blamed, calls, outside>>

-----------------------------------------------------------------------------
(* Operations without a lock.                                              *)

\* What was read before becomes the entry of the registry.
Cache(t) ==
  /\ pc[t] = "cache"
  /\ memory' = [memory EXCEPT ![item[t]] = copy[t]]
  /\ Ends(t)
  /\ UNCHANGED <<container, stored, observed, running, blamed, calls, outside>>

\* GetModel and ListModels cache the stored row.
View(t) == op[t] = "view" /\ Cache(t)

\* The scan of the model directory replaces the entries it has read.
Scan(t) == op[t] = "scan" /\ Cache(t)

\* SyncRegistryToStore.
Save(t) ==
  /\ pc[t] = "save"
  /\ stored' = [stored EXCEPT ![item[t]] = copy[t]]
  /\ Ends(t)
  /\ UNCHANGED <<container, memory, observed, running, blamed, calls, outside>>

\* A reconcile writes the instance back and projects it onto the model.  A
\* report writes what the agent saw, and then it reconciles.
RowWrite(t) ==
  /\ pc[t] = "row"
  /\ observed' = [observed EXCEPT ![item[t]] = seen[t]]
  /\ GoTo(t, IF op[t] = "report" THEN "reported" ELSE "project")
  /\ UNCHANGED <<container, memory, stored, running, busy, op, item, copy, seen,
                 blamed, calls, outside>>

ReportReconciles(t) ==
  /\ pc[t] = "reported"
  /\ MutexIsFree
  /\ op' = [op EXCEPT ![t] = "project"]
  /\ seen' = [seen EXCEPT ![t] = observed[item[t]]]
  /\ GoTo(t, "row")
  /\ UNCHANGED <<container, memory, stored, observed, running, busy, item, copy,
                 blamed, calls, outside>>

Project(t) ==
  /\ pc[t] = "project"
  /\ Follows(t)
  /\ copy' = [copy EXCEPT ![t] =
                IF seen[t] = "unknown" THEN memory[item[t]] ELSE seen[t]]
  /\ GoTo(t, "put")
  /\ UNCHANGED <<container, memory, stored, observed, busy, op, item, seen,
                 calls, outside>>

-----------------------------------------------------------------------------
(* The surroundings.                                                       *)

\* A container exits, or an agent or a user starts, stops or removes it.
Outside(m, c) ==
  /\ outside < MaxOutside
  /\ outside' = outside + 1
  /\ c # container[m]
  /\ Becomes(m, c)
  /\ blamed' = IF c = "running" THEN blamed \cup ({GroupOf[m]} \ {NoGroup}) ELSE blamed
  /\ UNCHANGED <<memory, stored, observed, running, busy, pc, op, item, copy,
                 seen, calls>>

\* The controller restarts on the same database; SetStore takes the rows
\* over, the scheduler starts empty.
ControllerRestart ==
  /\ outside < MaxOutside
  /\ outside' = outside + 1
  /\ memory' = stored
  /\ running' = NobodyRuns
  /\ busy' = {}
  /\ pc' = [t \in Threads |-> "idle"]
  /\ op' = [t \in Threads |-> "none"]
  /\ item' = [t \in Threads |-> NoModel]
  /\ copy' = [t \in Threads |-> "unknown"]
  /\ seen' = [t \in Threads |-> "unknown"]
  /\ blamed' = blamed \cup RunningGroups(container)
  /\ UNCHANGED <<container, stored, observed, calls>>

-----------------------------------------------------------------------------
Step(t) ==
  \/ ActionLocks(t)
  \/ ActionFindsBusy(t)
  \/ ActionAdmit(t)
  \/ ActionRefuse(t)
  \/ ActionPrestop(t)
  \/ ActionCall(t)
  \/ ActionCallFails(t)
  \/ ActionOverlooks(t)
  \/ Mark(t)
  \/ QueryAnswered(t)
  \/ QueryOverlooks(t)
  \/ QueryFails(t)
  \/ Store(t)
  \/ View(t)
  \/ Scan(t)
  \/ Save(t)
  \/ RowWrite(t)
  \/ ReportReconciles(t)
  \/ Project(t)

Next ==
  \/ \E t \in Threads :
       \/ \E o \in Operations, m \in Models : Begin(t, o, m)
       \/ Step(t)
  \/ \E m \in Models, c \in Containers : Outside(m, c)
  \/ ControllerRestart

Spec == Init /\ [][Next]_vars

\* The tickers of the two loops fire for ever and each pass comes to every
\* model; the container engine is not out of reach for ever.
LoopFairness ==
  /\ \A t \in {Refresher, Reconciler} : WF_vars(Step(t))
  /\ \A m \in Models :
       /\ SF_vars(Begin(Refresher, "refresh", m))
       /\ SF_vars(item[Refresher] = m /\ QueryAnswered(Refresher))
       /\ SF_vars(Begin(Reconciler, "project", m))

FairSpec == Spec /\ LoopFairness
-----------------------------------------------------------------------------
(* Properties.                                                             *)

(***************************************************************************)
(* tryLockNodeAction: no two actions are under way on one node, whichever  *)
(* way the earlier ones ended (refused, failed, cut short by a restart),   *)
(* and nothing else gives the node away.                                   *)
(***************************************************************************)
OneActionPerNode ==
  \A t, u \in Threads :
    t # u /\ Holds(t) /\ Holds(u) =>
      NodeOf[item[t]] # NodeOf[item[u]]

(***************************************************************************)
(* Two containers of one exclusion group run together only if something    *)
(* disturbed the group: a start outside of the actions or one that took    *)
(* effect although it failed, a restart that made the scheduler forget a   *)
(* running model, a stale or false status that marked it stopped, or       *)
(* two starts on two nodes between check and mark.  The actions alone      *)
(* (node lock, CanRun, adapter, MarkRunning, MarkStopped) never do it.     *)
(***************************************************************************)
OverlapHasCause ==
  \A m, n \in Models :
    /\ m # n /\ Grouped(m) /\ GroupOf[m] = GroupOf[n]
    /\ container[m] = "running" /\ container[n] = "running"
    => GroupOf[m] \in blamed

Quiet == \A c \in Clients : pc[c] = "idle"

\* The controller believes what is true of every container.
Recorded ==
  /\ memory = container /\ stored = container
  /\ \A g \in Groups :
       LET up == {m \in Models : GroupOf[m] = g /\ container[m] = "running"}
       IN  running[g] \in (IF up = {} THEN {NoModel} ELSE up)

(***************************************************************************)
(* When clients rest and the instances hold what their containers are, the *)
(* loops bring the registry, the store and the scheduler to the truth and  *)
(* keep them there, whatever stale copies, lost writes, failed calls and   *)
(* restarts came before.                                                   *)
(***************************************************************************)
RecordSettles == <>[](Quiet /\ observed = container) => <>[]Recorded

(***************************************************************************)
(* The refresh is said to make the state of a model follow the actual      *)
(* state of its container: once clients rest, it does so for good.         *)
(***************************************************************************)
RecordFollowsRuntime == <>[]Quiet => <>[](memory = container)
=============================================================================
