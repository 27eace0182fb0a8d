--------------------------- MODULE RuntimeGating ---------------------------
(***************************************************************************)
(* What one reconcile decides about a runtime instance: the action it      *)
(* wants, the instances in its way, whether the action may go ahead, the   *)
(* plan, and how readiness and drift are explained; and what an agent's    *)
(* observation or a model sync makes of a row.  Everything here is a       *)
(* function of rows; who reads and writes them, and when, is the subject   *)
(* of RuntimeReconcile.                                                    *)
(*                                                                         *)
(* A row keeps the fields the decisions depend on.  Reasons, messages,     *)
(* timestamps, mounts, scripts and the conflict summary are explanation.   *)
(***************************************************************************)
EXTENDS Naturals

CONSTANTS
  NumInstances,   \* instances are numbered in the order of their ids
  NodeOf,         \* the node of each instance
  KindOf,         \* the runtime kind of its manifest
  PortsOf,        \* the host ports it resolves to
  Misbound        \* instances whose binding its manifest forbids

ASSUME NumInstancesIsPositive == NumInstances \in Nat \ {0}

Instances == 1 .. NumInstances

\* busy and error are states of LM Studio models, which have no instance.
ModelStates == {"running", "loaded", "stopped", "unknown"}
Readiness == {"ready", "not_ready", "unknown"}

\* drift_reason: "blocked" for precheck_gating=true, precheck_blocked and
\* gating_blocked, "state" for desired=.. observed=.., "model" for the health
\* message of a model that tells of a drift, "not_ready" for
\* runtime_running_not_ready, "agent" for agent_offline and
\* agent_observation_stale.
Drifts == {"none", "blocked", "state", "model", "not_ready", "agent"}

Gatings == {"unknown", "allowed", "blocked", "deferred"}

Plans == [action : {"none", "load", "unload"},
          status : {"completed", "planned", "blocked", "deferred"}]

Row == [desired : ModelStates, observed : ModelStates, ready : Readiness,
        drift : Drifts, precheck : BOOLEAN, gating : Gatings, plan : Plans]

NoPlan == [action |-> "none", status |-> "completed"]
Granted == [action |-> "load", status |-> "planned"]
Deferred == [action |-> "load", status |-> "deferred"]
BlockedLoad == [action |-> "load", status |-> "blocked"]
Unload == [action |-> "unload", status |-> "planned"]

\* A row as a sync creates it: no precheck, no gating, no plan yet.
NewRow(desired, observed, ready) ==
  [desired |-> desired, observed |-> observed, ready |-> ready,
   drift |-> IF desired = observed THEN "none" ELSE "state",
   precheck |-> FALSE, gating |-> "unknown", plan |-> NoPlan]

FirstReason(current, new) == IF current = "none" THEN new ELSE current

-----------------------------------------------------------------------------
(* The target action.  A start or a restart wants a load and a stop an     *)
(* unload whatever the row says; every other trigger follows the row.      *)

WantsLoad(row, trigger) ==
  \/ trigger = "start"
  \/ /\ trigger # "stop"
     /\ row.desired = "running"
     /\ row.observed # "running"

WantsUnload(row, trigger) ==
  \/ trigger = "stop"
  \/ /\ trigger # "start"
     /\ row.desired = "stopped"
     /\ row.observed = "running"

(* Conflicts.                                                              *)

Occupying(row) ==
  \/ row.observed = "running"
  \/ row.desired = "running" /\ row.observed # "stopped"
  \/ row.plan \in {Granted, Deferred}

Rivals(i, rows) ==
  {j \in Instances \ {i} : NodeOf[j] = NodeOf[i] /\ Occupying(rows[j])}

KindRivals(i, row, rows, trigger) ==
  {j \in Rivals(i, rows) :
     /\ KindOf[j] = KindOf[i]
     /\ row.observed # "running"
     /\ row.desired = "running" \/ WantsLoad(row, trigger)}

PortRivals(i, rows) ==
  {j \in Rivals(i, rows) : PortsOf[j] \cap PortsOf[i] # {}}

(* Gating.  Only a load is ever held back; signals are what the reconcile  *)
(* finds out about the agent: "offline", "stale".                          *)

Held(i, row, rows, trigger, signals) ==
  /\ WantsLoad(row, trigger)
  /\ \/ row.precheck
     \/ i \in Misbound
     \/ signals # {}
     \/ KindRivals(i, row, rows, trigger) # {}
     \/ PortRivals(i, rows) # {}

GatingOf(i, row, rows, trigger, signals) ==
  IF ~Held(i, row, rows, trigger, signals) THEN "allowed"
  ELSE IF KindRivals(i, row, rows, trigger) # {} THEN "deferred" ELSE "blocked"

\* Mutation: without a transition to make, the old plan is left in place.
PlanOf_KeepOld(i, row, rows, trigger, signals) ==
  CASE WantsLoad(row, trigger) ->
         [action |-> "load",
          status |-> IF Held(i, row, rows, trigger, signals)
                     THEN GatingOf(i, row, rows, trigger, signals)
                     ELSE "planned"]
    [] WantsUnload(row, trigger) -> Unload
    [] OTHER -> row.plan

\* Mutation: the gating status is taken for the plan's status.
PlanOf_GatingStatus(i, row, rows, trigger, signals) ==
  CASE WantsLoad(row, trigger) ->
         [action |-> "load",
          status |-> GatingOf(i, row, rows, trigger, signals)]
    [] WantsUnload(row, trigger) -> Unload
    [] OTHER -> NoPlan

\* Mutation: a held load is recorded as deferred whatever holds it.
PlanOf_AlwaysDeferred(i, row, rows, trigger, signals) ==
  CASE WantsLoad(row, trigger) ->
         IF Held(i, row, rows, trigger, signals) THEN Deferred ELSE Granted
    [] WantsUnload(row, trigger) -> Unload
    [] OTHER -> NoPlan

PlanOf(i, row, rows, trigger, signals) ==
  CASE WantsLoad(row, trigger) ->
         [action |-> "load",
          status |-> IF Held(i, row, rows, trigger, signals)
                     THEN GatingOf(i, row, rows, trigger, signals)
                     ELSE "planned"]
    [] WantsUnload(row, trigger) -> Unload
    [] OTHER -> NoPlan

\* The instances a held load asks to give up the slot.
ReleaseTargets(i, row, rows, trigger, signals) ==
  IF Held(i, row, rows, trigger, signals)
  THEN KindRivals(i, row, rows, trigger) ELSE {}

(* Explanation.                                                            *)

RunningReady(row) == row.observed = "running" /\ row.ready = "ready"

\* Mutation: a running instance is taken for ready.
ReadyAfter_FromState(row, held) ==
  IF \/ held
     \/ row.desired = "running" /\ row.observed # "running"
     \/ row.desired = "stopped" /\ row.ready = "ready"
  THEN "not_ready"
  ELSE IF row.desired = "running" THEN "ready" ELSE row.ready

ReadyAfter(row, held) ==
  IF \/ held
     \/ row.desired = "running" /\ ~RunningReady(row)
     \/ row.desired = "stopped" /\ row.ready = "ready"
  THEN "not_ready" ELSE row.ready

\* The drift before the agent's signals are looked at.
StateDrift(row, held) ==
  CASE held -> FirstReason(row.drift, "blocked")
    [] ~held /\ row.desired = "running" /\ row.observed # "running" -> "state"
    [] ~held /\ row.desired = "running" /\ row.observed = "running" ->
         IF row.ready # "ready" THEN "not_ready"
         ELSE IF row.drift = "state" THEN "none" ELSE row.drift
    [] ~held /\ row.desired = "stopped" /\ row.observed = "running" -> "state"
    [] OTHER -> row.drift

DriftAfter(row, held, trigger, signals) ==
  LET drift == StateDrift(row, held)
      agent == \/ "stale" \in signals
               \/ "offline" \in signals /\ WantsLoad(row, trigger)
  IN  IF row.desired = "running" /\ agent THEN FirstReason(drift, "agent")
      ELSE drift

Reconciled(i, row, rows, trigger, signals) ==
  LET held == Held(i, row, rows, trigger, signals)
  IN  [row EXCEPT !.gating = GatingOf(i, row, rows, trigger, signals),
                  !.plan = PlanOf(i, row, rows, trigger, signals),
                  !.ready = ReadyAfter(row, held),
                  !.drift = DriftAfter(row, held, trigger, signals)]

-----------------------------------------------------------------------------
(* Observations of the agent.  A report that a precheck has started counts *)
(* as a failed one, one that a readiness check has started as not ready.   *)

Observations == {"precheck_ok", "precheck_failed", "ready", "not_ready",
                 "up", "up_not_ready", "exists", "gone", "other"}

Facts(row, o) ==
  CASE o = "precheck_ok" -> [row EXCEPT !.precheck = FALSE]
    [] o = "precheck_failed" ->
         [row EXCEPT !.precheck = TRUE, !.ready = "not_ready",
                     !.drift = FirstReason(row.drift, "blocked")]
    [] o = "ready" -> [row EXCEPT !.ready = "ready"]
    [] o = "not_ready" -> [row EXCEPT !.ready = "not_ready"]
    [] o = "up" -> [row EXCEPT !.observed = "running", !.ready = "ready"]
    [] o = "up_not_ready" ->
         [row EXCEPT !.observed = "running", !.ready = "not_ready"]
    [] o = "exists" -> [row EXCEPT !.observed = "loaded", !.ready = "not_ready"]
    [] o = "gone" -> [row EXCEPT !.observed = "stopped", !.ready = "not_ready"]
    [] OTHER -> row

Observed(row, o) ==
  LET seen == Facts(row, o)
  IN  [seen EXCEPT
         !.ready = IF seen.precheck /\ @ = "ready" THEN "not_ready" ELSE @,
         !.drift = IF seen.desired = seen.observed THEN @
                   ELSE FirstReason(@, "state")]

(* A model sync: the desired state comes from the model, everything the    *)
(* row already knows is kept, and what it does not know is taken from the  *)
(* model's view, of which only the outcome is modelled.                    *)

Synced(row, desired, ready, drift) ==
  [row EXCEPT
     !.desired = desired,
     !.ready = IF @ = "unknown" THEN ready ELSE @,
     !.drift = FirstReason(@, drift)]
=============================================================================
