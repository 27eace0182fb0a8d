----------------------------- MODULE NodeTasks -----------------------------
(***************************************************************************)
(* What the agent does on its node for a task (cmd/agent/main.go).  One    *)
(* task is executed at a time, probe by probe, while the node goes on      *)
(* changing: the container is moved by the controller's own adapter or     *)
(* dies, files come and go, other processes take ports.                    *)
(*                                                                         *)
(* Docker is reached through its CLI, which is given no time limit, or,    *)
(* where there is none, through the API, whose client has one.  A call may *)
(* fail or be given up with or without its effect.                         *)
(***************************************************************************)
EXTENDS NodeContext, FiniteSets, Naturals

CONSTANTS
  Works,       \* the tasks the controller may hand out: [type, payload]
  Transports,  \* subset of {"cli", "api"}: how docker may be reached
  Ports,       \* ports of the node
  Published,   \* the ports the container publishes
  Files,       \* the paths tasks refer to
  AgentEnv,    \* the environment variables the agent has
  MountPoints, \* the container paths a manifest with mounts allows
  ModelPort,   \* the port of the endpoint the controller knows for a model
  MaxChanges   \* bound: changes of the node by others

Types == {"readiness", "port", "path", "snapshot", "inspect", "start", "stop",
          "precheck"}

ASSUME WorksAreTasks ==
  \A w \in Works : w.type \in Types /\ w.payload \in Payload
ASSUME PortsAreKnown ==
  Published \subseteq Ports /\ ModelPort \in Ports /\ Ports \subseteq STRING
ASSUME TransportsAreKnown == Transports \subseteq {"cli", "api"}
ASSUME NamesAreGiven == "" \notin Ports \cup Files
ASSUME BoundIsNatural == MaxChanges \in Nat
\* True of strings; the provers know nothing of the set they form.
ASSUME LiteralsAreTexts == {"", "runtime_instance", "legacy"} \subseteq STRING

VARIABLES
  transport,  \* how docker is reached
  container,  \* the runtime's container
  foreign,    \* ports held by other processes
  files,      \* the paths that exist
  hung,       \* the docker daemon has stopped answering
  changes,    \* changes of the node so far
  pc,         \* what the agent is doing
  task,       \* the task it executes: type and resolved context
  report,     \* the result it has so far
  was         \* history: what the node has been since the task began

node == <<container, foreign, files>>
vars == <<transport, container, foreign, files, hung, changes, pc, task,
          report, was>>

\* "ready": running, and its service answers the health check.
Containers == {"absent", "stopped", "running", "ready"}
Up(c) == c \in {"running", "ready"}

\* The stages of a precheck, in order.
Stages == {"model_path", "mounts", "env", "script", "policies",
           "compatibility", "container", "endpoint", "ports", "bundle"}
Places == Stages \cup {"idle", "dial", "health", "start", "stop", "inspect",
                       "done"}

PortInUse(p) == p \in foreign \/ (Up(container) /\ p \in Published)

Unsaid == "unsaid"
NoReport ==
  [ok |-> FALSE, gating |-> FALSE, overall |-> "", reasons |-> {},
   observed |-> Unsaid, sawRunning |-> FALSE, overlooked |-> FALSE]

Results ==
  [ok : BOOLEAN, gating : BOOLEAN, overall : Overall \cup {""},
   reasons : SUBSET ReasonCodes,
   observed : {Unsaid, "running", "loaded", "stopped"},
   sawRunning : BOOLEAN, overlooked : BOOLEAN]

\* What was true of the node at some moment, or (held) at all moments.
Now == [containers |-> {container}, files |-> files, ever |-> foreign,
        held |-> foreign]
Seen(w, c, ff, ps) ==
  [containers |-> w.containers \cup {c}, files |-> w.files \cup ff,
   ever |-> w.ever \cup ps, held |-> w.held \cap ps]

TypeOK ==
  /\ transport \in {"cli", "api"}
  /\ container \in Containers
  /\ foreign \subseteq Ports
  /\ files \subseteq Files
  /\ hung \in BOOLEAN
  /\ changes \in 0..MaxChanges
  /\ pc \in Places
  /\ task \in [type : Types, context : Layer]
  /\ report \in Results
  /\ was \in [containers : SUBSET Containers, files : SUBSET Files,
              ever : SUBSET Ports, held : SUBSET Ports]

Blank == [f \in Texts \cup Flags |-> ""]
NoTask == [type |-> "snapshot", context |-> Blank]

Init ==
  /\ transport \in Transports
  /\ container \in {"absent", "stopped", "ready"}
  /\ foreign = {}
  /\ files \in {{}, Files}
  /\ hung = FALSE
  /\ changes = 0
  /\ pc = "idle"
  /\ task = NoTask
  /\ report = NoReport
  /\ was = Now

\* The stage ends; r is the report after it.
Continue(next, r) == pc' = next /\ report' = r

\* The end of a task: the result goes into its envelope.

Done(ok, r) ==
  /\ pc' = "done"
  /\ report' = [r EXCEPT !.ok = ok, !.overall = Envelope(ok, @)]

Fail(r) == Done(FALSE, r)

-----------------------------------------------------------------------------
(* Beginning a task.                                                       *)

FirstStep(type) ==
  CASE type \in {"readiness", "port"} -> "dial"
    [] type \in {"path", "precheck"} -> "model_path"
    [] type = "snapshot" -> "bundle"
    [] OTHER -> type

\* What the executor of a type cannot do without.
Needs(type) ==
  CASE type = "path" -> {"model_path"}
    [] type \in {"inspect", "start", "stop"} -> {"container"}
    [] OTHER -> {}

\* A task without an endpoint asks the controller for that of its model; the
\* controller may not answer.
Endpoints(ctx) ==
  {ctx["endpoint"]} \cup
    (IF ctx["endpoint"] = "" /\ ctx["model"] # "" THEN {ModelPort} ELSE {})

\* The context is resolved, written back to the payload and read from there
\* by the executor.
Accept(w) ==
  /\ pc = "idle"
  /\ LET ctx == Resolved(w.payload)
         own == Resolved(Applied(w.payload, ctx))
         refused == \/ MissingFields(ctx) # {}
                    \/ \E f \in Needs(w.type) : own[f] = ""
     IN  /\ \E port \in IF w.type = "readiness" THEN Endpoints(own)
                                               ELSE {own["endpoint"]} :
              task' = [type |-> w.type,
                       context |-> [own EXCEPT !["endpoint"] = port]]
         /\ IF refused THEN Fail(NoReport)
            ELSE Continue(FirstStep(w.type),
                   [NoReport EXCEPT !.overall =
                      IF w.type = "precheck" THEN "ok" ELSE ""])
  /\ was' = Now
  /\ UNCHANGED <<transport, node, hung, changes>>

\* The result is reported and the agent waits for its next poll.
Return ==
  /\ pc = "done"
  /\ pc' = "idle"
  /\ report' = NoReport
  /\ task' = NoTask
  /\ was' = Now
  /\ UNCHANGED <<transport, node, hung, changes>>

-----------------------------------------------------------------------------
(* Probes that need no docker.                                             *)

Ctx == task.context
AtStage(stage) == pc = stage /\ UNCHANGED <<transport, node, hung, changes,
                                            task, was>>

CheckEndpointPort ==
  /\ AtStage("dial")
  /\ IF Ctx["endpoint"] \in Ports /\ PortInUse(Ctx["endpoint"])
     THEN IF task.type = "port" THEN Done(TRUE, report)
                                ELSE Continue("health", report)
     ELSE Fail(report)

\* Whoever holds the port answers the health check; a container that is not
\* ready yet does not answer it well, and the request may be lost.
CheckHealth ==
  /\ AtStage("health")
  /\ \/ /\ \/ container = "ready" /\ Ctx["endpoint"] \in Published
           \/ Ctx["endpoint"] \in foreign
        /\ Done(TRUE, report)
     \/ Fail(report)

CheckModelPath ==
  /\ AtStage("model_path")
  /\ LET found == Ctx["model_path"] \in files
     IN  IF task.type = "path" THEN Done(found, report)
         ELSE Continue("mounts",
                       BlockedIf(report, ~found, "model_path_missing"))

\* Without rules of the binding those of the manifest are used, and noted.
\* A rule is <host path>:<container path>; both paths are one name here.
CheckMounts ==
  /\ AtStage("mounts")
  /\ LET rule == Ctx["rules"]
         bad == \/ rule \notin files
                \/ Ctx["mounts"] # "" /\ rule \notin MountPoints
     IN  Continue("env",
           IF rule = "" THEN WarnedIf(report, Ctx["mounts"] # "")
                        ELSE BlockedIf(report, bad, "binding_invalid"))

CheckEnv ==
  /\ AtStage("env")
  /\ LET missing == /\ Ctx["env"] # ""
                    /\ Ctx["env_override"] # Ctx["env"]
                    /\ Ctx["env"] \notin AgentEnv
     IN  Continue("script", BlockedIf(report, missing, "required_env_missing"))

CheckScript ==
  /\ AtStage("script")
  /\ Continue("policies",
       BlockedIf(report, ScriptRequired(Ctx) /\ Ctx["script"] \notin files,
                 "script_missing"))

\* A manifest that says nothing of a policy allows it.
CheckPolicies ==
  /\ AtStage("policies")
  /\ Continue("compatibility",
       BlockedIf(BlockedIf(report,
                   Ctx["override_ok"] = "no" /\ Ctx["command"] # "",
                   "command_override_not_allowed"),
         Ctx["script_ok"] = "no" /\ ScriptRequired(Ctx),
         "script_mount_not_allowed"))

CheckCompatibility ==
  /\ AtStage("compatibility")
  /\ Continue(IF Ctx["container"] # "" THEN "container" ELSE "endpoint",
       BlockedIf(BlockedIf(report,
                   ~Compatible(Ctx["types"], Ctx["model_type"]),
                   "model_type_mismatch"),
         ~Compatible(Ctx["formats"], Ctx["model_format"]),
         "model_format_mismatch"))

CheckEndpoint ==
  /\ pc = "endpoint"
  /\ \E port \in Endpoints(Ctx) :
       /\ task' = [task EXCEPT !.context["endpoint"] = port]
       /\ Continue("ports", WarnedIf(report, port # "" /\ ~PortInUse(port)))
  /\ UNCHANGED <<transport, node, hung, changes, was>>

\* The ports the runtime needs must be free, except the endpoint's own port
\* when the container was seen running.
ResolvedPorts == {Ctx["exposed"], Ctx["endpoint"]} \ {""}

\* Mutation: the runtime's own port is not excepted.
Conflicts_OwnPort(p) == p \in ResolvedPorts /\ PortInUse(p)

Conflicts(p) ==
  /\ p \in ResolvedPorts
  /\ PortInUse(p)
  /\ ~(report.sawRunning /\ p = Ctx["endpoint"])

CheckPorts ==
  /\ AtStage("ports")
  /\ Continue("bundle",
       BlockedIf(report, \E p \in Ports : Conflicts(p), "port_conflict"))

\* The last check of a precheck; a resource snapshot always succeeds.
Finish ==
  /\ AtStage("bundle")
  /\ IF task.type = "snapshot" THEN Done(TRUE, report)
     ELSE LET r == BlockedIf(report, BundleIncomplete(Ctx), "manifest_invalid")
          IN  Done(~r.gating, r)

-----------------------------------------------------------------------------
(* Calls of docker.  A call that fails may have had its effect.            *)

Called(c) ==
  /\ container' = c
  /\ was' = Seen(was, c, files, foreign)
  /\ UNCHANGED <<transport, foreign, files, hung, changes, task>>

Started == IF container = "stopped" /\ Published \cap foreign = {}
           THEN "running" ELSE container
Stopped == IF Up(container) THEN "stopped" ELSE container

\* The CLI takes a call that finds nothing to do for done; over the API
\* "not modified" (304) is an error, and so is "no such container" for a stop.
StartSucceeds ==
  /\ Up(Started)
  /\ Up(container) => transport = "cli"
StopSucceeds == Up(container) \/ transport = "cli"

StartAnswered ==
  /\ pc = "start" /\ ~hung
  /\ Called(Started)
  /\ IF StartSucceeds THEN Continue("inspect", report) ELSE Fail(report)

StopAnswered ==
  /\ pc = "stop" /\ ~hung
  /\ Called(Stopped)
  /\ IF StopSucceeds THEN Continue("inspect", report) ELSE Fail(report)

\* The daemon's error, an answer that cannot be parsed, or the end of the API
\* client's patience.
\* Mutation: only the inspection is given a time limit.
GivesUp_InspectOnly == ~hung \/ (transport = "api" /\ pc = "inspect")

GivesUp == ~hung \/ transport = "api"

ActionFails ==
  /\ pc \in {"start", "stop"} /\ GivesUp
  /\ \E c \in {container, IF pc = "start" THEN Started ELSE Stopped} : Called(c)
  /\ Fail(report)

Inspecting == pc \in {"inspect", "container"}

\* Mutation: an inspection that answers succeeds, whatever it found.
ResultOf_AnyAnswer(type) ==
  CASE type = "start" -> Up(container)
    [] type = "stop" -> ~Up(container)
    [] OTHER -> TRUE

\* After a start the container must run, after a stop it must not.
ResultOf(type) ==
  CASE type = "start" -> Up(container)
    [] type = "stop" -> ~Up(container)
    [] OTHER -> container # "absent"

\* Mutation: docker's own word for the state is passed on.
ObservedState_Raw(c) == c

ObservedState(c) ==
  CASE Up(c) -> "running" [] c = "absent" -> "stopped" [] OTHER -> "loaded"

InspectAnswered ==
  /\ Inspecting /\ ~hung
  /\ Called(container)
  /\ IF pc = "inspect"
     THEN Done(ResultOf(task.type),
               [report EXCEPT !.observed = ObservedState(container)])
     ELSE Continue("endpoint",
            [WarnedIf(report, ~Up(container)) EXCEPT
               !.sawRunning = Up(container),
               !.observed = IF Up(container) THEN "running" ELSE "loaded"])

\* A precheck goes on without what the inspection would have said.
InspectFails ==
  /\ Inspecting /\ GivesUp
  /\ Called(container)
  /\ IF pc = "inspect" THEN Fail(report)
     ELSE Continue("endpoint", [Warned(report) EXCEPT !.overlooked = TRUE,
                                                      !.observed = "loaded"])

-----------------------------------------------------------------------------
(* The node.                                                               *)

Changed(c, ff, ps) ==
  /\ <<c, ff, ps>> # <<container, files, foreign>>
  /\ changes < MaxChanges
  /\ changes' = changes + 1
  /\ container' = c
  /\ files' = ff
  /\ foreign' = ps
  /\ was' = Seen(was, c, ff, ps)
  /\ UNCHANGED <<transport, hung, pc, task, report>>

\* The controller's adapter or an operator, or the container by itself.  It
\* runs only where its ports are free.
ContainerMoves ==
  \E c \in Containers :
    /\ Up(c) => Published \cap foreign = {}
    /\ c = "ready" => container = "running"
    /\ Changed(c, files, foreign)

FileMoves ==
  \E f \in Files : \E ff \in {files \cup {f}, files \ {f}} :
    Changed(container, ff, foreign)

\* Another process takes a free port, or leaves one.
PortMoves ==
  \E p \in Ports :
    \/ ~PortInUse(p) /\ Changed(container, files, foreign \cup {p})
    \/ p \in foreign /\ Changed(container, files, foreign \ {p})

DaemonHangs ==
  /\ ~hung
  /\ hung' = TRUE
  /\ UNCHANGED <<transport, node, changes, pc, task, report, was>>

Probe ==
  \/ CheckEndpointPort \/ CheckHealth \/ CheckModelPath \/ CheckMounts
  \/ CheckEnv \/ CheckScript \/ CheckPolicies \/ CheckCompatibility
  \/ CheckEndpoint \/ CheckPorts \/ Finish
DockerCall ==
  \/ StartAnswered \/ StopAnswered \/ ActionFails
  \/ InspectAnswered \/ InspectFails

Next ==
  \/ \E w \in Works : Accept(w)
  \/ Return
  \/ Probe
  \/ DockerCall
  \/ ContainerMoves \/ FileMoves \/ PortMoves \/ DaemonHangs

Spec == Init /\ [][Next]_vars
-----------------------------------------------------------------------------
(* Properties.                                                             *)

RanOnce == \E c \in was.containers : Up(c)
RestedOnce == \E c \in was.containers : ~Up(c)

\* The paths a precheck vouches for.
PathsOf(ctx) ==
  {ctx["model_path"], ctx["script"], ctx["rules"]} \ {""}

(***************************************************************************)
(* What a task reports as achieved was true of the node at some moment     *)
(* while it was executed, although every probe may be stale by the time of *)
(* the report, calls are given up and others move the container.           *)
(***************************************************************************)
SuccessWasTrue ==
  pc = "done" /\ report.ok =>
    CASE task.type = "start" -> RanOnce /\ report.observed = "running"
      [] task.type = "stop" -> RestedOnce /\ report.observed # "running"
      [] task.type = "inspect" -> was.containers # {"absent"}
      [] task.type = "path" -> Ctx["model_path"] \in was.files
      [] task.type \in {"port", "readiness"} ->
           \/ Ctx["endpoint"] \in was.ever
           \/ /\ Ctx["endpoint"] \in Published
              /\ RanOnce
              /\ task.type = "readiness" => "ready" \in was.containers
      [] task.type = "precheck" -> PathsOf(Ctx) \subseteq was.files
      [] OTHER -> TRUE

(***************************************************************************)
(* The verdict of a precheck is the sum of its checks in whatever order    *)
(* failures and warnings come: it gates exactly if there is a reason, and  *)
(* an unsuccessful task of any kind is "failed" overall.                   *)
(***************************************************************************)
VerdictIsSum ==
  pc = "done" =>
    /\ report.gating <=> report.reasons # {}
    /\ report.ok => ~report.gating /\ report.overall # "failed"
    /\ ~report.ok => report.overall = "failed"

(***************************************************************************)
(* A precheck that gates for a port has a cause other than the runtime     *)
(* itself: another process had the port, the container was not known       *)
(* (none named, or its inspection failed), it was moved meanwhile, or it   *)
(* publishes the port beside that of its endpoint.  And a port that        *)
(* another process held all the time gates, unless it is the endpoint's    *)
(* and the container runs.                                                 *)
(***************************************************************************)
PortVerdictHasCause ==
  pc = "done" /\ task.type = "precheck" =>
    /\ "port_conflict" \in report.reasons =>
         \/ was.ever \cap ResolvedPorts # {}
         \/ Ctx["container"] = "" \/ report.overlooked
         \/ RanOnce /\ RestedOnce
         \/ Published \cap (ResolvedPorts \ {Ctx["endpoint"]}) # {}
    /\ report.ok =>
         was.held \cap ResolvedPorts \subseteq
           IF RanOnce THEN {Ctx["endpoint"]} ELSE {}

\* The agent is scheduled; the docker CLI answers unless the daemon hangs,
\* the API client's limit ends its calls in any case.
Fairness == WF_vars(Return) /\ WF_vars(Probe) /\ WF_vars(DockerCall)

(***************************************************************************)
(* Every task ends, and the agent goes back to its polls and heartbeats,   *)
(* unless a docker command hangs: that has no limit.                       *)
(***************************************************************************)
TasksReturn ==
  pc # "idle" ~> (pc = "idle" \/ (hung /\ transport = "cli"))
=============================================================================
