-------------------------- MODULE NodeTasksProofs --------------------------
(***************************************************************************)
(* Theorems about what an agent reports of its node, for any tasks, ports, *)
(* files and number of changes.                                            *)
(***************************************************************************)
EXTENDS NodeTasks, TLAPS

\* The history has what the node is now.
PresentSeen ==
  /\ container \in was.containers
  /\ files \subseteq was.files
  /\ foreign \subseteq was.ever
  /\ was.held \subseteq foreign

\* The types of task that come by a place.
PlaceOK ==
  /\ pc = "dial" => task.type \in {"readiness", "port"}
  /\ pc = "health" => task.type = "readiness"
  /\ pc = "model_path" => task.type \in {"path", "precheck"}
  /\ pc \in Stages \ {"model_path", "bundle"} => task.type = "precheck"
  /\ pc = "bundle" => task.type \in {"snapshot", "precheck"}
  /\ pc \in {"start", "stop"} => task.type = pc
  /\ pc = "inspect" => task.type \in {"inspect", "start", "stop"}

\* A result on the way: only a precheck has a verdict before its end.
SumOf(r, type) ==
  /\ r.gating <=> r.reasons # {}
  /\ IF type = "precheck"
     THEN r.overall \in Overall /\ (r.gating <=> r.overall = "failed")
     ELSE ~r.gating /\ r.overall = ""

SumOK == pc \notin {"idle", "done"} => SumOf(report, task.type)

\* As long as nothing blocks, the paths that were checked have existed.
PathsOK ==
  task.type = "precheck" /\ ~report.gating =>
    /\ pc \in Stages \ {"model_path"} => Ctx["model_path"] \in was.files
    /\ pc \in Stages \ {"model_path", "mounts"} => Ctx["rules"] \in was.files \cup {""}
    /\ pc \in Stages \ {"model_path", "mounts", "env", "script"} =>
         Ctx["script"] \in was.files \cup {""}

\* What the inspection of a precheck has found.
InspectedOK ==
  Ctx["container"] = "" \/ report.overlooked \/ report.sawRunning \/ RestedOnce

\* The two halves of PortVerdictHasCause.
ConflictHasCause ==
  "port_conflict" \in report.reasons =>
    \/ was.ever \cap ResolvedPorts # {}
    \/ Ctx["container"] = "" \/ report.overlooked
    \/ RanOnce /\ RestedOnce
    \/ Published \cap (ResolvedPorts \ {Ctx["endpoint"]}) # {}
HeldIsFound ==
  was.held \cap ResolvedPorts \subseteq IF RanOnce THEN {Ctx["endpoint"]} ELSE {}

PortsOK ==
  task.type = "precheck" =>
    /\ pc \in Stages /\ report.sawRunning => RanOnce
    /\ pc \in Stages \ {"bundle"} => "port_conflict" \notin report.reasons
    /\ pc \in {"endpoint", "ports"} => InspectedOK
    /\ pc = "bundle" => ConflictHasCause /\ (~report.gating => HeldIsFound)

\* The inductive invariant.
NInv ==
  /\ TypeOK
  /\ PresentSeen
  /\ PlaceOK /\ SumOK /\ PathsOK /\ PortsOK
  /\ VerdictIsSum /\ SuccessWasTrue /\ PortVerdictHasCause

-----------------------------------------------------------------------------
(* Lemmas about contexts and results.                                      *)

\* The names of fields the model looks up.
LEMMA Fields ==
  /\ {"model_path", "rules", "script", "container", "endpoint", "exposed",
      "model", "path", "instance", "scope"} \subseteq Texts
  /\ Texts \cap Flags = {}
BY DEF Texts, Flags

LEMMA ResolvedIsLayer ==
  ASSUME NEW p \in Payload
  PROVE  Resolved(p) \in Layer /\ Applied(p, Resolved(p)) \in Payload
<1>1. \A f \in Texts \cup Flags : Get(p, f) \in STRING
  BY DEF Payload, Layer, Get, First
<1>2. {"model_path", "path", "instance", "scope"} \subseteq Texts
  BY Fields
<1>3. Resolved(p) \in Layer
  <2> DEFINE path == First(Get(p, "model_path"), Get(p, "path"))
             scope == First(Get(p, "scope"),
                            IF Get(p, "instance") # "" THEN "runtime_instance" ELSE "legacy")
  <2>1. \A f \in {"model_path", "path", "instance", "scope"} : Get(p, f) \in STRING
    BY <1>1, <1>2
  <2>2. path \in STRING /\ scope \in STRING
    BY <2>1, LiteralsAreTexts DEF First
  <2> HIDE DEF path, scope
  <2>3. \A f \in Texts \cup Flags :
          (CASE f = "model_path" -> path
             [] f = "scope" -> scope
             [] OTHER -> Get(p, f)) \in STRING
    BY <1>1, <2>2
  <2>4. Resolved(p) = [f \in Texts \cup Flags |->
                         CASE f = "model_path" -> path
                           [] f = "scope" -> scope
                           [] OTHER -> Get(p, f)]
    BY DEF Resolved, path, scope
  <2>5. QED
    BY <2>3, <2>4 DEF Layer
<1>4. ASSUME NEW l \in Layer PROVE Overlay(l, Resolved(p)) \in Layer
  BY <1>3 DEF Overlay, Layer, First
<1>5. QED
  BY <1>3, <1>4 DEF Applied, Payload

LEMMA BlockedFacts ==
  ASSUME NEW r \in Results, NEW bad \in BOOLEAN, NEW code \in ReasonCodes
  PROVE  LET b == BlockedIf(r, bad, code) IN
         /\ b \in Results
         /\ b.gating = (r.gating \/ bad)
         /\ b.reasons = IF bad THEN r.reasons \cup {code} ELSE r.reasons
         /\ b.overall = IF bad THEN "failed" ELSE r.overall
         /\ b.sawRunning = r.sawRunning /\ b.overlooked = r.overlooked
BY DEF BlockedIf, Blocked, Results, Overall

LEMMA WarnedFacts ==
  ASSUME NEW r \in Results, NEW odd \in BOOLEAN
  PROVE  LET w == WarnedIf(r, odd) IN
         /\ w \in Results
         /\ w.gating = r.gating /\ w.reasons = r.reasons
         /\ w.overall = IF odd /\ r.overall = "ok" THEN "warning" ELSE r.overall
         /\ w.sawRunning = r.sawRunning /\ w.overlooked = r.overlooked
BY DEF WarnedIf, Warned, Results, Overall

\* A check or a warning keeps the sum of a precheck.
LEMMA BlockedSums ==
  ASSUME NEW r \in Results, NEW bad \in BOOLEAN, NEW code \in ReasonCodes,
         SumOf(r, "precheck")
  PROVE  SumOf(BlockedIf(r, bad, code), "precheck")
<1> DEFINE b == BlockedIf(r, bad, code)
<1>1. /\ b.gating = (r.gating \/ bad)
      /\ b.reasons = IF bad THEN r.reasons \cup {code} ELSE r.reasons
      /\ b.overall = IF bad THEN "failed" ELSE r.overall
  BY BlockedFacts
<1> HIDE DEF b
<1>2. SumOf(b, "precheck")
  BY <1>1 DEF SumOf, Overall
<1>3. QED
  BY <1>2 DEF b

LEMMA WarnedSums ==
  ASSUME NEW r \in Results, NEW odd \in BOOLEAN, SumOf(r, "precheck")
  PROVE  SumOf(WarnedIf(r, odd), "precheck")
BY WarnedFacts DEF SumOf, Overall

\* Both together, for a result that has a name.
LEMMA Blocks ==
  ASSUME NEW r \in Results, NEW bad \in BOOLEAN, NEW code \in ReasonCodes,
         SumOf(r, "precheck"), NEW b, b = BlockedIf(r, bad, code)
  PROVE  /\ b \in Results /\ SumOf(b, "precheck")
         /\ ~b.gating => ~r.gating /\ ~bad
         /\ b.reasons \subseteq r.reasons \cup {code}
         /\ b.sawRunning = r.sawRunning /\ b.overlooked = r.overlooked
<1>1. SumOf(b, "precheck")
  BY BlockedSums
<1>2. QED
  BY <1>1 DEF BlockedIf, Blocked, Results, Overall

-----------------------------------------------------------------------------
(* Lemmas about steps.                                                     *)

\* The history only grows.
Grows ==
  /\ was.containers \subseteq was'.containers
  /\ was.files \subseteq was'.files
  /\ was.ever \subseteq was'.ever
  /\ was'.held \subseteq was.held

\* What a change of the node, or a call of docker, leaves behind.
LEMMA SeenFacts ==
  ASSUME NInv, NEW c \in Containers, NEW ff \in SUBSET Files, NEW ps \in SUBSET Ports,
         container' = c, files' = ff, foreign' = ps, was' = Seen(was, c, ff, ps)
  PROVE  /\ PresentSeen' /\ Grows
         /\ container' \in Containers /\ foreign' \subseteq Ports /\ files' \subseteq Files
         /\ was' \in [containers : SUBSET Containers, files : SUBSET Files,
                      ever : SUBSET Ports, held : SUBSET Ports]
<1>1. was \in [containers : SUBSET Containers, files : SUBSET Files,
               ever : SUBSET Ports, held : SUBSET Ports]
  BY DEF NInv, TypeOK
<1>2. QED
  BY <1>1 DEF NInv, PresentSeen, Seen, Grows

\* A moment in which a container was up, or was not, is not forgotten.
LEMMA MomentsStay ==
  ASSUME Grows
  PROVE  (RanOnce => RanOnce') /\ (RestedOnce => RestedOnce')
BY DEF Grows, RanOnce, RestedOnce

\* A step of others leaves what is said of the task true.
LEMMA OthersKeep ==
  ASSUME NInv, TypeOK', PresentSeen', Grows, UNCHANGED <<pc, task, report>>
  PROVE  NInv'
<1>1. PlaceOK' /\ SumOK' /\ VerdictIsSum'
  BY DEF NInv, PlaceOK, SumOK, VerdictIsSum
<1>2. PathsOK'
  BY DEF NInv, PathsOK, Ctx, Grows
<1>3. /\ ConflictHasCause => ConflictHasCause'
      /\ HeldIsFound => HeldIsFound'
      /\ InspectedOK => InspectedOK'
  BY MomentsStay DEF ConflictHasCause, HeldIsFound, InspectedOK, ResolvedPorts, Ctx, Grows
<1>4. PortsOK'
  BY <1>3, MomentsStay DEF NInv, PortsOK
<1>5. PortVerdictHasCause'
  BY <1>3 DEF NInv, PortVerdictHasCause, ConflictHasCause, HeldIsFound
<1>6. SuccessWasTrue'
  <2>1. was.containers # {"absent"} => was'.containers # {"absent"}
    BY DEF NInv, PresentSeen, Grows
  <2>2. QED
    BY <2>1, MomentsStay DEF NInv, SuccessWasTrue, PathsOf, Ctx, Grows
<1>7. QED
  BY <1>1, <1>2, <1>4, <1>5, <1>6 DEF NInv

\* A precheck goes on to its next stage.
LEMMA GoesOn ==
  ASSUME TypeOK', PresentSeen', NEW next \in Stages \ {"model_path"}, NEW r \in Results,
         Continue(next, r), task'.type = "precheck", SumOf(r, "precheck"),
         PathsOK', PortsOK'
  PROVE  NInv'
<1>1. pc' \in Stages \ {"model_path"} /\ pc' \notin {"idle", "done", "dial", "health",
        "start", "stop", "inspect"}
  BY DEF Continue, Stages
<1>2. PlaceOK' /\ SumOK'
  BY <1>1 DEF PlaceOK, SumOK, Continue
<1>3. VerdictIsSum' /\ SuccessWasTrue' /\ PortVerdictHasCause'
  BY <1>1 DEF VerdictIsSum, SuccessWasTrue, PortVerdictHasCause
<1>4. QED
  BY <1>2, <1>3 DEF NInv

\* A task ends; what it claims is left to show.
LEMMA Ends ==
  ASSUME TypeOK', PresentSeen', NEW ok \in BOOLEAN, NEW r \in Results,
         Done(ok, r), SumOf(r, task'.type),
         IF task'.type = "precheck" THEN ok = ~r.gating ELSE TRUE,
         SuccessWasTrue', PortVerdictHasCause'
  PROVE  NInv'
<1>1. /\ pc' = "done" /\ report'.ok = ok /\ report'.gating = r.gating
      /\ report'.reasons = r.reasons /\ report'.overall = Envelope(ok, r.overall)
  BY DEF Done, Results
<1>2. PlaceOK' /\ SumOK' /\ PathsOK' /\ PortsOK'
  BY <1>1 DEF PlaceOK, SumOK, PathsOK, PortsOK, Stages
<1>3. VerdictIsSum'
  BY <1>1 DEF VerdictIsSum, SumOf, Envelope, Overall
<1>4. QED
  BY <1>2, <1>3 DEF NInv

\* What is known of a task on its way.
LEMMA OnTheWay ==
  ASSUME NInv, pc \notin {"idle", "done"}
  PROVE  /\ report \in Results /\ SumOf(report, task.type)
         /\ task \in [type : Types, context : Layer]
         /\ PlaceOK /\ PresentSeen /\ PathsOK /\ PortsOK
BY DEF NInv, TypeOK, SumOK

\* A failure claims nothing.
LEMMA Fails ==
  ASSUME TypeOK', PresentSeen', NEW r \in Results, Fail(r), SumOf(r, task'.type),
         task'.type # "precheck"
  PROVE  NInv'
<1>1. report'.ok = FALSE
  BY DEF Fail, Done, Results
<1>2. SuccessWasTrue' /\ PortVerdictHasCause'
  BY <1>1 DEF SuccessWasTrue, PortVerdictHasCause
<1>3. QED
  BY <1>2, Ends DEF Fail

\* What a result keeps of its type.
LEMMA DoneIsResult ==
  ASSUME NEW ok \in BOOLEAN, NEW r \in Results, Done(ok, r)
  PROVE  report' \in Results /\ pc' \in Places
BY DEF Done, Results, Envelope, Overall, Places

\* A probe of the agent leaves the node and its history alone.
LEMMA ProbeKeeps ==
  ASSUME NInv, UNCHANGED <<transport, node, hung, changes, was>>,
         task' \in [type : Types, context : Layer], report' \in Results, pc' \in Places
  PROVE  TypeOK' /\ PresentSeen'
BY DEF NInv, TypeOK, PresentSeen, node

-----------------------------------------------------------------------------
(* Every step keeps the invariant: how a task begins and ends.             *)

LEMMA NoReportIsResult == NoReport \in Results
BY DEF NoReport, Results, Unsaid, Overall

LEMMA NoTaskIsTask == NoTask \in [type : Types, context : Layer]
BY LiteralsAreTexts DEF NoTask, Blank, Layer, Types

LEMMA NowIsHistory ==
  ASSUME TypeOK
  PROVE  Now \in [containers : SUBSET Containers, files : SUBSET Files,
                  ever : SUBSET Ports, held : SUBSET Ports]
BY DEF TypeOK, Now

LEMMA InitOK == Init => NInv
<1> SUFFICES ASSUME Init PROVE NInv
  OBVIOUS
<1>0. files \in SUBSET Files
  BY DEF Init
<1>1. /\ foreign = {} /\ hung \in BOOLEAN /\ pc = "idle"
      /\ report = NoReport /\ was = Now
  BY DEF Init
<1>2. container \in Containers /\ changes \in 0..MaxChanges
  BY BoundIsNatural DEF Init, Containers
<1>3. transport \in {"cli", "api"}
  BY TransportsAreKnown DEF Init
<1>4. TypeOK
  BY <1>0, <1>1, <1>2, <1>3, NoReportIsResult, NoTaskIsTask DEF Init, TypeOK, Now, Places
<1>5. PresentSeen
  BY <1>1 DEF PresentSeen, Now
<1>6. /\ PlaceOK /\ SumOK /\ PathsOK /\ PortsOK
      /\ VerdictIsSum /\ SuccessWasTrue /\ PortVerdictHasCause
  BY <1>1 DEF PlaceOK, SumOK, PathsOK, PortsOK, VerdictIsSum, SuccessWasTrue,
              PortVerdictHasCause, Stages
<1>7. QED
  BY <1>4, <1>5, <1>6 DEF NInv

\* The context a task is executed with is made of texts.
LEMMA AcceptedIsTask ==
  ASSUME NEW w \in Works, Accept(w)
  PROVE  task' \in [type : Types, context : Layer] /\ task'.type = w.type
<1> DEFINE own == Resolved(Applied(w.payload, Resolved(w.payload)))
<1>1. own \in Layer
  BY WorksAreTasks, ResolvedIsLayer
<1>2. PICK port \in (IF w.type = "readiness" THEN Endpoints(own) ELSE {own["endpoint"]}) :
        task' = [type |-> w.type, context |-> [own EXCEPT !["endpoint"] = port]]
  BY DEF Accept
<1>3. port \in STRING
  <2>1. own["endpoint"] \in STRING
    BY <1>1, Fields DEF Layer
  <2>2. ModelPort \in STRING
    BY PortsAreKnown
  <2> HIDE DEF own
  <2>3. QED
    BY <1>2, <2>1, <2>2 DEF Endpoints
<1> HIDE DEF own
<1>4. [own EXCEPT !["endpoint"] = port] \in Layer
  BY <1>1, <1>3 DEF Layer
<1>5. w.type \in Types
  BY WorksAreTasks
<1>6. QED
  BY <1>2, <1>4, <1>5

LEMMA AcceptKeeps ==
  ASSUME NInv, NEW w \in Works, Accept(w)
  PROVE  NInv'
<1>1. /\ task' \in [type : Types, context : Layer] /\ task'.type = w.type
      /\ w.type \in Types
  BY AcceptedIsTask, WorksAreTasks
<1>2. was' = Now /\ UNCHANGED <<transport, node, hung, changes>>
  BY DEF Accept
<1> DEFINE first == [NoReport EXCEPT !.overall =
                       IF w.type = "precheck" THEN "ok" ELSE ""]
<1>3. ASSUME report' \in Results, pc' \in Places PROVE TypeOK' /\ PresentSeen'
  <2>1. was' \in [containers : SUBSET Containers, files : SUBSET Files,
                  ever : SUBSET Ports, held : SUBSET Ports]
    BY <1>2, NowIsHistory DEF NInv
  <2>2. PresentSeen'
    BY <1>2 DEF PresentSeen, Now, node
  <2>3. QED
    BY <1>1, <1>2, <1>3, <2>1, <2>2 DEF NInv, TypeOK, node
<1>4. ASSUME Fail(NoReport) PROVE NInv'
  <2>1. /\ pc' = "done" /\ report' \in Results /\ report'.ok = FALSE
        /\ report'.gating = FALSE /\ report'.reasons = {} /\ report'.overall = "failed"
    BY <1>4 DEF Fail, Done, NoReport, Unsaid, Results, Envelope, Overall
  <2>2. PlaceOK' /\ SumOK' /\ PathsOK' /\ PortsOK'
    BY <2>1 DEF PlaceOK, SumOK, PathsOK, PortsOK, Stages
  <2>3. VerdictIsSum' /\ SuccessWasTrue' /\ PortVerdictHasCause'
    BY <2>1 DEF VerdictIsSum, SuccessWasTrue, PortVerdictHasCause
  <2>4. QED
    BY <1>3, <2>1, <2>2, <2>3 DEF NInv, Places
<1>5. ASSUME Continue(FirstStep(w.type), first) PROVE NInv'
  <2>1. first \in Results /\ first.gating = FALSE /\ first.reasons = {}
        /\ first.overall = (IF w.type = "precheck" THEN "ok" ELSE "")
        /\ first.sawRunning = FALSE
    BY DEF NoReport, Unsaid, Results, Overall
  <2>2. report' = first /\ pc' = FirstStep(w.type)
    BY <1>5 DEF Continue
  <2> HIDE DEF first
  <2>3. /\ pc' \in {"dial", "model_path", "bundle", "inspect", "start", "stop"}
        /\ PlaceOK'
    BY <1>1, <2>2 DEF FirstStep, Types, PlaceOK, Stages
  <2>4. SumOK'
    BY <1>1, <2>1, <2>2 DEF SumOK, SumOf, Overall
  <2>5. task'.type = "precheck" => pc' = "model_path"
    BY <1>1, <2>2 DEF FirstStep
  <2>6. PathsOK'
    BY <2>5 DEF PathsOK
  <2>7. PortsOK'
    BY <2>1, <2>2, <2>5 DEF PortsOK
  <2>8. VerdictIsSum' /\ SuccessWasTrue' /\ PortVerdictHasCause'
    BY <2>3 DEF VerdictIsSum, SuccessWasTrue, PortVerdictHasCause
  <2>9. QED
    BY <1>3, <2>1, <2>2, <2>3, <2>4, <2>6, <2>7, <2>8 DEF NInv, Places, Stages
<1>6. QED
  BY <1>4, <1>5 DEF Accept

LEMMA ReturnKeeps ==
  ASSUME NInv, Return
  PROVE  NInv'
<1>1. pc' = "idle" /\ report' = NoReport /\ task' = NoTask /\ was' = Now
      /\ UNCHANGED <<transport, node, hung, changes>>
  BY DEF Return
<1>2. TypeOK' /\ PresentSeen'
  <2>1. was' \in [containers : SUBSET Containers, files : SUBSET Files,
                  ever : SUBSET Ports, held : SUBSET Ports]
    BY <1>1, NowIsHistory DEF NInv
  <2>2. QED
    BY <1>1, <2>1, NoReportIsResult, NoTaskIsTask
    DEF NInv, TypeOK, PresentSeen, Now, node, Places
<1>3. /\ PlaceOK' /\ SumOK' /\ PathsOK' /\ PortsOK'
      /\ VerdictIsSum' /\ SuccessWasTrue' /\ PortVerdictHasCause'
  BY <1>1 DEF PlaceOK, SumOK, PathsOK, PortsOK, VerdictIsSum, SuccessWasTrue,
              PortVerdictHasCause, Stages
<1>4. QED
  BY <1>2, <1>3 DEF NInv

-----------------------------------------------------------------------------
(* Every step keeps the invariant: the probes that need no docker.         *)

\* A task that is no precheck goes on.
LEMMA StepsOn ==
  ASSUME TypeOK', PresentSeen', NEW next \in Places \ {"idle", "done"}, NEW r \in Results,
         Continue(next, r), SumOf(r, task'.type), task'.type # "precheck", PlaceOK'
  PROVE  NInv'
<1>1. pc' = next /\ report' = r /\ pc' \notin {"idle", "done"}
  BY DEF Continue
<1>2. SumOK' /\ PathsOK' /\ PortsOK'
  BY <1>1 DEF SumOK, PathsOK, PortsOK
<1>3. VerdictIsSum' /\ SuccessWasTrue' /\ PortVerdictHasCause'
  BY <1>1 DEF VerdictIsSum, SuccessWasTrue, PortVerdictHasCause
<1>4. QED
  BY <1>2, <1>3 DEF NInv

\* A port in use was held by another process or by the container.
LEMMA UsedWasSeen ==
  ASSUME PresentSeen, NEW p, PortInUse(p)
  PROVE  p \in was.ever \/ (p \in Published /\ RanOnce)
BY DEF PresentSeen, PortInUse, RanOnce

LEMMA EndpointPortKeeps ==
  ASSUME NInv, CheckEndpointPort
  PROVE  NInv'
<1>1. pc = "dial" /\ UNCHANGED <<transport, node, hung, changes, task, was>>
  BY DEF CheckEndpointPort, AtStage
<1>2. /\ report \in Results /\ SumOf(report, task.type) /\ PresentSeen
      /\ task' \in [type : Types, context : Layer]
      /\ task'.type = task.type /\ task.type \in {"readiness", "port"}
  BY <1>1, OnTheWay DEF PlaceOK
<1>3. ASSUME Done(TRUE, report), task.type = "port",
             PortInUse(Ctx["endpoint"])
      PROVE  NInv'
  <2>1. TypeOK' /\ PresentSeen'
    BY <1>1, <1>2, <1>3, ProbeKeeps, DoneIsResult
  <2>2. SuccessWasTrue'
    BY <1>1, <1>2, <1>3, UsedWasSeen DEF SuccessWasTrue, RanOnce, Ctx
  <2>3. PortVerdictHasCause'
    BY <1>1, <1>3 DEF PortVerdictHasCause
  <2>4. QED
    BY <1>1, <1>2, <1>3, <2>1, <2>2, <2>3, Ends
<1>4. ASSUME Continue("health", report), task.type # "port" PROVE NInv'
  <2>1. pc' = "health" /\ report' = report
    BY <1>4 DEF Continue
  <2>2. TypeOK' /\ PresentSeen'
    BY <1>1, <1>2, <2>1, ProbeKeeps DEF Places
  <2>3. PlaceOK'
    BY <1>2, <1>4, <2>1 DEF PlaceOK, Stages
  <2>4. QED
    BY <1>2, <1>4, <2>2, <2>3, StepsOn DEF Places
<1>5. ASSUME Fail(report) PROVE NInv'
  <2>1. TypeOK' /\ PresentSeen'
    BY <1>1, <1>2, <1>5, ProbeKeeps, DoneIsResult DEF Fail
  <2>2. QED
    BY <1>1, <1>2, <1>5, <2>1, Fails
<1>6. QED
  BY <1>3, <1>4, <1>5 DEF CheckEndpointPort

LEMMA HealthKeeps ==
  ASSUME NInv, CheckHealth
  PROVE  NInv'
<1>1. pc = "health" /\ UNCHANGED <<transport, node, hung, changes, task, was>>
  BY DEF CheckHealth, AtStage
<1>2. /\ report \in Results /\ SumOf(report, task.type) /\ PresentSeen
      /\ task' \in [type : Types, context : Layer]
      /\ task'.type = task.type /\ task.type = "readiness"
  BY <1>1, OnTheWay DEF PlaceOK
<1>3. ASSUME Done(TRUE, report),
             \/ container = "ready" /\ Ctx["endpoint"] \in Published
             \/ Ctx["endpoint"] \in foreign
      PROVE  NInv'
  <2>1. TypeOK' /\ PresentSeen'
    BY <1>1, <1>2, <1>3, ProbeKeeps, DoneIsResult
  <2>2. \/ Ctx["endpoint"] \in was.ever
        \/ Ctx["endpoint"] \in Published /\ RanOnce /\ "ready" \in was.containers
    BY <1>2, <1>3 DEF PresentSeen, RanOnce, Up
  <2>3. SuccessWasTrue'
    BY <1>1, <1>2, <2>2 DEF SuccessWasTrue, RanOnce, Ctx
  <2>4. PortVerdictHasCause'
    BY <1>1, <1>2 DEF PortVerdictHasCause
  <2>5. QED
    BY <1>1, <1>2, <1>3, <2>1, <2>3, <2>4, Ends
<1>4. ASSUME Fail(report) PROVE NInv'
  <2>1. TypeOK' /\ PresentSeen'
    BY <1>1, <1>2, <1>4, ProbeKeeps, DoneIsResult DEF Fail
  <2>2. QED
    BY <1>1, <1>2, <1>4, <2>1, Fails
<1>5. QED
  BY <1>3, <1>4 DEF CheckHealth

\* What every check of a precheck begins with.
LEMMA CheckBegins ==
  ASSUME NInv, NEW stage \in Stages \ {"model_path", "bundle"}, AtStage(stage)
  PROVE  /\ UNCHANGED <<transport, node, hung, changes, task, was>>
         /\ pc = stage /\ task.type = "precheck" /\ task'.type = "precheck"
         /\ task' \in [type : Types, context : Layer]
         /\ report \in Results /\ SumOf(report, "precheck") /\ report.gating \in BOOLEAN
         /\ PresentSeen /\ PathsOK /\ PortsOK
         /\ "port_conflict" \notin report.reasons /\ (report.sawRunning => RanOnce)
<1>1. pc = stage /\ UNCHANGED <<transport, node, hung, changes, task, was>>
  BY DEF AtStage
<1>2. pc \notin {"idle", "done"}
  BY <1>1 DEF Stages
<1>3. task.type = "precheck"
  BY <1>1, <1>2, OnTheWay DEF PlaceOK
<1>4. QED
  BY <1>1, <1>2, <1>3, OnTheWay DEF PortsOK, Results

\* A check of a precheck that has nothing to do with ports: a path that it
\* has not found blocks.
LEMMA CheckGoesOn ==
  ASSUME NInv, NEW next \in Stages \ {"model_path", "endpoint", "ports", "bundle"},
         NEW r \in Results, Continue(next, r),
         UNCHANGED <<transport, node, hung, changes, task, was>>,
         task.type = "precheck", SumOf(r, "precheck"),
         "port_conflict" \notin r.reasons, r.sawRunning => RanOnce, PathsOK'
  PROVE  NInv'
<1>1. pc' = next /\ report' = r
  BY DEF Continue
<1>2. PortsOK'
  BY <1>1 DEF PortsOK, RanOnce
<1>3. task \in [type : Types, context : Layer]
  BY DEF NInv, TypeOK
<1>4. TypeOK' /\ PresentSeen'
  BY <1>1, <1>3, ProbeKeeps DEF Places
<1>5. QED
  BY <1>2, <1>4, GoesOn

LEMMA ModelPathKeeps ==
  ASSUME NInv, CheckModelPath
  PROVE  NInv'
<1> DEFINE found == Ctx["model_path"] \in files
           r == BlockedIf(report, ~found, "model_path_missing")
<1>1. pc = "model_path" /\ UNCHANGED <<transport, node, hung, changes, task, was>>
  BY DEF CheckModelPath, AtStage
<1>2. /\ report \in Results /\ SumOf(report, task.type) /\ PresentSeen /\ PortsOK
      /\ task' \in [type : Types, context : Layer]
      /\ task'.type = task.type /\ task.type \in {"path", "precheck"}
  BY <1>1, OnTheWay DEF PlaceOK
<1>3. found \in BOOLEAN /\ (found => Ctx["model_path"] \in was'.files)
  BY <1>1, <1>2 DEF PresentSeen
<1>4. \/ task.type = "path" /\ Done(found, report)
      \/ task.type # "path" /\ Continue("mounts", r)
  BY DEF CheckModelPath
<1> HIDE DEF found
<1>5. ASSUME task.type = "path", Done(found, report) PROVE NInv'
  <2>1. TypeOK' /\ PresentSeen'
    BY <1>1, <1>2, <1>3, <1>5, ProbeKeeps, DoneIsResult
  <2>2. report'.ok = found
    BY <1>2, <1>5 DEF Done, Results
  <2>3. SuccessWasTrue' /\ PortVerdictHasCause'
    BY <1>1, <1>3, <1>5, <2>2 DEF SuccessWasTrue, PortVerdictHasCause, Ctx
  <2>4. QED
    BY <1>1, <1>2, <1>3, <1>5, <2>1, <2>3, Ends
<1>6. ASSUME task.type # "path", Continue("mounts", r) PROVE NInv'
  <2>1. task.type = "precheck"
    BY <1>2, <1>6
  <2>2. /\ r \in Results /\ SumOf(r, "precheck")
        /\ ~r.gating => ~report.gating /\ found
        /\ r.reasons \subseteq report.reasons \cup {"model_path_missing"}
        /\ r.sawRunning = report.sawRunning
    <3> DEFINE missing == ~found
    <3>1. missing \in BOOLEAN /\ "model_path_missing" \in ReasonCodes
      BY <1>3 DEF ReasonCodes
    <3>2. r = BlockedIf(report, missing, "model_path_missing")
      OBVIOUS
    <3>3. ~missing => found
      OBVIOUS
    <3> HIDE DEF r, missing
    <3>4. QED
      BY <1>2, <2>1, <3>1, <3>2, <3>3, Blocks
  <2>3. "port_conflict" \notin r.reasons /\ (r.sawRunning => RanOnce)
    BY <1>1, <1>2, <2>1, <2>2 DEF PortsOK, Stages
  <2> HIDE DEF r
  <2>4. PathsOK'
    BY <1>1, <1>3, <1>6, <2>2 DEF PathsOK, Continue, Ctx, Stages
  <2>5. QED
    BY <1>1, <1>6, <2>1, <2>2, <2>3, <2>4, CheckGoesOn DEF Stages
<1>7. QED
  BY <1>4, <1>5, <1>6

LEMMA MountsKeep ==
  ASSUME NInv, CheckMounts
  PROVE  NInv'
<1> DEFINE rule == Ctx["rules"]
           bad == rule \notin files \/ (Ctx["mounts"] # "" /\ rule \notin MountPoints)
           r == IF rule = "" THEN WarnedIf(report, Ctx["mounts"] # "")
                             ELSE BlockedIf(report, bad, "binding_invalid")
<1>1. /\ UNCHANGED <<transport, node, hung, changes, task, was>>
      /\ pc = "mounts" /\ task.type = "precheck"
      /\ report \in Results /\ SumOf(report, "precheck") /\ report.gating \in BOOLEAN
      /\ PresentSeen /\ PathsOK /\ "port_conflict" \notin report.reasons
      /\ report.sawRunning => RanOnce
  BY CheckBegins DEF CheckMounts, Stages
<1>2. Continue("env", r) /\ bad \in BOOLEAN
  BY DEF CheckMounts
<1>3. /\ r \in Results /\ SumOf(r, "precheck")
      /\ r.reasons \subseteq report.reasons \cup {"binding_invalid"}
      /\ r.sawRunning = report.sawRunning
      /\ ~r.gating => ~report.gating /\ (rule # "" => ~bad)
  <2> HIDE DEF bad
  <2>1. CASE rule = ""
    BY <1>1, <2>1, WarnedFacts, WarnedSums
  <2>2. CASE rule # ""
    <3>1. "binding_invalid" \in ReasonCodes
      BY DEF ReasonCodes
    <3>2. r = BlockedIf(report, bad, "binding_invalid")
      BY <2>2
    <3> HIDE DEF r
    <3>3. report \in Results /\ SumOf(report, "precheck") /\ bad \in BOOLEAN
      BY <1>1, <1>2
    <3>4. /\ r \in Results /\ SumOf(r, "precheck") /\ (~r.gating => ~report.gating /\ ~bad)
          /\ r.reasons \subseteq report.reasons \cup {"binding_invalid"}
          /\ r.sawRunning = report.sawRunning
      BY <3>1, <3>2, <3>3, Blocks
    <3>5. QED
      BY <3>4
  <2>3. QED
    BY <2>1, <2>2
<1> HIDE DEF r
<1>4. PathsOK'
  BY <1>1, <1>2, <1>3 DEF PathsOK, PresentSeen, Continue, Ctx, Stages
<1>5. QED
  BY <1>1, <1>2, <1>3, <1>4, CheckGoesOn DEF Stages

LEMMA EnvKeeps ==
  ASSUME NInv, CheckEnv
  PROVE  NInv'
<1> DEFINE missing == /\ Ctx["env"] # ""
                      /\ Ctx["env_override"] # Ctx["env"]
                      /\ Ctx["env"] \notin AgentEnv
           r == BlockedIf(report, missing, "required_env_missing")
<1>1. /\ UNCHANGED <<transport, node, hung, changes, task, was>>
      /\ pc = "env" /\ task.type = "precheck"
      /\ report \in Results /\ SumOf(report, "precheck")
      /\ PresentSeen /\ PathsOK /\ "port_conflict" \notin report.reasons
      /\ report.sawRunning => RanOnce
  BY CheckBegins DEF CheckEnv, Stages
<1>2. Continue("script", r)
  BY DEF CheckEnv
<1>3. missing \in BOOLEAN /\ "required_env_missing" \in ReasonCodes
  BY DEF ReasonCodes
<1>4. r = BlockedIf(report, missing, "required_env_missing")
  OBVIOUS
<1> HIDE DEF missing, r
<1>5. /\ r \in Results /\ SumOf(r, "precheck") /\ (~r.gating => ~report.gating)
      /\ "port_conflict" \notin r.reasons /\ r.sawRunning = report.sawRunning
  BY <1>1, <1>3, <1>4, Blocks
<1>6. PathsOK'
  BY <1>1, <1>2, <1>5 DEF PathsOK, Continue, Ctx, Stages
<1>7. QED
  BY <1>1, <1>2, <1>5, <1>6, CheckGoesOn DEF Stages

LEMMA ScriptKeeps ==
  ASSUME NInv, CheckScript
  PROVE  NInv'
<1> DEFINE bad == ScriptRequired(Ctx) /\ Ctx["script"] \notin files
           r == BlockedIf(report, bad, "script_missing")
<1>1. /\ UNCHANGED <<transport, node, hung, changes, task, was>>
      /\ pc = "script" /\ task.type = "precheck"
      /\ report \in Results /\ SumOf(report, "precheck")
      /\ PresentSeen /\ PathsOK /\ "port_conflict" \notin report.reasons
      /\ report.sawRunning => RanOnce
  BY CheckBegins DEF CheckScript, Stages
<1>2. Continue("policies", r)
  BY DEF CheckScript
<1>3. /\ bad \in BOOLEAN /\ "script_missing" \in ReasonCodes
      /\ ~bad => Ctx["script"] \in was.files \cup {""}
  BY <1>1 DEF ReasonCodes, ScriptRequired, PresentSeen
<1>4. r = BlockedIf(report, bad, "script_missing")
  OBVIOUS
<1> HIDE DEF bad, r
<1>5. /\ r \in Results /\ SumOf(r, "precheck") /\ (~r.gating => ~report.gating /\ ~bad)
      /\ "port_conflict" \notin r.reasons /\ r.sawRunning = report.sawRunning
  <2>1. /\ report \in Results /\ SumOf(report, "precheck")
        /\ bad \in BOOLEAN /\ "script_missing" \in ReasonCodes
    BY <1>1, <1>3
  <2>2. /\ r \in Results /\ SumOf(r, "precheck") /\ (~r.gating => ~report.gating /\ ~bad)
        /\ r.reasons \subseteq report.reasons \cup {"script_missing"}
        /\ r.sawRunning = report.sawRunning
    BY <2>1, <1>4, Blocks
  <2>3. QED
    BY <1>1, <2>2
<1>6. PathsOK'
  BY <1>1, <1>2, <1>3, <1>5 DEF PathsOK, Continue, Ctx, Stages
<1>7. QED
  BY <1>1, <1>2, <1>5, <1>6, CheckGoesOn DEF Stages

\* Two checks in one stage.
LEMMA BlocksTwice ==
  ASSUME NEW r \in Results, NEW bad1 \in BOOLEAN, NEW code1 \in ReasonCodes,
         NEW bad2 \in BOOLEAN, NEW code2 \in ReasonCodes, SumOf(r, "precheck"),
         "port_conflict" \notin r.reasons \cup {code1, code2},
         NEW b, b = BlockedIf(BlockedIf(r, bad1, code1), bad2, code2)
  PROVE  /\ b \in Results /\ SumOf(b, "precheck") /\ (~b.gating => ~r.gating)
         /\ "port_conflict" \notin b.reasons
         /\ b.sawRunning = r.sawRunning
<1> DEFINE c == BlockedIf(r, bad1, code1)
<1>1. c = BlockedIf(r, bad1, code1) /\ b = BlockedIf(c, bad2, code2)
  OBVIOUS
<1> HIDE DEF c
<1>2. /\ c \in Results /\ SumOf(c, "precheck") /\ (~c.gating => ~r.gating)
      /\ c.reasons \subseteq r.reasons \cup {code1} /\ c.sawRunning = r.sawRunning
  BY <1>1, Blocks
<1>3. /\ b \in Results /\ SumOf(b, "precheck") /\ (~b.gating => ~c.gating)
      /\ b.reasons \subseteq c.reasons \cup {code2} /\ b.sawRunning = c.sawRunning
  BY <1>1, <1>2, Blocks
<1>4. QED
  BY <1>2, <1>3

LEMMA PoliciesKeep ==
  ASSUME NInv, CheckPolicies
  PROVE  NInv'
<1> DEFINE bad1 == Ctx["override_ok"] = "no" /\ Ctx["command"] # ""
           bad2 == Ctx["script_ok"] = "no" /\ ScriptRequired(Ctx)
           r == BlockedIf(BlockedIf(report, bad1, "command_override_not_allowed"),
                          bad2, "script_mount_not_allowed")
<1>1. /\ UNCHANGED <<transport, node, hung, changes, task, was>>
      /\ pc = "policies" /\ task.type = "precheck"
      /\ report \in Results /\ SumOf(report, "precheck")
      /\ PresentSeen /\ PathsOK /\ "port_conflict" \notin report.reasons
      /\ report.sawRunning => RanOnce
  BY CheckBegins DEF CheckPolicies, Stages
<1>2. Continue("compatibility", r)
  BY DEF CheckPolicies
<1>3. /\ bad1 \in BOOLEAN /\ bad2 \in BOOLEAN
      /\ {"command_override_not_allowed", "script_mount_not_allowed"} \subseteq ReasonCodes
  BY DEF ReasonCodes, ScriptRequired
<1>4. r = BlockedIf(BlockedIf(report, bad1, "command_override_not_allowed"),
                    bad2, "script_mount_not_allowed")
  OBVIOUS
<1> HIDE DEF bad1, bad2, r
<1>5. /\ r \in Results /\ SumOf(r, "precheck") /\ (~r.gating => ~report.gating)
      /\ "port_conflict" \notin r.reasons /\ r.sawRunning = report.sawRunning
  BY <1>1, <1>3, <1>4, BlocksTwice
<1>6. PathsOK'
  BY <1>1, <1>2, <1>5 DEF PathsOK, Continue, Ctx, Stages
<1>7. QED
  BY <1>1, <1>2, <1>5, <1>6, CheckGoesOn DEF Stages

LEMMA CompatibilityKeeps ==
  ASSUME NInv, CheckCompatibility
  PROVE  NInv'
<1> DEFINE bad1 == ~Compatible(Ctx["types"], Ctx["model_type"])
           bad2 == ~Compatible(Ctx["formats"], Ctx["model_format"])
           r == BlockedIf(BlockedIf(report, bad1, "model_type_mismatch"),
                          bad2, "model_format_mismatch")
           next == IF Ctx["container"] # "" THEN "container" ELSE "endpoint"
<1>1. /\ UNCHANGED <<transport, node, hung, changes, task, was>>
      /\ pc = "compatibility" /\ task.type = "precheck"
      /\ report \in Results /\ SumOf(report, "precheck")
      /\ PresentSeen /\ PathsOK /\ "port_conflict" \notin report.reasons
      /\ report.sawRunning => RanOnce
  BY CheckBegins DEF CheckCompatibility, Stages
<1>2. Continue(next, r)
  BY DEF CheckCompatibility
<1>3. /\ bad1 \in BOOLEAN /\ bad2 \in BOOLEAN
      /\ {"model_type_mismatch", "model_format_mismatch"} \subseteq ReasonCodes
  BY DEF ReasonCodes, Compatible
<1>4. r = BlockedIf(BlockedIf(report, bad1, "model_type_mismatch"),
                    bad2, "model_format_mismatch")
  OBVIOUS
<1> HIDE DEF bad1, bad2, r
<1>5. /\ r \in Results /\ SumOf(r, "precheck") /\ (~r.gating => ~report.gating)
      /\ "port_conflict" \notin r.reasons /\ r.sawRunning = report.sawRunning
  BY <1>1, <1>3, <1>4, BlocksTwice
<1>6. PathsOK'
  BY <1>1, <1>2, <1>5 DEF PathsOK, Continue, Ctx, Stages
<1>7. CASE Ctx["container"] # ""
  BY <1>1, <1>2, <1>5, <1>6, <1>7, CheckGoesOn DEF Stages
<1>8. CASE Ctx["container"] = ""
  <2>1. Continue("endpoint", r)
    BY <1>2, <1>8
  <2>2. InspectedOK'
    BY <1>1, <1>8 DEF InspectedOK, Ctx
  <2>3. PortsOK'
    BY <1>1, <1>5, <2>1, <2>2 DEF PortsOK, Continue, RanOnce
  <2>4. TypeOK' /\ PresentSeen'
    BY <1>1, <1>5, <2>1, ProbeKeeps DEF NInv, TypeOK, Continue, Places, Stages
  <2>5. QED
    BY <1>1, <1>5, <1>6, <2>1, <2>3, <2>4, GoesOn DEF Stages
<1>9. QED
  BY <1>7, <1>8

LEMMA EndpointKeeps ==
  ASSUME NInv, CheckEndpoint
  PROVE  NInv'
<1>1. pc = "endpoint" /\ UNCHANGED <<transport, node, hung, changes, was>>
  BY DEF CheckEndpoint
<1>2. /\ task \in [type : Types, context : Layer] /\ task.type = "precheck"
      /\ report \in Results /\ SumOf(report, "precheck")
      /\ PresentSeen /\ PathsOK /\ PortsOK
  BY <1>1, OnTheWay DEF PlaceOK, Stages
<1>3. PICK port \in Endpoints(Ctx) :
        /\ task' = [task EXCEPT !.context["endpoint"] = port]
        /\ Continue("ports", WarnedIf(report, port # "" /\ ~PortInUse(port)))
  BY DEF CheckEndpoint
<1>4. port \in STRING
  <2>1. Ctx["endpoint"] \in STRING
    BY <1>2, Fields DEF Layer, Ctx
  <2>2. ModelPort \in STRING
    BY PortsAreKnown
  <2>3. QED
    BY <2>1, <2>2 DEF Endpoints
<1>5. task' = [type |-> task.type, context |-> [task.context EXCEPT !["endpoint"] = port]]
  BY <1>2, <1>3
<1>6. /\ task' \in [type : Types, context : Layer] /\ task'.type = "precheck"
      /\ Ctx' = [Ctx EXCEPT !["endpoint"] = port] /\ Ctx \in Layer
  <2>1. [task.context EXCEPT !["endpoint"] = port] \in Layer
    BY <1>2, <1>4 DEF Layer
  <2>2. QED
    BY <1>2, <1>5, <2>1 DEF Ctx
<1>7. \A f \in {"model_path", "rules", "script", "container"} : Ctx'[f] = Ctx[f]
  BY <1>6, Fields DEF Layer
<1> DEFINE odd == port # "" /\ ~PortInUse(port)
           w == WarnedIf(report, odd)
<1>8. Continue("ports", w) /\ odd \in BOOLEAN /\ w = WarnedIf(report, odd)
  BY <1>3
<1> HIDE DEF w, odd
<1>9. /\ w \in Results /\ SumOf(w, "precheck") /\ w.gating = report.gating
      /\ w.reasons = report.reasons /\ w.sawRunning = report.sawRunning
      /\ w.overlooked = report.overlooked
  BY <1>2, <1>8, WarnedFacts, WarnedSums
<1>10. pc' = "ports" /\ report' = w
  BY <1>8 DEF Continue
<1>11. PathsOK'
  BY <1>1, <1>2, <1>7, <1>9, <1>10 DEF PathsOK, Stages
<1>12. PortsOK'
  BY <1>1, <1>2, <1>7, <1>9, <1>10 DEF PortsOK, Stages, InspectedOK, RanOnce, RestedOnce
<1>13. TypeOK' /\ PresentSeen'
  BY <1>1, <1>6, <1>9, <1>10, ProbeKeeps DEF Places, Stages
<1>14. QED
  BY <1>6, <1>8, <1>9, <1>11, <1>12, <1>13, GoesOn DEF Stages

\* A conflict has a cause, and without one a port others held all the time
\* was that of the endpoint.
LEMMA ConflictsHaveCause ==
  ASSUME PresentSeen, InspectedOK, report.sawRunning => RanOnce, foreign \subseteq Ports
  PROVE  /\ (\E p \in Ports : Conflicts(p)) =>
              \/ was.ever \cap ResolvedPorts # {}
              \/ Ctx["container"] = "" \/ report.overlooked
              \/ RanOnce /\ RestedOnce
              \/ Published \cap (ResolvedPorts \ {Ctx["endpoint"]}) # {}
         /\ ~(\E p \in Ports : Conflicts(p)) => HeldIsFound
<1>1. ASSUME NEW p \in Ports, Conflicts(p)
      PROVE  \/ was.ever \cap ResolvedPorts # {}
             \/ Ctx["container"] = "" \/ report.overlooked
             \/ RanOnce /\ RestedOnce
             \/ Published \cap (ResolvedPorts \ {Ctx["endpoint"]}) # {}
  BY <1>1, UsedWasSeen DEF Conflicts, InspectedOK
<1>2. ASSUME ~(\E p \in Ports : Conflicts(p)), NEW q \in was.held \cap ResolvedPorts
      PROVE  RanOnce /\ q = Ctx["endpoint"]
  BY <1>2 DEF Conflicts, PresentSeen, PortInUse
<1>3. QED
  BY <1>1, <1>2 DEF HeldIsFound

LEMMA PortsKeep ==
  ASSUME NInv, CheckPorts
  PROVE  NInv'
<1> DEFINE bad == \E p \in Ports : Conflicts(p)
           r == BlockedIf(report, bad, "port_conflict")
<1>1. /\ UNCHANGED <<transport, node, hung, changes, task, was>>
      /\ pc = "ports" /\ task.type = "precheck" /\ task'.type = "precheck"
      /\ task' \in [type : Types, context : Layer]
      /\ report \in Results /\ SumOf(report, "precheck")
      /\ PresentSeen /\ PathsOK /\ "port_conflict" \notin report.reasons
      /\ report.sawRunning => RanOnce
  BY CheckBegins DEF CheckPorts, Stages
<1>2. Continue("bundle", r)
  BY DEF CheckPorts
<1>3. bad \in BOOLEAN /\ "port_conflict" \in ReasonCodes
  BY DEF ReasonCodes
<1>4. r = BlockedIf(report, bad, "port_conflict")
  OBVIOUS
<1>5. InspectedOK /\ foreign \subseteq Ports
  BY <1>1 DEF NInv, PortsOK, TypeOK
<1>6. /\ bad => \/ was.ever \cap ResolvedPorts # {}
                \/ Ctx["container"] = "" \/ report.overlooked
                \/ RanOnce /\ RestedOnce
                \/ Published \cap (ResolvedPorts \ {Ctx["endpoint"]}) # {}
      /\ ~bad => HeldIsFound
  BY <1>1, <1>5, ConflictsHaveCause
<1>7. ~bad => r = report
  BY DEF BlockedIf
<1> HIDE DEF bad, r
<1>8. /\ r \in Results /\ SumOf(r, "precheck") /\ (~r.gating => ~report.gating /\ ~bad)
      /\ r.sawRunning = report.sawRunning /\ r.overlooked = report.overlooked
  <2>1. report \in Results /\ SumOf(report, "precheck")
    BY <1>1
  <2>2. QED
    BY <2>1, <1>3, <1>4, Blocks
<1>9. pc' = "bundle" /\ report' = r
  BY <1>2 DEF Continue
<1>10. PathsOK'
  BY <1>1, <1>8, <1>9 DEF PathsOK, Ctx, Stages
<1>11. PortsOK'
  <2>1. ConflictHasCause'
    BY <1>1, <1>6, <1>7, <1>8, <1>9
    DEF ConflictHasCause, ResolvedPorts, Ctx, RanOnce, RestedOnce
  <2>2. ~r.gating => HeldIsFound'
    BY <1>1, <1>6, <1>8 DEF HeldIsFound, ResolvedPorts, Ctx, RanOnce
  <2>3. QED
    BY <1>1, <1>8, <1>9, <2>1, <2>2 DEF PortsOK, RanOnce
<1>12. TypeOK' /\ PresentSeen'
  BY <1>1, <1>8, <1>9, ProbeKeeps DEF Places, Stages
<1>13. QED
  BY <1>1, <1>2, <1>8, <1>10, <1>11, <1>12, GoesOn DEF Stages

LEMMA FinishKeeps ==
  ASSUME NInv, Finish
  PROVE  NInv'
<1>1. pc = "bundle" /\ UNCHANGED <<transport, node, hung, changes, task, was>>
  BY DEF Finish, AtStage
<1>2. /\ task' \in [type : Types, context : Layer] /\ task'.type = task.type
      /\ task.type \in {"snapshot", "precheck"}
      /\ report \in Results /\ SumOf(report, task.type)
      /\ PathsOK /\ PortsOK
  BY <1>1, OnTheWay DEF PlaceOK
<1>3. ASSUME task.type = "snapshot", Done(TRUE, report) PROVE NInv'
  <2>1. TypeOK' /\ PresentSeen'
    BY <1>1, <1>2, <1>3, ProbeKeeps, DoneIsResult
  <2>2. SuccessWasTrue' /\ PortVerdictHasCause'
    BY <1>1, <1>3 DEF SuccessWasTrue, PortVerdictHasCause
  <2>3. QED
    BY <1>1, <1>2, <1>3, <2>1, <2>2, Ends
<1> DEFINE bad == BundleIncomplete(Ctx)
           r == BlockedIf(report, bad, "manifest_invalid")
           ok == ~r.gating
<1>4. ASSUME task.type = "precheck", Done(ok, r) PROVE NInv'
  <2>1. bad \in BOOLEAN /\ "manifest_invalid" \in ReasonCodes
    BY DEF BundleIncomplete, ReasonCodes
  <2>2. r = BlockedIf(report, bad, "manifest_invalid")
    OBVIOUS
  <2> HIDE DEF bad, r
  <2>3. /\ r \in Results /\ SumOf(r, "precheck") /\ (~r.gating => ~report.gating)
        /\ r.reasons \subseteq report.reasons \cup {"manifest_invalid"}
        /\ r.overlooked = report.overlooked
    <3>1. report \in Results /\ SumOf(report, "precheck")
      BY <1>2, <1>4
    <3>2. QED
      BY <3>1, <2>1, <2>2, Blocks
  <2>4. ok \in BOOLEAN /\ (ok <=> ~r.gating)
    OBVIOUS
  <2> HIDE DEF ok
  <2>5. /\ pc' = "done" /\ report'.ok = ok /\ report'.reasons = r.reasons
        /\ report'.overlooked = r.overlooked
    BY <1>4, <2>3 DEF Done, Results
  <2>6. TypeOK' /\ PresentSeen'
    BY <1>1, <1>2, <1>4, <2>3, <2>4, ProbeKeeps, DoneIsResult
  <2>7. ~report.gating => PathsOf(Ctx) \subseteq was.files
    BY <1>1, <1>2, <1>4 DEF PathsOK, PathsOf, Stages
  <2>8. SuccessWasTrue'
    BY <1>1, <1>2, <1>4, <2>3, <2>4, <2>5, <2>7 DEF SuccessWasTrue, PathsOf, Ctx
  <2>9. ConflictHasCause /\ (~report.gating => HeldIsFound)
    BY <1>1, <1>2, <1>4 DEF PortsOK
  <2>10. PortVerdictHasCause'
    <3>1. "port_conflict" \in report'.reasons => "port_conflict" \in report.reasons
      BY <2>3, <2>5
    <3>2. UNCHANGED <<RanOnce, RestedOnce, ResolvedPorts, Ctx>>
      BY <1>1 DEF RanOnce, RestedOnce, ResolvedPorts, Ctx
    <3>3. ConflictHasCause' /\ (HeldIsFound => HeldIsFound')
      BY <1>1, <2>3, <2>5, <2>9, <3>1, <3>2 DEF ConflictHasCause, HeldIsFound
    <3>4. report'.ok => HeldIsFound'
      BY <2>3, <2>4, <2>5, <2>9, <3>3
    <3>5. QED
      BY <3>3, <3>4 DEF PortVerdictHasCause, ConflictHasCause, HeldIsFound
  <2>11. QED
    BY <1>2, <1>4, <2>3, <2>4, <2>6, <2>8, <2>10, Ends
<1>5. QED
  BY <1>2, <1>3, <1>4 DEF Finish

-----------------------------------------------------------------------------
(* Every step keeps the invariant: docker, and the node.                   *)

\* A call of docker that was answered or given up: what it left behind.
LEMMA CallLeaves ==
  ASSUME NInv, NEW c \in Containers, Called(c), report' \in Results, pc' \in Places
  PROVE  /\ TypeOK' /\ PresentSeen' /\ Grows /\ container' = c
         /\ task' = task /\ was'.held = was.held \cap foreign
<1>1. /\ container' = c /\ files' = files /\ foreign' = foreign
      /\ was' = Seen(was, c, files, foreign)
      /\ UNCHANGED <<transport, hung, changes, task>>
  BY DEF Called
<1>2. files \in SUBSET Files /\ foreign \in SUBSET Ports
  BY DEF NInv, TypeOK
<1>3. /\ PresentSeen' /\ Grows
      /\ was' \in [containers : SUBSET Containers, files : SUBSET Files,
                    ever : SUBSET Ports, held : SUBSET Ports]
  BY <1>1, <1>2, SeenFacts
<1>4. QED
  BY <1>1, <1>2, <1>3 DEF NInv, TypeOK, Seen

LEMMA CallsMove ==
  TypeOK => container \in Containers /\ Started \in Containers /\ Stopped \in Containers
BY DEF TypeOK, Started, Stopped, Containers

\* A start or a stop that went well is followed by an inspection.
LEMMA ActionGoesOn ==
  ASSUME NInv, NEW c \in Containers, Called(c), pc \in {"start", "stop"},
         Continue("inspect", report)
  PROVE  NInv'
<1>1. /\ report \in Results /\ SumOf(report, task.type) /\ task.type = pc
  BY OnTheWay DEF PlaceOK
<1>2. pc' = "inspect" /\ report' = report
  BY DEF Continue
<1>3. TypeOK' /\ PresentSeen' /\ task' = task
  BY <1>1, <1>2, CallLeaves DEF Places
<1>4. PlaceOK'
  BY <1>1, <1>2, <1>3 DEF PlaceOK, Stages
<1>5. QED
  BY <1>1, <1>3, <1>4, StepsOn DEF Places

\* A call outside a precheck that fails ends the task.
LEMMA CallFails ==
  ASSUME NInv, NEW c \in Containers, Called(c), pc \in {"start", "stop", "inspect"},
         Fail(report)
  PROVE  NInv'
<1>1. /\ report \in Results /\ SumOf(report, task.type)
      /\ task.type \in {"start", "stop", "inspect"}
  BY OnTheWay DEF PlaceOK
<1>2. TypeOK' /\ PresentSeen' /\ task' = task
  BY <1>1, CallLeaves, DoneIsResult DEF Fail
<1>3. QED
  BY <1>1, <1>2, Fails

LEMMA StartKeeps ==
  ASSUME NInv, StartAnswered
  PROVE  NInv'
BY CallsMove, ActionGoesOn, CallFails DEF StartAnswered, NInv

LEMMA StopKeeps ==
  ASSUME NInv, StopAnswered
  PROVE  NInv'
BY CallsMove, ActionGoesOn, CallFails DEF StopAnswered, NInv

LEMMA ActionFailsKeeps ==
  ASSUME NInv, ActionFails
  PROVE  NInv'
<1>1. PICK c \in {container, IF pc = "start" THEN Started ELSE Stopped} : Called(c)
  BY DEF ActionFails
<1>2. c \in Containers
  BY <1>1, CallsMove DEF NInv
<1>3. QED
  BY <1>1, <1>2, CallFails DEF ActionFails

\* What an inspection makes of the container.
LEMMA ResultFacts ==
  /\ ResultOf("start") <=> Up(container)
  /\ ResultOf("stop") <=> ~Up(container)
  /\ ResultOf("inspect") <=> container # "absent"
  /\ Up(container) <=> ObservedState(container) = "running"
<1>1. ResultOf("start") <=> Up(container)
  BY DEF ResultOf
<1>2. ResultOf("stop") <=> ~Up(container)
  BY DEF ResultOf
<1>3. ResultOf("inspect") <=> container # "absent"
  BY DEF ResultOf
<1>4. Up(container) <=> ObservedState(container) = "running"
  <2>1. CASE Up(container)
    BY <2>1 DEF ObservedState, Up
  <2>2. CASE ~Up(container)
    BY <2>2 DEF ObservedState
  <2>3. QED
    BY <2>1, <2>2
<1>5. QED
  BY <1>1, <1>2, <1>3, <1>4

\* An inspection that ends a task says what it has seen of the container.
LEMMA InspectionEnds ==
  ASSUME NInv, pc = "inspect", Called(container),
         Done(ResultOf(task.type), [report EXCEPT !.observed = ObservedState(container)])
  PROVE  NInv'
<1> DEFINE ok == ResultOf(task.type)
           r == [report EXCEPT !.observed = ObservedState(container)]
<1>1. /\ report \in Results /\ SumOf(report, task.type)
      /\ task.type \in {"inspect", "start", "stop"} /\ container \in Containers
  BY OnTheWay DEF PlaceOK, NInv, TypeOK
<1>2. ok \in BOOLEAN
  <2>1. CASE task.type = "inspect"
    BY <2>1 DEF ResultOf
  <2>2. CASE task.type = "start"
    BY <2>2 DEF ResultOf, Up
  <2>3. CASE task.type = "stop"
    BY <2>3 DEF ResultOf, Up
  <2>4. QED
    BY <1>1, <2>1, <2>2, <2>3
<1>3. /\ r \in Results /\ r.observed = ObservedState(container)
      /\ r.reasons = report.reasons /\ r.gating = report.gating
      /\ r.overall = report.overall
  BY <1>1 DEF Results, ObservedState
<1>4. SumOf(r, task.type)
  BY <1>1, <1>3 DEF SumOf
<1>5. ok = ResultOf(task.type) /\ Done(ok, r)
  OBVIOUS
<1> HIDE DEF ok, r
<1>6. pc' = "done" /\ report'.ok = ok /\ report'.observed = ObservedState(container)
  BY <1>3, <1>5 DEF Done, Results
<1>7. /\ TypeOK' /\ PresentSeen' /\ Grows /\ task' = task /\ container' = container
  BY <1>1, <1>2, <1>3, <1>5, CallLeaves, DoneIsResult
<1>8. container \in was'.containers
  BY <1>7 DEF PresentSeen
<1>9. SuccessWasTrue'
  <2>1. report'.ok = ResultOf(task.type) /\ report'.observed = ObservedState(container)
    BY <1>5, <1>6
  <2>2. CASE task.type = "inspect"
    BY <1>7, <1>8, <2>1, <2>2, ResultFacts DEF SuccessWasTrue
  <2>3. CASE task.type = "start"
    BY <1>7, <1>8, <2>1, <2>3, ResultFacts DEF SuccessWasTrue, RanOnce
  <2>4. CASE task.type = "stop"
    BY <1>7, <1>8, <2>1, <2>4, ResultFacts DEF SuccessWasTrue, RestedOnce
  <2>5. QED
    BY <1>1, <2>2, <2>3, <2>4
<1>10. PortVerdictHasCause'
  BY <1>1, <1>7 DEF PortVerdictHasCause
<1>11. QED
  BY <1>1, <1>2, <1>3, <1>4, <1>5, <1>7, <1>9, <1>10, Ends

\* The inspection of a precheck, answered or not, leaves its verdict.
LEMMA InspectionGoesOn ==
  ASSUME NInv, pc = "container", Called(container), NEW r \in Results,
         Continue("endpoint", r), SumOf(r, "precheck"),
         r.gating = report.gating, r.reasons = report.reasons,
         r.overlooked \/ (r.sawRunning <=> Up(container)),
         r.sawRunning => report.sawRunning \/ Up(container)
  PROVE  NInv'
<1>1. /\ task.type = "precheck" /\ container \in Containers /\ PathsOK /\ PortsOK
      /\ report.gating \in BOOLEAN
  BY OnTheWay DEF PlaceOK, Stages, NInv, TypeOK, Results
<1>2. pc' = "endpoint" /\ report' = r
  BY DEF Continue
<1>3. /\ TypeOK' /\ PresentSeen' /\ Grows /\ task' = task /\ container' = container
  BY <1>1, <1>2, CallLeaves DEF Places, Stages
<1>4. container \in was'.containers
  BY <1>3 DEF PresentSeen
<1>5. PathsOK'
  BY <1>1, <1>2, <1>3 DEF PathsOK, Ctx, Grows, Stages
<1>6. InspectedOK'
  BY <1>2, <1>4 DEF InspectedOK, RestedOnce, Up
<1>7. r.sawRunning => RanOnce'
  BY <1>1, <1>3, <1>4, MomentsStay DEF PortsOK, RanOnce, Stages, Up
<1>8. PortsOK'
  BY <1>1, <1>2, <1>3, <1>6, <1>7 DEF PortsOK, Stages
<1>9. QED
  BY <1>1, <1>3, <1>5, <1>8, GoesOn DEF Stages

LEMMA InspectKeeps ==
  ASSUME NInv, InspectAnswered
  PROVE  NInv'
<1> DEFINE up == Up(container)
           w == WarnedIf(report, ~up)
           r == [w EXCEPT !.sawRunning = up,
                          !.observed = IF up THEN "running" ELSE "loaded"]
<1>1. CASE pc = "inspect"
  BY <1>1, InspectionEnds DEF InspectAnswered
<1>2. CASE pc # "inspect"
  <2>1. pc = "container" /\ Called(container) /\ Continue("endpoint", r)
    BY <1>2 DEF InspectAnswered, Inspecting
  <2>2. report \in Results /\ SumOf(report, "precheck")
    BY <2>1, OnTheWay DEF PlaceOK, Stages
  <2>3. (~up) \in BOOLEAN /\ up \in BOOLEAN
    BY DEF Up
  <2>4. /\ w \in Results /\ SumOf(w, "precheck")
        /\ w.gating = report.gating /\ w.reasons = report.reasons
    BY <2>2, <2>3, WarnedFacts, WarnedSums
  <2> HIDE DEF w
  <2>5. /\ r \in Results /\ r.gating = w.gating /\ r.reasons = w.reasons
        /\ r.overall = w.overall /\ r.sawRunning = up
    BY <2>3, <2>4 DEF Results
  <2> HIDE DEF r
  <2>6. SumOf(r, "precheck")
    BY <2>4, <2>5 DEF SumOf
  <2>7. r.overlooked \/ (r.sawRunning <=> Up(container))
    BY <2>5
  <2>8. QED
    BY <2>1, <2>4, <2>5, <2>6, <2>7, InspectionGoesOn
<1>3. QED
  BY <1>1, <1>2

LEMMA InspectFailsKeeps ==
  ASSUME NInv, InspectFails
  PROVE  NInv'
<1> DEFINE w == Warned(report)
           r == [w EXCEPT !.overlooked = TRUE, !.observed = "loaded"]
<1>1. CASE pc = "inspect"
  <2>1. container \in Containers
    BY DEF NInv, TypeOK
  <2>2. QED
    BY <1>1, <2>1, CallFails DEF InspectFails
<1>2. CASE pc # "inspect"
  <2>1. pc = "container" /\ Called(container) /\ Continue("endpoint", r)
    BY <1>2 DEF InspectFails, Inspecting
  <2>2. report \in Results /\ SumOf(report, "precheck")
    BY <2>1, OnTheWay DEF PlaceOK, Stages
  <2>3. w = WarnedIf(report, TRUE)
    BY DEF WarnedIf
  <2> HIDE DEF w
  <2>4. /\ w \in Results /\ SumOf(w, "precheck")
        /\ w.gating = report.gating /\ w.reasons = report.reasons
        /\ w.sawRunning = report.sawRunning
    BY <2>2, <2>3, WarnedFacts, WarnedSums
  <2>5. /\ r \in Results /\ r.gating = w.gating /\ r.reasons = w.reasons
        /\ r.overall = w.overall /\ r.sawRunning = w.sawRunning /\ r.overlooked
    BY <2>4 DEF Results
  <2> HIDE DEF r
  <2>6. SumOf(r, "precheck")
    BY <2>4, <2>5 DEF SumOf
  <2>7. QED
    BY <2>1, <2>4, <2>5, <2>6, InspectionGoesOn
<1>3. QED
  BY <1>1, <1>2

LEMMA ChangedKeeps ==
  ASSUME NInv, NEW c \in Containers, NEW ff \in SUBSET Files, NEW ps \in SUBSET Ports,
         Changed(c, ff, ps)
  PROVE  NInv'
<1>1. /\ container' = c /\ files' = ff /\ foreign' = ps
      /\ was' = Seen(was, c, ff, ps) /\ changes' = changes + 1 /\ changes < MaxChanges
      /\ UNCHANGED <<transport, hung, pc, task, report>>
  BY DEF Changed
<1>2. /\ PresentSeen' /\ Grows
      /\ was' \in [containers : SUBSET Containers, files : SUBSET Files,
                    ever : SUBSET Ports, held : SUBSET Ports]
  BY <1>1, SeenFacts
<1>3. changes' \in 0..MaxChanges
  BY <1>1, BoundIsNatural DEF NInv, TypeOK
<1>4. TypeOK'
  BY <1>1, <1>2, <1>3 DEF NInv, TypeOK
<1>5. QED
  BY <1>1, <1>2, <1>4, OthersKeep

LEMMA NodeMoves ==
  ASSUME NInv, ContainerMoves \/ FileMoves \/ PortMoves
  PROVE  NInv'
<1>1. container \in Containers /\ files \in SUBSET Files /\ foreign \in SUBSET Ports
  BY DEF NInv, TypeOK
<1>2. CASE ContainerMoves
  BY <1>1, <1>2, ChangedKeeps DEF ContainerMoves
<1>3. CASE FileMoves
  <2>1. PICK f \in Files : \E ff \in {files \cup {f}, files \ {f}} :
          Changed(container, ff, foreign)
    BY <1>3 DEF FileMoves
  <2>2. files \cup {f} \in SUBSET Files /\ files \ {f} \in SUBSET Files
    BY <1>1
  <2>3. QED
    BY <1>1, <2>1, <2>2, ChangedKeeps
<1>4. CASE PortMoves
  <2>1. PICK p \in Ports : \/ Changed(container, files, foreign \cup {p})
                          \/ Changed(container, files, foreign \ {p})
    BY <1>4 DEF PortMoves
  <2>2. foreign \cup {p} \in SUBSET Ports /\ foreign \ {p} \in SUBSET Ports
    BY <1>1
  <2>3. QED
    BY <1>1, <2>1, <2>2, ChangedKeeps
<1>5. QED
  BY <1>2, <1>3, <1>4

LEMMA HangKeeps ==
  ASSUME NInv, DaemonHangs \/ UNCHANGED vars
  PROVE  NInv'
<1>1. /\ UNCHANGED <<transport, container, foreign, files, changes, pc, task, report, was>>
      /\ hung' \in BOOLEAN
  BY DEF DaemonHangs, vars, node, NInv, TypeOK
<1>2. TypeOK' /\ PresentSeen' /\ Grows
  BY <1>1 DEF NInv, TypeOK, PresentSeen, Grows
<1>3. QED
  BY <1>1, <1>2, OthersKeep

LEMMA NextKeeps == NInv /\ [Next]_vars => NInv'
<1> SUFFICES ASSUME NInv, [Next]_vars PROVE NInv'
  OBVIOUS
<1>1. CASE (\E w \in Works : Accept(w)) \/ Return
  BY <1>1, AcceptKeeps, ReturnKeeps
<1>2. CASE Probe
  BY <1>2, EndpointPortKeeps, HealthKeeps, ModelPathKeeps, MountsKeep, EnvKeeps,
     ScriptKeeps, PoliciesKeep, CompatibilityKeeps, EndpointKeeps, PortsKeep, FinishKeeps
  DEF Probe
<1>3. CASE DockerCall
  BY <1>3, StartKeeps, StopKeeps, ActionFailsKeeps, InspectKeeps, InspectFailsKeeps
  DEF DockerCall
<1>4. CASE ContainerMoves \/ FileMoves \/ PortMoves
  BY <1>4, NodeMoves
<1>5. CASE DaemonHangs \/ UNCHANGED vars
  BY <1>5, HangKeeps
<1>6. QED
  BY <1>1, <1>2, <1>3, <1>4, <1>5 DEF Next

LEMMA Invariance == Spec => []NInv
<1>1. QED
  BY InitOK, NextKeeps, PTL DEF Spec

-----------------------------------------------------------------------------
(***************************************************************************)
(* The node, the agent, its task and its result keep their types.          *)
(***************************************************************************)
THEOREM TypesHold == Spec => []TypeOK
<1>1. NInv => TypeOK
  BY DEF NInv
<1>2. QED
  BY <1>1, Invariance, PTL

(***************************************************************************)
(* What a task reports as achieved was true of the node while it was       *)
(* executed, whoever moves the container, the files and the ports between  *)
(* the probes and however docker's calls end.                              *)
(***************************************************************************)
THEOREM ReportsAreTrue == Spec => []SuccessWasTrue
<1>1. NInv => SuccessWasTrue
  BY DEF NInv
<1>2. QED
  BY <1>1, Invariance, PTL

(***************************************************************************)
(* The verdict of a precheck is the sum of its checks, for every context   *)
(* and whatever the node is at each of them.                               *)
(***************************************************************************)
THEOREM VerdictsAddUp == Spec => []VerdictIsSum
<1>1. NInv => VerdictIsSum
  BY DEF NInv
<1>2. QED
  BY <1>1, Invariance, PTL

(***************************************************************************)
(* A precheck gates for a port only with a cause outside the runtime or a  *)
(* container that was not known to be its own, and overlooks no port that  *)
(* others held all the time.                                               *)
(***************************************************************************)
THEOREM PortVerdictsHaveCauses == Spec => []PortVerdictHasCause
<1>1. NInv => PortVerdictHasCause
  BY DEF NInv
<1>2. QED
  BY <1>1, Invariance, PTL
-----------------------------------------------------------------------------
(* How far a task is from its end.                                         *)

\* An upper bound of the agent's steps until it is idle.
StepsLeft(place) ==
  CASE place = "idle" -> 0
    [] place = "done" -> 1
    [] place \in {"bundle", "health", "inspect"} -> 2
    [] place \in {"ports", "dial", "start", "stop"} -> 3
    [] place = "endpoint" -> 4
    [] place = "container" -> 5
    [] place = "compatibility" -> 6
    [] place = "policies" -> 7
    [] place = "script" -> 8
    [] place = "env" -> 9
    [] place = "mounts" -> 10
    [] OTHER -> 11

\* The node only delays a task, the agent brings it nearer to its end.
Advances ==
  pc # "idle" =>
    IF Return \/ Probe \/ DockerCall
    THEN StepsLeft(pc') < StepsLeft(pc)
    ELSE UNCHANGED <<pc, task, report>>

LEMMA StepsLeftFacts ==
  /\ StepsLeft("idle") = 0 /\ StepsLeft("done") = 1 /\ StepsLeft("bundle") = 2
  /\ StepsLeft("health") = 2 /\ StepsLeft("inspect") = 2 /\ StepsLeft("ports") = 3
  /\ StepsLeft("dial") = 3 /\ StepsLeft("start") = 3 /\ StepsLeft("stop") = 3
  /\ StepsLeft("endpoint") = 4 /\ StepsLeft("container") = 5
  /\ StepsLeft("compatibility") = 6 /\ StepsLeft("policies") = 7
  /\ StepsLeft("script") = 8 /\ StepsLeft("env") = 9 /\ StepsLeft("mounts") = 10
  /\ StepsLeft("model_path") = 11
BY DEF StepsLeft

LEMMA ProbesAdvance ==
  ASSUME Probe
  PROVE  StepsLeft(pc') < StepsLeft(pc)
<1>1. CASE CheckEndpointPort
  BY <1>1, StepsLeftFacts DEF CheckEndpointPort, AtStage, Done, Fail, Continue
<1>2. CASE CheckHealth \/ Finish
  BY <1>2, StepsLeftFacts DEF CheckHealth, Finish, AtStage, Done, Fail
<1>3. CASE CheckModelPath
  BY <1>3, StepsLeftFacts DEF CheckModelPath, AtStage, Done, Continue
<1>4. CASE CheckMounts \/ CheckEnv
  <2>1. <<pc, pc'>> \in {<<"mounts", "env">>, <<"env", "script">>}
    BY <1>4 DEF CheckMounts, CheckEnv, AtStage, Continue
  <2>2. QED
    BY <2>1, StepsLeftFacts
<1>5. CASE CheckScript \/ CheckPolicies
  <2>1. <<pc, pc'>> \in {<<"script", "policies">>, <<"policies", "compatibility">>}
    BY <1>5 DEF CheckScript, CheckPolicies, AtStage, Continue
  <2>2. QED
    BY <2>1, StepsLeftFacts
<1>6. CASE CheckCompatibility
  <2>1. pc = "compatibility" /\ pc' \in {"container", "endpoint"}
    BY <1>6 DEF CheckCompatibility, AtStage, Continue
  <2>2. QED
    BY <2>1, StepsLeftFacts
<1>7. CASE CheckEndpoint
  <2>1. pc = "endpoint" /\ pc' = "ports"
    BY <1>7 DEF CheckEndpoint, Continue
  <2>2. QED
    BY <2>1, StepsLeftFacts
<1>8. CASE CheckPorts
  BY <1>8, StepsLeftFacts DEF CheckPorts, AtStage, Continue
<1>9. QED
  BY <1>1, <1>2, <1>3, <1>4, <1>5, <1>6, <1>7, <1>8 DEF Probe

LEMMA CallsAdvance ==
  ASSUME DockerCall
  PROVE  StepsLeft(pc') < StepsLeft(pc)
<1>1. CASE StartAnswered \/ StopAnswered
  BY <1>1, StepsLeftFacts DEF StartAnswered, StopAnswered, Done, Fail, Continue
<1>2. CASE ActionFails
  BY <1>2, StepsLeftFacts DEF ActionFails, Done, Fail
<1>3. CASE InspectAnswered
  BY <1>3, StepsLeftFacts DEF InspectAnswered, Inspecting, Done, Continue
<1>4. CASE InspectFails
  BY <1>4, StepsLeftFacts DEF InspectFails, Inspecting, Done, Fail, Continue
<1>5. QED
  BY <1>1, <1>2, <1>3, <1>4 DEF DockerCall

(***************************************************************************)
(* No task goes round in circles: whatever it is, whatever its context and *)
(* the node's answers, each of the agent's steps lowers StepsLeft, so a    *)
(* task is over after at most eleven of them.  What moves on the node      *)
(* neither sets it back nor changes what it has found, and no other task   *)
(* is accepted before.  With the agent scheduled and docker's calls ended  *)
(* this is why TasksReturn holds.                                          *)
(***************************************************************************)
THEOREM TasksAdvance == Spec => [][Advances]_vars
<1>1. [Next]_vars => [Advances]_vars
  <2> SUFFICES ASSUME Next, pc # "idle" PROVE Advances
    BY DEF Advances
  <2>1. CASE Return
    <3>1. StepsLeft(pc') < StepsLeft(pc)
      BY <2>1, StepsLeftFacts DEF Return
    <3>2. QED
      BY <2>1, <3>1 DEF Advances
  <2>2. CASE Probe \/ DockerCall
    BY <2>2, ProbesAdvance, CallsAdvance DEF Advances
  <2>3. CASE ~(Return \/ Probe \/ DockerCall)
    <3>1. ~\E w \in Works : Accept(w)
      BY DEF Accept
    <3>2. ContainerMoves \/ FileMoves \/ PortMoves \/ DaemonHangs
      BY <2>3, <3>1 DEF Next
    <3>3. UNCHANGED <<pc, task, report>>
      BY <3>2 DEF ContainerMoves, FileMoves, PortMoves, Changed, DaemonHangs
    <3>4. QED
      BY <2>3, <3>3 DEF Advances
  <2>4. QED
    BY <2>1, <2>2, <2>3
<1>2. QED
  BY <1>1, PTL DEF Spec
=============================================================================
