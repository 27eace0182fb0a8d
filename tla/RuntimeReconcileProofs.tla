----------------------- MODULE RuntimeReconcileProofs -----------------------
(***************************************************************************)
(* The safety theorems of RuntimeReconcile.  Rows are written by several   *)
(* parties from copies of any age, so the invariant is stated of every     *)
(* copy there is (the table, the loop's list, the copy of each thread);    *)
(* what is left to show is that each function of RuntimeGating keeps a     *)
(* single row sound.                                                       *)
(***************************************************************************)
EXTENDS RuntimeReconcile, TLAPS

\* What GatedIsExplained and PlanMatchesGating say of one row.
Explained(row) ==
  row.precheck => row.ready = "not_ready" /\ row.drift # "none"

PlanFollows(row) ==
  /\ row.plan = Granted => row.gating = "allowed"
  /\ row.plan.action = "load" /\ row.plan # Granted =>
       row.gating = row.plan.status
  /\ row.plan.action # "load" => row.plan \in {NoPlan, Unload}

\* The rows that satisfy both.
SoundRow == {row \in Row : Explained(row) /\ PlanFollows(row)}

\* Everything but the copies of rows.
ControlOK ==
  /\ models \in [Instances -> ModelStates]
  /\ mutex \in Threads \cup {NoThread}
  /\ pc \in [Threads -> PCs]
  /\ kind \in [Threads -> CallKinds \cup {"none", "pass", "result", "status", "refreshed"}]
  /\ item \in [Threads -> Instances]
  /\ owed \in [Threads -> SUBSET Instances]
  /\ wish \in [Threads -> ModelStates]
  /\ calls \in Nat

CopiesOK ==
  /\ rows \in [Instances -> SoundRow]
  /\ list \in [Instances -> SoundRow]
  /\ copy \in [Threads -> SoundRow]

IInv == ControlOK /\ CopiesOK

-----------------------------------------------------------------------------
(* Lemmas about single rows.                                               *)

LEMMA NewRowSound ==
  ASSUME NEW d \in ModelStates, NEW o \in ModelStates, NEW r \in Readiness
  PROVE  NewRow(d, o, r) \in SoundRow
BY DEF NewRow, SoundRow, Row, Plans, NoPlan, Granted, Unload, Explained,
       PlanFollows, Drifts, Gatings

LEMMA ReadyAndDrift ==
  ASSUME NEW row \in Row, NEW held \in BOOLEAN, NEW trigger, NEW signals,
         Explained(row)
  PROVE  /\ ReadyAfter(row, held) \in Readiness
         /\ DriftAfter(row, held, trigger, signals) \in Drifts
         /\ row.precheck =>
              /\ ReadyAfter(row, held) = "not_ready"
              /\ DriftAfter(row, held, trigger, signals) # "none"
<1>1. /\ row.ready \in Readiness
      /\ row.drift \in Drifts
  BY DEF Row
<1>2. /\ StateDrift(row, held) \in Drifts
      /\ row.precheck => StateDrift(row, held) # "none"
  BY <1>1 DEF StateDrift, FirstReason, Drifts, Explained
<1>3. /\ DriftAfter(row, held, trigger, signals) \in Drifts
      /\ row.precheck => DriftAfter(row, held, trigger, signals) # "none"
  <2>1. CASE DriftAfter(row, held, trigger, signals) = StateDrift(row, held)
    BY <2>1, <1>2
  <2>2. CASE DriftAfter(row, held, trigger, signals)
               = FirstReason(StateDrift(row, held), "agent")
    BY <2>2, <1>2 DEF FirstReason, Drifts
  <2>3. QED
    BY <2>1, <2>2 DEF DriftAfter
<1>4. /\ ReadyAfter(row, held) \in Readiness
      /\ row.precheck => ReadyAfter(row, held) = "not_ready"
  BY <1>1 DEF ReadyAfter, Readiness, Explained
<1>5. QED
  BY <1>3, <1>4

LEMMA GatingAndPlan ==
  ASSUME NEW i, NEW row, NEW table, NEW trigger, NEW signals
  PROVE  LET gating == GatingOf(i, row, table, trigger, signals)
             plan == PlanOf(i, row, table, trigger, signals)
         IN  /\ gating \in Gatings
             /\ plan \in Plans
             /\ plan = Granted => gating = "allowed"
             /\ plan.action = "load" /\ plan # Granted => gating = plan.status
             /\ plan.action # "load" => plan \in {NoPlan, Unload}
<1> DEFINE held == Held(i, row, table, trigger, signals)
           gating == GatingOf(i, row, table, trigger, signals)
           plan == PlanOf(i, row, table, trigger, signals)
<1>1. /\ ~held => gating = "allowed"
      /\ held => gating \in {"blocked", "deferred"}
  BY DEF GatingOf
<1>2. \/ plan = [action |-> "load", status |-> IF held THEN gating ELSE "planned"]
      \/ plan = Unload
      \/ plan = NoPlan
  BY DEF PlanOf
<1>3. QED
  BY <1>1, <1>2 DEF Gatings, Plans, Granted, NoPlan, Unload

LEMMA ReconciledSound ==
  ASSUME NEW i, NEW row \in SoundRow, NEW table, NEW trigger, NEW signals
  PROVE  Reconciled(i, row, table, trigger, signals) \in SoundRow
<1> DEFINE held == Held(i, row, table, trigger, signals)
           gating == GatingOf(i, row, table, trigger, signals)
           plan == PlanOf(i, row, table, trigger, signals)
           ready == ReadyAfter(row, held)
           drift == DriftAfter(row, held, trigger, signals)
           new == [row EXCEPT !.gating = gating, !.plan = plan,
                              !.ready = ready, !.drift = drift]
<1>1. row \in Row /\ Explained(row)
  BY DEF SoundRow
<1>2. held \in BOOLEAN
  BY DEF Held
<1>3. /\ ready \in Readiness /\ drift \in Drifts
      /\ row.precheck => ready = "not_ready" /\ drift # "none"
  BY <1>1, <1>2, ReadyAndDrift
<1>4. /\ gating \in Gatings /\ plan \in Plans
      /\ plan = Granted => gating = "allowed"
      /\ plan.action = "load" /\ plan # Granted => gating = plan.status
      /\ plan.action # "load" => plan \in {NoPlan, Unload}
  BY GatingAndPlan
<1> HIDE DEF held, gating, plan, ready, drift
<1>5. /\ new \in Row
      /\ new.precheck = row.precheck /\ new.ready = ready /\ new.drift = drift
      /\ new.gating = gating /\ new.plan = plan
  BY <1>1, <1>3, <1>4 DEF Row
<1>6. Explained(new)
  BY <1>3, <1>5 DEF Explained
<1>7. PlanFollows(new)
  BY <1>4, <1>5 DEF PlanFollows
<1>8. new \in SoundRow
  BY <1>5, <1>6, <1>7 DEF SoundRow
<1>9. QED
  BY <1>8 DEF Reconciled, held, gating, plan, ready, drift

LEMMA ObservedSound ==
  ASSUME NEW row \in SoundRow, NEW o
  PROVE  Observed(row, o) \in SoundRow
<1> DEFINE seen == Facts(row, o)
           ready == IF seen.precheck /\ seen.ready = "ready"
                    THEN "not_ready" ELSE seen.ready
           drift == IF seen.desired = seen.observed THEN seen.drift
                    ELSE FirstReason(seen.drift, "state")
           new == [seen EXCEPT !.ready = ready, !.drift = drift]
<1>1. row \in Row /\ Explained(row) /\ PlanFollows(row)
  BY DEF SoundRow
<1>2. /\ seen \in Row
      /\ seen.plan = row.plan /\ seen.gating = row.gating
      /\ seen.precheck => seen.drift # "none" /\ seen.ready # "unknown"
  BY <1>1, ZenonT(40) DEF Facts, Row, Explained, FirstReason, Drifts, Readiness, ModelStates
<1>3. seen.ready \in Readiness /\ seen.drift \in Drifts
  BY <1>2 DEF Row
<1> HIDE DEF seen
<1>4. /\ ready \in Readiness /\ drift \in Drifts
      /\ seen.precheck => ready = "not_ready" /\ drift # "none"
  BY <1>2, <1>3 DEF FirstReason, Readiness, Drifts
<1> HIDE DEF ready, drift
<1>5. /\ new \in Row
      /\ new.precheck = seen.precheck /\ new.ready = ready /\ new.drift = drift
      /\ new.plan = row.plan /\ new.gating = row.gating
  BY <1>2, <1>4 DEF Row
<1>6. new \in SoundRow
  BY <1>1, <1>4, <1>5 DEF SoundRow, Explained, PlanFollows
<1>7. QED
  BY <1>6 DEF Observed, seen, ready, drift

LEMMA SyncedSound ==
  ASSUME NEW row \in SoundRow, NEW d \in ModelStates,
         NEW r \in Readiness, NEW reason \in Drifts
  PROVE  Synced(row, d, r, reason) \in SoundRow
<1> DEFINE ready == IF row.ready = "unknown" THEN r ELSE row.ready
           drift == FirstReason(row.drift, reason)
           new == [row EXCEPT !.desired = d, !.ready = ready, !.drift = drift]
<1>1. row \in Row /\ Explained(row) /\ PlanFollows(row)
  BY DEF SoundRow
<1>2. row.ready \in Readiness /\ row.drift \in Drifts
  BY <1>1 DEF Row
<1>3. /\ ready \in Readiness /\ drift \in Drifts
      /\ row.precheck => ready = "not_ready" /\ drift # "none"
  BY <1>1, <1>2 DEF Explained, FirstReason, Drifts, Readiness
<1> HIDE DEF ready, drift
<1>4. /\ new \in Row
      /\ new.precheck = row.precheck /\ new.ready = ready /\ new.drift = drift
      /\ new.plan = row.plan /\ new.gating = row.gating
  BY <1>1, <1>3 DEF Row
<1>5. new \in SoundRow
  BY <1>1, <1>3, <1>4 DEF SoundRow, Explained, PlanFollows
<1>6. QED
  BY <1>5 DEF Synced, ready, drift

LEMMA ReleasedSound ==
  ASSUME NEW row \in SoundRow
  PROVE  [row EXCEPT !.plan = Unload] \in SoundRow
<1>1. row \in Row /\ Explained(row)
  BY DEF SoundRow
<1>2. Unload \in Plans /\ Unload.action # "load" /\ Unload # Granted
  BY DEF Unload, Plans, Granted
<1>3. [row EXCEPT !.plan = Unload] \in Row
  BY <1>1, <1>2 DEF Row
<1>4. /\ Explained([row EXCEPT !.plan = Unload])
      /\ PlanFollows([row EXCEPT !.plan = Unload])
  BY <1>1, <1>2 DEF Explained, PlanFollows, Row
<1>5. QED
  BY <1>3, <1>4 DEF SoundRow

LEMMA SoundRowIsRow ==
  ASSUME NEW row \in SoundRow
  PROVE  row \in Row /\ row.desired \in ModelStates
BY DEF SoundRow, Row

LEMMA NoRowSound == NoRow \in SoundRow
<1>1. "unknown" \in ModelStates /\ "unknown" \in Readiness
  BY DEF ModelStates, Readiness
<1>2. QED
  BY <1>1, NewRowSound DEF NoRow

-----------------------------------------------------------------------------
(* The initial states and every action keep the invariant.                 *)

LEMMA OneIsInstance == 1 \in Instances
BY NumInstancesIsPositive DEF Instances

LEMMA InitOK == Init => IInv
<1> SUFFICES ASSUME Init PROVE IInv
  OBVIOUS
<1>1. PICK s \in InitStates :
        /\ models = [i \in Instances |-> s[i][1]]
        /\ rows = [i \in Instances |->
                     NewRow(s[i][1], s[i][2],
                            IF s[i][2] = "running" THEN "ready" ELSE "unknown")]
  BY DEF Init
<1>2. ASSUME NEW i \in Instances
      PROVE  /\ s[i][1] \in ModelStates /\ s[i][2] \in ModelStates
             /\ NewRow(s[i][1], s[i][2],
                       IF s[i][2] = "running" THEN "ready" ELSE "unknown")
                  \in SoundRow
  <2>1. s[i] \in ModelStates \X ModelStates
    BY InputsAreKnown
  <2>2. s[i][1] \in ModelStates /\ s[i][2] \in ModelStates
    BY <2>1
  <2>3. (IF s[i][2] = "running" THEN "ready" ELSE "unknown") \in Readiness
    BY DEF Readiness
  <2>4. QED
    BY <2>2, <2>3, NewRowSound
<1>3. CopiesOK
  BY <1>1, <1>2, NoRowSound DEF Init, CopiesOK
<1>4. models \in [Instances -> ModelStates]
  BY <1>1, <1>2
<1>5. ControlOK
  BY <1>4, OneIsInstance DEF Init, ControlOK, PCs, ModelStates
<1>6. QED
  BY <1>3, <1>5 DEF IInv

LEMMA CallKeeps ==
  ASSUME IInv, NEW t \in Clients, NEW k \in Kinds, NEW i \in Instances,
         Call(t, k, i)
  PROVE  IInv'
<1> USE DEF IInv
<1>1. t \in Threads /\ k \in CallKinds /\ FirstPlace(k) \in PCs
  BY InputsAreKnown DEF Threads, FirstPlace, PCs
<1>2. ControlOK'
  BY <1>1 DEF ControlOK, Call, GoTo
<1>3. rows[i] \in SoundRow
  BY DEF CopiesOK
<1>4. CopiesOK'
  BY <1>1, <1>3, NoRowSound DEF CopiesOK, Call
<1>5. QED
  BY <1>2, <1>4

LEMMA ReportWriteKeeps ==
  ASSUME IInv, NEW t \in Clients, NEW o, ReportWrite(t, o)
  PROVE  IInv'
<1> USE DEF IInv
<1>1. t \in Threads /\ item[t] \in Instances
  BY DEF Threads, ControlOK
<1>2. ControlOK'
  BY <1>1 DEF ControlOK, ReportWrite, GoTo, PCs
<1>3. Observed(copy[t], o) \in SoundRow
  BY <1>1, ObservedSound DEF CopiesOK
<1>4. CopiesOK'
  BY <1>1, <1>3, NoRowSound DEF CopiesOK, ReportWrite
<1>5. QED
  BY <1>2, <1>4

LEMMA AcquireKeeps ==
  ASSUME IInv, NEW t \in Clients, Acquire(t)
  PROVE  IInv'
<1> USE DEF IInv
<1>1. t \in Threads /\ item[t] \in Instances
  BY DEF Threads, ControlOK
<1>2. ControlOK'
  BY <1>1 DEF ControlOK, Acquire, GoTo, PCs
<1>3. CopiesOK'
  BY <1>1 DEF CopiesOK, Acquire
<1>4. QED
  BY <1>2, <1>3

LEMMA PassBeginKeeps ==
  ASSUME IInv, PassBegin
  PROVE  IInv'
<1> USE DEF IInv
<1>1. Loop \in Threads
  BY DEF Threads
<1>2. ControlOK'
  BY <1>1 DEF ControlOK, PassBegin, GoTo, PCs
<1>3. CopiesOK'
  BY <1>1, OneIsInstance DEF CopiesOK, PassBegin
<1>4. QED
  BY <1>2, <1>3

LEMMA EvaluateKeeps ==
  ASSUME IInv, NEW t \in Threads, NEW signals, Evaluate(t, signals)
  PROVE  IInv'
<1> USE DEF IInv
<1>1. ReleaseTargets(item[t], copy[t], rows, kind[t], signals)
        \in SUBSET Instances
  BY DEF ReleaseTargets, KindRivals, Rivals
<1>2. ControlOK'
  BY <1>1 DEF ControlOK, Evaluate, GoTo, PCs
<1>3. Reconciled(item[t], copy[t], rows, kind[t], signals) \in SoundRow
  BY ReconciledSound DEF CopiesOK
<1>4. CopiesOK'
  BY <1>3 DEF CopiesOK, Evaluate
<1>5. QED
  BY <1>2, <1>4

LEMMA ReleaseKeeps ==
  ASSUME IInv, NEW t \in Threads, NEW j \in Instances, Release(t, j)
  PROVE  IInv'
<1> USE DEF IInv
<1>1. rows[j] \in SoundRow
  BY DEF CopiesOK
<1>2. [rows[j] EXCEPT !.plan = Unload] \in SoundRow
  BY <1>1, ReleasedSound
<1>3. rows[j].desired \in ModelStates
  BY <1>1, SoundRowIsRow
<1>4. ControlOK'
  BY <1>3 DEF ControlOK, Release, Projects
<1>5. CopiesOK'
  BY <1>2 DEF CopiesOK, Release
<1>6. QED
  BY <1>4, <1>5

\* Writing a copy back, whatever follows it.
LEMMA WriteBackKeeps ==
  ASSUME IInv, NEW t \in Threads, WriteBack(t)
  PROVE  /\ rows' \in [Instances -> SoundRow]
         /\ models' \in [Instances -> ModelStates]
         /\ owed' = owed /\ calls' = calls
<1>1. copy[t] \in SoundRow /\ item[t] \in Instances
  BY DEF IInv, CopiesOK, ControlOK
<1>2. copy[t].desired \in ModelStates
  BY <1>1, SoundRowIsRow
<1>3. QED
  BY <1>1, <1>2 DEF WriteBack, Projects, IInv, CopiesOK, ControlOK

LEMMA PassNextKeeps ==
  ASSUME IInv, PassNext
  PROVE  IInv'
<1> USE DEF IInv
<1>1. Loop \in Threads
  BY DEF Threads
<1>2. /\ rows' \in [Instances -> SoundRow]
      /\ models' \in [Instances -> ModelStates]
      /\ owed' = owed /\ calls' = calls
  BY <1>1, WriteBackKeeps DEF PassNext
<1>3. item[Loop] \in Instances /\ item[Loop] + 1 \in Instances
  BY <1>1, NumInstancesIsPositive DEF ControlOK, PassNext, Instances
<1>4. ControlOK'
  BY <1>1, <1>2, <1>3 DEF ControlOK, PassNext, GoTo, PCs
<1>5. CopiesOK'
  BY <1>1, <1>2, <1>3 DEF CopiesOK, PassNext
<1>6. QED
  BY <1>4, <1>5

LEMMA PassEndKeeps ==
  ASSUME IInv, PassEnd
  PROVE  IInv'
<1> USE DEF IInv
<1>1. Loop \in Threads
  BY DEF Threads
<1>2. /\ rows' \in [Instances -> SoundRow]
      /\ models' \in [Instances -> ModelStates]
      /\ owed' = owed /\ calls' = calls
  BY <1>1, WriteBackKeeps DEF PassEnd
<1>3. ControlOK'
  BY <1>1, <1>2, OneIsInstance
     DEF ControlOK, PassEnd, Ends, GoTo, PCs, ModelStates
<1>4. CopiesOK'
  BY <1>1, <1>2, NoRowSound DEF CopiesOK, PassEnd, Ends
<1>5. QED
  BY <1>3, <1>4

LEMMA ReconcileEndKeeps ==
  ASSUME IInv, NEW t \in Clients, ReconcileEnd(t)
  PROVE  IInv'
<1> USE DEF IInv
<1>1. t \in Threads
  BY DEF Threads
<1>2. /\ rows' \in [Instances -> SoundRow]
      /\ models' \in [Instances -> ModelStates]
      /\ owed' = owed /\ calls' = calls
  BY <1>1, WriteBackKeeps DEF ReconcileEnd
<1>3. ControlOK'
  BY <1>1, <1>2, OneIsInstance
     DEF ControlOK, ReconcileEnd, Ends, GoTo, PCs, ModelStates
<1>4. CopiesOK'
  BY <1>1, <1>2, NoRowSound DEF CopiesOK, ReconcileEnd, Ends
<1>5. QED
  BY <1>3, <1>4

\* The steps that only end a call.
LEMMA EndKeeps ==
  ASSUME IInv, NEW t \in Clients, SummaryEnd(t) \/ ActionEnd(t)
  PROVE  IInv'
<1> USE DEF IInv
<1>1. t \in Threads
  BY DEF Threads
<1>2. ControlOK'
  BY <1>1, OneIsInstance
     DEF ControlOK, SummaryEnd, ActionEnd, Ends, GoTo, PCs, ModelStates
<1>3. CopiesOK'
  BY <1>1, NoRowSound DEF CopiesOK, SummaryEnd, ActionEnd, Ends
<1>4. QED
  BY <1>2, <1>3

LEMMA ActionBeginKeeps ==
  ASSUME IInv, NEW t \in Clients, ActionBegin(t)
  PROVE  IInv'
<1> USE DEF IInv
<1>1. t \in Threads /\ item[t] \in Instances
  BY DEF Threads, ControlOK
<1>2. WishesOf(t) \subseteq ModelStates
  BY <1>1, InputsAreKnown DEF WishesOf, ModelStates, ControlOK
<1>3. PICK d \in WishesOf(t) : /\ wish' = [wish EXCEPT ![t] = d]
                                /\ models' = [models EXCEPT ![item[t]] = d]
  BY DEF ActionBegin
<1>4. ControlOK'
  BY <1>1, <1>2, <1>3 DEF ControlOK, ActionBegin, GoTo, PCs
<1>5. CopiesOK'
  BY DEF CopiesOK, ActionBegin
<1>6. QED
  BY <1>4, <1>5

LEMMA RefreshBeginKeeps ==
  ASSUME IInv, NEW t \in Clients, RefreshBegin(t)
  PROVE  IInv'
<1> USE DEF IInv
<1>1. t \in Threads /\ models[item[t]] \in ModelStates
  BY DEF Threads, ControlOK
<1>2. ControlOK'
  BY <1>1 DEF ControlOK, RefreshBegin, GoTo, PCs, CallKinds
<1>3. CopiesOK'
  BY DEF CopiesOK, RefreshBegin
<1>4. QED
  BY <1>2, <1>3

LEMMA SyncReadKeeps ==
  ASSUME IInv, NEW t \in Clients, SyncRead(t)
  PROVE  IInv'
<1> USE DEF IInv
<1>1. t \in Threads /\ item[t] \in Instances
  BY DEF Threads, ControlOK
<1>2. ControlOK'
  BY <1>1 DEF ControlOK, SyncRead, GoTo, PCs
<1>3. CopiesOK'
  BY <1>1 DEF CopiesOK, SyncRead
<1>4. QED
  BY <1>2, <1>3

LEMMA SyncWriteKeeps ==
  ASSUME IInv, NEW t \in Clients, SyncWrite(t)
  PROVE  IInv'
<1> USE DEF IInv
<1>1. t \in Threads /\ item[t] \in Instances
  BY DEF Threads, ControlOK
<1>2. PICK ready \in Readiness, drift \in Drifts :
        rows' = [rows EXCEPT ![item[t]] = Synced(copy[t], wish[t], ready, drift)]
  BY DEF SyncWrite, Drifts
<1>3. copy[t] \in SoundRow /\ wish[t] \in ModelStates
  BY <1>1 DEF CopiesOK, ControlOK
<1>4. Synced(copy[t], wish[t], ready, drift) \in SoundRow
  BY <1>3, SyncedSound
<1>5. ControlOK'
  BY <1>1 DEF ControlOK, SyncWrite, GoTo, PCs
<1>6. rows' \in [Instances -> SoundRow]
  BY <1>1, <1>2, <1>4 DEF CopiesOK
<1>7. CopiesOK'
  BY <1>1, <1>6, NoRowSound DEF CopiesOK, SyncWrite
<1>8. QED
  BY <1>5, <1>7

LEMMA ActionResultKeeps ==
  ASSUME IInv, NEW t \in Clients, ActionResult(t)
  PROVE  IInv'
<1> USE DEF IInv
<1>1. t \in Threads /\ item[t] \in Instances
  BY DEF Threads, ControlOK
<1>2. ControlOK'
  BY <1>1 DEF ControlOK, ActionResult, Following, GoTo, PCs
<1>3. CopiesOK'
  BY DEF CopiesOK, ActionResult
<1>4. QED
  BY <1>2, <1>3

LEMMA NextKeeps == IInv /\ [Next]_vars => IInv'
<1> SUFFICES ASSUME IInv, [Next]_vars PROVE IInv'
  OBVIOUS
<1>1. CASE PassStep
  <2>1. Loop \in Threads
    BY DEF Threads
  <2>2. CASE PassBegin
    BY <2>2, PassBeginKeeps
  <2>3. CASE \E signals \in Signals : Evaluate(Loop, signals)
    BY <2>1, <2>3, EvaluateKeeps
  <2>4. CASE \E j \in Instances : Release(Loop, j)
    BY <2>1, <2>4, ReleaseKeeps
  <2>5. CASE PassNext
    BY <2>5, PassNextKeeps
  <2>6. CASE PassEnd
    BY <2>6, PassEndKeeps
  <2>7. QED
    BY <1>1, <2>2, <2>3, <2>4, <2>5, <2>6 DEF PassStep
<1>2. ASSUME NEW t \in Clients, ClientStep(t)
      PROVE  IInv'
  <2>1. t \in Threads
    BY DEF Threads
  <2>2. CASE \E o \in Reports : ReportWrite(t, o)
    BY <2>2, ReportWriteKeeps
  <2>3. CASE \E signals \in Signals : Evaluate(t, signals)
    BY <2>1, <2>3, EvaluateKeeps
  <2>4. CASE \E j \in Instances : Release(t, j)
    BY <2>1, <2>4, ReleaseKeeps
  <2>5. CASE ReconcileEnd(t)
    BY <2>5, ReconcileEndKeeps
  <2>6. CASE SummaryEnd(t) \/ ActionEnd(t)
    BY <2>6, EndKeeps
  <2>7. CASE ActionBegin(t)
    BY <2>7, ActionBeginKeeps
  <2>8. CASE SyncRead(t)
    BY <2>8, SyncReadKeeps
  <2>9. CASE SyncWrite(t)
    BY <2>9, SyncWriteKeeps
  <2>10. CASE ActionResult(t)
    BY <2>10, ActionResultKeeps
  <2>11. CASE RefreshBegin(t)
    BY <2>11, RefreshBeginKeeps
  <2>12. QED
    BY <1>2, <2>2, <2>3, <2>4, <2>5, <2>6, <2>7, <2>8, <2>9, <2>10, <2>11
       DEF ClientStep
<1>3. CASE \E t \in Clients, k \in Kinds, i \in Instances : Call(t, k, i)
  BY <1>3, CallKeeps
<1>4. CASE \E t \in Clients : Acquire(t)
  BY <1>4, AcquireKeeps
<1>5. CASE UNCHANGED vars
  BY <1>5 DEF vars, IInv, ControlOK, CopiesOK
<1>6. QED
  BY <1>1, <1>2, <1>3, <1>4, <1>5 DEF Next

LEMMA Invariance == Spec => []IInv
BY InitOK, NextKeeps, PTL DEF Spec

-----------------------------------------------------------------------------
(* Theorems.                                                               *)

(***************************************************************************)
(* Types: no interleaving of the loop, the callers and the reports stores  *)
(* a row with a state, a plan or a drift reason outside of what the        *)
(* program knows.                                                          *)
(***************************************************************************)
THEOREM ReconcileTypes == Spec => []TypeOK
<1>1. IInv => TypeOK
  BY DEF IInv, ControlOK, CopiesOK, TypeOK, SoundRow
<1>2. QED
  BY <1>1, Invariance, PTL

(***************************************************************************)
(* A gated instance is never shown as ready, and its drift says why,       *)
(* however many callers write rows they read at any time before.           *)
(***************************************************************************)
THEOREM GatedStaysExplained == Spec => []GatedIsExplained
<1>1. IInv => GatedIsExplained
  BY DEF IInv, CopiesOK, GatedIsExplained, SoundRow, Explained
<1>2. QED
  BY <1>1, Invariance, PTL

(***************************************************************************)
(* The plan of every row is the one its gating led to, or the release plan *)
(* of a rival, also where the row is an old copy written back.             *)
(***************************************************************************)
THEOREM PlansMatchGating == Spec => []PlanMatchesGating
<1>1. IInv => PlanMatchesGating
  BY DEF IInv, CopiesOK, PlanMatchesGating, SoundRow, PlanFollows
<1>2. QED
  BY <1>1, Invariance, PTL

-----------------------------------------------------------------------------
(* What one reconcile decides, decided again.                              *)

(***************************************************************************)
(* A reconcile of an instance changes nothing the second time, as long as  *)
(* the rows of the others, the request and the agent's signals are what    *)
(* they were: gating, plan, readiness and drift, the last of which is      *)
(* computed from a row that has some of them already, do not oscillate of  *)
(* themselves.                                                             *)
(***************************************************************************)
THEOREM ReconcileIsStable ==
  ASSUME NEW i \in Instances, NEW row \in Row, NEW table \in [Instances -> Row],
         NEW trigger, NEW signals,
         NEW once, once = Reconciled(i, row, table, trigger, signals)
  PROVE  Reconciled(i, once, [table EXCEPT ![i] = once], trigger, signals) = once
<1> DEFINE held == Held(i, row, table, trigger, signals)
           next == [table EXCEPT ![i] = once]
<1>1. PICK ready : ready = ReadyAfter(row, held)
  OBVIOUS
<1>2. PICK drift : drift = DriftAfter(row, held, trigger, signals)
  OBVIOUS
<1>3. PICK gating : gating = GatingOf(i, row, table, trigger, signals)
  OBVIOUS
<1>4. PICK plan : plan = PlanOf(i, row, table, trigger, signals)
  OBVIOUS
<1>5. once = [row EXCEPT !.gating = gating, !.plan = plan, !.ready = ready, !.drift = drift]
  BY <1>1, <1>2, <1>3, <1>4 DEF Reconciled
<1>6. /\ once = [desired |-> row.desired, observed |-> row.observed, ready |-> ready,
                 drift |-> drift, precheck |-> row.precheck, gating |-> gating,
                 plan |-> plan]
      /\ once.desired = row.desired /\ once.observed = row.observed
      /\ once.precheck = row.precheck /\ once.ready = ready /\ once.drift = drift
  BY <1>5 DEF Row
<1>7. /\ WantsLoad(once, trigger) = WantsLoad(row, trigger)
      /\ WantsUnload(once, trigger) = WantsUnload(row, trigger)
  BY <1>6 DEF WantsLoad, WantsUnload
<1>8. \A k \in Instances \ {i} : next[k] = table[k]
  OBVIOUS
<1> HIDE DEF next
<1>9. Rivals(i, next) = Rivals(i, table)
  BY <1>8 DEF Rivals
<1>10. /\ KindRivals(i, once, next, trigger) = KindRivals(i, row, table, trigger)
       /\ PortRivals(i, next) = PortRivals(i, table)
  <2>1. /\ \A k \in Rivals(i, table) : next[k] = table[k]
        /\ once.observed = row.observed /\ once.desired = row.desired
    BY <1>6, <1>8 DEF Rivals
  <2>2. QED
    BY <1>7, <1>9, <2>1 DEF KindRivals, PortRivals
<1>11. Held(i, once, next, trigger, signals) = held
  BY <1>6, <1>7, <1>10 DEF Held
<1>12. GatingOf(i, once, next, trigger, signals) = gating
  BY <1>3, <1>10, <1>11 DEF GatingOf
<1>13. PlanOf(i, once, next, trigger, signals) = plan
  BY <1>3, <1>4, <1>7, <1>11, <1>12 DEF PlanOf
<1> HIDE DEF held
<1>14. ReadyAfter(once, held) = ready
  BY <1>1, <1>6 DEF ReadyAfter, RunningReady
<1>15. DriftAfter(once, held, trigger, signals) = drift
  <2>1. WantsLoad(row, trigger) \in BOOLEAN
    BY DEF WantsLoad
  <2>2. PICK agent \in BOOLEAN :
          agent = (\/ "stale" \in signals
                   \/ "offline" \in signals /\ WantsLoad(row, trigger))
    OBVIOUS
  <2>3. drift = IF row.desired = "running" /\ agent
                THEN FirstReason(StateDrift(row, held), "agent") ELSE StateDrift(row, held)
    BY <1>2, <2>2 DEF DriftAfter
  <2>4. DriftAfter(once, held, trigger, signals) =
          IF row.desired = "running" /\ agent
          THEN FirstReason(StateDrift(once, held), "agent") ELSE StateDrift(once, held)
    BY <1>6, <1>7, <2>2 DEF DriftAfter
  <2>5. QED
    BY <1>1, <1>6, <2>3, <2>4 DEF StateDrift, FirstReason, ReadyAfter, RunningReady
<1>16. Reconciled(i, once, next, trigger, signals) =
         [once EXCEPT !.gating = gating, !.plan = plan, !.ready = ready, !.drift = drift]
  BY <1>11, <1>12, <1>13, <1>14, <1>15 DEF Reconciled
<1>17. QED
  BY <1>6, <1>16 DEF next

-----------------------------------------------------------------------------
(* Two rivals that defer each other.                                       *)

\* Two instances of one kind on one node, and no third.
OnlyRivals(i, j) ==
  /\ i < j /\ NodeOf[i] = NodeOf[j] /\ KindOf[i] = KindOf[j]
  /\ \A k \in Instances \ {i, j} : ~(NodeOf[k] = NodeOf[i] /\ KindOf[k] = KindOf[i])

\* Meant to run and not running.
Due(row) == row.desired = "running" /\ row.observed # "running"

\* Between two passes of the loop both wait, one of them deferred.
BothWait(i, j) ==
  /\ pc[Loop] = "idle" /\ item[Loop] = 1
  /\ Due(rows[i]) /\ Due(rows[j])
  /\ rows[i].plan # Granted /\ rows[j].plan = Deferred

\* Neither runs or is granted its start.
NeitherGoes(i, j) ==
  /\ rows[i].observed # "running" /\ rows[j].observed # "running"
  /\ rows[i].plan # Granted /\ rows[j].plan # Granted

\* Where the loop is in its pass, and whose deferral keeps the other from going:
\* that of j until the row of i is written, that of i until the row of j is.
Places(i, j) ==
  IF pc[Loop] = "idle" THEN item[Loop] = 1 /\ rows[j].plan = Deferred
  ELSE /\ pc[Loop] \in {"evaluate", "release"} /\ kind[Loop] = "pass"
       /\ Due(list[i]) /\ Due(list[j])
       /\ item[Loop] \in {i, j} => Due(copy[Loop])
       /\ \/ item[Loop] < i /\ rows[j].plan = Deferred
          \/ item[Loop] = i /\ pc[Loop] = "evaluate" /\ rows[j].plan = Deferred
          \/ item[Loop] = i /\ pc[Loop] = "release" /\ copy[Loop].plan = Deferred
          \/ item[Loop] > i /\ item[Loop] < j /\ rows[i].plan = Deferred
          \/ item[Loop] = j /\ pc[Loop] = "evaluate" /\ rows[i].plan = Deferred
          \/ item[Loop] = j /\ pc[Loop] = "release" /\ copy[Loop].plan = Deferred
          \/ item[Loop] > j /\ rows[j].plan = Deferred
       /\ pc[Loop] = "release" /\ item[Loop] \notin {i, j} => owed[Loop] \cap {i, j} = {}

Deadlocked(i, j) ==
  /\ Due(rows[i]) /\ Due(rows[j])
  /\ rows[i].plan # Granted /\ rows[j].plan # Granted
  /\ Places(i, j)

\* A rival that is deferred has the slot: who wants it is deferred as well.
LEMMA RivalDefers ==
  ASSUME NEW i \in Instances, NEW j \in Instances, i # j,
         NodeOf[i] = NodeOf[j], KindOf[i] = KindOf[j],
         NEW row \in Row, Due(row), NEW table, table[j].plan = Deferred, NEW signals
  PROVE  /\ Reconciled(i, row, table, "pass", signals).plan = Deferred
         /\ Due(Reconciled(i, row, table, "pass", signals))
<1>1. WantsLoad(row, "pass") /\ ~WantsUnload(row, "pass")
  BY DEF WantsLoad, WantsUnload, Due
<1>2. j \in KindRivals(i, row, table, "pass")
  BY DEF KindRivals, Rivals, Occupying, Due
<1>3. Held(i, row, table, "pass", signals)
  BY <1>1, <1>2 DEF Held
<1>4. GatingOf(i, row, table, "pass", signals) = "deferred"
  <2>1. KindRivals(i, row, table, "pass") # {}
    BY <1>2
  <2>2. QED
    BY <1>3, <2>1 DEF GatingOf
<1>5. PlanOf(i, row, table, "pass", signals) = Deferred
  <2>1. PICK status : status = IF Held(i, row, table, "pass", signals)
                               THEN GatingOf(i, row, table, "pass", signals) ELSE "planned"
    OBVIOUS
  <2>2. PlanOf(i, row, table, "pass", signals) = [action |-> "load", status |-> status]
    BY <1>1, <2>1 DEF PlanOf
  <2>3. QED
    BY <1>3, <1>4, <2>1, <2>2 DEF Deferred
<1>6. QED
  BY <1>5 DEF Reconciled, Row, Due

LEMMA DeadlockBegins ==
  ASSUME NEW i \in Instances, NEW j \in Instances, OnlyRivals(i, j), IInv,
         Deadlocked(i, j), PassBegin
  PROVE  Deadlocked(i, j)'
<1>1. /\ item[Loop] = 1 /\ rows[j].plan = Deferred /\ Due(rows[i]) /\ Due(rows[j])
      /\ rows[i].plan # Granted
  BY DEF Deadlocked, Places, PassBegin
<1>2. /\ pc'[Loop] = "evaluate" /\ kind'[Loop] = "pass" /\ copy'[Loop] = rows[1]
      /\ rows' = rows /\ list' = rows /\ item' = item
  BY DEF PassBegin, GoTo, IInv, ControlOK, CopiesOK, Threads
<1>3. i \in Nat /\ j \in Nat /\ 1 <= i /\ i < j
  BY NumInstancesIsPositive DEF Instances, OnlyRivals
<1>4. QED
  BY <1>1, <1>2, <1>3 DEF Deadlocked, Places, Deferred, Granted

LEMMA DeadlockEvaluates ==
  ASSUME NEW i \in Instances, NEW j \in Instances, OnlyRivals(i, j), IInv,
         Deadlocked(i, j), NEW signals, Evaluate(Loop, signals)
  PROVE  Deadlocked(i, j)'
<1> DEFINE at == item[Loop]
<1>1. /\ at \in Instances /\ copy[Loop] \in Row /\ Loop \in Threads
  BY SoundRowIsRow DEF IInv, ControlOK, CopiesOK, Threads
<1>2. PICK row : row = Reconciled(at, copy[Loop], rows, "pass", signals)
  OBVIOUS
<1>3. PICK targets : targets = ReleaseTargets(at, copy[Loop], rows, "pass", signals)
  OBVIOUS
<1>4. /\ pc[Loop] = "evaluate" /\ kind[Loop] = "pass"
      /\ Due(rows[i]) /\ Due(rows[j]) /\ Due(list[i]) /\ Due(list[j])
      /\ rows[i].plan # Granted /\ rows[j].plan # Granted
      /\ at \in {i, j} => Due(copy[Loop])
      /\ \/ at < i /\ rows[j].plan = Deferred
         \/ at = i /\ rows[j].plan = Deferred
         \/ at > i /\ at < j /\ rows[i].plan = Deferred
         \/ at = j /\ rows[i].plan = Deferred
         \/ at > j /\ rows[j].plan = Deferred
  BY DEF Deadlocked, Places, Evaluate
<1>5. /\ pc'[Loop] = "release" /\ copy'[Loop] = row /\ owed'[Loop] = targets
      /\ rows' = rows /\ list' = list /\ item' = item /\ kind' = kind
  BY <1>1, <1>2, <1>3, <1>4 DEF Evaluate, GoTo, IInv, ControlOK, CopiesOK
<1>6. i \in Nat /\ j \in Nat /\ at \in Nat /\ i < j
  BY <1>1, NumInstancesIsPositive DEF Instances, OnlyRivals
<1>7. CASE at \in {i, j}
  <2>1. at = i => rows[j].plan = Deferred
    BY <1>4, <1>6
  <2>2. at = j => rows[i].plan = Deferred
    BY <1>4, <1>6
  <2>3. row.plan = Deferred /\ Due(row)
    BY <1>1, <1>2, <1>4, <1>6, <1>7, <2>1, <2>2, RivalDefers DEF OnlyRivals
  <2>4. QED
    BY <1>4, <1>5, <1>6, <1>7, <2>3 DEF Deadlocked, Places
<1>8. CASE at \notin {i, j}
  <2>1. targets \cap {i, j} = {}
    <3>1. \A k \in targets : NodeOf[k] = NodeOf[at] /\ KindOf[k] = KindOf[at]
      BY <1>3 DEF ReleaseTargets, KindRivals, Rivals
    <3>2. ~(NodeOf[at] = NodeOf[i] /\ KindOf[at] = KindOf[i])
      BY <1>1, <1>8 DEF OnlyRivals
    <3>3. QED
      BY <3>1, <3>2 DEF OnlyRivals
  <2>2. QED
    BY <1>4, <1>5, <1>6, <1>8, <2>1 DEF Deadlocked, Places
<1>9. QED
  BY <1>7, <1>8

LEMMA DeadlockReleases ==
  ASSUME NEW i \in Instances, NEW j \in Instances, OnlyRivals(i, j), IInv,
         Deadlocked(i, j), NEW k \in Instances, Release(Loop, k)
  PROVE  Deadlocked(i, j)'
<1>1. /\ pc[Loop] = "release" /\ k \in owed[Loop] /\ pc' = pc /\ kind' = kind
      /\ item' = item /\ copy' = copy /\ list' = list
      /\ rows' = [rows EXCEPT ![k].plan = Unload]
      /\ owed' = [owed EXCEPT ![Loop] = @ \ {k}]
  BY DEF Release
<1>2. owed[Loop] \in SUBSET Instances /\ owed'[Loop] \subseteq owed[Loop]
  BY <1>1 DEF IInv, ControlOK, Threads
<1>3. Unload # Granted /\ Unload # Deferred
  BY DEF Unload, Granted, Deferred
<1>4. \A n \in {i, j} :
        /\ rows'[n].desired = rows[n].desired /\ rows'[n].observed = rows[n].observed
        /\ rows'[n].plan = IF n = k THEN Unload ELSE rows[n].plan
  BY <1>1, SoundRowIsRow DEF IInv, CopiesOK, Row
<1>5. Due(rows'[i]) /\ Due(rows'[j]) /\ rows'[i].plan # Granted /\ rows'[j].plan # Granted
  BY <1>3, <1>4 DEF Deadlocked, Due
<1>6. CASE item[Loop] \in {i, j}
  BY <1>1, <1>5, <1>6, NumInstancesIsPositive
     DEF Deadlocked, Places, Instances, OnlyRivals
<1>7. CASE item[Loop] \notin {i, j}
  <2>1. k \notin {i, j}
    BY <1>1, <1>7 DEF Deadlocked, Places
  <2>2. rows'[i].plan = rows[i].plan /\ rows'[j].plan = rows[j].plan
    BY <1>4, <2>1
  <2>3. QED
    BY <1>1, <1>2, <1>5, <1>7, <2>2 DEF Deadlocked, Places
<1>8. QED
  BY <1>6, <1>7

\* The loop writes a row and goes on to the next, or ends.
LEMMA DeadlockGoesOn ==
  ASSUME NEW i \in Instances, NEW j \in Instances, OnlyRivals(i, j), IInv,
         Deadlocked(i, j), PassNext \/ PassEnd
  PROVE  Deadlocked(i, j)'
<1> DEFINE at == item[Loop]
<1>1. at \in Instances /\ Loop \in Threads
  BY DEF IInv, ControlOK, Threads
<1>2. PICK row : row = copy[Loop]
  OBVIOUS
<1>3. pc[Loop] = "release" /\ rows' = [rows EXCEPT ![at] = row]
  BY <1>2 DEF PassNext, PassEnd, WriteBack
<1>4. \A n \in {i, j} : rows'[n] = IF n = at THEN row ELSE rows[n]
  BY <1>3 DEF IInv, CopiesOK
<1>5. i \in Nat /\ j \in Nat /\ at \in Nat /\ i < j /\ j <= NumInstances /\ NumInstances \in Nat
  BY <1>1, NumInstancesIsPositive DEF Instances, OnlyRivals
<1>6. Deferred # Granted
  BY DEF Deferred, Granted
<1>7. at \in {i, j} => row.plan = Deferred /\ Due(row)
  BY <1>2, <1>3, <1>5 DEF Deadlocked, Places
<1>8. Due(rows'[i]) /\ Due(rows'[j]) /\ rows'[i].plan # Granted /\ rows'[j].plan # Granted
  BY <1>4, <1>6, <1>7 DEF Deadlocked
<1>9. /\ at < i => rows'[j].plan = Deferred
      /\ at >= i /\ at < j => rows'[i].plan = Deferred
      /\ at >= j => rows'[j].plan = Deferred
  BY <1>3, <1>4, <1>5, <1>7 DEF Deadlocked, Places
<1>10. CASE PassNext
  <2>1. /\ pc'[Loop] = "evaluate" /\ kind' = kind /\ list' = list
        /\ item'[Loop] = at + 1 /\ copy'[Loop] = list[at + 1]
    BY <1>1, <1>10 DEF PassNext, GoTo, IInv, ControlOK, CopiesOK
  <2>2. /\ kind[Loop] = "pass" /\ Due(list[i]) /\ Due(list[j])
    BY <1>3 DEF Deadlocked, Places
  <2>3. \/ at + 1 < i /\ rows'[j].plan = Deferred
        \/ at + 1 = i /\ rows'[j].plan = Deferred
        \/ at + 1 > i /\ at + 1 < j /\ rows'[i].plan = Deferred
        \/ at + 1 = j /\ rows'[i].plan = Deferred
        \/ at + 1 > j /\ rows'[j].plan = Deferred
    BY <1>5, <1>9
  <2>4. QED
    BY <1>8, <2>1, <2>2, <2>3 DEF Deadlocked, Places
<1>11. CASE PassEnd
  <2>1. pc'[Loop] = "idle" /\ item'[Loop] = 1 /\ at = NumInstances
    BY <1>1, <1>11 DEF PassEnd, Ends, GoTo, IInv, ControlOK
  <2>2. QED
    BY <1>5, <1>8, <1>9, <2>1 DEF Deadlocked, Places
<1>12. QED
  BY <1>10, <1>11

LEMMA DeadlockStays ==
  ASSUME NEW i \in Instances, NEW j \in Instances, OnlyRivals(i, j)
  PROVE  IInv /\ Deadlocked(i, j) /\ [PassStep]_vars => Deadlocked(i, j)'
<1> SUFFICES ASSUME IInv, Deadlocked(i, j), [PassStep]_vars PROVE Deadlocked(i, j)'
  OBVIOUS
<1>1. CASE PassBegin
  BY <1>1, DeadlockBegins
<1>2. CASE \E signals \in Signals : Evaluate(Loop, signals)
  BY <1>2, DeadlockEvaluates
<1>3. CASE \E k \in Instances : Release(Loop, k)
  BY <1>3, DeadlockReleases
<1>4. CASE PassNext \/ PassEnd
  BY <1>4, DeadlockGoesOn
<1>5. CASE UNCHANGED vars
  BY <1>5 DEF vars, Deadlocked, Places
<1>6. QED
  BY <1>1, <1>2, <1>3, <1>4, <1>5 DEF PassStep

(***************************************************************************)
(* Why deferrals need not end: once both of two rivals are wanted, neither *)
(* runs and one is deferred, the loop alone never lets either of them go,  *)
(* in however many passes and whatever it finds out about the agents: each *)
(* pass defers the first because of the second and the second because of   *)
(* the first.  Neither runs all that time, and yet each waits for the      *)
(* other to stop.                                                          *)
(***************************************************************************)
THEOREM DeferralsNeverEnd ==
  ASSUME NEW i \in Instances, NEW j \in Instances, OnlyRivals(i, j)
  PROVE  IInv /\ BothWait(i, j) /\ [][PassStep]_vars => []NeitherGoes(i, j)
<1>1. IInv /\ [PassStep]_vars => IInv'
  BY NextKeeps DEF Next
<1>2. BothWait(i, j) => Deadlocked(i, j)
  BY DEF BothWait, Deadlocked, Places, Deferred, Granted
<1>3. Deadlocked(i, j) => NeitherGoes(i, j)
  BY DEF Deadlocked, NeitherGoes, Due
<1>4. IInv /\ Deadlocked(i, j) /\ [PassStep]_vars => Deadlocked(i, j)'
  BY DeadlockStays
<1>5. QED
  BY <1>1, <1>2, <1>3, <1>4, PTL

=============================================================================
