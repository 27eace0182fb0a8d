--------------------------- MODULE TestRunsProofs ---------------------------
(***************************************************************************)
(* Theorems about test runs, for any number of runs and faults, and for    *)
(* whichever of the scenarios are asked for.                               *)
(***************************************************************************)
EXTENDS TestRuns, TLAPS

Scenarios == Subscenarios \cup {"full"}

ConstantsOK == Offered \subseteq Scenarios /\ MaxFaults \in Nat

\* A run at work is at a step of its scenario, recorded as running.
Placed(r) ==
  Active(r) =>
    /\ at[r].phase \in 1..Len(Phases(scenario[r]))
    /\ at[r].step \in 1..Len(StepsOf[PhaseOf(r)])
    /\ record[r] = "running" /\ r \notin lost

\* A task belongs to the step the run is at.
Tasked(r) == task[r] # "none" => Active(r) /\ StepOf(r) \in TaskSteps

\* After an error only the restore is left, and a run that started what it
\* wanted blocked has failed.
Failed(r) ==
  /\ failing[r] => record[r] \in {"running", "failed"}
  /\ failing[r] /\ Active(r) => StepOf(r) = "restore"
  /\ stray[r] => failing[r]

\* What the runs would put back is what the operator wants.
BindingOK ==
  ~harmed =>
    /\ \A r \in Runs : Holding(r) => saved[r] = wanted
    /\ binding = wanted \/ \E r \in Runs : Holding(r)

\* A run that is alone has no other beside it, so what its own precheck has
\* blocked is blocked when it tries to start it.
Lonely(r) ==
  alone[r] =>
    /\ \A q \in Runs \ {r} : Over(q)
    /\ On(r, "nostart") => gated
    /\ ~stray[r]

\* The inductive invariant.
RunsOK == \A r \in Runs : Placed(r) /\ Tasked(r) /\ Failed(r) /\ Lonely(r)
RInv == TypeOK /\ RunsOK /\ BindingOK

-----------------------------------------------------------------------------
(* Scenarios and their steps.                                              *)

LEMMA PhasesAre ==
  ASSUME NEW s \in Scenarios
  PROVE  /\ Len(Phases(s)) \in 1..4
         /\ \A i \in 1..Len(Phases(s)) : Phases(s)[i] \in Subscenarios
  BY DEF Phases, Scenarios, Subscenarios

LEMMA StepsAre ==
  ASSUME NEW p \in Subscenarios
  PROVE  /\ Len(StepsOf[p]) \in 1..8
         /\ p = "gating" <=> Len(StepsOf[p]) = 8
         /\ \A i \in 1..Len(StepsOf[p]) :
              /\ StepsOf[p][i] = "clone" <=> p = "gating" /\ i = 2
              /\ StepsOf[p][i] = "mutate" <=> p = "gating" /\ i = 3
              /\ StepsOf[p][i] = "verify" <=> p = "gating" /\ i = 6
              /\ StepsOf[p][i] = "nostart" <=> p = "gating" /\ i = 7
              /\ StepsOf[p][i] = "restore" <=> p = "gating" /\ i = 8
<1>1. CASE p = "stage0"
  BY <1>1 DEF StepsOf
<1>2. CASE p = "local"
  BY <1>2 DEF StepsOf
<1>3. CASE p = "e5"
  BY <1>3 DEF StepsOf
<1>4. CASE p = "gating"
  BY <1>4 DEF StepsOf
<1>5. QED
  BY <1>1, <1>2, <1>3, <1>4 DEF Subscenarios

\* Where a run at work is.
LEMMA PlaceIs ==
  ASSUME TypeOK, NEW r \in Runs, Placed(r), Active(r)
  PROVE  /\ PhaseOf(r) \in Subscenarios
         /\ at[r].phase \in 1..4 /\ at[r].step \in 1..8
         /\ StepOf(r) = "clone" <=> PhaseOf(r) = "gating" /\ at[r].step = 2
         /\ StepOf(r) = "mutate" <=> PhaseOf(r) = "gating" /\ at[r].step = 3
         /\ StepOf(r) = "verify" <=> PhaseOf(r) = "gating" /\ at[r].step = 6
         /\ StepOf(r) = "nostart" <=> PhaseOf(r) = "gating" /\ at[r].step = 7
         /\ StepOf(r) = "restore" <=> PhaseOf(r) = "gating" /\ at[r].step = 8
<1>1. scenario[r] \in Scenarios
  BY DEF TypeOK, Scenarios
<1>2. PhaseOf(r) \in Subscenarios /\ at[r].phase \in 1..4
  BY <1>1, PhasesAre DEF Placed, PhaseOf
<1>3. at[r].step \in 1..Len(StepsOf[PhaseOf(r)])
  BY DEF Placed
<1>4. at[r].step \in 1..8
  BY <1>2, <1>3, StepsAre
<1>5. QED
  BY <1>2, <1>3, <1>4, StepsAre DEF StepOf

-----------------------------------------------------------------------------
(* A run goes on.                                                          *)

\* A step that passes, which it does only without an error, or fails.
Moves(r) == (Passes(r) /\ ~failing[r]) \/ Fails(r)

\* Where the run can be afterwards.
ToNextStep(r) ==
  /\ at[r].step < Len(StepsOf[PhaseOf(r)])
  /\ at'[r] = [at[r] EXCEPT !.step = @ + 1]
  /\ record'[r] = record[r] /\ lost' = lost
ToNextPhase(r) ==
  /\ at[r].step = Len(StepsOf[PhaseOf(r)]) /\ at[r].phase < Len(Phases(scenario[r]))
  /\ at'[r] = [phase |-> at[r].phase + 1, step |-> 1]
  /\ record'[r] = record[r] /\ lost' = lost
ToRestore(r) ==
  /\ Holding(r) /\ StepOf(r) # "restore"
  /\ at'[r] = [at[r] EXCEPT !.step = 8]
  /\ record'[r] = record[r] /\ lost' = lost
ToEnd(r, status) ==
  /\ Holding(r) => StepOf(r) = "restore"
  /\ at'[r] = None
  /\ record'[r] \in {status, record[r]}

LEMMA GatingHasEight == Len(StepsOf["gating"]) = 8
  BY DEF StepsOf

LEMMA FinishEnds ==
  ASSUME TypeOK, NEW r \in Runs, NEW status \in {"success", "failed"}, Finish(r, status)
  PROVE  /\ at' = [at EXCEPT ![r] = None]
         /\ \/ record' = [record EXCEPT ![r] = status] /\ lost' = lost
            \/ record' = record /\ lost' = lost \cup {r}
  BY DEF Finish

LEMMA PassGoesTo ==
  ASSUME RInv, NEW r \in Runs, Active(r), Passes(r), ~failing[r]
  PROVE  ToNextStep(r) \/ ToNextPhase(r) \/ ToEnd(r, "success")
<1> USE DEF RInv, RunsOK
<1>1. at \in [Runs -> [phase : 0..4, step : 0..8]]
  BY DEF TypeOK
<1>2. CASE at[r].step < Len(StepsOf[PhaseOf(r)])
  <2>1. at' = [at EXCEPT ![r].step = @ + 1] /\ UNCHANGED <<record, lost>>
    BY <1>2 DEF Passes, Advance
  <2>2. QED
    BY <1>1, <1>2, <2>1 DEF ToNextStep
<1>3. CASE /\ at[r].step = Len(StepsOf[PhaseOf(r)])
           /\ at[r].phase < Len(Phases(scenario[r]))
  <2>1. /\ at' = [at EXCEPT ![r] = [phase |-> at[r].phase + 1, step |-> 1]]
        /\ UNCHANGED <<record, lost>>
    BY <1>3 DEF Passes, Advance
  <2>2. QED
    BY <1>1, <1>3, <2>1 DEF ToNextPhase
<1>4. CASE ~(at[r].step < Len(StepsOf[PhaseOf(r)])) /\
           ~(/\ at[r].step = Len(StepsOf[PhaseOf(r)])
             /\ at[r].phase < Len(Phases(scenario[r])))
  <2>1. Finish(r, "success")
    BY <1>4 DEF Passes, Advance
  <2>2. /\ at'[r] = None
        /\ record'[r] = "success" \/ record'[r] = record[r]
    BY <1>1, <2>1, FinishEnds DEF TypeOK
  <2>3. Holding(r) => StepOf(r) = "restore"
    <3>1. SUFFICES ASSUME PhaseOf(r) = "gating" PROVE StepOf(r) = "restore"
      BY DEF Holding
    <3>2. at[r].step \in 1..8 /\ ~(at[r].step < 8)
      BY <1>4, <3>1, GatingHasEight, PlaceIs
    <3>3. QED
      BY <3>1, <3>2, PlaceIs
  <2>4. QED
    BY <2>2, <2>3 DEF ToEnd
<1>5. QED
  BY <1>2, <1>3, <1>4

LEMMA FailGoesTo ==
  ASSUME RInv, NEW r \in Runs, Active(r), Fails(r)
  PROVE  ToRestore(r) \/ ToEnd(r, "failed")
<1> USE DEF RInv, RunsOK
<1>1. at \in [Runs -> [phase : 0..4, step : 0..8]]
  BY DEF TypeOK
<1>2. CASE Holding(r) /\ StepOf(r) # "restore"
  <2>1. at' = [at EXCEPT ![r].step = 8] /\ UNCHANGED <<record, lost>>
    BY <1>2, GatingHasEight DEF Fails
  <2>2. QED
    BY <1>1, <1>2, <2>1 DEF ToRestore
<1>3. CASE ~(Holding(r) /\ StepOf(r) # "restore")
  <2>1. Finish(r, "failed")
    BY <1>3 DEF Fails
  <2>2. /\ at'[r] = None
        /\ record'[r] = "failed" \/ record'[r] = record[r]
    BY <1>1, <2>1, FinishEnds DEF TypeOK
  <2>3. QED
    BY <1>3, <2>2 DEF ToEnd
<1>4. QED
  BY <1>2, <1>3

LEMMA NextIsPlace ==
  /\ \A k, n \in 1..8 : k < n => k + 1 \in 0..8
  /\ \A k, n \in 1..4 : k < n => k + 1 \in 0..4
  OBVIOUS

\* Other runs stay where they are, and the variables keep their types.
LEMMA MoveFrame ==
  ASSUME ConstantsOK, RInv, NEW r \in Runs, Active(r), Moves(r)
  PROVE  /\ record' \in [Runs -> {"none", "pending", "running", "success", "failed"}]
         /\ at' \in [Runs -> [phase : 0..4, step : 0..8]]
         /\ failing' \in [Runs -> BOOLEAN] /\ lost' \subseteq Runs
         /\ faults' \in 0..MaxFaults
         /\ \A q \in Runs \ {r} :
              /\ at'[q] = at[q] /\ record'[q] = record[q] /\ failing'[q] = failing[q]
              /\ q \in lost' <=> q \in lost
         /\ Fails(r) => failing'[r]
         /\ ~Fails(r) => ~failing'[r]
<1> USE DEF RInv, RunsOK, TypeOK
<1>1. at[r].phase \in 1..4 /\ at[r].step \in 1..8
  BY PlaceIs
<1>2. faults' \in 0..MaxFaults
  BY DEF Moves, Passes, Advance, Fails, Finish, Fault, ConstantsOK
<1>3. ASSUME NEW status \in {"success", "failed"}, Finish(r, status)
      PROVE  /\ record' \in [Runs -> {"none", "pending", "running", "success", "failed"}]
             /\ at' \in [Runs -> [phase : 0..4, step : 0..8]]
             /\ lost' \subseteq Runs
             /\ \A q \in Runs \ {r} :
                  at'[q] = at[q] /\ record'[q] = record[q] /\ (q \in lost' <=> q \in lost)
  <2>1. None \in [phase : 0..4, step : 0..8]
    BY DEF None
  <2>2. at' = [at EXCEPT ![r] = None]
    BY <1>3, FinishEnds
  <2>3. CASE record' = [record EXCEPT ![r] = status] /\ lost' = lost
    BY <2>1, <2>2, <2>3
  <2>4. CASE record' = record /\ lost' = lost \cup {r}
    BY <2>1, <2>2, <2>4
  <2>5. QED
    BY <1>3, <2>3, <2>4, FinishEnds
<1>4. CASE Fails(r)
  <2>1. failing' = [failing EXCEPT ![r] = TRUE]
    BY <1>4 DEF Fails
  <2>2. CASE Finish(r, "failed")
    BY <1>2, <1>3, <1>4, <2>1, <2>2
  <2>3. CASE at' = [at EXCEPT ![r].step = 8] /\ UNCHANGED <<record, lost>>
    <3>1. [at[r] EXCEPT !.step = 8] \in [phase : 0..4, step : 0..8]
      BY <1>1
    <3>2. QED
      BY <1>2, <1>4, <2>1, <2>3, <3>1
  <2>4. QED
    BY <1>4, <2>2, <2>3, GatingHasEight DEF Fails
<1>5. CASE Passes(r) /\ ~Fails(r)
  <2>1. failing' = failing /\ ~failing[r]
    BY <1>5 DEF Passes, Moves
  <2>2. CASE Finish(r, "success")
    BY <1>2, <1>3, <1>5, <2>1, <2>2
  <2>3. CASE /\ at[r].step < Len(StepsOf[PhaseOf(r)])
             /\ at' = [at EXCEPT ![r].step = @ + 1] /\ UNCHANGED <<record, lost>>
    <3>1. at[r].step + 1 \in 0..8
      <4>1. PhaseOf(r) \in Subscenarios
        BY PlaceIs
      <4>2. Len(StepsOf[PhaseOf(r)]) \in 1..8
        BY <4>1, StepsAre
      <4>3. QED
        BY <1>1, <2>3, <4>2, NextIsPlace
    <3>2. [at[r] EXCEPT !.step = @ + 1] \in [phase : 0..4, step : 0..8]
      BY <1>1, <3>1
    <3>3. QED
      BY <1>2, <1>5, <2>1, <2>3, <3>2
  <2>4. CASE /\ at[r].phase < Len(Phases(scenario[r]))
             /\ at' = [at EXCEPT ![r] = [phase |-> at[r].phase + 1, step |-> 1]]
             /\ UNCHANGED <<record, lost>>
    <3>1. Len(Phases(scenario[r])) \in 1..4
      <4>1. scenario[r] \in Scenarios
        BY DEF Scenarios
      <4>2. QED
        BY <4>1, PhasesAre
    <3>2. at[r].phase + 1 \in 0..4
      BY <1>1, <2>4, <3>1, NextIsPlace
    <3>3. [phase |-> at[r].phase + 1, step |-> 1] \in [phase : 0..4, step : 0..8]
      BY <3>2
    <3>4. QED
      BY <1>2, <1>5, <2>1, <2>4, <3>3
  <2>5. QED
    BY <1>5, <2>2, <2>3, <2>4 DEF Passes, Advance
<1>6. QED
  BY <1>4, <1>5 DEF Moves

\* What a run that goes on makes of itself.
Arrives(r) ==
  /\ Placed(r)'
  /\ failing'[r] =>
       record'[r] \in {"running", "failed"} /\ (Active(r)' => StepOf(r)' = "restore")
  /\ On(r, "nostart")' => StepOf(r) = "verify" /\ Passes(r)
  /\ Holding(r)' => Holding(r) \/ (StepOf(r) = "clone" /\ Passes(r))
  /\ Holding(r) => Holding(r)' \/ StepOf(r) = "restore"

LEMMA EndArrives ==
  ASSUME RInv, NEW r \in Runs, Active(r), scenario' = scenario,
         NEW status, ToEnd(r, status),
         failing'[r] => status = "failed"
  PROVE  Arrives(r)
<1>1. ~Active(r)'
  BY DEF ToEnd, Active, None
<1>2. record[r] = "running"
  BY DEF RInv, RunsOK, Placed
<1>3. QED
  BY <1>1, <1>2 DEF Arrives, Placed, On, Holding, ToEnd

LEMMA PassArrives ==
  ASSUME RInv, NEW r \in Runs, Active(r), scenario' = scenario, Passes(r), ~failing[r]
  PROVE  Arrives(r)
<1> USE DEF RInv, RunsOK
<1>1. ~failing'[r]
  BY DEF Passes
<1>2. /\ at[r].phase \in 1..4 /\ at[r].step \in 1..8
      /\ PhaseOf(r) \in Subscenarios
  BY PlaceIs
<1>3. /\ at[r].phase \in 1..Len(Phases(scenario[r]))
      /\ at[r].step \in 1..Len(StepsOf[PhaseOf(r)])
      /\ Len(StepsOf[PhaseOf(r)]) \in 1..8
      /\ Len(Phases(scenario[r])) \in 1..4
      /\ record[r] = "running" /\ r \notin lost
  <2>1. scenario[r] \in Scenarios
    BY DEF TypeOK, Scenarios
  <2>2. QED
    BY <1>2, <2>1, StepsAre, PhasesAre DEF Placed
<1>4. CASE ToNextStep(r)
  <2>1. /\ at'[r].phase = at[r].phase /\ at'[r].step = at[r].step + 1
        /\ at[r].step < Len(StepsOf[PhaseOf(r)])
        /\ record'[r] = "running" /\ r \notin lost'
    <3>1. at[r] \in [phase : 0..4, step : 0..8]
      BY DEF TypeOK
    <3>2. QED
      BY <1>3, <1>4, <3>1 DEF ToNextStep
  <2>2. PhaseOf(r)' = PhaseOf(r)
    BY <2>1 DEF PhaseOf
  <2>3. at[r].step + 1 \in 1..Len(StepsOf[PhaseOf(r)])
    BY <1>2, <1>3, <2>1
  <2>4. Placed(r)'
    BY <1>3, <2>1, <2>2, <2>3 DEF Placed
  <2>5. StepOf(r)' = StepsOf[PhaseOf(r)][at[r].step + 1]
    BY <2>1, <2>2 DEF StepOf
  <2>6. On(r, "nostart")' => StepOf(r) = "verify"
    <3>1. StepOf(r)' = "nostart" => PhaseOf(r) = "gating" /\ at[r].step + 1 = 7
      <4>1. \A i \in 1..Len(StepsOf[PhaseOf(r)]) :
              StepsOf[PhaseOf(r)][i] = "nostart" => PhaseOf(r) = "gating" /\ i = 7
        BY <1>2, StepsAre
      <4>2. QED
        BY <2>3, <2>5, <4>1
    <3>2. QED
      BY <1>2, <3>1, PlaceIs DEF On
  <2>7. Holding(r)' <=> PhaseOf(r) = "gating" /\ at[r].step + 1 > 2
    BY <1>2, <2>1, <2>2 DEF Holding, Active
  <2>8. Holding(r)' => Holding(r) \/ StepOf(r) = "clone"
    BY <1>2, <2>7, PlaceIs DEF Holding
  <2>9. Holding(r) => Holding(r)'
    BY <1>2, <2>7 DEF Holding
  <2>10. QED
    BY <1>1, <2>4, <2>6, <2>8, <2>9 DEF Arrives
<1>5. CASE ToNextPhase(r)
  <2>1. /\ at'[r].phase = at[r].phase + 1 /\ at'[r].step = 1
        /\ at[r].step = Len(StepsOf[PhaseOf(r)])
        /\ at[r].phase < Len(Phases(scenario[r]))
        /\ record'[r] = "running" /\ r \notin lost'
    BY <1>3, <1>5 DEF ToNextPhase
  <2>2. at[r].phase + 1 \in 1..Len(Phases(scenario[r]))
    BY <1>2, <1>3, <2>1
  <2>3. PhaseOf(r)' \in Subscenarios
    <3>1. scenario[r] \in Scenarios
      BY DEF TypeOK, Scenarios
    <3>2. QED
      BY <2>1, <2>2, <3>1, PhasesAre DEF PhaseOf
  <2>4. 1 \in 1..Len(StepsOf[PhaseOf(r)'])
    <3>1. Len(StepsOf[PhaseOf(r)']) \in 1..8
      BY <2>3, StepsAre
    <3>2. \A n \in 1..8 : 1 \in 1..n
      OBVIOUS
    <3>3. QED
      BY <3>1, <3>2
  <2>5. Placed(r)'
    BY <2>1, <2>2, <2>4 DEF Placed
  <2>6. ~On(r, "nostart")'
    <3>1. StepsOf[PhaseOf(r)'][1] # "nostart"
      BY <2>3, <2>4, StepsAre
    <3>2. QED
      BY <2>1, <3>1 DEF On, StepOf
  <2>7. ~Holding(r)'
    BY <2>1 DEF Holding
  <2>8. Holding(r) => StepOf(r) = "restore"
    BY <2>1, GatingHasEight, PlaceIs DEF Holding
  <2>9. QED
    BY <1>1, <2>5, <2>6, <2>7, <2>8 DEF Arrives
<1>6. QED
  BY <1>1, <1>4, <1>5, PassGoesTo, EndArrives

LEMMA FailArrives ==
  ASSUME RInv, NEW r \in Runs, Active(r), scenario' = scenario, Fails(r)
  PROVE  Arrives(r)
<1> USE DEF RInv, RunsOK
<1>1. CASE ToRestore(r)
  <2>1. /\ at'[r].phase = at[r].phase /\ at'[r].step = 8
        /\ PhaseOf(r) = "gating" /\ Holding(r)
        /\ record'[r] = record[r] /\ lost' = lost
    <3>1. at[r] \in [phase : 0..4, step : 0..8]
      BY DEF TypeOK
    <3>2. QED
      BY <1>1, <3>1 DEF ToRestore, Holding
  <2>2. PhaseOf(r)' = "gating"
    BY <2>1 DEF PhaseOf
  <2>3. StepOf(r)' = "restore"
    <3>1. StepsOf["gating"][8] = "restore"
      BY DEF StepsOf
    <3>2. QED
      BY <2>1, <2>2, <3>1 DEF StepOf
  <2>4. Placed(r)'
    BY <2>1, <2>2, GatingHasEight DEF Placed
  <2>5. Holding(r)'
    BY <2>1, <2>2 DEF Holding, Active
  <2>6. record[r] = "running"
    BY DEF Placed
  <2>7. QED
    BY <2>1, <2>3, <2>4, <2>5, <2>6 DEF Arrives, On
<1>2. QED
  BY <1>1, FailGoesTo, EndArrives

LEMMA MoveArrives ==
  ASSUME RInv, NEW r \in Runs, Active(r), scenario' = scenario, Moves(r)
  PROVE  Arrives(r)
  BY PassArrives, FailArrives DEF Moves

-----------------------------------------------------------------------------
(* Every step keeps the invariant.                                         *)

LEMMA InitOK == ConstantsOK /\ Init => RInv
<1> SUFFICES ASSUME ConstantsOK, Init PROVE RInv
  OBVIOUS
<1>1. None \in [phase : 0..4, step : 0..8] /\ None.phase = 0
  BY DEF None
<1>2. TypeOK
  <2>1. at \in [Runs -> [phase : 0..4, step : 0..8]]
    BY <1>1 DEF Init
  <2>2. /\ saved \in [Runs -> Bindings] /\ binding \in Bindings /\ wanted \in Bindings
        /\ scenario \in [Runs -> Subscenarios \cup {"full"}]
    BY DEF Init, Bindings, Subscenarios
  <2>3. faults \in 0..MaxFaults
    BY DEF Init, ConstantsOK
  <2>4. QED
    BY <2>1, <2>2, <2>3 DEF Init, TypeOK
<1>3. \A r \in Runs : ~Active(r)
  BY <1>1 DEF Init, Active
<1>4. RunsOK
  BY <1>3 DEF Init, RunsOK, Placed, Tasked, Failed, Lonely
<1>5. BindingOK
  BY DEF Init, BindingOK
<1>6. QED
  BY <1>2, <1>4, <1>5 DEF RInv

\* What is said of a run that a step does not concern.
Same(q) ==
  /\ at'[q] = at[q] /\ record'[q] = record[q] /\ failing'[q] = failing[q]
  /\ q \in lost' <=> q \in lost
  /\ scenario'[q] = scenario[q] /\ task'[q] = task[q]

LEMMA SamePlace ==
  ASSUME NEW q \in Runs, Same(q)
  PROVE  /\ Active(q)' = Active(q) /\ PhaseOf(q)' = PhaseOf(q)
         /\ StepOf(q)' = StepOf(q) /\ Over(q)' = Over(q)
         /\ Holding(q)' = Holding(q)
         /\ \A step : On(q, step)' = On(q, step)
<1>1. Active(q)' = Active(q)
  BY DEF Same, Active
<1>2. PhaseOf(q)' = PhaseOf(q)
  BY DEF Same, PhaseOf
<1>3. StepOf(q)' = StepOf(q)
  BY <1>2 DEF Same, StepOf
<1>4. Over(q)' = Over(q)
  BY DEF Same, Over
<1>5. Holding(q)' = Holding(q)
  BY <1>1, <1>2 DEF Same, Holding
<1>6. \A step : On(q, step)' = On(q, step)
  BY <1>1, <1>3 DEF On
<1>7. QED
  BY <1>1, <1>2, <1>3, <1>4, <1>5, <1>6

LEMMA SameRun ==
  ASSUME NEW q \in Runs, Same(q), Placed(q), Tasked(q), Failed(q),
         stray'[q] => stray[q]
  PROVE  Placed(q)' /\ Tasked(q)' /\ Failed(q)'
<1>1. Placed(q)'
  BY SamePlace DEF Same, Placed
<1>2. Tasked(q)'
  BY SamePlace DEF Same, Tasked
<1>3. Failed(q)'
  BY SamePlace DEF Same, Failed
<1>4. QED
  BY <1>1, <1>2, <1>3

\* Beside a run at work no other is alone.
LEMMA BusyIsSeen ==
  ASSUME RInv, NEW r \in Runs, Active(r), NEW q \in Runs \ {r}
  PROVE  ~alone[q]
<1>1. ~Over(r)
  BY DEF RInv, RunsOK, Placed, Over
<1>2. QED
  BY <1>1 DEF RInv, RunsOK, Lonely

\* A run that is at work and goes on, without the steps that take and give
\* back the binding.
LEMMA QuietKeeps ==
  ASSUME ConstantsOK, RInv, NEW r \in Runs, Active(r), Moves(r),
         UNCHANGED <<scenario, saved, gated, wanted, harmed, alone>>,
         task' = [task EXCEPT ![r] = "none"],
         binding' \in Bindings, binding' = binding \/ StepOf(r) = "mutate",
         ready' \in BOOLEAN, late' \subseteq Bindings,
         stray' \in [Runs -> BOOLEAN],
         \A q \in Runs : stray'[q] => stray[q] \/ (q = r /\ ~alone[r] /\ Fails(r)),
         StepOf(r) \notin {"clone", "restore"},
         StepOf(r) = "verify" /\ Passes(r) => gated
  PROVE  RInv'
<1>1. TypeOK'
  BY MoveFrame DEF RInv, TypeOK
<1>2. Arrives(r)
  BY MoveArrives
<1>3. task'[r] = "none" /\ \A q \in Runs \ {r} : task'[q] = task[q]
  BY DEF RInv, TypeOK
<1>4. \A q \in Runs \ {r} : Same(q)
  BY <1>3, MoveFrame DEF Same
<1>5. \A q \in Runs \ {r} : Placed(q)' /\ Tasked(q)' /\ Failed(q)' /\ Lonely(q)'
  <2> SUFFICES ASSUME NEW q \in Runs \ {r}
               PROVE  Placed(q)' /\ Tasked(q)' /\ Failed(q)' /\ Lonely(q)'
    OBVIOUS
  <2>1. Placed(q)' /\ Tasked(q)' /\ Failed(q)'
    BY <1>4, SameRun DEF RInv, RunsOK
  <2>2. ~alone[q]
    BY BusyIsSeen
  <2>3. QED
    BY <2>1, <2>2 DEF Lonely
<1>6. ~failing[r] /\ ~stray[r]
  BY DEF RInv, RunsOK, Failed
<1>7. stray'[r] => failing'[r] /\ ~alone[r]
  BY <1>6, MoveFrame
<1>8. Failed(r)'
  BY <1>2, <1>7 DEF Arrives, Failed
<1>9. Lonely(r)'
  <2> SUFFICES ASSUME alone[r] PROVE Lonely(r)'
    BY DEF Lonely
  <2>1. \A q \in Runs \ {r} : Over(q)'
    BY <1>4, SamePlace DEF RInv, RunsOK, Lonely
  <2>2. On(r, "nostart")' => gated'
    BY <1>2 DEF Arrives
  <2>3. QED
    BY <1>7, <2>1, <2>2 DEF Lonely
<1>10. RunsOK'
  BY <1>2, <1>3, <1>5, <1>8, <1>9 DEF RunsOK, Arrives, Tasked
<1>11. BindingOK'
  <2> SUFFICES ASSUME ~harmed PROVE BindingOK'
    BY DEF BindingOK
  <2>1. \A q \in Runs : Holding(q)' <=> Holding(q)
    BY <1>2, <1>4, SamePlace DEF Arrives
  <2>2. StepOf(r) = "mutate" => Holding(r)
    BY PlaceIs DEF RInv, RunsOK, Holding
  <2>3. QED
    BY <2>1, <2>2 DEF RInv, BindingOK
<1>12. QED
  BY <1>1, <1>10, <1>11 DEF RInv

LEMMA LooksKeep ==
  ASSUME ConstantsOK, RInv, NEW r \in Runs, Look(r) \/ Verify(r) \/ Mutate(r) \/ NoStart(r)
  PROVE  RInv'
<1>1. Active(r)
  BY DEF Look, Verify, Mutate, NoStart, On
<1>2. StepOf(r) \notin TaskSteps \cup {"clone", "restore"}
  BY DEF Look, Verify, Mutate, NoStart, On, TaskSteps
<1>3. Moves(r)
  <2>1. ~failing[r]
    BY <1>1, <1>2 DEF RInv, RunsOK, Failed
  <2>2. Passes(r) \/ Fails(r)
    BY DEF Look, Verify, Mutate, NoStart
  <2>3. QED
    BY <2>1, <2>2 DEF Moves
<1>4. task[r] = "none" /\ task' = task
  BY <1>2 DEF RInv, RunsOK, Tasked, Look, Verify, Mutate, NoStart, instance
<1>5. task' = [task EXCEPT ![r] = "none"]
  BY <1>4 DEF RInv, TypeOK
<1>6. UNCHANGED <<scenario, saved, gated, wanted, harmed, alone, ready, late>>
  BY DEF Look, Verify, Mutate, NoStart, instance
<1>7. /\ binding' \in Bindings
      /\ binding' = binding \/ StepOf(r) = "mutate"
  BY DEF RInv, TypeOK, Bindings, Look, Verify, Mutate, NoStart, On, instance
<1>8. StepOf(r) = "verify" /\ Passes(r) => gated
  <2>1. CASE Verify(r)
    <3>1. CASE gated
      BY <3>1
    <3>2. CASE ~gated
      <4>1. Fails(r)
        BY <2>1, <3>2 DEF Verify, Blocked
      <4>2. failing' = [failing EXCEPT ![r] = TRUE]
        BY <4>1 DEF Fails
      <4>3. Passes(r) => failing[r]
        BY <4>2 DEF Passes, RInv, TypeOK
      <4>4. ~failing[r]
        BY <1>1, <1>2 DEF RInv, RunsOK, Failed
      <4>5. QED
        BY <4>3, <4>4
    <3>3. QED
      BY <3>1, <3>2
  <2>2. CASE ~Verify(r)
    BY <2>2 DEF Look, Mutate, NoStart, On
  <2>3. QED
    BY <2>1, <2>2
<1>9. /\ stray' \in [Runs -> BOOLEAN]
      /\ \A q \in Runs : stray'[q] => stray[q] \/ (q = r /\ ~alone[r] /\ Fails(r))
  <2>1. CASE NoStart(r)
    <3>1. ~gated => ~alone[r]
      BY <2>1 DEF NoStart, RInv, RunsOK, Lonely
    <3>2. stray' = stray \/ (stray' = [stray EXCEPT ![r] = TRUE] /\ ~gated /\ Fails(r))
      BY <2>1 DEF NoStart
    <3>3. QED
      BY <3>1, <3>2 DEF RInv, TypeOK
  <2>2. CASE ~NoStart(r)
    BY <2>2 DEF Look, Verify, Mutate, RInv, TypeOK
  <2>3. QED
    BY <2>1, <2>2
<1>10. ready' \in BOOLEAN /\ late' \subseteq Bindings
  BY <1>6 DEF RInv, TypeOK
<1>11. QED
  BY <1>1, <1>2, <1>3, <1>5, <1>6, <1>7, <1>8, <1>9, <1>10, QuietKeeps

LEMMA TasksKeep ==
  ASSUME ConstantsOK, RInv, NEW r \in Runs, TaskSeen(r) \/ WaitEnds(r)
  PROVE  RInv'
<1>1. Active(r) /\ task[r] # "none"
  BY DEF TaskSeen, WaitEnds, Open, Bindings
<1>2. StepOf(r) \in TaskSteps
  BY <1>1 DEF RInv, RunsOK, Tasked
<1>3. StepOf(r) \notin {"clone", "restore", "verify", "mutate"}
  BY <1>2 DEF TaskSteps
<1>4. Moves(r)
  <2>1. ~failing[r]
    BY <1>1, <1>3 DEF RInv, RunsOK, Failed
  <2>2. QED
    BY <2>1 DEF TaskSeen, WaitEnds, Moves
<1>5. task' = [task EXCEPT ![r] = "none"]
  BY DEF TaskSeen, WaitEnds
<1>6. UNCHANGED <<scenario, saved, binding, gated, ready, wanted, harmed, alone, stray>>
  BY DEF TaskSeen, WaitEnds, instance
<1>7. late' \subseteq Bindings
  BY DEF TaskSeen, WaitEnds, Open, RInv, TypeOK
<1>8. /\ binding' \in Bindings /\ ready' \in BOOLEAN /\ stray' \in [Runs -> BOOLEAN]
  BY <1>6 DEF RInv, TypeOK
<1>9. QED
  BY <1>1, <1>3, <1>4, <1>5, <1>6, <1>7, <1>8, QuietKeeps

\* Steps that move no run: tasks, bindings and what they tell of others change.
LEMMA StillKeeps ==
  ASSUME RInv, UNCHANGED <<record, at, scenario, failing, saved, wanted, stray, lost>>,
         TypeOK', \A r \in Runs : Tasked(r)',
         binding' = binding \/ harmed', harmed => harmed',
         \A r \in Runs : alone'[r] => alone[r] /\ (On(r, "nostart") => gated')
  PROVE  RInv'
<1>1. \A r \in Runs : /\ Active(r)' = Active(r) /\ On(r, "nostart")' = On(r, "nostart")
                      /\ StepOf(r)' = StepOf(r)
                      /\ Holding(r)' = Holding(r) /\ Over(r)' = Over(r)
  BY DEF Active, On, StepOf, PhaseOf, Holding, Over
<1>2. \A r \in Runs : Placed(r)'
  BY <1>1 DEF RInv, RunsOK, Placed, PhaseOf
<1>3. \A r \in Runs : Failed(r)'
  BY <1>1 DEF RInv, RunsOK, Failed
<1>4. \A r \in Runs : Lonely(r)'
  BY <1>1 DEF RInv, RunsOK, Lonely
<1>5. BindingOK'
  BY <1>1 DEF RInv, BindingOK
<1>6. QED
  BY <1>2, <1>3, <1>4, <1>5 DEF RInv, RunsOK

LEMMA OpenTaskKeeps ==
  ASSUME ConstantsOK, RInv, NEW r \in Runs, OpenTask(r)
  PROVE  RInv'
<1>1. /\ Active(r) /\ StepOf(r) \in TaskSteps /\ task[r] = "none"
      /\ UNCHANGED <<scenario, saved, binding, gated, ready, late, wanted, harmed, alone,
                     stray>>
  BY DEF OpenTask, instance
<1>2. CASE task' = [task EXCEPT ![r] = binding] /\ UNCHANGED <<record, at, failing, lost, faults>>
  <2>1. TypeOK'
    <3>1. task' \in [Runs -> {"none", "success", "failed"} \cup Bindings]
      BY <1>2 DEF RInv, TypeOK
    <3>2. QED
      BY <1>1, <1>2, <3>1 DEF RInv, TypeOK
  <2>2. \A q \in Runs : Tasked(q)'
    <3>1. \A q \in Runs : Active(q)' = Active(q) /\ StepOf(q)' = StepOf(q)
      BY <1>1, <1>2 DEF Active, StepOf, PhaseOf
    <3>2. \A q \in Runs \ {r} : task'[q] = task[q]
      BY <1>2 DEF RInv, TypeOK
    <3>3. QED
      BY <1>1, <3>1, <3>2 DEF RInv, RunsOK, Tasked
  <2>3. \A q \in Runs : alone'[q] => alone[q] /\ (On(q, "nostart") => gated')
    BY <1>1 DEF RInv, RunsOK, Lonely
  <2>4. QED
    BY <1>1, <1>2, <2>1, <2>2, <2>3, StillKeeps
<1>3. CASE Fails(r) /\ UNCHANGED task
  <2>1. task' = [task EXCEPT ![r] = "none"]
    BY <1>1, <1>3 DEF RInv, TypeOK
  <2>2. Moves(r)
    BY <1>3 DEF Moves
  <2>3. StepOf(r) \notin {"clone", "restore", "verify", "mutate"}
    BY <1>1 DEF TaskSteps
  <2>4. /\ binding' \in Bindings /\ ready' \in BOOLEAN /\ stray' \in [Runs -> BOOLEAN]
        /\ late' \subseteq Bindings
    BY <1>1 DEF RInv, TypeOK
  <2>5. QED
    BY <1>1, <2>1, <2>2, <2>3, <2>4, QuietKeeps
<1>4. QED
  BY <1>2, <1>3 DEF OpenTask

\* What is said of the runs after a move that leaves their blocks alone.
LEMMA MoveRunsOK ==
  ASSUME ConstantsOK, RInv, NEW r \in Runs, Active(r), Arrives(r),
         \A q \in Runs \ {r} : Same(q), task'[r] = "none",
         UNCHANGED <<gated, alone, stray>>,
         failing[r] => failing'[r],
         StepOf(r) # "verify"
  PROVE  RunsOK'
<1>1. \A q \in Runs \ {r} : Placed(q)' /\ Tasked(q)' /\ Failed(q)' /\ Lonely(q)'
  <2> SUFFICES ASSUME NEW q \in Runs \ {r}
               PROVE  Placed(q)' /\ Tasked(q)' /\ Failed(q)' /\ Lonely(q)'
    OBVIOUS
  <2>1. Placed(q)' /\ Tasked(q)' /\ Failed(q)'
    BY SameRun DEF RInv, RunsOK
  <2>2. ~alone[q]
    BY BusyIsSeen
  <2>3. QED
    BY <2>1, <2>2 DEF Lonely
<1>2. Failed(r)'
  BY DEF Arrives, Failed, RInv, RunsOK
<1>3. Lonely(r)'
  <2>1. alone[r] => \A q \in Runs \ {r} : Over(q)'
    BY SamePlace DEF RInv, RunsOK, Lonely
  <2>2. ~On(r, "nostart")'
    BY DEF Arrives
  <2>3. QED
    BY <2>1, <2>2 DEF Lonely, RInv, RunsOK
<1>4. QED
  BY <1>1, <1>2, <1>3 DEF RunsOK, Arrives, Tasked

LEMMA CloneKeeps ==
  ASSUME ConstantsOK, RInv, NEW r \in Runs, Clone(r)
  PROVE  RInv'
<1>1. /\ Active(r) /\ StepOf(r) = "clone"
      /\ UNCHANGED <<scenario, task, binding, gated, ready, late, wanted, alone, stray>>
  BY DEF Clone, On, instance
<1>2. ~failing[r] /\ task[r] = "none"
  BY <1>1 DEF RInv, RunsOK, Failed, Tasked, TaskSteps
<1>3. Moves(r)
  BY <1>2 DEF Clone, Moves
<1>4. Arrives(r)
  BY <1>1, <1>3, MoveArrives
<1>5. \A q \in Runs \ {r} : Same(q)
  BY <1>1, <1>3, MoveFrame DEF Same
<1>6. RunsOK'
  BY <1>1, <1>2, <1>4, <1>5, MoveRunsOK
<1>7. /\ saved' = saved \/ saved' = [saved EXCEPT ![r] = binding]
      /\ harmed' = harmed \/ harmed' = (harmed \/ \E q \in Runs \ {r} : Holding(q))
  BY DEF Clone
<1>8. TypeOK'
  <2>1. saved' \in [Runs -> Bindings] /\ harmed' \in BOOLEAN
    BY <1>7 DEF RInv, TypeOK
  <2>2. QED
    BY <1>1, <1>3, <2>1, MoveFrame DEF RInv, TypeOK
<1>9. ~Holding(r)
  BY <1>1, PlaceIs DEF RInv, RunsOK, Holding
<1>10. \A q \in Runs \ {r} : Holding(q)' <=> Holding(q)
  BY <1>5, SamePlace
<1>11. BindingOK'
  <2>1. CASE saved' = [saved EXCEPT ![r] = binding]
              /\ harmed' = (harmed \/ \E q \in Runs \ {r} : Holding(q))
    <3> SUFFICES ASSUME ~harmed' PROVE BindingOK'
      BY DEF BindingOK
    <3>1. \A q \in Runs : ~Holding(q)
      BY <1>9, <2>1
    <3>2. binding = wanted
      BY <2>1, <3>1 DEF RInv, BindingOK
    <3>3. \A q \in Runs : Holding(q)' => saved'[q] = wanted
      BY <1>10, <2>1, <3>1, <3>2 DEF RInv, TypeOK
    <3>4. QED
      BY <1>1, <3>2, <3>3 DEF BindingOK
  <2>2. CASE Fails(r) /\ UNCHANGED <<saved, harmed>>
    <3>1. ~Holding(r)'
      <4>1. failing'[r]
        BY <1>1, <1>3, <2>2, MoveFrame
      <4>2. ~Passes(r)
        BY <1>2, <4>1 DEF Passes
      <4>3. QED
        BY <1>4, <1>9, <4>2 DEF Arrives
    <3>2. \A q \in Runs : Holding(q)' <=> Holding(q)
      BY <1>9, <1>10, <3>1
    <3>3. QED
      BY <1>1, <2>2, <3>2 DEF RInv, BindingOK
  <2>3. QED
    BY <2>1, <2>2 DEF Clone
<1>12. QED
  BY <1>6, <1>8, <1>11 DEF RInv

LEMMA RestoreKeeps ==
  ASSUME ConstantsOK, RInv, NEW r \in Runs, Restore(r)
  PROVE  RInv'
<1>1. /\ Active(r) /\ StepOf(r) = "restore"
      /\ UNCHANGED <<scenario, saved, task, gated, ready, late, wanted, alone, stray>>
  BY DEF Restore, On
<1>2. task[r] = "none"
  BY <1>1 DEF RInv, RunsOK, Tasked, TaskSteps
<1>3. PhaseOf(r) = "gating" /\ at[r].step = 8 /\ Holding(r)
  BY <1>1, PlaceIs DEF RInv, RunsOK, Holding
<1>4. CASE binding' = saved[r] /\ AfterRestore(r) /\ UNCHANGED harmed
  <2>1. Moves(r)
    BY <1>4 DEF AfterRestore, Moves
  <2>2. Arrives(r)
    BY <1>1, <2>1, MoveArrives
  <2>3. \A q \in Runs \ {r} : Same(q)
    BY <1>1, <2>1, MoveFrame DEF Same
  <2>4. failing[r] => failing'[r]
    BY <1>1, <1>4, <2>1, MoveFrame DEF AfterRestore
  <2>5. RunsOK'
    BY <1>1, <1>2, <2>2, <2>3, <2>4, MoveRunsOK
  <2>6. binding' \in Bindings
    BY <1>4 DEF RInv, TypeOK
  <2>7. TypeOK'
    BY <1>1, <1>4, <2>1, <2>6, MoveFrame DEF RInv, TypeOK
  <2>8. BindingOK'
    <3> SUFFICES ASSUME ~harmed PROVE BindingOK'
      BY <1>4 DEF BindingOK
    <3>1. binding' = wanted'
      BY <1>1, <1>3, <1>4 DEF RInv, BindingOK
    <3>2. \A q \in Runs : Holding(q)' => Holding(q)
      BY <1>3, <2>3, SamePlace
    <3>3. QED
      BY <1>1, <3>1, <3>2 DEF RInv, BindingOK
  <2>9. QED
    BY <2>5, <2>7, <2>8 DEF RInv
<1>5. CASE /\ UNCHANGED <<binding, lost>>
           /\ at' = [at EXCEPT ![r] = None]
           /\ record' = [record EXCEPT ![r] = "failed"]
           /\ failing' = [failing EXCEPT ![r] = TRUE]
           /\ harmed' = TRUE /\ Fault
  <2>1. /\ at'[r] = None /\ record'[r] = "failed" /\ failing'[r]
        /\ \A q \in Runs \ {r} : Same(q)
    BY <1>1, <1>5 DEF RInv, TypeOK, Same
  <2>2. ~Active(r)'
    BY <2>1 DEF Active, None
  <2>3. Arrives(r)
    BY <1>1, <2>1, <2>2 DEF Arrives, Placed, On, Holding
  <2>4. RunsOK'
    BY <1>1, <1>2, <2>1, <2>3, MoveRunsOK
  <2>5. TypeOK'
    <3>1. at' \in [Runs -> [phase : 0..4, step : 0..8]]
      BY <1>5 DEF RInv, TypeOK, None
    <3>2. faults' \in 0..MaxFaults
      BY <1>5 DEF RInv, TypeOK, Fault, ConstantsOK
    <3>3. /\ record' \in [Runs -> {"none", "pending", "running", "success", "failed"}]
          /\ failing' \in [Runs -> BOOLEAN]
      BY <1>5 DEF RInv, TypeOK
    <3>4. QED
      BY <1>1, <1>5, <3>1, <3>2, <3>3 DEF RInv, TypeOK
  <2>6. QED
    BY <1>5, <2>4, <2>5 DEF RInv, BindingOK
<1>6. QED
  BY <1>4, <1>5 DEF Restore

LEMMA CreateKeeps ==
  ASSUME ConstantsOK, RInv, NEW r \in Runs, CreateAndStart(r)
  PROVE  RInv'
<1>1. /\ record[r] = "none" /\ record' = [record EXCEPT ![r] = "pending"]
      /\ UNCHANGED <<at, failing, saved, task, binding, gated, ready, late, wanted, harmed,
                     stray, lost, faults>>
  BY DEF CreateAndStart, instance
<1>2. ~Active(r) /\ ~failing[r] /\ ~stray[r] /\ task[r] = "none"
  BY <1>1 DEF RInv, RunsOK, Placed, Failed, Tasked
<1>3. PICK s \in Offered : scenario' = [scenario EXCEPT ![r] = s]
  BY DEF CreateAndStart
<1>4. TypeOK'
  <2>1. scenario' \in [Runs -> Subscenarios \cup {"full"}]
    BY <1>3 DEF RInv, TypeOK, ConstantsOK, Scenarios
  <2>2. record' \in [Runs -> {"none", "pending", "running", "success", "failed"}]
    BY <1>1 DEF RInv, TypeOK
  <2>3. alone' \in [Runs -> BOOLEAN]
    BY DEF CreateAndStart
  <2>4. QED
    BY <1>1, <2>1, <2>2, <2>3 DEF RInv, TypeOK
<1>5. \A q \in Runs \ {r} : Same(q)
  BY <1>1, <1>3 DEF RInv, TypeOK, Same
<1>6. ~Active(r)'
  BY <1>1, <1>2 DEF Active
<1>7. \A q \in Runs \ {r} : Placed(q)' /\ Tasked(q)' /\ Failed(q)'
  BY <1>1, <1>5, SameRun DEF RInv, RunsOK
<1>8. Placed(r)' /\ Tasked(r)' /\ Failed(r)'
  BY <1>1, <1>2, <1>6 DEF Placed, Tasked, Failed
<1>9. \A q \in Runs \ {r} : ~alone'[q]
  BY DEF CreateAndStart
<1>10. Lonely(r)'
  <2>1. alone'[r] => \A q \in Runs : Over(q)
    BY DEF CreateAndStart
  <2>2. \A q \in Runs \ {r} : Over(q)' = Over(q)
    BY <1>5, SamePlace
  <2>3. QED
    BY <1>1, <1>2, <1>6, <2>1, <2>2 DEF Lonely, On
<1>11. RunsOK'
  BY <1>7, <1>8, <1>9, <1>10 DEF RunsOK, Lonely
<1>12. BindingOK'
  <2>1. \A q \in Runs : Holding(q)' <=> Holding(q)
    BY <1>2, <1>5, <1>6, SamePlace DEF Holding
  <2>2. QED
    BY <1>1, <2>1 DEF RInv, BindingOK
<1>13. QED
  BY <1>4, <1>11, <1>12 DEF RInv

LEMMA BeginKeeps ==
  ASSUME ConstantsOK, RInv, NEW r \in Runs, Begin(r)
  PROVE  RInv'
<1>1. /\ record[r] = "pending" /\ ~Active(r) /\ r \notin lost
      /\ UNCHANGED <<scenario, failing, saved, task, binding, gated, ready, late, wanted,
                     harmed, alone, stray, lost, faults>>
  BY DEF Begin, instance, ghosts
<1>2. ~failing[r] /\ ~stray[r] /\ task[r] = "none"
  BY <1>1 DEF RInv, RunsOK, Failed, Tasked
<1> DEFINE first == [phase |-> 1, step |-> 1]
<1>3. \/ record' = [record EXCEPT ![r] = "running"] /\ at' = [at EXCEPT ![r] = first]
      \/ record' = [record EXCEPT ![r] = "failed"] /\ at' = at
  BY DEF Begin
<1>4. TypeOK'
  <2>1. at' \in [Runs -> [phase : 0..4, step : 0..8]]
    BY <1>3 DEF RInv, TypeOK
  <2>2. record' \in [Runs -> {"none", "pending", "running", "success", "failed"}]
    BY <1>3 DEF RInv, TypeOK
  <2>3. QED
    BY <1>1, <2>1, <2>2 DEF RInv, TypeOK
<1>5. \A q \in Runs \ {r} : Same(q)
  <2>1. \A q \in Runs \ {r} : at'[q] = at[q] /\ record'[q] = record[q]
    BY <1>3 DEF RInv, TypeOK
  <2>2. QED
    BY <1>1, <2>1 DEF Same
<1>6. \A q \in Runs \ {r} : Placed(q)' /\ Tasked(q)' /\ Failed(q)'
  BY <1>1, <1>5, SameRun DEF RInv, RunsOK
<1>7. \A q \in Runs \ {r} : ~alone[q]
  <2>1. ~Over(r)
    BY <1>1 DEF Over
  <2>2. QED
    BY <2>1 DEF RInv, RunsOK, Lonely
<1>8. Active(r)' => at'[r] = first /\ record'[r] = "running"
  BY <1>1, <1>3 DEF Active, RInv, TypeOK
<1>9. Active(r)' => /\ PhaseOf(r)' \in Subscenarios
                    /\ 1 \in 1..Len(Phases(scenario[r]))
                    /\ 1 \in 1..Len(StepsOf[PhaseOf(r)'])
                    /\ StepOf(r)' # "nostart"
  <2> SUFFICES ASSUME Active(r)'
               PROVE  /\ PhaseOf(r)' \in Subscenarios
                      /\ 1 \in 1..Len(Phases(scenario[r]))
                      /\ 1 \in 1..Len(StepsOf[PhaseOf(r)'])
                      /\ StepOf(r)' # "nostart"
    OBVIOUS
  <2>1. scenario[r] \in Scenarios
    BY DEF RInv, TypeOK, Scenarios
  <2>2. (\A n \in 1..4 : 1 \in 1..n) /\ (\A n \in 1..8 : 1 \in 1..n)
    OBVIOUS
  <2>3. 1 \in 1..Len(Phases(scenario[r]))
    BY <2>1, <2>2, PhasesAre
  <2>4. PhaseOf(r)' = Phases(scenario[r])[1]
    BY <1>1, <1>8 DEF PhaseOf
  <2>5. PhaseOf(r)' \in Subscenarios
    BY <2>1, <2>3, <2>4, PhasesAre
  <2>6. 1 \in 1..Len(StepsOf[PhaseOf(r)'])
    BY <2>2, <2>5, StepsAre
  <2>7. StepOf(r)' = StepsOf[PhaseOf(r)'][1]
    BY <1>8 DEF StepOf
  <2>8. StepOf(r)' # "nostart"
    BY <2>5, <2>6, <2>7, StepsAre
  <2>9. QED
    BY <2>3, <2>5, <2>6, <2>8
<1>10. Placed(r)' /\ Tasked(r)' /\ Failed(r)'
  BY <1>1, <1>2, <1>8, <1>9 DEF Placed, Tasked, Failed
<1>11. Lonely(r)'
  <2>1. \A q \in Runs \ {r} : Over(q)' = Over(q)
    BY <1>5, SamePlace
  <2>2. ~On(r, "nostart")'
    BY <1>9 DEF On
  <2>3. QED
    BY <1>1, <2>1, <2>2 DEF Lonely, RInv, RunsOK
<1>12. RunsOK'
  BY <1>1, <1>6, <1>7, <1>10, <1>11 DEF RunsOK, Lonely
<1>13. BindingOK'
  <2>1. ~Holding(r) /\ ~Holding(r)'
    BY <1>1, <1>8 DEF Holding
  <2>2. \A q \in Runs : Holding(q)' <=> Holding(q)
    BY <1>5, <2>1, SamePlace
  <2>3. QED
    BY <1>1, <2>2 DEF RInv, BindingOK
<1>14. QED
  BY <1>4, <1>12, <1>13 DEF RInv

LEMMA TaskEndsKeeps ==
  ASSUME ConstantsOK, RInv, NEW r \in Runs, TaskEnds(r)
  PROVE  RInv'
<1>1. /\ Active(r) /\ task[r] # "none"
      /\ UNCHANGED <<record, at, scenario, failing, saved, binding, late, wanted, harmed,
                     alone, stray, lost, faults>>
  BY DEF TaskEnds, Open, Bindings, progress, ghosts
<1>2. PICK result \in {"success", "failed"} : task' = [task EXCEPT ![r] = result]
  BY DEF TaskEnds
<1>3. TypeOK'
  <2>1. task' \in [Runs -> {"none", "success", "failed"} \cup Bindings]
    BY <1>2 DEF RInv, TypeOK
  <2>2. gated' \in BOOLEAN /\ ready' \in BOOLEAN
    BY DEF TaskEnds, RInv, TypeOK
  <2>3. QED
    BY <1>1, <2>1, <2>2 DEF RInv, TypeOK
<1>4. \A q \in Runs : Tasked(q)'
  <2>1. \A q \in Runs : Active(q)' = Active(q) /\ StepOf(q)' = StepOf(q)
    BY <1>1 DEF Active, StepOf, PhaseOf
  <2>2. \A q \in Runs \ {r} : task'[q] = task[q]
    BY <1>2 DEF RInv, TypeOK
  <2>3. QED
    BY <1>1, <2>1, <2>2 DEF RInv, RunsOK, Tasked
<1>5. \A q \in Runs : alone'[q] => alone[q] /\ (On(q, "nostart") => gated')
  <2>1. StepOf(r) # "nostart"
    BY <1>1 DEF RInv, RunsOK, Tasked, TaskSteps
  <2>2. \A q \in Runs \ {r} : ~alone[q]
    BY <1>1, BusyIsSeen
  <2>3. QED
    BY <1>1, <2>1, <2>2 DEF On
<1>6. QED
  BY <1>1, <1>3, <1>4, <1>5, StillKeeps

LEMMA OutsideKeeps ==
  ASSUME ConstantsOK, RInv, Edit \/ \E b \in Bindings : LateResult(b)
  PROVE  RInv'
<1>1. /\ UNCHANGED <<record, at, scenario, failing, saved, task, ready, stray, lost>>
      /\ alone' = [r \in Runs |-> FALSE]
  BY DEF Edit, LateResult, progress
<1>2. faults' \in 0..MaxFaults
  BY DEF Edit, LateResult, Fault, RInv, TypeOK, ConstantsOK
<1>3. gated' \in BOOLEAN /\ late' \subseteq Bindings
  BY DEF Edit, LateResult, RInv, TypeOK
<1>4. binding' \in Bindings /\ wanted' \in Bindings /\ harmed' \in BOOLEAN
  BY DEF Edit, LateResult, Bindings, RInv, TypeOK
<1>5. TypeOK'
  BY <1>1, <1>2, <1>3, <1>4 DEF RInv, TypeOK
<1>6. \A r \in Runs : Same(r)
  BY <1>1 DEF Same
<1>7. RunsOK'
  BY <1>1, <1>6, SameRun DEF RInv, RunsOK, Lonely
<1>8. BindingOK'
  <2>1. \A r \in Runs : Holding(r)' = Holding(r)
    BY <1>6, SamePlace
  <2>2. CASE Edit
    BY <2>1, <2>2 DEF Edit, BindingOK
  <2>3. CASE \E b \in Bindings : LateResult(b)
    BY <1>1, <2>1, <2>3 DEF LateResult, RInv, BindingOK
  <2>4. QED
    BY <2>2, <2>3
<1>9. QED
  BY <1>5, <1>7, <1>8 DEF RInv

LEMMA CrashKeeps ==
  ASSUME ConstantsOK, RInv, Crash
  PROVE  RInv'
<1>1. UNCHANGED <<record, scenario, failing, saved, binding, gated, ready, wanted, alone,
                  stray>>
  BY DEF Crash, instance
<1>2. \A r \in Runs : ~Active(r)' /\ task'[r] = "none"
  BY DEF Crash, Active, None
<1>3. TypeOK'
  <2>1. at' \in [Runs -> [phase : 0..4, step : 0..8]]
    BY DEF Crash, None
  <2>2. faults' \in 0..MaxFaults
    BY DEF Crash, Fault, RInv, TypeOK, ConstantsOK
  <2>3. late' \subseteq Bindings
    BY DEF Crash, Open, RInv, TypeOK
  <2>4. /\ lost' \subseteq Runs /\ harmed' \in BOOLEAN
        /\ task' \in [Runs -> {"none", "success", "failed"} \cup Bindings]
    BY DEF Crash, RInv, TypeOK
  <2>5. QED
    BY <1>1, <2>1, <2>2, <2>3, <2>4 DEF RInv, TypeOK
<1>4. \A r \in Runs : Over(r) => Over(r)'
  BY <1>1 DEF Crash, Over
<1>5. RunsOK'
  BY <1>1, <1>2, <1>4 DEF RInv, RunsOK, Placed, Tasked, Failed, Lonely, On
<1>6. BindingOK'
  <2>1. harmed' = (harmed \/ \E r \in Runs : Holding(r))
    BY DEF Crash
  <2>2. \A r \in Runs : ~Holding(r)'
    BY <1>2 DEF Holding
  <2>3. QED
    BY <1>1, <2>1, <2>2 DEF RInv, BindingOK
<1>7. QED
  BY <1>3, <1>5, <1>6 DEF RInv

LEMMA NextKeeps == ASSUME ConstantsOK PROVE RInv /\ [Next]_vars => RInv'
<1> SUFFICES ASSUME RInv, [Next]_vars PROVE RInv'
  OBVIOUS
<1>1. CASE \E r \in Runs : CreateAndStart(r) \/ RunStep(r) \/ TaskEnds(r)
  BY <1>1, CreateKeeps, BeginKeeps, LooksKeep, CloneKeeps, OpenTaskKeeps, TasksKeep,
     RestoreKeeps, TaskEndsKeeps DEF RunStep
<1>2. CASE Edit \/ \E b \in Bindings : LateResult(b)
  BY <1>2, OutsideKeeps
<1>3. CASE Crash
  BY <1>3, CrashKeeps
<1>4. CASE UNCHANGED vars
  <2>1. UNCHANGED <<record, at, scenario, failing, saved, task, binding, gated, ready, late,
                    wanted, harmed, alone, stray, lost, faults>>
    BY <1>4 DEF vars, progress, instance, ghosts
  <2>2. \A r \in Runs : Same(r)
    BY <2>1 DEF Same
  <2>3. TypeOK'
    BY <2>1 DEF RInv, TypeOK
  <2>4. RunsOK'
    BY <2>1, <2>2, SameRun, SamePlace DEF RInv, RunsOK, Lonely
  <2>5. BindingOK'
    BY <2>1, <2>2, SamePlace DEF RInv, BindingOK
  <2>6. QED
    BY <2>3, <2>4, <2>5 DEF RInv
<1>5. QED
  BY <1>1, <1>2, <1>3, <1>4 DEF Next

LEMMA Invariance == ASSUME ConstantsOK PROVE Spec => []RInv
<1>1. Init => RInv
  BY InitOK
<1>2. QED
  BY <1>1, NextKeeps, PTL DEF Spec

-----------------------------------------------------------------------------
(***************************************************************************)
(* Runs, tasks and the instance keep their types, whatever overlaps.       *)
(***************************************************************************)
THEOREM RunTypes == ASSUME ConstantsOK PROVE Spec => []TypeOK
<1>1. RInv => TypeOK
  BY DEF RInv
<1>2. QED
  BY <1>1, Invariance, PTL

(***************************************************************************)
(* On every path out of the gating scenario the binding is what the        *)
(* operator wants again, if only one run has changed it and nothing        *)
(* disturbed its restore.                                                  *)
(***************************************************************************)
THEOREM BindingIsReturned == ASSUME ConstantsOK PROVE Spec => []BindingComesBack
<1>1. RInv => BindingComesBack
  BY DEF RInv, BindingOK, BindingComesBack
<1>2. QED
  BY <1>1, Invariance, PTL

(***************************************************************************)
(* A run recorded as a success is over, no step of it has failed, and it   *)
(* has not started what it wanted blocked.                                 *)
(***************************************************************************)
THEOREM SuccessHasNoFailure == ASSUME ConstantsOK PROVE Spec => []SuccessIsWhole
<1>1. RInv => SuccessIsWhole
  BY DEF RInv, RunsOK, Placed, Failed, SuccessIsWhole
<1>2. QED
  BY <1>1, Invariance, PTL

(***************************************************************************)
(* A gating run that is alone never starts the runtime whose script it has *)
(* made unavailable.                                                       *)
(***************************************************************************)
THEOREM AloneStartsNothing == ASSUME ConstantsOK PROVE Spec => []NoStrayStart
<1>1. RInv => NoStrayStart
  BY DEF RInv, RunsOK, Lonely, NoStrayStart
<1>2. QED
  BY <1>1, Invariance, PTL
=============================================================================
