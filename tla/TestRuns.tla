------------------------------ MODULE TestRuns ------------------------------
(***************************************************************************)
(* Test runs (TestRunService): scenarios that a goroutine each drives over *)
(* the tasks, the runtime objects and the endpoint of one model.           *)
(*                                                                         *)
(* The gating scenario changes the binding of the model's instance for a   *)
(* while, so that the agent's precheck must block it, and puts back what   *)
(* it has read when it ends.  Nothing keeps two runs, or a run and the     *)
(* operator, from doing so at the same time, and no run survives a restart *)
(* of the controller.                                                      *)
(*                                                                         *)
(* Tasks are seen from here: an open task ends some time, or never, and a  *)
(* precheck blocks the instance if the binding it was created with needs   *)
(* the missing script.                                                     *)
(***************************************************************************)
EXTENDS Naturals, Sequences, FiniteSets

CONSTANTS
  Runs,
  Offered,     \* scenarios that are asked for
  MaxFaults    \* bound: crashes, edits, lost writes and failed restores

VARIABLES
  record,    \* record[r]: the status of the run in the database
  at,        \* at[r]: where its goroutine is: a phase and a step of it
  scenario,  \* scenario[r]: what was asked for
  failing,   \* failing[r]: an error waits for the end of the phase
  saved,     \* saved[r]: the binding the run will put back
  task,      \* task[r]: the task of the run: its end, or while it is open the
             \* binding it was created with
  binding,   \* the binding of the instance
  gated,     \* the instance is blocked by its last precheck
  ready,     \* the runtime serves
  late,      \* bindings of open prechecks nobody waits for
  wanted,    \* the binding the operator wants
  harmed,    \* a change of the binding overlapped a run that changes it
  alone,     \* alone[r]: nothing else has happened since the run began
  stray,     \* stray[r]: the run has started the runtime it wanted blocked
  lost,      \* runs the controller has lost
  faults

progress == <<record, at, scenario, failing, saved>>
instance == <<binding, gated, ready>>
ghosts == <<wanted, harmed, alone, stray, lost>>
vars == <<progress, task, instance, late, ghosts, faults>>

Bindings == {"given", "edited", "broken"}
Subscenarios == {"stage0", "local", "e5", "gating"}
Phases(s) == IF s = "full" THEN <<"stage0", "local", "e5", "gating">> ELSE <<s>>

\* The steps of a phase.  Waiting for a task is part of the task's step.
StepsOf ==
  [stage0 |-> <<"discover", "chain">>,
   local  |-> <<"discover", "snapshot", "inspect", "precheck", "projection">>,
   e5     |-> <<"discover", "start", "ready", "embed">>,
   gating |-> <<"discover", "clone", "mutate", "block", "reconcile", "verify",
                "nostart", "restore">>]
TaskSteps == {"snapshot", "inspect", "precheck", "start", "block"}
Prechecks == {"precheck", "block"}

None == [phase |-> 0, step |-> 0]
Active(r) == at[r].phase > 0
PhaseOf(r) == Phases(scenario[r])[at[r].phase]
StepOf(r) == StepsOf[PhaseOf(r)][at[r].step]
Open(r) == task[r] \in Bindings
On(r, step) == Active(r) /\ StepOf(r) = step

\* The part of the gating scenario that owes the restore.
Holding(r) == Active(r) /\ PhaseOf(r) = "gating" /\ at[r].step > 2

TypeOK ==
  /\ record \in [Runs -> {"none", "pending", "running", "success", "failed"}]
  /\ scenario \in [Runs -> Subscenarios \cup {"full"}]
  /\ at \in [Runs -> [phase : 0..4, step : 0..8]]
  /\ failing \in [Runs -> BOOLEAN]
  /\ saved \in [Runs -> Bindings]
  /\ task \in [Runs -> {"none", "success", "failed"} \cup Bindings]
  /\ binding \in Bindings /\ gated \in BOOLEAN /\ ready \in BOOLEAN
  /\ late \subseteq Bindings
  /\ wanted \in Bindings /\ harmed \in BOOLEAN
  /\ alone \in [Runs -> BOOLEAN] /\ stray \in [Runs -> BOOLEAN]
  /\ lost \subseteq Runs
  /\ faults \in 0..MaxFaults

Init ==
  /\ record = [r \in Runs |-> "none"]
  /\ at = [r \in Runs |-> None]
  /\ scenario = [r \in Runs |-> "stage0"]
  /\ failing = [r \in Runs |-> FALSE]
  /\ saved = [r \in Runs |-> "given"]
  /\ task = [r \in Runs |-> "none"]
  /\ binding = "given" /\ gated \in BOOLEAN /\ ready = FALSE
  /\ late = {}
  /\ wanted = "given" /\ harmed = FALSE
  /\ alone = [r \in Runs |-> FALSE] /\ stray = [r \in Runs |-> FALSE]
  /\ lost = {}
  /\ faults = 0

Fault == faults < MaxFaults /\ faults' = faults + 1

-----------------------------------------------------------------------------
(* A run begins, goes from step to step, and ends.                         *)

Over(r) == record[r] \in {"none", "success", "failed"} \/ r \in lost

CreateAndStart(r) ==
  /\ record[r] = "none"
  /\ \E s \in Offered : scenario' = [scenario EXCEPT ![r] = s]
  /\ record' = [record EXCEPT ![r] = "pending"]
  /\ alone' = [q \in Runs |-> q = r /\ late = {} /\ \A p \in Runs : Over(p)]
  /\ UNCHANGED <<at, failing, saved, task, instance, late, wanted, harmed,
                 stray, lost, faults>>

\* executeRun; failRun if it cannot open its log.
Begin(r) ==
  /\ record[r] = "pending" /\ ~Active(r) /\ r \notin lost
  /\ \/ /\ record' = [record EXCEPT ![r] = "running"]
        /\ at' = [at EXCEPT ![r] = [phase |-> 1, step |-> 1]]
     \/ /\ record' = [record EXCEPT ![r] = "failed"]
        /\ UNCHANGED at
  /\ UNCHANGED <<scenario, failing, saved, task, instance, late, ghosts, faults>>

\* The end of a run is written to the database, and a lost write is not
\* noticed.
Finish(r, status) ==
  /\ at' = [at EXCEPT ![r] = None]
  /\ \/ record' = [record EXCEPT ![r] = status] /\ UNCHANGED <<lost, faults>>
     \/ Fault /\ lost' = lost \cup {r} /\ UNCHANGED record

\* The next step, the next phase or the end.
Advance(r) ==
  CASE at[r].step < Len(StepsOf[PhaseOf(r)]) ->
         /\ at' = [at EXCEPT ![r].step = @ + 1]
         /\ UNCHANGED <<record, lost, faults>>
    [] at[r].step = Len(StepsOf[PhaseOf(r)]) /\ at[r].phase < Len(Phases(scenario[r])) ->
         /\ at' = [at EXCEPT ![r] = [phase |-> at[r].phase + 1, step |-> 1]]
         /\ UNCHANGED <<record, lost, faults>>
    [] OTHER -> Finish(r, "success")

\* Mutation: only the steps after the change of the binding owe the restore.
Fails_NoRestore(r) ==
  /\ failing' = [failing EXCEPT ![r] = TRUE]
  /\ IF Holding(r) /\ StepOf(r) \notin {"restore", "mutate", "block"}
     THEN /\ at' = [at EXCEPT ![r].step = Len(StepsOf["gating"])]
          /\ UNCHANGED <<record, lost, faults>>
     ELSE Finish(r, "failed")

\* An error ends the phase and with it the run; the gating scenario first
\* puts the binding back.
Fails(r) ==
  /\ failing' = [failing EXCEPT ![r] = TRUE]
  /\ IF Holding(r) /\ StepOf(r) # "restore"
     THEN /\ at' = [at EXCEPT ![r].step = Len(StepsOf["gating"])]
          /\ UNCHANGED <<record, lost, faults>>
     ELSE Finish(r, "failed")

Passes(r) == Advance(r) /\ UNCHANGED failing

-----------------------------------------------------------------------------
(* Steps.                                                                  *)

\* What the endpoint answers to an embedding request: the TEI interface is
\* asked first, then the OpenAI one; a vector must have the right dimension.
Answers == {"vector", "short", "nothing"}
Embedding(tei, openai) == IF tei # "nothing" THEN tei ELSE openai

\* Reads that may fail or find that what they need is not there.
Look(r) ==
  /\ Active(r)
  /\ \/ /\ StepOf(r) \in {"discover", "chain", "projection", "reconcile"}
        /\ Passes(r) \/ Fails(r)
     \/ /\ StepOf(r) = "ready"
        /\ \/ ready /\ Passes(r)
           \/ Fails(r)
     \/ /\ StepOf(r) = "embed"
        /\ \E tei, openai \in Answers :
             IF Embedding(tei, openai) = "vector" THEN Passes(r) ELSE Fails(r)
  /\ UNCHANGED <<scenario, saved, task, instance, late, wanted, harmed, alone, stray>>

\* The binding that is read now will be put back, as it was.
Clone(r) ==
  /\ On(r, "clone")
  /\ \/ /\ saved' = [saved EXCEPT ![r] = binding]
        /\ harmed' = (harmed \/ \E q \in Runs \ {r} : Holding(q))
        /\ Passes(r)
     \/ Fails(r) /\ UNCHANGED <<saved, harmed>>
  /\ UNCHANGED <<scenario, task, instance, late, wanted, alone, stray>>

Mutate(r) ==
  /\ On(r, "mutate")
  /\ \/ binding' = "broken" /\ Passes(r)
     \/ UNCHANGED binding /\ Fails(r)
  /\ UNCHANGED <<scenario, saved, task, gated, ready, late, wanted, harmed,
                 alone, stray>>

\* A task is created; the start of a blocked instance is refused.  What the
\* agent is to check is the binding of this moment.
OpenTask(r) ==
  /\ Active(r) /\ StepOf(r) \in TaskSteps /\ task[r] = "none"
  /\ \/ /\ StepOf(r) = "start" => ~gated
        /\ task' = [task EXCEPT ![r] = binding]
        /\ UNCHANGED <<record, at, failing, lost, faults>>
     \/ Fails(r) /\ UNCHANGED task
  /\ UNCHANGED <<scenario, saved, instance, late, wanted, harmed, alone, stray>>

\* Which end of a task its step accepts.
Accepts(step) ==
  IF step \in {"snapshot", "start"} THEN {"success"} ELSE {"success", "failed"}

TaskSeen(r) ==
  /\ Active(r) /\ task[r] \in {"success", "failed"}
  /\ task' = [task EXCEPT ![r] = "none"]
  /\ IF task[r] \in Accepts(StepOf(r)) THEN Passes(r) ELSE Fails(r)
  /\ UNCHANGED <<scenario, saved, instance, late, wanted, harmed, alone, stray>>

\* Mutation: only a start is waited for with a time limit.
WaitEnds_StartOnly(r) ==
  /\ On(r, "start") /\ Open(r)
  /\ task' = [task EXCEPT ![r] = "none"]
  /\ Fails(r)
  /\ UNCHANGED <<scenario, saved, instance, late, wanted, harmed, alone, stray>>

\* The time limit of the wait, or of the scenario; the task stays open.
WaitEnds(r) ==
  /\ Active(r) /\ Open(r)
  /\ task' = [task EXCEPT ![r] = "none"]
  /\ late' = IF StepOf(r) \in Prechecks THEN late \cup {task[r]} ELSE late
  /\ Fails(r)
  /\ UNCHANGED <<scenario, saved, instance, wanted, harmed, alone, stray>>

\* Mutation: the scenario does not look whether the instance is blocked.
Blocked_Assumed == TRUE

Blocked == gated

Verify(r) ==
  /\ On(r, "verify")
  /\ IF Blocked THEN Passes(r) ELSE Fails(r)
  /\ UNCHANGED <<scenario, saved, task, instance, late, wanted, harmed, alone, stray>>

\* The start must be refused, and for no other reason.
NoStart(r) ==
  /\ On(r, "nostart")
  /\ \/ gated /\ Passes(r) /\ UNCHANGED stray
     \/ ~gated /\ Fails(r) /\ stray' = [stray EXCEPT ![r] = TRUE]
     \/ Fails(r) /\ UNCHANGED stray
  /\ UNCHANGED <<scenario, saved, task, instance, late, wanted, harmed, alone>>

\* Mutation: a restore that succeeds lets the run succeed.
AfterRestore_Passes(r) == Passes(r)

AfterRestore(r) == IF failing[r] THEN Fails(r) ELSE Passes(r)

\* The deferred restore has a time limit of its own; its error fails a run
\* that had none.
Restore(r) ==
  /\ On(r, "restore")
  /\ \/ /\ binding' = saved[r]
        /\ AfterRestore(r)
        /\ UNCHANGED harmed
     \/ /\ UNCHANGED binding
        /\ at' = [at EXCEPT ![r] = None]
        /\ record' = [record EXCEPT ![r] = "failed"]
        /\ failing' = [failing EXCEPT ![r] = TRUE]
        /\ harmed' = TRUE
        /\ Fault /\ UNCHANGED lost
  /\ UNCHANGED <<scenario, saved, task, gated, ready, late, wanted, alone, stray>>

-----------------------------------------------------------------------------
(* Tasks, the operator and the controller.                                 *)

\* A task ends.  A precheck may end without a report on the instance.
TaskEnds(r) ==
  /\ Active(r) /\ Open(r)
  /\ \E result \in {"success", "failed"} : task' = [task EXCEPT ![r] = result]
  /\ \/ /\ StepOf(r) \in Prechecks
        /\ \/ gated' = (task[r] = "broken")
           \/ task'[r] = "failed" /\ UNCHANGED gated
        /\ UNCHANGED ready
     \/ /\ StepOf(r) = "start"
        /\ ready' = (ready \/ task'[r] = "success")
        /\ UNCHANGED gated
     \/ StepOf(r) \notin Prechecks \cup {"start"} /\ UNCHANGED <<gated, ready>>
  /\ UNCHANGED <<progress, binding, late, ghosts, faults>>

LateResult(b) ==
  /\ b \in late
  /\ late' = late \ {b}
  /\ gated' = (b = "broken")
  /\ alone' = [r \in Runs |-> FALSE]
  /\ UNCHANGED <<progress, task, binding, ready, wanted, harmed, stray, lost, faults>>

\* The operator changes the binding.
Edit ==
  /\ Fault
  /\ binding' = "edited" /\ wanted' = "edited"
  /\ harmed' = (harmed \/ \E r \in Runs : Holding(r))
  /\ alone' = [r \in Runs |-> FALSE]
  /\ UNCHANGED <<progress, task, gated, ready, late, stray, lost>>

\* Goroutines end, records and bindings stay as they are.
Crash ==
  /\ Fault
  /\ at' = [r \in Runs |-> None]
  /\ lost' = lost \cup {r \in Runs : record[r] \in {"pending", "running"}}
  /\ harmed' = (harmed \/ \E r \in Runs : Holding(r))
  /\ late' = late \cup {task[r] : r \in {q \in Runs : Open(q) /\ StepOf(q) \in Prechecks}}
  /\ task' = [r \in Runs |-> "none"]
  /\ UNCHANGED <<record, scenario, failing, saved, instance, wanted, alone, stray>>

RunStep(r) ==
  \/ Begin(r) \/ Look(r) \/ Clone(r) \/ Mutate(r) \/ OpenTask(r)
  \/ TaskSeen(r) \/ WaitEnds(r) \/ Verify(r) \/ NoStart(r) \/ Restore(r)

Next ==
  \/ \E r \in Runs : CreateAndStart(r) \/ RunStep(r) \/ TaskEnds(r)
  \/ \E b \in Bindings : LateResult(b)
  \/ Edit \/ Crash

Spec == Init /\ [][Next]_vars
-----------------------------------------------------------------------------
(* Properties.                                                             *)

(***************************************************************************)
(* When no run has the binding in its hands it is the operator's, on every *)
(* path out of the gating scenario, unless two such runs overlapped, the   *)
(* operator changed it meanwhile, the controller crashed or the restore    *)
(* itself was refused.                                                     *)
(***************************************************************************)
BindingComesBack ==
  binding # wanted => harmed \/ \E r \in Runs : Holding(r)

(***************************************************************************)
(* A run recorded as a success is over, none of its steps has failed, the  *)
(* deferred restore of the binding included, and the start that was to be  *)
(* refused was refused.                                                    *)
(***************************************************************************)
SuccessIsWhole ==
  \A r \in Runs : record[r] = "success" => ~Active(r) /\ ~failing[r] /\ ~stray[r]

(***************************************************************************)
(* A gating run that had the instance for itself never gets its start      *)
(* accepted: with the missing script bound, the runtime is not started.    *)
(***************************************************************************)
NoStrayStart == \A r \in Runs : stray[r] => ~alone[r]

Fairness == \A r \in Runs : WF_vars(RunStep(r))

(***************************************************************************)
(* Every run is recorded as ended, though its tasks may never end, unless  *)
(* the controller crashed or its last write was lost.                      *)
(***************************************************************************)
RunsEnd ==
  Fairness =>
    \A r \in Runs : record[r] = "pending" ~> record[r] \in {"success", "failed"} \/ r \in lost
=============================================================================
