--------------------------- MODULE AgentRegistry ---------------------------
(***************************************************************************)
(* The controller's registry of agents (AgentService) and the agent that   *)
(* registers, reports its capabilities and then sends heartbeats from the  *)
(* loop that also runs its tasks.                                          *)
(*                                                                         *)
(* The registry is in memory and in the database.  Register and Report     *)
(* change it in one critical section, Heartbeat reads it in one and writes *)
(* it in another, and a List writes the rows it has read from the database *)
(* back into memory.  Each saves the whole row, outside the lock.  A call  *)
(* goes on in the controller when the agent has given it up.               *)
(*                                                                         *)
(* Time is the age of what was stamped, up to Old, where it no longer      *)
(* matters.  Only the runtime capabilities of a row are modelled: they are *)
(* what a report replaces and every other call keeps.                      *)
(***************************************************************************)
EXTENDS Integers

CONSTANTS
  Calls,      \* the calls of the agent the controller can be working on
  NoCall,
  Caps,       \* what an agent can report
  NoCaps,     \* nothing reported yet
  TTL,        \* the age at which a heartbeat is still good
  MaxFaults   \* bound: calls given up, failed saves, crashes and restarts

VARIABLES
  phase,      \* the agent: down, register, report, loop or task
  able,       \* what the agent can do, found out when it starts
  awaits,     \* the call whose answer the agent awaits
  contact,    \* the age of the agent's latest call
  memory,     \* the row in memory
  stored,     \* the row in the database
  call,       \* call[c]: what the controller does for a call
  list,       \* a reader of the registry, with the row it has read
  overtaken,  \* a row older than the latest report has been written
  faults

controller == <<memory, stored, call, list, overtaken>>
agent == <<phase, able, awaits, contact>>
vars == <<agent, controller, faults>>

Old == TTL + 1
Ages == 0..Old

\* A row says when the agent was last heard of and what it can do.
Absent == [known |-> FALSE, beat |-> Old, caps |-> NoCaps]
Row(beat, caps) == [known |-> TRUE, beat |-> beat, caps |-> caps]
Rows == [known : BOOLEAN, beat : Ages, caps : Caps \cup {NoCaps}]

\* A call has its kind, its next step, when it came, the capabilities it
\* brings or has read, and whether a report was written since then.
Idle == [kind |-> "none", at |-> "free", beat |-> Old, caps |-> NoCaps,
         stale |-> FALSE]
Kinds == {"none", "register", "report", "heartbeat"}
Steps == {"free", "read", "write", "save", "ok", "failed"}
CallStates == [kind : Kinds, at : Steps, beat : Ages, caps : Caps \cup {NoCaps},
               stale : BOOLEAN]

TypeOK ==
  /\ phase \in {"down", "register", "report", "loop", "task"}
  /\ able \in Caps
  /\ awaits \in Calls \cup {NoCall}
  /\ contact \in Ages
  /\ memory \in Rows /\ stored \in Rows
  /\ call \in [Calls -> CallStates]
  /\ list \in [at : {"free", "write"}, row : Rows, stale : BOOLEAN]
  /\ overtaken \in BOOLEAN
  /\ faults \in 0..MaxFaults

Init ==
  /\ phase = "down" /\ able = CHOOSE c \in Caps : TRUE
  /\ awaits = NoCall /\ contact = Old
  /\ memory = Absent /\ stored = Absent
  /\ call = [c \in Calls |-> Idle]
  /\ list = [at |-> "free", row |-> Absent, stale |-> FALSE]
  /\ overtaken = FALSE
  /\ faults = 0

-----------------------------------------------------------------------------
(* The agent.                                                              *)

Begins ==
  /\ phase = "down" /\ phase' = "register"
  /\ able' \in Caps
  /\ UNCHANGED <<awaits, contact, controller, faults>>

\* What the agent asks of the controller in each phase.
Asks == CASE phase = "register" -> "register"
          [] phase = "report" -> "report"
          [] phase = "loop" -> "heartbeat"
          [] OTHER -> "none"

\* Any slot that is free serves as well as another.
Call ==
  /\ Asks # "none" /\ awaits = NoCall
  /\ \E c \in Calls : call[c] = Idle
  /\ awaits' = CHOOSE c \in Calls : call[c] = Idle
  /\ contact' = 0
  /\ call' = [call EXCEPT ![awaits'] =
       [kind |-> Asks, at |-> IF Asks = "heartbeat" THEN "read" ELSE "write",
        beat |-> 0, caps |-> IF Asks = "report" THEN able ELSE NoCaps,
        stale |-> FALSE]]
  /\ UNCHANGED <<phase, able, memory, stored, list, overtaken, faults>>

\* The bootstrap calls are repeated until they succeed; a heartbeat that
\* fails is left at that.
Answered(c) ==
  /\ awaits = c /\ call[c].at \in {"ok", "failed"}
  /\ phase' = CASE call[c].at = "failed" -> phase
                [] call[c].kind = "register" -> "report"
                [] OTHER -> "loop"
  /\ awaits' = NoCall
  /\ call' = [call EXCEPT ![c] = Idle]
  /\ UNCHANGED <<able, contact, memory, stored, list, overtaken, faults>>

\* Whatever the controller has answered, or will, is lost.
Abandons ==
  /\ faults < MaxFaults /\ faults' = faults + 1
  /\ awaits' = NoCall
  /\ call' = [c \in Calls |-> IF call[c].at \in {"ok", "failed"} THEN Idle ELSE call[c]]
  /\ UNCHANGED <<able, contact, memory, stored, list, overtaken>>

\* The agent's time limit for a call.
GivesUp ==
  /\ awaits # NoCall
  /\ Abandons
  /\ UNCHANGED phase

TaskBegins ==
  /\ phase = "loop" /\ awaits = NoCall
  /\ phase' = "task"
  /\ UNCHANGED <<able, awaits, contact, controller, faults>>

TaskEnds ==
  /\ phase = "task"
  /\ phase' = "loop"
  /\ UNCHANGED <<able, awaits, contact, controller, faults>>

Dies ==
  /\ phase # "down" /\ phase' = "down"
  /\ Abandons

-----------------------------------------------------------------------------
(* The controller.                                                         *)

At(c, step) == call[c].at = step

\* A report makes every row read before it, or still to be reported, stale.
Overtaken(calls) ==
  [c \in Calls |->
     IF calls[c].at = "save" \/ (calls[c].kind \in {"heartbeat", "report"}
                                   /\ calls[c].at = "write")
     THEN [calls[c] EXCEPT !.stale = TRUE] ELSE calls[c]]

\* What a call writes.
Said(c) == Row(call[c].beat, call[c].caps)

\* Mutation: the registration of a known agent begins its row anew.
Kept_Nothing == NoCaps

\* A registration keeps the capabilities of a known agent.
Kept == memory.caps

Register(c) ==
  /\ At(c, "write") /\ call[c].kind = "register"
  /\ memory' = Row(call[c].beat, Kept)
  /\ call' = [call EXCEPT ![c].caps = Kept, ![c].at = "save"]
  /\ UNCHANGED <<agent, stored, list, overtaken, faults>>

Report(c) ==
  /\ At(c, "write") /\ call[c].kind = "report"
  /\ memory' = Said(c)
  /\ call' = [Overtaken(call) EXCEPT ![c] = [call[c] EXCEPT !.at = "save"]]
  /\ list' = [list EXCEPT !.stale = list.at = "write"]
  /\ overtaken' = call[c].stale
  /\ UNCHANGED <<agent, stored, faults>>

\* An answer is for who awaits it.
Ends(c, result) ==
  call' = [call EXCEPT ![c] = IF awaits = c THEN [@ EXCEPT !.at = result] ELSE Idle]

\* Memory is asked first, then the database.
HeartbeatReads(c) ==
  /\ At(c, "read")
  /\ IF memory.known \/ stored.known
     THEN call' = [call EXCEPT
            ![c].caps = IF memory.known THEN memory.caps ELSE stored.caps,
            ![c].at = "write"]
     ELSE Ends(c, "failed")
  /\ UNCHANGED <<agent, memory, stored, list, overtaken, faults>>

\* Mutation: a heartbeat is only noted in memory.
HeartbeatWrites_NoSave(c) ==
  /\ At(c, "write") /\ call[c].kind = "heartbeat"
  /\ memory' = Said(c)
  /\ Ends(c, "ok")
  /\ overtaken' = (overtaken \/ call[c].stale)
  /\ UNCHANGED <<agent, stored, list, faults>>

HeartbeatWrites(c) ==
  /\ At(c, "write") /\ call[c].kind = "heartbeat"
  /\ memory' = Said(c)
  /\ call' = [call EXCEPT ![c].at = "save"]
  /\ overtaken' = (overtaken \/ call[c].stale)
  /\ UNCHANGED <<agent, stored, list, faults>>

Saved(c) ==
  /\ stored' = Said(c)
  /\ overtaken' = (overtaken \/ call[c].stale)
  /\ UNCHANGED faults

NotSaved ==
  /\ faults < MaxFaults /\ faults' = faults + 1
  /\ UNCHANGED <<stored, overtaken>>

\* persistAgent: the call succeeds if the row is saved.
Saves(c) ==
  /\ At(c, "save")
  /\ \/ Saved(c) /\ Ends(c, "ok")
     \/ NotSaved /\ Ends(c, "failed")
  /\ UNCHANGED <<agent, memory, list>>

\* List, GetByID and ListByNodeID read the database, and write what they have
\* read into memory.  A report still to be saved is newer than what they read.
ListReads ==
  /\ list.at = "free" /\ stored.known
  /\ list' = [at |-> "write", row |-> stored,
              stale |-> overtaken \/ memory.caps # stored.caps]
  /\ UNCHANGED <<agent, memory, stored, call, overtaken, faults>>

ListWrites ==
  /\ list.at = "write"
  /\ memory' = list.row
  /\ overtaken' = (overtaken \/ list.stale)
  /\ list' = [at |-> "free", row |-> Absent, stale |-> FALSE]
  /\ UNCHANGED <<agent, stored, call, faults>>

\* Mutation: a restarted controller begins with no rows.
Loaded_Nothing == Absent

\* A restarted controller loads the rows of the database.
Loaded == stored

Restart ==
  /\ faults < MaxFaults
  /\ faults' = faults + 1
  /\ memory' = Loaded
  /\ call' = [c \in Calls |-> Idle]
  /\ list' = [at |-> "free", row |-> Absent, stale |-> FALSE]
  /\ awaits' = NoCall
  /\ UNCHANGED <<phase, able, contact, stored, overtaken>>

Older(age) == IF age = Old THEN Old ELSE age + 1
Ageing(row) == [row EXCEPT !.beat = Older(row.beat)]

\* A call is given up before the time to live is over.
Tick ==
  /\ awaits # NoCall => contact < TTL
  /\ contact' = Older(contact)
  /\ memory' = Ageing(memory) /\ stored' = Ageing(stored)
  /\ call' = [c \in Calls |-> [call[c] EXCEPT !.beat = Older(@)]]
  /\ list' = [list EXCEPT !.row = Ageing(@)]
  /\ UNCHANGED <<phase, able, awaits, overtaken, faults>>

CallStep(c) ==
  \/ Register(c) \/ Report(c) \/ HeartbeatReads(c) \/ HeartbeatWrites(c)
  \/ Saves(c)
AgentStep == Begins \/ Call \/ \E c \in Calls : Answered(c)

Next ==
  \/ AgentStep \/ GivesUp \/ TaskBegins \/ TaskEnds \/ Dies
  \/ \E c \in Calls : CallStep(c)
  \/ ListReads \/ ListWrites \/ Restart \/ Tick

Spec == Init /\ [][Next]_vars
-----------------------------------------------------------------------------
(* Properties.                                                             *)

\* Mutation: the status the agent sent is shown.
Fresh_Reported(row) == row.known

\* withComputedStatus.
Fresh(row) == row.known /\ row.beat <= TTL

\* The database is asked first.
Online == IF stored.known THEN Fresh(stored) ELSE Fresh(memory)

(***************************************************************************)
(* An agent is shown online only if it called within the time to live:     *)
(* not a slow call, a late save, a list's older row or a restart of the    *)
(* controller makes a silent agent look alive.                             *)
(***************************************************************************)
OnlineIsRecent == Online => contact <= TTL

(***************************************************************************)
(* An agent the database knows is known in memory, after every restart and *)
(* whatever was read or saved meanwhile: a registration or a report, which *)
(* look only there, build on the agent there is.                           *)
(***************************************************************************)
StoredIsKnown == stored.known => memory.known

(***************************************************************************)
(* Both places know what the agent at work has reported, whichever of its  *)
(* calls were given up, repeated or failed, unless a row that was read     *)
(* before the report was written after it.                                 *)
(***************************************************************************)
ReportKept ==
  phase \in {"loop", "task"} /\ ~overtaken => memory.caps = able /\ stored.caps = able

\* Calls and tasks end, a waiting loop is not for ever passed over for the
\* tasks, and an agent that has gone is started again.
Fairness ==
  /\ WF_vars(Begins) /\ WF_vars(TaskEnds)
  /\ WF_vars(\E c \in Calls : CallStep(c) \/ Answered(c))
  /\ SF_vars(Call)

(***************************************************************************)
(* An agent is always shown online again: after long tasks, failed saves,  *)
(* and restarts of either side, for which a heartbeat must find the agent  *)
(* known, as it does not register again.                                   *)
(***************************************************************************)
SeenOnline == Fairness => []<>Online
=============================================================================
