------------------------ MODULE AgentRegistryProofs ------------------------
(***************************************************************************)
(* Theorems about the registry of agents, for any calls, capabilities and  *)
(* bounds: of the constants only their kind is assumed, and that the sign  *)
(* for no call is not one.                                                 *)
(***************************************************************************)
EXTENDS AgentRegistry, TLAPS

ConstantsOK ==
  TTL \in Nat /\ MaxFaults \in Nat /\ Caps # {} /\ NoCall \notin Calls

\* What is still to be saved is known in memory, and a reader has read a known
\* row: a row is forgotten only by a restart, which ends calls and readers.
IInv ==
  /\ TypeOK
  /\ StoredIsKnown
  /\ \A c \in Calls : call[c].at = "save" => memory.known
  /\ list.at = "write" => list.row.known

\* Nothing is younger than the agent's latest call.
Beats ==
  /\ memory.beat >= contact /\ stored.beat >= contact /\ list.row.beat >= contact
  /\ \A c \in Calls : call[c].beat >= contact

\* The call the agent awaits is what it asks for in its phase; only heartbeats
\* read first.
Asked ==
  /\ awaits # NoCall =>
       /\ phase \in {"register", "report", "loop"}
       /\ call[awaits].kind = Asks /\ call[awaits].at # "free"
       /\ Asks = "report" => call[awaits].caps = able
  /\ \A c \in Calls : call[c].at = "read" => call[c].kind = "heartbeat"

\* A call that has capabilities to write.
Carries(c) ==
  \/ call[c].at = "save"
  \/ call[c].kind \in {"heartbeat", "report"} /\ call[c].at = "write"

\* The report of the agent at work is in memory, or in the database too.
ReportAt(steps) ==
  \/ phase \in {"loop", "task"}
  \/ awaits # NoCall /\ phase = "report" /\ call[awaits].at \in steps
InMemory == ReportAt({"save", "ok"})
InDatabase == ReportAt({"ok"})

\* From then on only what was read before it could undo it, and is marked.
MarkedOrKept ==
  /\ InMemory =>
       /\ \A c \in Calls : call[c].kind = "report" /\ call[c].at = "write" => call[c].stale
       /\ ~overtaken =>
            /\ memory.caps = able
            /\ \A c \in Calls : Carries(c) /\ ~call[c].stale => call[c].caps = able
            /\ list.at = "write" /\ ~list.stale => list.row.caps = able
  /\ InDatabase /\ ~overtaken => stored.caps = able

\* The inductive invariant of what the agent is shown as and known by.
KInv == IInv /\ Beats /\ Asked /\ MarkedOrKept

-----------------------------------------------------------------------------
(* Lemmas about rows.                                                      *)

LEMMA IdleIsCall == ConstantsOK => Idle \in CallStates /\ Idle.at = "free"
  BY DEF ConstantsOK, Idle, CallStates, Kinds, Steps, Ages, Old

LEMMA AbsentIsRow == ConstantsOK => Absent \in Rows /\ ~Absent.known
  BY DEF ConstantsOK, Rows, Absent, Ages, Old

\* A row made of an age and capabilities is a known row.
LEMMA RowIsKnown ==
  ASSUME NEW b \in Ages, NEW c \in Caps \cup {NoCaps}
  PROVE  Row(b, c) \in Rows /\ Row(b, c).known
  BY DEF Rows, Row

LEMMA RowHasCaps ==
  ASSUME NEW r \in Rows
  PROVE  r.caps \in Caps \cup {NoCaps} /\ r.known \in BOOLEAN
  BY DEF Rows

\* Ageing leaves a row what it is.
LEMMA AgeingKeeps ==
  ASSUME ConstantsOK, NEW r \in Rows
  PROVE  Ageing(r) \in Rows /\ Ageing(r).known = r.known
<1>1. Older(r.beat) \in Ages
  BY DEF ConstantsOK, Rows, Ages, Older, Old
<1>2. QED
  BY <1>1 DEF Ageing, Rows

-----------------------------------------------------------------------------
(* Every step keeps the invariant.                                         *)

LEMMA InitOK == ConstantsOK /\ Init => IInv
<1> SUFFICES ASSUME ConstantsOK, Init PROVE IInv
  OBVIOUS
<1>1. able \in Caps
  BY DEF Init, ConstantsOK
<1>2. contact \in Ages /\ faults \in 0..MaxFaults
  BY DEF Init, ConstantsOK, Ages, Old
<1>3. call \in [Calls -> CallStates]
  BY IdleIsCall DEF Init
<1>4. TypeOK
  BY <1>1, <1>2, <1>3, AbsentIsRow DEF Init, TypeOK
<1>5. QED
  BY <1>4, IdleIsCall, AbsentIsRow DEF Init, IInv, StoredIsKnown

LEMMA AgentKeeps ==
  ConstantsOK /\ IInv /\ (AgentStep \/ GivesUp \/ TaskBegins \/ TaskEnds \/ Dies) => IInv'
<1> SUFFICES ASSUME ConstantsOK, IInv,
                    AgentStep \/ GivesUp \/ TaskBegins \/ TaskEnds \/ Dies
             PROVE  IInv'
  OBVIOUS
<1> USE DEF IInv, StoredIsKnown, TypeOK, ConstantsOK
<1>1. CASE Begins
  BY <1>1 DEF Begins, controller
<1>2. CASE Call
  <2>1. awaits' \in Calls
    BY <1>2 DEF Call
  <2>2. Asks \in Kinds
    BY <1>2 DEF Call, Asks, Kinds
  <2> DEFINE at == IF Asks = "heartbeat" THEN "read" ELSE "write"
             caps == IF Asks = "report" THEN able ELSE NoCaps
             asked == [kind |-> Asks, at |-> at, beat |-> 0, caps |-> caps,
                       stale |-> FALSE]
  <2>3. asked \in CallStates /\ asked.at # "save"
    BY <2>2 DEF CallStates, Steps, Ages, Old
  <2>4. call' = [call EXCEPT ![awaits'] = asked]
    BY <1>2 DEF Call
  <2>5. /\ call' \in [Calls -> CallStates]
        /\ \A c \in Calls : call'[c].at = "save" => call[c].at = "save"
    BY <2>1, <2>3, <2>4
  <2>6. contact' \in Ages
    BY <1>2 DEF Call, Ages, Old
  <2>7. QED
    BY <1>2, <2>1, <2>5, <2>6 DEF Call
<1>3. ASSUME NEW c \in Calls, Answered(c) PROVE IInv'
  <2>1. /\ call' \in [Calls -> CallStates]
        /\ \A d \in Calls : call'[d].at = "save" => call[d].at = "save"
    BY <1>3, IdleIsCall DEF Answered
  <2>2. QED
    BY <1>3, <2>1 DEF Answered
<1>4. ASSUME Abandons, phase' \in {"down", phase} PROVE IInv'
  <2>1. /\ call' \in [Calls -> CallStates]
        /\ \A d \in Calls : call'[d].at = "save" => call[d].at = "save"
    BY <1>4, IdleIsCall DEF Abandons
  <2>2. faults' \in 0..MaxFaults
    BY <1>4 DEF Abandons
  <2>3. QED
    BY <1>4, <2>1, <2>2 DEF Abandons
<1>5. CASE TaskBegins \/ TaskEnds
  BY <1>5 DEF TaskBegins, TaskEnds, controller
<1>6. QED
  BY <1>1, <1>2, <1>3, <1>4, <1>5 DEF AgentStep, GivesUp, Dies

LEMMA CallKeeps ==
  ASSUME ConstantsOK, IInv, NEW c \in Calls, CallStep(c)
  PROVE  IInv'
<1> USE DEF IInv, StoredIsKnown, TypeOK, ConstantsOK
<1>0. /\ call[c].beat \in Ages /\ call[c].caps \in Caps \cup {NoCaps}
      /\ call[c].stale \in BOOLEAN
      /\ memory.caps \in Caps \cup {NoCaps} /\ stored.caps \in Caps \cup {NoCaps}
  BY RowHasCaps DEF CallStates
<1>1. CASE Register(c)
  <2>1. memory' \in Rows /\ memory'.known
    BY <1>0, <1>1, RowIsKnown DEF Register, Kept
  <2>2. call' \in [Calls -> CallStates]
    <3>1. [call[c] EXCEPT !.caps = memory.caps, !.at = "save"] \in CallStates
      BY <1>0 DEF CallStates, Steps
    <3>2. call' = [call EXCEPT ![c] = [call[c] EXCEPT !.caps = memory.caps, !.at = "save"]]
      BY <1>1 DEF Register, Kept, CallStates
    <3>3. QED
      BY <3>1, <3>2
  <2>3. QED
    BY <1>1, <2>1, <2>2 DEF Register, agent
<1>2. CASE Report(c)
  <2>1. memory' \in Rows /\ memory'.known
    BY <1>0, <1>2, RowIsKnown DEF Report, Said
  <2>2. Overtaken(call) \in [Calls -> CallStates]
    BY DEF Overtaken, CallStates
  <2>3. [call[c] EXCEPT !.at = "save"] \in CallStates
    BY DEF CallStates, Steps
  <2>4. call' \in [Calls -> CallStates]
    BY <1>2, <2>2, <2>3 DEF Report
  <2>5. list' \in [at : {"free", "write"}, row : Rows, stale : BOOLEAN]
        /\ (list'.at = "write" => list'.row.known)
    BY <1>2 DEF Report
  <2>6. QED
    BY <1>0, <1>2, <2>1, <2>4, <2>5 DEF Report, agent
<1>3. ASSUME NEW result \in {"ok", "failed"}, Ends(c, result)
      PROVE  /\ call' \in [Calls -> CallStates]
             /\ \A d \in Calls : call'[d].at = "save" => call[d].at = "save"
  <2>1. [call[c] EXCEPT !.at = result] \in CallStates
    BY DEF CallStates, Steps
  <2>2. [call[c] EXCEPT !.at = result].at = result
    BY DEF CallStates
  <2>3. QED
    BY <1>3, <2>1, <2>2, IdleIsCall DEF Ends
<1>4. CASE HeartbeatReads(c)
  <2>1. CASE memory.known \/ stored.known
    <3> DEFINE caps == IF memory.known THEN memory.caps ELSE stored.caps
    <3>1. [call[c] EXCEPT !.caps = caps, !.at = "write"] \in CallStates
      BY <1>0 DEF CallStates, Steps
    <3>2. [call[c] EXCEPT !.caps = caps, !.at = "write"].at = "write"
      BY DEF CallStates
    <3>3. call' = [call EXCEPT ![c] = [call[c] EXCEPT !.caps = caps, !.at = "write"]]
      BY <1>4, <2>1 DEF HeartbeatReads, CallStates
    <3>4. QED
      BY <1>4, <3>1, <3>2, <3>3 DEF HeartbeatReads, agent
  <2>2. CASE ~(memory.known \/ stored.known)
    BY <1>3, <1>4, <2>2 DEF HeartbeatReads, agent
  <2>3. QED
    BY <2>1, <2>2
<1>5. CASE HeartbeatWrites(c)
  <2>1. memory' \in Rows /\ memory'.known
    BY <1>0, <1>5, RowIsKnown DEF HeartbeatWrites, Said
  <2>2. call' \in [Calls -> CallStates]
    BY <1>5 DEF HeartbeatWrites, CallStates, Steps
  <2>3. QED
    BY <1>0, <1>5, <2>1, <2>2 DEF HeartbeatWrites, agent
<1>6. CASE Saves(c)
  <2>1. memory.known
    BY <1>6 DEF Saves, At
  <2>2. CASE Saved(c) /\ Ends(c, "ok")
    <3>1. stored' \in Rows
      BY <1>0, <2>2, RowIsKnown DEF Saved, Said
    <3>2. QED
      BY <1>0, <1>3, <1>6, <2>1, <2>2, <3>1 DEF Saves, Saved, agent
  <2>3. CASE NotSaved /\ Ends(c, "failed")
    <3>1. faults' \in 0..MaxFaults
      BY <2>3 DEF NotSaved
    <3>2. QED
      BY <1>3, <1>6, <2>3, <3>1 DEF Saves, NotSaved, agent
  <2>4. QED
    BY <1>6, <2>2, <2>3 DEF Saves
<1>7. QED
  BY <1>1, <1>2, <1>4, <1>5, <1>6 DEF CallStep

LEMMA RestKeeps ==
  ConstantsOK /\ IInv /\ (ListReads \/ ListWrites \/ Restart \/ Tick) => IInv'
<1> SUFFICES ASSUME ConstantsOK, IInv, ListReads \/ ListWrites \/ Restart \/ Tick
             PROVE  IInv'
  OBVIOUS
<1> USE DEF IInv, StoredIsKnown, TypeOK, ConstantsOK
<1>1. CASE ListReads
  BY <1>1 DEF ListReads, agent
<1>2. CASE ListWrites
  BY <1>2, AbsentIsRow DEF ListWrites, agent
<1>3. CASE Restart
  <2>1. faults' \in 0..MaxFaults
    BY <1>3 DEF Restart
  <2>2. call' \in [Calls -> CallStates] /\ \A c \in Calls : call'[c].at # "save"
    BY <1>3, IdleIsCall DEF Restart
  <2>3. QED
    BY <1>3, <2>1, <2>2, AbsentIsRow DEF Restart, Loaded
<1>4. CASE Tick
  <2>1. \A age \in Ages : Older(age) \in Ages
    BY DEF Ages, Older, Old
  <2>2. /\ memory' \in Rows /\ memory'.known = memory.known
        /\ stored' \in Rows /\ stored'.known = stored.known
    BY <1>4, AgeingKeeps DEF Tick
  <2>3. \A c \in Calls : /\ [call[c] EXCEPT !.beat = Older(@)] \in CallStates
                         /\ [call[c] EXCEPT !.beat = Older(@)].at = call[c].at
    BY <2>1 DEF CallStates
  <2>4. call' \in [Calls -> CallStates] /\ \A c \in Calls : call'[c].at = call[c].at
    BY <1>4, <2>3 DEF Tick
  <2>5. Ageing(list.row) \in Rows /\ Ageing(list.row).known = list.row.known
    BY AgeingKeeps
  <2>6. /\ list' \in [at : {"free", "write"}, row : Rows, stale : BOOLEAN]
        /\ list'.at = list.at /\ list'.row = Ageing(list.row)
    BY <1>4, <2>5 DEF Tick
  <2>7. QED
    BY <1>4, <2>1, <2>2, <2>4, <2>5, <2>6 DEF Tick
<1>5. QED
  BY <1>1, <1>2, <1>3, <1>4

LEMMA Invariance == ASSUME ConstantsOK PROVE Spec => []IInv
<1>1. Init => IInv
  BY InitOK
<1>2. IInv /\ [Next]_vars => IInv'
  <2>1. ASSUME IInv, Next PROVE IInv'
    BY <2>1, AgentKeeps, CallKeeps, RestKeeps DEF Next
  <2>2. ASSUME IInv, UNCHANGED vars PROVE IInv'
    BY <2>2 DEF IInv, TypeOK, StoredIsKnown, vars, agent, controller
  <2>3. QED
    BY <2>1, <2>2
<1>3. QED
  BY <1>1, <1>2, PTL DEF Spec

-----------------------------------------------------------------------------
(* No row is younger than the agent's latest call.                         *)

LEMMA BeatsAtFirst == ConstantsOK /\ Init => Beats
  BY DEF ConstantsOK, Init, Beats, Absent, Idle, Old

\* What every row and call is stamped with.
LEMMA BeatsAreAges ==
  ASSUME IInv
  PROVE  /\ contact \in Ages /\ memory.beat \in Ages /\ stored.beat \in Ages
         /\ list.row.beat \in Ages
         /\ \A c \in Calls : call[c].beat \in Ages
  BY DEF IInv, TypeOK, Rows, CallStates

\* Unless the agent calls or time passes, every stamp is an earlier one or Old.
LEMMA StampsMove ==
  ASSUME ConstantsOK, IInv, Beats, contact' = contact,
         \/ memory'.beat \in {memory.beat, stored.beat, list.row.beat}
         \/ \E c \in Calls : memory'.beat = call[c].beat,
         \/ stored'.beat = stored.beat
         \/ \E c \in Calls : stored'.beat = call[c].beat,
         list'.row.beat \in {list.row.beat, stored.beat, Old},
         \A c \in Calls : call'[c].beat \in {call[c].beat, Old}
  PROVE  Beats'
<1>1. Old >= contact
  BY BeatsAreAges DEF ConstantsOK, Ages, Old
<1>2. QED
  BY <1>1 DEF Beats

LEMMA CallStamps ==
  ASSUME ConstantsOK, IInv, Beats, NEW c \in Calls, CallStep(c)
  PROVE  Beats'
<1> USE DEF IInv, TypeOK
<1>1. contact' = contact
  BY DEF CallStep, Register, Report, HeartbeatReads, HeartbeatWrites, Saves, agent
<1>2. ASSUME NEW result, Ends(c, result)
      PROVE  \A d \in Calls : call'[d].beat \in {call[d].beat, Old}
  <2>1. Idle.beat = Old
    BY DEF Idle
  <2>2. [call[c] EXCEPT !.at = result].beat = call[c].beat
    BY DEF CallStates
  <2>3. QED
    BY <1>2, <2>1, <2>2 DEF Ends
<1>3. CASE Register(c)
  <2>1. /\ memory'.beat = call[c].beat /\ stored' = stored /\ list' = list
        /\ \A d \in Calls : call'[d].beat = call[d].beat
    BY <1>3 DEF Register, Row, CallStates
  <2>2. QED
    BY <1>1, <2>1, StampsMove
<1>4. CASE Report(c)
  <2>1. \A d \in Calls : Overtaken(call)[d].beat = call[d].beat
    BY DEF Overtaken, CallStates
  <2>2. /\ memory'.beat = call[c].beat /\ stored' = stored
        /\ list'.row = list.row
        /\ \A d \in Calls : call'[d].beat = call[d].beat
    BY <1>4, <2>1 DEF Report, Said, Row, CallStates, Overtaken
  <2>3. QED
    BY <1>1, <2>2, StampsMove
<1>5. CASE HeartbeatReads(c)
  <2>1. memory' = memory /\ stored' = stored /\ list' = list
    BY <1>5 DEF HeartbeatReads
  <2>2. \A d \in Calls : call'[d].beat \in {call[d].beat, Old}
    BY <1>2, <1>5 DEF HeartbeatReads, CallStates
  <2>3. QED
    BY <1>1, <2>1, <2>2, StampsMove
<1>6. CASE HeartbeatWrites(c)
  <2>1. /\ memory'.beat = call[c].beat /\ stored' = stored /\ list' = list
        /\ \A d \in Calls : call'[d].beat = call[d].beat
    BY <1>6 DEF HeartbeatWrites, Said, Row, CallStates
  <2>2. QED
    BY <1>1, <2>1, StampsMove
<1>7. CASE Saves(c)
  <2>1. memory' = memory /\ list' = list
    BY <1>7 DEF Saves
  <2>2. \A d \in Calls : call'[d].beat \in {call[d].beat, Old}
    BY <1>2, <1>7 DEF Saves
  <2>3. stored' = stored \/ stored'.beat = call[c].beat
    BY <1>7 DEF Saves, Saved, NotSaved, Said, Row
  <2>4. QED
    BY <1>1, <2>1, <2>2, <2>3, StampsMove
<1>8. QED
  BY <1>3, <1>4, <1>5, <1>6, <1>7 DEF CallStep

LEMMA BeatsStay == ConstantsOK /\ IInv /\ Beats /\ [Next]_vars => Beats'
<1> SUFFICES ASSUME ConstantsOK, IInv, Beats, [Next]_vars PROVE Beats'
  OBVIOUS
<1> USE DEF IInv, TypeOK
<1>1. CASE Begins \/ TaskBegins \/ TaskEnds \/ UNCHANGED vars
  <2>1. UNCHANGED <<contact, controller>>
    BY <1>1 DEF Begins, TaskBegins, TaskEnds, vars, agent
  <2>2. QED
    BY <2>1 DEF Beats, controller
<1>2. CASE Call
  <2>1. /\ contact' = 0 /\ UNCHANGED <<memory, stored, list>>
        /\ \A c \in Calls : call'[c].beat \in {0, call[c].beat}
    BY <1>2 DEF Call
  <2>2. \A age \in Ages : age >= 0
    BY DEF Ages
  <2>3. 0 >= 0
    OBVIOUS
  <2>4. QED
    BY <2>1, <2>2, <2>3, BeatsAreAges DEF Beats
<1>3. ASSUME UNCHANGED <<contact, memory, stored, list>>,
             \A c \in Calls : call'[c] \in {Idle, call[c]}
      PROVE  Beats'
  <2>1. \A c \in Calls : call'[c].beat \in {call[c].beat, Old}
    BY <1>3 DEF Idle
  <2>2. QED
    BY <1>3, <2>1, StampsMove
<1>4. CASE (\E c \in Calls : Answered(c)) \/ GivesUp \/ Dies
  <2>1. /\ UNCHANGED <<contact, memory, stored, list>>
        /\ \A c \in Calls : call'[c] \in {Idle, call[c]}
    BY <1>4 DEF Answered, GivesUp, Dies, Abandons
  <2>2. QED
    BY <1>3, <2>1
<1>5. CASE ListReads \/ ListWrites
  <2>1. /\ UNCHANGED <<contact, stored, call>>
        /\ memory'.beat \in {memory.beat, list.row.beat}
        /\ list'.row.beat \in {stored.beat, Old}
    BY <1>5 DEF ListReads, ListWrites, Absent, agent
  <2>2. QED
    BY <2>1, StampsMove
<1>6. CASE Restart
  <2>1. /\ UNCHANGED <<contact, stored>> /\ memory' = stored
        /\ list'.row.beat = Old
        /\ \A c \in Calls : call'[c].beat = Old
    BY <1>6 DEF Restart, Loaded, Absent, Idle
  <2>2. QED
    BY <2>1, StampsMove
<1>7. CASE Tick
  <2>1. \A a, b \in Ages : a >= b => Older(a) >= Older(b)
    BY DEF ConstantsOK, Ages, Older, Old
  <2>2. /\ contact' = Older(contact) /\ memory'.beat = Older(memory.beat)
        /\ stored'.beat = Older(stored.beat)
        /\ list'.row.beat = Older(list.row.beat)
        /\ \A c \in Calls : call'[c].beat = Older(call[c].beat)
    BY <1>7 DEF Tick, Ageing, Rows, CallStates
  <2>3. QED
    BY <2>1, <2>2, BeatsAreAges DEF Beats
<1>8. CASE \E c \in Calls : CallStep(c)
  BY <1>8, CallStamps
<1>9. QED
  BY <1>1, <1>2, <1>4, <1>5, <1>6, <1>7, <1>8 DEF Next, AgentStep

-----------------------------------------------------------------------------
(* The agent awaits what it asks for.                                      *)

LEMMA AskedAtFirst == ConstantsOK /\ Init => Asked
  BY DEF ConstantsOK, Init, Asked, Idle

\* A step of the controller ends no call the agent awaits, and changes neither
\* what a call asks for nor what it reports.
LEMMA AskedMoves ==
  ASSUME ConstantsOK, IInv, Asked, UNCHANGED <<phase, able, awaits>>,
         \A d \in Calls :
           /\ call'[d].at = "read" => call'[d].kind = call[d].kind /\ call[d].at = "read"
           /\ d = awaits =>
                /\ call'[d].kind = call[d].kind
                /\ call[d].at # "free" => call'[d].at # "free"
                /\ call[d].kind = "report" => call'[d].caps = call[d].caps
  PROVE  Asked'
<1>1. awaits # NoCall => awaits \in Calls
  BY DEF IInv, TypeOK
<1>2. Asks' = Asks
  BY DEF Asks
<1>3. QED
  BY <1>1, <1>2 DEF Asked

LEMMA CallAsks ==
  ASSUME ConstantsOK, IInv, Asked, NEW c \in Calls, CallStep(c)
  PROVE  Asked'
<1> USE DEF IInv, TypeOK, At
<1>1. UNCHANGED <<phase, able, awaits>>
  BY DEF CallStep, Register, Report, HeartbeatReads, HeartbeatWrites, Saves, agent
<1> DEFINE Same(d) ==
      /\ call'[d].at = "read" => call'[d].kind = call[d].kind /\ call[d].at = "read"
      /\ d = awaits =>
           /\ call'[d].kind = call[d].kind
           /\ call[d].at # "free" => call'[d].at # "free"
           /\ call[d].kind = "report" => call'[d].caps = call[d].caps
<1>2. ASSUME NEW result \in {"ok", "failed"}, Ends(c, result)
      PROVE  \A d \in Calls : Same(d)
  <2>1. \A d \in Calls \ {c} : call'[d] = call[d]
    BY <1>2 DEF Ends
  <2>2. /\ [call[c] EXCEPT !.at = result].at = result
        /\ [call[c] EXCEPT !.at = result].kind = call[c].kind
        /\ [call[c] EXCEPT !.at = result].caps = call[c].caps
    BY DEF CallStates
  <2>3. Same(c)
    BY <1>2, <2>2 DEF Ends, Idle
  <2>4. QED
    BY <2>1, <2>3
<1>3. CASE Register(c)
  <2>1. \A d \in Calls : Same(d)
    BY <1>3 DEF Register, CallStates
  <2>2. QED
    BY <1>1, <2>1, AskedMoves
<1>4. CASE Report(c)
  <2>1. \A d \in Calls : /\ Overtaken(call)[d].at = call[d].at
                         /\ Overtaken(call)[d].kind = call[d].kind
                         /\ Overtaken(call)[d].caps = call[d].caps
    BY DEF Overtaken, CallStates
  <2>2. \A d \in Calls \ {c} : call'[d] = Overtaken(call)[d]
    BY <1>4 DEF Report, Overtaken
  <2>3. call'[c] = [call[c] EXCEPT !.at = "save"]
    BY <1>4 DEF Report, Overtaken
  <2>4. Same(c)
    BY <2>3 DEF CallStates
  <2>5. \A d \in Calls : Same(d)
    BY <2>1, <2>2, <2>4
  <2>6. QED
    BY <1>1, <2>5, AskedMoves
<1>5. CASE HeartbeatReads(c)
  <2>1. call[c].kind = "heartbeat"
    BY <1>5 DEF HeartbeatReads, Asked
  <2>2. CASE memory.known \/ stored.known
    <3>1. \A d \in Calls : Same(d)
      BY <1>5, <2>1, <2>2 DEF HeartbeatReads, CallStates
    <3>2. QED
      BY <1>1, <3>1, AskedMoves
  <2>3. CASE ~(memory.known \/ stored.known)
    <3>1. \A d \in Calls : Same(d)
      BY <1>2, <1>5, <2>3 DEF HeartbeatReads
    <3>2. QED
      BY <1>1, <3>1, AskedMoves
  <2>4. QED
    BY <2>2, <2>3
<1>6. CASE HeartbeatWrites(c)
  <2>1. \A d \in Calls : Same(d)
    BY <1>6 DEF HeartbeatWrites, CallStates
  <2>2. QED
    BY <1>1, <2>1, AskedMoves
<1>7. CASE Saves(c)
  <2>1. \A d \in Calls : Same(d)
    BY <1>2, <1>7 DEF Saves
  <2>2. QED
    BY <1>1, <2>1, AskedMoves
<1>8. QED
  BY <1>3, <1>4, <1>5, <1>6, <1>7 DEF CallStep

LEMMA AskedStays == ConstantsOK /\ IInv /\ Asked /\ [Next]_vars => Asked'
<1> SUFFICES ASSUME ConstantsOK, IInv, Asked, [Next]_vars PROVE Asked'
  OBVIOUS
<1> USE DEF IInv, TypeOK
<1>1. ASSUME awaits' = NoCall, \A c \in Calls : call'[c] \in {Idle, call[c]}
      PROVE  Asked'
  BY <1>1 DEF Asked, Idle
<1>2. CASE Begins
  <2>1. awaits = NoCall
    BY <1>2 DEF Asked, Begins
  <2>2. QED
    BY <1>1, <1>2, <2>1 DEF Begins, controller
<1>3. CASE TaskBegins \/ TaskEnds
  <2>1. awaits = NoCall
    BY <1>3 DEF Asked, TaskBegins, TaskEnds
  <2>2. QED
    BY <1>1, <1>3, <2>1 DEF TaskBegins, TaskEnds, controller
<1>4. CASE Call
  <2>1. awaits' \in Calls
    BY <1>4 DEF Call
  <2>2. phase \in {"register", "report", "loop"} /\ Asks' = Asks
    BY <1>4 DEF Call, Asks
  <2>3. /\ call'[awaits'].kind = Asks
        /\ call'[awaits'].at = IF Asks = "heartbeat" THEN "read" ELSE "write"
        /\ call'[awaits'].caps = IF Asks = "report" THEN able ELSE NoCaps
    BY <1>4, <2>1 DEF Call
  <2>4. \A c \in Calls : c # awaits' => call'[c] = call[c]
    BY <1>4, <2>1 DEF Call
  <2>5. phase' = phase /\ able' = able
    BY <1>4 DEF Call
  <2>6. \A c \in Calls : call'[c].at = "read" => call'[c].kind = "heartbeat"
    BY <2>3, <2>4 DEF Asked
  <2>7. QED
    BY <2>1, <2>2, <2>3, <2>5, <2>6 DEF Asked
<1>5. CASE (\E c \in Calls : Answered(c)) \/ GivesUp \/ Dies
  <2>1. awaits' = NoCall /\ \A c \in Calls : call'[c] \in {Idle, call[c]}
    BY <1>5 DEF Answered, GivesUp, Dies, Abandons
  <2>2. QED
    BY <1>1, <2>1
<1>6. CASE Restart
  <2>1. awaits' = NoCall /\ \A c \in Calls : call'[c] \in {Idle, call[c]}
    BY <1>6 DEF Restart
  <2>2. QED
    BY <1>1, <2>1
<1>7. CASE ListReads \/ ListWrites \/ UNCHANGED vars
  BY <1>7, AskedMoves DEF ListReads, ListWrites, vars, agent, controller
<1>8. CASE Tick
  <2>1. \A c \in Calls : /\ call'[c].at = call[c].at /\ call'[c].kind = call[c].kind
                         /\ call'[c].caps = call[c].caps
    BY <1>8 DEF Tick, CallStates
  <2>2. QED
    BY <1>8, <2>1, AskedMoves DEF Tick
<1>9. CASE \E c \in Calls : CallStep(c)
  BY <1>9, CallAsks
<1>10. QED
  BY <1>2, <1>3, <1>4, <1>5, <1>6, <1>7, <1>8, <1>9 DEF Next, AgentStep

-----------------------------------------------------------------------------
(* What the agent has reported is kept, or what undoes it is marked.       *)

LEMMA KeptAtFirst == ConstantsOK /\ Init => MarkedOrKept
  BY DEF Init, MarkedOrKept, InMemory, InDatabase, ReportAt

\* What is in the database has been in memory.
LEMMA SavedIsWritten == InDatabase => InMemory
  BY DEF InDatabase, InMemory, ReportAt

\* Calls that end, and steps that change neither rows nor capabilities.
LEMMA KeptMoves ==
  ASSUME MarkedOrKept, InMemory' => InMemory, InDatabase' => InDatabase,
         UNCHANGED <<able, overtaken>>,
         memory'.caps = memory.caps, stored'.caps = stored.caps,
         /\ list'.at = list.at /\ list'.stale = list.stale
         /\ list'.row.caps = list.row.caps,
         \A c \in Calls :
           \/ call'[c].at \in {"free", "ok", "failed", "read"}
           \/ /\ call'[c].at = call[c].at /\ call'[c].kind = call[c].kind
              /\ call'[c].stale = call[c].stale /\ call'[c].caps = call[c].caps
  PROVE  MarkedOrKept'
<1>1. \A c \in Calls : Carries(c)' =>
        /\ Carries(c) /\ call'[c].stale = call[c].stale
        /\ call'[c].caps = call[c].caps
  BY DEF Carries
<1>2. \A c \in Calls : call'[c].kind = "report" /\ call'[c].at = "write" =>
        /\ call[c].kind = "report" /\ call[c].at = "write"
        /\ call'[c].stale = call[c].stale
  OBVIOUS
<1>3. QED
  BY <1>1, <1>2 DEF MarkedOrKept

LEMMA AgentLeavesReport ==
  ASSUME ConstantsOK, IInv, Asked, MarkedOrKept,
         AgentStep \/ GivesUp \/ TaskBegins \/ TaskEnds \/ Dies
  PROVE  MarkedOrKept'
<1> USE DEF IInv, TypeOK
<1>1. CASE Begins
  BY <1>1 DEF Begins, MarkedOrKept, InMemory, InDatabase, ReportAt
<1>2. CASE TaskBegins \/ TaskEnds
  <2>1. /\ phase \in {"loop", "task"} /\ UNCHANGED <<able, controller>>
    BY <1>2 DEF TaskBegins, TaskEnds
  <2>2. InMemory /\ InDatabase
    BY <2>1 DEF InMemory, InDatabase, ReportAt
  <2>3. QED
    BY <2>1, <2>2, KeptMoves DEF controller
<1>3. CASE Call
  <2>1. awaits' \in Calls
    BY <1>3 DEF Call
  <2>2. /\ call'[awaits'].at = IF Asks = "heartbeat" THEN "read" ELSE "write"
        /\ call'[awaits'].kind = Asks
    BY <1>3, <2>1 DEF Call
  <2>3. \A c \in Calls : c # awaits' => call'[c] = call[c]
    BY <1>3, <2>1 DEF Call
  <2>4. UNCHANGED <<phase, able, memory, stored, list, overtaken>>
    BY <1>3 DEF Call
  <2>5. CASE phase = "loop"
    <3>1. InMemory /\ InDatabase
      BY <2>5 DEF InMemory, InDatabase, ReportAt
    <3>2. call'[awaits'].at = "read"
      BY <2>2, <2>5 DEF Asks
    <3>3. QED
      BY <2>3, <2>4, <3>1, <3>2, KeptMoves
  <2>6. CASE phase # "loop"
    <3>1. phase # "task" /\ call'[awaits'].at \notin {"save", "ok"}
      BY <1>3, <2>2 DEF Call, Asks
    <3>2. ~InMemory' /\ ~InDatabase'
      BY <2>4, <2>6, <3>1 DEF InMemory, InDatabase, ReportAt
    <3>3. QED
      BY <3>2 DEF MarkedOrKept
  <2>7. QED
    BY <2>5, <2>6
<1>4. ASSUME awaits' = NoCall, UNCHANGED <<able, memory, stored, list, overtaken>>,
             \A c \in Calls : call'[c] \in {Idle, call[c]},
             phase' \in {"loop", "task"} => InDatabase
      PROVE  MarkedOrKept'
  <2>1. (InMemory' => InMemory) /\ (InDatabase' => InDatabase)
    BY <1>4, SavedIsWritten DEF InMemory, InDatabase, ReportAt
  <2>2. \A c \in Calls : call'[c].at = "free" \/ call'[c] = call[c]
    BY <1>4 DEF Idle
  <2>3. QED
    BY <1>4, <2>1, <2>2, KeptMoves
<1>5. ASSUME NEW c \in Calls, Answered(c) PROVE MarkedOrKept'
  <2>1. /\ awaits = c /\ awaits # NoCall /\ call[c].kind = Asks
        /\ phase \in {"register", "report", "loop"}
    BY <1>5 DEF Answered, Asked, ConstantsOK
  <2>2. phase' \in {"loop", "task"} => InDatabase
    BY <1>5, <2>1 DEF Answered, Asks, InDatabase, ReportAt
  <2>3. QED
    BY <1>4, <1>5, <2>2 DEF Answered
<1>6. CASE GivesUp \/ Dies
  <2>1. phase' \in {"loop", "task"} => InDatabase
    BY <1>6 DEF GivesUp, Dies, InDatabase, ReportAt
  <2>2. QED
    BY <1>4, <1>6, <2>1 DEF GivesUp, Dies, Abandons
<1>7. QED
  BY <1>1, <1>2, <1>3, <1>5, <1>6 DEF AgentStep

LEMMA RegisterLeavesReport ==
  ASSUME ConstantsOK, IInv, Asked, MarkedOrKept, NEW c \in Calls, Register(c)
  PROVE  MarkedOrKept'
<1> USE DEF IInv, TypeOK
<1>1. UNCHANGED <<phase, able, awaits, stored, list, overtaken>>
  BY DEF Register, agent
<1>2. memory'.caps = memory.caps
  BY DEF Register, Row, Kept
<1>3. /\ call'[c].at = "save" /\ call'[c].caps = memory.caps
      /\ \A d \in Calls \ {c} : call'[d] = call[d]
  BY DEF Register, Kept, CallStates
<1>4. c = awaits => phase # "report"
  BY DEF Register, Asked, Asks, ConstantsOK
<1>5. (InMemory' => InMemory) /\ (InDatabase' => InDatabase)
  BY <1>1, <1>3, <1>4 DEF InMemory, InDatabase, ReportAt
<1>6. \A d \in Calls \ {c} : Carries(d)' => Carries(d)
  BY <1>3 DEF Carries
<1>7. QED
  BY <1>1, <1>2, <1>3, <1>5, <1>6 DEF MarkedOrKept

LEMMA ReportIsWritten ==
  ASSUME ConstantsOK, IInv, Asked, MarkedOrKept, NEW c \in Calls, Report(c)
  PROVE  MarkedOrKept'
<1> USE DEF IInv, TypeOK
<1>1. UNCHANGED <<phase, able, awaits, stored>>
  BY DEF Report, agent
<1>2. memory'.caps = call[c].caps /\ overtaken' = call[c].stale
  BY DEF Report, Said, Row
<1>3. call'[c].at = "save" /\ call'[c].caps = call[c].caps
  BY DEF Report, Overtaken, CallStates
<1>4. \A d \in Calls \ {c} : call'[d] = Overtaken(call)[d]
  BY DEF Report, Overtaken
<1>5. \A d \in Calls \ {c} : call'[d].at = call[d].at /\ call'[d].kind = call[d].kind
  <2>1. \A d \in Calls : /\ Overtaken(call)[d].at = call[d].at
                         /\ Overtaken(call)[d].kind = call[d].kind
    BY DEF Overtaken, CallStates
  <2>2. QED
    BY <1>4, <2>1
<1>6. \A d \in Calls \ {c} : Carries(d)' => call'[d].stale
  <2>1. \A d \in Calls \ {c} : Carries(d)' => Carries(d)
    BY <1>5 DEF Carries
  <2>2. \A d \in Calls : Carries(d) => Overtaken(call)[d].stale
    BY DEF Carries, Overtaken, CallStates
  <2>3. QED
    BY <1>4, <2>1, <2>2
<1>7. \A d \in Calls : call'[d].kind = "report" /\ call'[d].at = "write" => call'[d].stale
  BY <1>3, <1>6 DEF Carries
<1>8. list'.at = "write" => list'.stale
  BY DEF Report
<1>9. CASE InMemory
  <2>1. overtaken'
    BY <1>2, <1>9 DEF MarkedOrKept, Report, At
  <2>2. QED
    BY <1>7, <2>1 DEF MarkedOrKept
<1>10. CASE ~InMemory
  <2>1. InMemory' => c = awaits /\ awaits # NoCall /\ phase = "report"
    BY <1>1, <1>5, <1>10 DEF InMemory, ReportAt
  <2>2. InMemory' => call[c].caps = able
    BY <2>1 DEF Asked, Asks
  <2>3. ~InDatabase'
    BY <1>1, <1>3, <1>5, <1>10 DEF InDatabase, InMemory, ReportAt
  <2>4. QED
    BY <1>1, <1>2, <1>3, <1>6, <1>7, <1>8, <2>2, <2>3 DEF MarkedOrKept
<1>11. QED
  BY <1>9, <1>10

LEMMA HeartbeatLeavesReport ==
  ASSUME ConstantsOK, IInv, Asked, MarkedOrKept, NEW c \in Calls,
         HeartbeatReads(c) \/ HeartbeatWrites(c)
  PROVE  MarkedOrKept'
<1> USE DEF IInv, TypeOK, At
<1>1. UNCHANGED <<phase, able, awaits, stored, list>>
  BY DEF HeartbeatReads, HeartbeatWrites, agent
<1>2. call[c].kind = "heartbeat"
  BY DEF HeartbeatReads, HeartbeatWrites, Asked
<1>3. c = awaits => phase # "report"
  BY <1>2 DEF Asked, Asks, ConstantsOK
<1>4. \A d \in Calls \ {c} : call'[d] = call[d]
  BY DEF HeartbeatReads, HeartbeatWrites, Ends
<1>5. (InMemory' => InMemory) /\ (InDatabase' => InDatabase)
  BY <1>1, <1>3, <1>4 DEF InMemory, InDatabase, ReportAt
<1>6. \A d \in Calls \ {c} : Carries(d)' => Carries(d)
  BY <1>4 DEF Carries
<1>7. CASE HeartbeatReads(c)
  <2>1. UNCHANGED <<memory, overtaken>>
    BY <1>7 DEF HeartbeatReads
  <2>2. CASE memory.known \/ stored.known
    <3>1. memory.known
      BY <2>2 DEF StoredIsKnown
    <3>2. call'[c].caps = memory.caps /\ call'[c].kind = "heartbeat"
      BY <1>2, <1>7, <3>1 DEF HeartbeatReads, CallStates
    <3>3. QED
      BY <1>1, <1>4, <1>5, <1>6, <2>1, <3>2 DEF MarkedOrKept
  <2>3. CASE ~(memory.known \/ stored.known)
    <3>1. call'[c].at \in {"failed", "free"}
      BY <1>7, <2>3 DEF HeartbeatReads, Ends, Idle, CallStates
    <3>2. QED
      BY <1>1, <1>4, <1>5, <2>1, <3>1, KeptMoves
  <2>4. QED
    BY <2>2, <2>3
<1>8. CASE HeartbeatWrites(c)
  <2>1. memory'.caps = call[c].caps /\ overtaken' = (overtaken \/ call[c].stale)
    BY <1>8 DEF HeartbeatWrites, Said, Row
  <2>2. /\ call'[c].at = "save" /\ call'[c].caps = call[c].caps
        /\ call'[c].stale = call[c].stale
    BY <1>8 DEF HeartbeatWrites, CallStates
  <2>3. Carries(c)
    BY <1>8 DEF HeartbeatWrites, Carries
  <2>4. QED
    BY <1>1, <1>4, <1>5, <1>6, <2>1, <2>2, <2>3 DEF MarkedOrKept
<1>9. QED
  BY <1>7, <1>8

LEMMA SaveLeavesReport ==
  ASSUME ConstantsOK, IInv, Asked, MarkedOrKept, NEW c \in Calls, Saves(c)
  PROVE  MarkedOrKept'
<1> USE DEF IInv, TypeOK, At
<1>1. UNCHANGED <<phase, able, awaits, memory, list>>
  BY DEF Saves, agent
<1>2. \A d \in Calls \ {c} : call'[d] = call[d]
  BY DEF Saves, Ends
<1>3. call[c].at = "save"
  BY DEF Saves
<1>4. InMemory' => InMemory
  BY <1>1, <1>2, <1>3 DEF InMemory, ReportAt
<1>5. CASE Saved(c) /\ Ends(c, "ok")
  <2>1. stored'.caps = call[c].caps /\ overtaken' = (overtaken \/ call[c].stale)
    BY <1>5 DEF Saved, Said, Row
  <2>2. call'[c].at \in {"ok", "free"}
    BY <1>5 DEF Ends, Idle, CallStates
  <2>3. \A d \in Calls : Carries(d)' => Carries(d) /\ call'[d] = call[d]
    BY <1>2, <2>2 DEF Carries
  <2>4. \A d \in Calls : call'[d].kind = "report" /\ call'[d].at = "write" =>
          call'[d] = call[d]
    BY <1>2, <2>2
  <2>5. InDatabase' => InMemory
    BY <1>4, SavedIsWritten DEF InDatabase, InMemory, ReportAt
  <2>6. Carries(c)
    BY <1>3 DEF Carries
  <2>7. QED
    BY <1>1, <1>4, <2>1, <2>3, <2>4, <2>5, <2>6 DEF MarkedOrKept
<1>6. CASE NotSaved /\ Ends(c, "failed")
  <2>1. UNCHANGED <<stored, overtaken>>
    BY <1>6 DEF NotSaved
  <2>2. call'[c].at \in {"failed", "free"}
    BY <1>6 DEF Ends, Idle, CallStates
  <2>3. InDatabase' => InDatabase
    BY <1>1, <1>2, <2>2 DEF InDatabase, ReportAt
  <2>4. QED
    BY <1>1, <1>2, <1>4, <2>1, <2>2, <2>3, KeptMoves
<1>7. QED
  BY <1>5, <1>6 DEF Saves

LEMMA RestLeavesReport ==
  ASSUME ConstantsOK, IInv, Asked, MarkedOrKept,
         ListReads \/ ListWrites \/ Restart \/ Tick
  PROVE  MarkedOrKept'
<1> USE DEF IInv, TypeOK
<1>1. CASE ListReads
  <2>1. UNCHANGED <<phase, able, awaits, memory, stored, call, overtaken>>
    BY <1>1 DEF ListReads, agent
  <2>2. (InMemory' <=> InMemory) /\ (InDatabase' <=> InDatabase)
    BY <2>1 DEF InMemory, InDatabase, ReportAt
  <2>3. list'.row = stored /\ list'.stale = (overtaken \/ memory.caps # stored.caps)
    BY <1>1 DEF ListReads
  <2>4. QED
    BY <2>1, <2>2, <2>3 DEF MarkedOrKept, Carries
<1>2. CASE ListWrites
  <2>1. UNCHANGED <<phase, able, awaits, stored, call>>
    BY <1>2 DEF ListWrites, agent
  <2>2. (InMemory' <=> InMemory) /\ (InDatabase' <=> InDatabase)
    BY <2>1 DEF InMemory, InDatabase, ReportAt
  <2>3. /\ list.at = "write" /\ memory' = list.row
        /\ overtaken' = (overtaken \/ list.stale) /\ list'.at = "free"
    BY <1>2 DEF ListWrites
  <2>4. QED
    BY <2>1, <2>2, <2>3 DEF MarkedOrKept, Carries
<1>3. CASE Restart
  <2>1. UNCHANGED <<phase, able, stored, overtaken>> /\ awaits' = NoCall
    BY <1>3 DEF Restart
  <2>2. memory' = stored /\ list'.at = "free"
        /\ \A c \in Calls : call'[c].at = "free"
    BY <1>3 DEF Restart, Loaded, Idle
  <2>3. InMemory' \/ InDatabase' => InDatabase
    BY <2>1 DEF InMemory, InDatabase, ReportAt
  <2>4. QED
    BY <2>1, <2>2, <2>3 DEF MarkedOrKept, Carries
<1>4. CASE Tick
  <2>1. /\ UNCHANGED <<phase, able, awaits, overtaken>>
        /\ memory'.caps = memory.caps /\ stored'.caps = stored.caps
        /\ list'.at = list.at /\ list'.stale = list.stale
    BY <1>4 DEF Tick, Ageing, Rows
  <2>2. list'.row.caps = list.row.caps
    BY <1>4 DEF Tick, Ageing, Rows
  <2>3. \A c \in Calls : /\ call'[c].at = call[c].at /\ call'[c].kind = call[c].kind
                         /\ call'[c].stale = call[c].stale
                         /\ call'[c].caps = call[c].caps
    BY <1>4 DEF Tick, CallStates
  <2>4. (InMemory' => InMemory) /\ (InDatabase' => InDatabase)
    BY <2>1, <2>3 DEF InMemory, InDatabase, ReportAt
  <2>5. QED
    BY <2>1, <2>2, <2>3, <2>4, KeptMoves
<1>5. QED
  BY <1>1, <1>2, <1>3, <1>4

LEMMA KInvariance == ASSUME ConstantsOK PROVE Spec => []KInv
<1>1. Init => KInv
  BY InitOK, BeatsAtFirst, AskedAtFirst, KeptAtFirst DEF KInv
<1>2. KInv /\ [Next]_vars => KInv'
  <2> SUFFICES ASSUME KInv, [Next]_vars PROVE KInv'
    OBVIOUS
  <2>1. IInv'
    <3>1. CASE Next
      BY <3>1, AgentKeeps, CallKeeps, RestKeeps DEF Next, KInv
    <3>2. CASE UNCHANGED vars
      BY <3>2 DEF KInv, IInv, TypeOK, StoredIsKnown, vars, agent, controller
    <3>3. QED
      BY <3>1, <3>2
  <2>2. Beats' /\ Asked'
    BY BeatsStay, AskedStays DEF KInv
  <2>3. MarkedOrKept'
    <3>1. CASE Next
      BY <3>1, AgentLeavesReport, RegisterLeavesReport, ReportIsWritten,
         HeartbeatLeavesReport, SaveLeavesReport, RestLeavesReport
         DEF Next, CallStep, KInv
    <3>2. CASE UNCHANGED vars
      BY <3>2 DEF KInv, MarkedOrKept, Carries, InMemory, InDatabase, ReportAt,
                  vars, agent, controller
    <3>3. QED
      BY <3>1, <3>2
  <2>4. QED
    BY <2>1, <2>2, <2>3 DEF KInv
<1>3. QED
  BY <1>1, <1>2, PTL DEF Spec

-----------------------------------------------------------------------------
(***************************************************************************)
(* Whatever is given up, fails, is read late or restarted, an agent the    *)
(* database knows is known in memory, where registrations and reports look *)
(* for it.                                                                 *)
(***************************************************************************)
THEOREM StoredStaysKnown == ASSUME ConstantsOK PROVE Spec => []StoredIsKnown
<1>1. IInv => StoredIsKnown
  BY DEF IInv
<1>2. QED
  BY <1>1, Invariance, PTL

(***************************************************************************)
(* The registry, the agent and every call keep their types.                *)
(***************************************************************************)
THEOREM RegistryTypes == ASSUME ConstantsOK PROVE Spec => []TypeOK
<1>1. IInv => TypeOK
  BY DEF IInv
<1>2. QED
  BY <1>1, Invariance, PTL

(***************************************************************************)
(* An agent is shown online only if it called within the time to live,     *)
(* whatever was slow, saved late, read early or restarted: every row, also *)
(* one a call or a reader still holds, is at least as old as the agent's   *)
(* latest call.                                                            *)
(***************************************************************************)
THEOREM OnlineMeansRecent == ASSUME ConstantsOK PROVE Spec => []OnlineIsRecent
<1>1. KInv => OnlineIsRecent
  <2> SUFFICES ASSUME KInv, Online PROVE contact <= TTL
    BY DEF OnlineIsRecent
  <2>1. contact \in Int /\ memory.beat \in Int /\ stored.beat \in Int
    BY BeatsAreAges DEF KInv, Ages
  <2>2. memory.beat <= TTL \/ stored.beat <= TTL
    BY DEF Online, Fresh
  <2>3. QED
    BY <2>1, <2>2 DEF KInv, Beats, ConstantsOK
<1>2. QED
  BY <1>1, KInvariance, PTL

(***************************************************************************)
(* Both places know what the agent at work has reported, however many      *)
(* calls, readers and restarts there were, unless a row read before the    *)
(* report was written after it.                                            *)
(***************************************************************************)
THEOREM ReportsAreKept == ASSUME ConstantsOK PROVE Spec => []ReportKept
<1>1. KInv => ReportKept
  BY DEF KInv, MarkedOrKept, InMemory, InDatabase, ReportAt, ReportKept
<1>2. QED
  BY <1>1, KInvariance, PTL
=============================================================================
