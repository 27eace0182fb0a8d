--------------------------- MODULE ServicesProofs ---------------------------
(***************************************************************************)
(* The theorems about the parts of MCServices, as theorems about the       *)
(* behaviours that are checked: a behaviour of MCServices is one of every  *)
(* part, which moves or stays in an initial state, so it has the           *)
(* properties that are proved of the part for all values of its constants. *)
(* What is proved of the LM Studio cache, the nodes and the templates is   *)
(* proved here.                                                            *)
(***************************************************************************)
EXTENDS MCServices, Sequences, FiniteSetTheorems, TLAPS

\* What the theorems about the registry assume: bounds are numbers, there is
\* something to report, and the sign for no call is not one.
AgentsOK ==
  TTL \in Nat /\ MaxFaults \in Nat /\ Caps # {} /\ NoCall \notin Calls

\* What those about the managed service assume, of the same kind.
ServeOK ==
  /\ NoProc \notin Procs
  /\ Threshold \in Nat /\ MaxCrashes \in Nat /\ MaxAgents \in Nat

\* And those about test runs: only scenarios there are can be asked for.
TestsOK == Offered \subseteq Tests!Scenarios /\ MaxFaults \in Nat

LEMMA AgentsMove == ServicesSpec => Agents!Spec
<1>1. ServicesInit => Agents!Init
  BY DEF ServicesInit
<1>2. [ServicesNext]_<<part, nodeVars, serveVars, agentVars, testVars, studioVars,
                       inventoryVars, templateVars>> => [Agents!Next]_(Agents!vars)
  BY DEF ServicesNext, agentVars, Agents!vars, Agents!agent, Agents!controller
<1>3. QED
  BY <1>1, <1>2, PTL DEF ServicesSpec, Agents!Spec

LEMMA ServeMoves == ServicesSpec => Serve!Spec
<1>1. ServicesInit => Serve!Init
  BY DEF ServicesInit
<1>2. [ServicesNext]_<<part, nodeVars, serveVars, agentVars, testVars, studioVars,
                       inventoryVars, templateVars>> => [Serve!Next]_(Serve!vars)
  BY DEF ServicesNext, serveVars, Serve!vars, Serve!mine, Serve!world, Serve!bounds
<1>3. QED
  BY <1>1, <1>2, PTL DEF ServicesSpec, Serve!Spec

LEMMA TestsMove == ServicesSpec => Tests!Spec
<1>1. ServicesInit => Tests!Init
  BY DEF ServicesInit
<1>2. [ServicesNext]_<<part, nodeVars, serveVars, agentVars, testVars, studioVars,
                       inventoryVars, templateVars>> => [Tests!Next]_(Tests!vars)
  BY DEF ServicesNext, testVars, Tests!vars, Tests!progress, Tests!instance, Tests!ghosts
<1>3. QED
  BY <1>1, <1>2, PTL DEF ServicesSpec, Tests!Spec

LEMMA TestsAssumed == TestsOK => Tests!ConstantsOK
  BY DEF TestsOK, Tests!ConstantsOK

LEMMA AgentsAssumed == AgentsOK => Agents!ConstantsOK
  BY DEF AgentsOK, Agents!ConstantsOK

LEMMA ServeAssumed == ServeOK => Serve!ConstantsOK
  BY DEF ServeOK, Serve!ConstantsOK

-----------------------------------------------------------------------------
(* The agent's tasks.                                                      *)

LEMMA TasksMove == ServicesSpec => Spec
<1>1. ServicesInit => Init
  BY DEF ServicesInit
<1>2. [ServicesNext]_<<part, nodeVars, serveVars, agentVars, testVars, studioVars,
                       inventoryVars, templateVars>> => [Next]_vars
  BY DEF ServicesNext, nodeVars
<1>3. QED
  BY <1>1, <1>2, PTL DEF ServicesSpec, Spec

(***************************************************************************)
(* What a successful task reports was true of the node while the task ran, *)
(* a precheck gates exactly if it has a reason, and a port conflict has    *)
(* one of the named causes, in the behaviours that are checked.            *)
(***************************************************************************)
THEOREM TaskReportsHold ==
  ServicesSpec => [](SuccessWasTrue /\ VerdictIsSum /\ PortVerdictHasCause)
  BY TasksMove, ReportsAreTrue, VerdictsAddUp, PortVerdictsHaveCauses, PTL

-----------------------------------------------------------------------------
(* The registry of agents.                                                 *)

(***************************************************************************)
(* An agent the database knows is known in memory, where registrations and *)
(* reports look for it, after every restart, late read and failed save.    *)
(***************************************************************************)
THEOREM StoredAgentsAreKnown == ASSUME AgentsOK PROVE ServicesSpec => []StoredIsKnown
  BY AgentsAssumed, AgentsMove, Agents!StoredStaysKnown, PTL DEF StoredIsKnown

(***************************************************************************)
(* Whoever is shown online has called within the time to live: no slow     *)
(* call, late save, older row or restart makes a silent agent look alive.  *)
(***************************************************************************)
THEOREM OnlineAgentsAreRecent == ASSUME AgentsOK PROVE ServicesSpec => []OnlineIsRecent
  BY AgentsAssumed, AgentsMove, Agents!OnlineMeansRecent, PTL DEF OnlineIsRecent

(***************************************************************************)
(* What the agent at work has reported is in memory and in the database,   *)
(* unless a row read before the report was written after it.               *)
(***************************************************************************)
THEOREM AgentReportsAreKept == ASSUME AgentsOK PROVE ServicesSpec => []ReportKept
  BY AgentsAssumed, AgentsMove, Agents!ReportsAreKept, PTL DEF ReportKept

-----------------------------------------------------------------------------
(* The service an agent manages.                                           *)

(***************************************************************************)
(* Of the processes of an agent at most one has not been told to stop,     *)
(* whatever the supervisor, the watchers and a Stop do at the same time.   *)
(***************************************************************************)
THEOREM ServiceIsOneProcess == ASSUME ServeOK PROVE ServicesSpec => []OneProcess
  BY ServeAssumed, ServeMoves, Serve!OneAtATime, PTL DEF OneProcess

(***************************************************************************)
(* An agent whose loop is over has told its processes to stop, unless its  *)
(* supervisor was stopping the service itself at that moment or had a      *)
(* process it had not recorded.                                            *)
(***************************************************************************)
THEOREM ServiceStopsCleanly == ASSUME ServeOK PROVE ServicesSpec => CleanStop
  BY ServeAssumed, ServeMoves, Serve!EndsAreClean, PTL DEF CleanStop

-----------------------------------------------------------------------------
(* Test runs.                                                              *)

(***************************************************************************)
(* When no gating run has the binding in its hands it is the operator's,   *)
(* unless two such runs overlapped, the operator changed it meanwhile, the *)
(* controller crashed or the restore was refused.                          *)
(***************************************************************************)
THEOREM BindingsComeBack == ASSUME TestsOK PROVE ServicesSpec => []BindingComesBack
  BY TestsAssumed, TestsMove, Tests!BindingIsReturned, PTL DEF BindingComesBack

(***************************************************************************)
(* A run recorded as a success is over and none of its steps has failed,   *)
(* the restore of the binding and the refused start included.              *)
(***************************************************************************)
THEOREM SuccessesAreWhole == ASSUME TestsOK PROVE ServicesSpec => []SuccessIsWhole
  BY TestsAssumed, TestsMove, Tests!SuccessHasNoFailure, PTL DEF SuccessIsWhole

(***************************************************************************)
(* A gating run that has the instance for itself does not start it.        *)
(***************************************************************************)
THEOREM NoStartIsStray == ASSUME TestsOK PROVE ServicesSpec => []NoStrayStart
  BY TestsAssumed, TestsMove, Tests!AloneStartsNothing, PTL DEF NoStrayStart

-----------------------------------------------------------------------------
(* The LM Studio cache.                                                    *)

LEMMA StudioMoves == ServicesSpec => Studio!Spec
<1>1. ServicesInit => Studio!Init
  BY DEF ServicesInit
<1>2. [ServicesNext]_<<part, nodeVars, serveVars, agentVars, testVars, studioVars,
                       inventoryVars, templateVars>> => [Studio!Next]_(Studio!vars)
  BY DEF ServicesNext, studioVars, Studio!vars
<1>3. QED
  BY <1>1, <1>2, PTL DEF ServicesSpec, Studio!Spec

\* What the theorem about LM Studio assumes.
StudioBounded == MaxTurns \in Nat

\* A thread has a list in hand where it is going to use one.
StudioOK ==
  /\ StudioBounded /\ Studio!TypeOK
  /\ \A t \in Studio!Threads :
       thread[t] \in {"store", "merge"} => answer[t] \in Studio!Lists

LEMMA StudioFacts ==
  ASSUME StudioOK
  PROVE  /\ thread \in [Studio!Threads -> Studio!Places]
         /\ answer \in [Studio!Threads -> Studio!Lists \cup {"error"}]
         /\ copy \in [Studio!Threads -> Studio!Lists]
         /\ cache \in Studio!Lists /\ registry \in Studio!Lists
         /\ modelRow \in Studio!Lists
         /\ behind \subseteq Studio!Threads \cup {"row"} /\ turns \in 0..MaxTurns
         /\ "none" \in Studio!Lists /\ Studio!Known \subseteq Studio!Lists
  BY DEF StudioOK, Studio!TypeOK, Studio!Lists, Studio!Known, Studio!States

LEMMA AnswersAreLists ==
  ASSUME server \in {"absent", "stopped", "loaded"}
  PROVE  Studio!Listed \in Studio!Lists \cup {"error"}
<1>1. ASSUME NEW d, NEW s \in {"stopped", "loaded"}
      PROVE  Studio!StateOf(Studio!Entry(d, s)) \in Studio!States
  BY <1>1 DEF Studio!StateOf, Studio!Entry, Studio!OrElse, Studio!Silent, Studio!States
<1>2. QED
  BY <1>1 DEF Studio!Listed, Studio!Lists

\* What a thread takes up or gives up is its own.
LEMMA HoldsOne ==
  ASSUME StudioOK, NEW t \in Studio!Threads, NEW a \in Studio!Lists \cup {"error"},
         Studio!Holds(t, a)
  PROVE  /\ answer' \in [Studio!Threads -> Studio!Lists \cup {"error"}]
         /\ \A u \in Studio!Threads \ {t} : answer'[u] = answer[u]
         /\ answer'[t] = IF thread'[t] = "idle" THEN "none" ELSE a
  BY StudioFacts DEF Studio!Holds

LEMMA CarriesOne ==
  ASSUME StudioOK, NEW t \in Studio!Threads, NEW c \in Studio!Lists,
         Studio!Carries(t, c)
  PROVE  /\ copy' \in [Studio!Threads -> Studio!Lists]
         /\ \A u \in Studio!Threads \ {t} : copy'[u] = copy[u]
         /\ copy'[t] = IF thread'[t] = "idle" THEN "none" ELSE c
  BY StudioFacts DEF Studio!Carries

LEMMA GoesOne ==
  ASSUME StudioOK, NEW t \in Studio!Threads, NEW p \in Studio!Places,
         Studio!Goes(t, p)
  PROVE  /\ thread' \in [Studio!Threads -> Studio!Places]
         /\ \A u \in Studio!Threads \ {t} : thread'[u] = thread[u]
         /\ thread'[t] = p
  BY StudioFacts DEF Studio!Goes

\* A thread that moves to a place with a list that suits the place.
LEMMA ThreadMoves ==
  ASSUME StudioOK, NEW t \in Studio!Threads,
         thread' \in [Studio!Threads -> Studio!Places],
         \A u \in Studio!Threads \ {t} : thread'[u] = thread[u],
         answer' \in [Studio!Threads -> Studio!Lists \cup {"error"}],
         \A u \in Studio!Threads \ {t} : answer'[u] = answer[u],
         thread'[t] \in {"store", "merge"} => answer'[t] \in Studio!Lists,
         copy' \in [Studio!Threads -> Studio!Lists],
         UNCHANGED dialect, server' \in {"absent", "stopped", "loaded"},
         cache' \in Studio!Lists, registry' \in Studio!Lists, modelRow' \in Studio!Lists,
         behind' \subseteq Studio!Threads \cup {"row"}, turns' \in 0..MaxTurns
  PROVE  StudioOK'
  BY DEF StudioOK, Studio!TypeOK

LEMMA TurnsAreBounded ==
  ASSUME StudioOK, Studio!Counted PROVE turns' \in 0..MaxTurns
  BY DEF Studio!Counted, StudioOK, StudioBounded, Studio!TypeOK

LEMMA ReadsKeepTypes ==
  ASSUME StudioOK, NEW t \in Studio!Threads,
         Studio!Wants(t) \/ Studio!Ask(t) \/ Studio!Store(t) \/ Studio!Snapshot(t)
  PROVE  StudioOK'
<1>0. "ask" \in Studio!Places /\ "idle" \in Studio!Places
  BY DEF Studio!Places
<1>1. CASE Studio!Wants(t)
  <2>1. UNCHANGED <<server, dialect, cache, registry, modelRow, answer, copy, behind, turns>>
    BY <1>1 DEF Studio!Wants, Studio!studio
  <2>2. QED
    BY <1>0, <1>1, <2>1, GoesOne, StudioFacts, ThreadMoves
       DEF Studio!Wants, StudioOK, Studio!TypeOK
<1>2. CASE Studio!Ask(t)
  <2>1. UNCHANGED <<server, dialect, cache, registry, modelRow, copy, behind, turns>>
    BY <1>2 DEF Studio!Ask, Studio!studio
  <2>2. PICK a : a = Studio!Listed
    OBVIOUS
  <2>3. a \in Studio!Lists \cup {"error"}
    BY <2>2, AnswersAreLists DEF StudioOK, Studio!TypeOK
  <2>4. PICK p : p = Studio!AfterAsk(t)
    OBVIOUS
  <2>5. p \in Studio!Places /\ p # "merge" /\ (p = "store" => a # "error")
    BY <2>2, <2>4 DEF Studio!AfterAsk, Studio!Places
  <2>6. Studio!Goes(t, p) /\ Studio!Holds(t, a)
    BY <1>2, <2>2, <2>4 DEF Studio!Ask
  <2>7. thread'[t] \in {"store", "merge"} => answer'[t] \in Studio!Lists
    BY <2>3, <2>5, <2>6, GoesOne, HoldsOne
  <2>8. QED
    BY <2>1, <2>3, <2>5, <2>6, <2>7, GoesOne, HoldsOne, StudioFacts, ThreadMoves
       DEF StudioOK, Studio!TypeOK
<1>3. CASE Studio!Store(t)
  <2>1. UNCHANGED <<server, dialect, registry, modelRow, copy, behind, turns>>
    BY <1>3 DEF Studio!Store, Studio!studio
  <2>2. answer[t] \in Studio!Lists /\ cache' = answer[t]
    BY <1>3 DEF Studio!Store, Studio!Stored, StudioOK
  <2>3. PICK p \in {"idle", "snapshot"} : Studio!Goes(t, p) /\ Studio!Holds(t, answer[t])
    BY <1>3 DEF Studio!Store
  <2>4. p \in Studio!Places
    BY <2>3 DEF Studio!Places
  <2>5. QED
    BY <2>1, <2>2, <2>3, <2>4, GoesOne, HoldsOne, StudioFacts, ThreadMoves
       DEF StudioOK, Studio!TypeOK
<1>4. CASE Studio!Snapshot(t)
  <2>1. UNCHANGED <<server, dialect, cache, registry, modelRow, copy, behind, turns>>
    BY <1>4 DEF Studio!Snapshot, Studio!studio
  <2>2. PICK p : p = Studio!AfterSnapshot(t)
    OBVIOUS
  <2>3. p \in Studio!Places
    BY <2>2 DEF Studio!AfterSnapshot, Studio!Places
  <2>4. Studio!Goes(t, p) /\ Studio!Holds(t, cache)
    BY <1>4, <2>2 DEF Studio!Snapshot
  <2>5. answer'[t] \in Studio!Lists
    BY <2>4, HoldsOne, StudioFacts
  <2>6. QED
    BY <2>1, <2>3, <2>4, <2>5, GoesOne, HoldsOne, StudioFacts, ThreadMoves
       DEF StudioOK, Studio!TypeOK
<1>5. QED
  BY <1>1, <1>2, <1>3, <1>4

\* Writing a copy to the registry or to the row changes no type.
LEMMA WritesKeepTypes ==
  ASSUME StudioOK, NEW t \in Studio!Threads, Studio!Put(t) \/ Studio!Save(t)
  PROVE  StudioOK'
<1>0. copy[t] \in Studio!Lists /\ Studio!Carries(t, copy[t])
  BY StudioFacts DEF Studio!Put, Studio!Save
<1>1. CASE Studio!Put(t)
  <2>1. UNCHANGED <<server, dialect, cache, modelRow, answer, turns>> /\ registry' = copy[t]
    BY <1>1 DEF Studio!Put, Studio!studio
  <2>2. PICK p \in {"wished", "save", "idle"} : Studio!Goes(t, p)
    BY <1>1 DEF Studio!Put, Studio!AfterPut
  <2>3. p \in Studio!Places
    BY <2>2 DEF Studio!Places
  <2>4. behind' \subseteq Studio!Threads \cup {"row"}
    BY <1>1, StudioFacts DEF Studio!Put, Studio!LeavesBehind
  <2>5. QED
    BY <1>0, <2>1, <2>2, <2>3, <2>4, GoesOne, CarriesOne, StudioFacts, ThreadMoves
       DEF StudioOK, Studio!TypeOK
<1>2. CASE Studio!Save(t)
  <2>1. UNCHANGED <<server, dialect, cache, registry, answer, turns>>
    BY <1>2 DEF Studio!Save, Studio!studio
  <2>2. PICK p \in {"ask", "idle"} : Studio!Goes(t, p)
    BY <1>2 DEF Studio!Save, Studio!AfterSave
  <2>3. p \in Studio!Places
    BY <2>2 DEF Studio!Places
  <2>4. modelRow' \in Studio!Lists
    BY <1>0, <1>2, StudioFacts DEF Studio!Save
  <2>5. behind' \subseteq Studio!Threads \cup {"row"}
    <3> DEFINE left == CASE copy[t] = "none" -> behind
                         [] copy[t] # "none" /\ t \in behind -> behind \cup {"row"}
                         [] OTHER -> behind \ {"row"}
    <3>1. left \subseteq Studio!Threads \cup {"row"}
      BY StudioFacts
    <3>2. behind' = IF thread'[t] = "idle" THEN left \ {t} ELSE left
      BY <1>2 DEF Studio!Save
    <3>3. QED
      BY <3>1, <3>2
  <2>6. QED
    BY <1>0, <2>1, <2>2, <2>3, <2>4, <2>5, GoesOne, CarriesOne, StudioFacts, ThreadMoves
       DEF StudioOK, Studio!TypeOK
<1>3. QED
  BY <1>1, <1>2

LEMMA RefreshKeepsTypes ==
  ASSUME StudioOK, Studio!Merge \/ Studio!Replace \/ Studio!Sync
  PROVE  StudioOK'
<1>0. "list" \in Studio!Threads /\ {"replace", "sync", "save"} \subseteq Studio!Places
  BY DEF Studio!Threads, Studio!Places
<1>1. behind' \subseteq Studio!Threads \cup {"row"}
  BY StudioFacts DEF Studio!Merge, Studio!Replace, Studio!Sync, Studio!IsUpToDate,
                     Studio!LeavesBehind
<1>2. CASE Studio!Merge
  <2>1. answer["list"] \in Studio!Lists
    BY <1>0, <1>2 DEF Studio!Merge, StudioOK
  <2>2. PICK c \in Studio!Lists : c = Studio!Merged
    BY <2>1, StudioFacts DEF Studio!Merged
  <2>3. /\ UNCHANGED <<server, dialect, cache, registry, modelRow, turns>>
        /\ Studio!Goes("list", "replace") /\ Studio!Holds("list", "none")
        /\ Studio!Carries("list", c)
    BY <1>2, <2>2 DEF Studio!Merge, Studio!studio
  <2>4. QED
    BY <1>0, <1>1, <2>3, GoesOne, HoldsOne, CarriesOne, StudioFacts, ThreadMoves
       DEF StudioOK, Studio!TypeOK
<1>3. CASE Studio!Replace
  <2>1. /\ UNCHANGED <<server, dialect, cache, modelRow, answer, turns>>
        /\ Studio!Goes("list", "sync") /\ Studio!Carries("list", "none")
        /\ registry' = copy["list"]
    BY <1>3 DEF Studio!Replace, Studio!studio
  <2>2. QED
    BY <1>0, <1>1, <2>1, GoesOne, CarriesOne, StudioFacts, ThreadMoves
       DEF StudioOK, Studio!TypeOK
<1>4. CASE Studio!Sync
  <2>1. /\ UNCHANGED <<server, dialect, cache, registry, modelRow, turns>>
        /\ Studio!Goes("list", "save") /\ Studio!Holds("list", "none")
        /\ Studio!Carries("list", registry)
    BY <1>4 DEF Studio!Sync, Studio!studio
  <2>2. QED
    BY <1>0, <1>1, <2>1, GoesOne, HoldsOne, CarriesOne, StudioFacts, ThreadMoves
       DEF StudioOK, Studio!TypeOK
<1>5. QED
  BY <1>2, <1>3, <1>4

LEMMA RequestsKeepTypes ==
  ASSUME StudioOK, Studio!ActionBegin \/ Studio!RequestBegin \/ Studio!Look
  PROVE  StudioOK'
<1>0. /\ {"action", "request"} \subseteq Studio!Threads
      /\ {"wish", "look", "put", "idle", "fill"} \subseteq Studio!Places
  BY DEF Studio!Threads, Studio!Places
<1>1. CASE Studio!ActionBegin
  <2>1. /\ UNCHANGED <<server, dialect, cache, registry, modelRow, answer>>
        /\ Studio!Goes("action", "wish") /\ Studio!Carries("action", registry)
        /\ Studio!Counted /\ behind' = behind \ {"action"}
    BY <1>1 DEF Studio!ActionBegin, Studio!studio, Studio!IsUpToDate
  <2>2. QED
    BY <1>0, <2>1, GoesOne, CarriesOne, TurnsAreBounded, StudioFacts, ThreadMoves
       DEF StudioOK, Studio!TypeOK
<1>2. CASE Studio!RequestBegin
  <2>1. /\ UNCHANGED <<server, dialect, cache, registry, modelRow, answer>>
        /\ Studio!Carries("request", registry)
        /\ Studio!Counted /\ behind' = behind \ {"request"}
    BY <1>2 DEF Studio!RequestBegin, Studio!studio, Studio!IsUpToDate
  <2>2. PICK p \in {"look", "put"} : Studio!Goes("request", p)
    BY <1>2 DEF Studio!RequestBegin
  <2>3. QED
    BY <1>0, <2>1, <2>2, GoesOne, CarriesOne, TurnsAreBounded, StudioFacts, ThreadMoves
       DEF StudioOK, Studio!TypeOK
<1>3. CASE Studio!Look
  <2>1. UNCHANGED <<server, dialect, cache, registry, modelRow, answer, turns>>
    BY <1>3 DEF Studio!Look, Studio!studio
  <2>2. PICK c \in IF modelRow # "none" THEN {modelRow} ELSE {copy["request"], "none"} :
          /\ Studio!Goes("request", IF c = "none" THEN "idle" ELSE "fill")
          /\ Studio!Carries("request", c)
    BY <1>3 DEF Studio!Look
  <2>3. c \in Studio!Lists
    BY <1>0, <2>2, StudioFacts
  <2>4. PICK p \in {"idle", "fill"} : Studio!Goes("request", p)
    BY <2>2
  <2>5. behind' \subseteq Studio!Threads \cup {"row"}
    <3>1. \/ behind' = behind \cup {"request"} \/ behind' = behind
          \/ behind' = behind \ {"request"}
      BY <1>3 DEF Studio!Look
    <3>2. QED
      BY <1>0, <3>1, StudioFacts
  <2>6. QED
    BY <1>0, <2>1, <2>2, <2>3, <2>4, <2>5, GoesOne, CarriesOne, StudioFacts, ThreadMoves
       DEF StudioOK, Studio!TypeOK
<1>4. QED
  BY <1>1, <1>2, <1>3

LEMMA PostKeepsTypes == ASSUME StudioOK, Studio!Post PROVE StudioOK'
<1>0. /\ {"action", "async"} \subseteq Studio!Threads
      /\ {"mark", "ask"} \subseteq Studio!Places
      /\ Studio!Aim \in Studio!Lists /\ Studio!Aim \in {"absent", "stopped", "loaded"}
  BY DEF Studio!Threads, Studio!Places, Studio!Aim, Studio!Lists, Studio!States
<1>1. /\ UNCHANGED <<dialect, cache, registry, modelRow, behind, turns>>
      /\ Studio!Holds("action", "none")
  BY DEF Studio!Post
<1>2. CASE Studio!Posted
  <2>1. /\ thread' = [thread EXCEPT !["action"] = "mark", !["async"] = "ask"]
        /\ server' = Studio!Aim
    BY <1>2 DEF Studio!Posted
  <2>2. PICK c \in Studio!Lists : Studio!Carries("action", c)
    BY <1>0, <1>2 DEF Studio!Posted
  <2>3. thread' \in [Studio!Threads -> Studio!Places]
    BY <1>0, <2>1, StudioFacts
  <2>4. \A t \in Studio!Threads :
          thread'[t] \in {"store", "merge"} => answer'[t] \in Studio!Lists
    BY <1>0, <1>1, <2>1, HoldsOne, StudioFacts DEF StudioOK
  <2>5. QED
    BY <1>0, <1>1, <2>1, <2>2, <2>3, <2>4, HoldsOne, CarriesOne, StudioFacts
       DEF StudioOK, Studio!TypeOK
<1>3. CASE Studio!PostFailed
  <2>1. /\ Studio!Goes("action", "mark") /\ copy' = copy
        /\ server' \in {server, Studio!Aim}
    BY <1>3 DEF Studio!PostFailed
  <2>2. QED
    BY <1>0, <1>1, <2>1, GoesOne, HoldsOne, StudioFacts, ThreadMoves
       DEF StudioOK, Studio!TypeOK
<1>4. QED
  BY <1>2, <1>3 DEF Studio!Post

LEMMA StudioStays == StudioOK /\ [Studio!Next]_(Studio!vars) => StudioOK'
<1> SUFFICES ASSUME StudioOK, [Studio!Next]_(Studio!vars) PROVE StudioOK'
  OBVIOUS
<1>1. CASE Studio!Restart
  <2>1. /\ thread' \in [Studio!Threads -> Studio!Places]
        /\ \A t \in Studio!Threads : thread'[t] \in {"ask", "idle"}
        /\ answer' \in [Studio!Threads -> {"none"}]
        /\ copy' \in [Studio!Threads -> {"none"}]
    BY <1>1 DEF Studio!Restart, Studio!Places
  <2>2. /\ UNCHANGED <<server, dialect, modelRow>> /\ Studio!Counted
        /\ registry' = modelRow /\ cache' = "none" /\ behind' = {}
    BY <1>1 DEF Studio!Restart, Studio!studio
  <2>3. QED
    BY <2>1, <2>2, TurnsAreBounded, StudioFacts DEF StudioOK, Studio!TypeOK
<1>2. CASE Studio!ServerChanges
  <2>1. /\ server' \in {"absent", "stopped", "loaded"}
        /\ dialect' \in Dialects \cup {"plain", "down"}
        /\ UNCHANGED <<cache, registry, modelRow, thread, answer, copy, behind>>
        /\ turns' \in 0..MaxTurns
    BY <1>2, TurnsAreBounded DEF Studio!ServerChanges, StudioOK, Studio!TypeOK
  <2>2. QED
    BY <2>1 DEF StudioOK, Studio!TypeOK
<1>3. CASE UNCHANGED Studio!vars
  BY <1>3 DEF Studio!vars, StudioOK, Studio!TypeOK
<1>4. QED
  BY <1>1, <1>2, <1>3, ReadsKeepTypes, WritesKeepTypes, RefreshKeepsTypes,
     RequestsKeepTypes, PostKeepsTypes
     DEF Studio!Next, Studio!Reads, Studio!Writes

LEMMA StudioAtFirst == ASSUME StudioBounded, Studio!Init PROVE StudioOK
<1>1. /\ thread \in [Studio!Threads -> {"ask", "idle"}]
      /\ answer \in [Studio!Threads -> {"none"}]
      /\ copy \in [Studio!Threads -> {"none"}]
  BY DEF Studio!Init
<1>2. /\ server \in {"absent", "stopped", "loaded"}
      /\ dialect \in Dialects \cup {"plain", "down"}
      /\ cache \in Studio!Lists /\ registry \in Studio!Lists /\ modelRow \in Studio!Lists
      /\ turns \in 0..MaxTurns /\ behind = {}
  BY DEF Studio!Init, Studio!Lists, StudioBounded
<1>3. QED
  BY <1>1, <1>2 DEF StudioOK, Studio!TypeOK, Studio!Lists, Studio!Places

LEMMA StudioTypes ==
  ASSUME StudioBounded PROVE ServicesSpec => []Studio!TypeOK
<1>1. StudioOK => Studio!TypeOK
  BY DEF StudioOK
<1>2. Studio!Init => StudioOK
  BY StudioAtFirst
<1>3. QED
  BY <1>1, <1>2, StudioStays, StudioMoves, PTL DEF Studio!Spec

\* What a thread knows of the registry unless its copy was left behind: what it
\* has read there, what an action has brought about, or what a list says.
Matches(t) ==
  copy[t] # "none" =>
    /\ thread[t] = "replace" /\ copy[t] = "unknown" => registry \notin Studio!Known
    /\ thread[t] = "mark" => copy[t] \in Studio!Known \cup {registry}
    /\ thread[t] \notin {"replace", "mark"} => copy[t] = registry

CopiesMatch ==
  /\ "row" \notin behind => modelRow = registry
  /\ \A t \in Studio!Threads \ behind : Matches(t)

\* A thread that leaves registry and row alone matters to itself only.
LEMMA OthersStillMatch ==
  ASSUME CopiesMatch, NEW t \in Studio!Threads, UNCHANGED <<registry, modelRow>>,
         \A u \in Studio!Threads \ {t} : thread'[u] = thread[u] /\ copy'[u] = copy[u],
         behind \ {t} \subseteq behind',
         t \notin behind' => Matches(t)'
  PROVE  CopiesMatch'
<1>1. "row" \notin Studio!Threads
  BY DEF Studio!Threads
<1>2. "row" \notin behind' => modelRow' = registry'
  BY <1>1 DEF CopiesMatch
<1>3. ASSUME NEW u \in Studio!Threads \ behind', u # t PROVE Matches(u)'
  BY <1>3 DEF CopiesMatch, Matches
<1>4. QED
  BY <1>2, <1>3 DEF CopiesMatch

\* A thread that changes the registry leaves the others behind.
LEMMA OthersAreLeft ==
  ASSUME StudioOK, CopiesMatch, NEW t \in Studio!Threads, modelRow' = modelRow,
         Studio!LeavesBehind(t),
         \A u \in Studio!Threads \ {t} : thread'[u] = thread[u] /\ copy'[u] = copy[u],
         Matches(t)'
  PROVE  CopiesMatch'
<1>1. "row" \notin Studio!Threads
  BY DEF Studio!Threads
<1>2. CASE registry' = registry
  BY <1>2, OthersStillMatch DEF Studio!LeavesBehind
<1>3. CASE registry' # registry
  <2>1. behind' = ({"row"} \cup {u \in Studio!Threads : copy'[u] # "none"}) \ {t}
    BY <1>3 DEF Studio!LeavesBehind
  <2>2. "row" \in behind'
    BY <1>1, <2>1
  <2>3. ASSUME NEW u \in Studio!Threads \ behind' PROVE Matches(u)'
    <3>1. u = t \/ copy'[u] = "none"
      BY <2>1, <2>3
    <3>2. QED
      BY <3>1 DEF Matches
  <2>4. QED
    BY <2>2, <2>3 DEF CopiesMatch
<1>4. QED
  BY <1>2, <1>3

LEMMA ReadsKeepMatch ==
  ASSUME StudioOK, CopiesMatch, NEW t \in Studio!Threads,
         Studio!Wants(t) \/ Studio!Ask(t) \/ Studio!Store(t) \/ Studio!Snapshot(t)
  PROVE  CopiesMatch'
<1>1. /\ UNCHANGED <<registry, modelRow, copy, behind>>
      /\ thread[t] \in {"idle", "ask", "store", "snapshot"}
  BY DEF Studio!Wants, Studio!Ask, Studio!Store, Studio!Snapshot
<1>2. PICK p : Studio!Goes(t, p) /\ p # "replace"
  BY DEF Studio!Wants, Studio!Ask, Studio!AfterAsk, Studio!Store, Studio!Snapshot,
         Studio!AfterSnapshot
<1>3. thread'[t] = p /\ \A u \in Studio!Threads \ {t} : thread'[u] = thread[u]
  BY <1>2, StudioFacts DEF Studio!Goes
<1>4. t \notin behind' => Matches(t)'
  BY <1>1, <1>2, <1>3 DEF CopiesMatch, Matches
<1>5. QED
  BY <1>1, <1>3, <1>4, OthersStillMatch

LEMMA WritesKeepMatch ==
  ASSUME StudioOK, CopiesMatch, NEW t \in Studio!Threads, Studio!Put(t) \/ Studio!Save(t)
  PROVE  CopiesMatch'
<1>0. copy[t] \in Studio!Lists /\ Studio!Carries(t, copy[t])
  BY StudioFacts DEF Studio!Put, Studio!Save
<1>1. PICK p : Studio!Goes(t, p) /\ p \in {"wished", "save", "ask", "idle"}
  BY DEF Studio!Put, Studio!AfterPut, Studio!Save, Studio!AfterSave
<1>2. thread'[t] = p /\ \A u \in Studio!Threads \ {t} : thread'[u] = thread[u]
  BY <1>1, StudioFacts DEF Studio!Goes
<1>3. /\ \A u \in Studio!Threads \ {t} : copy'[u] = copy[u]
      /\ copy'[t] = IF p = "idle" THEN "none" ELSE copy[t]
  BY <1>0, <1>2, CarriesOne
<1>4. CASE Studio!Put(t)
  <2>1. registry' = copy[t] /\ modelRow' = modelRow /\ Studio!LeavesBehind(t)
    BY <1>4 DEF Studio!Put
  <2>2. Matches(t)'
    BY <1>1, <1>2, <1>3, <2>1 DEF Matches
  <2>3. QED
    BY <1>2, <1>3, <2>1, <2>2, OthersAreLeft
<1>5. CASE Studio!Save(t)
  <2>1. /\ registry' = registry
        /\ modelRow' = IF copy[t] = "none" THEN modelRow ELSE copy[t]
        /\ thread[t] \in {"wished", "save"}
    BY <1>5 DEF Studio!Save
  <2>2. t \notin behind => copy[t] \in {"none", registry}
    BY <2>1 DEF CopiesMatch, Matches
  <2> DEFINE left == CASE copy[t] = "none" -> behind
                       [] copy[t] # "none" /\ t \in behind -> behind \cup {"row"}
                       [] OTHER -> behind \ {"row"}
  <2>3. behind' = IF thread'[t] = "idle" THEN left \ {t} ELSE left
    BY <1>5 DEF Studio!Save
  <2>4. "row" \notin Studio!Threads
    BY DEF Studio!Threads
  <2>5. "row" \in left <=> "row" \in behind'
    BY <2>3, <2>4
  <2>6. "row" \notin behind' => modelRow' = registry'
    <3>1. CASE copy[t] = "none"
      BY <2>1, <2>5, <3>1 DEF CopiesMatch
    <3>2. CASE copy[t] # "none"
      BY <2>1, <2>2, <2>5, <3>2
    <3>3. QED
      BY <3>1, <3>2
  <2>7. \A u \in Studio!Threads \ {t} : u \in behind' <=> u \in behind
    BY <2>3, <2>4
  <2>8. ASSUME NEW u \in Studio!Threads \ behind' PROVE Matches(u)'
    <3>1. CASE u # t
      BY <1>2, <1>3, <2>1, <2>7, <2>8, <3>1 DEF CopiesMatch, Matches
    <3>2. CASE u = t /\ p = "idle"
      BY <1>3, <3>2 DEF Matches
    <3>3. CASE u = t /\ p # "idle"
      <4>1. t \notin behind
        BY <1>2, <2>3, <2>4, <2>8, <3>3
      <4>2. QED
        BY <1>1, <1>2, <1>3, <2>1, <2>2, <3>3, <4>1 DEF Matches
    <3>4. QED
      BY <3>1, <3>2, <3>3
  <2>9. QED
    BY <2>6, <2>8 DEF CopiesMatch
<1>6. QED
  BY <1>4, <1>5

LEMMA RefreshKeepsMatch ==
  ASSUME StudioOK, CopiesMatch, Studio!Merge \/ Studio!Replace \/ Studio!Sync
  PROVE  CopiesMatch'
<1>0. "list" \in Studio!Threads
  BY DEF Studio!Threads
<1>1. CASE Studio!Merge
  <2>1. answer["list"] \in Studio!Lists
    BY <1>0, <1>1 DEF Studio!Merge, StudioOK
  <2>2. PICK c \in Studio!Lists :
          c = Studio!Merged /\ (c = "unknown" => registry \notin Studio!Known)
    BY <2>1, StudioFacts DEF Studio!Merged, Studio!Known
  <2>3. /\ UNCHANGED <<registry, modelRow>> /\ behind' = behind \ {"list"}
        /\ thread' = [thread EXCEPT !["list"] = "replace"]
        /\ Studio!Carries("list", c)
    BY <1>1, <2>2 DEF Studio!Merge, Studio!IsUpToDate, Studio!Goes
  <2>4. /\ thread'["list"] = "replace"
        /\ \A u \in Studio!Threads \ {"list"} : thread'[u] = thread[u]
    BY <1>0, <2>3, StudioFacts
  <2>5. /\ copy'["list"] = c
        /\ \A u \in Studio!Threads \ {"list"} : copy'[u] = copy[u]
    BY <1>0, <2>3, <2>4, CarriesOne
  <2>6. Matches("list")'
    BY <2>2, <2>3, <2>4, <2>5 DEF Matches
  <2>7. QED
    BY <1>0, <2>3, <2>4, <2>5, <2>6, OthersStillMatch
<1>2. CASE Studio!Replace
  <2>1. /\ modelRow' = modelRow /\ Studio!LeavesBehind("list")
        /\ thread' = [thread EXCEPT !["list"] = "sync"]
        /\ Studio!Carries("list", "none")
    BY <1>2 DEF Studio!Replace, Studio!Goes
  <2>2. \A u \in Studio!Threads \ {"list"} : thread'[u] = thread[u]
    BY <1>0, <2>1, StudioFacts
  <2>3. /\ copy'["list"] = "none"
        /\ \A u \in Studio!Threads \ {"list"} : copy'[u] = copy[u]
    BY <1>0, <2>1, CarriesOne, StudioFacts
  <2>4. QED
    BY <1>0, <2>1, <2>2, <2>3, OthersAreLeft DEF Matches
<1>3. CASE Studio!Sync
  <2>1. /\ UNCHANGED <<registry, modelRow>> /\ behind' = behind \ {"list"}
        /\ thread' = [thread EXCEPT !["list"] = "save"]
        /\ Studio!Carries("list", registry)
    BY <1>3 DEF Studio!Sync, Studio!IsUpToDate, Studio!Goes
  <2>2. /\ thread'["list"] = "save"
        /\ \A u \in Studio!Threads \ {"list"} : thread'[u] = thread[u]
    BY <1>0, <2>1, StudioFacts
  <2>3. /\ copy'["list"] = registry
        /\ \A u \in Studio!Threads \ {"list"} : copy'[u] = copy[u]
    BY <1>0, <2>1, <2>2, CarriesOne, StudioFacts
  <2>4. QED
    BY <1>0, <2>1, <2>2, <2>3, OthersStillMatch DEF Matches
<1>4. QED
  BY <1>1, <1>2, <1>3

LEMMA RequestsKeepMatch ==
  ASSUME StudioOK, CopiesMatch, Studio!ActionBegin \/ Studio!RequestBegin \/ Studio!Look
  PROVE  CopiesMatch'
<1>0. {"action", "request"} \subseteq Studio!Threads
  BY DEF Studio!Threads
<1>1. ASSUME NEW t \in {"action", "request"}, NEW p \in {"wish", "look", "put"},
             Studio!Goes(t, p), Studio!Carries(t, registry),
             behind' = behind \ {t}, UNCHANGED <<registry, modelRow>>
      PROVE  CopiesMatch'
  <2>1. thread'[t] = p /\ \A u \in Studio!Threads \ {t} : thread'[u] = thread[u]
    BY <1>0, <1>1, StudioFacts DEF Studio!Goes
  <2>2. copy'[t] = registry /\ \A u \in Studio!Threads \ {t} : copy'[u] = copy[u]
    BY <1>0, <1>1, <2>1, CarriesOne, StudioFacts
  <2>3. Matches(t)'
    BY <1>1, <2>1, <2>2 DEF Matches
  <2>4. QED
    BY <1>0, <1>1, <2>1, <2>2, <2>3, OthersStillMatch
<1>2. CASE Studio!ActionBegin
  BY <1>1, <1>2 DEF Studio!ActionBegin, Studio!IsUpToDate
<1>3. CASE Studio!RequestBegin
  BY <1>1, <1>3 DEF Studio!RequestBegin, Studio!IsUpToDate
<1>4. CASE Studio!Look
  <2>1. UNCHANGED <<registry, modelRow>> /\ thread["request"] = "look"
    BY <1>4 DEF Studio!Look
  <2>2. PICK c \in IF modelRow # "none" THEN {modelRow} ELSE {copy["request"], "none"} :
          /\ Studio!Goes("request", IF c = "none" THEN "idle" ELSE "fill")
          /\ Studio!Carries("request", c)
    BY <1>4 DEF Studio!Look
  <2>3. /\ thread'["request"] = IF c = "none" THEN "idle" ELSE "fill"
        /\ \A u \in Studio!Threads \ {"request"} : thread'[u] = thread[u]
    BY <1>0, <2>2, StudioFacts DEF Studio!Goes
  <2>4. /\ copy'["request"] = c
        /\ \A u \in Studio!Threads \ {"request"} : copy'[u] = copy[u]
    BY <1>0, <2>2, <2>3, CarriesOne, StudioFacts
  <2>5. /\ behind \ {"request"} \subseteq behind'
        /\ modelRow # "none" /\ "row" \in behind => "request" \in behind'
        /\ modelRow = "none" /\ thread'["request"] = "fill" => behind' = behind
    BY <1>4 DEF Studio!Look
  <2>6. "request" \notin behind' => Matches("request")'
    <3> SUFFICES ASSUME "request" \notin behind', c # "none"
                 PROVE  Matches("request")'
      BY <2>4 DEF Matches
    <3>1. CASE modelRow # "none"
      <4>1. c = modelRow /\ "row" \notin behind
        BY <2>2, <2>5, <3>1
      <4>2. QED
        BY <2>1, <2>3, <2>4, <4>1 DEF CopiesMatch, Matches
    <3>2. CASE modelRow = "none"
      <4>1. c = copy["request"] /\ "request" \notin behind
        BY <2>2, <2>3, <2>5, <3>2
      <4>2. QED
        BY <1>0, <2>1, <2>3, <2>4, <4>1 DEF CopiesMatch, Matches
    <3>3. QED
      BY <3>1, <3>2
  <2>7. QED
    BY <1>0, <2>1, <2>3, <2>4, <2>5, <2>6, OthersStillMatch
<1>5. QED
  BY <1>2, <1>3, <1>4

LEMMA PostKeepsMatch == ASSUME StudioOK, CopiesMatch, Studio!Post PROVE CopiesMatch'
<1>0. /\ {"action", "async"} \subseteq Studio!Threads
      /\ Studio!Aim \in Studio!Known /\ Studio!Aim \in Studio!Lists
  BY DEF Studio!Threads, Studio!Aim, Studio!Known, Studio!Lists, Studio!States
<1>1. /\ UNCHANGED <<registry, modelRow, behind>> /\ thread["action"] = "post"
  BY DEF Studio!Post
<1>2. CASE Studio!Posted
  <2>1. /\ thread' = [thread EXCEPT !["action"] = "mark", !["async"] = "ask"]
        /\ thread["async"] = "idle" /\ Studio!Carries("action", Studio!Aim)
    BY <1>2 DEF Studio!Posted
  <2>2. /\ thread'["action"] = "mark" /\ thread'["async"] = "ask"
        /\ \A u \in Studio!Threads \ {"action", "async"} : thread'[u] = thread[u]
    BY <1>0, <2>1, StudioFacts
  <2>3. /\ copy'["action"] = Studio!Aim
        /\ \A u \in Studio!Threads \ {"action"} : copy'[u] = copy[u]
    BY <1>0, <2>1, <2>2, CarriesOne
  <2>4. ASSUME NEW u \in Studio!Threads \ behind' PROVE Matches(u)'
    <3>1. CASE u = "action"
      BY <1>0, <2>2, <2>3, <3>1 DEF Matches
    <3>2. CASE u = "async"
      BY <1>0, <1>1, <2>1, <2>2, <2>3, <2>4, <3>2 DEF CopiesMatch, Matches
    <3>3. CASE u \notin {"action", "async"}
      BY <1>1, <2>2, <2>3, <2>4, <3>3 DEF CopiesMatch, Matches
    <3>4. QED
      BY <3>1, <3>2, <3>3
  <2>5. QED
    BY <1>1, <2>4 DEF CopiesMatch
<1>3. CASE Studio!PostFailed
  <2>1. thread' = [thread EXCEPT !["action"] = "mark"] /\ copy' = copy
    BY <1>3 DEF Studio!PostFailed, Studio!Goes
  <2>2. /\ thread'["action"] = "mark"
        /\ \A u \in Studio!Threads \ {"action"} : thread'[u] = thread[u]
    BY <1>0, <2>1, StudioFacts
  <2>3. "action" \notin behind' => Matches("action")'
    BY <1>0, <1>1, <2>1, <2>2 DEF CopiesMatch, Matches
  <2>4. QED
    BY <1>0, <1>1, <2>1, <2>2, <2>3, OthersStillMatch
<1>4. QED
  BY <1>2, <1>3 DEF Studio!Post

LEMMA CopiesStillMatch ==
  StudioOK /\ CopiesMatch /\ [Studio!Next]_(Studio!vars) => CopiesMatch'
<1> SUFFICES ASSUME StudioOK, CopiesMatch, [Studio!Next]_(Studio!vars)
             PROVE  CopiesMatch'
  OBVIOUS
<1>1. CASE Studio!Restart
  <2>1. /\ \A t \in Studio!Threads : copy'[t] = "none"
        /\ registry' = modelRow /\ modelRow' = modelRow
    BY <1>1 DEF Studio!Restart
  <2>2. QED
    BY <2>1 DEF CopiesMatch, Matches
<1>2. CASE Studio!ServerChanges \/ UNCHANGED Studio!vars
  <2>1. UNCHANGED <<registry, modelRow, thread, copy, behind>>
    BY <1>2 DEF Studio!ServerChanges, Studio!vars
  <2>2. QED
    BY <2>1 DEF CopiesMatch, Matches
<1>3. QED
  BY <1>1, <1>2, ReadsKeepMatch, WritesKeepMatch, RefreshKeepsMatch, RequestsKeepMatch,
     PostKeepsMatch DEF Studio!Next, Studio!Reads, Studio!Writes

(***************************************************************************)
(* A known state of an LM Studio model becomes unknown only by a copy made *)
(* before the registry last changed: no silent list, failed action, report *)
(* or GET that has seen the known state, and no restart from its row,      *)
(* loses it.                                                               *)
(***************************************************************************)
THEOREM KnownStaysKnown ==
  ASSUME StudioBounded PROVE ServicesSpec => UnknownKeepsKnown
<1> DEFINE Kept ==
      (registry \in Studio!Known /\ registry' = "unknown") =>
         \/ \E t \in behind \cap Studio!Threads : thread'[t] # thread[t]
         \/ (Studio!Restart /\ "row" \in behind)
<1>1. StudioOK /\ CopiesMatch /\ [Studio!Next]_(Studio!vars) => [Kept]_(Studio!vars)
  <2> SUFFICES ASSUME StudioOK, CopiesMatch, Studio!Next, registry \in Studio!Known,
                      registry' = "unknown"
               PROVE  \/ \E t \in behind \cap Studio!Threads : thread'[t] # thread[t]
                      \/ (Studio!Restart /\ "row" \in behind)
    OBVIOUS
  <2>0. "unknown" \notin Studio!Known /\ "list" \in Studio!Threads
    BY DEF Studio!Known, Studio!Threads
  <2>1. CASE Studio!Replace
    <3>1. thread["list"] = "replace" /\ copy["list"] = "unknown"
      BY <2>1 DEF Studio!Replace
    <3>2. thread'["list"] # thread["list"]
      BY <2>0, <2>1, <3>1, StudioFacts DEF Studio!Replace, Studio!Goes
    <3>3. "list" \in behind
      BY <2>0, <3>1 DEF CopiesMatch, Matches
    <3>4. QED
      BY <2>0, <3>2, <3>3
  <2>2. ASSUME NEW t \in Studio!Threads, Studio!Put(t)
        PROVE  \E u \in behind \cap Studio!Threads : thread'[u] # thread[u]
    <3>1. copy[t] = "unknown" /\ thread[t] \in {"wish", "mark", "put", "fill"}
      BY <2>2 DEF Studio!Put, Studio!AfterPut
    <3>2. t \in behind
      BY <2>0, <3>1 DEF CopiesMatch, Matches
    <3>3. thread'[t] # thread[t]
      BY <2>2, <3>1, StudioFacts DEF Studio!Put, Studio!AfterPut, Studio!Goes
    <3>4. QED
      BY <3>2, <3>3
  <2>3. CASE Studio!Restart
    BY <2>0, <2>3 DEF Studio!Restart, CopiesMatch
  <2>4. registry' # registry
    BY <2>0
  <2>5. QED
    BY <2>1, <2>2, <2>3, <2>4 DEF Studio!Next, Studio!Wants, Studio!Reads, Studio!Ask,
       Studio!Store, Studio!Snapshot, Studio!Writes, Studio!Save, Studio!Merge, Studio!Sync,
       Studio!ActionBegin, Studio!Post, Studio!RequestBegin, Studio!Look,
       Studio!ServerChanges
<1>2. Studio!Init => StudioOK
  BY StudioAtFirst
<1>3. Studio!Init => CopiesMatch
  BY DEF Studio!Init, CopiesMatch, Matches
<1>4. QED
  BY <1>1, <1>2, <1>3, StudioStays, CopiesStillMatch, StudioMoves, PTL
     DEF Studio!Spec, UnknownKeepsKnown, Studio!UnknownKeepsKnown

-----------------------------------------------------------------------------
(* The nodes.                                                              *)

\* What the theorem about nodes assumes: the sign for no node is neither a copy
\* nor a row of one, and a listing is no report.
NodesOK ==
  /\ \A s, n, x : /\ NoNode # [status |-> s, notes |-> n, array |-> x]
                  /\ NoNode # [status |-> s, notes |-> n, runtimes |-> x]
  /\ Listings \cap Reports = {}

LEMMA NodesMove == ServicesSpec => Nodes!Spec
<1>1. ServicesInit => Nodes!Init
  BY DEF ServicesInit
<1>2. [ServicesNext]_<<part, nodeVars, serveVars, agentVars, testVars, studioVars,
                       inventoryVars, templateVars>> => [Nodes!Next]_(Nodes!vars)
  BY DEF ServicesNext, inventoryVars, Nodes!vars, Nodes!calls
<1>3. QED
  BY <1>1, <1>2, PTL DEF ServicesSpec, Nodes!Spec

IsCopy(c) == c = [status |-> c.status, notes |-> c.notes, array |-> c.array]
IsRow(c) == c = [status |-> c.status, notes |-> c.notes, runtimes |-> c.runtimes]
Busy(t) == place[t] \notin {"idle", "done"}

\* A call has read the node with all reports that count but those it missed.
CallOK(t) ==
  Busy(t) =>
    /\ held[t] = NoNode => place[t] = "read" /\ t \in Listings /\ kept \subseteq missed[t]
    /\ held[t] # NoNode =>
         /\ IsCopy(held[t])
         /\ (kept \cup safe) \ missed[t] \subseteq held[t].notes
         /\ t \in Reports => t \in held[t].notes

\* The same of the registry and the database, between calls.
InventoryOK ==
  /\ inventory = NoNode => kept = {}
  /\ inventory # NoNode => IsCopy(inventory) /\ kept \cup safe \subseteq inventory.notes
  /\ row # NoNode => IsRow(row) /\ safe \subseteq row.notes
  /\ kept \subseteq Reports /\ safe \subseteq Reports

CallsOK ==
  /\ place \in [Nodes!Threads -> {"idle", "read", "probe", "apply", "save", "done"}]
  /\ held = [t \in Nodes!Threads |-> held[t]]
  /\ missed = [t \in Nodes!Threads |-> missed[t]]
  /\ \A t \in Nodes!Threads : Busy(t) => running
  /\ \A t \in Nodes!Threads : CallOK(t)

NodesInv == CallsOK /\ InventoryOK

LEMMA NodesAtFirst == Nodes!Init => NodesInv
  BY DEF Nodes!Init, NodesInv, CallsOK, InventoryOK, CallOK, Busy

\* A node made by CopyOf or RowOf is one.
LEMMA NodesAreNodes ==
  ASSUME NodesOK, NEW n, NEW x
  PROVE  /\ IsCopy(Nodes!CopyOf(n, x)) /\ Nodes!CopyOf(n, x) # NoNode
         /\ Nodes!CopyOf(n, x).notes = n.notes
         /\ IsRow(Nodes!RowOf(n, x)) /\ Nodes!RowOf(n, x) # NoNode
         /\ Nodes!RowOf(n, x).notes = n.notes
  BY DEF NodesOK, IsCopy, IsRow, Nodes!CopyOf, Nodes!RowOf

\* The merge of memory and database keeps the notes of memory, if it has some.
LEMMA SeenIs ==
  ASSUME NodesOK, NEW m, NEW read,
         m = NoNode \/ IsRow(m), read = NoNode \/ IsRow(read)
  PROVE  /\ m = NoNode => Nodes!Seen(m, read) = read
         /\ m # NoNode => /\ Nodes!Seen(m, read) # NoNode /\ IsRow(Nodes!Seen(m, read))
                          /\ Nodes!Seen(m, read).notes = m.notes
<1>1. CASE m = NoNode
  BY <1>1 DEF Nodes!Seen
<1>2. CASE m # NoNode /\ read = NoNode
  BY <1>2 DEF Nodes!Seen
<1>3. CASE m # NoNode /\ read # NoNode
  <2>1. Nodes!Seen(m, read) = Nodes!Merged(m, read)
    BY <1>3 DEF Nodes!Seen
  <2>2. /\ Nodes!Merged(m, read) # NoNode /\ IsRow(Nodes!Merged(m, read))
        /\ Nodes!Merged(m, read).notes = m.notes
    BY DEF Nodes!Merged, NodesOK, IsRow
  <2>3. QED
    BY <1>3, <2>1, <2>2
<1>4. QED
  BY <1>1, <1>2, <1>3

LEMMA BootKeeps ==
  ASSUME NodesOK, NodesInv, NEW c \in BOOLEAN, NEW r \in BOOLEAN, NEW w \in BOOLEAN,
         Nodes!Boot(c, r, w)
  PROVE  NodesInv'
<1>1. ~running /\ UNCHANGED <<place, held, missed>>
  BY DEF Nodes!Boot, Nodes!calls
<1>2. \A t \in Nodes!Threads : ~Busy(t) /\ ~Busy(t)'
  BY <1>1 DEF NodesInv, CallsOK, Busy
<1>3. CallsOK'
  BY <1>1, <1>2 DEF NodesInv, CallsOK, CallOK
<1> DEFINE m == IF c THEN Nodes!FromConfig ELSE NoNode
           read == IF r THEN NoNode ELSE row
           seen == Nodes!Seen(m, read)
<1>4. /\ inventory' = IF seen # NoNode THEN Nodes!CopyOf(seen, 1) ELSE NoNode
      /\ row' = IF seen # NoNode /\ ~w THEN seen ELSE row
      /\ kept' = IF c \/ r THEN {} ELSE safe
      /\ safe' = IF c THEN {} ELSE safe
      /\ row = NoNode => c /\ ~r
  BY DEF Nodes!Boot
<1>5. m = NoNode \/ IsRow(m)
  BY DEF Nodes!FromConfig, IsRow
<1>6. read = NoNode \/ IsRow(read)
  BY DEF NodesInv, InventoryOK
<1>7. CASE c
  <2>1. m # NoNode
    BY <1>7 DEF Nodes!FromConfig, NodesOK
  <2>2. seen # NoNode /\ IsRow(seen)
    BY <1>5, <1>6, <2>1, SeenIs
  <2>3. InventoryOK'
    BY <1>4, <1>7, <2>2, NodesAreNodes DEF NodesInv, InventoryOK
  <2>4. QED
    BY <1>3, <2>3 DEF NodesInv
<1>8. CASE ~c
  <2>1. seen = read /\ row # NoNode /\ safe' = safe
    BY <1>4, <1>5, <1>6, <1>8, SeenIs
  <2>2. CASE r
    BY <1>3, <1>4, <2>1, <2>2 DEF NodesInv, InventoryOK
  <2>3. CASE ~r
    <3>1. seen = row /\ kept' = safe /\ inventory' = Nodes!CopyOf(row, 1) /\ row' = row
      BY <1>4, <1>8, <2>1, <2>3
    <3>2. safe \subseteq Reports
      BY DEF NodesInv, InventoryOK
    <3>3. InventoryOK'
      BY <2>1, <3>1, <3>2, NodesAreNodes DEF NodesInv, InventoryOK
    <3>4. QED
      BY <1>3, <3>3 DEF NodesInv
  <2>4. QED
    BY <2>2, <2>3
<1>9. QED
  BY <1>7, <1>8

LEMMA CrashKeeps == ASSUME NodesInv, Nodes!Crash PROVE NodesInv'
<1>1. /\ place' = [t \in Nodes!Threads |->
                     IF t \in Reports /\ place[t] # "idle" THEN "done" ELSE "idle"]
      /\ held' = [t \in Nodes!Threads |-> NoNode]
      /\ missed' = [t \in Nodes!Threads |-> {}]
      /\ inventory' = NoNode /\ kept' = {} /\ UNCHANGED <<row, safe>>
  BY DEF Nodes!Crash
<1>2. \A t \in Nodes!Threads : ~Busy(t)'
  BY <1>1 DEF Busy
<1>3. CallsOK'
  BY <1>1, <1>2 DEF CallsOK, CallOK
<1>4. InventoryOK'
  BY <1>1 DEF NodesInv, InventoryOK
<1>5. QED
  BY <1>3, <1>4 DEF NodesInv

\* A call that touches neither the registry nor the database nor another call.
LEMMA OneCallMoves ==
  ASSUME NodesInv, running, NEW t \in Nodes!Threads,
         place' \in [Nodes!Threads -> {"idle", "read", "probe", "apply", "save", "done"}],
         held' = [u \in Nodes!Threads |-> held'[u]],
         missed' = [u \in Nodes!Threads |-> missed'[u]],
         \A u \in Nodes!Threads : u # t =>
           place'[u] = place[u] /\ held'[u] = held[u] /\ missed'[u] = missed[u],
         UNCHANGED <<running, inventory, row, kept, safe>>,
         CallOK(t)'
  PROVE  NodesInv'
<1>1. InventoryOK'
  BY DEF NodesInv, InventoryOK
<1>2. ASSUME NEW u \in Nodes!Threads PROVE CallOK(u)'
  <2>1. CASE u = t
    BY <2>1
  <2>2. CASE u # t
    BY <2>2 DEF NodesInv, CallsOK, CallOK, Busy
  <2>3. QED
    BY <2>1, <2>2
<1>3. CallsOK'
  BY <1>2 DEF NodesInv, CallsOK
<1>4. QED
  BY <1>1, <1>3 DEF NodesInv

LEMMA BeginKeeps ==
  ASSUME NodesOK, NodesInv, NEW l \in Listings, Nodes!Begin(l) PROVE NodesInv'
<1>1. l \in Nodes!Threads /\ l \notin Reports
  BY DEF NodesOK, Nodes!Threads
<1>2. /\ running /\ UNCHANGED <<running, inventory, row, kept, safe>>
      /\ place' = [place EXCEPT ![l] = "read"]
      /\ held' = [held EXCEPT ![l] = inventory]
      /\ missed' = [missed EXCEPT ![l] = {}]
  BY DEF Nodes!Begin, Nodes!Takes, Nodes!Goes
<1>3. place'[l] = "read" /\ held'[l] = inventory /\ missed'[l] = {}
  BY <1>1, <1>2 DEF NodesInv, CallsOK
<1>4. CallOK(l)'
  BY <1>1, <1>2, <1>3 DEF NodesInv, InventoryOK, CallOK
<1>5. QED
  BY <1>1, <1>2, <1>4, OneCallMoves DEF NodesInv, CallsOK

LEMMA ReadKeeps ==
  ASSUME NodesOK, NodesInv, NEW l \in Listings, NEW b \in BOOLEAN, Nodes!Read(l, b)
  PROVE  NodesInv'
<1> DEFINE m == IF held[l] = NoNode THEN NoNode
                ELSE Nodes!RowOf(held[l], arrays[held[l].array])
           read == IF b THEN NoNode ELSE row
           seen == Nodes!Seen(m, read)
           a == IF read = NoNode THEN held[l].array ELSE Nodes!Free
<1>1. /\ place[l] = "read" /\ UNCHANGED <<running, inventory, row, missed, kept, safe>>
      /\ IF seen = NoNode
         THEN place' = [place EXCEPT ![l] = "idle"] /\ held' = held
         ELSE /\ place' = [place EXCEPT ![l] = "probe"]
              /\ held' = [held EXCEPT ![l] = Nodes!CopyOf(seen, a)]
  BY DEF Nodes!Read, Nodes!Goes
<1>2. l \in Nodes!Threads /\ l \notin Reports /\ Busy(l)
  BY <1>1 DEF NodesOK, Nodes!Threads, Busy
<1>3. running /\ CallOK(l) /\ missed'[l] = missed[l]
  BY <1>1, <1>2 DEF NodesInv, CallsOK
<1>4. CASE seen = NoNode
  <2>1. place' = [place EXCEPT ![l] = "idle"] /\ held' = held
    BY <1>1, <1>4
  <2>2. CallOK(l)'
    BY <1>2, <2>1 DEF NodesInv, CallsOK, CallOK, Busy
  <2>3. QED
    BY <1>1, <1>2, <1>3, <2>1, <2>2, OneCallMoves DEF NodesInv, CallsOK
<1>5. CASE seen # NoNode
  <2>1. /\ place' = [place EXCEPT ![l] = "probe"]
        /\ held' = [held EXCEPT ![l] = Nodes!CopyOf(seen, a)]
    BY <1>1, <1>5
  <2>2. read = NoNode \/ IsRow(read)
    BY DEF NodesInv, InventoryOK
  <2>3. m = NoNode \/ IsRow(m)
    BY NodesAreNodes
  <2>4. (kept \cup safe) \ missed[l] \subseteq seen.notes
    <3>1. CASE held[l] = NoNode
      <4>1. seen = row /\ row # NoNode
        BY <1>5, <2>2, <3>1, SeenIs
      <4>2. kept \subseteq missed[l] /\ safe \subseteq row.notes
        BY <1>2, <1>3, <3>1, <4>1 DEF NodesInv, InventoryOK, CallOK
      <4>3. QED
        BY <4>1, <4>2
    <3>2. CASE held[l] # NoNode
      <4>1. m # NoNode /\ m.notes = held[l].notes
        BY <3>2, NodesAreNodes
      <4>2. seen.notes = held[l].notes
        BY <2>2, <2>3, <4>1, SeenIs
      <4>3. QED
        BY <1>2, <1>3, <3>2, <4>2 DEF CallOK
    <3>3. QED
      BY <3>1, <3>2
  <2>5. held'[l] = Nodes!CopyOf(seen, a)
    BY <1>2, <2>1 DEF NodesInv, CallsOK
  <2>6. IsCopy(held'[l]) /\ held'[l] # NoNode /\ held'[l].notes = seen.notes
    BY <2>5, NodesAreNodes
  <2>7. CallOK(l)'
    BY <1>1, <1>2, <1>3, <2>4, <2>6 DEF CallOK, IsCopy
  <2>8. QED
    BY <1>1, <1>2, <1>3, <2>1, <2>7, OneCallMoves DEF NodesInv, CallsOK
<1>6. QED
  BY <1>4, <1>5

LEMMA ListingProbeKeeps ==
  ASSUME NodesOK, NodesInv, NEW l \in Listings, Nodes!Probe(l) PROVE NodesInv'
<1>1. /\ place[l] = "probe"
      /\ UNCHANGED <<running, inventory, row, held, missed, kept, safe>>
      /\ \E step \in {"probe", "apply"} : place' = [place EXCEPT ![l] = step]
  BY DEF Nodes!Probe, Nodes!Goes
<1>2. l \in Nodes!Threads /\ Busy(l)
  BY <1>1 DEF Nodes!Threads, Busy
<1>3. running /\ CallOK(l)
  BY <1>2 DEF NodesInv, CallsOK
<1>4. CallOK(l)'
  BY <1>1, <1>2, <1>3 DEF CallOK, IsCopy
<1>5. QED
  BY <1>1, <1>2, <1>3, <1>4, OneCallMoves DEF NodesInv, CallsOK

LEMMA ObserveKeeps ==
  ASSUME NodesOK, NodesInv, NEW o \in Reports, NEW b \in BOOLEAN, NEW tale,
         Nodes!Observe(o, b, tale)
  PROVE  NodesInv'
<1> DEFINE seen == IF inventory # NoNode THEN Nodes!InMemory ELSE row
           a == IF inventory # NoNode THEN inventory.array ELSE Nodes!Free
           written == [status |-> IF b THEN "online" ELSE seen.status,
                       notes |-> seen.notes \cup {o}, array |-> a]
<1>1. /\ running /\ UNCHANGED <<running, inventory, row, kept, safe>>
      /\ seen # NoNode
      /\ place' = [place EXCEPT ![o] = "apply"]
      /\ held' = [held EXCEPT ![o] = written]
      /\ missed' = [missed EXCEPT ![o] = {}]
  BY DEF Nodes!Observe, Nodes!Takes, Nodes!Goes
<1>2. o \in Nodes!Threads
  BY DEF Nodes!Threads
<1>3. held'[o] = written /\ missed'[o] = {}
  BY <1>1, <1>2 DEF NodesInv, CallsOK
<1>4. IsCopy(written) /\ written # NoNode /\ written.notes = seen.notes \cup {o}
  BY DEF IsCopy, NodesOK
<1>5. kept \cup safe \subseteq seen.notes
  <2>1. CASE inventory # NoNode
    <3>1. seen.notes = inventory.notes
      BY <2>1, NodesAreNodes DEF Nodes!InMemory
    <3>2. QED
      BY <2>1, <3>1 DEF NodesInv, InventoryOK
  <2>2. CASE inventory = NoNode
    BY <1>1, <2>2 DEF NodesInv, InventoryOK
  <2>3. QED
    BY <2>1, <2>2
<1>6. CallOK(o)'
  BY <1>1, <1>3, <1>4, <1>5 DEF CallOK, IsCopy
<1>7. QED
  BY <1>1, <1>2, <1>6, OneCallMoves DEF NodesInv, CallsOK

\* The registry gets a copy in which the reports that count are noted, and the
\* calls at work, which do not know of a report just recorded, have missed it.
LEMMA UpsertKeeps ==
  ASSUME NodesInv, NEW t \in Nodes!Threads, Busy(t), place[t] # "read",
         NEW written, IsCopy(written), written # NoNode, written.notes = held[t].notes,
         Nodes!Upserts(t, written), UNCHANGED <<running, row>>
  PROVE  NodesInv'
<1>1. /\ inventory' = written
      /\ held' = [held EXCEPT ![t] = written]
      /\ missed' = [u \in Nodes!Threads |->
           IF place[u] \notin {"idle", "done"} /\ u # t /\ t \in Reports
             THEN missed[u] \cup {t} ELSE missed[u]]
      /\ kept' = (kept \ missed[t]) \cup ({t} \cap Reports)
      /\ safe' = safe \ missed[t]
      /\ place' = [place EXCEPT ![t] = "save"]
  BY DEF Nodes!Upserts, Nodes!Goes
<1>2. /\ CallOK(t) /\ held[t] # NoNode /\ running
      /\ (kept \cup safe) \ missed[t] \subseteq held[t].notes
      /\ t \in Reports => t \in held[t].notes
  BY DEF NodesInv, CallsOK, CallOK
<1>3. kept' \cup safe' \subseteq written.notes
  BY <1>1, <1>2
<1>4. InventoryOK'
  BY <1>1, <1>3 DEF NodesInv, InventoryOK, IsCopy, IsRow
<1>5. held'[t] = written /\ place'[t] = "save"
  BY <1>1 DEF NodesInv, CallsOK
<1>6. CallOK(t)'
  BY <1>2, <1>3, <1>5 DEF CallOK, IsCopy
<1>7. ASSUME NEW u \in Nodes!Threads, u # t PROVE CallOK(u)'
  <2>1. held'[u] = held[u] /\ place'[u] = place[u]
    BY <1>1, <1>7 DEF NodesInv, CallsOK
  <2>2. SUFFICES ASSUME Busy(u) PROVE CallOK(u)'
    BY <2>1 DEF CallOK, Busy
  <2>3. missed'[u] = IF t \in Reports THEN missed[u] \cup {t} ELSE missed[u]
    BY <1>1, <1>7, <2>2 DEF Busy
  <2>4. kept' \ missed'[u] \subseteq kept \ missed[u] /\ safe' \subseteq safe
    BY <1>1, <2>3
  <2>5. missed[u] \subseteq missed'[u]
    BY <2>3
  <2>6. CallOK(u)
    BY DEF NodesInv, CallsOK
  <2>7. held[u] = NoNode => CallOK(u)'
    BY <2>1, <2>2, <2>4, <2>6 DEF CallOK
  <2>8. held[u] # NoNode => CallOK(u)'
    <3> SUFFICES ASSUME held[u] # NoNode PROVE CallOK(u)'
      OBVIOUS
    <3>1. (kept' \cup safe') \ missed'[u] \subseteq held[u].notes
      BY <2>2, <2>4, <2>5, <2>6 DEF CallOK
    <3>2. QED
      BY <2>1, <2>2, <2>6, <3>1 DEF CallOK, IsCopy
  <2>9. QED
    BY <2>7, <2>8
<1>8. \A u \in Nodes!Threads : Busy(u)' => running'
  BY <1>1, <1>2 DEF NodesInv, CallsOK
<1>9. CallsOK'
  BY <1>1, <1>6, <1>7, <1>8 DEF NodesInv, CallsOK
<1>10. QED
  BY <1>4, <1>9 DEF NodesInv

LEMMA ApplyKeeps ==
  ASSUME NodesInv, NodesOK, NEW l \in Listings, Nodes!Apply(l) PROVE NodesInv'
<1> DEFINE written == [held[l] EXCEPT !.status = answers[l]["host"]]
<1>1. place[l] = "apply" /\ Nodes!Upserts(l, written) /\ UNCHANGED <<running, row>>
  BY DEF Nodes!Apply
<1>2. l \in Nodes!Threads /\ Busy(l)
  BY <1>1 DEF Nodes!Threads, Busy
<1>3. IsCopy(held[l])
  BY <1>1, <1>2 DEF NodesInv, CallsOK, CallOK
<1>4. IsCopy(written) /\ written # NoNode /\ written.notes = held[l].notes
  BY <1>3 DEF IsCopy, NodesOK
<1>5. QED
  BY <1>1, <1>2, <1>4, UpsertKeeps

LEMMA RecordKeeps ==
  ASSUME NodesInv, NEW o \in Reports, Nodes!Record(o) PROVE NodesInv'
<1>1. place[o] = "apply" /\ Nodes!Upserts(o, held[o]) /\ UNCHANGED <<running, row>>
  BY DEF Nodes!Record
<1>2. o \in Nodes!Threads /\ Busy(o)
  BY <1>1 DEF Nodes!Threads, Busy
<1>3. IsCopy(held[o]) /\ held[o] # NoNode
  BY <1>1, <1>2 DEF NodesInv, CallsOK, CallOK
<1>4. QED
  BY <1>1, <1>2, <1>3, UpsertKeeps

LEMMA SaveKeeps ==
  ASSUME NodesOK, NodesInv, NEW t \in Nodes!Threads, NEW b \in BOOLEAN, Nodes!Save(t, b)
  PROVE  NodesInv'
<1>1. /\ place[t] = "save" /\ UNCHANGED <<running, inventory, kept>>
      /\ row' = IF b THEN row ELSE Nodes!Written(t)
      /\ safe' = IF b THEN safe ELSE (safe \ missed[t]) \cup ({t} \cap kept)
      /\ place' = [place EXCEPT ![t] = IF t \in Reports THEN "done" ELSE "idle"]
      /\ held' = [held EXCEPT ![t] = NoNode]
      /\ missed' = [missed EXCEPT ![t] = {}]
  BY DEF Nodes!Save, Nodes!Goes, Nodes!Takes
<1>2. Busy(t)
  BY <1>1 DEF Busy
<1>3. /\ held[t] # NoNode
      /\ (kept \cup safe) \ missed[t] \subseteq held[t].notes
      /\ t \in kept => t \in held[t].notes
  BY <1>1, <1>2 DEF NodesInv, CallsOK, CallOK, InventoryOK
<1>4. /\ Nodes!Written(t).notes = held[t].notes /\ IsRow(Nodes!Written(t))
  BY NodesAreNodes DEF Nodes!Written
<1>5. safe' \subseteq safe \cup kept
  BY <1>1
<1>6. row' # NoNode => IsRow(row') /\ safe' \subseteq row'.notes
  <2>1. CASE b
    BY <1>1, <2>1 DEF NodesInv, InventoryOK
  <2>2. CASE ~b
    BY <1>1, <1>3, <1>4, <2>2
  <2>3. QED
    BY <2>1, <2>2
<1>7. InventoryOK'
  BY <1>1, <1>5, <1>6 DEF NodesInv, InventoryOK, IsRow, IsCopy
<1>8. ASSUME NEW u \in Nodes!Threads PROVE CallOK(u)'
  <2>1. CASE u = t
    BY <1>1, <2>1 DEF NodesInv, CallsOK, CallOK, Busy
  <2>2. CASE u # t
    <3>1. held'[u] = held[u] /\ place'[u] = place[u] /\ missed'[u] = missed[u]
      BY <1>1, <2>2 DEF NodesInv, CallsOK
    <3>2. CallOK(u)
      BY DEF NodesInv, CallsOK
    <3>3. (kept' \cup safe') \ missed[u] \subseteq (kept \cup safe) \ missed[u]
      BY <1>1, <1>5
    <3>4. kept' = kept
      BY <1>1
    <3>5. QED
      BY <3>1, <3>2, <3>3, <3>4 DEF CallOK, Busy, IsCopy
  <2>3. QED
    BY <2>1, <2>2
<1>9. \A u \in Nodes!Threads : Busy(u)' => running'
  BY <1>1, <1>2 DEF NodesInv, CallsOK
<1>10. CallsOK'
  BY <1>1, <1>8, <1>9 DEF NodesInv, CallsOK
<1>11. QED
  BY <1>7, <1>10 DEF NodesInv

LEMMA NodesStay == ASSUME NodesOK PROVE NodesInv /\ [Nodes!Next]_(Nodes!vars) => NodesInv'
<1> SUFFICES ASSUME NodesInv, [Nodes!Next]_(Nodes!vars) PROVE NodesInv'
  OBVIOUS
<1>1. CASE \E x, y, z \in BOOLEAN : Nodes!Boot(x, y, z)
  BY <1>1, BootKeeps
<1>2. CASE Nodes!Crash
  BY <1>2, CrashKeeps
<1>3. CASE Nodes!AnswersChange
  BY <1>3 DEF Nodes!AnswersChange, Nodes!calls, NodesInv, CallsOK, CallOK, Busy,
     InventoryOK, IsCopy, IsRow
<1>4. CASE \E l \in Listings : Nodes!ListStep(l)
  <2>1. PICK l \in Listings : Nodes!ListStep(l)
    BY <1>4
  <2>2. l \in Nodes!Threads
    BY DEF Nodes!Threads
  <2>3. QED
    BY <2>1, <2>2, BeginKeeps, ListingProbeKeeps, ApplyKeeps, ReadKeeps, SaveKeeps
       DEF Nodes!ListStep
<1>5. CASE \E o \in Reports :
             \/ Nodes!ReportStep(o)
             \/ \E b \in BOOLEAN, tale \in {Silent, Telling} : Nodes!Observe(o, b, tale)
  <2>1. PICK o \in Reports :
          \/ Nodes!ReportStep(o)
          \/ \E b \in BOOLEAN, tale \in {Silent, Telling} : Nodes!Observe(o, b, tale)
    BY <1>5
  <2>2. o \in Nodes!Threads
    BY DEF Nodes!Threads
  <2>3. QED
    BY <2>1, <2>2, RecordKeeps, SaveKeeps, ObserveKeeps DEF Nodes!ReportStep
<1>6. CASE UNCHANGED Nodes!vars
  BY <1>6 DEF Nodes!vars, Nodes!calls, NodesInv, CallsOK, CallOK, Busy, InventoryOK,
     IsCopy, IsRow
<1>7. QED
  BY <1>1, <1>2, <1>3, <1>4, <1>5, <1>6 DEF Nodes!Next

(***************************************************************************)
(* What a report has noted about the node stays in the registry, and in    *)
(* the database once it is there, however listings and other reports       *)
(* interleave with it, until a call that had read the node before writes   *)
(* it back or the controller starts anew.                                  *)
(***************************************************************************)
THEOREM ReportsStay == ASSUME NodesOK PROVE ServicesSpec => []ReportStays
<1>1. NodesInv => ReportStays
  BY DEF NodesInv, InventoryOK, ReportStays, Nodes!ReportStays
<1>2. QED
  BY <1>1, NodesAtFirst, NodesStay, NodesMove, PTL DEF Nodes!Spec

\* For the types of the nodes: finitely many calls, so that an array is free.
NodesFinite == IsFiniteSet(Listings) /\ IsFiniteSet(Reports) /\ MaxFaults \in Nat

States == [{rt1, rt2} -> Nodes!Statuses]

LEMMA LeastExists ==
  ASSUME NEW S \in SUBSET Nat, S # {} PROVE \E n \in S : \A m \in S : n <= m
<1>1. PICK n \in S : \A m \in S : ~(<<m, n>> \in OpToRel(<, Nat))
  BY NatLessThanWellFounded, WFMin
<1>2. ASSUME NEW m \in S PROVE n <= m
  <2>1. <<m, n>> \in Nat \X Nat
    OBVIOUS
  <2>2. ~(m < n)
    BY <1>1, <2>1 DEF OpToRel
  <2>3. QED
    BY <2>2
<1>3. QED
  BY <1>2

\* There are more arrays than the registry and the calls refer to.
LEMMA FreeIsArray ==
  ASSUME NodesFinite, held = [t \in Nodes!Threads |-> held[t]] PROVE Nodes!Free \in Nodes!Arrays
<1> DEFINE T == Nodes!Threads
           f == [t \in T |-> held[t].array]
           H == {held[t].array : t \in T}
           U == H \cup {inventory.array}
<1>1. IsFiniteSet(T) /\ Cardinality(T) \in Nat
  BY FS_Union, FS_CardinalityType DEF NodesFinite, Nodes!Threads
<1>2. f \in Surjection(T, H)
  BY DEF Surjection
<1>3. IsFiniteSet(H) /\ Cardinality(H) <= Cardinality(T) /\ Cardinality(H) \in Nat
  <2> HIDE DEF T, f, H
  <2> QED
    BY <1>1, <1>2, FS_Surjection, FS_CardinalityType
<1>4. /\ IsFiniteSet(U) /\ Cardinality(U) \in Nat
      /\ Cardinality(U) <= Cardinality(T) + 1
  <2> HIDE DEF T, f, H
  <2>1. /\ IsFiniteSet(U)
        /\ Cardinality(U) = IF inventory.array \in H THEN Cardinality(H)
                             ELSE Cardinality(H) + 1
    BY <1>3, FS_AddElement
  <2>2. QED
    BY <1>1, <1>3, <2>1
<1>5. Nodes!Referred \subseteq U
  BY DEF Nodes!Referred
<1>6. Cardinality(Nodes!Arrays) = Cardinality(T) + 2
  <2> DEFINE n == Cardinality(T) + 2
  <2>1. n \in Int /\ n >= 1
    BY <1>1
  <2>2. Cardinality(1..n) = n
    <3> HIDE DEF n
    <3> QED
      BY <2>1, FS_Interval
  <2>3. QED
    <3>1. Nodes!Cardinality(T) = Cardinality(T)
      BY DEF Nodes!Cardinality, Cardinality
    <3>2. QED
      BY <2>2, <3>1 DEF Nodes!Arrays
<1>7. ~(Nodes!Arrays \subseteq U)
  <2> HIDE DEF U, T
  <2> QED
    BY <1>1, <1>4, <1>6, FS_Subset
<1>8. Nodes!Arrays \ Nodes!Referred # {}
  BY <1>5, <1>7
<1>9. Nodes!Arrays \ Nodes!Referred \in SUBSET Nat
  BY <1>1 DEF Nodes!Arrays
<1>10. \E a \in Nodes!Arrays \ Nodes!Referred : \A b \in Nodes!Arrays \ Nodes!Referred : a <= b
  BY <1>8, <1>9, LeastExists
<1>11. QED
  BY <1>10 DEF Nodes!Free

LEMMA NodesAreTyped ==
  ASSUME NodesOK, NEW n \in Nodes!Copies \cup Nodes!Rows, NEW a \in Nodes!Arrays, NEW s \in States
  PROVE  Nodes!CopyOf(n, a) \in Nodes!Copies /\ Nodes!RowOf(n, s) \in Nodes!Rows
  BY DEF Nodes!CopyOf, Nodes!RowOf, Nodes!Copies, Nodes!Rows, States

LEMMA NoNodeIsNone == ASSUME NodesOK PROVE NoNode \notin Nodes!Copies \cup Nodes!Rows
  BY DEF NodesOK, Nodes!Copies, Nodes!Rows

\* Whichever of memory and database knows the node.
LEMMA SeenIsTyped ==
  ASSUME NodesOK, NEW m \in Nodes!Rows \cup {NoNode}, NEW read \in Nodes!Rows \cup {NoNode}
  PROVE  /\ Nodes!Seen(m, read) \in Nodes!Rows \cup {NoNode}
         /\ Nodes!Seen(m, read) = NoNode => m = NoNode /\ read = NoNode
<1>1. CASE m = NoNode \/ read = NoNode
  BY <1>1, NoNodeIsNone DEF Nodes!Seen
<1>2. CASE m \in Nodes!Rows /\ read \in Nodes!Rows /\ m # NoNode /\ read # NoNode
  <2>1. Nodes!Seen(m, read) = Nodes!Merged(m, read)
    BY <1>2 DEF Nodes!Seen
  <2>2. \A x, y \in Nodes!Statuses : Nodes!Known(x, y) \in Nodes!Statuses
    BY DEF Nodes!Known
  <2>3. Nodes!Merged(m, read) \in Nodes!Rows
    BY <1>2, <2>2 DEF Nodes!Merged, Nodes!Rows
  <2>4. QED
    BY <2>1, <2>3, NoNodeIsNone
<1>3. QED
  BY <1>1, <1>2

\* Arrays nobody refers to are blank; the others keep their contents.
LEMMA MemoryIsTyped ==
  ASSUME NEW content \in [Nodes!Arrays -> States], Nodes!Memory(content)
  PROVE  arrays' \in [Nodes!Arrays -> States]
<1>1. Nodes!Blank \in States
  BY DEF Nodes!Blank, States, Nodes!Statuses
<1>2. QED
  BY <1>1 DEF Nodes!Memory

LEMMA CopiesHaveArrays ==
  ASSUME NEW c \in Nodes!Copies PROVE c.array \in Nodes!Arrays /\ c.notes \in SUBSET Reports
  BY DEF Nodes!Copies

\* What every step does to the types, put together.
NodesTyped == Nodes!TypeOK /\ NodesInv

LEMMA TypesOfNodes ==
  ASSUME NodesTyped
  PROVE  /\ inventory \in Nodes!Copies \cup {NoNode} /\ row \in Nodes!Rows \cup {NoNode}
         /\ arrays \in [Nodes!Arrays -> States]
         /\ held \in [Nodes!Threads -> Nodes!Copies \cup {NoNode}]
         /\ missed \in [Nodes!Threads -> SUBSET Reports]
         /\ place \in [Nodes!Threads -> {"idle", "read", "probe", "apply", "save", "done"}]
         /\ misses \in 0..MaxFaults /\ moves \in 0..1
         /\ answers \in [Listings -> [{rt1, rt2} \cup {"host"} -> Nodes!Statuses]]
         /\ \A t \in Nodes!Threads : Busy(t) /\ place[t] # "read" => held[t] \in Nodes!Copies
  BY DEF NodesTyped, Nodes!TypeOK, States, NodesInv, CallsOK, CallOK

LEMMA FailsIsTyped ==
  ASSUME NodesTyped, MaxFaults \in Nat, NEW n \in Nat, Nodes!Fails(n)
  PROVE  misses' \in 0..MaxFaults
<1>1. misses \in 0..MaxFaults
  BY TypesOfNodes
<1>2. QED
  BY <1>1 DEF Nodes!Fails

LEMMA BootIsTyped ==
  ASSUME NodesOK, NodesFinite, NodesTyped,
         NEW c \in BOOLEAN, NEW r \in BOOLEAN, NEW w \in BOOLEAN, Nodes!Boot(c, r, w)
  PROVE  Nodes!TypeOK'
<1> DEFINE m == IF c THEN Nodes!FromConfig ELSE NoNode
           read == IF r THEN NoNode ELSE row
<1>1. PICK seen : seen = Nodes!Seen(m, read)
  OBVIOUS
<1>2. m \in Nodes!Rows \cup {NoNode}
  BY DEF Nodes!FromConfig, Nodes!Rows, Nodes!Statuses, Nodes!Blank
<1>3. read \in Nodes!Rows \cup {NoNode}
  BY TypesOfNodes
<1>4. seen \in Nodes!Rows \cup {NoNode}
  BY <1>1, <1>2, <1>3, SeenIsTyped
<1>5. 1 \in Nodes!Arrays
  <2>1. Nodes!Cardinality(Nodes!Threads) \in Nat
    <3>1. Nodes!Cardinality(Nodes!Threads) = Cardinality(Nodes!Threads)
      BY DEF Nodes!Cardinality, Cardinality
    <3>2. QED
      BY <3>1, FS_Union, FS_CardinalityType DEF NodesFinite, Nodes!Threads
  <2>2. QED
    BY <2>1 DEF Nodes!Arrays
<1>6. /\ inventory' = IF seen # NoNode THEN Nodes!CopyOf(seen, 1) ELSE NoNode
      /\ row' = IF seen # NoNode /\ ~w THEN seen ELSE row
      /\ Nodes!Memory(IF seen # NoNode THEN Nodes!With(1, seen.runtimes) ELSE arrays)
  BY <1>1 DEF Nodes!Boot
<1>7. inventory' \in Nodes!Copies \cup {NoNode} /\ row' \in Nodes!Rows \cup {NoNode}
  BY <1>4, <1>5, <1>6, NodesAreTyped, TypesOfNodes DEF States, Nodes!CopyOf, Nodes!Rows,
     Nodes!Copies
<1>8. arrays' \in [Nodes!Arrays -> States]
  <2>1. seen # NoNode => Nodes!With(1, seen.runtimes) \in [Nodes!Arrays -> States]
    BY <1>4, TypesOfNodes DEF Nodes!With, Nodes!Rows, States
  <2>2. QED
    BY <1>6, <2>1, MemoryIsTyped, TypesOfNodes
<1>9. misses' \in 0..MaxFaults
  <2>1. PICK n : n = Nodes!Cardinality({f \in {1, 2} : <<r, w>>[f]})
    OBVIOUS
  <2>2. n \in Nat
    <3>1. n = Cardinality({f \in {1, 2} : <<r, w>>[f]})
      BY <2>1 DEF Nodes!Cardinality, Cardinality
    <3>2. IsFiniteSet({1, 2})
      <4>1. {1, 2} = 1..2
        OBVIOUS
      <4>2. 1 \in Int /\ 2 \in Int
        OBVIOUS
      <4>3. IsFiniteSet(1..2)
        BY ONLY <4>2, FS_Interval
      <4>4. QED
        BY <4>1, <4>3
    <3>3. QED
      BY <3>1, <3>2, FS_Subset, FS_CardinalityType
  <2>3. Nodes!Fails(n)
    BY <2>1 DEF Nodes!Boot
  <2>4. QED
    BY <2>2, <2>3, FailsIsTyped DEF NodesFinite
<1>10. checked' \in {<<>>, <<rt1, rt2>>} /\ kept' \subseteq Reports /\ safe' \subseteq Reports
  BY DEF Nodes!Boot, NodesTyped, Nodes!TypeOK
<1>11. running' = TRUE /\ UNCHANGED <<answering, place, held, answers, missed, moves>>
  BY DEF Nodes!Boot, Nodes!calls
<1>12. QED
  BY <1>7, <1>8, <1>9, <1>10, <1>11 DEF NodesTyped, Nodes!TypeOK, States

LEMMA CrashIsTyped ==
  ASSUME NodesTyped, Nodes!Crash PROVE Nodes!TypeOK'
<1>1. arrays' \in [Nodes!Arrays -> States]
  BY MemoryIsTyped, TypesOfNodes DEF Nodes!Crash
<1>2. moves' \in 0..1
  BY TypesOfNodes DEF Nodes!Crash
<1>3. answers' \in [Listings -> [{rt1, rt2} \cup {"host"} -> Nodes!Statuses]]
  BY DEF Nodes!Crash, Nodes!NoAnswers, Nodes!Statuses
<1>4. /\ place' \in [Nodes!Threads -> {"idle", "read", "probe", "apply", "save", "done"}]
      /\ held' \in [Nodes!Threads -> Nodes!Copies \cup {NoNode}]
      /\ missed' \in [Nodes!Threads -> SUBSET Reports]
      /\ inventory' = NoNode /\ kept' = {} /\ running' = FALSE
      /\ UNCHANGED <<answering, checked, row, safe, misses>>
  BY DEF Nodes!Crash
<1>5. QED
  BY <1>1, <1>2, <1>3, <1>4 DEF NodesTyped, Nodes!TypeOK, States

LEMMA AnswersAreTyped ==
  ASSUME NodesTyped, Nodes!AnswersChange PROVE Nodes!TypeOK'
<1>1. Nodes!Asked \subseteq {rt1, rt2} \cup {"host"}
  BY DEF Nodes!Asked, NodesTyped, Nodes!TypeOK
<1>2. moves' \in 0..1
  BY TypesOfNodes DEF Nodes!AnswersChange
<1>3. QED
  BY <1>1, <1>2 DEF NodesTyped, Nodes!TypeOK, Nodes!AnswersChange, Nodes!calls

LEMMA BeginIsTyped ==
  ASSUME NodesTyped, NEW l \in Listings, Nodes!Begin(l) PROVE Nodes!TypeOK'
  BY DEF NodesTyped, Nodes!TypeOK, Nodes!Begin, Nodes!Takes, Nodes!Goes

LEMMA ReadIsTyped ==
  ASSUME NodesOK, NodesFinite, NodesTyped, NEW l \in Listings, NEW b \in BOOLEAN,
         Nodes!Read(l, b)
  PROVE  Nodes!TypeOK'
<1> DEFINE m == IF held[l] = NoNode THEN NoNode
                ELSE Nodes!RowOf(held[l], arrays[held[l].array])
           read == IF b THEN NoNode ELSE row
           a == IF read = NoNode THEN held[l].array ELSE Nodes!Free
<1>1. PICK seen : seen = Nodes!Seen(m, read)
  OBVIOUS
<1>2. l \in Nodes!Threads
  BY DEF Nodes!Threads
<1>3. m \in Nodes!Rows \cup {NoNode}
  BY <1>2, TypesOfNodes, CopiesHaveArrays, NodesAreTyped
<1>4. read \in Nodes!Rows \cup {NoNode}
  BY TypesOfNodes
<1>5. seen \in Nodes!Rows \cup {NoNode}
  BY <1>1, <1>3, <1>4, SeenIsTyped
<1>6. seen # NoNode => a \in Nodes!Arrays
  <2>1. CASE read = NoNode
    <3>1. seen # NoNode => held[l] # NoNode
      BY <1>1, <2>1 DEF Nodes!Seen
    <3>2. QED
      BY <1>2, <2>1, <3>1, TypesOfNodes, CopiesHaveArrays
  <2>2. CASE read # NoNode
    BY <2>2, FreeIsArray DEF NodesTyped, NodesInv, CallsOK
  <2>3. QED
    BY <2>1, <2>2
<1>7. /\ Nodes!Fails(IF b THEN 1 ELSE 0)
      /\ UNCHANGED <<answering, checked, running, inventory, row, answers, missed, kept,
                     safe, moves>>
      /\ IF seen = NoNode
         THEN place' = [place EXCEPT ![l] = "idle"] /\ UNCHANGED <<held, arrays>>
         ELSE /\ place' = [place EXCEPT ![l] = "probe"]
              /\ held' = [held EXCEPT ![l] = Nodes!CopyOf(seen, a)]
              /\ Nodes!Memory(Nodes!With(a, seen.runtimes))
  BY <1>1 DEF Nodes!Read, Nodes!Goes
<1>8. misses' \in 0..MaxFaults
  BY <1>7, FailsIsTyped DEF NodesFinite
<1>9. arrays' \in [Nodes!Arrays -> States]
  <2>1. seen # NoNode => Nodes!With(a, seen.runtimes) \in [Nodes!Arrays -> States]
    BY <1>5, TypesOfNodes DEF Nodes!With, Nodes!Rows, States
  <2>2. QED
    BY <1>7, <2>1, MemoryIsTyped, TypesOfNodes
<1>10. held' \in [Nodes!Threads -> Nodes!Copies \cup {NoNode}]
  <2>1. seen # NoNode => Nodes!CopyOf(seen, a) \in Nodes!Copies
    BY <1>5, <1>6 DEF Nodes!CopyOf, Nodes!Copies, Nodes!Rows
  <2>2. QED
    BY <1>7, <2>1, TypesOfNodes
<1>11. QED
  BY <1>7, <1>8, <1>9, <1>10 DEF NodesTyped, Nodes!TypeOK, States

LEMMA ProbeIsTyped ==
  ASSUME NodesTyped, NEW l \in Listings, Nodes!Probe(l) PROVE Nodes!TypeOK'
<1>1. \A i : Nodes!Answer(i) \in Nodes!Statuses
  BY DEF Nodes!Answer, Nodes!Statuses
<1>2. UNCHANGED <<answering, checked, running, inventory, arrays, row, held, missed,
                  kept, safe, misses, moves>>
  BY DEF Nodes!Probe
<1>3. place' \in [Nodes!Threads -> {"idle", "read", "probe", "apply", "save", "done"}]
  BY TypesOfNodes DEF Nodes!Probe, Nodes!Goes
<1>4. answers' \in [Listings -> [{rt1, rt2} \cup {"host"} -> Nodes!Statuses]]
  <2>1. ASSUME NEW r, NEW x \in Nodes!Statuses, NEW h \in Nodes!Statuses,
               answers' = [answers EXCEPT ![l][r] = x, ![l]["host"] = h]
        PROVE  answers' \in [Listings -> [{rt1, rt2} \cup {"host"} -> Nodes!Statuses]]
    BY <2>1, TypesOfNodes
  <2>2. ASSUME NEW h \in Nodes!Statuses, answers' = [answers EXCEPT ![l]["host"] = h]
        PROVE  answers' \in [Listings -> [{rt1, rt2} \cup {"host"} -> Nodes!Statuses]]
    BY <2>2, TypesOfNodes
  <2>3. "unknown" \in Nodes!Statuses
    BY DEF Nodes!Statuses
  <2>4. QED
    BY <1>1, <2>1, <2>2, <2>3 DEF Nodes!Probe
<1>5. QED
  BY <1>2, <1>3, <1>4 DEF NodesTyped, Nodes!TypeOK

LEMMA UpsertIsTyped ==
  ASSUME NodesTyped, NEW t \in Nodes!Threads, NEW written \in Nodes!Copies,
         Nodes!Upserts(t, written), arrays' \in [Nodes!Arrays -> States],
         UNCHANGED <<answering, checked, running, row, answers, misses, moves>>
  PROVE  Nodes!TypeOK'
<1>1. /\ inventory' \in Nodes!Copies
      /\ held' \in [Nodes!Threads -> Nodes!Copies \cup {NoNode}]
      /\ place' \in [Nodes!Threads -> {"idle", "read", "probe", "apply", "save", "done"}]
  BY TypesOfNodes DEF Nodes!Upserts, Nodes!Goes
<1>2. missed' \in [Nodes!Threads -> SUBSET Reports]
  BY TypesOfNodes DEF Nodes!Upserts
<1>3. kept' \subseteq Reports /\ safe' \subseteq Reports
  BY DEF Nodes!Upserts, NodesTyped, Nodes!TypeOK
<1>4. QED
  BY <1>1, <1>2, <1>3 DEF NodesTyped, Nodes!TypeOK, States

LEMMA ApplyIsTyped ==
  ASSUME NodesTyped, NEW l \in Listings, Nodes!Apply(l) PROVE Nodes!TypeOK'
<1> DEFINE written == [held[l] EXCEPT !.status = answers[l]["host"]]
           found == [r \in {rt1, rt2} |-> answers[l][r]]
<1>1. l \in Nodes!Threads /\ place[l] = "apply" /\ Busy(l)
  BY DEF Nodes!Threads, Nodes!Apply, Busy
<1>2. held[l] \in Nodes!Copies
  BY <1>1, TypesOfNodes
<1>3. answers[l]["host"] \in Nodes!Statuses /\ found \in States
  BY TypesOfNodes DEF States
<1>4. written \in Nodes!Copies
  BY <1>2, <1>3 DEF Nodes!Copies
<1>5. Nodes!With(held[l].array, found) \in [Nodes!Arrays -> States]
  BY <1>3, TypesOfNodes DEF Nodes!With
<1>6. arrays' \in [Nodes!Arrays -> States]
  BY <1>5, MemoryIsTyped DEF Nodes!Apply
<1>7. QED
  BY <1>1, <1>4, <1>6, UpsertIsTyped DEF Nodes!Apply

LEMMA RecordIsTyped ==
  ASSUME NodesTyped, NEW o \in Reports, Nodes!Record(o) PROVE Nodes!TypeOK'
<1>1. o \in Nodes!Threads /\ place[o] = "apply" /\ Busy(o)
  BY DEF Nodes!Threads, Nodes!Record, Busy
<1>2. held[o] \in Nodes!Copies
  BY <1>1, TypesOfNodes
<1>3. arrays' \in [Nodes!Arrays -> States]
  BY MemoryIsTyped, TypesOfNodes DEF Nodes!Record
<1>4. QED
  BY <1>1, <1>2, <1>3, UpsertIsTyped DEF Nodes!Record

LEMMA SaveIsTyped ==
  ASSUME NodesOK, NodesFinite, NodesTyped, NEW t \in Nodes!Threads, NEW b \in BOOLEAN,
         Nodes!Save(t, b)
  PROVE  Nodes!TypeOK'
<1>1. place[t] = "save" /\ Busy(t)
  BY DEF Nodes!Save, Busy
<1>2. held[t] \in Nodes!Copies
  BY <1>1, TypesOfNodes
<1>3. Nodes!Written(t) \in Nodes!Rows
  BY <1>2, CopiesHaveArrays, TypesOfNodes, NodesAreTyped DEF Nodes!Written
<1>4. arrays' \in [Nodes!Arrays -> States]
  BY MemoryIsTyped, TypesOfNodes DEF Nodes!Save
<1>5. misses' \in 0..MaxFaults
  BY FailsIsTyped DEF Nodes!Save, NodesFinite
<1>6. answers' \in [Listings -> [{rt1, rt2} \cup {"host"} -> Nodes!Statuses]]
  BY TypesOfNodes DEF Nodes!Save, Nodes!NoAnswers, Nodes!Statuses
<1>7. /\ held' \in [Nodes!Threads -> Nodes!Copies \cup {NoNode}]
      /\ missed' \in [Nodes!Threads -> SUBSET Reports]
      /\ place' \in [Nodes!Threads -> {"idle", "read", "probe", "apply", "save", "done"}]
  BY TypesOfNodes DEF Nodes!Save, Nodes!Takes, Nodes!Goes
<1>8. /\ row' \in Nodes!Rows \cup {NoNode} /\ safe' \subseteq Reports
      /\ UNCHANGED <<answering, checked, running, inventory, kept, moves>>
  BY <1>3 DEF Nodes!Save, NodesTyped, Nodes!TypeOK
<1>9. QED
  BY <1>4, <1>5, <1>6, <1>7, <1>8 DEF NodesTyped, Nodes!TypeOK, States

LEMMA ObserveIsTyped ==
  ASSUME NodesOK, NodesFinite, NodesTyped, NEW o \in Reports, NEW b \in BOOLEAN,
         NEW tale \in {Silent, Telling}, Nodes!Observe(o, b, tale)
  PROVE  Nodes!TypeOK'
<1> DEFINE a == IF inventory # NoNode THEN inventory.array ELSE Nodes!Free
<1>1. PICK seen : seen = IF inventory # NoNode THEN Nodes!InMemory ELSE row
  OBVIOUS
<1>2. a \in Nodes!Arrays
  BY FreeIsArray, TypesOfNodes, CopiesHaveArrays DEF NodesTyped, NodesInv, CallsOK
<1>3. seen # NoNode
  BY <1>1 DEF Nodes!Observe
<1>4. seen \in Nodes!Rows
  BY <1>1, <1>3, TypesOfNodes, CopiesHaveArrays, NodesAreTyped DEF Nodes!InMemory
<1> DEFINE written == [status |-> IF b THEN "online" ELSE seen.status,
                       notes |-> seen.notes \cup {o}, array |-> a]
<1>5. written \in Nodes!Copies
  BY <1>2, <1>4 DEF Nodes!Copies, Nodes!Rows, Nodes!Statuses
<1>6. /\ held' = [held EXCEPT ![o] = written]
      /\ missed' = [missed EXCEPT ![o] = {}]
      /\ place' = [place EXCEPT ![o] = "apply"]
      /\ Nodes!Memory(Nodes!With(a, Nodes!Told(seen.runtimes, tale)))
      /\ UNCHANGED <<answering, checked, running, inventory, row, answers, kept, safe,
                     misses, moves>>
  BY <1>1 DEF Nodes!Observe, Nodes!Takes, Nodes!Goes
<1>7. Nodes!Told(seen.runtimes, tale) \in States
  BY <1>4 DEF Nodes!Told, Nodes!Rows, States, Silent, Telling, Nodes!Statuses
<1>8. Nodes!With(a, Nodes!Told(seen.runtimes, tale)) \in [Nodes!Arrays -> States]
  BY <1>7, TypesOfNodes DEF Nodes!With
<1>9. arrays' \in [Nodes!Arrays -> States]
  BY <1>6, <1>8, MemoryIsTyped
<1>10. /\ held' \in [Nodes!Threads -> Nodes!Copies \cup {NoNode}]
       /\ missed' \in [Nodes!Threads -> SUBSET Reports]
       /\ place' \in [Nodes!Threads -> {"idle", "read", "probe", "apply", "save", "done"}]
  BY <1>5, <1>6, TypesOfNodes
<1>11. QED
  BY <1>6, <1>9, <1>10 DEF NodesTyped, Nodes!TypeOK, States

LEMMA NodesStayTyped ==
  ASSUME NodesOK, NodesFinite
  PROVE  NodesTyped /\ [Nodes!Next]_(Nodes!vars) => NodesTyped'
<1> SUFFICES ASSUME NodesTyped, [Nodes!Next]_(Nodes!vars) PROVE Nodes!TypeOK'
  BY NodesStay DEF NodesTyped
<1>1. CASE \E x, y, z \in BOOLEAN : Nodes!Boot(x, y, z)
  BY <1>1, BootIsTyped
<1>2. CASE Nodes!Crash \/ Nodes!AnswersChange
  BY <1>2, CrashIsTyped, AnswersAreTyped
<1>3. ASSUME NEW l \in Listings, Nodes!ListStep(l) PROVE Nodes!TypeOK'
  <2>1. l \in Nodes!Threads
    BY DEF Nodes!Threads
  <2>2. QED
    BY <1>3, <2>1, BeginIsTyped, ProbeIsTyped, ApplyIsTyped, ReadIsTyped, SaveIsTyped
       DEF Nodes!ListStep
<1>4. ASSUME NEW o \in Reports,
             \/ Nodes!ReportStep(o)
             \/ \E b \in BOOLEAN, tale \in {Silent, Telling} : Nodes!Observe(o, b, tale)
      PROVE  Nodes!TypeOK'
  <2>1. o \in Nodes!Threads
    BY DEF Nodes!Threads
  <2>2. QED
    BY <1>4, <2>1, RecordIsTyped, SaveIsTyped, ObserveIsTyped DEF Nodes!ReportStep
<1>5. CASE UNCHANGED Nodes!vars
  BY <1>5 DEF Nodes!vars, Nodes!calls, NodesTyped, Nodes!TypeOK
<1>6. QED
  BY <1>1, <1>2, <1>3, <1>4, <1>5 DEF Nodes!Next

LEMMA NodeTypes == ASSUME NodesOK, NodesFinite PROVE ServicesSpec => []Nodes!TypeOK
<1>1. Nodes!Init => NodesTyped
  <2> SUFFICES ASSUME Nodes!Init PROVE Nodes!TypeOK
    BY NodesAtFirst DEF NodesTyped
  <2>1. checked \in {<<>>, <<rt1, rt2>>}
    BY DEF Nodes!Init
  <2>2. running \in BOOLEAN
    BY DEF Nodes!Init
  <2>3. misses \in 0..MaxFaults /\ moves \in 0..1
    BY DEF Nodes!Init, NodesFinite
  <2>4. QED
    BY <2>1, <2>2, <2>3 DEF Nodes!Init, Nodes!TypeOK, Nodes!Blank, Nodes!NoAnswers, Nodes!Statuses
<1>2. NodesTyped => Nodes!TypeOK
  BY DEF NodesTyped
<1>3. QED
  BY <1>1, <1>2, NodesStayTyped, NodesMove, PTL DEF Nodes!Spec


-----------------------------------------------------------------------------
(* Runtime templates.                                                      *)

TemplateFields ==
  {"id", "named", "runtime", "image", "ports", "sound", "kinds", "caps", "hint",
   "script", "dedicated", "manifest"}
ManifestFields == {"id", "template", "complete", "mode"}

\* Whatever their fields hold.
IsManifest(m) == m = [f \in ManifestFields |-> m[f]]
IsTemplate(t) ==
  /\ t = [f \in TemplateFields |-> t[f]]
  /\ t.manifest # Nothing => IsManifest(t.manifest)

LEMMA NormalManifestIs ==
  ASSUME NEW m, IsManifest(m), NEW n, n = Templates!NormalManifest(m)
  PROVE  /\ IsManifest(n)
         /\ n.id = m.id /\ n.template = m.template /\ n.complete = m.complete
         /\ n.mode = IF m.mode = "" THEN "generic_injected" ELSE m.mode
  BY DEF IsManifest, ManifestFields, Templates!NormalManifest

\* The runtime's type and the manifest that Normal gives a template.
RuntimeOf(t) == IF t.runtime = "" THEN "docker" ELSE t.runtime

LEMMA DerivedIs ==
  ASSUME NEW t, NEW m, m = Templates!Derived(t)
  PROVE  /\ IsManifest(m)
         /\ m.id = t.id /\ m.template = t.id
         /\ m.complete = TRUE /\ m.mode = "generic_injected"
  BY DEF Templates!Derived, IsManifest, ManifestFields

ManifestOf(t) ==
  IF t.manifest = Nothing THEN Templates!Derived(t)
  ELSE LET m == Templates!NormalManifest(t.manifest)
       IN  [m EXCEPT !.template = Templates!OrElse(m.template, "", t.id)]

LEMMA ManifestIs ==
  ASSUME NEW t, t.manifest # Nothing => IsManifest(t.manifest), NEW m, m = ManifestOf(t)
  PROVE  /\ IsManifest(m)
         /\ t.manifest = Nothing => m = Templates!Derived(t)
         /\ t.manifest # Nothing =>
              /\ m.id = t.manifest.id
              /\ m.template = IF t.manifest.template = "" THEN t.id ELSE t.manifest.template
              /\ m.complete = t.manifest.complete
              /\ m.mode = IF t.manifest.mode = "" THEN "generic_injected" ELSE t.manifest.mode
<1>1. CASE t.manifest = Nothing
  BY <1>1, DerivedIs DEF ManifestOf
<1>2. CASE t.manifest # Nothing
  <2>1. PICK n : n = Templates!NormalManifest(t.manifest)
    OBVIOUS
  <2>2. m = [n EXCEPT !.template = IF n.template = "" THEN t.id ELSE n.template]
    BY <1>2, <2>1 DEF ManifestOf, Templates!OrElse
  <2>3. /\ IsManifest(n)
        /\ n.id = t.manifest.id /\ n.template = t.manifest.template
        /\ n.complete = t.manifest.complete
        /\ n.mode = IF t.manifest.mode = "" THEN "generic_injected" ELSE t.manifest.mode
    BY <1>2, <2>1, NormalManifestIs
  <2>4. QED
    BY <1>2, <2>2, <2>3 DEF IsManifest, ManifestFields
<1>3. QED
  BY <1>1, <1>2

\* Field by field, what Normal makes of a template.
IsNormalOf(u, t) ==
  /\ u = [f \in TemplateFields |-> u[f]]
  /\ u.id = t.id /\ u.named = t.named /\ u.sound = t.sound /\ u.hint = t.hint
  /\ u.script = t.script /\ u.dedicated = t.dedicated
  /\ u.runtime = RuntimeOf(t)
  /\ u.image = IF t.image = {} \/ RuntimeOf(t) \notin {"docker", "portainer"}
                 THEN t.image ELSE {"image", "image_ref"}
  /\ u.ports = IF t.ports = {} THEN {} ELSE {"ports", "exposed_ports"}
  /\ u.caps = IF t.caps = {} THEN {t.hint} ELSE t.caps
  /\ u.kinds = IF t.kinds = {} THEN u.caps ELSE t.kinds
  /\ u.manifest = ManifestOf(t)

LEMMA NormalIs ==
  ASSUME NEW t, IsTemplate(t) PROVE IsNormalOf(Templates!Normal(t), t)
<1>0. PICK u : u = Templates!Normal(t)
  OBVIOUS
<1> DEFINE i == IF t.image = {} \/ RuntimeOf(t) \notin {"docker", "portainer"}
                  THEN t.image ELSE {"image", "image_ref"}
           p == IF t.ports = {} THEN {} ELSE {"ports", "exposed_ports"}
<1>1. PICK s : s = [t EXCEPT !.runtime = RuntimeOf(t), !.image = i, !.ports = p]
  OBVIOUS
<1>2. PICK v : v = Templates!Filled(s)
  OBVIOUS
<1>3. t = [f \in TemplateFields |-> t[f]]
  BY DEF IsTemplate
<1>4. /\ s = [f \in TemplateFields |-> s[f]]
      /\ \A f \in TemplateFields \ {"runtime", "image", "ports"} : s[f] = t[f]
      /\ s.runtime = RuntimeOf(t) /\ s.image = i /\ s.ports = p
  <2> HIDE DEF i, p
  <2> QED
    BY <1>1, <1>3 DEF TemplateFields
<1>5. /\ v = [f \in TemplateFields |-> v[f]]
      /\ \A f \in TemplateFields \ {"caps", "kinds"} : v[f] = s[f]
      /\ v.caps = IF s.caps = {} THEN {s.hint} ELSE s.caps
      /\ v.kinds = IF s.kinds = {} THEN v.caps ELSE s.kinds
  <2> HIDE DEF i, p
  <2> QED
    BY <1>2, <1>4 DEF Templates!Filled, Templates!OrElse, TemplateFields
<1>6. v.id = t.id /\ Templates!Derived(v) = Templates!Derived(t)
  BY <1>4, <1>5 DEF TemplateFields, Templates!Derived
<1>7. u = [v EXCEPT !.manifest = ManifestOf(t)]
  BY <1>0, <1>1, <1>2, <1>6 DEF Templates!Normal, ManifestOf, RuntimeOf, Templates!OrElse
<1>8. /\ u = [f \in TemplateFields |-> u[f]]
      /\ \A f \in TemplateFields \ {"manifest"} : u[f] = v[f]
      /\ u.manifest = ManifestOf(t)
  <2> HIDE DEF ManifestOf
  <2> QED
    BY <1>5, <1>7 DEF TemplateFields
<1>9. QED
  <2> HIDE DEF i, p
  <2>1. /\ u.id = t.id /\ u.named = t.named /\ u.sound = t.sound /\ u.hint = t.hint
        /\ u.script = t.script /\ u.dedicated = t.dedicated
    BY <1>4, <1>5, <1>8 DEF TemplateFields
  <2>2. u.runtime = RuntimeOf(t) /\ u.image = i /\ u.ports = p
    BY <1>4, <1>5, <1>8 DEF TemplateFields
  <2>3. /\ u.caps = IF t.caps = {} THEN {t.hint} ELSE t.caps
        /\ u.kinds = IF t.kinds = {} THEN u.caps ELSE t.kinds
    BY <1>4, <1>5, <1>8 DEF TemplateFields
  <2>4. QED
    BY <1>0, <1>8, <2>1, <2>2, <2>3 DEF i, p, IsNormalOf

LEMMA SameManifest ==
  ASSUME NEW m, NEW n, IsManifest(m), IsManifest(n),
         m.id = n.id, m.template = n.template, m.complete = n.complete, m.mode = n.mode
  PROVE  m = n
<1>1. \A f \in ManifestFields : m[f] = n[f]
  BY DEF ManifestFields
<1>2. QED
  BY <1>1 DEF IsManifest

\* The validation of a valid template leaves a valid one, and nothing for another
\* validation to do.
LEMMA NormalStays ==
  ASSUME \A m : IsManifest(m) => m # Nothing, NEW t, IsTemplate(t), Templates!Valid(t)
  PROVE  /\ Templates!Normal(t).id = t.id /\ IsTemplate(Templates!Normal(t))
         /\ Templates!Valid(Templates!Normal(t))
         /\ Templates!Normal(Templates!Normal(t)) = Templates!Normal(t)
<1>1. PICK u : u = Templates!Normal(t)
  OBVIOUS
<1>2. PICK m : m = ManifestOf(t)
  OBVIOUS
<1>3. /\ IsManifest(m) /\ m # Nothing /\ m.mode # "" /\ Templates!ManifestValid(m)
      /\ m.template = "" => t.id = ""
  <2>1. CASE t.manifest = Nothing
    <3>1. m = Templates!Derived(t)
      BY <1>2, <2>1 DEF ManifestOf
    <3>2. QED
      BY <3>1, DerivedIs DEF Templates!ManifestValid, Templates!Modes
  <2>2. CASE t.manifest # Nothing
    <3>1. /\ IsManifest(m)
          /\ m.template = IF t.manifest.template = "" THEN t.id ELSE t.manifest.template
          /\ m.complete = t.manifest.complete
          /\ m.mode = IF t.manifest.mode = "" THEN "generic_injected" ELSE t.manifest.mode
      BY <1>2, <2>2, ManifestIs DEF IsTemplate
    <3>2. QED
      BY <2>2, <3>1 DEF Templates!Valid, Templates!ManifestValid, Templates!Modes
  <2>3. QED
    BY <2>1, <2>2
<1>4. IsNormalOf(u, t) /\ u.manifest = m /\ u.id = t.id
  <2>1. IsNormalOf(u, t)
    BY <1>1, NormalIs
  <2>2. QED
    BY <1>2, <2>1 DEF IsNormalOf
<1>5. IsTemplate(u)
  BY <1>3, <1>4 DEF IsTemplate, IsNormalOf
<1>6. RuntimeOf(t) \in {"docker", "portainer"} /\ t.image # {}
  BY DEF Templates!Valid, RuntimeOf, Templates!OrElse
<1>7. u.image = {"image", "image_ref"} /\ u.image # {} /\ RuntimeOf(u) = u.runtime
  BY <1>4, <1>6 DEF RuntimeOf, IsNormalOf
<1>8. Templates!Valid(u)
  BY <1>3, <1>4, <1>6, <1>7 DEF Templates!Valid, RuntimeOf, Templates!OrElse, IsNormalOf
<1>9. PICK w : w = Templates!Normal(u)
  OBVIOUS
<1>10. IsNormalOf(w, u)
  BY <1>5, <1>9, NormalIs
<1>11. w.manifest = u.manifest
  <2>1. PICK n : n = ManifestOf(u)
    OBVIOUS
  <2>2. /\ IsManifest(n) /\ n.id = m.id /\ n.complete = m.complete
        /\ n.template = IF m.template = "" THEN u.id ELSE m.template
        /\ n.mode = IF m.mode = "" THEN "generic_injected" ELSE m.mode
    BY <1>3, <1>4, <1>5, <2>1, ManifestIs DEF IsTemplate
  <2>3. n.template = m.template /\ n.mode = m.mode
    BY <1>3, <1>4, <2>2
  <2>4. n = m
    BY <1>3, <2>2, <2>3, SameManifest
  <2>5. QED
    BY <1>4, <1>10, <2>1, <2>4 DEF IsNormalOf
<1>12. w.caps = u.caps /\ w.kinds = u.kinds /\ w.ports = u.ports
  <2>1. u.caps # {} /\ u.kinds # {}
    BY <1>4 DEF IsNormalOf
  <2>2. w.ports = u.ports
    BY <1>4, <1>10 DEF IsNormalOf
  <2>3. QED
    BY <1>10, <2>1, <2>2 DEF IsNormalOf
<1>13. w.image = u.image /\ w.runtime = u.runtime
  BY <1>7, <1>10 DEF IsNormalOf
<1>14. \A f \in TemplateFields : w[f] = u[f]
  BY <1>10, <1>11, <1>12, <1>13 DEF TemplateFields, IsNormalOf
<1>15. w = u
  BY <1>4, <1>10, <1>14 DEF IsNormalOf
<1>16. QED
  BY <1>1, <1>4, <1>5, <1>8, <1>9, <1>15

LEMMA TemplatesMove == ServicesSpec => Templates!Spec
<1>1. ServicesInit => Templates!Init
  BY DEF ServicesInit
<1>2. [ServicesNext]_<<part, nodeVars, serveVars, agentVars, testVars, studioVars,
                       inventoryVars, templateVars>> => [Templates!Next]_(Templates!vars)
  BY DEF ServicesNext, templateVars, Templates!vars
<1>3. QED
  BY <1>1, <1>2, PTL DEF ServicesSpec, Templates!Spec

\* What the theorems about templates assume: the sign for none is neither a
\* manifest nor a template.
TemplatesOK ==
  /\ \A m : IsManifest(m) => m # Nothing
  /\ \A t : t = [f \in TemplateFields |-> t[f]] => t # Nothing

LEMMA BroughtIs ==
  ASSUME NEW x, NEW y, NEW z
  PROVE  /\ IsManifest(Brought(x, y, z)) /\ Brought(x, y, z).id = x
         /\ Brought(x, y, z).template = y /\ Brought(x, y, z).complete = TRUE
         /\ Brought(x, y, z).mode = z
  BY DEF Brought, IsManifest, ManifestFields

LEMMA UploadsAreTemplates == \A t \in MCUploads : IsTemplate(t)
<1> SUFFICES ASSUME NEW t \in MCUploads PROVE IsTemplate(t)
  OBVIOUS
<1>1. CASE t = [Given EXCEPT !.id = "custom", !.caps = {"chat"}]
  BY <1>1 DEF Given, IsTemplate, TemplateFields
<1>2. CASE t = [Given EXCEPT !.id = "custom", !.image = {}]
  BY <1>2 DEF Given, IsTemplate, TemplateFields
<1>3. CASE t = [Given EXCEPT !.id = "custom", !.script = TRUE,
                             !.manifest = Brought("tei", "", "")]
  BY <1>3, BroughtIs DEF Given, IsTemplate, TemplateFields
<1>4. CASE t = [Given EXCEPT !.id = "custom",
                             !.manifest = Brought("", "vllm", "dedicated")]
  BY <1>4, BroughtIs DEF Given, IsTemplate, TemplateFields
<1>5. CASE t = [Given EXCEPT !.hint = "chat", !.dedicated = TRUE]
  BY <1>5 DEF Given, IsTemplate, TemplateFields
<1>6. QED
  BY <1>1, <1>2, <1>3, <1>4, <1>5 DEF MCUploads

LEMMA IdsAre == {"custom", "tei", "vllm"} \subseteq Templates!Ids
  BY DEF Templates!Ids, MCOrder

\* The built-in and configured templates are listed as they are.
LEMMA ProvidedAreNormal ==
  ASSUME TemplatesOK
  PROVE  \A t \in MCProvided : Templates!Valid(t) /\ Templates!Normal(t) = t
<1> SUFFICES ASSUME NEW t \in MCProvided PROVE Templates!Valid(t) /\ Templates!Normal(t) = t
  OBVIOUS
<1>1. /\ t = [f \in TemplateFields |-> t[f]]
      /\ t.id \in {"tei", "vllm"} /\ t.named = TRUE /\ t.sound = TRUE
      /\ t.runtime = "docker" /\ t.image = {"image", "image_ref"}
      /\ t.ports \in {{}, {"ports", "exposed_ports"}}
      /\ t.caps # {} /\ t.kinds = t.caps
      /\ t.manifest = Brought(t.id, t.id, "generic_injected")
  <2>1. CASE t = Built
    BY <2>1 DEF Built, Given, TemplateFields
  <2>2. CASE t = Configured
    BY <2>2 DEF Configured, Given, TemplateFields
  <2>3. QED
    BY <2>1, <2>2 DEF MCProvided
<1>2. PICK m : m = t.manifest
  OBVIOUS
<1>3. /\ IsManifest(m) /\ m # Nothing /\ m.id = t.id /\ m.template = t.id
      /\ m.complete = TRUE /\ m.mode = "generic_injected"
  <2>1. m = Brought(t.id, t.id, "generic_injected")
    BY <1>1, <1>2
  <2>2. IsManifest(m) => m # Nothing
    BY DEF TemplatesOK
  <2>3. QED
    BY <2>1, <2>2 DEF Brought, IsManifest, ManifestFields
<1>4. Templates!Valid(t)
  BY <1>1, <1>2, <1>3, IdsAre DEF Templates!Valid, Templates!OrElse, Templates!ManifestValid,
     Templates!Modes
<1>5. IsTemplate(t)
  BY <1>1, <1>2, <1>3 DEF IsTemplate
<1>6. PICK w : w = Templates!Normal(t)
  OBVIOUS
<1>7. IsNormalOf(w, t)
  BY <1>5, <1>6, NormalIs
<1>8. PICK n : n = ManifestOf(t)
  OBVIOUS
<1>9. /\ IsManifest(n) /\ n.id = m.id /\ n.complete = m.complete
      /\ n.template = IF m.template = "" THEN t.id ELSE m.template
      /\ n.mode = IF m.mode = "" THEN "generic_injected" ELSE m.mode
  BY <1>2, <1>3, <1>8, ManifestIs
<1>10. n = m
  BY <1>3, <1>9, SameManifest
<1>11. w.manifest = t.manifest
  BY <1>2, <1>7, <1>8, <1>10 DEF IsNormalOf
<1>12. \A f \in TemplateFields : w[f] = t[f]
  <2>1. RuntimeOf(t) = "docker" /\ t.image # {}
    BY <1>1 DEF RuntimeOf
  <2>2. /\ w.id = t.id /\ w.named = t.named /\ w.sound = t.sound /\ w.hint = t.hint
        /\ w.script = t.script /\ w.dedicated = t.dedicated
    BY <1>7 DEF IsNormalOf
  <2>3. w.runtime = t.runtime
    BY <1>1, <1>7, <2>1 DEF IsNormalOf
  <2>4. w.image = t.image
    BY <1>1, <1>7, <2>1 DEF IsNormalOf
  <2>5. w.ports = t.ports
    BY <1>1, <1>7 DEF IsNormalOf
  <2>6. w.caps = t.caps /\ w.kinds = t.kinds
    BY <1>1, <1>7 DEF IsNormalOf
  <2>7. QED
    BY <1>11, <2>2, <2>3, <2>4, <2>5, <2>6 DEF TemplateFields
<1>13. w = t
  BY <1>1, <1>7, <1>12 DEF IsNormalOf
<1>14. QED
  BY <1>4, <1>6, <1>13

ListedOK ==
  /\ listed = [i \in Templates!Ids |-> listed[i]]
  /\ ListedIsValid

LEMMA ListedAtFirst == Templates!Init => ListedOK
  BY DEF Templates!Init, ListedOK, ListedIsValid, Templates!ListedIsValid

LEMMA ListedStays ==
  ASSUME TemplatesOK PROVE ListedOK /\ [Templates!Next]_(Templates!vars) => ListedOK'
<1> SUFFICES ASSUME ListedOK, [Templates!Next]_(Templates!vars) PROVE ListedOK'
  OBVIOUS
<1> USE DEF ListedOK, ListedIsValid, Templates!ListedIsValid
<1>1. ASSUME NEW f, Templates!Start(f) PROVE ListedOK'
  <2>1. listed' = [i \in Templates!Ids |->
          IF \E t \in MCProvided : t.id = i
            THEN CHOOSE t \in MCProvided : t.id = i ELSE Nothing]
    BY <1>1 DEF Templates!Start
  <2>2. ASSUME NEW i \in Templates!Ids, listed'[i] # Nothing PROVE listed'[i] \in MCProvided
    <3>1. \E t \in MCProvided : t.id = i
      BY <2>1, <2>2
    <3>2. listed'[i] = CHOOSE t \in MCProvided : t.id = i
      BY <2>1, <3>1
    <3>3. QED
      BY <3>1, <3>2
  <2>3. QED
    BY <2>1, <2>2, ProvidedAreNormal
<1>2. ASSUME NEW t \in MCUploads, Templates!Upload(t) PROVE ListedOK'
  <2>1. Templates!Valid(t) /\ listed' = [listed EXCEPT ![t.id] = Templates!Normal(t)]
    BY <1>2 DEF Templates!Upload
  <2>2. Templates!Valid(Templates!Normal(t))
        /\ Templates!Normal(Templates!Normal(t)) = Templates!Normal(t)
    BY <2>1, UploadsAreTemplates, NormalStays DEF TemplatesOK
  <2>3. QED
    BY <2>1, <2>2
<1>3. CASE Templates!Ends
  BY <1>3 DEF Templates!Ends
<1>4. ASSUME UNCHANGED listed PROVE ListedOK'
  BY <1>4
<1>5. QED
  BY <1>1, <1>2, <1>3, <1>4 DEF Templates!Next, Templates!vars, Templates!AskManifest,
     Templates!Bind, Templates!SyncModel

(***************************************************************************)
(* A template that is listed passes the validation again and is not        *)
(* changed by it, whatever was left out of it when it was uploaded: each   *)
(* default is filled in from what is final by then.                        *)
(***************************************************************************)
THEOREM ListedAreValid == ASSUME TemplatesOK PROVE ServicesSpec => []ListedIsValid
<1>1. ListedOK => ListedIsValid
  BY DEF ListedOK
<1>2. QED
  BY <1>1, ListedAtFirst, ListedStays, TemplatesMove, PTL DEF Templates!Spec

-----------------------------------------------------------------------------
(* Manifests and bindings.                                                 *)

LEMMA FirstIsOne ==
  ASSUME NEW ids \in SUBSET Templates!Ids, ids # {} PROVE Templates!First(ids) \in ids
<1> DEFINE S == {n \in 1..Len(MCOrder) : MCOrder[n] \in ids}
<1>1. Len(MCOrder) \in Nat
  BY DEF MCOrder
<1>2. S \in SUBSET Nat /\ S # {}
  BY <1>1 DEF Templates!Ids
<1>3. PICK n \in S : \A m \in S : n <= m
  BY <1>2, LeastExists
<1>4. n \in 1..Len(MCOrder) /\ MCOrder[n] \in ids
  OBVIOUS
<1>5. \A k \in 1..n - 1 : MCOrder[k] \notin ids
  BY <1>1, <1>3
<1>6. QED
  BY <1>4, <1>5 DEF Templates!First

\* The bindings there can be.
Bindings ==
  [template : Templates!Ids, mode : Templates!Modes, scripted : BOOLEAN,
   manifest : Templates!Ids \cup {""}, generated : BOOLEAN, verdict : Templates!Verdicts]

LEMMA OperatorsAreBindings == \A b \in MCOperators : b \in Bindings /\ b.generated = FALSE
<1>1. ASSUME NEW t \in {"custom", "tei", "vllm"}, NEW m \in Templates!Modes,
             NEW s \in BOOLEAN, NEW f \in {"", "custom", "vllm"}
      PROVE  Wished(t, m, s, f) \in Bindings /\ Wished(t, m, s, f).generated = FALSE
  BY IdsAre DEF Wished, Bindings, Templates!Verdicts
<1>2. QED
  BY <1>1 DEF MCOperators, Templates!Modes

\* What a manifest of template i names: nothing but i, or templates that an
\* upload has mixed up.
NamesOK(m, i, mixed) ==
  LET named == {m.id, m.template} \ {""}
  IN  named \subseteq {i} \/ named \cup {i} \subseteq mixed

\* The manifest a listed template has.
BroughtOK(m, i, mixed) ==
  /\ IsManifest(m) /\ m.id \in Templates!Ids \cup {""} /\ m.template \in Templates!Ids \cup {""}
  /\ m.complete = TRUE /\ m.mode \in Templates!Modes
  /\ NamesOK(m, i, mixed)

UploadsBring(t) ==
  t.manifest # Nothing =>
    /\ t.manifest.id \in Templates!Ids \cup {""} /\ t.manifest.template \in Templates!Ids \cup {""}
    /\ t.manifest.complete = TRUE

LEMMA BroughtFits ==
  ASSUME NEW x \in Templates!Ids \cup {""}, NEW y \in Templates!Ids \cup {""}, NEW z,
         NEW t, t.manifest = Brought(x, y, z)
  PROVE  UploadsBring(t)
<1>1. PICK m : m = Brought(x, y, z)
  OBVIOUS
<1>2. m.id = x
  BY <1>1 DEF Brought
<1>3. m.template = y
  BY <1>1 DEF Brought
<1>4. m.complete = TRUE
  BY <1>1 DEF Brought
<1>5. QED
  BY <1>1, <1>2, <1>3, <1>4 DEF UploadsBring

LEMMA UploadsBringManifests == ASSUME TemplatesOK PROVE \A t \in MCUploads : UploadsBring(t)
<1> SUFFICES ASSUME NEW t \in MCUploads, t.manifest # Nothing PROVE UploadsBring(t)
  BY DEF UploadsBring
<1>1. {"tei", "vllm", ""} \subseteq Templates!Ids \cup {""}
  BY IdsAre
<1>2. CASE t.manifest = Brought("tei", "", "")
  BY <1>1, <1>2, BroughtFits
<1>3. CASE t.manifest = Brought("", "vllm", "dedicated")
  BY <1>1, <1>3, BroughtFits
<1>4. QED
  BY <1>2, <1>3 DEF MCUploads, Given

LEMMA ProvidedBring ==
  \A t \in MCProvided : t.id \in Templates!Ids /\ t.manifest = Brought(t.id, t.id, "generic_injected")
  BY IdsAre, ZenonT(40) DEF MCProvided, Built, Configured, Given

\* The manifest of a template that has passed the validation.
LEMMA NormalBrings ==
  ASSUME TemplatesOK, NEW t \in MCUploads, Templates!Valid(t)
  PROVE  BroughtOK(Templates!Normal(t).manifest, t.id, Templates!Claims(t))
<1>1. IsTemplate(t) /\ UploadsBring(t) /\ t.id \in Templates!Ids
  BY UploadsAreTemplates, UploadsBringManifests DEF Templates!Valid
<1>2. PICK m : m = ManifestOf(t)
  OBVIOUS
<1>3. Templates!Normal(t).manifest = m
  BY <1>1, <1>2, NormalIs DEF IsNormalOf
<1>4. CASE t.manifest = Nothing
  <2>1. /\ IsManifest(m) /\ m.id = t.id /\ m.template = t.id
        /\ m.complete = TRUE /\ m.mode = "generic_injected"
    BY <1>2, <1>4, DerivedIs DEF ManifestOf
  <2>2. QED
    BY <1>1, <1>3, <2>1 DEF BroughtOK, NamesOK, Templates!Modes
<1>5. CASE t.manifest # Nothing
  <2>1. /\ IsManifest(m) /\ m.id = t.manifest.id
        /\ m.template = IF t.manifest.template = "" THEN t.id ELSE t.manifest.template
        /\ m.complete = t.manifest.complete
        /\ m.mode = IF t.manifest.mode = "" THEN "generic_injected" ELSE t.manifest.mode
    BY <1>1, <1>2, <1>5, ManifestIs DEF IsTemplate
  <2>2. t.manifest.mode \in Templates!Modes \cup {""}
    BY <1>5 DEF Templates!Valid, Templates!ManifestValid
  <2>3. m.mode \in Templates!Modes
    BY <2>1, <2>2 DEF Templates!Modes
  <2>4. NamesOK(m, t.id, Templates!Claims(t))
    BY <1>5, <2>1 DEF NamesOK, Templates!Claims
  <2>5. QED
    BY <1>1, <1>3, <1>5, <2>1, <2>3, <2>4 DEF BroughtOK, UploadsBring
<1>6. QED
  BY <1>4, <1>5

\* A stored manifest, under its id, of the template with that id or of one that
\* has been mixed up with it.
StoredOK(shelf, mixed) ==
  /\ shelf = [m \in Templates!Ids |-> shelf[m]]
  /\ \A m \in Templates!Ids : shelf[m] # Nothing =>
       /\ shelf[m] \in Templates!Manifests /\ shelf[m].id = m
       /\ shelf[m].template = m \/ {m, shelf[m].template} \subseteq mixed

\* Rows that have what the older ones have, but for templates mixed up.
Keeps(shelf, older, mixed) ==
  \A m \in Templates!Ids : older[m] # Nothing =>
    /\ shelf[m] # Nothing
    /\ older[m].template \in mixed \/ shelf[m].template = older[m].template

\* What is stored for template i, under the id that is given for it.
ServesOK(shelf, id, i, mixed) ==
  /\ id \in Templates!Ids \cup {""}
  /\ id # "" => /\ shelf[id] # Nothing
                /\ shelf[id].template = i \/ i \in mixed

ListedBring(templates, mixed) ==
  \A i \in Templates!Ids : templates[i] # Nothing =>
    templates[i].manifest # Nothing /\ BroughtOK(templates[i].manifest, i, mixed)

\* The manifest a listed template has to store.
LEMMA ToStoreIs ==
  ASSUME TemplatesOK, NEW templates, NEW mixed, ListedBring(templates, mixed),
         NEW i \in Templates!Ids, i # "", templates[i] # Nothing,
         NEW n, n = Templates!ToStore(templates, i)
  PROVE  /\ n \in Templates!Manifests /\ n # Nothing
         /\ (n.id = i /\ n.template = i) \/ {n.id, n.template, i} \subseteq mixed
<1>1. PICK m : m = templates[i].manifest
  OBVIOUS
<1>2. m # Nothing /\ BroughtOK(m, i, mixed)
  BY <1>1 DEF ListedBring
<1>3. PICK k : k = [m EXCEPT !.id = IF m.id = "" THEN i ELSE m.id,
                             !.template = IF m.template = "" THEN i ELSE m.template]
  OBVIOUS
<1>4. /\ IsManifest(k) /\ k.id = (IF m.id = "" THEN i ELSE m.id)
      /\ k.template = (IF m.template = "" THEN i ELSE m.template)
      /\ k.complete = TRUE /\ k.mode = m.mode /\ m.mode \in Templates!Modes
  BY <1>2, <1>3 DEF BroughtOK, IsManifest, ManifestFields
<1>5. n = Templates!NormalManifest(k)
  BY <1>1, <1>2, <1>3 DEF Templates!ToStore, Templates!OrElse
<1>6. /\ IsManifest(n) /\ n.id = k.id /\ n.template = k.template /\ n.complete = TRUE
      /\ n.mode = k.mode
  BY <1>4, <1>5, NormalManifestIs DEF Templates!Modes
<1>7. n.id \in Templates!Ids /\ n.template \in Templates!Ids
  BY <1>2, <1>4, <1>6 DEF BroughtOK
<1>8. n \in Templates!Manifests
  BY <1>4, <1>6, <1>7 DEF Templates!Manifests, IsManifest, ManifestFields
<1>9. (n.id = i /\ n.template = i) \/ {n.id, n.template, i} \subseteq mixed
  BY <1>2, <1>4, <1>6 DEF BroughtOK, NamesOK
<1>10. QED
  BY <1>6, <1>8, <1>9 DEF TemplatesOK

\* Asking for a manifest keeps what is stored, and what it returns is stored.
LEMMA TakenIs ==
  ASSUME TemplatesOK, NEW templates, NEW shelf, NEW mixed, ListedBring(templates, mixed),
         StoredOK(shelf, mixed), NEW i \in Templates!Ids, i # "", NEW refused \in BOOLEAN,
         NEW r, r = Templates!Taken(templates, shelf, i, refused)
  PROVE  /\ StoredOK(r.rows, mixed) /\ Keeps(r.rows, shelf, mixed)
         /\ ServesOK(r.rows, r.id, i, mixed)
<1>1. PICK found : found = Templates!Stored(shelf, i)
  OBVIOUS
<1>2. CASE found # Nothing
  <2>1. r.rows = shelf /\ r.id = found
    BY <1>1, <1>2 DEF Templates!Taken, Templates!Manifested
  <2> DEFINE own == {m \in Templates!Ids : shelf[m] # Nothing /\ shelf[m].template = i}
  <2>2. CASE own # {}
    <3>1. found \in own
      BY <1>1, <2>2, FirstIsOne DEF Templates!Stored
    <3>2. QED
      BY <2>1, <3>1 DEF ServesOK, Keeps
  <2>3. CASE own = {}
    <3>1. found = i /\ shelf[i] # Nothing
      BY <1>1, <1>2, <2>3 DEF Templates!Stored
    <3>2. shelf[i].template # i
      BY <2>3, <3>1
    <3>3. i \in mixed
      BY <3>1, <3>2 DEF StoredOK
    <3>4. QED
      BY <2>1, <3>1, <3>3 DEF ServesOK, Keeps
  <2>4. QED
    BY <2>2, <2>3
<1>3. CASE found = Nothing /\ (templates[i] = Nothing \/ refused)
  <2>1. r.rows = shelf /\ r.id = ""
    BY <1>1, <1>3 DEF Templates!Taken, Templates!Manifested
  <2>2. QED
    BY <2>1 DEF ServesOK, Keeps
<1>4. CASE found = Nothing /\ templates[i] # Nothing /\ ~refused
  <2>1. PICK n : n = Templates!ToStore(templates, i)
    OBVIOUS
  <2>2. r.rows = [shelf EXCEPT ![n.id] = n] /\ r.id = n.id
    BY <1>1, <1>4, <2>1 DEF Templates!Taken, Templates!Manifested
  <2>3. /\ n \in Templates!Manifests /\ n # Nothing
        /\ (n.id = i /\ n.template = i) \/ {n.id, n.template, i} \subseteq mixed
    BY <1>4, <2>1, ToStoreIs
  <2>4. n.id \in Templates!Ids
    BY <2>3 DEF Templates!Manifests
  <2>5. \A m \in Templates!Ids : r.rows[m] = IF m = n.id THEN n ELSE shelf[m]
    BY <2>2 DEF StoredOK
  <2>6. StoredOK(r.rows, mixed)
    <3>1. r.rows = [m \in Templates!Ids |-> r.rows[m]]
      BY <2>2 DEF StoredOK
    <3>2. ASSUME NEW m \in Templates!Ids, r.rows[m] # Nothing
          PROVE  /\ r.rows[m] \in Templates!Manifests /\ r.rows[m].id = m
                 /\ r.rows[m].template = m \/ {m, r.rows[m].template} \subseteq mixed
      <4>1. CASE m = n.id
        <5>1. r.rows[m] = n
          BY <2>5, <4>1
        <5>2. QED
          BY <2>3, <4>1, <5>1
      <4>2. CASE m # n.id
        <5>1. r.rows[m] = shelf[m]
          BY <2>5, <4>2
        <5>2. QED
          BY <3>2, <5>1, ZenonT(40) DEF StoredOK
      <4>3. QED
        BY <4>1, <4>2
    <3>3. QED
      BY <3>1, <3>2 DEF StoredOK
  <2>7. Keeps(r.rows, shelf, mixed)
    BY <2>3, <2>5 DEF StoredOK, Keeps
  <2>8. ServesOK(r.rows, r.id, i, mixed)
    BY <2>2, <2>3, <2>4, <2>5 DEF ServesOK
  <2>9. QED
    BY <2>6, <2>7, <2>8
<1>5. QED
  BY <1>2, <1>3, <1>4

LEMMA KeepsAll ==
  ASSUME NEW shelf, NEW older, NEW oldest, NEW mixed,
         Keeps(shelf, older, mixed), Keeps(older, oldest, mixed)
  PROVE  Keeps(shelf, oldest, mixed)
  BY DEF Keeps

\* Rows after the templates up to n, by the recursion of SyncTemplateManifests.
SyncedTo(f, templates, failed, n) ==
  f = [k \in 0..n |->
         IF k = 0 THEN rows
         ELSE Templates!Taken(templates, f[k - 1], MCOrder[k], MCOrder[k] = failed).rows]

\* There are such rows, by induction over n: without them for some n, there is a
\* least n without them, and those for the n before it can be continued.
LEMMA RowsAreSynced ==
  ASSUME NEW templates, NEW failed
  PROVE  \A n \in Nat : \E f : SyncedTo(f, templates, failed, n)
<1> DEFINE Missing == {n \in Nat : ~\E f : SyncedTo(f, templates, failed, n)}
<1> SUFFICES ASSUME Missing # {} PROVE FALSE
  OBVIOUS
<1>1. PICK n \in Missing : \A k \in Missing : n <= k
  BY LeastExists
<1>2. n # 0
  <2>1. SyncedTo([k \in 0..0 |-> rows], templates, failed, 0)
    BY DEF SyncedTo
  <2>2. QED
    BY <1>1, <2>1
<1>3. n \in Nat /\ n - 1 \in Nat /\ n - 1 \notin Missing
  BY <1>1, <1>2
<1>4. PICK f : SyncedTo(f, templates, failed, n - 1)
  BY <1>3
<1> DEFINE Next1(k) == Templates!Taken(templates, f[k - 1], MCOrder[k], MCOrder[k] = failed).rows
           g == [k \in 0..n |-> IF k = n THEN Next1(n) ELSE f[k]]
<1>5. \A k \in 0..n - 1 : f[k] = IF k = 0 THEN rows ELSE Next1(k)
  BY <1>4 DEF SyncedTo
<1>6. \A k \in 0..n : g[k] = IF k = 0 THEN rows ELSE Next1(k)
  BY <1>2, <1>3, <1>5
<1>7. \A k \in 0..n : k # 0 => g[k - 1] = f[k - 1]
  BY <1>3
<1>8. SyncedTo(g, templates, failed, n)
  BY <1>6, <1>7 DEF SyncedTo
<1>9. QED
  BY <1>1, <1>8

LEMMA NoIdIsEmpty == "" \notin Templates!Ids
<1>1. Templates!Ids = {"custom", "tei", "vllm"}
  BY DEF Templates!Ids, MCOrder
<1>2. QED
  BY <1>1

\* Storing the manifests of all templates keeps what is stored, by induction
\* over the templates in the same way.
LEMMA SyncedIs ==
  ASSUME TemplatesOK, NEW templates, NEW failed, ListedBring(templates, claimed),
         StoredOK(rows, claimed)
  PROVE  /\ StoredOK(Templates!Synced(templates, failed), claimed)
         /\ Keeps(Templates!Synced(templates, failed), rows, claimed)
<1> DEFINE After(g, k) ==
             Templates!Taken(templates, g[k - 1], MCOrder[k], MCOrder[k] = failed)
<1>1. PICK L \in Nat : L = Len(MCOrder)
  BY DEF MCOrder
<1>2. \A k \in 1..L : MCOrder[k] \in Templates!Ids /\ MCOrder[k] # ""
  <2>1. \A k \in 1..L : MCOrder[k] \in Templates!Ids
    BY <1>1 DEF Templates!Ids
  <2>2. QED
    BY <2>1, NoIdIsEmpty
<1>3. PICK f : f = CHOOSE g : SyncedTo(g, templates, failed, L)
  OBVIOUS
<1>4. SyncedTo(f, templates, failed, L)
  BY <1>3, RowsAreSynced
<1>5. Templates!Synced(templates, failed) = f[L]
  BY <1>1, <1>3 DEF Templates!Synced, SyncedTo
<1>6. \A k \in 0..L : f[k] = IF k = 0 THEN rows ELSE After(f, k).rows
  BY <1>4 DEF SyncedTo
<1> DEFINE Good(k) == StoredOK(f[k], claimed) /\ Keeps(f[k], rows, claimed)
           Bad == {k \in 0..L : ~Good(k)}
<1>7. Bad = {}
  <2> SUFFICES ASSUME Bad # {} PROVE FALSE
    OBVIOUS
  <2>1. Bad \in SUBSET Nat
    BY <1>1
  <2>2. PICK n \in Bad : \A k \in Bad : n <= k
    BY <2>1, LeastExists
  <2>3. n # 0
    <3>1. f[0] = rows
      BY <1>1, <1>6
    <3>2. QED
      BY <2>2, <3>1 DEF Keeps
  <2>4. n \in 1..L /\ n - 1 \in 0..L /\ n - 1 \notin Bad
    BY <1>1, <2>2, <2>3
  <2>5. Good(n - 1)
    BY <2>4
  <2>6. PICK r : r = After(f, n)
    OBVIOUS
  <2>7. f[n] = r.rows
    BY <1>6, <2>4, <2>6
  <2>8. StoredOK(r.rows, claimed) /\ Keeps(r.rows, f[n - 1], claimed)
    BY <1>2, <2>4, <2>5, <2>6, TakenIs
  <2>9. Good(n)
    BY <2>5, <2>7, <2>8, KeepsAll
  <2>10. QED
    BY <2>2, <2>9
<1>8. QED
  BY <1>5, <1>7

\* What is in memory and in the database, and the bindings to it.
BindingsOK(bound, shelf, mixed) ==
  /\ bound = [i \in Templates!Ids |-> bound[i]]
  /\ \A i \in Templates!Ids : bound[i] # Nothing =>
       /\ bound[i] \in Bindings /\ bound[i].template = i
       /\ bound[i].generated => i = MCModel.template /\ ServesOK(shelf, bound[i].manifest, i, mixed)

\* A template that is listed is listed under its id, and those that the
\* controller comes with are listed while it runs.
NamedOK(templates) == \A i \in Templates!Ids : templates[i] # Nothing => templates[i].id = i
AllListed(templates) == \A t \in MCProvided : templates[t.id] # Nothing

TemplatesInv ==
  /\ ListedOK /\ NamedOK(listed) /\ ListedBring(listed, claimed)
  /\ StoredOK(rows, claimed) /\ BindingsOK(bindings, rows, claimed)
  /\ up \in BOOLEAN /\ (up => AllListed(listed))
  /\ claimed \subseteq Templates!Ids

LEMMA TemplatesAtFirst == Templates!Init => TemplatesInv
  BY ListedAtFirst DEF Templates!Init, TemplatesInv, NamedOK, ListedBring, StoredOK, BindingsOK

\* More templates mixed up, and more rows, leave what is right right.
LEMMA MixedGrows ==
  ASSUME NEW templates, NEW shelf, NEW bound, NEW mixed, NEW more, mixed \subseteq more
  PROVE  /\ ListedBring(templates, mixed) => ListedBring(templates, more)
         /\ StoredOK(shelf, mixed) => StoredOK(shelf, more)
         /\ BindingsOK(bound, shelf, mixed) => BindingsOK(bound, shelf, more)
<1>1. \A m, i : NamesOK(m, i, mixed) => NamesOK(m, i, more)
  BY DEF NamesOK
<1>2. ListedBring(templates, mixed) => ListedBring(templates, more)
  BY <1>1 DEF ListedBring, BroughtOK
<1>3. StoredOK(shelf, mixed) => StoredOK(shelf, more)
  BY DEF StoredOK
<1>4. \A id, i : ServesOK(shelf, id, i, mixed) => ServesOK(shelf, id, i, more)
  BY DEF ServesOK
<1>5. BindingsOK(bound, shelf, mixed) => BindingsOK(bound, shelf, more)
  BY <1>4 DEF BindingsOK
<1>6. QED
  BY <1>2, <1>3, <1>5

LEMMA RowsGrow ==
  ASSUME NEW shelf, NEW older, NEW mixed, Keeps(shelf, older, mixed), NEW bound
  PROVE  /\ \A id, i : ServesOK(older, id, i, mixed) => ServesOK(shelf, id, i, mixed)
         /\ BindingsOK(bound, older, mixed) => BindingsOK(bound, shelf, mixed)
<1>1. ASSUME NEW id, NEW i, ServesOK(older, id, i, mixed) PROVE ServesOK(shelf, id, i, mixed)
  <2>1. CASE id = ""
    BY <1>1, <2>1 DEF ServesOK
  <2>2. CASE id # ""
    <3>1. id \in Templates!Ids /\ older[id] # Nothing /\ (older[id].template = i \/ i \in mixed)
      BY <1>1, <2>2 DEF ServesOK
    <3>2. shelf[id] # Nothing /\ (shelf[id].template = i \/ i \in mixed)
      BY <3>1 DEF Keeps
    <3>3. QED
      BY <3>1, <3>2 DEF ServesOK
  <2>3. QED
    BY <2>1, <2>2
<1>2. BindingsOK(bound, older, mixed) => BindingsOK(bound, shelf, mixed)
  BY <1>1 DEF BindingsOK
<1>3. QED
  BY <1>1, <1>2

LEMMA ProvidedAreSome == ASSUME TemplatesOK PROVE \A t \in MCProvided : t # Nothing
<1>1. ASSUME NEW t \in MCProvided PROVE t = [f \in TemplateFields |-> t[f]]
  BY DEF MCProvided, Built, Configured, Given, TemplateFields
<1>2. QED
  BY <1>1 DEF TemplatesOK

LEMMA StartServes ==
  ASSUME TemplatesOK, TemplatesInv, ListedOK', NEW failed, Templates!Start(failed)
  PROVE  TemplatesInv'
<1>1. /\ up' = TRUE /\ rows' = Templates!Synced(listed', failed)
      /\ bindings' = bindings /\ claimed' = claimed
  BY DEF Templates!Start
<1>2. listed' = [i \in Templates!Ids |->
        IF \E t \in MCProvided : t.id = i
          THEN CHOOSE t \in MCProvided : t.id = i ELSE Nothing]
  BY DEF Templates!Start
<1>3. ASSUME NEW i \in Templates!Ids, \E t \in MCProvided : t.id = i
      PROVE  listed'[i] \in MCProvided /\ listed'[i].id = i
  <2>1. listed'[i] = CHOOSE t \in MCProvided : t.id = i
    BY <1>2, <1>3
  <2>2. QED
    BY <1>3, <2>1
<1>4. \A i \in Templates!Ids : listed'[i] # Nothing => \E t \in MCProvided : t.id = i
  BY <1>2
<1>5. NamedOK(listed')
  BY <1>3, <1>4 DEF NamedOK
<1>6. AllListed(listed')
  <2> SUFFICES ASSUME NEW t \in MCProvided PROVE listed'[t.id] # Nothing
    BY DEF AllListed
  <2>1. t.id \in Templates!Ids
    BY ProvidedBring
  <2>2. listed'[t.id] \in MCProvided
    BY <1>3, <2>1
  <2>3. QED
    BY <2>2, ProvidedAreSome
<1>7. ListedBring(listed', claimed)
  <2> SUFFICES ASSUME NEW i \in Templates!Ids, listed'[i] # Nothing
               PROVE  /\ listed'[i].manifest # Nothing
                      /\ BroughtOK(listed'[i].manifest, i, claimed)
    BY DEF ListedBring
  <2>1. PICK m : m = listed'[i].manifest
    OBVIOUS
  <2>2. m = Brought(i, i, "generic_injected")
    BY <1>3, <1>4, <2>1, ProvidedBring
  <2>3. /\ IsManifest(m) /\ m.id = i /\ m.template = i /\ m.complete = TRUE
        /\ m.mode = "generic_injected"
    <3>1. IsManifest(m)
      BY <2>2, BroughtIs
    <3>2. m.id = i /\ m.template = i /\ m.mode = "generic_injected"
      BY <2>2 DEF Brought
    <3>3. m.complete = TRUE
      BY <2>2 DEF Brought
    <3>4. QED
      BY <3>1, <3>2, <3>3
  <2>4. BroughtOK(m, i, claimed)
    BY <2>3 DEF BroughtOK, NamesOK, Templates!Modes
  <2>5. QED
    BY <2>1, <2>3, <2>4 DEF TemplatesOK
<1>8. StoredOK(rows', claimed) /\ Keeps(rows', rows, claimed)
  BY <1>1, <1>7, SyncedIs DEF TemplatesInv
<1>9. BindingsOK(bindings, rows', claimed)
  BY <1>8, RowsGrow DEF TemplatesInv
<1>10. QED
  BY <1>1, <1>5, <1>6, <1>7, <1>8, <1>9 DEF TemplatesInv

LEMMA EndsServe == ASSUME TemplatesInv, ListedOK', Templates!Ends PROVE TemplatesInv'
  BY DEF Templates!Ends, TemplatesInv, NamedOK, ListedBring

LEMMA UploadServes ==
  ASSUME TemplatesOK, TemplatesInv, ListedOK', NEW t \in MCUploads, Templates!Upload(t)
  PROVE  TemplatesInv'
<1>1. /\ Templates!Valid(t) /\ up' = up /\ rows' = rows /\ bindings' = bindings
      /\ claimed' = claimed \cup Templates!Claims(t)
      /\ listed' = [listed EXCEPT ![t.id] = Templates!Normal(t)]
  BY DEF Templates!Upload
<1>2. t.id \in Templates!Ids /\ UploadsBring(t) /\ IsTemplate(t)
  BY <1>1, UploadsBringManifests, UploadsAreTemplates DEF Templates!Valid
<1>3. PICK u : u = Templates!Normal(t)
  OBVIOUS
<1>4. /\ u # Nothing /\ u.id = t.id /\ u.manifest # Nothing
      /\ BroughtOK(u.manifest, t.id, Templates!Claims(t))
  <2>1. BroughtOK(u.manifest, t.id, Templates!Claims(t))
    BY <1>1, <1>3, NormalBrings
  <2>2. u = [f \in TemplateFields |-> u[f]] /\ u.id = t.id
    BY <1>2, <1>3, NormalIs DEF IsNormalOf
  <2>3. QED
    BY <2>1, <2>2 DEF BroughtOK, TemplatesOK
<1>5. \A i \in Templates!Ids : listed'[i] = IF i = t.id THEN u ELSE listed[i]
  BY <1>1, <1>3 DEF TemplatesInv, ListedOK
<1>6. BroughtOK(u.manifest, t.id, claimed')
  BY <1>1, <1>4 DEF BroughtOK, NamesOK
<1>7. ListedBring(listed, claimed') /\ StoredOK(rows', claimed') /\ BindingsOK(bindings', rows', claimed')
  BY <1>1, MixedGrows DEF TemplatesInv
<1>8. ListedBring(listed', claimed')
  BY <1>4, <1>5, <1>6, <1>7 DEF ListedBring
<1>9. NamedOK(listed')
  BY <1>4, <1>5 DEF NamedOK, TemplatesInv
<1>10. up' \in BOOLEAN /\ (up' => AllListed(listed'))
  BY <1>1, <1>4, <1>5, ProvidedBring DEF AllListed, TemplatesInv
<1>11. claimed' \subseteq Templates!Ids
  <2>1. Templates!Claims(t) \subseteq Templates!Ids
    BY <1>2 DEF Templates!Claims, UploadsBring
  <2>2. QED
    BY <1>1, <2>1 DEF TemplatesInv
<1>12. QED
  BY <1>7, <1>8, <1>9, <1>10, <1>11 DEF TemplatesInv

LEMMA AskServes ==
  ASSUME TemplatesOK, TemplatesInv, ListedOK', NEW i \in Templates!Ids, NEW refused \in BOOLEAN,
         Templates!AskManifest(i, refused)
  PROVE  TemplatesInv'
<1>1. PICK r : r = Templates!Taken(listed, rows, i, refused)
  OBVIOUS
<1>2. /\ rows' = r.rows
      /\ up' = up /\ listed' = listed /\ bindings' = bindings /\ claimed' = claimed
  BY <1>1 DEF Templates!AskManifest
<1>3. StoredOK(r.rows, claimed) /\ Keeps(r.rows, rows, claimed)
  BY <1>1, NoIdIsEmpty, TakenIs DEF TemplatesInv
<1>4. BindingsOK(bindings, r.rows, claimed)
  BY <1>3, RowsGrow DEF TemplatesInv
<1>5. QED
  BY <1>2, <1>3, <1>4 DEF TemplatesInv

\* A binding is judged, and is otherwise what it was.
LEMMA JudgedIs ==
  ASSUME NEW b \in Bindings, NEW j, j = Templates!Judged(b)
  PROVE  /\ j \in Bindings /\ j.template = b.template
         /\ j.generated = b.generated /\ j.manifest = b.manifest
<1>1. PICK v : v = Templates!Compatibility(b, listed[b.template])
  OBVIOUS
<1>2. v \in Templates!Verdicts
  BY <1>1 DEF Templates!Compatibility, Templates!Verdicts
<1>3. j = [b EXCEPT !.verdict = v]
  BY <1>1 DEF Templates!Judged
<1>4. QED
  BY <1>2, <1>3 DEF Bindings

\* One binding is written.
LEMMA BindingWritten ==
  ASSUME NEW shelf, NEW mixed, BindingsOK(bindings, shelf, mixed), NEW b \in Bindings,
         b.generated => /\ b.template = MCModel.template
                        /\ ServesOK(shelf, b.manifest, b.template, mixed)
  PROVE  BindingsOK([bindings EXCEPT ![b.template] = b], shelf, mixed)
<1>1. PICK bound : bound = [bindings EXCEPT ![b.template] = b]
  OBVIOUS
<1>2. bound = [i \in Templates!Ids |-> bound[i]]
  BY <1>1 DEF BindingsOK
<1>3. \A i \in Templates!Ids : bound[i] = IF i = b.template THEN b ELSE bindings[i]
  BY <1>1 DEF BindingsOK
<1>4. QED
  BY <1>1, <1>2, <1>3 DEF BindingsOK

LEMMA BindServes ==
  ASSUME TemplatesInv, ListedOK', NEW b \in MCOperators, Templates!Bind(b) PROVE TemplatesInv'
<1>1. PICK j : j = Templates!Judged(b)
  OBVIOUS
<1>2. /\ bindings' = [bindings EXCEPT ![b.template] = j]
      /\ up' = up /\ listed' = listed /\ rows' = rows /\ claimed' = claimed
  BY <1>1 DEF Templates!Bind
<1>3. j \in Bindings /\ j.template = b.template /\ j.generated = FALSE
  BY <1>1, OperatorsAreBindings, JudgedIs
<1>4. BindingsOK(bindings', rows, claimed)
  BY <1>2, <1>3, BindingWritten DEF TemplatesInv
<1>5. QED
  BY <1>2, <1>4 DEF TemplatesInv

\* The binding a model has, if it has one.
LEMMA ExistingIs ==
  ASSUME TemplatesInv, NEW b, b = Templates!Existing, b # Nothing
  PROVE  b \in Bindings /\ bindings[b.template] = b
<1> DEFINE bound == {i \in Templates!Ids : bindings[i] # Nothing}
<1>1. bound # {} /\ b = bindings[Templates!First(bound)]
  BY DEF Templates!Existing
<1>2. Templates!First(bound) \in bound
  BY <1>1, FirstIsOne
<1>3. QED
  BY <1>1, <1>2 DEF TemplatesInv, BindingsOK

LEMMA GeneratedIs ==
  ASSUME NEW id \in Templates!Ids \cup {""}, NEW b, b = Templates!Generated(id)
  PROVE  b \in Bindings /\ b.template = MCModel.template /\ b.manifest = id
<1> DEFINE mode == IF listed[MCModel.template].dedicated THEN "dedicated" ELSE "generic_injected"
           g == [template |-> MCModel.template, scripted |-> FALSE, manifest |-> id,
                 mode |-> mode, generated |-> TRUE, verdict |-> "compatible"]
<1>1. MCModel.template = "tei" /\ MCModel.template \in Templates!Ids
  BY IdsAre DEF MCModel
<1>2. mode \in Templates!Modes
  BY DEF Templates!Modes
<1>3. g \in Bindings /\ g.template = MCModel.template /\ g.manifest = id
  <2> HIDE DEF mode
  <2> QED
    BY <1>1, <1>2 DEF Bindings, Templates!Verdicts
<1>4. b = Templates!Judged(g)
  BY DEF Templates!Generated
<1>5. QED
  <2> HIDE DEF g
  <2> QED
    BY <1>3, <1>4, JudgedIs

LEMMA SyncServes ==
  ASSUME TemplatesOK, TemplatesInv, ListedOK', NEW f \in BOOLEAN, NEW g \in BOOLEAN,
         Templates!SyncModel(f, g)
  PROVE  TemplatesInv'
<1>1. PICK r : r = Templates!Taken(listed, rows, MCModel.template, f)
  OBVIOUS
<1>2. PICK prior : prior = Templates!Existing
  OBVIOUS
<1>3. PICK b : b = IF prior # Nothing THEN Templates!Again(prior) ELSE Templates!Generated(r.id)
  OBVIOUS
<1>4. /\ up' = up /\ listed' = listed /\ claimed' = claimed
      /\ rows' = IF prior = Nothing THEN r.rows ELSE rows
      /\ bindings' = IF g THEN bindings ELSE [bindings EXCEPT ![b.template] = b]
  BY <1>1, <1>2, <1>3 DEF Templates!SyncModel
<1>5. /\ StoredOK(rows', claimed) /\ BindingsOK(bindings, rows', claimed)
      /\ b \in Bindings
      /\ b.generated => /\ b.template = MCModel.template
                        /\ ServesOK(rows', b.manifest, b.template, claimed)
  <2>1. CASE prior # Nothing
    <3>1. prior \in Bindings /\ bindings[prior.template] = prior
      BY <1>2, <2>1, ExistingIs
    <3>2. b = Templates!Judged(prior) \/ b = prior
      BY <1>3, <2>1 DEF Templates!Again
    <3>3. /\ b \in Bindings /\ b.template = prior.template
          /\ b.generated = prior.generated /\ b.manifest = prior.manifest
      BY <3>1, <3>2, JudgedIs
    <3>4. prior.template \in Templates!Ids
      BY <3>1 DEF Bindings
    <3>5. prior.generated => /\ prior.template = MCModel.template
                           /\ ServesOK(rows, prior.manifest, prior.template, claimed)
      BY <2>1, <3>1, <3>4 DEF TemplatesInv, BindingsOK
    <3>6. QED
      BY <1>4, <2>1, <3>3, <3>5 DEF TemplatesInv
  <2>2. CASE prior = Nothing
    <3>1. MCModel.template \in Templates!Ids /\ MCModel.template # ""
      BY IdsAre, NoIdIsEmpty DEF MCModel
    <3>2. /\ StoredOK(r.rows, claimed) /\ Keeps(r.rows, rows, claimed)
          /\ ServesOK(r.rows, r.id, MCModel.template, claimed)
      BY <1>1, <3>1, TakenIs DEF TemplatesInv
    <3>3. b \in Bindings /\ b.template = MCModel.template /\ b.manifest = r.id
      BY <1>3, <2>2, <3>2, GeneratedIs DEF ServesOK
    <3>4. BindingsOK(bindings, r.rows, claimed)
      BY <3>2, RowsGrow DEF TemplatesInv
    <3>5. QED
      BY <1>4, <2>2, <3>2, <3>3, <3>4
  <2>3. QED
    BY <2>1, <2>2
<1>6. BindingsOK([bindings EXCEPT ![b.template] = b], rows', claimed)
  BY <1>5, BindingWritten
<1>7. BindingsOK(bindings', rows', claimed)
  BY <1>4, <1>5, <1>6
<1>8. QED
  BY <1>4, <1>5, <1>7 DEF TemplatesInv

LEMMA TemplatesStay ==
  ASSUME TemplatesOK
  PROVE  TemplatesInv /\ [Templates!Next]_(Templates!vars) => TemplatesInv'
<1> SUFFICES ASSUME TemplatesInv, [Templates!Next]_(Templates!vars) PROVE TemplatesInv'
  OBVIOUS
<1>1. ListedOK'
  BY ListedStays DEF TemplatesInv
<1>2. ASSUME NEW f, Templates!Start(f) PROVE TemplatesInv'
  BY <1>1, <1>2, StartServes
<1>3. CASE Templates!Ends
  BY <1>1, <1>3, EndsServe
<1>4. ASSUME NEW t \in MCUploads, Templates!Upload(t) PROVE TemplatesInv'
  BY <1>1, <1>4, UploadServes
<1>5. ASSUME NEW i \in Templates!Ids, NEW f \in BOOLEAN, Templates!AskManifest(i, f)
      PROVE  TemplatesInv'
  BY <1>1, <1>5, AskServes
<1>6. ASSUME NEW b \in MCOperators, Templates!Bind(b) PROVE TemplatesInv'
  BY <1>1, <1>6, BindServes
<1>7. ASSUME NEW f \in BOOLEAN, NEW g \in BOOLEAN, Templates!SyncModel(f, g)
      PROVE  TemplatesInv'
  BY <1>1, <1>7, SyncServes
<1>8. CASE UNCHANGED Templates!vars
  BY <1>1, <1>8 DEF Templates!vars, TemplatesInv, NamedOK, AllListed
<1>9. QED
  BY <1>2, <1>3, <1>4, <1>5, <1>6, <1>7, <1>8 DEF Templates!Next

(***************************************************************************)
(* The binding the controller has made for a model resolves whenever the   *)
(* controller runs, through restarts and failed writes: its template is    *)
(* listed, because the controller has made it for one that it comes with,  *)
(* and its manifest is stored, because it was before it was bound and no   *)
(* manifest is ever taken out.  It is the template's own unless an upload  *)
(* has mixed it up with another's.                                         *)
(***************************************************************************)
THEOREM BindingsResolve == ASSUME TemplatesOK PROVE ServicesSpec => []BoundResolves
<1>1. TemplatesInv => BoundResolves
  <2> SUFFICES ASSUME TemplatesInv, NEW i \in Templates!Ids, up, bindings[i] # Nothing,
                      bindings[i].generated, NEW t \in MCProvided, t.id = i
               PROVE  /\ listed[i] # Nothing
                      /\ bindings[i].manifest # "" =>
                           /\ rows[bindings[i].manifest] # Nothing
                           /\ rows[bindings[i].manifest].template = i \/ i \in claimed
    BY DEF BoundResolves, Templates!BoundResolves
  <2>1. listed[i] # Nothing
    BY DEF TemplatesInv, AllListed
  <2>2. ServesOK(rows, bindings[i].manifest, i, claimed)
    BY DEF TemplatesInv, BindingsOK
  <2>3. QED
    BY <2>1, <2>2 DEF ServesOK
<1>2. QED
  BY <1>1, TemplatesAtFirst, TemplatesStay, TemplatesMove, PTL DEF Templates!Spec

\* What their types assume besides: the bounds of a run are numbers.
TemplatesBounded == MaxRequests \in Nat /\ MaxWriteFaults \in Nat

CountsOK == requests \in 0..MaxRequests /\ writeFaults \in 0..MaxWriteFaults

LEMMA CountsStay ==
  ASSUME TemplatesBounded PROVE CountsOK /\ [Templates!Next]_(Templates!vars) => CountsOK'
<1> SUFFICES ASSUME CountsOK, [Templates!Next]_(Templates!vars) PROVE CountsOK'
  OBVIOUS
<1> USE DEF CountsOK, TemplatesBounded
<1>1. Templates!Asked => requests' \in 0..MaxRequests
  BY DEF Templates!Asked
<1>2. \A f \in BOOLEAN : Templates!Fails(f) => writeFaults' \in 0..MaxWriteFaults
  BY DEF Templates!Fails
<1>3. ASSUME NEW f, Templates!Start(f) PROVE CountsOK'
  BY <1>2, <1>3 DEF Templates!Start
<1>4. CASE Templates!Ends
  BY <1>1, <1>4 DEF Templates!Ends
<1>5. ASSUME NEW t \in MCUploads, Templates!Upload(t) PROVE CountsOK'
  BY <1>1, <1>5 DEF Templates!Upload
<1>6. ASSUME NEW i \in Templates!Ids, NEW f \in BOOLEAN, Templates!AskManifest(i, f)
      PROVE  CountsOK'
  BY <1>2, <1>6 DEF Templates!AskManifest
<1>7. ASSUME NEW b \in MCOperators, Templates!Bind(b) PROVE CountsOK'
  BY <1>1, <1>7 DEF Templates!Bind
<1>8. ASSUME NEW f \in BOOLEAN, NEW g \in BOOLEAN, Templates!SyncModel(f, g) PROVE CountsOK'
  BY <1>2, <1>8 DEF Templates!SyncModel
<1>9. CASE UNCHANGED Templates!vars
  BY <1>9 DEF Templates!vars
<1>10. QED
  BY <1>3, <1>4, <1>5, <1>6, <1>7, <1>8, <1>9 DEF Templates!Next

LEMMA TemplateTypes ==
  ASSUME TemplatesOK, TemplatesBounded PROVE ServicesSpec => []Templates!TypeOK
<1>1. Templates!Init => CountsOK
  BY DEF Templates!Init, CountsOK, TemplatesBounded
<1>2. TemplatesInv /\ CountsOK => Templates!TypeOK
  BY DEF TemplatesInv, CountsOK, NamedOK, StoredOK, BindingsOK, Bindings, Templates!TypeOK
<1>3. QED
  BY <1>1, <1>2, TemplatesAtFirst, TemplatesStay, CountsStay, TemplatesMove, PTL
     DEF Templates!Spec

-----------------------------------------------------------------------------
(* Types.                                                                  *)

(***************************************************************************)
(* The variables of the parts on the node's side keep their types: what an *)
(* agent reports of a runtime is one of the known states, no failed answer *)
(* gets into the LM Studio cache, and there is always an array left for a  *)
(* node's next status.                                                     *)
(***************************************************************************)
THEOREM NodeSideTypes ==
  ASSUME ServeOK, StudioBounded, NodesOK, NodesFinite
  PROVE  ServicesSpec => []NodeSideTypeOK
<1>1. ServicesSpec => []TypeOK
  BY TasksMove, TypesHold, PTL
<1>2. ServicesSpec => []Serve!TypeOK
  BY ServeMoves, ServeAssumed, Serve!ServeTypes, PTL
<1>3. QED
  BY <1>1, <1>2, StudioTypes, NodeTypes, PTL DEF NodeSideTypeOK

(***************************************************************************)
(* The variables of the controller's parts keep their types; a stored      *)
(* manifest has all that a reader of it takes for granted.                 *)
(***************************************************************************)
THEOREM ControllerTypes ==
  ASSUME AgentsOK, TestsOK, TemplatesOK, TemplatesBounded
  PROVE  ServicesSpec => []ControllerTypeOK
<1>1. ServicesSpec => []Agents!TypeOK
  BY AgentsMove, AgentsAssumed, Agents!RegistryTypes, PTL
<1>2. ServicesSpec => []Tests!TypeOK
  BY TestsMove, TestsAssumed, Tests!RunTypes, PTL
<1>3. QED
  BY <1>1, <1>2, TemplateTypes, PTL DEF ControllerTypeOK

=============================================================================
