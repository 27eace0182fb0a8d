----------------------------- MODULE MCServices -----------------------------
(***************************************************************************)
(* The parts around tasks and models, for TLC: the agent's tasks on its    *)
(* node, the service it manages, its registration, the nodes, test runs,   *)
(* the LM Studio cache and runtime templates.  Their modules share no      *)
(* state, so a behaviour moves one of them: the others stay in an initial  *)
(* state.                                                                  *)
(***************************************************************************)
EXTENDS MCNodeTasks, MCTemplates

CONSTANTS
  Procs, NoProc, Threshold, MaxCrashes, MaxAgents,   \* ManagedServe
  Calls, NoCall, Caps, NoCaps, TTL,                  \* AgentRegistry
  TestRunIds, Offered,                               \* TestRuns
  Dialects, MaxTurns,                                \* LMStudioCache
  rt1, rt2, Listings, Reports, NoNode,               \* NodeService
  MaxFaults,
  Parts                                              \* which of them move

VARIABLES
  part,
  at, signalled, managed, cancelled, cmd, fresh, healthy, fails, proc, told,
  orphans, crashes, agents,
  phase, able, awaits, contact, memory, stored, call, list, overtaken, losses,
  record, doing, scenario, failing, saved, open, binding, gated, serves, late,
  wanted, harmed, alone, stray, lost, faults,
  server, dialect, cache, registry, modelRow, thread, answer, copy, behind, turns,
  answering, checked, running, inventory, arrays, row, place, held, answers, missed,
  kept, safe, misses, moves,
  up, listed, rows, bindings, claimed, requests, writeFaults

\* Three come with the theorems about them, which ServicesProofs uses.
Serve == INSTANCE ManagedServeProofs WITH pc <- at
Agents == INSTANCE AgentRegistryProofs WITH faults <- losses
Tests == INSTANCE TestRunsProofs WITH
  Runs <- TestRunIds, at <- doing, task <- open, ready <- serves
Studio == INSTANCE LMStudioCache WITH
  MaxChanges <- MaxTurns, row <- modelRow, pc <- thread, changes <- turns

\* Reports that tell nothing of a runtime, or that one is online.
Silent == [about |-> "none", status |-> "offline"]
Telling == [about |-> rt2, status |-> "online"]

Nodes == INSTANCE NodeService WITH
  Runtimes <- {rt1, rt2}, Configs <- {<<>>, <<rt1, rt2>>},
  Lists <- Listings, Tales <- {Silent, Telling}, HasPing <- TRUE, MaxChanges <- 1,
  up <- answering, registry <- inventory, at <- place, faults <- misses,
  changes <- moves
Templates == INSTANCE RuntimeTemplates WITH
  Order <- MCOrder, Provided <- MCProvided, Uploads <- MCUploads,
  Operators <- MCOperators, Model <- MCModel

nodeVars == vars
serveVars == <<at, signalled, managed, cancelled, cmd, fresh, healthy, fails,
               proc, told, orphans, crashes, agents>>
agentVars == <<phase, able, awaits, contact, memory, stored, call, list,
               overtaken, losses>>
testVars == <<record, doing, scenario, failing, saved, open, binding, gated,
              serves, late, wanted, harmed, alone, stray, lost, faults>>
studioVars == <<server, dialect, cache, registry, modelRow, thread, answer, copy,
                behind, turns>>
inventoryVars == <<answering, checked, running, inventory, arrays, row, place,
                   held, answers, missed, kept, safe, misses, moves>>
templateVars == <<up, listed, rows, bindings, claimed, requests, writeFaults>>

\* The parts that do not move have one initial state each; LM Studio starts with
\* a loaded model of which the controller knows nothing or something else.
AtRest ==
  /\ part # "node" => transport = "cli" /\ container = "absent" /\ files = {}
  /\ part # "tests" => ~gated
  /\ server = "loaded" /\ dialect = "plain"
  /\ modelRow \in IF part = "studio" THEN {"none", "stopped"} ELSE {"none"}

ServicesInit ==
  /\ part \in Parts
  /\ Init /\ Serve!Init /\ Agents!Init /\ Tests!Init /\ Studio!Init
  /\ Nodes!Init /\ Templates!Init
  /\ AtRest

ServicesNext ==
  \/ /\ part = "node" /\ Next
     /\ UNCHANGED <<part, serveVars, agentVars, testVars, studioVars,
                    inventoryVars, templateVars>>
  \/ /\ part = "serve" /\ Serve!Next
     /\ UNCHANGED <<part, nodeVars, agentVars, testVars, studioVars,
                    inventoryVars, templateVars>>
  \/ /\ part = "agents" /\ Agents!Next
     /\ UNCHANGED <<part, nodeVars, serveVars, testVars, studioVars,
                    inventoryVars, templateVars>>
  \/ /\ part = "tests" /\ Tests!Next
     /\ UNCHANGED <<part, nodeVars, serveVars, agentVars, studioVars,
                    inventoryVars, templateVars>>
  \/ /\ part = "studio" /\ Studio!Next
     /\ UNCHANGED <<part, nodeVars, serveVars, agentVars, testVars,
                    inventoryVars, templateVars>>
  \/ /\ part = "nodes" /\ Nodes!Next
     /\ UNCHANGED <<part, nodeVars, serveVars, agentVars, testVars, studioVars,
                    templateVars>>
  \/ /\ part = "templates" /\ Templates!Next
     /\ UNCHANGED <<part, nodeVars, serveVars, agentVars, testVars, studioVars,
                    inventoryVars>>

ServicesSpec ==
  /\ ServicesInit
  /\ [][ServicesNext]_<<part, nodeVars, serveVars, agentVars, testVars, studioVars,
                        inventoryVars, templateVars>>

-----------------------------------------------------------------------------
(* The properties of the parts, which their modules state.  Fairness is    *)
(* that of the part that moves.                                            *)

\* NodeTasks, ManagedServe, LMStudioCache, NodeService: the variables keep their
\* types, what an agent reports of a runtime is one of the known states, and no
\* failed answer gets into the cache.
NodeSideTypeOK == TypeOK /\ Serve!TypeOK /\ Studio!TypeOK /\ Nodes!TypeOK

\* AgentRegistry, TestRuns, RuntimeTemplates: the variables keep their types, and
\* a stored manifest has all that a reader of it takes for granted.
ControllerTypeOK == Agents!TypeOK /\ Tests!TypeOK /\ Templates!TypeOK

\* ManagedServe: at most one process that has not been told to stop.
OneProcess == Serve!OneProcess

\* ManagedServe: an agent whose loop is over has told its processes to stop.
CleanStop == Serve!CleanStop

\* AgentRegistry: an agent in the database is known in memory.
StoredIsKnown == Agents!StoredIsKnown

\* AgentRegistry: who is shown online has called lately.
OnlineIsRecent == Agents!OnlineIsRecent

\* AgentRegistry: reported capabilities are kept.
ReportKept == Agents!ReportKept

\* NodeService: what a report has noted stays until an older copy or the
\* configuration is written over it.
ReportStays == Nodes!ReportStays

\* TestRuns: what a success has behind it.
SuccessIsWhole == Tests!SuccessIsWhole

\* TestRuns: the binding is given back.
BindingComesBack == Tests!BindingComesBack

\* TestRuns: the scenario that must not start the runtime does not.
NoStrayStart == Tests!NoStrayStart

\* LMStudioCache: a known state does not become unknown.
UnknownKeepsKnown == Studio!UnknownKeepsKnown

\* RuntimeTemplates: a listed template is valid and normal.
ListedIsValid == Templates!ListedIsValid

\* RuntimeTemplates: a generated binding resolves.
BoundResolves == Templates!BoundResolves

\* NodeTasks: a task returns unless a docker command hangs.
NodeTasksReturn == [](part = "node") => (Fairness => TasksReturn)

\* ManagedServe: the service comes back.
ServiceReturns == [](part = "serve") => (Serve!Fairness => Serve!ServiceReturns)

\* NodeService: registry and database catch up with what answers.
NodesCatchUp == [](part = "nodes") => Nodes!NodesCatchUp

\* AgentRegistry: the agent is shown online again.
SeenOnline == [](part = "agents") => Agents!SeenOnline

\* TestRuns: every run is recorded as ended.
RunsEnd == [](part = "tests") => Tests!RunsEnd

\* LMStudioCache: cache and registry catch up with a quiet server.
CatchesUp == [](part = "studio") => Studio!CatchesUp

\* RuntimeTemplates: the binding's verdict follows the template.
VerdictFollows == [](part = "templates") => Templates!VerdictFollows
=============================================================================
