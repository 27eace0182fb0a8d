---------------------------- MODULE ManagedServe ----------------------------
(***************************************************************************)
(* The llmfit service an agent runs beside itself (pkg/fit), and the life  *)
(* of the agent process around it (cmd/agent main).                        *)
(*                                                                         *)
(*   "main"   starts the service, registers with the controller, serves    *)
(*            its loop and stops the service at the end                    *)
(*   "super"  checks the service's health, restarts it after Threshold     *)
(*            failures, and stops it when the agent is told to end         *)
(*                                                                         *)
(* A watcher per process and, once the process context is cancelled, a     *)
(* killer per process are goroutines too.  Goroutines end with the agent,  *)
(* processes do not.  A health check takes any process that answers for    *)
(* the service, and only one process can hold its port.                    *)
(***************************************************************************)
EXTENDS Integers, FiniteSets

CONSTANTS
  Procs,       \* process ids
  NoProc,      \* no process
  Threshold,   \* failures before a restart
  MaxCrashes,  \* bound: processes that die or hang by themselves
  MaxAgents    \* bound: agents started again on the node

VARIABLES
  pc,         \* pc["main"], pc["super"]: where the two goroutines are
  signalled,  \* the agent has been told to end (its context is done)
  managed,    \* the manager is switched on, and has its process context
  cancelled,  \* the process context has been cancelled
  cmd,        \* the manager's current process
  fresh,      \* fresh[t]: the process t has started but not yet installed
  healthy,    \* the manager's opinion of the service
  fails,      \* consecutive failures
  proc,       \* proc[p]: what the process does
  told,       \* processes told to stop
  orphans,    \* processes whose agent has gone
  crashes, agents

mine == <<managed, cancelled, cmd, fresh, healthy, fails>>
world == <<proc, told, orphans>>
bounds == <<crashes, agents>>
vars == <<pc, signalled, mine, world, bounds>>

Threads == {"main", "super"}
Alive(p) == proc[p] \in {"loading", "ready", "stuck"}
Living == {p \in Procs : Alive(p)}
Serving == \E p \in Procs : proc[p] = "ready"
Gone == pc["main"] = "gone"

\* Where a thread is: starting and checking are shared, the rest is not.
Places ==
  {"boot", "register", "loop", "gone", "off", "select", "over",
   "spawn", "exec", "install", "await", "ok", "bad", "mark",
   "stop", "cancel", "kill", "grace", "unkill", "regrace"}

TypeOK ==
  /\ pc \in [Threads -> Places]
  /\ signalled \in BOOLEAN
  /\ managed \in BOOLEAN /\ cancelled \in BOOLEAN
  /\ cancelled => ~managed
  /\ cmd \in Procs \cup {NoProc}
  /\ fresh \in [Threads -> Procs \cup {NoProc}]
  /\ healthy \in BOOLEAN
  /\ fails \in 0..Threshold + 1
  /\ proc \in [Procs -> {"free", "loading", "ready", "stuck", "dead"}]
  /\ told \subseteq {p \in Procs : proc[p] # "free"}
  /\ orphans \subseteq Procs
  /\ crashes \in 0..MaxCrashes /\ agents \in 0..MaxAgents

Init ==
  /\ pc = [t \in Threads |-> IF t = "main" THEN "boot" ELSE "off"]
  /\ signalled = FALSE /\ managed = FALSE /\ cancelled = FALSE
  /\ cmd = NoProc /\ fresh = [t \in Threads |-> NoProc]
  /\ healthy = FALSE /\ fails = 0
  /\ proc = [p \in Procs |-> "free"] /\ told = {} /\ orphans = {}
  /\ crashes = 0 /\ agents = 0

\* A process of the agent begins, or has gone, with nothing in memory.
Goroutines(place) ==
  /\ pc' = [t \in Threads |-> IF t = "main" THEN place ELSE "off"]
  /\ signalled' = FALSE /\ managed' = FALSE /\ cancelled' = FALSE
  /\ cmd' = NoProc /\ fresh' = [t \in Threads |-> NoProc]
  /\ healthy' = FALSE /\ fails' = 0

Goes(t, place) == pc' = [pc EXCEPT ![t] = place]
At(t, place) == pc[t] = place /\ ~Gone

-----------------------------------------------------------------------------
(* Starting a process: startProcess, of Start ("main") and restart.        *)

\* Start: the manager is switched on, with a process context of its own.
Boot ==
  /\ At("main", "boot")
  /\ managed' = TRUE
  /\ Goes("main", "spawn")
  /\ UNCHANGED <<signalled, cancelled, cmd, fresh, healthy, fails, world, bounds>>

\* Where a failed start leads: Start stops the manager, restart gives up.
AfterFailure(t) == IF t = "main" THEN "stop" ELSE "select"

\* The process context is read; Stop takes it away.
ReadContext(t) ==
  /\ At(t, "spawn")
  /\ Goes(t, IF managed THEN "exec" ELSE AfterFailure(t))
  /\ UNCHANGED <<signalled, mine, world, bounds>>

\* Any unused process id serves as well as another.
NewProc == CHOOSE p \in Procs : proc[p] = "free"

\* cmd.Start refuses a cancelled context, and may fail.
Exec(t) ==
  /\ At(t, "exec")
  /\ \/ /\ ~cancelled
        /\ \E p \in Procs : proc[p] = "free"
        /\ proc' = [proc EXCEPT ![NewProc] = "loading"]
        /\ fresh' = [fresh EXCEPT ![t] = NewProc]
        /\ Goes(t, "install")
        /\ UNCHANGED crashes
     \/ /\ cancelled \/ crashes < MaxCrashes
        /\ crashes' = IF cancelled THEN crashes ELSE crashes + 1
        /\ Goes(t, AfterFailure(t))
        /\ UNCHANGED <<proc, fresh>>
  /\ UNCHANGED <<signalled, managed, cancelled, cmd, healthy, fails, told,
                 orphans, agents>>

Install(t) ==
  /\ At(t, "install")
  /\ cmd' = fresh[t]
  /\ fresh' = [fresh EXCEPT ![t] = NoProc]
  /\ healthy' = FALSE
  /\ fails' = 0
  /\ Goes(t, "await")
  /\ UNCHANGED <<signalled, managed, cancelled, world, bounds>>

-----------------------------------------------------------------------------
(* Health.  A check is answered before its result is marked.               *)

\* waitUntilHealthy ("await") and the supervisor's tick ("select").
Check(t) ==
  /\ At(t, "await") \/ (t = "super" /\ At(t, "select"))
  /\ Goes(t, CASE Serving -> "ok"
               [] pc[t] = "await" -> "bad"
               [] OTHER -> "mark")
  /\ UNCHANGED <<signalled, mine, world, bounds>>

\* Start has succeeded: the agent goes on and the supervisor begins.
MarkHealthy(t) ==
  /\ At(t, "ok")
  /\ healthy' = TRUE
  /\ fails' = 0
  /\ pc' = [u \in Threads |-> IF u = "super" THEN "select"
                              ELSE IF t = "main" THEN "register" ELSE pc[u]]
  /\ UNCHANGED <<signalled, managed, cancelled, cmd, fresh, world, bounds>>

Unhealthy ==
  /\ healthy' = FALSE
  /\ fails' = IF fails > Threshold THEN fails ELSE fails + 1

\* Until the deadline the check is repeated.
MarkUnhealthy(t) ==
  /\ At(t, "bad")
  /\ Unhealthy
  /\ \E next \in {"await", AfterFailure(t)} : Goes(t, next)
  /\ UNCHANGED <<signalled, managed, cancelled, cmd, fresh, world, bounds>>

\* Mutation: a restart only when the count comes to the threshold.
NeedRestart_Exactly(n) == managed /\ n = Threshold

NeedRestart(n) == managed /\ n >= Threshold

\* Mutation: a restart does not stop the process it replaces.
Supervise_NoStop ==
  /\ At("super", "mark")
  /\ Unhealthy
  /\ Goes("super", IF NeedRestart(fails') THEN "spawn" ELSE "select")
  /\ UNCHANGED <<signalled, managed, cancelled, cmd, fresh, world, bounds>>

Supervise ==
  /\ At("super", "mark")
  /\ Unhealthy
  /\ Goes("super", IF NeedRestart(fails') THEN "kill" ELSE "select")
  /\ UNCHANGED <<signalled, managed, cancelled, cmd, fresh, world, bounds>>

-----------------------------------------------------------------------------
(* Stopping: stopProcess, of restart ("kill") and of Stop ("unkill").      *)

\* After the grace period a restart starts a process, a Stop is over: the
\* agent goes on without the service if Start has failed.
AfterGrace(t) ==
  CASE pc[t] \in {"kill", "grace"} -> "spawn"
    [] t = "main" /\ pc["super"] = "off" -> "register"
    [] OTHER -> "over"

\* Mutation: a Stop leaves the process to its context.
Kill_ContextOnly(t) ==
  /\ At(t, "kill") \/ At(t, "unkill")
  /\ IF cmd = NoProc \/ pc[t] = "unkill"
     THEN Goes(t, AfterGrace(t)) /\ UNCHANGED told
     ELSE told' = told \cup ({cmd} \cap Living) /\ Goes(t, "grace")
  /\ UNCHANGED <<signalled, mine, proc, orphans, bounds>>

Kill(t) ==
  /\ At(t, "kill") \/ At(t, "unkill")
  /\ IF cmd = NoProc
     THEN Goes(t, AfterGrace(t)) /\ UNCHANGED told
     ELSE /\ told' = told \cup ({cmd} \cap Living)
          /\ Goes(t, IF pc[t] = "kill" THEN "grace" ELSE "regrace")
  /\ UNCHANGED <<signalled, mine, proc, orphans, bounds>>

\* After two seconds the killers of a cancelled context have run, and what
\* was told to stop is killed.
GraceEnds(t) ==
  /\ At(t, "grace") \/ At(t, "regrace")
  /\ cancelled => Living \subseteq told \cup orphans
  /\ proc' = [p \in Procs |->
               IF p \in (told \ orphans) \cap Living THEN "dead" ELSE proc[p]]
  /\ Goes(t, AfterGrace(t))
  /\ UNCHANGED <<signalled, mine, told, orphans, bounds>>

\* Stop: whoever finds the manager switched off returns at once.
StopBegins(t) ==
  /\ \/ At(t, "stop")
     \/ signalled /\ (At(t, "loop") \/ (t = "super" /\ At(t, "select")))
  /\ managed' = FALSE
  /\ Goes(t, IF managed THEN "cancel" ELSE "over")
  /\ UNCHANGED <<signalled, cancelled, cmd, fresh, healthy, fails, world, bounds>>

Cancel(t) ==
  /\ At(t, "cancel")
  /\ cancelled' = TRUE
  /\ Goes(t, "unkill")
  /\ UNCHANGED <<signalled, managed, cmd, fresh, healthy, fails, world, bounds>>

-----------------------------------------------------------------------------
(* The agent around the manager.                                           *)

\* The controller accepts the registration and the capability report, after
\* any number of attempts.
Register ==
  /\ At("main", "register")
  /\ Goes("main", "loop")
  /\ UNCHANGED <<signalled, mine, world, bounds>>

\* The goroutines end with the agent; its processes go on.
Leaves ==
  /\ orphans' = Living
  /\ Goroutines("gone")
  /\ UNCHANGED <<proc, told, agents>>

\* The agent returns from main.
Exit ==
  /\ At("main", "over")
  /\ Leaves
  /\ UNCHANGED crashes

\* A signal ends the attempts, and the agent with os.Exit.
RegisterEnds ==
  /\ At("main", "register") /\ signalled
  /\ Leaves
  /\ UNCHANGED crashes

Signal ==
  /\ ~Gone /\ ~signalled
  /\ signalled' = TRUE
  /\ UNCHANGED <<pc, mine, world, bounds>>

AgentKilled ==
  /\ ~Gone /\ crashes < MaxCrashes
  /\ crashes' = crashes + 1
  /\ Leaves

AgentStarts ==
  /\ Gone /\ agents < MaxAgents
  /\ agents' = agents + 1
  /\ Goroutines("boot")
  /\ UNCHANGED <<world, crashes>>

-----------------------------------------------------------------------------
(* Processes and the goroutines that watch them.                           *)

Becomes(p, s) ==
  /\ proc' = [proc EXCEPT ![p] = s]
  /\ UNCHANGED <<pc, signalled, mine, agents>>

\* A process that finds its port taken exits.
Load(p) ==
  /\ proc[p] = "loading" /\ p \notin told
  /\ IF \E q \in Procs \ {p} : proc[q] \in {"ready", "stuck"}
     THEN Becomes(p, "dead") ELSE Becomes(p, "ready")
  /\ UNCHANGED <<told, orphans, crashes>>

Fault(p) ==
  /\ Alive(p) /\ crashes < MaxCrashes
  /\ crashes' = crashes + 1
  /\ \E s \in {"stuck", "dead"} : Becomes(p, s)
  /\ UNCHANGED <<told, orphans>>

Dies(p) ==
  /\ p \in told /\ Alive(p)
  /\ Becomes(p, "dead")
  /\ UNCHANGED <<told, orphans, crashes>>

\* exec.CommandContext kills the process of a cancelled context.
ContextKills(p) ==
  /\ cancelled /\ ~Gone
  /\ Alive(p) /\ p \notin told \cup orphans
  /\ told' = told \cup {p}
  /\ UNCHANGED <<pc, signalled, mine, proc, orphans, bounds>>

\* watchProcess: the end of the current process calls for a restart, the end
\* of an earlier one does not.  Orphans are reaped by the system.
Watch(p) ==
  /\ proc[p] = "dead"
  /\ \A t \in Threads : fresh[t] # p
  /\ proc' = [proc EXCEPT ![p] = "free"]
  /\ told' = told \ {p}
  /\ orphans' = orphans \ {p}
  /\ IF cmd = p /\ ~Gone
     THEN /\ cmd' = NoProc
          /\ healthy' = FALSE
          /\ fails' = IF managed /\ ~cancelled THEN Threshold ELSE fails
     ELSE UNCHANGED <<cmd, healthy, fails>>
  /\ UNCHANGED <<pc, signalled, managed, cancelled, fresh, bounds>>

ThreadStep(t) ==
  \/ ReadContext(t) \/ Exec(t) \/ Install(t)
  \/ Check(t) \/ MarkHealthy(t) \/ MarkUnhealthy(t)
  \/ Kill(t) \/ GraceEnds(t) \/ StopBegins(t) \/ Cancel(t)
MainStep == Boot \/ Register \/ RegisterEnds \/ Exit \/ ThreadStep("main")
SuperStep == Supervise \/ ThreadStep("super")
ProcStep(p) == Dies(p) \/ ContextKills(p) \/ Watch(p)

Next ==
  \/ MainStep \/ SuperStep
  \/ Signal \/ AgentKilled \/ AgentStarts
  \/ \E p \in Procs : ProcStep(p) \/ Load(p) \/ Fault(p)

Spec == Init /\ [][Next]_vars
-----------------------------------------------------------------------------
(* Properties.                                                             *)

(***************************************************************************)
(* A manager has at most one process that it has not told to stop, however *)
(* restarts, a Stop, and the ends of earlier processes interleave: the     *)
(* watcher of an old process must not make it forget the current one.      *)
(***************************************************************************)
OneProcess ==
  Cardinality(Living \ (told \cup orphans)) <= 1

NoneLeft == Living' \subseteq told' \cup orphans'

\* The supervisor is inside its own Stop, or has just started a process.
SuperBusy == pc["super"] \in {"cancel", "unkill", "install"}

(***************************************************************************)
(* When the agent's loop is over every process of its own has been told to *)
(* stop, unless the supervisor was at that moment stopping the service too *)
(* or had a process it had not recorded yet.                               *)
(***************************************************************************)
CleanStop ==
  [][pc["main"] # "over" /\ pc'["main"] = "over" /\ ~SuperBusy => NoneLeft]_vars

\* Goroutines are scheduled, what is told to stop ends, waiting for a start
\* has a deadline, and starts do not miss it for ever.
Fairness ==
  /\ WF_vars(MainStep) /\ WF_vars(SuperStep)
  /\ \A p \in Procs : WF_vars(ProcStep(p))
  /\ SF_vars(MarkUnhealthy("super") /\ pc'["super"] # "await")
  /\ SF_vars(At("super", "await") /\ \E p \in Procs : Load(p))

Supervised == pc["super"] \notin {"off", "over"}

(***************************************************************************)
(* While the supervisor is at work the service comes back after every      *)
(* crash, hang and failed start, and is then known to be healthy; only a   *)
(* process an earlier agent has left behind can keep the port from it.     *)
(***************************************************************************)
ServiceReturns ==
  Supervised ~> \/ healthy /\ Serving
                \/ ~Supervised
                \/ \E p \in orphans : Alive(p)
=============================================================================
