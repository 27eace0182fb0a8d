------------------------ MODULE ModelLifecycleProofs ------------------------
(***************************************************************************)
(* Theorems of ModelLifecycle: its types, the node lock, and that actions  *)
(* alone never let two models of one exclusion group run together.  They   *)
(* hold for any number of models, groups, nodes and clients, and whatever  *)
(* the loops and the surroundings do.                                      *)
(***************************************************************************)
EXTENDS ModelLifecycle, TLAPS

ActionPlaces == {"lock", "wish", "check", "prestop", "stopped", "call", "mark", "done"}

\* A thread under way has a model, and only actions are at the places of one.
PlacesOK ==
  \A t \in Threads :
    /\ pc[t] = "idle" <=> op[t] = "none"
    /\ pc[t] # "idle" => item[t] \in Models
    /\ pc[t] \in ActionPlaces => op[t] \in Actions
    /\ pc[t] \in {"prestop", "stopped"} => op[t] = "unload"
    /\ pc[t] = "mark" /\ op[t] = "start" => seen[t] = "running"

\* The nodes of actions that hold their lock are busy, each for one of them.
LockOK ==
  /\ \A t \in Threads : Holds(t) => NodeOf[item[t]] \in busy
  /\ OneActionPerNode

\* Thread t starts a model of group g and is past its check.
Starts(t, g) ==
  /\ op[t] = "start" /\ pc[t] \in {"call", "mark"}
  /\ GroupOf[item[t]] = g

\* In group g: the scheduler knows whatever runs, or is about to be told; a
\* start past its check is the only one, and nothing else runs.
Exclusive(g) ==
  /\ \A m \in Models :
       GroupOf[m] = g /\ container[m] = "running" =>
         \/ running[g] = m
         \/ \E t \in Threads : op[t] = "start" /\ pc[t] = "mark" /\ item[t] = m
  /\ \A t \in Threads : Starts(t, g) =>
       /\ \A n \in Models :
            GroupOf[n] = g /\ n # item[t] => container[n] # "running"
       /\ \A u \in Threads : Starts(u, g) => u = t

IInv ==
  /\ TypeOK
  /\ PlacesOK
  /\ LockOK
  /\ \A g \in Groups \ blamed : Exclusive(g)

-----------------------------------------------------------------------------
(* Lemmas about what steps have in common.                                 *)

\* A step that leaves the scheduler and the marks of starts alone, and brings
\* neither a start to the adapter nor a container up, disturbs no group.
LEMMA GroupsUndisturbed ==
  ASSUME \A g \in Groups \ blamed : Exclusive(g),
         running' = running, blamed \subseteq blamed',
         \A n \in Models :
           container'[n] = "running" /\ GroupOf[n] \in Groups \ blamed' =>
             container[n] = "running",
         \A u \in Threads :
           \/ op[u] = "start" /\ pc[u] = "mark"
           \/ op'[u] = "start" /\ pc'[u] \in {"call", "mark"}
           => op'[u] = op[u] /\ pc'[u] = pc[u] /\ item'[u] = item[u]
  PROVE  \A g \in Groups \ blamed' : Exclusive(g)'
<1> SUFFICES ASSUME NEW g \in Groups \ blamed' PROVE Exclusive(g)'
  OBVIOUS
<1>1. Exclusive(g)
  OBVIOUS
<1>2. \A u \in Threads : Starts(u, g)' => Starts(u, g) /\ item'[u] = item[u]
  BY DEF Starts
<1>3. \A n \in Models :
        GroupOf[n] = g /\ container'[n] = "running" => container[n] = "running"
  OBVIOUS
<1>4. ASSUME NEW m \in Models, GroupOf[m] = g, container'[m] = "running"
      PROVE  \/ running'[g] = m
             \/ \E t \in Threads : op'[t] = "start" /\ pc'[t] = "mark" /\ item'[t] = m
  <2>1. CASE running[g] = m
    BY <2>1
  <2>2. CASE \E t \in Threads : op[t] = "start" /\ pc[t] = "mark" /\ item[t] = m
    BY <2>2
  <2>3. QED
    BY <1>1, <1>3, <1>4, <2>1, <2>2 DEF Exclusive
<1>5. ASSUME NEW t \in Threads, Starts(t, g)'
      PROVE  /\ \A n \in Models :
                  GroupOf[n] = g /\ n # item'[t] => container'[n] # "running"
             /\ \A u \in Threads : Starts(u, g)' => u = t
  BY <1>1, <1>2, <1>3, <1>5 DEF Exclusive
<1>6. QED
  BY <1>4, <1>5 DEF Exclusive

\* The threads' part of TypeOK.
ThreadsTyped ==
  /\ busy \subseteq {NodeOf[m] : m \in Models}
  /\ pc \in [Threads -> PCs]
  /\ op \in [Threads -> Operations \cup {"none"}]
  /\ item \in [Threads -> Models \cup {NoModel}]
  /\ copy \in [Threads -> States]
  /\ seen \in [Threads -> States]

\* An operation ends; only the node of an action is given away.
LEMMA EndsKeeps ==
  ASSUME ThreadsTyped, PlacesOK, LockOK, NEW t \in Threads, Ends(t)
  PROVE  /\ ThreadsTyped' /\ PlacesOK' /\ LockOK'
         /\ \A u \in Threads \ {t} :
              op'[u] = op[u] /\ pc'[u] = pc[u] /\ item'[u] = item[u]
         /\ pc'[t] = "idle"
<1>1. ThreadsTyped'
  BY DEF ThreadsTyped, Ends, GoTo, PCs, States
<1>2. /\ \A u \in Threads \ {t} :
           /\ op'[u] = op[u] /\ pc'[u] = pc[u]
           /\ item'[u] = item[u] /\ seen'[u] = seen[u]
      /\ op'[t] = "none" /\ pc'[t] = "idle"
  BY DEF Ends, GoTo, ThreadsTyped
<1>3. PlacesOK'
  BY <1>2 DEF PlacesOK, ActionPlaces
<1>4. "none" \notin Actions
  BY DEF Actions
<1>5. OneActionPerNode'
  BY <1>2, <1>4 DEF LockOK, OneActionPerNode, Holds
<1>6. ASSUME NEW u \in Threads, Holds(u)'
      PROVE  NodeOf[item'[u]] \in busy'
  <2>1. u # t /\ Holds(u) /\ NodeOf[item[u]] \in busy
    BY <1>2, <1>4, <1>6 DEF LockOK, Holds
  <2>2. Holds(t) => NodeOf[item[u]] # NodeOf[item[t]]
    BY <2>1 DEF LockOK, OneActionPerNode
  <2>3. QED
    BY <1>2, <2>1, <2>2 DEF Ends
<1>7. QED
  BY <1>1, <1>2, <1>3, <1>5, <1>6 DEF LockOK

\* A step in the middle of an operation leaves the lock as it is.
LEMMA LockStays ==
  ASSUME LockOK, UNCHANGED <<op, item, busy>>,
         \A t \in Threads : pc[t] = "lock" => pc'[t] = "lock"
  PROVE  LockOK'
BY DEF LockOK, OneActionPerNode, Holds

\* Where thread t is, it has a model.
LEMMA HasModel ==
  ASSUME IInv, NEW t \in Threads, pc[t] # "idle"
  PROVE  item[t] \in Models
BY DEF IInv, PlacesOK

-----------------------------------------------------------------------------
(* The invariant holds at first, and every action keeps it.                *)

LEMMA InitOK == Init => IInv
<1> SUFFICES ASSUME Init PROVE IInv
  OBVIOUS
<1>1. TypeOK
  BY LifecycleInputs DEF Init, TypeOK, NobodyRuns, PCs, States, Containers, RunningGroups
<1>2. PlacesOK
  BY DEF Init, PlacesOK, ActionPlaces
<1>3. LockOK
  BY DEF Init, LockOK, OneActionPerNode, Holds, Actions
<1>4. ASSUME NEW g \in Groups \ blamed
      PROVE  Exclusive(g)
  BY DEF Init, Exclusive, Starts, RunningGroups
<1>5. QED
  BY <1>1, <1>2, <1>3, <1>4 DEF IInv

LEMMA BeginKeeps ==
  ASSUME IInv, NEW t \in Threads, NEW o \in Operations, NEW m \in Models,
         Begin(t, o, m)
  PROVE  IInv'
<1> USE DEF IInv
<1>1. /\ o \in Actions <=> FirstPlace(o) = "lock"
      /\ FirstPlace(o) \in {"lock", "query", "cache", "save", "row"}
      /\ o # "none"
  BY DEF Operations, Actions, FirstPlace
<1>2. TypeOK'
  BY <1>1 DEF TypeOK, Begin, GoTo, PCs, States
<1>3. /\ \A u \in Threads \ {t} :
           /\ op'[u] = op[u] /\ pc'[u] = pc[u]
           /\ item'[u] = item[u] /\ seen'[u] = seen[u]
      /\ op'[t] = o /\ pc'[t] = FirstPlace(o) /\ item'[t] = m
      /\ op[t] = "none" /\ pc[t] = "idle"
  BY DEF Begin, GoTo, TypeOK, PlacesOK
<1>4. PlacesOK'
  BY <1>1, <1>3 DEF PlacesOK, ActionPlaces
<1>5. LockOK'
  <2>1. busy' = busy /\ \A u \in Threads : Holds(u)' => Holds(u) /\ u # t
    BY <1>1, <1>3 DEF Begin, Holds
  <2>2. QED
    BY <1>3, <2>1 DEF LockOK, OneActionPerNode
<1>6. \A g \in Groups \ blamed' : Exclusive(g)'
  BY <1>1, <1>3, GroupsUndisturbed DEF Begin
<1>7. QED
  BY <1>2, <1>4, <1>5, <1>6

LEMMA ActionLocksKeeps ==
  ASSUME IInv, NEW t \in Threads, ActionLocks(t)
  PROVE  IInv'
<1> USE DEF IInv
<1>1. item[t] \in Models /\ pc[t] = "lock" /\ op[t] \in Actions /\ op[t] # "none"
  BY HasModel DEF ActionLocks, PlacesOK, ActionPlaces, Actions
<1>2. TypeOK'
  BY <1>1 DEF ActionLocks, TypeOK, GoTo, PCs
<1>3. /\ UNCHANGED <<op, item, seen, container, running, blamed>>
      /\ \A u \in Threads : pc'[u] = IF u = t THEN "wish" ELSE pc[u]
  BY DEF ActionLocks, GoTo, TypeOK
<1>4. PlacesOK'
  BY <1>1, <1>3 DEF PlacesOK, ActionPlaces
<1>5. LockOK'
  <2>1. /\ NodeOf[item[t]] \notin busy
        /\ busy' = busy \cup {NodeOf[item[t]]}
    BY DEF ActionLocks
  <2>2. \A u \in Threads : Holds(u)' <=> Holds(u) \/ u = t
    BY <1>1, <1>3 DEF Holds
  <2>3. QED
    BY <1>3, <2>1, <2>2 DEF LockOK, OneActionPerNode
<1>6. \A g \in Groups \ blamed' : Exclusive(g)'
  BY <1>1, <1>3, GroupsUndisturbed
<1>7. QED
  BY <1>2, <1>4, <1>5, <1>6

\* Steps that touch neither containers nor the scheduler.
LEMMA QuietSteps ==
  ASSUME IInv, NEW t \in Threads,
         \/ ActionFindsBusy(t) \/ ActionRefuse(t)
         \/ QueryAnswered(t) \/ QueryOverlooks(t) \/ QueryFails(t) \/ Store(t)
         \/ Cache(t) \/ Save(t) \/ RowWrite(t) \/ ReportReconciles(t)
  PROVE  IInv'
<1> USE DEF IInv
<1>1. item[t] \in Models /\ copy[t] \in States /\ seen[t] \in States
      /\ pc[t] \notin {"idle", "call", "mark"}
  BY HasModel DEF TypeOK, ActionFindsBusy, ActionRefuse, QueryAnswered,
     QueryOverlooks, QueryFails, Store, Cache, Save, RowWrite, ReportReconciles
<1>2. ThreadsTyped
  BY DEF TypeOK, ThreadsTyped
<1>3. CASE Ends(t) /\ UNCHANGED <<container, running, blamed, calls, outside>>
  <2>1. TypeOK'
    BY <1>1, <1>2, <1>3, EndsKeeps DEF TypeOK, ThreadsTyped, ActionFindsBusy,
       ActionRefuse, QueryAnswered, QueryOverlooks, QueryFails, Store, Cache,
       Save, RowWrite, ReportReconciles
  <2>2. PlacesOK' /\ LockOK'
    BY <1>2, <1>3, EndsKeeps
  <2>3. \A g \in Groups \ blamed' : Exclusive(g)'
    <3>1. /\ \A u \in Threads \ {t} :
               op'[u] = op[u] /\ pc'[u] = pc[u] /\ item'[u] = item[u]
          /\ pc'[t] = "idle"
      BY <1>2, <1>3, EndsKeeps
    <3>2. QED
      BY <3>1, <1>1, <1>3, GroupsUndisturbed
  <2>4. QED
    BY <2>1, <2>2, <2>3
<1>4. CASE Store(t) /\ pc[t] # "put"
  <2>1. TypeOK'
    BY <1>1, <1>4 DEF Store, TypeOK, GoTo, PCs
  <2>2. /\ UNCHANGED <<op, item, seen, busy>>
        /\ \A u \in Threads \ {t} : pc'[u] = pc[u]
        /\ op[t] \in Actions /\ op[t] # "none" /\ pc[t] # "lock"
    BY <1>4 DEF Store, GoTo, TypeOK, PlacesOK, ActionPlaces, Actions
  <2>3. pc'[t] \in {"check", "call", "query"}
    BY <1>4 DEF Store, GoTo, TypeOK
  <2>4. PlacesOK' /\ LockOK'
    BY <2>2, <2>3, LockStays DEF PlacesOK, ActionPlaces
  <2>5. pc'[t] = "call" => op[t] = "unload"
    BY <1>4 DEF Store, GoTo, TypeOK, PlacesOK
  <2>6. \A g \in Groups \ blamed' : Exclusive(g)'
    BY <1>1, <1>4, <2>2, <2>3, <2>5, GroupsUndisturbed DEF Store
  <2>7. QED
    BY <2>1, <2>4, <2>6
<1>5. CASE QueryAnswered(t) \/ QueryOverlooks(t) \/ QueryFails(t)
  <2>1. TypeOK'
    BY <1>1, <1>5 DEF QueryAnswered, QueryOverlooks, Overlooks, QueryFails, TypeOK,
       GoTo, PCs, States, Containers
  <2>2. /\ UNCHANGED <<op, item, busy, container, running, blamed>>
        /\ \A u \in Threads \ {t} : pc'[u] = pc[u] /\ seen'[u] = seen[u]
        /\ pc'[t] \in {"status", "put"}
        /\ op[t] # "none" /\ pc[t] # "lock"
    BY <1>5 DEF QueryAnswered, QueryOverlooks, Overlooks, QueryFails, GoTo,
       TypeOK, PlacesOK
  <2>3. PlacesOK' /\ LockOK'
    BY <2>2, <1>1, LockStays DEF PlacesOK, ActionPlaces
  <2>4. \A g \in Groups \ blamed' : Exclusive(g)'
    BY <1>1, <2>2, GroupsUndisturbed
  <2>5. QED
    BY <2>1, <2>3, <2>4
<1>6. CASE RowWrite(t) \/ ReportReconciles(t)
  <2>1. TypeOK'
    BY <1>1, <1>6 DEF RowWrite, ReportReconciles, TypeOK, GoTo, PCs, Operations
  <2>2. /\ UNCHANGED <<item, busy, container, running, blamed>>
        /\ \A u \in Threads \ {t} :
             pc'[u] = pc[u] /\ seen'[u] = seen[u] /\ op'[u] = op[u]
        /\ pc'[t] \in {"reported", "project", "row"}
        /\ op[t] # "none" /\ op'[t] # "none"
        /\ op'[t] = op[t] \/ op'[t] = "project"
    BY <1>6 DEF RowWrite, ReportReconciles, GoTo, TypeOK, PlacesOK
  <2>3. PlacesOK'
    BY <2>2, <1>1 DEF PlacesOK, ActionPlaces
  <2>4. LockOK'
    BY <2>2, <1>1, <1>6 DEF LockOK, OneActionPerNode, Holds, Actions, RowWrite, ReportReconciles
  <2>5. \A g \in Groups \ blamed' : Exclusive(g)'
    BY <1>1, <2>2, GroupsUndisturbed
  <2>6. QED
    BY <2>1, <2>3, <2>4, <2>5
<1>7. QED
  BY <1>3, <1>4, <1>5, <1>6 DEF ActionFindsBusy, ActionRefuse, Store, Cache, Save

LEMMA ActionAdmitKeeps ==
  ASSUME IInv, NEW t \in Threads, ActionAdmit(t)
  PROVE  IInv'
<1> USE DEF IInv
<1> DEFINE m == item[t]
<1>1. m \in Models /\ pc[t] = "check" /\ op[t] \in Actions /\ op[t] # "none"
  BY HasModel DEF ActionAdmit, PlacesOK, ActionPlaces, Actions
<1>2. /\ UNCHANGED <<op, item, busy, container, running, seen>>
      /\ \A u \in Threads \ {t} : pc'[u] = pc[u]
      /\ pc'[t] \in {"prestop", "call"}
      /\ pc'[t] = "prestop" => op[t] = "unload"
      /\ blamed \subseteq blamed'
  BY DEF ActionAdmit, GoTo, TypeOK
<1>3. TypeOK'
  BY <1>1, EveryModelHasPolicy DEF ActionAdmit, TypeOK, GoTo, PCs, Rushes, Grouped
<1>4. PlacesOK' /\ LockOK'
  BY <1>1, <1>2, LockStays DEF PlacesOK, ActionPlaces
<1>5. ASSUME NEW g \in Groups \ blamed'
      PROVE  Exclusive(g)'
  <2>1. g \in Groups \ blamed /\ Exclusive(g)
    BY <1>2
  <2>2. \A n \in Models :
          GroupOf[n] = g /\ container'[n] = "running" =>
            \/ running'[g] = n
            \/ \E u \in Threads : op'[u] = "start" /\ pc'[u] = "mark" /\ item'[u] = n
    BY <1>1, <1>2, <2>1 DEF Exclusive
  <2>3. CASE op[t] = "start" /\ GroupOf[m] = g
    <3>1. /\ g # NoGroup
          /\ running[g] \in {NoModel, m}
          /\ ~ Rushes(m)
      BY <1>1, <2>1, <2>3, GroupsAreDistinct DEF ActionAdmit, CanRun, Grouped
    <3>2. \A u \in Threads : ~ Starts(u, g)
      <4> SUFFICES ASSUME NEW u \in Threads, Starts(u, g) PROVE FALSE
        OBVIOUS
      <4>1. u # t
        BY <1>1 DEF Starts
      <4>2. NodeOf[item[u]] # NodeOf[m]
        BY <1>1, <4>1 DEF LockOK, OneActionPerNode, Holds, Starts, Actions
      <4>3. QED
        BY <2>3, <3>1, <4>2 DEF Rushes, Starts, Grouped
    <3>3. \A n \in Models : GroupOf[n] = g /\ n # m => container[n] # "running"
      BY <2>1, <2>3, <3>1, <3>2, GroupsAreDistinct DEF Exclusive, Starts
    <3>4. \A u \in Threads : Starts(u, g)' => u = t
      BY <1>2, <3>2 DEF Starts
    <3>5. QED
      BY <1>2, <2>2, <3>3, <3>4 DEF Exclusive
  <2>4. CASE ~ (op[t] = "start" /\ GroupOf[m] = g)
    <3>1. \A u \in Threads : Starts(u, g)' <=> Starts(u, g)
      BY <1>1, <1>2, <2>4 DEF Starts
    <3>2. QED
      BY <1>2, <2>1, <2>2, <3>1 DEF Exclusive
  <2>5. QED
    BY <2>3, <2>4
<1>6. QED
  BY <1>3, <1>4, <1>5

\* What an action does at the adapter, whether it succeeds or not.
LEMMA AdapterOutcomes ==
  ASSUME NEW o \in Actions, NEW c \in Containers
  PROVE  /\ Achieved(o, c) \in Containers
         /\ Achieved(o, c) = "running" <=> o = "start"
         /\ Outcomes(o, c) \subseteq Containers
         /\ o = "stop" => \A d \in Outcomes(o, c) : d = "running" => c = "running"
BY DEF Actions, Containers, Achieved, Outcomes

LEMMA ActionPrestopKeeps ==
  ASSUME IInv, NEW t \in Threads, ActionPrestop(t)
  PROVE  IInv'
<1> USE DEF IInv
<1> DEFINE m == item[t]
<1>1. /\ m \in Models /\ pc[t] = "prestop" /\ op[t] = "unload"
      /\ container[m] \in Containers
      /\ "stop" \in Actions /\ "unload" \in Actions
  BY HasModel DEF ActionPrestop, PlacesOK, TypeOK, Actions
<1>2. PICK c \in Containers :
        /\ container' = [container EXCEPT ![m] = c]
        /\ c = "running" => container[m] = "running"
  BY <1>1, AdapterOutcomes DEF ActionPrestop, Becomes
<1>3. /\ UNCHANGED <<memory, stored, observed, running, blamed, calls, outside>>
      /\ container' \in [Models -> Containers]
      /\ \A n \in Models : container'[n] = "running" => container[n] = "running"
  BY <1>1, <1>2 DEF ActionPrestop, TypeOK
<1>4. CASE Ends(t)
  <2>1. ThreadsTyped
    BY DEF TypeOK, ThreadsTyped
  <2>2. /\ ThreadsTyped' /\ PlacesOK' /\ LockOK'
        /\ \A u \in Threads \ {t} :
             op'[u] = op[u] /\ pc'[u] = pc[u] /\ item'[u] = item[u]
        /\ pc'[t] = "idle"
    BY <1>4, <2>1, EndsKeeps
  <2>3. TypeOK'
    BY <1>3, <2>2 DEF TypeOK, ThreadsTyped
  <2>4. \A g \in Groups \ blamed' : Exclusive(g)'
    BY <1>1, <1>3, <2>2, GroupsUndisturbed
  <2>5. QED
    BY <2>2, <2>3, <2>4
<1>5. CASE /\ copy' = [copy EXCEPT ![t] = "loaded"]
           /\ GoTo(t, "stopped")
           /\ UNCHANGED <<busy, op, item, seen>>
  <2>1. TypeOK'
    BY <1>3, <1>5 DEF TypeOK, GoTo, PCs, States, Containers
  <2>2. \A u \in Threads : pc'[u] = IF u = t THEN "stopped" ELSE pc[u]
    BY <1>5 DEF GoTo, TypeOK
  <2>3. PlacesOK' /\ LockOK'
    BY <1>1, <1>5, <2>2, LockStays DEF PlacesOK, ActionPlaces
  <2>4. \A g \in Groups \ blamed' : Exclusive(g)'
    BY <1>1, <1>3, <1>5, <2>2, GroupsUndisturbed
  <2>5. QED
    BY <2>1, <2>3, <2>4
<1>6. QED
  BY <1>4, <1>5 DEF ActionPrestop

LEMMA ActionCallKeeps ==
  ASSUME IInv, NEW t \in Threads, ActionCall(t)
  PROVE  IInv'
<1> USE DEF IInv
<1> DEFINE m == item[t]
           c == Achieved(op[t], container[m])
<1>1. /\ m \in Models /\ pc[t] = "call"
      /\ op[t] \in Actions /\ op[t] # "none" /\ container[m] \in Containers
  BY HasModel DEF ActionCall, PlacesOK, ActionPlaces, TypeOK, Actions
<1>2. c \in Containers /\ (c = "running" <=> op[t] = "start")
  BY <1>1, AdapterOutcomes
<1>3. /\ UNCHANGED <<op, item, busy, running, blamed, memory, stored, observed, copy>>
      /\ container' = [container EXCEPT ![m] = c]
      /\ \A u \in Threads : seen'[u] = IF u = t THEN c ELSE seen[u]
      /\ \A u \in Threads : pc'[u] = IF u = t THEN "mark" ELSE pc[u]
  BY DEF ActionCall, GoTo, Becomes, TypeOK
<1>4. TypeOK'
  BY <1>1, <1>2 DEF ActionCall, TypeOK, GoTo, Becomes, PCs, States
<1>5. PlacesOK' /\ LockOK'
  BY <1>1, <1>2, <1>3, LockStays DEF PlacesOK, ActionPlaces
<1>6. \A n \in Models : container'[n] = IF n = m THEN c ELSE container[n]
  BY <1>3 DEF TypeOK
<1>7. ASSUME NEW g \in Groups \ blamed'
      PROVE  Exclusive(g)'
  <2>1. g \in Groups \ blamed /\ Exclusive(g)
    BY <1>3
  <2>2. \A u \in Threads : Starts(u, g)' <=> Starts(u, g)
    BY <1>1, <1>3 DEF Starts
  <2>3. \A n \in Models :
          GroupOf[n] = g /\ container'[n] = "running" =>
            \/ running'[g] = n
            \/ \E u \in Threads : op'[u] = "start" /\ pc'[u] = "mark" /\ item'[u] = n
    <3> SUFFICES ASSUME NEW n \in Models, GroupOf[n] = g, container'[n] = "running"
                 PROVE  \/ running'[g] = n
                        \/ \E u \in Threads :
                             op'[u] = "start" /\ pc'[u] = "mark" /\ item'[u] = n
      OBVIOUS
    <3>1. CASE n = m
      BY <1>2, <1>3, <1>6, <3>1
    <3>2. CASE n # m /\ running[g] = n
      BY <1>3, <3>2
    <3>3. CASE \E u \in Threads : op[u] = "start" /\ pc[u] = "mark" /\ item[u] = n
      BY <1>1, <1>3, <3>3
    <3>4. QED
      BY <1>6, <2>1, <3>1, <3>2, <3>3 DEF Exclusive
  <2>4. ASSUME NEW u \in Threads, Starts(u, g)'
        PROVE  /\ \A n \in Models :
                    GroupOf[n] = g /\ n # item'[u] => container'[n] # "running"
               /\ \A v \in Threads : Starts(v, g)' => v = u
    <3>1. Starts(u, g) /\ \A v \in Threads : Starts(v, g) => v = u
      BY <2>1, <2>2, <2>4 DEF Exclusive
    <3>2. ASSUME NEW n \in Models, GroupOf[n] = g, n # item'[u]
          PROVE  container'[n] # "running"
      <4>1. container[n] # "running"
        BY <1>3, <2>1, <3>1, <3>2 DEF Exclusive
      <4>2. CASE n = m
        <5>1. op[t] # "start"
          BY <1>1, <1>3, <3>1, <3>2, <4>2 DEF Starts
        <5>2. QED
          BY <1>2, <1>6, <4>2, <5>1
      <4>3. QED
        BY <1>6, <4>1, <4>2
    <3>3. QED
      BY <2>2, <3>1, <3>2
  <2>5. QED
    BY <2>3, <2>4 DEF Exclusive
<1>8. QED
  BY <1>4, <1>5, <1>7

LEMMA ActionCallFailsKeeps ==
  ASSUME IInv, NEW t \in Threads, ActionCallFails(t)
  PROVE  IInv'
<1> USE DEF IInv
<1> DEFINE m == item[t]
<1>1. /\ m \in Models /\ pc[t] = "call"
      /\ op[t] \in Actions /\ op[t] # "none" /\ container[m] \in Containers
  BY HasModel DEF ActionCallFails, PlacesOK, ActionPlaces, TypeOK, Actions
<1>2. PICK c \in Containers :
        /\ container' = [container EXCEPT ![m] = c]
        /\ blamed' = IF c = "running" /\ container[m] # c
                     THEN blamed \cup ({GroupOf[m]} \ {NoGroup}) ELSE blamed
  BY <1>1, AdapterOutcomes DEF ActionCallFails, Becomes
<1>3. /\ UNCHANGED <<op, item, busy, running, seen>>
      /\ \A u \in Threads : pc'[u] = IF u = t THEN "done" ELSE pc[u]
  BY DEF ActionCallFails, GoTo, TypeOK
<1>4. TypeOK'
  BY <1>1, <1>2, EveryModelHasPolicy DEF ActionCallFails, TypeOK, GoTo, PCs
<1>5. PlacesOK' /\ LockOK'
  BY <1>1, <1>3, LockStays DEF PlacesOK, ActionPlaces
<1>6. \A n \in Models :
        container'[n] = "running" /\ GroupOf[n] \in Groups \ blamed' =>
          container[n] = "running"
  BY <1>1, <1>2, GroupsAreDistinct DEF TypeOK
<1>7. blamed \subseteq blamed'
  BY <1>2
<1>8. \A g \in Groups \ blamed' : Exclusive(g)'
  BY <1>1, <1>3, <1>6, <1>7, GroupsUndisturbed
<1>9. QED
  BY <1>4, <1>5, <1>8

LEMMA ActionOverlooksKeeps ==
  ASSUME IInv, NEW t \in Threads, ActionOverlooks(t)
  PROVE  IInv'
<1> USE DEF IInv
<1>1. /\ item[t] \in Models /\ op[t] \in {"unload", "stop"}
      /\ pc[t] \in {"call", "prestop"} /\ op[t] \in Actions
  BY HasModel DEF ActionOverlooks, Actions
<1>2. TypeOK'
  BY <1>1 DEF ActionOverlooks, Overlooks, TypeOK, GoTo, PCs, States, Containers
<1>3. /\ UNCHANGED <<op, item, busy, container, running, blamed>>
      /\ \A u \in Threads \ {t} : pc'[u] = pc[u] /\ seen'[u] = seen[u]
      /\ pc'[t] = IF pc[t] = "call" THEN "mark" ELSE "stopped"
  BY DEF ActionOverlooks, Overlooks, GoTo, TypeOK
<1>4. PlacesOK' /\ LockOK'
  BY <1>1, <1>3, LockStays DEF PlacesOK, ActionPlaces
<1>5. \A g \in Groups \ blamed' : Exclusive(g)'
  BY <1>1, <1>3, GroupsUndisturbed
<1>6. QED
  BY <1>2, <1>4, <1>5

\* The scheduler follows a thread; what it forgets is blamed.
LEMMA FollowsKeepsPlaces ==
  ASSUME TypeOK, NEW t \in Threads, item[t] \in Models, Follows(t),
         NEW g \in Groups \ blamed', NEW n \in Models,
         GroupOf[n] = g, container[n] = "running", running[g] = n
  PROVE  running'[g] = n
<1>1. blamed' = blamed \cup Forgotten(running')
  BY DEF Follows
<1>2. g \notin Forgotten(running')
  BY <1>1
<1>3. QED
  BY <1>2 DEF Forgotten

LEMMA FollowsTyped ==
  ASSUME TypeOK, NEW t \in Threads, item[t] \in Models, Follows(t)
  PROVE  /\ running' \in [Groups -> Models \cup {NoModel}]
         /\ blamed' \subseteq Groups /\ blamed \subseteq blamed'
         /\ seen[t] = "running" /\ GroupOf[item[t]] \in Groups =>
              running'[GroupOf[item[t]]] = item[t]
<1>1. running' \in [Groups -> Models \cup {NoModel}]
  BY DEF Follows, TypeOK, MarkRunning, MarkStopped
<1>2. blamed' \subseteq Groups /\ blamed \subseteq blamed'
  BY DEF Follows, TypeOK, Forgotten
<1>3. seen[t] = "running" => running' = MarkRunning(running, item[t])
  BY DEF Follows
<1>4. QED
  BY <1>1, <1>2, <1>3 DEF MarkRunning

LEMMA MarkKeeps ==
  ASSUME IInv, NEW t \in Threads, Mark(t)
  PROVE  IInv'
<1> USE DEF IInv
<1> DEFINE m == item[t]
<1>1. /\ m \in Models /\ pc[t] \in {"mark", "status"} /\ Follows(t)
      /\ op[t] # "none" /\ (pc[t] = "mark" => op[t] \in Actions)
  BY HasModel DEF Mark, PlacesOK, ActionPlaces
<1>2. /\ UNCHANGED <<op, item, busy, container, seen>>
      /\ \A u \in Threads \ {t} : pc'[u] = pc[u]
      /\ pc'[t] \in {"done", "put"}
      /\ pc'[t] = "done" => pc[t] = "mark"
  BY DEF Mark, GoTo, TypeOK
<1>3. TypeOK'
  BY <1>1, FollowsTyped DEF Mark, TypeOK, GoTo, PCs
<1>4. PlacesOK' /\ LockOK'
  BY <1>1, <1>2, LockStays DEF PlacesOK, ActionPlaces
<1>5. ASSUME NEW g \in Groups \ blamed'
      PROVE  Exclusive(g)'
  <2>1. g \in Groups \ blamed /\ Exclusive(g)
    BY <1>1, FollowsTyped
  <2>2. \A u \in Threads : Starts(u, g)' => Starts(u, g)
    BY <1>2 DEF Starts
  <2>3. ASSUME NEW n \in Models, GroupOf[n] = g, container[n] = "running"
        PROVE  \/ running'[g] = n
               \/ \E u \in Threads : op'[u] = "start" /\ pc'[u] = "mark" /\ item'[u] = n
    <3>1. CASE running[g] = n
      BY <1>1, <2>3, <3>1, FollowsKeepsPlaces
    <3>2. ASSUME NEW u \in Threads, op[u] = "start", pc[u] = "mark", item[u] = n
          PROVE  \/ running'[g] = n
                 \/ \E v \in Threads : op'[v] = "start" /\ pc'[v] = "mark" /\ item'[v] = n
      <4>1. CASE u = t
        <5>1. seen[t] = "running"
          BY <3>2, <4>1 DEF PlacesOK
        <5>2. QED
          BY <1>1, <2>3, <3>2, <4>1, <5>1, FollowsTyped
      <4>2. CASE u # t
        BY <1>2, <3>2, <4>2
      <4>3. QED
        BY <4>1, <4>2
    <3>3. QED
      BY <2>1, <2>3, <3>1, <3>2 DEF Exclusive
  <2>4. QED
    BY <1>2, <2>1, <2>2, <2>3 DEF Exclusive
<1>6. QED
  BY <1>3, <1>4, <1>5

LEMMA ProjectKeeps ==
  ASSUME IInv, NEW t \in Threads, Project(t)
  PROVE  IInv'
<1> USE DEF IInv
<1>1. item[t] \in Models /\ pc[t] = "project" /\ op[t] # "none" /\ Follows(t)
  BY HasModel DEF Project, PlacesOK
<1>2. /\ UNCHANGED <<op, item, busy, container, seen>>
      /\ \A u \in Threads : pc'[u] = IF u = t THEN "put" ELSE pc[u]
  BY DEF Project, GoTo, TypeOK
<1>3. TypeOK'
  BY <1>1, FollowsTyped DEF Project, TypeOK, GoTo, PCs
<1>4. PlacesOK' /\ LockOK'
  BY <1>1, <1>2, LockStays DEF PlacesOK, ActionPlaces
<1>5. ASSUME NEW g \in Groups \ blamed'
      PROVE  Exclusive(g)'
  <2>1. g \in Groups \ blamed /\ Exclusive(g)
    BY <1>1, FollowsTyped
  <2>2. \A u \in Threads : Starts(u, g)' => Starts(u, g)
    BY <1>2 DEF Starts
  <2>3. ASSUME NEW n \in Models, GroupOf[n] = g, container[n] = "running"
        PROVE  \/ running'[g] = n
               \/ \E u \in Threads : op'[u] = "start" /\ pc'[u] = "mark" /\ item'[u] = n
    <3>1. CASE running[g] = n
      BY <1>1, <2>3, <3>1, FollowsKeepsPlaces
    <3>2. CASE \E u \in Threads : op[u] = "start" /\ pc[u] = "mark" /\ item[u] = n
      BY <1>1, <1>2, <3>2
    <3>3. QED
      BY <2>1, <2>3, <3>1, <3>2 DEF Exclusive
  <2>4. QED
    BY <1>2, <2>1, <2>2, <2>3 DEF Exclusive
<1>6. QED
  BY <1>3, <1>4, <1>5

LEMMA OutsideKeeps ==
  ASSUME IInv, NEW m \in Models, NEW c \in Containers, Outside(m, c)
  PROVE  IInv'
<1> USE DEF IInv
<1>1. TypeOK'
  <2>1. GroupOf[m] \in Groups \cup {NoGroup}
    BY EveryModelHasPolicy
  <2>2. blamed' \subseteq Groups
    BY <2>1 DEF Outside, TypeOK
  <2>3. container' \in [Models -> Containers] /\ outside' \in Nat
    BY DEF Outside, Becomes, TypeOK
  <2>4. QED
    BY <2>2, <2>3 DEF Outside, TypeOK
<1>2. PlacesOK' /\ LockOK'
  BY LockStays DEF Outside, PlacesOK
<1>3. \A n \in Models :
        container'[n] = "running" /\ GroupOf[n] \in Groups \ blamed' =>
          container[n] = "running"
  BY GroupsAreDistinct DEF Outside, Becomes, TypeOK
<1>4. \A g \in Groups \ blamed' : Exclusive(g)'
  BY <1>3, GroupsUndisturbed DEF Outside
<1>5. QED
  BY <1>1, <1>2, <1>4

LEMMA ControllerRestartKeeps == IInv /\ ControllerRestart => IInv'
<1> SUFFICES ASSUME IInv, ControllerRestart PROVE IInv'
  OBVIOUS
<1> USE DEF IInv
<1>1. TypeOK'
  BY DEF ControllerRestart, TypeOK, NobodyRuns, RunningGroups, PCs, States
<1>2. PlacesOK'
  BY DEF ControllerRestart, PlacesOK, ActionPlaces
<1>3. LockOK'
  BY DEF ControllerRestart, LockOK, OneActionPerNode, Holds, Actions
<1>4. \A g \in Groups \ blamed' : Exclusive(g)'
  BY DEF ControllerRestart, Exclusive, Starts, RunningGroups
<1>5. QED
  BY <1>1, <1>2, <1>3, <1>4

LEMMA NextKeeps == IInv /\ [Next]_vars => IInv'
<1> SUFFICES ASSUME IInv, [Next]_vars PROVE IInv'
  OBVIOUS
<1>1. ASSUME NEW t \in Threads, Step(t)
      PROVE  IInv'
  BY <1>1, ActionLocksKeeps, QuietSteps, ActionAdmitKeeps, ActionPrestopKeeps, ActionCallKeeps,
     ActionCallFailsKeeps, ActionOverlooksKeeps, MarkKeeps, ProjectKeeps
     DEF Step, View, Scan
<1>2. CASE UNCHANGED vars
  BY <1>2 DEF vars, IInv, TypeOK, PlacesOK, LockOK, OneActionPerNode, Holds, Exclusive, Starts
<1>3. QED
  BY <1>1, <1>2, BeginKeeps, OutsideKeeps, ControllerRestartKeeps DEF Next

LEMMA Invariance == Spec => []IInv
BY InitOK, NextKeeps, PTL DEF Spec

-----------------------------------------------------------------------------
(* Theorems.                                                               *)

(***************************************************************************)
(* Types: no operation, loop or restart leaves a record, the scheduler or  *)
(* a lock with a value the program does not know.                          *)
(***************************************************************************)
THEOREM LifecycleTypes == Spec => []TypeOK
<1>1. IInv => TypeOK
  BY DEF IInv
<1>2. QED
  BY <1>1, Invariance, PTL

(***************************************************************************)
(* The node lock: never two actions on one node, whatever path each takes  *)
(* through executeAction and wherever it fails.                            *)
(***************************************************************************)
THEOREM OneActionAtATime == Spec => []OneActionPerNode
<1>1. IInv => OneActionPerNode
  BY DEF IInv, LockOK
<1>2. QED
  BY <1>1, Invariance, PTL

(***************************************************************************)
(* Exclusion: two models of one group run together only in a group that a  *)
(* start outside of the actions, a forgetful restart, a stale mark or a    *)
(* race between two nodes has disturbed.                                   *)
(***************************************************************************)
THEOREM GroupsExclude == Spec => []OverlapHasCause
<1>1. IInv => OverlapHasCause
  <2> SUFFICES ASSUME IInv, NEW m \in Models, NEW n \in Models,
                      m # n, Grouped(m), GroupOf[m] = GroupOf[n],
                      container[m] = "running", container[n] = "running",
                      GroupOf[m] \notin blamed
               PROVE  FALSE
    BY DEF OverlapHasCause
  <2>1. GroupOf[m] \in Groups \ blamed /\ Exclusive(GroupOf[m])
    BY EveryModelHasPolicy DEF Grouped, IInv
  <2>2. \A t \in Threads :
          op[t] = "start" /\ pc[t] = "mark" => item[t] \notin {m, n}
    BY <2>1 DEF Exclusive, Starts
  <2>3. QED
    BY <2>1, <2>2 DEF Exclusive
<1>2. QED
  BY <1>1, Invariance, PTL
=============================================================================
