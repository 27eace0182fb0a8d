------------------------- MODULE ManagedServeProofs -------------------------
(***************************************************************************)
(* Theorems about the service an agent manages, for any number of          *)
(* processes, crashes and agents.                                          *)
(***************************************************************************)
EXTENDS ManagedServe, FiniteSetTheorems, TLAPS

ConstantsOK ==
  /\ NoProc \notin Procs
  /\ Threshold \in Nat /\ MaxCrashes \in Nat /\ MaxAgents \in Nat

\* The processes of this agent that have not been told to stop.
Mine == Living \ (told \cup orphans)

\* The main goroutine is starting the service; the supervisor is not there yet.
Starting == {"spawn", "exec", "install", "await", "ok", "bad", "stop"}

MainPlaces ==
  Starting \cup {"boot", "register", "loop", "gone", "cancel", "unkill", "regrace", "over"}
SuperPlaces ==
  {"off", "select", "mark", "kill", "grace", "spawn", "exec", "install", "await", "ok",
   "bad", "cancel", "unkill", "regrace", "over"}

\* Where the two goroutines can be at the same time, and what they have done to
\* the manager on the way.
PlacesOK ==
  /\ pc["main"] \in MainPlaces /\ pc["super"] \in SuperPlaces
  /\ pc["main"] \in Starting \cup {"boot", "gone"} => pc["super"] = "off"
  /\ pc["main"] \in Starting => managed
  /\ pc["main"] = "boot" => ~cancelled
  /\ \A t \in Threads : /\ pc[t] = "cancel" => ~managed
                        /\ pc[t] \in {"unkill", "regrace"} => cancelled
  /\ pc["main"] \in {"register", "loop"} /\ ~managed =>
       pc["super"] \in {"off", "cancel", "unkill", "regrace", "over"}

\* A process that is not told to stop is the one installed, or one about to be;
\* before another is begun the one installed has been told.
ProcsOK ==
  /\ Mine \subseteq {cmd} \cup {fresh[t] : t \in Threads}
  /\ \A t \in Threads : /\ fresh[t] # NoProc => pc[t] = "install" /\ proc[fresh[t]] # "free"
                        /\ pc[t] \in {"grace", "spawn", "exec", "install"} => cmd \notin Mine
  /\ cmd # NoProc => proc[cmd] # "free"
  /\ pc["main"] \in {"boot", "gone"} => cmd = NoProc

\* After a Stop that is over nothing is left.
StopIsClean ==
  pc["main"] \in {"register", "loop"} /\ ~managed /\ pc["super"] \notin {"cancel", "unkill"}
    => Mine = {}

\* The inductive invariant.
SInv == TypeOK /\ PlacesOK /\ ProcsOK /\ StopIsClean

-----------------------------------------------------------------------------
(* Every step keeps the invariant.                                         *)

LEMMA InitOK == ConstantsOK /\ Init => SInv
<1> SUFFICES ASSUME ConstantsOK, Init PROVE SInv
  OBVIOUS
<1> USE DEF Threads
<1>1. TypeOK
  <2>1. pc \in [Threads -> Places]
    BY DEF Init, Places
  <2>2. fails \in 0..Threshold + 1 /\ crashes \in 0..MaxCrashes /\ agents \in 0..MaxAgents
    BY DEF Init, ConstantsOK
  <2>3. QED
    BY <2>1, <2>2 DEF Init, TypeOK
<1>2. PlacesOK
  BY DEF Init, PlacesOK, MainPlaces, SuperPlaces, Starting
<1>3. Mine = {}
  BY DEF Init, Mine, Living, Alive
<1>4. ProcsOK /\ StopIsClean
  BY <1>3 DEF Init, ProcsOK, StopIsClean
<1>5. QED
  BY <1>1, <1>2, <1>4 DEF SInv

\* Where a goroutine goes leaves its other facts alone.
LEMMA OnePlace ==
  ASSUME pc \in [Threads -> Places], NEW t \in Threads, NEW place \in Places,
         Goes(t, place)
  PROVE  /\ pc' \in [Threads -> Places] /\ pc'[t] = place
         /\ \A u \in Threads \ {t} : pc'[u] = pc[u]
BY DEF Goes

\* What is told, orphaned or dead is no longer mine.
LEMMA MineShrinks ==
  ASSUME Living' \subseteq Living, told \subseteq told', orphans \subseteq orphans'
  PROVE  Mine' \subseteq Mine
BY DEF Mine

LEMMA SameLiving ==
  ASSUME UNCHANGED proc
  PROVE  Living' = Living
BY DEF Living, Alive

LEMMA BootKeeps ==
  ASSUME ConstantsOK, SInv, Boot
  PROVE  SInv'
<1> USE DEF Threads
<1>1. /\ pc["main"] = "boot" /\ managed' = TRUE /\ Goes("main", "spawn")
      /\ UNCHANGED <<signalled, cancelled, cmd, fresh, healthy, fails, proc, told, orphans,
                     crashes, agents>>
  BY DEF Boot, At, world, bounds
<1>2. /\ pc' \in [Threads -> Places] /\ pc'["main"] = "spawn" /\ pc'["super"] = pc["super"]
  BY <1>1, OnePlace DEF SInv, TypeOK, Places
<1>3. TypeOK'
  BY <1>1, <1>2 DEF SInv, TypeOK, PlacesOK
<1>4. PlacesOK'
  BY <1>1, <1>2 DEF SInv, PlacesOK, MainPlaces, SuperPlaces, Starting
<1>5. Mine' = Mine
  BY <1>1, SameLiving DEF Mine
<1>6. ProcsOK' /\ StopIsClean'
  BY <1>1, <1>2, <1>5 DEF SInv, ConstantsOK, ProcsOK, StopIsClean, PlacesOK, Mine, Living
<1>7. QED
  BY <1>3, <1>4, <1>6 DEF SInv

\* A goroutine that only moves on: what it can reach from where it is.
MovesOn(t) ==
  /\ UNCHANGED <<signalled, mine, world, bounds>>
  /\ \/ ReadContext(t) \/ Check(t) \/ (t = "main" /\ Register)

LEMMA MovesOnKeeps ==
  ASSUME ConstantsOK, SInv, NEW t \in Threads, MovesOn(t)
  PROVE  SInv'
<1> USE DEF Threads
<1>1. UNCHANGED <<signalled, managed, cancelled, cmd, fresh, healthy, fails, proc, told, orphans,
                  crashes, agents>>
  BY DEF MovesOn, mine, world, bounds
<1>2. PICK place \in Places :
        /\ Goes(t, place)
        /\ \/ pc[t] = "spawn" /\ place = IF managed THEN "exec" ELSE AfterFailure(t)
           \/ pc[t] = "await" /\ place \in {"ok", "bad"}
           \/ pc[t] = "select" /\ t = "super" /\ place \in {"ok", "mark"}
           \/ pc[t] = "register" /\ t = "main" /\ place = "loop"
  BY DEF MovesOn, ReadContext, Check, Register, At, AfterFailure, Places
<1>3. /\ pc' \in [Threads -> Places] /\ pc'[t] = place
      /\ \A u \in Threads \ {t} : pc'[u] = pc[u]
  BY <1>2, OnePlace DEF SInv, TypeOK
<1>4. TypeOK'
  BY <1>1, <1>3 DEF SInv, TypeOK
<1>5. PlacesOK'
  <2>1. CASE t = "main"
    BY <1>1, <1>2, <1>3, <2>1
    DEF SInv, PlacesOK, MainPlaces, SuperPlaces, Starting, AfterFailure
  <2>2. CASE t = "super"
    BY <1>1, <1>2, <1>3, <2>2
    DEF SInv, PlacesOK, MainPlaces, SuperPlaces, Starting, AfterFailure
  <2>3. QED
    BY <2>1, <2>2
<1>6. Mine' = Mine
  BY <1>1, SameLiving DEF Mine
<1>7. ProcsOK' /\ StopIsClean'
  <2>1. CASE t = "main"
    BY <1>1, <1>2, <1>3, <1>6, <2>1 DEF SInv, PlacesOK, ProcsOK, StopIsClean, AfterFailure,
      MainPlaces
  <2>2. CASE t = "super"
    BY <1>1, <1>2, <1>3, <1>6, <2>2 DEF SInv, PlacesOK, ProcsOK, StopIsClean, AfterFailure,
      SuperPlaces
  <2>3. QED
    BY <2>1, <2>2
<1>8. QED
  BY <1>4, <1>5, <1>7 DEF SInv

\* An unused process id.
LEMMA NewProcIsFree ==
  ASSUME \E p \in Procs : proc[p] = "free"
  PROVE  NewProc \in Procs /\ proc[NewProc] = "free"
BY DEF NewProc

LEMMA ExecKeeps ==
  ASSUME ConstantsOK, SInv, NEW t \in Threads, Exec(t)
  PROVE  SInv'
<1> USE DEF Threads
<1>1. /\ pc[t] = "exec" /\ ~Gone
      /\ UNCHANGED <<signalled, managed, cancelled, cmd, healthy, fails, told, orphans, agents>>
  BY DEF Exec, At
<1>2. ASSUME ~cancelled, \E p \in Procs : proc[p] = "free",
             proc' = [proc EXCEPT ![NewProc] = "loading"],
             fresh' = [fresh EXCEPT ![t] = NewProc], Goes(t, "install"), UNCHANGED crashes
      PROVE  SInv'
  <2>1. NewProc \in Procs /\ proc[NewProc] = "free"
    BY <1>2, NewProcIsFree
  <2> DEFINE q == NewProc
  <2> HIDE DEF q
  <2>2. /\ q \in Procs /\ proc[q] = "free" /\ q # NoProc
        /\ proc' = [proc EXCEPT ![q] = "loading"] /\ fresh' = [fresh EXCEPT ![t] = q]
    BY <1>2, <2>1 DEF q, ConstantsOK
  <2>3. /\ pc' \in [Threads -> Places] /\ pc'[t] = "install"
        /\ \A u \in Threads \ {t} : pc'[u] = pc[u]
    BY <1>2, OnePlace DEF SInv, TypeOK, Places
  <2>4. TypeOK'
    BY <1>1, <1>2, <2>2, <2>3 DEF SInv, TypeOK
  <2>5. PlacesOK'
    BY <1>1, <2>3 DEF SInv, PlacesOK, MainPlaces, SuperPlaces, Starting
  <2>6. Mine' \subseteq Mine \cup {q} /\ \A u \in Threads : fresh[u] = NoProc
    <3>1. Living' \subseteq Living \cup {q}
      BY <2>2 DEF Living, Alive, SInv, TypeOK
    <3>2. \A u \in Threads : fresh[u] = NoProc
      BY <1>1 DEF SInv, ProcsOK, PlacesOK, Starting
    <3>3. QED
      BY <1>1, <3>1, <3>2 DEF Mine
  <2>7. cmd \notin Mine /\ cmd # q /\ Mine \subseteq {cmd} \cup {NoProc}
    BY <1>1, <2>2, <2>6 DEF SInv, ProcsOK
  <2>8. fresh'[t] = q /\ \A u \in Threads \ {t} : fresh'[u] = NoProc
    BY <2>2, <2>6 DEF SInv, TypeOK
  <2>9. /\ proc'[q] = "loading" /\ \A p \in Procs \ {q} : proc'[p] = proc[p]
    BY <2>2 DEF SInv, TypeOK
  <2>10. Mine' \subseteq {q}
    BY <2>6, <2>7 DEF Mine, Living, ConstantsOK
  <2>11. ProcsOK'
    BY <1>1, <2>2, <2>3, <2>7, <2>8, <2>9, <2>10 DEF SInv, ProcsOK, TypeOK
  <2>12. StopIsClean'
    BY <1>1, <2>3, <2>5 DEF SInv, PlacesOK, StopIsClean
  <2>13. QED
    BY <2>4, <2>5, <2>11, <2>12 DEF SInv
<1>3. ASSUME \/ cancelled /\ crashes' = crashes
             \/ ~cancelled /\ crashes < MaxCrashes /\ crashes' = crashes + 1,
             Goes(t, AfterFailure(t)), UNCHANGED <<proc, fresh>>
      PROVE  SInv'
  <2>1. /\ pc' \in [Threads -> Places] /\ pc'[t] = AfterFailure(t)
        /\ \A u \in Threads \ {t} : pc'[u] = pc[u]
    BY <1>3, OnePlace DEF SInv, TypeOK, Places, AfterFailure
  <2>2. crashes' \in 0..MaxCrashes
    BY <1>3 DEF SInv, TypeOK, ConstantsOK
  <2>3. TypeOK'
    BY <1>1, <1>3, <2>1, <2>2 DEF SInv, TypeOK
  <2>4. PlacesOK'
    BY <1>1, <2>1 DEF SInv, PlacesOK, MainPlaces, SuperPlaces, Starting, AfterFailure
  <2>5. Mine' = Mine
    BY <1>1, <1>3, SameLiving DEF Mine
  <2>6. ProcsOK' /\ StopIsClean'
    BY <1>1, <1>3, <2>1, <2>5 DEF SInv, PlacesOK, ProcsOK, StopIsClean, AfterFailure
  <2>7. QED
    BY <2>3, <2>4, <2>6 DEF SInv
<1>4. QED
  BY <1>2, <1>3 DEF Exec

LEMMA InstallKeeps ==
  ASSUME ConstantsOK, SInv, NEW t \in Threads, Install(t)
  PROVE  SInv'
<1> USE DEF Threads
<1>1. /\ pc[t] = "install" /\ ~Gone /\ cmd' = fresh[t] /\ fresh' = [fresh EXCEPT ![t] = NoProc]
      /\ healthy' = FALSE /\ fails' = 0 /\ Goes(t, "await")
      /\ UNCHANGED <<signalled, managed, cancelled, proc, told, orphans, crashes, agents>>
  BY DEF Install, At, world, bounds
<1>2. /\ pc' \in [Threads -> Places] /\ pc'[t] = "await"
      /\ \A u \in Threads \ {t} : pc'[u] = pc[u]
  BY <1>1, OnePlace DEF SInv, TypeOK, Places
<1>3. TypeOK'
  <2>1. cmd' \in Procs \cup {NoProc} /\ fresh' \in [Threads -> Procs \cup {NoProc}]
    BY <1>1 DEF SInv, TypeOK
  <2>2. fails' \in 0..Threshold + 1
    BY <1>1 DEF ConstantsOK
  <2>3. QED
    BY <1>1, <1>2, <2>1, <2>2 DEF SInv, TypeOK
<1>4. PlacesOK'
  BY <1>1, <1>2 DEF SInv, PlacesOK, MainPlaces, SuperPlaces, Starting
<1>5. Mine' = Mine
  BY <1>1, SameLiving DEF Mine
<1>6. \A u \in Threads \ {t} : fresh[u] = NoProc
  BY <1>1 DEF SInv, ProcsOK, PlacesOK, Starting
<1>7. \A u \in Threads : fresh'[u] = NoProc
  BY <1>1, <1>6 DEF SInv, TypeOK
<1>8. Mine' \subseteq {cmd'}
  BY <1>1, <1>5, <1>6 DEF SInv, ProcsOK, Mine, Living, ConstantsOK
<1>9. \A u \in Threads \ {t} : pc[u] \notin {"grace", "spawn", "exec", "install"}
  BY <1>1 DEF SInv, PlacesOK, MainPlaces, Starting
<1>10. ProcsOK'
  <2>1. cmd' # NoProc => proc'[cmd'] # "free"
    BY <1>1 DEF SInv, ProcsOK
  <2>2. pc'["main"] \notin {"boot", "gone"}
    BY <1>1, <1>2 DEF SInv, PlacesOK
  <2>3. \A u \in Threads : pc'[u] \notin {"grace", "spawn", "exec", "install"}
    BY <1>2, <1>9
  <2>4. QED
    BY <1>7, <1>8, <2>1, <2>2, <2>3 DEF ProcsOK
<1>11. StopIsClean'
  BY <1>1, <1>2, <1>4, <1>5 DEF SInv, PlacesOK, StopIsClean
<1>12. QED
  BY <1>3, <1>4, <1>10, <1>11 DEF SInv

\* The opinions of the manager are not the concern of the invariant: a step that
\* changes them and moves one goroutine on.
LEMMA OpinionKeeps ==
  ASSUME ConstantsOK, SInv, NEW t \in Threads, NEW place \in Places, Goes(t, place),
         ~Gone, healthy' \in BOOLEAN, fails' \in 0..Threshold + 1,
         UNCHANGED <<signalled, managed, cancelled, cmd, fresh, proc, told, orphans, crashes,
                     agents>>,
         \/ pc[t] = "bad" /\ place \in {"await", AfterFailure(t)}
         \/ t = "super" /\ pc[t] = "mark" /\ place \in {"kill", "select"}
         \/ t = "super" /\ pc[t] = "ok" /\ place = "select"
  PROVE  SInv'
<1> USE DEF Threads
<1>1. /\ pc' \in [Threads -> Places] /\ pc'[t] = place
      /\ \A u \in Threads \ {t} : pc'[u] = pc[u]
  BY OnePlace DEF SInv, TypeOK
<1>2. TypeOK'
  BY <1>1 DEF SInv, TypeOK
<1>3. PlacesOK'
  BY <1>1 DEF SInv, PlacesOK, MainPlaces, SuperPlaces, Starting, AfterFailure
<1>4. Mine' = Mine
  BY SameLiving DEF Mine
<1>5. ProcsOK'
  BY <1>1, <1>4 DEF SInv, PlacesOK, ProcsOK, AfterFailure
<1>6. StopIsClean'
  BY <1>1, <1>3, <1>4 DEF SInv, PlacesOK, StopIsClean, AfterFailure
<1>7. QED
  BY <1>2, <1>3, <1>5, <1>6 DEF SInv

LEMMA UnhealthyCounts ==
  ASSUME ConstantsOK, TypeOK, Unhealthy
  PROVE  healthy' \in BOOLEAN /\ fails' \in 0..Threshold + 1
<1>1. fails \in 0..Threshold + 1 /\ Threshold \in Nat
  BY DEF TypeOK, ConstantsOK
<1>2. fails' = IF fails > Threshold THEN fails ELSE fails + 1
  BY DEF Unhealthy
<1>3. fails' \in 0..Threshold + 1
  BY <1>1, <1>2
<1>4. QED
  BY <1>3 DEF Unhealthy

\* Start has succeeded: both goroutines move.
LEMMA MarkHealthyKeeps ==
  ASSUME ConstantsOK, SInv, NEW t \in Threads, MarkHealthy(t)
  PROVE  SInv'
<1> USE DEF Threads
<1>1. /\ pc[t] = "ok" /\ ~Gone /\ healthy' = TRUE /\ fails' = 0
      /\ UNCHANGED <<signalled, managed, cancelled, cmd, fresh, proc, told, orphans, crashes,
                     agents>>
  BY DEF MarkHealthy, At, world, bounds
<1>2. fails' \in 0..Threshold + 1
  BY <1>1 DEF ConstantsOK
<1>3. CASE t = "super"
  <2>1. pc' = [u \in Threads |-> IF u = "super" THEN "select" ELSE pc[u]]
    BY <1>3 DEF MarkHealthy
  <2>2. Goes("super", "select")
    BY <2>1 DEF SInv, TypeOK, Goes
  <2>3. QED
    BY <1>1, <1>2, <1>3, <2>2, OpinionKeeps DEF Places
<1>4. CASE t = "main"
  <2>1. /\ pc' \in [Threads -> Places] /\ pc'["main"] = "register" /\ pc'["super"] = "select"
    BY <1>4 DEF MarkHealthy, Places
  <2>2. TypeOK'
    BY <1>1, <1>2, <2>1 DEF SInv, TypeOK
  <2>3. managed /\ pc["super"] = "off"
    BY <1>1, <1>4 DEF SInv, PlacesOK, Starting
  <2>4. PlacesOK'
    BY <1>1, <2>1, <2>3 DEF SInv, PlacesOK, MainPlaces, SuperPlaces, Starting
  <2>5. Mine' = Mine
    BY <1>1, SameLiving DEF Mine
  <2>6. ProcsOK' /\ StopIsClean'
    BY <1>1, <1>4, <2>1, <2>3, <2>5 DEF SInv, ProcsOK, StopIsClean
  <2>7. QED
    BY <2>2, <2>4, <2>6 DEF SInv
<1>5. QED
  BY <1>3, <1>4

LEMMA MarkUnhealthyKeeps ==
  ASSUME ConstantsOK, SInv, NEW t \in Threads, MarkUnhealthy(t)
  PROVE  SInv'
<1>1. PICK place \in {"await", AfterFailure(t)} : Goes(t, place)
  BY DEF MarkUnhealthy
<1>2. place \in Places
  BY DEF AfterFailure, Places
<1>3. QED
  BY <1>1, <1>2, OpinionKeeps, UnhealthyCounts DEF MarkUnhealthy, At, world, bounds, SInv

LEMMA SuperviseKeeps ==
  ASSUME ConstantsOK, SInv, Supervise
  PROVE  SInv'
<1>1. PICK place \in {"kill", "select"} : Goes("super", place)
  BY DEF Supervise
<1>2. place \in Places /\ "super" \in Threads
  BY DEF Places, Threads
<1>3. QED
  BY <1>1, <1>2, OpinionKeeps, UnhealthyCounts DEF Supervise, At, world, bounds, SInv

\* Where a goroutine goes after it has told its process to stop.
LEMMA AfterGracePlaces ==
  ASSUME PlacesOK, NEW t \in Threads, pc[t] \in {"kill", "unkill", "grace", "regrace"}
  PROVE  /\ AfterGrace(t) \in {"spawn", "register", "over"}
         /\ AfterGrace(t) = "spawn" <=> pc[t] \in {"kill", "grace"}
         /\ AfterGrace(t) = "spawn" => t = "super"
         /\ AfterGrace(t) = "register" => t = "main" /\ pc["super"] = "off"
<1> USE DEF Threads
<1>1. pc[t] \in {"kill", "grace"} => t = "super"
  BY DEF PlacesOK, MainPlaces, Starting
<1>2. CASE pc[t] \in {"kill", "grace"}
  BY <1>1, <1>2 DEF AfterGrace
<1>3. CASE pc[t] \notin {"kill", "grace"} /\ t = "main" /\ pc["super"] = "off"
  BY <1>3 DEF AfterGrace
<1>4. CASE pc[t] \notin {"kill", "grace"} /\ ~(t = "main" /\ pc["super"] = "off")
  BY <1>4 DEF AfterGrace
<1>5. QED
  BY <1>2, <1>3, <1>4

\* A goroutine that has stopped its process, or had none, goes on.
LEMMA GraceOverKeeps ==
  ASSUME ConstantsOK, SInv, NEW t \in Threads, Goes(t, AfterGrace(t)), ~Gone,
         pc[t] \in {"kill", "unkill", "grace", "regrace"},
         UNCHANGED <<signalled, managed, cancelled, cmd, fresh, healthy, fails, told, orphans,
                     crashes, agents>>,
         proc' \in [Procs -> {"free", "loading", "ready", "stuck", "dead"}],
         \A p \in Procs : proc[p] # "free" <=> proc'[p] # "free",
         Living' \subseteq Living, cmd \notin Mine',
         pc[t] \in {"unkill", "regrace"} /\ (\A u \in Threads : pc[u] # "install") =>
           Mine' = {}
  PROVE  SInv'
<1> USE DEF Threads
<1>1. /\ AfterGrace(t) \in {"spawn", "register", "over"}
      /\ AfterGrace(t) = "spawn" <=> pc[t] \in {"kill", "grace"}
      /\ AfterGrace(t) = "spawn" => t = "super"
      /\ AfterGrace(t) = "register" => t = "main" /\ pc["super"] = "off"
  BY AfterGracePlaces DEF SInv
<1> DEFINE place == AfterGrace(t)
<1> HIDE DEF place
<1>2. /\ pc' \in [Threads -> Places] /\ pc'[t] = AfterGrace(t)
      /\ \A u \in Threads \ {t} : pc'[u] = pc[u]
  BY <1>1, OnePlace DEF SInv, TypeOK, Places
<1>3. TypeOK'
  BY <1>2 DEF SInv, TypeOK
<1>4. PlacesOK'
  BY <1>1, <1>2 DEF SInv, PlacesOK, MainPlaces, SuperPlaces, Starting
<1>5. Mine' \subseteq Mine
  BY MineShrinks
<1>6. ProcsOK'
  <2>1. /\ \A u \in Threads : fresh'[u] # NoProc => pc'[u] = "install" /\ proc'[fresh'[u]] # "free"
        /\ cmd' # NoProc => proc'[cmd'] # "free"
    BY <1>1, <1>2 DEF SInv, ProcsOK, TypeOK
  <2>2. Mine' \subseteq {cmd'} \cup {fresh'[u] : u \in Threads}
    BY <1>5 DEF SInv, ProcsOK
  <2>3. pc'["main"] \in {"boot", "gone"} => cmd' = NoProc
    BY <1>1, <1>2 DEF SInv, ProcsOK
  <2>4. QED
    BY <2>1, <2>2, <2>3 DEF ProcsOK
<1>7. StopIsClean'
  <2>1. SUFFICES ASSUME pc'["main"] \in {"register", "loop"}, ~managed PROVE Mine' = {}
    BY DEF StopIsClean
  <2>2. pc[t] \in {"unkill", "regrace"}
    BY <1>1, <1>2, <2>1 DEF SInv, PlacesOK
  <2>3. \A u \in Threads : pc[u] # "install"
    BY <1>1, <1>2, <2>1, <2>2
  <2>4. QED
    BY <2>2, <2>3
<1>8. QED
  BY <1>3, <1>4, <1>6, <1>7 DEF SInv

LEMMA KillKeeps ==
  ASSUME ConstantsOK, SInv, NEW t \in Threads, Kill(t)
  PROVE  SInv'
<1> USE DEF Threads
<1>1. /\ pc[t] \in {"kill", "unkill"} /\ ~Gone
      /\ UNCHANGED <<signalled, managed, cancelled, cmd, fresh, healthy, fails, proc, orphans,
                     crashes, agents>>
  BY DEF Kill, At, mine, bounds
<1>2. CASE cmd = NoProc
  <2>1. Goes(t, AfterGrace(t)) /\ UNCHANGED told
    BY <1>2 DEF Kill
  <2>2. Mine' = Mine /\ Living' = Living
    BY <1>1, <2>1, SameLiving DEF Mine
  <2>3. cmd \notin Mine'
    BY <1>2 DEF ConstantsOK, Mine, Living
  <2>4. (\A u \in Threads : pc[u] # "install") => Mine' = {}
    BY <1>2, <2>2, <2>3 DEF SInv, ProcsOK
  <2>5. QED
    BY <1>1, <2>1, <2>2, <2>3, <2>4, GraceOverKeeps DEF SInv, TypeOK
<1>3. CASE cmd # NoProc
  <2> DEFINE place == IF pc[t] = "kill" THEN "grace" ELSE "regrace"
  <2>1. told' = told \cup ({cmd} \cap Living) /\ Goes(t, place)
    BY <1>3 DEF Kill
  <2>2. /\ pc' \in [Threads -> Places] /\ pc'[t] = place
        /\ \A u \in Threads \ {t} : pc'[u] = pc[u]
    BY <2>1, OnePlace DEF SInv, TypeOK, Places
  <2>3. told' \subseteq {p \in Procs : proc'[p] # "free"}
    BY <1>1, <2>1 DEF SInv, TypeOK, Living, Alive
  <2>4. TypeOK'
    BY <1>1, <2>2, <2>3 DEF SInv, TypeOK
  <2>5. PlacesOK'
    BY <1>1, <2>2 DEF SInv, PlacesOK, MainPlaces, SuperPlaces, Starting
  <2>6. Mine' \subseteq Mine \ {cmd}
    BY <1>1, <2>1, SameLiving DEF Mine
  <2>7. ProcsOK'
    BY <1>1, <2>2, <2>6 DEF SInv, ProcsOK
  <2>8. StopIsClean'
    <3>1. SUFFICES ASSUME pc'["main"] \in {"register", "loop"}, ~managed PROVE Mine' = {}
      BY <1>1 DEF StopIsClean
    <3>2. \A u \in Threads : pc[u] # "install"
      BY <1>1, <2>2, <3>1 DEF SInv, PlacesOK
    <3>3. Mine \subseteq {cmd, NoProc}
      BY <3>2 DEF SInv, ProcsOK
    <3>4. QED
      BY <2>6, <3>3 DEF Mine, Living, ConstantsOK
  <2>9. QED
    BY <2>4, <2>5, <2>7, <2>8 DEF SInv
<1>4. QED
  BY <1>2, <1>3

LEMMA GraceEndsKeeps ==
  ASSUME ConstantsOK, SInv, NEW t \in Threads, GraceEnds(t)
  PROVE  SInv'
<1> USE DEF Threads
<1>1. /\ pc[t] \in {"grace", "regrace"} /\ ~Gone /\ Goes(t, AfterGrace(t))
      /\ UNCHANGED <<signalled, managed, cancelled, cmd, fresh, healthy, fails, told, orphans,
                     crashes, agents>>
      /\ cancelled => Living \subseteq told \cup orphans
      /\ proc' = [p \in Procs |->
                   IF p \in (told \ orphans) \cap Living THEN "dead" ELSE proc[p]]
  BY DEF GraceEnds, At, mine, bounds
<1>2. /\ proc' \in [Procs -> {"free", "loading", "ready", "stuck", "dead"}]
      /\ \A p \in Procs : proc[p] # "free" <=> proc'[p] # "free"
      /\ Living' \subseteq Living
  BY <1>1 DEF SInv, TypeOK, Living, Alive
<1>3. Mine' \subseteq Mine
  BY <1>1, <1>2, MineShrinks
<1>4. cancelled => Mine' = {}
  BY <1>1, <1>3 DEF Mine
<1>5. cmd \notin Mine'
  BY <1>1, <1>3, <1>4 DEF SInv, ProcsOK, PlacesOK
<1>6. pc[t] = "regrace" => Mine' = {}
  BY <1>4 DEF SInv, PlacesOK
<1>7. QED
  BY <1>1, <1>2, <1>5, <1>6, GraceOverKeeps

LEMMA StopBeginsKeeps ==
  ASSUME ConstantsOK, SInv, NEW t \in Threads, StopBegins(t)
  PROVE  SInv'
<1> USE DEF Threads
<1> DEFINE place == IF managed THEN "cancel" ELSE "over"
<1>1. /\ pc[t] \in {"stop", "loop", "select"} /\ (pc[t] = "select" => t = "super") /\ ~Gone
      /\ managed' = FALSE /\ Goes(t, place)
      /\ UNCHANGED <<signalled, cancelled, cmd, fresh, healthy, fails, proc, told, orphans,
                     crashes, agents>>
  BY DEF StopBegins, At, world, bounds
<1>2. /\ pc' \in [Threads -> Places] /\ pc'[t] = place
      /\ \A u \in Threads \ {t} : pc'[u] = pc[u]
  BY <1>1, OnePlace DEF SInv, TypeOK, Places
<1>3. TypeOK'
  BY <1>1, <1>2 DEF SInv, TypeOK
<1>4. PlacesOK'
  BY <1>1, <1>2 DEF SInv, PlacesOK, MainPlaces, SuperPlaces, Starting
<1>5. Mine' = Mine
  BY <1>1, SameLiving DEF Mine
<1>6. ProcsOK'
  BY <1>1, <1>2, <1>5 DEF SInv, ProcsOK
<1>7. StopIsClean'
  BY <1>1, <1>2, <1>4, <1>5 DEF SInv, StopIsClean, PlacesOK, MainPlaces, SuperPlaces
<1>8. QED
  BY <1>3, <1>4, <1>6, <1>7 DEF SInv

LEMMA CancelKeeps ==
  ASSUME ConstantsOK, SInv, NEW t \in Threads, Cancel(t)
  PROVE  SInv'
<1> USE DEF Threads
<1>1. /\ pc[t] = "cancel" /\ ~Gone /\ cancelled' = TRUE /\ Goes(t, "unkill")
      /\ UNCHANGED <<signalled, managed, cmd, fresh, healthy, fails, proc, told, orphans,
                     crashes, agents>>
  BY DEF Cancel, At, world, bounds
<1>2. /\ pc' \in [Threads -> Places] /\ pc'[t] = "unkill"
      /\ \A u \in Threads \ {t} : pc'[u] = pc[u]
  BY <1>1, OnePlace DEF SInv, TypeOK, Places
<1>3. TypeOK'
  BY <1>1, <1>2 DEF SInv, TypeOK, PlacesOK
<1>4. PlacesOK'
  BY <1>1, <1>2 DEF SInv, PlacesOK, MainPlaces, SuperPlaces, Starting
<1>5. Mine' = Mine
  BY <1>1, SameLiving DEF Mine
<1>6. ProcsOK' /\ StopIsClean'
  BY <1>1, <1>2, <1>5 DEF SInv, ProcsOK, StopIsClean
<1>7. QED
  BY <1>3, <1>4, <1>6 DEF SInv

LEMMA LeavesKeeps ==
  ASSUME ConstantsOK, SInv, Leaves, crashes' \in 0..MaxCrashes
  PROVE  SInv'
<1> USE DEF Threads
<1>1. /\ orphans' = Living /\ UNCHANGED <<proc, told, agents>>
      /\ pc' = [t \in Threads |-> IF t = "main" THEN "gone" ELSE "off"]
      /\ signalled' = FALSE /\ managed' = FALSE /\ cancelled' = FALSE
      /\ cmd' = NoProc /\ fresh' = [t \in Threads |-> NoProc]
      /\ healthy' = FALSE /\ fails' = 0
  BY DEF Leaves, Goroutines
<1>2. pc' \in [Threads -> Places] /\ pc'["main"] = "gone" /\ pc'["super"] = "off"
  BY <1>1 DEF Places
<1>3. TypeOK'
  <2>1. fails' \in 0..Threshold + 1 /\ orphans' \subseteq Procs
    BY <1>1 DEF ConstantsOK, Living
  <2>2. QED
    BY <1>1, <1>2, <2>1 DEF SInv, TypeOK
<1>4. PlacesOK'
  BY <1>2 DEF PlacesOK, MainPlaces, SuperPlaces, Starting
<1>5. Mine' = {}
  BY <1>1, SameLiving DEF Mine
<1>6. ProcsOK' /\ StopIsClean'
  BY <1>1, <1>2, <1>5 DEF ProcsOK, StopIsClean
<1>7. QED
  BY <1>3, <1>4, <1>6 DEF SInv

LEMMA AgentKeeps ==
  ConstantsOK /\ SInv /\ (Exit \/ RegisterEnds \/ Signal \/ AgentKilled \/ AgentStarts) => SInv'
<1> SUFFICES ASSUME ConstantsOK, SInv,
                    Exit \/ RegisterEnds \/ Signal \/ AgentKilled \/ AgentStarts
             PROVE  SInv'
  OBVIOUS
<1> USE DEF Threads
<1>1. CASE Exit \/ RegisterEnds
  BY <1>1, LeavesKeeps DEF Exit, RegisterEnds, SInv, TypeOK
<1>2. CASE AgentKilled
  <2>1. crashes' \in 0..MaxCrashes
    BY <1>2 DEF AgentKilled, SInv, TypeOK, ConstantsOK
  <2>2. QED
    BY <1>2, <2>1, LeavesKeeps DEF AgentKilled
<1>3. CASE Signal
  <2>1. /\ signalled' = TRUE
        /\ UNCHANGED <<pc, managed, cancelled, cmd, fresh, healthy, fails, proc, told, orphans,
                       crashes, agents>>
    BY <1>3 DEF Signal, mine, world, bounds
  <2>2. Mine' = Mine
    BY <2>1, SameLiving DEF Mine
  <2>3. TypeOK'
    BY <2>1 DEF SInv, TypeOK
  <2>4. PlacesOK' /\ ProcsOK' /\ StopIsClean'
    BY <2>1, <2>2 DEF SInv, PlacesOK, ProcsOK, StopIsClean
  <2>5. QED
    BY <2>3, <2>4 DEF SInv
<1>4. CASE AgentStarts
  <2>1. /\ pc["main"] = "gone" /\ agents < MaxAgents /\ agents' = agents + 1
        /\ pc' = [t \in Threads |-> IF t = "main" THEN "boot" ELSE "off"]
        /\ signalled' = FALSE /\ managed' = FALSE /\ cancelled' = FALSE
        /\ cmd' = NoProc /\ fresh' = [t \in Threads |-> NoProc]
        /\ healthy' = FALSE /\ fails' = 0
        /\ UNCHANGED <<proc, told, orphans, crashes>>
    BY <1>4 DEF AgentStarts, Gone, Goroutines, world
  <2>2. pc' \in [Threads -> Places] /\ pc'["main"] = "boot" /\ pc'["super"] = "off"
    BY <2>1 DEF Places
  <2>3. TypeOK'
    <3>1. fails' \in 0..Threshold + 1 /\ agents' \in 0..MaxAgents
      BY <2>1 DEF ConstantsOK, SInv, TypeOK
    <3>2. QED
      BY <2>1, <2>2, <3>1 DEF SInv, TypeOK
  <2>4. PlacesOK'
    BY <2>1, <2>2 DEF PlacesOK, MainPlaces, SuperPlaces, Starting
  <2>5. Mine' = {}
    <3>1. cmd = NoProc /\ \A t \in Threads : fresh[t] = NoProc
      BY <2>1 DEF SInv, ProcsOK, PlacesOK
    <3>2. Mine' = Mine
      BY <2>1, SameLiving DEF Mine
    <3>3. QED
      BY <3>1, <3>2 DEF SInv, ProcsOK, Mine, Living, ConstantsOK
  <2>6. ProcsOK' /\ StopIsClean'
    BY <2>1, <2>2, <2>5 DEF ProcsOK, StopIsClean
  <2>7. QED
    BY <2>3, <2>4, <2>6 DEF SInv
<1>5. QED
  BY <1>1, <1>2, <1>3, <1>4

\* What a living process does by itself, or told to stop.
LEMMA LivingKeeps ==
  ASSUME ConstantsOK, SInv, NEW p \in Procs, Load(p) \/ Fault(p) \/ Dies(p)
  PROVE  SInv'
<1> USE DEF Threads
<1>1. PICK s \in {"ready", "stuck", "dead"} : Becomes(p, s)
  BY DEF Load, Fault, Dies
<1>2. Alive(p) /\ UNCHANGED <<told, orphans>> /\ crashes' \in 0..MaxCrashes
  <2>1. CASE Load(p) \/ Dies(p)
    BY <2>1 DEF Load, Dies, Alive, SInv, TypeOK
  <2>2. CASE Fault(p)
    BY <2>2 DEF Fault, SInv, TypeOK, ConstantsOK
  <2>3. QED
    BY <2>1, <2>2
<1>3. /\ proc' = [proc EXCEPT ![p] = s]
      /\ UNCHANGED <<pc, signalled, managed, cancelled, cmd, fresh, healthy, fails, agents>>
  BY <1>1 DEF Becomes, mine
<1>4. /\ proc' \in [Procs -> {"free", "loading", "ready", "stuck", "dead"}]
      /\ \A q \in Procs : proc[q] # "free" <=> proc'[q] # "free"
      /\ Living' \subseteq Living
  BY <1>2, <1>3 DEF SInv, TypeOK, Living, Alive
<1>5. TypeOK'
  BY <1>2, <1>3, <1>4 DEF SInv, TypeOK
<1>6. Mine' \subseteq Mine
  BY <1>2, <1>4, MineShrinks
<1>7. PlacesOK' /\ StopIsClean'
  BY <1>3, <1>6 DEF SInv, PlacesOK, StopIsClean
<1>8. ProcsOK'
  BY <1>3, <1>4, <1>6 DEF SInv, ProcsOK, TypeOK
<1>9. QED
  BY <1>5, <1>7, <1>8 DEF SInv

LEMMA ContextKillsKeeps ==
  ASSUME ConstantsOK, SInv, NEW p \in Procs, ContextKills(p)
  PROVE  SInv'
<1> USE DEF Threads
<1>1. /\ Alive(p) /\ told' = told \cup {p}
      /\ UNCHANGED <<pc, signalled, managed, cancelled, cmd, fresh, healthy, fails, proc,
                     orphans, crashes, agents>>
  BY DEF ContextKills, mine, bounds
<1>2. TypeOK'
  BY <1>1 DEF SInv, TypeOK, Alive
<1>3. Mine' \subseteq Mine
  BY <1>1, SameLiving, MineShrinks
<1>4. PlacesOK' /\ ProcsOK' /\ StopIsClean'
  BY <1>1, <1>3 DEF SInv, PlacesOK, ProcsOK, StopIsClean
<1>5. QED
  BY <1>2, <1>4 DEF SInv

\* The end of a process: the manager forgets it only if it is the current one.
LEMMA WatchKeeps ==
  ASSUME ConstantsOK, SInv, NEW p \in Procs, Watch(p)
  PROVE  SInv'
<1> USE DEF Threads
<1>1. /\ proc[p] = "dead" /\ \A t \in Threads : fresh[t] # p
      /\ proc' = [proc EXCEPT ![p] = "free"] /\ told' = told \ {p} /\ orphans' = orphans \ {p}
      /\ UNCHANGED <<pc, signalled, managed, cancelled, fresh, crashes, agents>>
  BY DEF Watch, bounds
<1>2. \/ cmd = p /\ ~Gone /\ cmd' = NoProc /\ healthy' = FALSE /\ fails' \in {Threshold, fails}
      \/ (cmd # p \/ Gone) /\ UNCHANGED <<cmd, healthy, fails>>
  BY DEF Watch
<1>3. Gone => cmd = NoProc
  BY DEF Gone, SInv, ProcsOK
<1>4. cmd' # p /\ (cmd' = cmd \/ (cmd = p /\ cmd' = NoProc))
  BY <1>2, <1>3 DEF ConstantsOK
<1>5. /\ proc' \in [Procs -> {"free", "loading", "ready", "stuck", "dead"}]
      /\ \A q \in Procs \ {p} : proc'[q] = proc[q]
      /\ proc'[p] = "free" /\ p \notin Living /\ Living' = Living
  BY <1>1 DEF SInv, TypeOK, Living, Alive
<1>6. TypeOK'
  <2>1. fails' \in 0..Threshold + 1 /\ healthy' \in BOOLEAN /\ cmd' \in Procs \cup {NoProc}
    <3>1. Threshold \in 0..Threshold + 1
      BY DEF ConstantsOK
    <3>2. QED
      BY <1>2, <3>1 DEF SInv, TypeOK
  <2>2. told' \subseteq {q \in Procs : proc'[q] # "free"} /\ orphans' \subseteq Procs
    BY <1>1, <1>5 DEF SInv, TypeOK
  <2>3. QED
    BY <1>1, <1>5, <2>1, <2>2 DEF SInv, TypeOK
<1>7. Mine' = Mine /\ p \notin Mine
  BY <1>1, <1>5 DEF Mine
<1>8. PlacesOK' /\ StopIsClean'
  BY <1>1, <1>7 DEF SInv, PlacesOK, StopIsClean
<1>9. ProcsOK'
  <2>1. Mine' \subseteq {cmd'} \cup {fresh'[t] : t \in Threads}
    BY <1>1, <1>4, <1>7 DEF SInv, ProcsOK
  <2>2. cmd' # NoProc => proc'[cmd'] # "free"
    BY <1>4, <1>5 DEF SInv, ProcsOK, TypeOK
  <2>3. \A t \in Threads :
          /\ fresh'[t] # NoProc => pc'[t] = "install" /\ proc'[fresh'[t]] # "free"
          /\ pc'[t] \in {"grace", "spawn", "exec", "install"} => cmd' \notin Mine'
    <3>1. NoProc \notin Mine
      BY DEF Mine, Living, ConstantsOK
    <3>2. QED
      BY <1>1, <1>4, <1>5, <1>7, <3>1 DEF SInv, ProcsOK, TypeOK
  <2>4. pc'["main"] \in {"boot", "gone"} => cmd' = NoProc
    BY <1>1, <1>4 DEF SInv, ProcsOK
  <2>5. QED
    BY <2>1, <2>2, <2>3, <2>4 DEF ProcsOK
<1>10. QED
  BY <1>6, <1>8, <1>9 DEF SInv

LEMMA NextKeeps == ASSUME ConstantsOK PROVE SInv /\ [Next]_vars => SInv'
<1> SUFFICES ASSUME SInv, [Next]_vars PROVE SInv'
  OBVIOUS
<1>1. ASSUME NEW t \in Threads, ThreadStep(t) PROVE SInv'
  <2>1. CASE ReadContext(t) \/ Check(t)
    BY <2>1, MovesOnKeeps DEF MovesOn, ReadContext, Check
  <2>2. CASE Exec(t) \/ Install(t) \/ MarkHealthy(t) \/ MarkUnhealthy(t)
    BY <2>2, ExecKeeps, InstallKeeps, MarkHealthyKeeps, MarkUnhealthyKeeps
  <2>3. CASE Kill(t) \/ GraceEnds(t) \/ StopBegins(t) \/ Cancel(t)
    BY <2>3, KillKeeps, GraceEndsKeeps, StopBeginsKeeps, CancelKeeps
  <2>4. QED
    BY <1>1, <2>1, <2>2, <2>3 DEF ThreadStep
<1>2. CASE Register
  BY <1>2, MovesOnKeeps DEF MovesOn, Register, Threads
<1>3. CASE UNCHANGED vars
  <2>1. UNCHANGED <<pc, signalled, managed, cancelled, cmd, fresh, healthy, fails, proc, told,
                    orphans, crashes, agents>>
    BY <1>3 DEF vars, mine, world, bounds
  <2>2. Mine' = Mine
    BY <2>1, SameLiving DEF Mine
  <2>3. TypeOK'
    BY <2>1 DEF SInv, TypeOK
  <2>4. PlacesOK' /\ ProcsOK' /\ StopIsClean'
    BY <2>1, <2>2 DEF SInv, PlacesOK, ProcsOK, StopIsClean
  <2>5. QED
    BY <2>3, <2>4 DEF SInv
<1>4. CASE MainStep \/ SuperStep
  BY <1>1, <1>2, <1>4, BootKeeps, AgentKeeps, SuperviseKeeps DEF MainStep, SuperStep, Threads
<1>5. CASE Signal \/ AgentKilled \/ AgentStarts
  BY <1>5, AgentKeeps
<1>6. CASE \E p \in Procs : ProcStep(p) \/ Load(p) \/ Fault(p)
  BY <1>6, LivingKeeps, ContextKillsKeeps, WatchKeeps DEF ProcStep
<1>7. QED
  BY <1>3, <1>4, <1>5, <1>6 DEF Next

LEMMA Invariance == ASSUME ConstantsOK PROVE Spec => []SInv
BY InitOK, NextKeeps, PTL DEF Spec

-----------------------------------------------------------------------------
(***************************************************************************)
(* The goroutines, the manager and the processes keep their types.         *)
(***************************************************************************)
THEOREM ServeTypes == ASSUME ConstantsOK PROVE Spec => []TypeOK
<1>1. SInv => TypeOK
  BY DEF SInv
<1>2. QED
  BY <1>1, Invariance, PTL

\* Goroutines that both install cannot be: the supervisor begins after Start.
LEMMA OneIsMine ==
  ASSUME ConstantsOK, SInv
  PROVE  \E p : Mine \subseteq {p}
<1> USE DEF Threads
<1>1. Mine \subseteq {cmd, fresh["main"], fresh["super"]} /\ NoProc \notin Mine
  BY DEF SInv, ProcsOK, Mine, Living, ConstantsOK
<1>2. CASE \A t \in Threads : fresh[t] = NoProc
  BY <1>1, <1>2
<1>3. ASSUME NEW t \in Threads, fresh[t] # NoProc
      PROVE  Mine \subseteq {fresh[t]}
  <2>1. pc[t] = "install" /\ cmd \notin Mine
    BY <1>3 DEF SInv, ProcsOK
  <2>2. \A u \in Threads \ {t} : fresh[u] = NoProc
    BY <2>1 DEF SInv, ProcsOK, PlacesOK, Starting
  <2>3. QED
    BY <1>1, <2>1, <2>2
<1>4. QED
  BY <1>2, <1>3

(***************************************************************************)
(* At most one process has not been told to stop, however restarts, a Stop *)
(* and the ends of earlier processes interleave.                           *)
(***************************************************************************)
THEOREM OneAtATime == ASSUME ConstantsOK PROVE Spec => []OneProcess
<1>1. SInv => OneProcess
  <2>1. SUFFICES ASSUME SInv PROVE Cardinality(Mine) <= 1
    BY DEF OneProcess, Mine
  <2>2. PICK p : Mine \subseteq {p}
    BY <2>1, OneIsMine
  <2>3. CASE Mine = {}
    BY <2>3, FS_EmptySet
  <2>4. CASE Mine = {p}
    <3>1. Cardinality({p}) = 1
      BY FS_Singleton
    <3>2. QED
      BY <2>4, <3>1
  <2>5. QED
    BY <2>2, <2>3, <2>4
<1>2. QED
  BY <1>1, Invariance, PTL

\* The steps with which the main goroutine comes to its end.
LEMMA WhoEndsMain ==
  ASSUME SInv, Next, pc["main"] # "over", pc'["main"] = "over"
  PROVE  StopBegins("main") \/ Kill("main") \/ GraceEnds("main")
<1> USE DEF Threads
<1>1. pc \in [Threads -> Places]
  BY DEF SInv, TypeOK
<1>2. ASSUME MainStep PROVE StopBegins("main") \/ Kill("main") \/ GraceEnds("main")
  <2>1. CASE Boot \/ Register \/ RegisterEnds \/ Exit
    BY <1>1, <2>1 DEF Boot, Register, RegisterEnds, Exit, Leaves, Goroutines, Goes
  <2>2. CASE ReadContext("main") \/ Exec("main") \/ Install("main") \/ MarkHealthy("main")
    BY <1>1, <2>2 DEF ReadContext, Exec, Install, MarkHealthy, Goes, AfterFailure
  <2>3. CASE Check("main") \/ MarkUnhealthy("main") \/ Cancel("main")
    BY <1>1, <2>3 DEF Check, MarkUnhealthy, Cancel, Goes, AfterFailure
  <2>4. QED
    BY <1>2, <2>1, <2>2, <2>3 DEF MainStep, ThreadStep
<1>3. ASSUME SuperStep PROVE pc'["main"] = pc["main"]
  <2>1. CASE Supervise
    BY <1>1, <2>1 DEF Supervise, Goes
  <2>2. CASE ReadContext("super") \/ Exec("super") \/ Install("super") \/ MarkHealthy("super")
    BY <1>1, <2>2 DEF ReadContext, Exec, Install, MarkHealthy, Goes
  <2>3. CASE Check("super") \/ MarkUnhealthy("super") \/ Cancel("super")
    BY <1>1, <2>3 DEF Check, MarkUnhealthy, Cancel, Goes
  <2>4. CASE Kill("super") \/ GraceEnds("super") \/ StopBegins("super")
    BY <1>1, <2>4 DEF Kill, GraceEnds, StopBegins, Goes
  <2>5. QED
    BY <1>3, <2>1, <2>2, <2>3, <2>4 DEF SuperStep, ThreadStep
<1>4. ASSUME Signal \/ AgentKilled \/ AgentStarts PROVE pc'["main"] # "over"
  BY <1>4 DEF Signal, AgentKilled, AgentStarts, Leaves, Goroutines
<1>5. ASSUME NEW p \in Procs, ProcStep(p) \/ Load(p) \/ Fault(p) PROVE pc' = pc
  BY <1>5 DEF ProcStep, Dies, ContextKills, Watch, Load, Fault, Becomes
<1>6. QED
  BY <1>2, <1>3, <1>4, <1>5 DEF Next

LEMMA EndIsClean ==
  ASSUME ConstantsOK, SInv, Next, pc["main"] # "over", pc'["main"] = "over", ~SuperBusy
  PROVE  NoneLeft
<1> USE DEF Threads
<1>1. SUFFICES Mine' = {}
  BY DEF NoneLeft, Mine
<1>2. pc["super"] \notin {"cancel", "unkill", "install"}
  BY DEF SuperBusy
<1>3. CASE StopBegins("main")
  <2>1. /\ pc["main"] \in {"stop", "loop"} /\ UNCHANGED <<proc, told, orphans>>
        /\ Goes("main", IF managed THEN "cancel" ELSE "over")
    BY <1>3 DEF StopBegins, At, world
  <2>2. ~managed
    BY <2>1 DEF Goes, SInv, TypeOK
  <2>3. Mine = {}
    BY <1>2, <2>1, <2>2 DEF SInv, PlacesOK, StopIsClean, Starting
  <2>4. QED
    BY <2>1, <2>3, SameLiving DEF Mine
<1>4. CASE Kill("main")
  <2>1. /\ pc["main"] = "unkill" /\ UNCHANGED <<proc, orphans>>
    BY <1>4 DEF Kill, At, SInv, PlacesOK, MainPlaces, Starting
  <2>2. cmd = NoProc /\ UNCHANGED told
    BY <1>4, <2>1 DEF Kill, Goes, SInv, TypeOK
  <2>3. \A t \in Threads : fresh[t] = NoProc
    BY <1>2, <2>1 DEF SInv, ProcsOK
  <2>4. Mine = {}
    BY <2>2, <2>3 DEF SInv, ProcsOK, Mine, Living, ConstantsOK
  <2>5. QED
    BY <2>1, <2>2, <2>4, SameLiving DEF Mine
<1>5. CASE GraceEnds("main")
  <2>1. pc["main"] = "regrace"
    BY <1>5 DEF GraceEnds, At, SInv, PlacesOK, MainPlaces, Starting
  <2>2. /\ cancelled => Living \subseteq told \cup orphans
        /\ UNCHANGED <<told, orphans>>
        /\ proc' = [p \in Procs |->
                     IF p \in (told \ orphans) \cap Living THEN "dead" ELSE proc[p]]
    BY <1>5 DEF GraceEnds
  <2>3. cancelled
    BY <2>1 DEF SInv, PlacesOK
  <2>4. Living' \subseteq Living
    BY <2>2 DEF Living, Alive
  <2>5. QED
    BY <2>2, <2>3, <2>4 DEF Mine
<1>6. QED
  BY <1>3, <1>4, <1>5, WhoEndsMain

(***************************************************************************)
(* An agent whose loop is over has told every process of its own to stop,  *)
(* unless its supervisor was stopping the service itself at that moment or *)
(* had a process it had not recorded.                                      *)
(***************************************************************************)
THEOREM EndsAreClean == ASSUME ConstantsOK PROVE Spec => CleanStop
<1> DEFINE Clean == pc["main"] # "over" /\ pc'["main"] = "over" /\ ~SuperBusy => NoneLeft
<1>1. SInv /\ [Next]_vars => [Clean]_vars
  BY EndIsClean
<1>2. QED
  BY <1>1, Invariance, PTL DEF Spec, CleanStop
=============================================================================
