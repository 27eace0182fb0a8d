--------------------------- MODULE LMStudioCache ---------------------------
(***************************************************************************)
(* The LM Studio adapter with its cache of the server's model list, and    *)
(* who writes the model into the registry and the database: the refresh,   *)
(* which copies the list into them, actions, and requests that do not      *)
(* reach the server (a GET, an agent's report).                            *)
(*                                                                         *)
(* Whoever wants the list asks the server first and then stores the answer *)
(* as the cache: the adapter's loop, a refresh, an action before it is     *)
(* sent and, in a goroutine of its own, after it.  An answer may be stored *)
(* long after it was given, and every writer of the registry writes the    *)
(* whole model as it read it at some time before.  One model is followed,  *)
(* as if it were the only one; a list it is not in is "none", and one that *)
(* does not say whether it is loaded is "unknown".  LM Studio takes a      *)
(* start for a load, so a model that is running counts as loaded.          *)
(***************************************************************************)
EXTENDS Naturals

CONSTANTS
  Dialects,     \* how the server says that a model is loaded
  MaxChanges    \* bound: changes at the server, actions, requests, restarts

VARIABLES
  server,    \* the model at the server: absent, stopped or loaded
  dialect,   \* what the server speaks: a dialect, plain lists, or it is down
  cache,     \* the adapter's list
  registry,  \* the state of the model in the model registry
  row,       \* the state in its row of table models
  pc,        \* pc[t]: where the threads are
  answer,    \* answer[t]: the list a thread has in hand
  copy,      \* copy[t]: the state in the copy of the model a thread has
  behind,    \* history: the copies made before the registry's last change
  changes

vars == <<server, dialect, cache, registry, row, pc, answer, copy, behind, changes>>

Threads == {"loop", "async", "list", "action", "request"}
States == {"unknown", "stopped", "loaded"}
Lists == States \cup {"none"}
Known == {"stopped", "loaded"}

Places == {"idle", "ask", "store", "snapshot", "merge", "replace", "sync",
           "wish", "wished", "post", "mark", "look", "fill", "put", "save"}

TypeOK ==
  /\ server \in {"absent", "stopped", "loaded"}
  /\ dialect \in Dialects \cup {"plain", "down"}
  /\ cache \in Lists /\ registry \in Lists /\ row \in Lists
  /\ pc \in [Threads -> Places]
  /\ answer \in [Threads -> Lists \cup {"error"}]
  /\ copy \in [Threads -> Lists]
  /\ behind \subseteq Threads \cup {"row"}
  /\ changes \in 0..MaxChanges

\* The controller starts: the registry has what the row has.
Init ==
  /\ server \in {"absent", "stopped", "loaded"}
  /\ dialect \in Dialects \cup {"plain", "down"}
  /\ cache = "none"
  /\ row \in Lists /\ registry = row
  /\ pc = [t \in Threads |-> IF t = "loop" THEN "ask" ELSE "idle"]
  /\ answer = [t \in Threads |-> "none"]
  /\ copy = [t \in Threads |-> "none"]
  /\ behind = {} /\ changes = 0

studio == <<server, dialect>>

\* A thread has a list and a copy only while it works.
Goes(t, place) == pc' = [pc EXCEPT ![t] = place]
Holds(t, list) == answer' = [answer EXCEPT ![t] = IF pc'[t] = "idle" THEN "none" ELSE list]
Carries(t, state) == copy' = [copy EXCEPT ![t] = IF pc'[t] = "idle" THEN "none" ELSE state]

\* t reads the registry, or ends.
IsUpToDate(t) == behind' = behind \ {t}

\* t writes the registry: if that changes it, every other copy is left behind.
LeavesBehind(t) ==
  behind' = (IF registry' = registry THEN behind
             ELSE {"row"} \cup {u \in Threads : copy'[u] # "none"}) \ {t}

Counted == changes < MaxChanges /\ changes' = changes + 1

-----------------------------------------------------------------------------
(* What the server's list says.                                            *)

Silent == "unknown"

\* An entry of the list in a dialect: the loaded instances, a flag, a word,
\* or one of these in a nested record; the latter may contradict the former.
Entry(d, state) ==
  [instances |-> IF d = "instances" THEN state ELSE Silent,
   flag      |-> IF d = "flag" THEN state ELSE Silent,
   word      |-> CASE d = "word" -> state
                   [] d = "instances" -> "loaded"
                   [] OTHER -> Silent,
   nested    |-> IF d = "nested" THEN state ELSE Silent]

OrElse(said, otherwise) == IF said = Silent THEN otherwise ELSE said

\* parseModelState: the first that says something counts.
StateOf(entry) ==
  OrElse(entry.instances, OrElse(entry.flag, OrElse(entry.word, entry.nested)))

\* listModelsRemote: the native list, or the plain one, whose entries have no
\* state at all.
Listed ==
  CASE dialect = "down" -> "error"
    [] dialect # "down" /\ server = "absent" -> "none"
    [] OTHER -> StateOf(Entry(dialect, server))

-----------------------------------------------------------------------------
(* Refreshing the cache.                                                   *)

InBackground(t) == t \in {"loop", "async"}

\* The tickers of the loop and of the model service's refresh.
Wants(t) ==
  /\ t \in {"loop", "list"}
  /\ pc[t] = "idle"
  /\ Goes(t, "ask")
  /\ UNCHANGED <<studio, cache, registry, row, answer, copy, behind, changes>>

\* After an error the cache stays, and serves a refresh or an action.
AfterAsk(t) ==
  CASE Listed # "error" -> "store"
    [] Listed = "error" /\ InBackground(t) -> "idle"
    [] OTHER -> "snapshot"

Ask(t) ==
  /\ pc[t] = "ask"
  /\ Goes(t, AfterAsk(t))
  /\ Holds(t, Listed)
  /\ UNCHANGED <<studio, cache, registry, row, copy, behind, changes>>

\* Mutation: only the refresh after an action replaces a list.
Stored_AsyncOnly(t) == IF t = "async" \/ cache = "none" THEN answer[t] ELSE cache

Stored(t) == answer[t]

Store(t) ==
  /\ pc[t] = "store"
  /\ cache' = Stored(t)
  /\ Goes(t, IF InBackground(t) THEN "idle" ELSE "snapshot")
  /\ Holds(t, answer[t])
  /\ UNCHANGED <<studio, registry, row, copy, behind, changes>>

\* An action whose model is not in the list fails; a refresh that gets no list,
\* not even a cached one, has only the registry left to save.
AfterSnapshot(t) ==
  CASE t = "action" -> IF cache = "none" THEN "mark" ELSE "post"
    [] t # "action" /\ answer[t] = "error" /\ cache = "none" -> "sync"
    [] OTHER -> "merge"

Snapshot(t) ==
  /\ pc[t] = "snapshot"
  /\ Goes(t, AfterSnapshot(t))
  /\ Holds(t, cache)
  /\ UNCHANGED <<studio, cache, registry, row, copy, behind, changes>>

-----------------------------------------------------------------------------
(* Copies of the model.  A write of the registry and the write of the row  *)
(* after it are two steps; store writes do not fail here.                  *)

\* executeAction stores its copy with the desired state before it calls the
\* adapter and, whether that succeeds or not, after; a report is stored once,
\* and what a GET has merged into the registry only.
AfterPut == [wish |-> "wished", mark |-> "save", put |-> "save", fill |-> "idle"]

Put(t) ==
  /\ pc[t] \in DOMAIN AfterPut
  /\ registry' = copy[t]
  /\ Goes(t, AfterPut[pc[t]])
  /\ Carries(t, copy[t])
  /\ LeavesBehind(t)
  /\ UNCHANGED <<studio, cache, row, answer, changes>>

\* An action that its copy does not allow is refused, another one may be.
AfterSave(t) == IF pc[t] = "wished" THEN {"ask", "idle"} ELSE {"idle"}

\* Rows are only upserted: a model the registry has not keeps its row.
Save(t) ==
  /\ pc[t] \in {"wished", "save"}
  /\ row' = IF copy[t] = "none" THEN row ELSE copy[t]
  /\ \E place \in AfterSave(t) : Goes(t, place)
  /\ Carries(t, copy[t])
  /\ behind' =
       LET rows == CASE copy[t] = "none" -> behind
                     [] copy[t] # "none" /\ t \in behind -> behind \cup {"row"}
                     [] OTHER -> behind \ {"row"}
       IN  IF pc'[t] = "idle" THEN rows \ {t} ELSE rows
  /\ UNCHANGED <<studio, cache, registry, answer, changes>>

\* No two actions at once on the host's node.
ActionBegin ==
  /\ pc["action"] = "idle" /\ registry # "none"
  /\ Counted
  /\ Goes("action", "wish")
  /\ Carries("action", registry)
  /\ IsUpToDate("action")
  /\ UNCHANGED <<studio, cache, registry, row, answer>>

\* actionAllowedForBackendAndState: load and start are for a model that is not
\* loaded, unload and stop for one that is.
Aim == IF copy["action"] = "loaded" THEN "stopped" ELSE "loaded"

\* The server loads or unloads the model, by whichever path works; then the
\* cache is refreshed in the background.
Posted ==
  /\ dialect # "down" /\ server # "absent"
  /\ pc["async"] = "idle"
  /\ server' = Aim
  /\ pc' = [pc EXCEPT !["action"] = "mark", !["async"] = "ask"]
  /\ Carries("action", Aim)

\* No path answered in time that it did, though one of them may have done it.
PostFailed ==
  /\ \/ UNCHANGED server
     \/ dialect # "down" /\ server # "absent" /\ server' = Aim
  /\ Goes("action", "mark")
  /\ UNCHANGED copy

Post ==
  /\ pc["action"] = "post"
  /\ Posted \/ PostFailed
  /\ Holds("action", "none")
  /\ UNCHANGED <<dialect, cache, registry, row, behind, changes>>

\* ListModels and GetModel read the registry and then the rows; an agent's
\* report is about a model the registry has.
RequestBegin ==
  /\ pc["request"] = "idle"
  /\ Counted
  /\ \/ Goes("request", "look")
     \/ registry # "none" /\ Goes("request", "put")
  /\ Carries("request", registry)
  /\ IsUpToDate("request")
  /\ UNCHANGED <<studio, cache, registry, row, answer>>

\* The state of the row counts; without a row the list of all models puts back
\* what the registry had, and the GET of one model nothing.
Look ==
  /\ pc["request"] = "look"
  /\ \E found \in IF row # "none" THEN {row} ELSE {copy["request"], "none"} :
       /\ Goes("request", IF found = "none" THEN "idle" ELSE "fill")
       /\ Carries("request", found)
  /\ behind' = CASE row # "none" /\ "row" \in behind -> behind \cup {"request"}
                 [] row = "none" /\ pc'["request"] = "fill" -> behind
                 [] OTHER -> behind \ {"request"}
  /\ UNCHANGED <<studio, cache, registry, row, answer, changes>>

-----------------------------------------------------------------------------
(* The refresh.                                                            *)

\* Mutation: the list is copied as it is.
Merged_AsListed == answer["list"]

\* refreshLMStudioModels: what is unknown stays what it was.
Merged ==
  IF answer["list"] = "unknown" /\ registry # "none" THEN registry ELSE answer["list"]

Merge ==
  /\ pc["list"] = "merge"
  /\ Goes("list", "replace")
  /\ Holds("list", "none")
  /\ Carries("list", Merged)
  /\ IsUpToDate("list")
  /\ UNCHANGED <<studio, cache, registry, row, changes>>

\* ReplaceByBackend: a model that is not listed is removed.
Replace ==
  /\ pc["list"] = "replace"
  /\ registry' = copy["list"]
  /\ Goes("list", "sync")
  /\ Carries("list", "none")
  /\ LeavesBehind("list")
  /\ UNCHANGED <<studio, cache, row, answer, changes>>

\* SyncRegistryToStore reads the registry, then writes the rows (Save).
Sync ==
  /\ pc["list"] = "sync"
  /\ Goes("list", "save")
  /\ Holds("list", "none")
  /\ Carries("list", registry)
  /\ IsUpToDate("list")
  /\ UNCHANGED <<studio, cache, registry, row, changes>>

-----------------------------------------------------------------------------

\* The controller stops and starts again: SetStore merges the rows into the
\* registry, which LM Studio models are in for no other reason.
Restart ==
  /\ Counted
  /\ registry' = row /\ cache' = "none"
  /\ pc' = [t \in Threads |-> IF t = "loop" THEN "ask" ELSE "idle"]
  /\ answer' = [t \in Threads |-> "none"]
  /\ copy' = [t \in Threads |-> "none"]
  /\ behind' = {}
  /\ UNCHANGED <<studio, row>>

\* Somebody else loads, unloads, adds or removes the model, or changes, stops
\* or starts the server.
ServerChanges ==
  /\ Counted
  /\ \/ server' \in {"absent", "stopped", "loaded"} /\ UNCHANGED dialect
     \/ dialect' \in Dialects \cup {"plain", "down"} /\ UNCHANGED server
  /\ UNCHANGED <<cache, registry, row, pc, answer, copy, behind>>

Reads(t) == Ask(t) \/ Store(t) \/ Snapshot(t)
Writes(t) == Put(t) \/ Save(t)
ListStep == Wants("list") \/ Reads("list") \/ Merge \/ Replace \/ Sync \/ Save("list")
ActionStep == Reads("action") \/ Post \/ Writes("action")
RequestStep == Look \/ Writes("request")

Next ==
  \/ \E t \in Threads : Wants(t) \/ Reads(t) \/ Writes(t)
  \/ Merge \/ Replace \/ Sync
  \/ ActionBegin \/ Post
  \/ RequestBegin \/ Look
  \/ Restart \/ ServerChanges

Spec == Init /\ [][Next]_vars
-----------------------------------------------------------------------------
(* Properties.                                                             *)

(***************************************************************************)
(* A known state in the registry becomes unknown only where a copy made    *)
(* before the registry last changed is written over it, by a late writer   *)
(* or from a row that was not yet saved or was saved late.  Nobody who has *)
(* seen the known state loses it because the server's list is silent, an   *)
(* action fails or the controller starts again.                            *)
(***************************************************************************)
UnknownKeepsKnown ==
  [][(registry \in Known /\ registry' = "unknown") =>
       \/ \E t \in behind \cap Threads : pc'[t] # pc[t]
       \/ (Restart /\ "row" \in behind)]_vars

\* Threads go on, and the loop and the model service's refresh are periodic.
Fairness ==
  /\ \A t \in {"loop", "async"} : WF_vars(Wants(t) \/ Reads(t))
  /\ WF_vars(ListStep) /\ WF_vars(ActionStep) /\ WF_vars(RequestStep)

(***************************************************************************)
(* Once the server is left alone and answers, and no requests come, the    *)
(* cache is what the server lists, and so are registry and row, whatever   *)
(* older answers and copies were still to be stored: a listed model is     *)
(* there, in the listed state if the list says one, and one that is not    *)
(* listed is not, though its row stays.                                    *)
(***************************************************************************)
CatchesUp ==
  Fairness =>
    <>[](dialect # "down" =>
           /\ cache = Listed
           /\ registry = Listed \/ (Listed = "unknown" /\ registry # "none")
           /\ registry # "none" => row = registry)
=============================================================================
