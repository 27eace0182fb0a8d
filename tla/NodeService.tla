---------------------------- MODULE NodeService ----------------------------
(***************************************************************************)
(* The node service, for one node: listing the nodes, which probes their   *)
(* runtimes, and what agents' reports tell of them.                        *)
(*                                                                         *)
(* Both read the node, work on what they have read and write it back, to   *)
(* the registry in memory and then to the database, and nothing keeps two  *)
(* of them apart.  A node is copied, but its runtimes are an array that    *)
(* copies share: it is changed in place until a listing, having merged the *)
(* database's rows, puts a new one there.                                  *)
(*                                                                         *)
(* Of the node's metadata, notes are the reports whose entries it holds.   *)
(***************************************************************************)
EXTENDS Naturals, Sequences, FiniteSets

CONSTANTS
  Runtimes,
  Configs,     \* what may be configured: the runtimes to probe, in order
  Lists,       \* calls of ListNodes that may be under way
  Reports,     \* agents' task reports
  Tales,       \* what a report may tell: a runtime and its state, or nothing
  HasPing,     \* the controller's system has a ping
  NoNode,
  MaxFaults,   \* bound: failed reads and writes of the database
  MaxChanges   \* bound: changes of what answers, and crashes

VARIABLES
  up,          \* the runtimes, and the host, that answer
  checked,     \* the enabled runtimes the controller has an adapter for
  running,     \* the controller runs
  registry,    \* the node in memory
  arrays,      \* arrays[a]: the states of the runtimes in an array
  row,         \* the node in the database
  at,          \* at[t]: where a call is
  held,        \* held[t]: its copy of the node
  answers,     \* answers[l]: what a listing has found out
  missed,      \* missed[t]: reports recorded since the call has read the node
  kept, safe,  \* reports the registry, and the database, should still hold
  faults, changes

calls == <<at, held, answers, missed>>
vars == <<up, checked, running, registry, arrays, row, calls, kept, safe,
          faults, changes>>

Threads == Lists \cup Reports
\* Enough for one more than the registry and all calls refer to.
Arrays == 1..Cardinality(Threads) + 2
Statuses == {"unknown", "online", "offline"}
Blank == [r \in Runtimes |-> "unknown"]
NoAnswers == [r \in Runtimes \cup {"host"} |-> "unknown"]

Copies == [status : Statuses, notes : SUBSET Reports, array : Arrays]
Rows == [status : Statuses, notes : SUBSET Reports, runtimes : [Runtimes -> Statuses]]

TypeOK ==
  /\ up \subseteq Runtimes \cup {"host"} /\ checked \in Configs
  /\ running \in BOOLEAN
  /\ registry \in Copies \cup {NoNode} /\ row \in Rows \cup {NoNode}
  /\ arrays \in [Arrays -> [Runtimes -> Statuses]]
  /\ at \in [Threads -> {"idle", "read", "probe", "apply", "save", "done"}]
  /\ held \in [Threads -> Copies \cup {NoNode}]
  /\ answers \in [Lists -> [Runtimes \cup {"host"} -> Statuses]]
  /\ missed \in [Threads -> SUBSET Reports]
  /\ kept \subseteq Reports /\ safe \subseteq Reports
  /\ faults \in 0..MaxFaults /\ changes \in 0..MaxChanges

Init ==
  /\ up = {} /\ checked = CHOOSE c \in Configs : TRUE
  /\ running = FALSE
  /\ registry = NoNode /\ row = NoNode
  /\ arrays = [a \in Arrays |-> Blank]
  /\ at = [t \in Threads |-> "idle"] /\ held = [t \in Threads |-> NoNode]
  /\ answers = [l \in Lists |-> NoAnswers]
  /\ missed = [t \in Threads |-> {}]
  /\ kept = {} /\ safe = {}
  /\ faults = 0 /\ changes = 0

-----------------------------------------------------------------------------
(* Nodes in memory and in the database.                                    *)

Referred == {c.array : c \in ({registry} \cup {held[t] : t \in Threads}) \ {NoNode}}
Free == CHOOSE a \in Arrays \ Referred : \A b \in Arrays \ Referred : a <= b

\* The arrays afterwards: what nobody refers to any more is gone.
Memory(content) ==
  arrays' = [a \in Arrays |-> IF a \in Referred' THEN content[a] ELSE Blank]

With(a, runtimes) == [arrays EXCEPT ![a] = runtimes]
CopyOf(node, a) == [status |-> node.status, notes |-> node.notes, array |-> a]
RowOf(copy, runtimes) ==
  [status |-> copy.status, notes |-> copy.notes, runtimes |-> runtimes]

Known(status, otherwise) == IF status = "unknown" THEN otherwise ELSE status

\* Mutation: of the two, the stored metadata wins.
Merged_StoredNotes(base, stored) ==
  [status |-> Known(base.status, stored.status),
   notes |-> stored.notes,
   runtimes |-> [r \in Runtimes |-> Known(base.runtimes[r], stored.runtimes[r])]]

\* mergeNode: what is known in memory wins; so does metadata, which a
\* configured node always has.
Merged(base, stored) ==
  [status |-> Known(base.status, stored.status),
   notes |-> base.notes,
   runtimes |-> [r \in Runtimes |-> Known(base.runtimes[r], stored.runtimes[r])]]

\* mergeNodes, if the database is read and knows the node.
Seen(inMemory, read) ==
  CASE inMemory = NoNode -> read
    [] read = NoNode -> inMemory
    [] OTHER -> Merged(inMemory, read)

\* Fails or not: n failures more.
Fails(n) == faults + n <= MaxFaults /\ faults' = faults + n

-----------------------------------------------------------------------------
(* The controller starts and ends.                                         *)

FromConfig == [status |-> "unknown", notes |-> {}, runtimes |-> Blank]

\* NewNodeRegistry and SyncRegistryToStore.  The node may have been taken out
\* of the configuration; an error of the read is passed over, and what is
\* configured is written over what could not be read.
Boot(configured, readFails, writeFails) ==
  /\ ~running /\ running' = TRUE
  /\ row = NoNode => configured /\ ~readFails
  /\ Fails(Cardinality({f \in {1, 2} : <<readFails, writeFails>>[f]}))
  /\ IF configured THEN checked' \in Configs ELSE UNCHANGED checked
  /\ UNCHANGED <<up, calls, changes>>
  /\ LET node == Seen(IF configured THEN FromConfig ELSE NoNode,
                      IF readFails THEN NoNode ELSE row)
         present == node # NoNode
     IN  /\ registry' = IF present THEN CopyOf(node, 1) ELSE NoNode
         /\ Memory(IF present THEN With(1, node.runtimes) ELSE arrays)
         /\ row' = IF present /\ ~writeFails THEN node ELSE row
  /\ kept' = IF configured \/ readFails THEN {} ELSE safe
  /\ safe' = IF configured THEN {} ELSE safe

Crash ==
  /\ running /\ running' = FALSE
  /\ changes < MaxChanges /\ changes' = changes + 1
  /\ registry' = NoNode
  /\ at' = [t \in Threads |-> IF t \in Reports /\ at[t] # "idle" THEN "done" ELSE "idle"]
  /\ held' = [t \in Threads |-> NoNode]
  /\ answers' = [l \in Lists |-> NoAnswers]
  /\ missed' = [t \in Threads |-> {}]
  /\ Memory(arrays)
  /\ kept' = {}
  /\ UNCHANGED <<up, checked, row, safe, faults>>

\* What a check asks.
Asked == IF checked = <<>> THEN {"host"} ELSE {checked[i] : i \in 1..Len(checked)}

AnswersChange ==
  /\ changes < MaxChanges /\ changes' = changes + 1
  /\ up' \in SUBSET Asked /\ up' # up
  /\ UNCHANGED <<checked, running, registry, arrays, row, calls, kept, safe, faults>>

-----------------------------------------------------------------------------
(* What calls do.                                                          *)

Goes(t, place) == at' = [at EXCEPT ![t] = place]

\* What a call has read stands until its end; whatever is recorded meanwhile
\* it does not know of.
Takes(t, copy) ==
  /\ held' = [held EXCEPT ![t] = copy]
  /\ missed' = [missed EXCEPT ![t] = {}]

\* The call puts its copy into the registry.
Upserts(t, copy) ==
  /\ registry' = copy
  /\ held' = [held EXCEPT ![t] = copy]
  /\ missed' = [u \in Threads |->
       IF at[u] \notin {"idle", "done"} /\ u # t /\ t \in Reports THEN missed[u] \cup {t} ELSE missed[u]]
  /\ kept' = (kept \ missed[t]) \cup ({t} \cap Reports)
  /\ safe' = safe \ missed[t]
  /\ Goes(t, "save")

\* UpsertNodeWithRuntimes: the runtimes are those of the array as it is now.
Written(t) == RowOf(held[t], arrays[held[t].array])

\* And into the database, unless that fails.
Save(t, fails) ==
  /\ at[t] = "save"
  /\ Fails(IF fails THEN 1 ELSE 0)
  /\ row' = IF fails THEN row ELSE Written(t)
  /\ safe' = IF fails THEN safe ELSE (safe \ missed[t]) \cup ({t} \cap kept)
  /\ Goes(t, IF t \in Reports THEN "done" ELSE "idle")
  /\ Takes(t, NoNode)
  /\ answers' = [l \in Lists |-> IF l = t THEN NoAnswers ELSE answers[l]]
  /\ UNCHANGED <<up, checked, running, registry, kept, changes>>
  /\ Memory(arrays)

-----------------------------------------------------------------------------
(* Listing.                                                                *)

InMemory == IF registry = NoNode THEN NoNode ELSE RowOf(registry, arrays[registry.array])

Begin(l) ==
  /\ running /\ at[l] = "idle"
  /\ Takes(l, registry)
  /\ Goes(l, "read")
  /\ UNCHANGED <<up, checked, running, registry, arrays, row, answers, kept, safe,
                 faults, changes>>

\* The merge makes an array of its own; without it the registry's is taken.
\* Nothing is left to do if neither knows the node.
Read(l, fails) ==
  LET mine == held[l]
      read == IF fails THEN NoNode ELSE row
      node == Seen(IF mine = NoNode THEN NoNode ELSE RowOf(mine, arrays[mine.array]), read)
      array == IF read = NoNode THEN mine.array ELSE Free
  IN  /\ at[l] = "read"
      /\ Fails(IF fails THEN 1 ELSE 0)
      /\ UNCHANGED <<up, checked, running, registry, row, answers, missed, kept,
                     safe, changes>>
      /\ IF node = NoNode
         THEN Goes(l, "idle") /\ UNCHANGED <<held, arrays>>
         ELSE /\ Goes(l, "probe")
              /\ held' = [held EXCEPT ![l] = CopyOf(node, array)]
              /\ Memory(With(array, node.runtimes))

\* The answer of a runtime's health check, or of the ping.
Answer(i) ==
  CASE i = "host" /\ ~HasPing -> "unknown"
    [] i \in up -> "online"
    [] OTHER -> "offline"

\* Mutation: a runtime that does not answer ends the check as well.
Ends_FirstAnswer(r, rest) == TRUE

\* The first runtime that answers ends the check, or the last one.
Ends(r, rest) == r \in up \/ rest = <<>>

\* runtimeHealthCheckFirst: the node is what the last runtime checked is, and
\* what was not reached is unknown; the host is pinged if there is nothing to
\* check.
Probe(l) ==
  LET left == SelectSeq(checked, LAMBDA r : answers[l][r] = "unknown")
  IN  /\ at[l] = "probe"
      /\ \/ /\ checked # <<>>
            /\ LET r == Head(left)
                   ends == Ends(r, Tail(left))
               IN  /\ answers' = [answers EXCEPT
                        ![l][r] = Answer(r),
                        ![l]["host"] = IF ends THEN Answer(r) ELSE "unknown"]
                   /\ Goes(l, IF ends THEN "apply" ELSE "probe")
         \/ /\ checked = <<>>
            /\ answers' = [answers EXCEPT ![l]["host"] = Answer("host")]
            /\ Goes(l, "apply")
      /\ UNCHANGED <<up, checked, running, registry, arrays, row, held, missed,
                     kept, safe, faults, changes>>

\* Every runtime gets what was found out, and unknown if that is nothing.
Apply(l) ==
  /\ at[l] = "apply"
  /\ Upserts(l, [held[l] EXCEPT !.status = answers[l]["host"]])
  /\ Memory(With(held[l].array, [r \in Runtimes |-> answers[l][r]]))
  /\ UNCHANGED <<up, checked, running, row, answers, faults, changes>>

-----------------------------------------------------------------------------
(* Reports.                                                                *)

\* The report of a task tells how the runtime it names is, if it names one.
Told(runtimes, tale) ==
  [r \in Runtimes |-> IF r = tale.about THEN tale.status ELSE runtimes[r]]

\* GetNode, from memory if it is there, and the changes, in the array that is
\* shared then.
Observe(o, success, tale) ==
  LET node == IF registry # NoNode THEN InMemory ELSE row
      mine == IF registry # NoNode THEN registry.array ELSE Free
  IN  /\ running /\ at[o] = "idle"
      /\ node # NoNode
      /\ Takes(o, [status |-> IF success THEN "online" ELSE node.status,
                   notes |-> node.notes \cup {o}, array |-> mine])
      /\ Goes(o, "apply")
      /\ UNCHANGED <<up, checked, running, registry, row, answers, kept, safe, faults, changes>>
      /\ Memory(With(mine, Told(node.runtimes, tale)))

Record(o) ==
  /\ at[o] = "apply"
  /\ Upserts(o, held[o])
  /\ Memory(arrays)
  /\ UNCHANGED <<up, checked, running, row, answers, faults, changes>>

ListStep(l) ==
  \/ Begin(l) \/ Probe(l) \/ Apply(l)
  \/ \E f \in BOOLEAN : Read(l, f) \/ Save(l, f)
ReportStep(o) == Record(o) \/ \E f \in BOOLEAN : Save(o, f)

Next ==
  \/ \E c, r, w \in BOOLEAN : Boot(c, r, w)
  \/ Crash
  \/ AnswersChange
  \/ \E l \in Lists : ListStep(l)
  \/ \E o \in Reports :
       ReportStep(o) \/ \E success \in BOOLEAN, tale \in Tales : Observe(o, success, tale)

Spec == Init /\ [][Next]_vars
-----------------------------------------------------------------------------
(* Properties.                                                             *)

(***************************************************************************)
(* What a report has noted about the node stays, in the registry and, once *)
(* it has been written there, in the database, until a call that had read  *)
(* the node before writes it back, or the controller starts with the node  *)
(* in its configuration.                                                   *)
(***************************************************************************)
ReportStays ==
  /\ registry # NoNode => kept \subseteq registry.notes
  /\ row # NoNode => safe \subseteq row.notes

\* What a listing would find now.
Found ==
  LET answering == SelectSeq(checked, LAMBDA r : r \in up)
      reached(r) ==
        /\ \E i \in 1..Len(checked) :
             /\ checked[i] = r
             /\ \A j \in 1..i - 1 : checked[j] \notin up
  IN  [host |-> CASE checked = <<>> -> Answer("host")
                  [] answering # <<>> -> "online"
                  [] OTHER -> "offline",
       runtimes |-> [r \in Runtimes |-> IF reached(r) THEN Answer(r) ELSE "unknown"]]

Shows(node, found) ==
  node # NoNode /\ node.status = found.host /\ node.runtimes = found.runtimes

\* Calls go on, and the nodes are listed again and again.
Fairness ==
  /\ \A l \in Lists : WF_vars(ListStep(l))
  /\ \A o \in Reports : WF_vars(ReportStep(o))

(***************************************************************************)
(* Once what answers does not change, the registry and the database say of *)
(* the node and its runtimes what a listing finds, whatever older copies   *)
(* were still to be written.                                               *)
(***************************************************************************)
NodesCatchUp ==
  Fairness =>
    <>[](registry # NoNode => Shows(InMemory, Found) /\ Shows(row, Found))
=============================================================================
