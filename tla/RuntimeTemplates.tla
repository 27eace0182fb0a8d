-------------------------- MODULE RuntimeTemplates --------------------------
(***************************************************************************)
(* Runtime templates, their manifests and the bindings of one model.       *)
(*                                                                         *)
(* Templates are listed in memory: the built-in and configured ones from   *)
(* the start, uploaded ones until the controller ends.  Their manifests    *)
(* and the bindings that refer to both are rows in the database.  A        *)
(* template's manifest is stored when it is first asked for, under an id   *)
(* of its own, which an upload chooses, and is never stored again.  Writes *)
(* may fail, reads do not.                                                 *)
(*                                                                         *)
(* A template is described by what validation and compatibility look at.   *)
(***************************************************************************)
EXTENDS Naturals, Sequences

CONSTANTS
  Order,        \* the ids of templates in their order
  Provided,     \* the built-in and configured templates, one to an id
  Uploads,      \* what clients upload
  Operators,    \* the bindings operators may ask for
  Nothing,
  Model,        \* the model: its kind, and the template it is to have
  MaxRequests,  \* bound: uploads, bindings and restarts
  MaxWriteFaults

Ids == {Order[i] : i \in 1..Len(Order)}
Kinds == {"chat", "embedding", "unknown"}
Modes == {"dedicated", "generic_injected", "generic_with_script", "custom_bundle"}
Verdicts == {"compatible", "warning", "incompatible"}

VARIABLES
  up,         \* the controller runs
  listed,     \* listed[i]: the template in memory, or none
  rows,       \* rows[m]: the manifest in the database, or none
  bindings,   \* bindings[i]: the model's binding to template i, or none
  claimed,    \* templates that an upload's manifest has mixed up with others
  requests, writeFaults

vars == <<up, listed, rows, bindings, claimed, requests, writeFaults>>

-----------------------------------------------------------------------------
(* Validation.                                                             *)

\* normalizeAndValidateManifest: whether there are no errors, and the manifest
\* with its default.
ManifestValid(m) == m.complete /\ m.mode \in Modes \cup {""}

\* Mutation: the default is left out.
NormalManifest_NoDefault(m) == m

NormalManifest(m) == [m EXCEPT !.mode = IF m.mode = "" THEN "generic_injected" ELSE m.mode]

OrElse(value, empty, otherwise) == IF value = empty THEN otherwise ELSE value

\* manifestFromTemplate
Derived(t) ==
  [id |-> t.id, template |-> t.id, complete |-> TRUE, mode |-> "generic_injected"]

\* Mutation: the supported kinds are filled in before the capabilities.
Filled_KindsFirst(t) ==
  [t EXCEPT !.kinds = OrElse(t.kinds, {}, t.caps), !.caps = OrElse(t.caps, {}, {t.hint})]

\* Capabilities from what the texts suggest; supported kinds from those.
Filled(t) ==
  LET caps == OrElse(t.caps, {}, {t.hint})
  IN  [t EXCEPT !.caps = caps, !.kinds = OrElse(t.kinds, {}, caps)]

\* ValidateTemplate: defaults are filled in, each of two fields that mean the
\* same from the other, and a manifest that is missing is derived.
Normal(t) ==
  LET runtime == OrElse(t.runtime, "", "docker")
      images == IF t.image = {} \/ runtime \notin {"docker", "portainer"}
                THEN t.image ELSE {"image", "image_ref"}
      ports == IF t.ports = {} THEN {} ELSE {"ports", "exposed_ports"}
      full == Filled([t EXCEPT !.runtime = runtime, !.image = images, !.ports = ports])
      manifest == IF t.manifest = Nothing THEN Derived(full)
                  ELSE LET m == NormalManifest(t.manifest)
                       IN  [m EXCEPT !.template = OrElse(m.template, "", t.id)]
  IN  [full EXCEPT !.manifest = manifest]

Valid(t) ==
  /\ t.id \in Ids /\ t.named
  /\ OrElse(t.runtime, "", "docker") \in {"docker", "portainer"} /\ t.image # {}
  /\ t.sound
  /\ t.manifest # Nothing => ManifestValid(t.manifest)

-----------------------------------------------------------------------------
(* Manifests.                                                              *)

\* The first by order of some ids.
First(ids) ==
  Order[CHOOSE n \in 1..Len(Order) :
          Order[n] \in ids /\ \A k \in 1..n - 1 : Order[k] \notin ids]

\* GetRuntimeBundleManifestByTemplateID: a manifest of the template, the first
\* by id, before one whose id is the template's.
Stored(stored, i) ==
  LET own == {m \in Ids : stored[m] # Nothing /\ stored[m].template = i}
  IN  CASE own # {} -> First(own)
        [] own = {} /\ stored[i] # Nothing -> i
        [] OTHER -> Nothing

\* The manifest a listed template has to store.
ToStore(templates, i) ==
  LET m == OrElse(templates[i].manifest, Nothing, Derived(templates[i]))
  IN  NormalManifest([m EXCEPT !.id = OrElse(m.id, "", i),
                               !.template = OrElse(m.template, "", i)])

\* GetTemplateManifest: the rows afterwards, and the manifest's id, or none if
\* the template is not listed or the write fails.
Manifested(templates, stored, i, fails) ==
  LET found == Stored(stored, i)
      m == ToStore(templates, i)
  IN  CASE found # Nothing -> [rows |-> stored, id |-> found]
        [] found = Nothing /\ (templates[i] = Nothing \/ fails) -> [rows |-> stored, id |-> ""]
        [] OTHER -> [rows |-> [stored EXCEPT ![m.id] = m], id |-> m.id]

\* Mutation: the manifest counts as stored although the write failed.
Taken_Anyway(templates, stored, i, fails) ==
  [Manifested(templates, stored, i, FALSE) EXCEPT
     !.rows = IF fails THEN stored ELSE Manifested(templates, stored, i, FALSE).rows]

Taken(templates, stored, i, fails) == Manifested(templates, stored, i, fails)

-----------------------------------------------------------------------------
(* Bindings.                                                               *)

Unsupported(t) == t.kinds # {} /\ t.kinds \cap {Model.kind, "unknown"} = {}

\* evaluateBindingCompatibility
Compatibility(b, t) ==
  CASE b.mode = "dedicated" /\ ~t.dedicated -> "warning"
    [] b.mode = "generic_with_script" /\ ~t.script -> "incompatible"
    [] OTHER -> IF Unsupported(t) \/ b.mode \in {"generic_with_script", "custom_bundle"}
                THEN "warning" ELSE "compatible"

\* normalizeAndValidateBinding
Acceptable(b) ==
  /\ listed[b.template] # Nothing
  /\ b.mode = "generic_with_script" => b.scripted
  /\ b.mode = "custom_bundle" => b.manifest # ""

Judged(b) == [b EXCEPT !.verdict = Compatibility(b, listed[b.template])]

\* findBindingByModel
Existing ==
  LET bound == {i \in Ids : bindings[i] # Nothing}
  IN  IF bound = {} THEN Nothing ELSE bindings[First(bound)]

\* Mutation: a binding that is there is left as it is.
Again_Unjudged(b) == b

\* ensureBindingForModel, for a binding that is there.
Again(b) == IF Acceptable(b) THEN Judged(b) ELSE b

\* And for a model that has none.
Generated(manifest) ==
  LET t == listed[Model.template]
  IN  Judged([template |-> Model.template, scripted |-> FALSE, manifest |-> manifest,
              mode |-> IF t.dedicated THEN "dedicated" ELSE "generic_injected",
              generated |-> TRUE, verdict |-> "compatible"])

-----------------------------------------------------------------------------
Manifests == [id : Ids, template : Ids, complete : {TRUE}, mode : Modes]

TypeOK ==
  /\ up \in BOOLEAN
  /\ \A i \in Ids :
       /\ listed[i] # Nothing => listed[i].id = i
       /\ rows[i] # Nothing => rows[i] \in Manifests /\ rows[i].id = i
       /\ bindings[i] # Nothing =>
            /\ bindings[i].template = i /\ bindings[i].mode \in Modes
            /\ bindings[i].manifest \in Ids \cup {""}
            /\ bindings[i].verdict \in Verdicts
  /\ claimed \subseteq Ids
  /\ requests \in 0..MaxRequests /\ writeFaults \in 0..MaxWriteFaults

Init ==
  /\ up = FALSE
  /\ listed = [i \in Ids |-> Nothing]
  /\ rows = [i \in Ids |-> Nothing] /\ bindings = [i \in Ids |-> Nothing]
  /\ claimed = {}
  /\ requests = 0 /\ writeFaults = 0

Fails(fails) ==
  IF fails THEN writeFaults < MaxWriteFaults /\ writeFaults' = writeFaults + 1
  ELSE UNCHANGED writeFaults

Asked == requests < MaxRequests /\ requests' = requests + 1

\* SyncTemplateManifests: the rows after the first n templates, and after all;
\* the write for one of them may fail.
Synced(templates, failing) ==
  LET after[n \in 0..Len(Order)] ==
        IF n = 0 THEN rows
        ELSE Taken(templates, after[n - 1], Order[n], Order[n] = failing).rows
  IN  after[Len(Order)]

\* RegisterBuiltins, RegisterFromConfig and SyncTemplateManifests; the bindings
\* follow when the models are synced.
Start(failing) ==
  /\ ~up /\ up' = TRUE
  /\ Fails(failing # Nothing)
  /\ listed' = [i \in Ids |->
       IF \E t \in Provided : t.id = i THEN CHOOSE t \in Provided : t.id = i ELSE Nothing]
  /\ rows' = Synced(listed', failing)
  /\ UNCHANGED <<bindings, claimed, requests>>

Ends ==
  /\ up /\ up' = FALSE /\ Asked
  /\ listed' = [i \in Ids |-> Nothing]
  /\ UNCHANGED <<rows, bindings, claimed, writeFaults>>

\* The templates an uploaded manifest mixes up: the one it comes with, the one
\* it says it is for, and the one whose id it has taken.
Claims(t) ==
  LET named == IF t.manifest = Nothing THEN {} ELSE {t.manifest.id, t.manifest.template} \ {""}
  IN  IF named \subseteq {t.id} THEN {} ELSE named \cup {t.id}

\* RegisterTemplate
Upload(t) ==
  /\ up /\ Asked
  /\ Valid(t)
  /\ listed' = [listed EXCEPT ![t.id] = Normal(t)]
  /\ claimed' = claimed \cup Claims(t)
  /\ UNCHANGED <<up, rows, bindings, writeFaults>>

\* A manifest is asked for, by a client or by the tasks of a binding that does
\* not name one.
AskManifest(i, fails) ==
  /\ up /\ Fails(fails)
  /\ Stored(rows, i) = Nothing
  /\ rows' = Taken(listed, rows, i, fails).rows
  /\ UNCHANGED <<up, listed, bindings, claimed, requests>>

\* CreateBinding; the manifest it names is not looked for.
Bind(b) ==
  /\ up /\ Asked
  /\ Acceptable(b)
  /\ bindings' = [bindings EXCEPT ![b.template] = Judged(b)]
  /\ UNCHANGED <<up, listed, rows, claimed, writeFaults>>

\* SyncModelRuntimeObjects, again and again: the manifest's write may fail, and
\* the binding's.
SyncModel(manifestFails, fails) ==
  /\ up
  /\ Fails(manifestFails \/ fails)
  /\ LET manifest == Taken(listed, rows, Model.template, manifestFails)
         b == IF Existing # Nothing THEN Again(Existing) ELSE Generated(manifest.id)
     IN  /\ Existing = Nothing => listed[Model.template] # Nothing
         /\ rows' = IF Existing = Nothing THEN manifest.rows ELSE rows
         /\ bindings' = IF fails THEN bindings ELSE [bindings EXCEPT ![b.template] = b]
  /\ UNCHANGED <<up, listed, claimed, requests>>

Next ==
  \/ \E failing \in Ids \cup {Nothing} : Start(failing)
  \/ Ends
  \/ \E t \in Uploads : Upload(t)
  \/ \E i \in Ids, f \in BOOLEAN : AskManifest(i, f)
  \/ \E b \in Operators : Bind(b)
  \/ \E f, g \in BOOLEAN : SyncModel(f, g)

Spec == Init /\ [][Next]_vars
-----------------------------------------------------------------------------
(* Properties.                                                             *)

(***************************************************************************)
(* A template that is listed passes the validation again and is not        *)
(* changed by it: it can be fetched and uploaded as it is.                 *)
(***************************************************************************)
ListedIsValid ==
  \A i \in Ids : listed[i] # Nothing => Valid(listed[i]) /\ Normal(listed[i]) = listed[i]

(***************************************************************************)
(* The binding the controller has made for a model, with a built-in or     *)
(* configured template, resolves whenever the controller runs: to a listed *)
(* template and a stored manifest, which is that template's own unless an  *)
(* upload has mixed it up with another's.                                  *)
(***************************************************************************)
BoundResolves ==
  \A i \in Ids :
    (up /\ bindings[i] # Nothing /\ bindings[i].generated /\ \E t \in Provided : t.id = i) =>
      /\ listed[i] # Nothing
      /\ bindings[i].manifest # "" =>
           /\ rows[bindings[i].manifest] # Nothing
           /\ rows[bindings[i].manifest].template = i \/ i \in claimed

Fairness == WF_vars(\E f, g \in BOOLEAN : SyncModel(f, g))

(***************************************************************************)
(* The binding that counts for the model comes to be judged by the         *)
(* template as it is, however often that is uploaded anew, and lost.       *)
(***************************************************************************)
VerdictFollows ==
  Fairness =>
    <>[]((up /\ Existing # Nothing /\ Acceptable(Existing)) =>
           Existing.verdict = Compatibility(Existing, listed[Existing.template]))
=============================================================================
