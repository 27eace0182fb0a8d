---------------------------- MODULE NodeContext ----------------------------
(***************************************************************************)
(* What an agent makes of a task's payload, and how it adds up a precheck. *)
(*                                                                         *)
(* A payload has two layers, the top level and "resolved_context", written *)
(* by different parts of the controller.  A text or list is taken from the *)
(* top level first, a policy flag from the nested level first.  The result *)
(* is written back to both layers, because the executors read the payload  *)
(* again.  A value that is not given is "".                                *)
(***************************************************************************)

Texts == {"scope", "instance", "binding", "template", "manifest", "version",
          "kind", "template_type", "mode", "model", "model_type",
          "model_format", "types", "formats", "endpoint", "exposed",
          "model_path", "path", "script", "container", "rules", "mounts",
          "env", "env_override", "command"}
Flags == {"override_ok", "script_ok"}

Layer == [Texts \cup Flags -> STRING]
Payload == [top : Layer, nested : Layer]

First(a, b) == IF a # "" THEN a ELSE b

\* The value of a field: texts from the top level, flags from the nested one.
Get(p, f) ==
  IF f \in Flags THEN First(p.nested[f], p.top[f])
                 ELSE First(p.top[f], p.nested[f])

\* Fields with a rule of their own: the model path has an older name, and a
\* task that names an instance is about that instance.
Resolved(p) ==
  [f \in Texts \cup Flags |->
     CASE f = "model_path" -> First(Get(p, "model_path"), Get(p, "path"))
       [] f = "scope" -> First(Get(p, "scope"),
                               IF Get(p, "instance") # "" THEN "runtime_instance"
                                                          ELSE "legacy")
       [] OTHER -> Get(p, f)]

\* What the executors find: every value that was resolved, in both layers.
Overlay(layer, ctx) ==
  [f \in Texts \cup Flags |-> First(ctx[f], layer[f])]

Applied(p, ctx) ==
  [top |-> Overlay(p.top, ctx), nested |-> Overlay(p.nested, ctx)]

\* A task about an instance must say which binding, template and manifest.
MissingFields(ctx) ==
  IF ctx["scope"] = "runtime_instance"
  THEN {f \in {"instance", "binding", "template", "manifest"} : ctx[f] = ""}
  ELSE {}

(* A precheck is added up check by check.                                  *)

ReasonCodes ==
  {"model_path_missing", "binding_invalid", "required_env_missing",
   "script_missing", "command_override_not_allowed",
   "script_mount_not_allowed", "model_type_mismatch",
   "model_format_mismatch", "port_conflict", "manifest_invalid"}

Overall == {"ok", "warning", "failed"}

\* Mutation: a failure after a warning leaves the warning.
Blocked_AfterWarning(r, code) ==
  [r EXCEPT !.gating = TRUE,
            !.overall = IF @ = "ok" THEN "failed" ELSE @,
            !.reasons = @ \cup {code}]

\* A check that fails blocks and gives its reason.
Blocked(r, code) ==
  [r EXCEPT !.gating = TRUE, !.overall = "failed",
            !.reasons = @ \cup {code}]

\* A warning never hides a failure.
Warned(r) ==
  [r EXCEPT !.overall = IF @ = "ok" THEN "warning" ELSE @]

BlockedIf(r, bad, code) == IF bad THEN Blocked(r, code) ELSE r
WarnedIf(r, odd) == IF odd THEN Warned(r) ELSE r

\* An empty list of supported values admits everything, "unknown" admits
\* every value that is given.
Compatible(supported, actual) ==
  supported # "" => actual # "" /\ supported \in {actual, "unknown"}

ScriptRequired(ctx) == ctx["mode"] = "generic_with_script" \/ ctx["script"] # ""

\* The manifest of a bundle of the user's own must be complete.
BundleIncomplete(ctx) ==
  /\ ctx["mode"] = "custom_bundle"
  /\ \E f \in {"manifest", "version", "kind", "template_type"} : ctx[f] = ""

\* The envelope of a result: a failed task is never "ok" overall.
Envelope(ok, overall) ==
  IF overall = "" THEN (IF ok THEN "ok" ELSE "failed")
  ELSE IF ~ok /\ overall = "ok" THEN "failed" ELSE overall
=============================================================================
