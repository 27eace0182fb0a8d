---------------------------- MODULE MCNodeTasks ----------------------------
(* Instances of NodeTasks for TLC: the tasks of one runtime, whose payload *)
(* says some things at the top level and some in the resolved context.     *)
EXTENDS NodeTasksProofs, TLC

Task(type, top, nested) ==
  [type |-> type, payload |-> [top |-> top @@ Blank, nested |-> nested @@ Blank]]

OfInstance ==
  "instance" :> "i" @@ "binding" :> "b" @@ "template" :> "t" @@ "manifest" :> "f"
OfContainer == "container" :> "c"
AtEndpoint == "endpoint" :> "8080"

\* A runtime with a script, mounts, an environment and two ports; one flag of
\* its two layers forbids what the other allows.
Demanding ==
  Task("precheck",
       AtEndpoint @@ "path" :> "weights" @@ "script" :> "entry"
         @@ "env" :> "TOKEN" @@ "env_override" :> "TOKEN"
         @@ "override_ok" :> "yes" @@ "command" :> "serve",
       OfInstance @@ OfContainer @@ "rules" :> "weights"
         @@ "mounts" :> "models" @@ "exposed" :> "9090"
         @@ "override_ok" :> "yes" @@ "types" :> "unknown"
         @@ "model_type" :> "embedding")

\* A bundle of the user's own that leaves out its kind, and breaks the rules.
Careless ==
  Task("precheck",
       OfInstance @@ "path" :> "weights" @@ "mode" :> "custom_bundle"
         @@ "model" :> "m" @@ "env" :> "TOKEN",
       "mounts" :> "models" @@ "script_ok" :> "no" @@ "override_ok" :> "no"
         @@ "command" :> "serve" @@ "formats" :> "gguf")

\* The usual case: a container with one endpoint and a model.
Plain ==
  Task("precheck", OfContainer @@ AtEndpoint @@ "model_path" :> "weights",
       OfInstance @@ "mounts" :> "models")

AllWorks ==
  {Demanding, Careless, Plain,
   Task("inspect", OfContainer, OfInstance),
   Task("start", OfInstance, OfContainer),
   Task("stop", OfContainer, Blank),
   Task("stop", Blank, Blank),
   Task("inspect", "instance" :> "i", OfContainer),
   Task("path", "path" :> "weights", Blank),
   Task("port", AtEndpoint, Blank),
   Task("readiness", "model" :> "m", Blank),
   Task("readiness", AtEndpoint, Blank),
   Task("snapshot", Blank, Blank)}
=============================================================================
