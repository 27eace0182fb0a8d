---------------------------- MODULE MCTemplates ----------------------------
(* Instances of RuntimeTemplates for TLC.                                  *)
EXTENDS TLC

CONSTANTS Nothing, MaxRequests, MaxWriteFaults

Given ==
  [id |-> "tei", named |-> TRUE, runtime |-> "docker", image |-> {"image"},
   ports |-> {}, sound |-> TRUE, kinds |-> {}, caps |-> {}, hint |-> "embedding",
   script |-> FALSE, dedicated |-> FALSE, manifest |-> Nothing]
Brought(id, template, mode) ==
  [id |-> id, template |-> template, complete |-> TRUE, mode |-> mode]

Built == [Given EXCEPT !.image = {"image", "image_ref"}, !.kinds = {"embedding"},
                       !.caps = {"embedding"},
                       !.manifest = Brought("tei", "tei", "generic_injected")]
Configured == [Given EXCEPT !.id = "vllm", !.image = {"image", "image_ref"},
                            !.ports = {"ports", "exposed_ports"},
                            !.kinds = {"chat"}, !.caps = {"chat"}, !.hint = "chat",
                            !.manifest = Brought("vllm", "vllm", "generic_injected")]
MCProvided == {Built, Configured}

\* One more template, without an image once, with a manifest of its own that
\* names a built-in one twice; and a built-in one uploaded anew for other models.
MCUploads ==
  {[Given EXCEPT !.id = "custom", !.caps = {"chat"}],
   [Given EXCEPT !.id = "custom", !.image = {}],
   [Given EXCEPT !.id = "custom", !.script = TRUE, !.manifest = Brought("tei", "", "")],
   [Given EXCEPT !.id = "custom", !.manifest = Brought("", "vllm", "dedicated")],
   [Given EXCEPT !.hint = "chat", !.dedicated = TRUE]}

Wished(template, mode, scripted, manifest) ==
  [template |-> template, mode |-> mode, scripted |-> scripted,
   manifest |-> manifest, generated |-> FALSE, verdict |-> "compatible"]
MCOperators ==
  {Wished("custom", "generic_with_script", TRUE, ""),
   Wished("tei", "custom_bundle", FALSE, "vllm"),
   Wished("vllm", "dedicated", FALSE, "custom")}

MCModel == [kind |-> "embedding", template |-> "tei"]
MCOrder == <<"custom", "tei", "vllm">>
=============================================================================
