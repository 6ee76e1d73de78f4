---------------------------- MODULE MCRehearsals ----------------------------
(* Rehearsals of a private package with evidence and documentation, and of *)
(* a public one that needs a signature.                                    *)
EXTENDS Rehearsals

Plain ==
  [field \in SealedPolicy |->
     CASE field = "private" -> FALSE
       [] field = "release_notes" -> 1
       [] field = "outputs" ->
            [docs |-> FALSE, github_release |-> TRUE, sbom |-> FALSE, provenance |-> FALSE,
             signature |-> TRUE, allow_private_upload |-> FALSE]
       [] field = "verify_hook_definitions" -> <<Hook("lint", TRUE)>>
       [] field = "sidecar_hook_definitions" -> <<Hook("sign", TRUE), Hook("scan", FALSE)>>
       [] field \in {"notify_hooks", "notify_hook_definitions"} -> <<>>
       [] OTHER -> "committed"]
Private ==
  [Plain EXCEPT !["private"] = TRUE,
     !["outputs"] = [docs |-> TRUE, github_release |-> TRUE, sbom |-> TRUE, provenance |-> FALSE,
                     signature |-> FALSE, allow_private_upload |-> FALSE],
     !["verify_hook_definitions"] = <<Hook("test", TRUE), Hook("lint", FALSE)>>,
     !["sidecar_hook_definitions"] = <<Hook("scan", FALSE)>>]
MCPolicies == {Plain, Private}
=============================================================================
