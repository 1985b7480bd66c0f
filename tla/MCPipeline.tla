------------------------------ MODULE MCPipeline ------------------------------
(* Bundles for the model checking of Pipeline. *)
EXTENDS Pipeline

\* One item of each answer the layer resolver gives.
MCLayerItems == {[kind |-> "request", schema |-> ""],
                 [kind |-> "other", schema |-> "extension"],
                 [kind |-> "other", schema |-> ""]}

OneLayer == {[kind |-> "request", schema |-> ""]}

Guide(type, mapped, decides) ==
    [id |-> 1, type |-> type, mapped |-> mapped,
     claimsDecision |-> decides, claimsApproval |-> FALSE]

\* A workflow may claim to decide, an unmapped legacy rule may not.
MCGuidanceSets == {{Guide("workflow", FALSE, TRUE)},
                   {Guide("legacy", TRUE, TRUE), [Guide("policy", FALSE, FALSE) EXCEPT !.id = 2]},
                   {Guide("legacy", FALSE, TRUE)}}

OneGuidance == {{Guide("policy", FALSE, FALSE)}}

MCProjectionSources == {[type |-> t, anchored |-> FALSE] :
                            t \in {"policy", "decision", "task_state"}}

OneSource == {[type |-> "policy", anchored |-> TRUE]}

MCClasses == {"policy_failure", "approval_failure", "capability_resolution_failure",
              "projection_failure", "adapter_execution_failure", "provenance_failure",
              "audit_integrity_failure", "legacy_conflict_failure",
              "surface_portability_failure", "no_such_failure"}

\* Every class with every override, with and without a known trigger.
MCFailureInputs ==
    [class : MCClasses, override : Tiers \cup {""}, diagnosticsOnly : {FALSE},
     triggers : {{}, {"missing_approval"}, {"no_such_trigger"}}]

FewFailures ==
    {[class |-> c, override |-> "", diagnosticsOnly |-> c = "projection_failure",
      triggers |-> {}] : c \in {"provenance_failure", "projection_failure", "policy_failure"}}

MCStrictEvents == {"", "reset", "request_release", "release_approved"}

Target(path, asset) ==
    [path |-> path, declared |-> "", asset |-> asset, operation |-> "replace",
     ambiguous |-> TRUE, managedOnly |-> FALSE]

MCMutationTargets ==
    {Target(p, a) : p \in {{}, {"agents.md"}, {".atrakta/state/"}, {"/generated/"},
                           {"/generated/", "docs/generated/"}},
                    a \in {"policy", "none"}}

OneTarget == {Target({"/generated/"}, "repo_map")}

Asset(mapping, flags, integrity) ==
    [ownership |-> "known", freshness |-> "acceptable", mapping |-> mapping,
     flags |-> flags, integrity |-> integrity]

MCLegacyAssets == {Asset("exists", {}, "known"), Asset("exists", {"stale_review"}, ""),
                   Asset("missing", {}, "known"), Asset("exists", {"canonical_conflict"}, "known")}

OneAsset == {Asset("exists", {}, "known")}

MCCommands == {"doctor", "repair", "apply_repair"}
OneCommand == {"repair"}

Extend(kind, mutates) ==
    {[id |-> 1, kind |-> kind, mutatesCore |-> FALSE, constrains |-> FALSE,
      mutatesCanonical |-> mutates]}

MCExtensionSets == {Extend("plugin", TRUE), Extend("hook", TRUE)}
OneExtension == {Extend("policy", FALSE)}

\* Bindings that read nothing of what is there, write only the fallback, write
\* what is asked, or are not portable at all.
MCPortabilityInputs ==
    [requested : {{"agents_md"}, {"agents_md", "skill_bundle"}, {}},
     available : {{"repo_docs"}},
     sources   : {{}, {"repo_docs"}},
     targets   : {{"agents_md"}, {"ide_rules", "repo_docs"}},
     mode      : {"semantic_required", "unsupported"}]

OnePortability ==
    {[requested |-> {"agents_md"}, available |-> {"agents_md"}, sources |-> {"agents_md"},
      targets |-> {"agents_md"}, mode |-> "semantic_required"]}

MCAuditInputs == {[action |-> "propose", requested |-> 0, destructive |-> d] : d \in BOOLEAN}
OneAudit == {[action |-> "propose", requested |-> 0, destructive |-> FALSE]}

\* Every combination of what the resolvers that see only their own input answer.
FoldBundles ==
    [layer : MCLayerItems, guidance : MCGuidanceSets, projection : MCProjectionSources,
     failure : FewFailures, strict : [event : {""}, approved : {FALSE}],
     mutation : OneTarget, legacy : OneAsset, operation : OneCommand,
     extension : MCExtensionSets, portability : MCPortabilityInputs, audit : MCAuditInputs]

\* Every failure with every event and command, the other resolvers at rest.
RoutingBundles ==
    [layer : OneLayer, guidance : OneGuidance, projection : OneSource,
     failure : MCFailureInputs, strict : [event : MCStrictEvents, approved : BOOLEAN],
     mutation : OneTarget, legacy : OneAsset, operation : MCCommands,
     extension : OneExtension, portability : OnePortability, audit : OneAudit]

\* Every mutation target and legacy asset.
AssetBundles ==
    [layer : OneLayer, guidance : OneGuidance, projection : OneSource,
     failure : FewFailures, strict : [event : {""}, approved : {FALSE}],
     mutation : MCMutationTargets, legacy : MCLegacyAssets, operation : OneCommand,
     extension : OneExtension, portability : OnePortability, audit : OneAudit]

MCBundles == FoldBundles \cup RoutingBundles \cup AssetBundles
=============================================================================
