------------------------------ MODULE Resolvers ------------------------------
(***************************************************************************)
(* The resolvers of src/resolvers: pure functions from an input to a       *)
(* decision and a next allowed action.  A resolver answers with a record   *)
(* whose field next is the next_allowed_action of common.ResolverOutput;   *)
(* the other fields are the parts of the decision a caller reads.  Reasons *)
(* and evidence, which nothing reads back, are left out, and so is the     *)
(* lower-casing of inputs: inputs here are already normal forms.           *)
(***************************************************************************)
EXTENDS Naturals, FiniteSets

Actions == {"deny", "inspect", "preview", "simulate", "propose", "apply"}

\* rank: the order of restraint, 0 the most restrictive.
Rank(action) ==
    CASE action = "deny"     -> 0
      [] action = "inspect"  -> 1
      [] action = "preview"  -> 2
      [] action = "simulate" -> 3
      [] action = "propose"  -> 4
      [] action = "apply"    -> 5
      [] OTHER               -> 1

-----------------------------------------------------------------------------
\* classify-layer.

CoreKinds      == {"request", "decision", "result", "error"}
CanonicalKinds == {"capability", "policy", "task_state", "audit_event"}
ExtensionKinds == {"runtime_profile", "repo_map", "skill", "workflow", "provenance"}
Layers         == {"core", "canonical", "extension"}

\* A kind the table knows decides; otherwise the directory named in the schema
\* id does.
LayerOf(item) ==
    CASE item.kind \in CoreKinds      -> "core"
      [] item.kind \in CanonicalKinds -> "canonical"
      [] item.kind \in ExtensionKinds -> "extension"
      [] OTHER -> IF item.schema \in Layers THEN item.schema ELSE "unknown"

ClassifyLayer(item) ==
    [layer |-> LayerOf(item),
     next  |-> IF LayerOf(item) \in Layers THEN "inspect" ELSE "deny"]

-----------------------------------------------------------------------------
\* resolve-guidance-precedence and resolve-extension-order.  Items are records
\* whose id is a number standing for the id's place in string order.

\* The ids of the items that key ranks, in the order of SliceStable: by rank,
\* then by id.
OrderedIds(key) ==
    LET items == DOMAIN key
        Before(x) == {y \in items : \/ key[y] < key[x]
                                    \/ key[y] = key[x] /\ y.id < x.id}
    IN  [i \in 1..Cardinality(items) |->
            (CHOOSE x \in items : Cardinality(Before(x)) = i - 1).id]

Precedence(item) ==
    CASE item.type = "policy"    -> 1
      [] item.type = "workflow"  -> 2
      [] item.type = "skill"     -> 3
      [] item.type = "tool_hint" -> 5
      [] item.type = "legacy"    -> IF item.mapped THEN 1 ELSE 4
      [] OTHER                   -> 4

\* Strength follows from the type and the mapping alone: precedence 4 is
\* advisory, 5 a hint, less than 4 a constraint or executable guidance.
Advisory(item) == Precedence(item) >= 4

GuidanceViolations(items) ==
    {it \in items : \/ it.claimsDecision /\ Advisory(it)
                    \/ it.claimsApproval}

GuidancePrecedence(items) ==
    [items      |-> items,
     ordered    |-> OrderedIds([it \in items |-> Precedence(it)]),
     violations |-> GuidanceViolations(items),
     next       |-> IF GuidanceViolations(items) = {} THEN "propose" ELSE "deny"]

ExtensionRank(item) ==
    CASE item.kind = "policy"            -> 1
      [] item.kind = "workflow"          -> 2
      [] item.kind = "skill"             -> 3
      [] item.kind = "tool_hint"         -> 4
      [] item.kind = "hook"              -> 5
      [] item.kind \in {"plugin", "projection_plugin"} -> 6
      [] item.kind = "mcp"               -> 7
      [] OTHER                           -> 8

ExtensionViolations(items) ==
    {it \in items : \/ it.mutatesCore
                    \/ it.constrains
                    \/ it.kind = "hook" /\ it.mutatesCanonical}

ExtensionOrder(items) ==
    [items      |-> items,
     ordered    |-> OrderedIds([it \in items |-> ExtensionRank(it)]),
     violations |-> ExtensionViolations(items),
     next       |-> IF ExtensionViolations(items) = {} THEN "propose" ELSE "deny"]

-----------------------------------------------------------------------------
\* check-projection-eligibility.

ProjectionEligibility(source) ==
    CASE source.type \in {"policy", "repo_map", "skill", "workflow"} ->
            [eligibility |-> "allowed", root |-> TRUE, next |-> "propose"]
      [] source.type \in {"decision", "result"} ->
            [eligibility |-> "conditional", root |-> source.anchored, next |-> "inspect"]
      [] OTHER ->
            [eligibility |-> "forbidden", root |-> FALSE, next |-> "deny"]

-----------------------------------------------------------------------------
\* resolve-failure-tier.

Tiers == {"BLOCK", "DEGRADE_TO_STRICT", "PROPOSAL_ONLY", "WARN_ONLY"}

StrictTriggers == {"stale_state", "unresolved_capability",
                   "unsupported_projection_surface", "missing_approval",
                   "workspace_mismatch", "policy_ambiguity",
                   "instruction_conflict", "audit_guarantee_shortfall"}

\* failureRules; a class the table does not know is handled as a block that
\* cannot be overridden.
DefaultTier(class) ==
    CASE class \in {"policy_failure", "audit_integrity_failure"} -> "BLOCK"
      [] class \in {"approval_failure", "adapter_execution_failure",
                    "legacy_conflict_failure"} -> "DEGRADE_TO_STRICT"
      [] class \in {"capability_resolution_failure", "provenance_failure",
                    "surface_portability_failure"} -> "PROPOSAL_ONLY"
      [] class = "projection_failure" -> "WARN_ONLY"
      [] OTHER -> "BLOCK"

Overridable(class) ==
    class \in {"capability_resolution_failure", "projection_failure",
               "adapter_execution_failure", "provenance_failure",
               "legacy_conflict_failure", "surface_portability_failure"}

\* Mutant: any class can be overridden.
ResolvedTierAnyOverride(class, ctx) ==
    IF ctx.override \in Tiers THEN ctx.override ELSE DefaultTier(class)

\* A diagnostics-only projection failure is given the tier it has by default,
\* so the flag changes the allow matrix alone.
ResolvedTier(class, ctx) ==
    IF Overridable(class) /\ ctx.override \in Tiers
    THEN ctx.override
    ELSE DefaultTier(class)

StrictTransition(tier, triggers) ==
    IF triggers \cap StrictTriggers # {} \/ tier = "DEGRADE_TO_STRICT" THEN "strict"
    ELSE IF tier = "PROPOSAL_ONLY" THEN "guarded" ELSE "none"

\* allowMatrix: whether execution and projection may go on.
ExecutionAllowed(class, tier) ==
    CASE class = "projection_failure"        -> TRUE
      [] class = "adapter_execution_failure" -> FALSE
      [] OTHER                               -> tier = "WARN_ONLY"

ProjectionAllowed(class, tier, diagnosticsOnly) ==
    CASE class = "projection_failure"        -> diagnosticsOnly
      [] class = "adapter_execution_failure" -> TRUE
      [] OTHER                               -> tier # "BLOCK"

FailureTier(class, ctx) ==
    LET tier == ResolvedTier(class, ctx)
    IN  [class      |-> class,
         tier       |-> tier,
         transition |-> StrictTransition(tier, ctx.triggers),
         execution  |-> ExecutionAllowed(class, tier),
         projection |-> ProjectionAllowed(class, tier, ctx.diagnosticsOnly),
         next       |-> CASE tier = "BLOCK"         -> "deny"
                          [] tier = "PROPOSAL_ONLY" -> "propose"
                          [] OTHER                  -> "inspect"]

-----------------------------------------------------------------------------
\* strict-state-machine.

States == {"normal", "guarded", "strict", "released"}

\* Mutant: a reset lifts strict.
NextStateResetLifts(state, event, approved) ==
    CASE state = "normal"   /\ event = "trigger_guarded" -> "guarded"
      [] state \in {"normal", "guarded"} /\ event = "trigger_strict" -> "strict"
      [] state = "strict"   /\ event = "release_approved" /\ approved -> "released"
      [] state # "normal"   /\ event = "reset"           -> "normal"
      [] OTHER -> state

\* The transition table; every pair it does not list leaves the state alone.
NextState(state, event, approved) ==
    CASE state = "normal"   /\ event = "trigger_guarded" -> "guarded"
      [] state = "normal"   /\ event = "trigger_strict"  -> "strict"
      [] state = "guarded"  /\ event = "trigger_strict"  -> "strict"
      [] state = "guarded"  /\ event = "reset"           -> "normal"
      [] state = "strict"   /\ event = "release_approved" /\ approved -> "released"
      [] state = "released" /\ event = "reset"           -> "normal"
      [] OTHER -> state

\* allowedActions: what the state machine says may still be done in a state.
StateActions(state) ==
    CASE state \in {"normal", "released"} -> Actions \ {"deny"}
      [] state \in {"guarded", "strict"}  -> Actions \ {"deny", "apply"}
      [] OTHER                            -> {"inspect"}

Transition(in) ==
    LET state == NextState(in.state, in.event, in.approved)
    IN  [input   |-> in,
         state   |-> state,
         allowed |-> StateActions(state),
         next    |-> CASE state \in {"guarded", "strict"} -> "propose"
                       [] state = "normal" /\ in.state = "released" -> "apply"
                       [] OTHER -> "inspect"]

-----------------------------------------------------------------------------
\* check-mutation-scope.  A path is the set of the fragments it contains.

\* The rules in the order they are tried.
ScopeRules ==
    << [has |-> {"/generated/"},                           is |-> "generated_projection"],
       [has |-> {"/canonical/"},                           is |-> "managed_block"],
       [has |-> {".atrakta/audit/", ".atrakta/state/"},    is |-> "managed_block"],
       [has |-> {"docs/generated/"},                       is |-> "managed_include"],
       [has |-> {"agents.md", "rules"},                    is |-> "proposal_patch_only"] >>

\* A declared scope is taken as it is; otherwise the first rule that matches.
ResolveScope(target) ==
    LET hits == {i \in 1..5 : target.path \cap ScopeRules[i].has # {}}
    IN  IF target.declared # "" THEN target.declared
        ELSE IF hits = {} THEN "unmanaged_user_region"
        ELSE ScopeRules[CHOOSE i \in hits : \A j \in hits : i <= j].is

ManagedScopes == {"managed_block", "managed_include", "generated_projection"}
ProposalModes == Actions \ {"deny", "apply"}

\* An asset whose kind forbids more than a proposal, whatever the scope allows.
ProposalOnlyAsset(target) ==
    \/ target.asset = "policy" /\ target.operation = "replace" /\ ~target.managedOnly
    \/ target.asset = "existing_user_rules" /\ target.ambiguous

MutationScope(target) ==
    LET scope == ResolveScope(target)
    IN  [input    |-> target,
         scope    |-> scope,
         implicit |-> scope \in {"managed_block", "generated_projection"},
         modes    |-> IF scope \in ManagedScopes /\ ~ProposalOnlyAsset(target)
                      THEN Actions \ {"deny"} ELSE ProposalModes,
         next     |-> IF /\ scope \in {"managed_block", "generated_projection"}
                         /\ target.asset \notin {"repo_map", "tool_config"}
                         /\ ~ProposalOnlyAsset(target)
                      THEN "apply" ELSE "propose"]

-----------------------------------------------------------------------------
\* resolve-legacy-status; asset.flags holds the drift flags that are set.

Drift(asset) ==
    asset.flags
        \cup (IF asset.ownership = "unknown" THEN {"owner_unknown"} ELSE {})
        \cup (IF asset.freshness = "unknown" THEN {"freshness_unknown"} ELSE {})
        \cup (IF asset.integrity = "unknown" THEN {"integrity_unknown"} ELSE {})

CanAutoPromote(asset) ==
    /\ asset.ownership = "known"
    /\ asset.freshness = "acceptable"
    /\ asset.mapping = "exists"
    /\ asset.integrity \in {"known", ""}
    /\ Drift(asset) = {}

StrictDrift == {"canonical_conflict", "missing_mapped_target", "integrity_unknown"}

LegacyStatus(asset) ==
    [status  |-> IF CanAutoPromote(asset) THEN "canonicalized"
                 ELSE IF asset.mapping = "exists" THEN "partially_mapped"
                 ELSE "reference_only",
     routing |-> IF Drift(asset) \cap StrictDrift # {} THEN "strict_escalate"
                 ELSE IF Drift(asset) # {} THEN "proposal" ELSE "warn",
     next    |-> IF CanAutoPromote(asset) THEN "propose" ELSE "inspect"]

-----------------------------------------------------------------------------
\* resolve-operation-capability.  Action classes 1, 2, 3 are inspect_only,
\* propose_only and apply_mutation, in the order of the resolver's rank.

\* aliasMap and capabilityAction composed; an unknown command becomes
\* inspect_health.
ActionClass(command) ==
    CASE command = "apply_repair"                 -> 3
      [] command \in {"repair", "propose_repair"} -> 2
      [] OTHER                                    -> 1

CeilingForTier(tier) ==
    CASE tier = "BLOCK"     -> 1
      [] tier = "WARN_ONLY" -> 3
      [] OTHER              -> 2

OperationCapability(command, tier) ==
    LET base      == ActionClass(command)
        effective == IF base < CeilingForTier(tier) THEN base ELSE CeilingForTier(tier)
    IN  [base      |-> base,
         effective |-> effective,
         next      |-> <<"inspect", "propose", "apply">>[effective]]

-----------------------------------------------------------------------------
\* resolve-surface-portability.

FallbackTarget(target) ==
    CASE target = "agents_md"    -> "ide_rules"
      [] target = "ide_rules"    -> "agents_md"
      [] target = "skill_bundle" -> "repo_docs"
      [] OTHER                   -> ""

\* The plan of the requested targets over what the binding can read (sources)
\* and write (targets): each one is supported, degraded or unsupported.
SurfacePortability(in) ==
    LET ingest      == in.sources \cap in.available
        refused     == in.mode = "unsupported"
        supported   == {t \in in.requested : ~refused /\ ingest # {} /\ t \in in.targets}
        degraded    == {t \in in.requested \ supported :
                           ~refused /\ ingest # {} /\ FallbackTarget(t) \in in.targets}
        unsupported == in.requested \ (supported \cup degraded)
    IN  [input       |-> in,
         supported   |-> supported,
         degraded    |-> degraded,
         unsupported |-> unsupported,
         status      |-> IF unsupported # {} THEN "unsupported"
                         ELSE IF degraded # {} THEN "degraded" ELSE "supported",
         next        |-> IF unsupported # {} THEN "inspect" ELSE "propose"]

-----------------------------------------------------------------------------
\* resolve-audit-requirements: integrity levels 0..3 are A0..A3; a requested
\* level can only raise the level of the action.

BaseLevel(action) ==
    CASE action \in {"inspect", "diagnostics"}             -> 0
      [] action \in {"propose", "apply", "mutation"}       -> 2
      [] action \in {"release", "archive", "checkpoint"}   -> 3
      [] OTHER                                             -> 1

AuditRequirements(in) ==
    [level  |-> IF in.requested > BaseLevel(in.action)
                THEN in.requested ELSE BaseLevel(in.action),
     dryRun |-> in.action = "archive" \/ in.destructive,
     next   |-> IF in.destructive THEN "propose" ELSE "inspect"]
=============================================================================
