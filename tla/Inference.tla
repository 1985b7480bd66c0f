------------------------------ MODULE Inference ------------------------------
(***************************************************************************)
(* internal/onboarding: what a command infers from the files of the user's *)
(* project.  Pure functions from the set of the assets that exist and the  *)
(* set of the risk signals their text holds; Proposal and Mutation run     *)
(* them.  The lists of capabilities, guidance strengths and suggested next *)
(* actions are left out: nothing but the reader of a proposal uses them.   *)
(***************************************************************************)
EXTENDS Resolvers

\* What DetectAssets looks for, in the order of its stat calls.
Candidates ==
    <<"AGENTS.md", ".cursor", ".cursor/rules", ".github/workflows", "scripts",
      "docs", "skills", ".codex/skills", "tests", "src", "app", ".vscode",
      ".mcp.json", "mcp.json", "package.json", "pyproject.toml", "Cargo.toml">>

RuleDirs  == {".cursor", ".cursor/rules"}
Manifests == {"package.json", "pyproject.toml", "Cargo.toml"}

-----------------------------------------------------------------------------
\* inferModeFromAssets and detectConflicts.

\* hasAny.
Has(assets, names) == assets \cap names # {}

Weight(assets, names, points) == IF Has(assets, names) THEN points ELSE 0

Score(assets) ==
    Weight(assets, {"AGENTS.md"}, 2) + Weight(assets, RuleDirs, 2)
    + Weight(assets, {".github/workflows"}, 2) + Weight(assets, {"scripts"}, 1)
    + Weight(assets, {"docs"}, 1) + Weight(assets, Manifests, 1)

InferMode(assets) ==
    IF Score(assets) >= 3 THEN "brownfield_project" ELSE "new_project"

DuplicateGuidance(assets) == Has(assets, {"AGENTS.md"}) /\ Has(assets, RuleDirs)
ManyRuntimes(assets) == Cardinality(assets \cap Manifests) >= 2

DetectConflicts(assets) ==
    (IF DuplicateGuidance(assets) THEN {"duplicate guidance"} ELSE {})
        \cup (IF ManyRuntimes(assets) THEN {"runtime ecosystems"} ELSE {})

-----------------------------------------------------------------------------
\* detectRiskSignals.  The text of a surface is the set of the signals in it;
\* "script" says that package.json parses and names a script.

Surfaces == <<"package.json", ".github/workflows", "scripts">>
Signals  == {"script", "destructive", "send", "secret"}

\* The scripts of package.json are not searched for secrets, and without a
\* script it has nothing to search.
RisksOf(surface, text) ==
    IF surface # "package.json" THEN text \ {"script"}
    ELSE IF "script" \in text THEN text \ {"secret"} ELSE {}

-----------------------------------------------------------------------------
\* mapConflictsToFailure and inferFailureRouting.

\* Mutant: a risk without a conflict names no trigger and no failure.
FailureClassConflictsOnly(conflicts, risks) ==
    IF conflicts = {} THEN "projection_failure"
    ELSE IF "duplicate guidance" \in conflicts THEN "legacy_conflict_failure"
    ELSE IF "destructive" \in risks THEN "policy_failure"
    ELSE "capability_resolution_failure"

FailureClass(conflicts, risks) ==
    IF conflicts = {} /\ risks = {} THEN "projection_failure"
    ELSE IF "duplicate guidance" \in conflicts THEN "legacy_conflict_failure"
    ELSE IF "destructive" \in risks THEN "policy_failure"
    ELSE IF "runtime ecosystems" \in conflicts \/ "send" \in risks
         THEN "capability_resolution_failure"
    ELSE "legacy_conflict_failure"

\* The triggers that a conflict or a risk names.
NamedTriggers(conflicts, risks) ==
    (IF "duplicate guidance" \in conflicts
        THEN {"instruction_conflict", "policy_ambiguity"} ELSE {})
    \cup (IF "runtime ecosystems" \in conflicts \/ "send" \in risks
             THEN {"unresolved_capability"} ELSE {})
    \cup (IF "destructive" \in risks THEN {"policy_ambiguity"} ELSE {})

\* Mutant: every proposal carries the fallback trigger.
TriggersAlways(conflicts, risks) ==
    NamedTriggers(conflicts, risks) \cup {"policy_ambiguity"}

\* A risk that names none counts as an ambiguity of the policy.
Triggers(conflicts, risks) ==
    IF conflicts \cup risks # {} /\ NamedTriggers(conflicts, risks) = {}
    THEN {"policy_ambiguity"}
    ELSE NamedTriggers(conflicts, risks)

FailureRouting(conflicts, risks) ==
    FailureTier(FailureClass(conflicts, risks),
                [triggers        |-> Triggers(conflicts, risks),
                 override        |-> "",
                 diagnosticsOnly |-> conflicts = {} /\ risks = {}])

-----------------------------------------------------------------------------
\* InferDefaultPolicy, InferManagedScope and the bundle.

DefaultPolicy(mode) ==
    [read_only |-> "allow", local_write |-> "proposal_only",
     destructive |-> "deny", external_send |-> "deny",
     unknown_capability |-> "strict", unmapped_guidance |-> "advisory_only",
     managed_bootstrap_apply |->
        IF mode = "new_project" THEN "allow" ELSE "proposal_only"]

ProposalBundle(assets, risks) ==
    [assets    |-> assets,
     risks     |-> risks,
     mode      |-> InferMode(assets),
     policy    |-> DefaultPolicy(InferMode(assets)),
     conflicts |-> DetectConflicts(assets),
     triggers  |-> Triggers(DetectConflicts(assets), risks),
     routing   |-> FailureRouting(DetectConflicts(assets), risks)]
=============================================================================
