---------------------------- MODULE ProposalProofs ----------------------------
(***************************************************************************)
(* Proofs about Proposal.                                                  *)
(***************************************************************************)
EXTENDS Proposal, FiniteSetTheorems, TLAPS

Fact == (Varying \X {"exists"}) \cup (SurfaceNames \X Signals)

\* The types that the steps read.
Typed ==
  /\ assets \subseteq Varying
  /\ text \in [SurfaceNames -> Texts \cup {{}}]
  /\ edits \in 0..Edits
  /\ pc \in {"idle", "stat", "read"}
  /\ command \in Commands \cup {"none"}
  /\ at \in 1..(Len(Candidates) + 1) \cup 1..(Len(Surfaces) + 1)
  /\ edited \in BOOLEAN /\ stale \in BOOLEAN
  /\ asked \in Tiers \cup {"none"}

\* The history: what the project holds now lies between what it held all along
\* and what it held at some moment, and no risk outlives its surface.
History ==
  /\ kept \subseteq met /\ met \subseteq Fact
  /\ \A f \in kept : <<f[1], "exists">> \in kept
  /\ pc # "idle" => kept \subseteq Facts(assets, text) /\ Facts(assets, text) \subseteq met

\* The detection has found nothing that was never there.
Grounded ==
  /\ seen \subseteq Varying /\ risks \subseteq Signals
  /\ \A asset \in seen : <<asset, "exists">> \in met
  /\ \A r \in risks : \E s \in SurfaceNames : <<s, r>> \in met

\* It has missed nothing that stayed: no asset among the first stat calls, no
\* risk among the first n surfaces.
Found(asset) == <<asset, "exists">> \in kept => asset \in seen
Read(n) == \A i \in 1..Len(Surfaces) : \A r \in Signals :
             i < n /\ <<Surfaces[i], r>> \in kept => r \in risks

Thorough ==
  /\ pc = "stat" => \A i \in Stats : i < at => Found(Candidates[i])
  /\ pc = "read" => (\A asset \in Varying : Found(asset)) /\ Read(at)
  /\ bundle # {} => (\A asset \in Varying : Found(asset)) /\ Read(Len(Surfaces) + 1)

\* Without an edit it has found the project as it is.
Exact ==
  /\ ~edited => seen \subseteq assets
  /\ ~edited /\ pc = "stat" =>
       \A i \in Stats : i < at /\ Candidates[i] \in assets => Candidates[i] \in seen
  /\ ~edited /\ (pc = "read" \/ bundle # {}) => seen = assets
  /\ pc # "idle" /\ edited => stale

\* The proposal and the answer are those of what was found; an accepted proposal
\* is one of what was found then.
Derived ==
  /\ pc # "idle" => bundle = {} /\ answer = {}
  /\ bundle \subseteq {ProposalBundle(seen, risks)}
  /\ answer # {} => command \in {"inspect", "run", "run --apply"}
  /\ command = "inspect" /\ answer # {} =>
       answer = {PipelineFailure(ProposalBundle(seen, risks), asked)}
  /\ command \in {"run", "run --apply"} /\ answer # {} =>
       /\ answer = {RunFailure(seen, command = "run --apply")}
       /\ ~stale => seen = assets
  /\ \A b \in accepted :
       /\ accepted = {b} /\ b = ProposalBundle(b.assets, b.risks)
       /\ b.assets \subseteq Varying /\ b.risks \subseteq Signals
       /\ ~stale => b.assets = assets

ProposalInv == Typed /\ History /\ Grounded /\ Thorough /\ Exact /\ Derived
-----------------------------------------------------------------------------
(* The inference: functions of what was found. *)

LEMMA ConflictsAre ==
  ASSUME NEW a
  PROVE  /\ DetectConflicts(a) \subseteq {"duplicate guidance", "runtime ecosystems"}
         /\ "duplicate guidance" \in DetectConflicts(a) <=> DuplicateGuidance(a)
         /\ "runtime ecosystems" \in DetectConflicts(a) <=> ManyRuntimes(a)
         /\ DetectConflicts(a) # {} <=> DuplicateGuidance(a) \/ ManyRuntimes(a)
BY DEF DetectConflicts

\* What is found among more assets is found.
LEMMA ConflictsGrow ==
  ASSUME NEW a, NEW b, a \subseteq b
  PROVE  /\ DuplicateGuidance(a) => DuplicateGuidance(b)
         /\ ManyRuntimes(a) => ManyRuntimes(b)
<1>1. DuplicateGuidance(a) => DuplicateGuidance(b)
  BY DEF DuplicateGuidance, Has
<1>2. IsFiniteSet(Manifests)
  <2>1. IsFiniteSet({"package.json"} \cup {"pyproject.toml"} \cup {"Cargo.toml"})
    BY FS_Singleton, FS_Union
  <2>2. Manifests = {"package.json"} \cup {"pyproject.toml"} \cup {"Cargo.toml"}
    BY DEF Manifests
  <2> QED
    BY <2>1, <2>2
<1>3. IsFiniteSet(a \cap Manifests) /\ IsFiniteSet(b \cap Manifests)
  BY <1>2, FS_Subset
<1>4. /\ Cardinality(a \cap Manifests) \in Nat /\ Cardinality(b \cap Manifests) \in Nat
      /\ Cardinality(a \cap Manifests) <= Cardinality(b \cap Manifests)
  BY <1>3, FS_Subset, FS_CardinalityType
<1> QED
  BY <1>1, <1>4 DEF ManyRuntimes

LEMMA TriggersAre ==
  ASSUME NEW c \in SUBSET {"duplicate guidance", "runtime ecosystems"},
         NEW r \in SUBSET Signals
  PROVE  /\ Triggers(c, r) \subseteq {"instruction_conflict", "policy_ambiguity", "unresolved_capability"}
         /\ Triggers(c, r) = {} <=> c = {} /\ r = {}
         /\ "instruction_conflict" \in Triggers(c, r) => "duplicate guidance" \in c
         /\ "unresolved_capability" \in Triggers(c, r) => "runtime ecosystems" \in c \/ "send" \in r
         /\ "policy_ambiguity" \in Triggers(c, r) => "duplicate guidance" \in c \/ r # {}
<1>1. Triggers(c, r) \subseteq {"instruction_conflict", "policy_ambiguity", "unresolved_capability"}
  BY DEF Triggers, NamedTriggers
<1>2. Triggers(c, r) = {} <=> c = {} /\ r = {}
  BY DEF Triggers, NamedTriggers
<1>3. /\ "instruction_conflict" \in Triggers(c, r) => "duplicate guidance" \in c
      /\ "unresolved_capability" \in Triggers(c, r) => "runtime ecosystems" \in c \/ "send" \in r
  BY DEF Triggers, NamedTriggers
<1>4. "policy_ambiguity" \in Triggers(c, r) => "duplicate guidance" \in c \/ r # {}
  <2>1. CASE r = {} /\ "duplicate guidance" \notin c /\ c # {}
    BY <2>1 DEF Triggers, NamedTriggers
  <2> QED
    BY <1>2, <2>1
<1> QED
  BY <1>1, <1>2, <1>3, <1>4

LEMMA ClassIs ==
  ASSUME NEW c, NEW r
  PROVE  /\ FailureClass(c, r) \in {"projection_failure", "legacy_conflict_failure",
                                     "policy_failure", "capability_resolution_failure"}
         /\ FailureClass(c, r) = "projection_failure" <=> c = {} /\ r = {}
         /\ "duplicate guidance" \in c => FailureClass(c, r) = "legacy_conflict_failure"
BY DEF FailureClass

\* No override is asked for here, so the tier is the default one.
LEMMA RoutingIs ==
  ASSUME NEW c, NEW r
  PROVE  /\ FailureRouting(c, r).class = FailureClass(c, r)
         /\ FailureRouting(c, r).transition
              = StrictTransition(DefaultTier(FailureClass(c, r)), Triggers(c, r))
         /\ FailureRouting(c, r).execution
              <=> ExecutionAllowed(FailureClass(c, r), DefaultTier(FailureClass(c, r)))
         /\ FailureRouting(c, r).tier = DefaultTier(FailureClass(c, r))
BY DEF FailureRouting, FailureTier, ResolvedTier, Tiers

LEMMA BundleIs ==
  ASSUME NEW a, NEW r
  PROVE  /\ ProposalBundle(a, r).assets = a /\ ProposalBundle(a, r).risks = r
         /\ ProposalBundle(a, r).conflicts = DetectConflicts(a)
         /\ ProposalBundle(a, r).triggers = Triggers(DetectConflicts(a), r)
         /\ ProposalBundle(a, r).routing = FailureRouting(DetectConflicts(a), r)
BY DEF ProposalBundle

LEMMA DangerIsStrict ==
  ASSUME NEW c \in SUBSET {"duplicate guidance", "runtime ecosystems"},
         NEW r \in SUBSET Signals, c # {} \/ r # {}
  PROVE  FailureRouting(c, r).transition = "strict" /\ ~FailureRouting(c, r).execution
<1>1. PICK class, t : class = FailureClass(c, r) /\ t = Triggers(c, r)
  OBVIOUS
<1>2. t \cap StrictTriggers # {}
  <2>1. t # {} /\ t \subseteq {"instruction_conflict", "policy_ambiguity", "unresolved_capability"}
    BY <1>1, TriggersAre
  <2> QED
    BY <2>1 DEF StrictTriggers
<1>3. class \in {"legacy_conflict_failure", "policy_failure", "capability_resolution_failure"}
  BY <1>1, ClassIs
<1>4. ~ExecutionAllowed(class, DefaultTier(class))
  BY <1>3 DEF ExecutionAllowed, DefaultTier
<1>5. StrictTransition(DefaultTier(class), t) = "strict"
  BY <1>2 DEF StrictTransition
<1> QED
  BY <1>1, <1>4, <1>5, RoutingIs

LEMMA QuietIsFree ==
  FailureRouting({}, {}).transition = "none" /\ FailureRouting({}, {}).execution
<1>1. FailureClass({}, {}) = "projection_failure" /\ Triggers({}, {}) = {}
  BY DEF FailureClass, Triggers, NamedTriggers
<1>2. StrictTransition(DefaultTier("projection_failure"), {}) = "none"
  BY DEF StrictTransition, DefaultTier
<1>3. ExecutionAllowed("projection_failure", DefaultTier("projection_failure"))
  BY DEF ExecutionAllowed
<1> QED
  BY <1>1, <1>2, <1>3, RoutingIs

\* The pipeline decides by the class and the triggers of the proposal, at the
\* tier asked for where the class gives way to it.
LEMMA PipelineIs ==
  ASSUME NEW a, NEW r, NEW override,
         NEW d, d = PipelineFailure(ProposalBundle(a, r), override),
         NEW class, class = FailureClass(DetectConflicts(a), r),
         NEW tier, tier = IF Overridable(class) /\ override \in Tiers THEN override
                          ELSE DefaultTier(class)
  PROVE  /\ d.class = class /\ d.tier = tier
         /\ d.transition = StrictTransition(tier, Triggers(DetectConflicts(a), r))
         /\ d.execution = ExecutionAllowed(class, tier)
         /\ d.projection = ProjectionAllowed(class, tier, DetectConflicts(a) = {})
<1> DEFINE ctx == [triggers |-> Triggers(DetectConflicts(a), r), override |-> override,
                   diagnosticsOnly |-> DetectConflicts(a) = {}]
<1>1. d = FailureTier(class, ctx)
  <2>1. /\ ProposalBundle(a, r).triggers = Triggers(DetectConflicts(a), r)
        /\ ProposalBundle(a, r).conflicts = DetectConflicts(a)
        /\ ProposalBundle(a, r).routing.class = class
    BY RoutingIs, BundleIs
  <2> QED
    BY <2>1 DEF PipelineFailure
<1>2. ResolvedTier(class, ctx) = tier
  BY DEF ResolvedTier
<1> QED
  BY <1>1, <1>2 DEF FailureTier

\* The two ways to compute diagnosticsOnly differ where nothing reads it.
LEMMA DiagnosticsAlike ==
  ASSUME NEW c, NEW r, NEW tier, NEW class, class = FailureClass(c, r)
  PROVE  ProjectionAllowed(class, tier, c = {}) = ProjectionAllowed(class, tier, c = {} /\ r = {})
<1>1. CASE class = "projection_failure"
  <2>1. c = {} /\ r = {}
    BY <1>1, ClassIs
  <2> QED
    BY <2>1
<1>2. CASE class # "projection_failure"
  BY <1>2 DEF ProjectionAllowed
<1> QED
  BY <1>1, <1>2

\* At the tier it was announced with, the decision is the one announced.
LEMMA PipelineAgrees ==
  ASSUME NEW a, NEW r, NEW override,
         NEW class, class = FailureClass(DetectConflicts(a), r),
         ~(Overridable(class) /\ override \in Tiers)
  PROVE  PipelineFailure(ProposalBundle(a, r), override) = ProposalBundle(a, r).routing
<1> DEFINE c == DetectConflicts(a)
           one == [triggers |-> Triggers(c, r), override |-> override,
                   diagnosticsOnly |-> c = {}]
           two == [triggers |-> Triggers(c, r), override |-> "",
                   diagnosticsOnly |-> c = {} /\ r = {}]
<1>1. PipelineFailure(ProposalBundle(a, r), override) = FailureTier(class, one)
  <2>1. /\ ProposalBundle(a, r).triggers = Triggers(c, r)
        /\ ProposalBundle(a, r).conflicts = c
        /\ ProposalBundle(a, r).routing.class = class
    BY RoutingIs, BundleIs
  <2> QED
    BY <2>1 DEF PipelineFailure
<1>2. ProposalBundle(a, r).routing = FailureTier(class, two)
  BY DEF ProposalBundle, FailureRouting
<1>3. ResolvedTier(class, one) = DefaultTier(class)
  BY DEF ResolvedTier
<1>4. ResolvedTier(class, two) = DefaultTier(class)
  BY DEF ResolvedTier, Tiers
<1>5. ProjectionAllowed(class, DefaultTier(class), one.diagnosticsOnly)
        = ProjectionAllowed(class, DefaultTier(class), two.diagnosticsOnly)
  BY DiagnosticsAlike
<1>6. FailureTier(class, one) = FailureTier(class, two)
  BY <1>3, <1>4, <1>5 DEF FailureTier
<1> QED
  BY <1>1, <1>2, <1>6

\* Whatever the override: a danger stays strict, only a WARN_ONLY lifts the ban
\* on execution and only a BLOCK forbids a projection.
LEMMA OverrideIsBounded ==
  ASSUME NEW a, NEW r \in SUBSET Signals, NEW override,
         NEW d, d = PipelineFailure(ProposalBundle(a, r), override),
         NEW f, f = ProposalBundle(a, r).routing
  PROVE  /\ d.class = f.class
         /\ f.transition = "strict" => d.transition = "strict"
         /\ d # f => Overridable(d.class) /\ override \in Tiers /\ d.tier = override
         /\ d.execution /\ ~f.execution => override = "WARN_ONLY"
         /\ f.projection /\ ~d.projection => override = "BLOCK"
<1>1. PICK class, tier, t :
        /\ class = FailureClass(DetectConflicts(a), r)
        /\ tier = IF Overridable(class) /\ override \in Tiers THEN override
                  ELSE DefaultTier(class)
        /\ t = Triggers(DetectConflicts(a), r)
  OBVIOUS
<1>2. /\ d.class = class /\ d.tier = tier
      /\ d.transition = StrictTransition(tier, t)
      /\ d.execution = ExecutionAllowed(class, tier)
      /\ d.projection = ProjectionAllowed(class, tier, DetectConflicts(a) = {})
  BY <1>1, PipelineIs
<1>3. f = FailureRouting(DetectConflicts(a), r) /\ f.class = class
  BY <1>1, RoutingIs, BundleIs
<1>4. CASE ~(Overridable(class) /\ override \in Tiers)
  <2>1. d = f
    BY <1>1, <1>4, PipelineAgrees
  <2> QED
    BY <2>1
<1>5. CASE Overridable(class) /\ override \in Tiers
  <2>1. tier = override
    BY <1>1, <1>5
  <2>2. class \in {"projection_failure", "legacy_conflict_failure",
                   "capability_resolution_failure"}
    BY <1>1, <1>5, ClassIs DEF Overridable
  <2>3. f.transition = "strict" => d.transition = "strict"
    <3>1. t \subseteq {"instruction_conflict", "policy_ambiguity", "unresolved_capability"}
      BY <1>1, ConflictsAre, TriggersAre
    <3>2. CASE t = {}
      <4>1. DetectConflicts(a) = {} /\ r = {}
        BY <1>1, <3>2, ConflictsAre, TriggersAre
      <4>2. f.transition = "none"
        BY <1>3, <4>1, QuietIsFree
      <4> QED
        BY <4>2
    <3>3. CASE t # {}
      <4>1. t \cap StrictTriggers # {}
        BY <3>1, <3>3 DEF StrictTriggers
      <4> QED
        BY <1>2, <4>1 DEF StrictTransition
    <3> QED
      BY <3>2, <3>3
  <2>4. d.execution /\ ~f.execution => override = "WARN_ONLY"
    <3>1. f.execution <=> ExecutionAllowed(class, DefaultTier(class))
      BY <1>1, <1>3, RoutingIs
    <3>2. CASE class = "projection_failure"
      BY <3>1, <3>2 DEF ExecutionAllowed
    <3>3. CASE class # "projection_failure"
      <4>1. ExecutionAllowed(class, tier) <=> tier = "WARN_ONLY"
        BY <2>2, <3>3 DEF ExecutionAllowed
      <4> QED
        BY <1>2, <2>1, <4>1
    <3> QED
      BY <3>2, <3>3
  <2>5. f.projection /\ ~d.projection => override = "BLOCK"
    <3>1. f.projection = ProjectionAllowed(class, DefaultTier(class), DetectConflicts(a) = {})
      <4>1. \E other : f = PipelineFailure(ProposalBundle(a, r), other) /\ other \notin Tiers
        <5>1. "none" \notin Tiers
          BY DEF Tiers
        <5> QED
          BY <1>1, <5>1, PipelineAgrees
      <4> QED
        BY <1>1, <4>1, PipelineIs
    <3>2. CASE class = "projection_failure"
      BY <1>2, <3>1, <3>2 DEF ProjectionAllowed
    <3>3. CASE class # "projection_failure"
      <4>1. ProjectionAllowed(class, tier, DetectConflicts(a) = {}) <=> tier # "BLOCK"
        BY <2>2, <3>3 DEF ProjectionAllowed
      <4> QED
        BY <1>2, <2>1, <4>1
    <3> QED
      BY <3>2, <3>3
  <2> QED
    BY <1>2, <1>3, <1>5, <2>1, <2>3, <2>4, <2>5
<1> QED
  BY <1>4, <1>5

\* run and onboarding answer duplicate guidance alike.
LEMMA RunIs ==
  ASSUME NEW a, NEW apply \in BOOLEAN, DuplicateGuidance(a)
  PROVE  /\ RunFailure(a, apply).class =
                IF apply THEN "approval_failure" ELSE "legacy_conflict_failure"
         /\ RunFailure(a, apply).transition = "strict"
         /\ RunFailure(a, apply).execution = FALSE
BY DEF RunFailure, FailureTier, ResolvedTier, Tiers, DefaultTier, StrictTransition,
       ExecutionAllowed

LEMMA ProposalIs ==
  ASSUME NEW a, NEW r, DuplicateGuidance(a)
  PROVE  /\ ProposalBundle(a, r).routing.class = "legacy_conflict_failure"
         /\ ProposalBundle(a, r).routing.transition = "strict"
         /\ ProposalBundle(a, r).routing.execution = FALSE
<1>1. PICK c : c = DetectConflicts(a) /\ "duplicate guidance" \in c
  BY ConflictsAre
<1>2. /\ FailureRouting(c, r).class = "legacy_conflict_failure"
      /\ FailureRouting(c, r).transition = "strict"
      /\ FailureRouting(c, r).execution = FALSE
  BY <1>1 DEF FailureRouting, FailureClass, FailureTier, ResolvedTier, Tiers, DefaultTier,
              StrictTransition, ExecutionAllowed
<1> QED
  BY <1>1, <1>2 DEF ProposalBundle

-----------------------------------------------------------------------------
(* The facts of a project. *)

LEMMA FactsAre ==
  ASSUME NEW a \in SUBSET Varying, NEW t
  PROVE  /\ Facts(a, t) \subseteq Fact
         /\ \A f \in Facts(a, t) : <<f[1], "exists">> \in Facts(a, t)
         /\ \A asset : <<asset, "exists">> \in Facts(a, t) <=> asset \in a
         /\ \A s : \A r \in Signals :
              <<s, r>> \in Facts(a, t) <=> s \in SurfaceNames \cap a /\ r \in RisksOf(s, t[s])
<1>1. "exists" \notin Signals
  BY DEF Signals
<1>2. Facts(a, t) \subseteq Fact
  BY DEF Facts, Fact
<1>3. \A asset : <<asset, "exists">> \in Facts(a, t) <=> asset \in a
  BY <1>1 DEF Facts
<1>4. \A s : \A r \in Signals :
        <<s, r>> \in Facts(a, t) <=> s \in SurfaceNames \cap a /\ r \in RisksOf(s, t[s])
  BY <1>1 DEF Facts
<1>5. \A f \in Facts(a, t) : f[1] \in a
  BY DEF Facts
<1> QED
  BY <1>2, <1>3, <1>4, <1>5

LEMMA RisksAre ==
  ASSUME NEW s \in SurfaceNames, text \in [SurfaceNames -> Texts \cup {{}}]
  PROVE  RisksOf(s, text[s]) \subseteq Signals
<1>1. text[s] \subseteq Signals
  BY ProposalAssumption
<1> QED
  BY <1>1 DEF RisksOf

LEMMA StatsAre ==
  /\ Len(Candidates) \in Nat /\ Len(Surfaces) \in Nat
  /\ 1 \in 1..(Len(Candidates) + 1)
  /\ Stats \subseteq 1..Len(Candidates)
  /\ \A i \in Stats : Candidates[i] \in Varying
  /\ \A asset \in Varying : \E i \in Stats : Candidates[i] = asset
<1>1. Len(Candidates) \in Nat /\ Len(Surfaces) \in Nat
  BY DEF Candidates, Surfaces
<1> QED
  BY <1>1, ProposalAssumption DEF Stats

-----------------------------------------------------------------------------
(* What the steps change. *)

LEMMA EditStep ==
  ASSUME Typed, Edit
  PROVE  /\ assets' \subseteq Varying /\ text' \in [SurfaceNames -> Texts \cup {{}}]
         /\ edits' \in 0..Edits /\ edited' = TRUE /\ stale' = TRUE
         /\ kept' = IF pc = "idle" THEN kept ELSE kept \cap Facts(assets', text')
         /\ met' = IF pc = "idle" THEN met ELSE met \cup Facts(assets', text')
         /\ UNCHANGED <<pc, command, at, seen, risks, bundle, answer, asked, accepted>>
<1>1. assets' \subseteq Varying
  BY DEF Edit, Typed
<1>2. text' \in [SurfaceNames -> Texts \cup {{}}]
  BY DEF Edit, Typed
<1>3. edits' \in 0..Edits
  BY ProposalAssumption DEF Edit, Typed
<1> QED
  BY <1>1, <1>2, <1>3 DEF Edit

LEMMA StatStep ==
  ASSUME Typed, Stat
  PROVE  \E i \in Stats :
           /\ \A j \in Stats : j < i => j < at
           /\ seen' = IF Candidates[i] \in assets THEN seen \cup {Candidates[i]} ELSE seen
           /\ at' = i + 1 /\ at' \in 1..(Len(Candidates) + 1)
<1>1. PICK i \in Stats : /\ at <= i /\ (\A j \in Stats : at <= j => i <= j)
                         /\ seen' = seen \cup ({Candidates[i]} \cap assets)
                         /\ at' = i + 1
  BY DEF Stat
<1>2. i \in 1..Len(Candidates) /\ at \in Nat /\ \A j \in Stats : j \in Nat
  BY <1>1, StatsAre DEF Typed
<1>3. \A j \in Stats : j < i => j < at
  BY <1>1, <1>2
<1>4. i + 1 \in 1..(Len(Candidates) + 1)
  BY <1>2, StatsAre
<1>5. seen' = IF Candidates[i] \in assets THEN seen \cup {Candidates[i]} ELSE seen
  BY <1>1
<1> QED
  BY <1>1, <1>3, <1>4, <1>5

LEMMA TypedNext == Typed /\ [Next]_vars => Typed'
<1> SUFFICES ASSUME Typed, [Next]_vars PROVE Typed'
  OBVIOUS
<1>1. CASE Edit
  BY <1>1, EditStep DEF Typed
<1>2. CASE Stat
  <2>1. at' \in 1..(Len(Candidates) + 1)
    BY <1>2, StatStep
  <2> QED
    BY <1>2, <2>1 DEF Stat, Typed, project
<1>3. CASE ReadSurface
  <2>1. at' \in 1..(Len(Surfaces) + 1)
    BY <1>3, StatsAre DEF ReadSurface, Typed
  <2> QED
    BY <1>3, <2>1 DEF ReadSurface, Typed, project
<1>4. ASSUME NEW c \in Commands, Begin(c) PROVE Typed'
  BY <1>4, StatsAre DEF Begin, Typed, project
<1>5. CASE Listed
  BY <1>5, StatsAre DEF Listed, Typed, project
<1>6. CASE Onboard \/ Accept \/ AcceptFile \/ Inspect \/ Run
  BY <1>6 DEF Onboard, Accept, AcceptFile, Inspect, Run, Built, Typed, project
<1>7. CASE UNCHANGED vars
  BY <1>7 DEF Typed, vars
<1> QED
  BY <1>1, <1>2, <1>3, <1>4, <1>5, <1>6, <1>7 DEF Next

LEMMA HistoryNext == Typed /\ History /\ [Next]_vars => History'
<1> SUFFICES ASSUME Typed, History, [Next]_vars PROVE History'
  OBVIOUS
<1>1. CASE Edit
  <2>1. PICK F : F = Facts(assets', text')
    OBVIOUS
  <2>2. F \subseteq Fact /\ \A f \in F : <<f[1], "exists">> \in F
    BY <1>1, <2>1, EditStep, FactsAre
  <2>3. CASE pc = "idle"
    BY <1>1, <2>3, EditStep DEF History
  <2>4. CASE pc # "idle"
    <3>1. kept' = kept \cap F /\ met' = met \cup F /\ pc' = pc
      BY <1>1, <2>1, <2>4, EditStep
    <3>2. kept' \subseteq met' /\ met' \subseteq Fact /\ kept' \subseteq F /\ F \subseteq met'
      BY <2>2, <3>1 DEF History
    <3>3. \A f \in kept' : <<f[1], "exists">> \in kept'
      BY <2>2, <3>1 DEF History
    <3> QED
      BY <2>1, <3>2, <3>3 DEF History
  <2> QED
    BY <2>3, <2>4
<1>2. ASSUME NEW c \in Commands, Begin(c) PROVE History'
  <2>1. PICK F : F = Facts(assets, text)
    OBVIOUS
  <2>2. F \subseteq Fact /\ \A f \in F : <<f[1], "exists">> \in F
    BY <2>1, FactsAre DEF Typed
  <2>3. kept' = F /\ met' = F /\ Facts(assets, text)' = F
    BY <1>2, <2>1 DEF Begin, project
  <2> QED
    BY <2>2, <2>3 DEF History
<1>3. CASE UNCHANGED <<assets, text, kept, met>> /\ (pc' # "idle" => pc # "idle")
  <2>1. Facts(assets, text)' = Facts(assets, text)
    BY <1>3
  <2> QED
    BY <1>3, <2>1 DEF History
<1>4. CASE Stat \/ Listed \/ ReadSurface
  BY <1>3, <1>4 DEF Stat, Listed, ReadSurface, project
<1>5. CASE Onboard \/ Accept \/ AcceptFile \/ Inspect \/ Run
  BY <1>3, <1>5 DEF Onboard, Accept, AcceptFile, Inspect, Run, Built, project
<1>6. CASE UNCHANGED vars
  BY <1>3, <1>6 DEF vars
<1> QED
  BY <1>1, <1>2, <1>4, <1>5, <1>6 DEF Next

\* The steps that detect nothing, forget nothing and answer.
Closing == Onboard \/ Accept \/ AcceptFile \/ Inspect \/ Run

LEMMA ClosingStep ==
  ASSUME Closing
  PROVE  /\ UNCHANGED <<project, command, at, seen, risks, kept, met, edited>>
         /\ pc' = "idle"
         /\ \/ pc = "idle" /\ UNCHANGED <<bundle, answer>>
            \/ /\ pc = "read" /\ at > Len(Surfaces)
               /\ bundle' = {ProposalBundle(seen, risks)}
            \/ /\ pc = "stat" /\ (\A i \in Stats : i < at)
               /\ UNCHANGED <<bundle, accepted, stale>>
BY DEF Closing, Onboard, Accept, AcceptFile, Inspect, Run, Built

LEMMA GroundedNext == Typed /\ History /\ Grounded /\ [Next]_vars => Grounded'
<1> SUFFICES ASSUME Typed, History, Grounded, [Next]_vars PROVE Grounded'
  OBVIOUS
<1>1. CASE Edit
  <2>1. met \subseteq met' /\ seen' = seen /\ risks' = risks
    BY <1>1, EditStep
  <2> QED
    BY <2>1 DEF Grounded
<1>2. ASSUME NEW c \in Commands, Begin(c) PROVE Grounded'
  BY <1>2 DEF Begin, Grounded
<1>3. CASE Stat
  <2>1. PICK i \in Stats :
          seen' = IF Candidates[i] \in assets THEN seen \cup {Candidates[i]} ELSE seen
    BY <1>3, StatStep
  <2>2. risks' = risks /\ met' = met /\ pc = "stat"
    BY <1>3 DEF Stat
  <2>3. Candidates[i] \in assets => <<Candidates[i], "exists">> \in met
    BY <2>2, FactsAre DEF Typed, History
  <2> QED
    BY <2>1, <2>2, <2>3, StatsAre DEF Grounded
<1>4. CASE ReadSurface
  <2>1. pc = "read" /\ at \in 1..Len(Surfaces) /\ seen' = seen /\ met' = met
    BY <1>4, StatsAre DEF ReadSurface, Typed
  <2>2. PICK s : s = Surfaces[at] /\ s \in SurfaceNames
    BY <2>1 DEF SurfaceNames
  <2>3. risks' = IF s \in seen \cap assets THEN risks \cup RisksOf(s, text[s]) ELSE risks
    <3>1. risks' = risks \cup IF s \in seen \cap assets THEN RisksOf(s, text[s]) ELSE {}
      BY <1>4, <2>2 DEF ReadSurface
    <3> QED
      BY <3>1
  <2>4. RisksOf(s, text[s]) \subseteq Signals
    BY <2>2, RisksAre DEF Typed
  <2>5. s \in assets => \A r \in RisksOf(s, text[s]) : <<s, r>> \in met
    BY <2>1, <2>2, <2>4, FactsAre DEF Typed, History
  <2> QED
    BY <2>1, <2>2, <2>3, <2>4, <2>5 DEF Grounded
<1>5. CASE Listed \/ Closing \/ UNCHANGED vars
  <2>1. UNCHANGED <<seen, risks, met>>
    BY <1>5, ClosingStep DEF Listed, vars
  <2> QED
    BY <2>1 DEF Grounded
<1> QED
  BY <1>1, <1>2, <1>3, <1>4, <1>5 DEF Next, Closing

LEMMA ThoroughNext ==
  Typed /\ History /\ Derived /\ Thorough /\ [Next]_vars => Thorough'
<1> SUFFICES ASSUME Typed, History, Derived, Thorough, [Next]_vars PROVE Thorough'
  OBVIOUS
<1>1. CASE Edit
  <2>1. /\ UNCHANGED <<pc, at, seen, risks, bundle>>
        /\ kept' \subseteq kept
    BY <1>1, EditStep
  <2> QED
    BY <2>1 DEF Thorough, Found, Read
<1>2. ASSUME NEW c \in Commands, Begin(c) PROVE Thorough'
  BY <1>2, StatsAre DEF Begin, Thorough
<1>3. CASE Stat
  <2>1. PICK i \in Stats :
          /\ \A j \in Stats : j < i => j < at
          /\ seen' = IF Candidates[i] \in assets THEN seen \cup {Candidates[i]} ELSE seen
          /\ at' = i + 1
    BY <1>3, StatStep
  <2>2. kept' = kept /\ bundle' = bundle /\ bundle = {} /\ pc = "stat" /\ pc' = "stat"
    BY <1>3 DEF Stat, Derived
  <2>3. ASSUME NEW j \in Stats, j < at', <<Candidates[j], "exists">> \in kept
        PROVE  Candidates[j] \in seen'
    <3>1. CASE j = i
      <4>1. Candidates[i] \in assets
        BY <2>2, <2>3, <3>1, FactsAre DEF Typed, History
      <4> QED
        BY <2>1, <3>1, <4>1
    <3>2. CASE j # i
      <4>1. j < i
        BY <2>1, <2>3, <3>2, StatsAre
      <4>2. Candidates[j] \in seen
        BY <2>1, <2>2, <2>3, <4>1 DEF Thorough, Found
      <4> QED
        BY <2>1, <4>2
    <3> QED
      BY <3>1, <3>2
  <2> QED
    BY <2>2, <2>3 DEF Thorough, Found
<1>4. CASE Listed
  <2>1. /\ UNCHANGED <<seen, risks, bundle, kept>> /\ bundle = {}
        /\ pc' = "read" /\ at' = 1 /\ \A i \in Stats : Found(Candidates[i])
    BY <1>4 DEF Listed, Thorough, Derived
  <2>2. \A asset \in Varying : Found(asset)
    BY <2>1, StatsAre
  <2> QED
    BY <2>1, <2>2 DEF Thorough, Found, Read
<1>5. CASE ReadSurface
  <2>1. /\ UNCHANGED <<pc, seen, kept, bundle>> /\ pc = "read" /\ bundle = {}
        /\ at \in 1..Len(Surfaces) /\ at' = at + 1
    <3>1. UNCHANGED <<pc, seen, kept, bundle>> /\ pc = "read" /\ at <= Len(Surfaces) /\ at' = at + 1
      BY <1>5 DEF ReadSurface
    <3>2. bundle = {}
      BY <3>1 DEF Derived
    <3>3. at \in 1..Len(Surfaces)
      BY <3>1, StatsAre DEF Typed
    <3> QED
      BY <3>1, <3>2, <3>3
  <2>2. ASSUME NEW i \in 1..Len(Surfaces), NEW r \in Signals, i < at', <<Surfaces[i], r>> \in kept
        PROVE  r \in risks'
    <3>1. CASE i < at
      <4>1. r \in risks
        BY <2>1, <2>2, <3>1 DEF Thorough, Read
      <4> QED
        BY <1>5, <4>1 DEF ReadSurface
    <3>2. CASE i = at
      <4>1. PICK s : s = Surfaces[i] /\ s \in SurfaceNames
        BY DEF SurfaceNames
      <4>2. s \in assets /\ r \in RisksOf(s, text[s])
        BY <2>1, <2>2, <4>1, FactsAre DEF Typed, History
      <4>3. <<s, "exists">> \in kept
        BY <2>2, <4>1 DEF History
      <4>4. s \in seen
        BY <2>1, <4>2, <4>3 DEF Thorough, Found, Typed
      <4>5. risks' = risks \cup IF s \in seen \cap assets THEN RisksOf(s, text[s]) ELSE {}
        BY <1>5, <3>2, <4>1 DEF ReadSurface
      <4> QED
        BY <4>2, <4>4, <4>5
    <3> QED
      BY <2>1, <2>2, <3>1, <3>2
  <2>3. \A asset \in Varying : Found(asset)'
    BY <2>1 DEF Thorough, Found
  <2> QED
    BY <2>1, <2>2, <2>3 DEF Thorough, Read
<1>6. CASE Closing
  <2>1. UNCHANGED <<at, seen, risks, kept>> /\ pc' = "idle"
    BY <1>6, ClosingStep
  <2>2. CASE UNCHANGED bundle
    BY <2>1, <2>2 DEF Thorough, Found, Read
  <2>3. CASE pc = "read" /\ at > Len(Surfaces)
    <3>1. at = Len(Surfaces) + 1 \/ at \in Nat
      BY StatsAre DEF Typed
    <3>2. \A i \in 1..Len(Surfaces) : i < at
      BY <2>3, <3>1, StatsAre
    <3>3. (\A asset \in Varying : Found(asset)) /\ Read(Len(Surfaces) + 1)
      BY <2>3, <3>2 DEF Thorough, Read
    <3> QED
      BY <2>1, <3>3 DEF Thorough, Found, Read
  <2> QED
    BY <1>6, <2>2, <2>3, ClosingStep
<1>7. CASE UNCHANGED vars
  BY <1>7 DEF Thorough, Found, Read, vars
<1> QED
  BY <1>1, <1>2, <1>3, <1>4, <1>5, <1>6, <1>7 DEF Next, Closing

LEMMA ExactNext ==
  Typed /\ Grounded /\ Derived /\ Exact /\ [Next]_vars => Exact'
<1> SUFFICES ASSUME Typed, Grounded, Derived, Exact, [Next]_vars PROVE Exact'
  OBVIOUS
<1>1. CASE Edit
  BY <1>1, EditStep DEF Exact
<1>2. ASSUME NEW c \in Commands, Begin(c) PROVE Exact'
  BY <1>2, StatsAre DEF Begin, Exact
<1>3. CASE Stat
  <2>1. PICK i \in Stats :
          /\ \A j \in Stats : j < i => j < at
          /\ seen' = IF Candidates[i] \in assets THEN seen \cup {Candidates[i]} ELSE seen
          /\ at' = i + 1
    BY <1>3, StatStep
  <2>2. UNCHANGED <<assets, pc, bundle, edited, stale>> /\ pc = "stat" /\ bundle = {}
    BY <1>3 DEF Stat, Derived, project
  <2>3. ~edited => seen' \subseteq assets
    BY <2>1 DEF Exact
  <2>4. ASSUME ~edited, NEW j \in Stats, j < at', Candidates[j] \in assets
        PROVE  Candidates[j] \in seen'
    <3>1. CASE j = i
      BY <2>1, <2>4, <3>1
    <3>2. CASE j # i
      <4>1. j < i
        BY <2>1, <2>4, <3>2, StatsAre
      <4> QED
        BY <2>1, <2>2, <2>4, <4>1 DEF Exact
    <3> QED
      BY <3>1, <3>2
  <2>5. pc' # "idle" /\ edited' => stale'
    BY <2>2 DEF Exact
  <2> QED
    BY <2>2, <2>3, <2>4, <2>5 DEF Exact
<1>4. CASE Listed
  <2>1. /\ UNCHANGED <<assets, seen, bundle, edited, stale>> /\ bundle = {}
        /\ pc = "stat" /\ pc' = "read" /\ \A i \in Stats : i < at
    BY <1>4 DEF Listed, Derived, project
  <2>2. ~edited => seen = assets
    <3>1. \A i \in Stats : ~edited /\ Candidates[i] \in assets => Candidates[i] \in seen
      BY <2>1 DEF Exact
    <3>2. assets \subseteq Varying /\ (~edited => seen \subseteq assets)
      BY DEF Exact, Typed
    <3> QED
      BY <3>1, <3>2, StatsAre
  <2> QED
    BY <2>1, <2>2 DEF Exact
<1>5. CASE ReadSurface
  <2>1. UNCHANGED <<assets, pc, seen, bundle, edited, stale>> /\ pc = "read"
    BY <1>5 DEF ReadSurface, project
  <2> QED
    BY <2>1 DEF Exact
<1>6. CASE Closing
  <2>1. UNCHANGED <<assets, seen, edited>> /\ pc' = "idle"
    BY <1>6, ClosingStep DEF project
  <2>2. bundle' # {} => bundle # {} \/ pc = "read"
    BY <1>6, ClosingStep DEF Derived
  <2> QED
    BY <2>1, <2>2 DEF Exact
<1>7. CASE UNCHANGED vars
  BY <1>7 DEF Exact, vars
<1> QED
  BY <1>1, <1>2, <1>3, <1>4, <1>5, <1>6, <1>7 DEF Next, Closing

LEMMA DerivedNext ==
  Typed /\ Grounded /\ Exact /\ Derived /\ [Next]_vars => Derived'
<1> SUFFICES ASSUME Typed, Grounded, Exact, Derived, [Next]_vars PROVE Derived'
  OBVIOUS
<1>1. CASE Edit
  BY <1>1, EditStep DEF Derived
<1>2. ASSUME NEW c \in Commands, Begin(c) PROVE Derived'
  BY <1>2 DEF Begin, project, Derived
<1>3. CASE Stat \/ Listed \/ ReadSurface
  <2>1. UNCHANGED <<assets, command, bundle, answer, accepted, stale>> /\ pc # "idle"
    BY <1>3 DEF Stat, Listed, ReadSurface, project
  <2>2. bundle = {} /\ answer = {}
    BY <2>1 DEF Derived
  <2>3. \A b \in accepted : /\ accepted = {b} /\ b = ProposalBundle(b.assets, b.risks)
                            /\ b.assets \subseteq Varying /\ b.risks \subseteq Signals
                            /\ ~stale => b.assets = assets
    BY DEF Derived
  <2> QED
    BY <2>1, <2>2, <2>3 DEF Derived
<1>4. CASE Onboard
  <2>1. /\ UNCHANGED <<assets, command, seen, risks, answer, accepted, stale>>
        /\ bundle' = {ProposalBundle(seen, risks)} /\ pc = "read" /\ pc' = "idle"
        /\ command = "onboard"
    BY <1>4 DEF Onboard, Built, project
  <2> QED
    BY <2>1 DEF Derived
<1>5. CASE Accept
  <2>1. /\ UNCHANGED <<assets, command, seen, risks, answer, edited>>
        /\ bundle' = {ProposalBundle(seen, risks)} /\ pc = "read" /\ pc' = "idle"
        /\ command = "accept" /\ accepted' = bundle' /\ stale' = edited
    BY <1>5 DEF Accept, Built, project
  <2>2. answer = {}
    BY <2>1 DEF Derived
  <2>3. PICK b : b = ProposalBundle(seen, risks) /\ b.assets = seen /\ b.risks = risks
    BY BundleIs
  <2>4. /\ accepted' = {b} /\ b.assets \subseteq Varying /\ b.risks \subseteq Signals
        /\ ~stale' => b.assets = assets'
    BY <2>1, <2>3 DEF Grounded, Exact
  <2> QED
    BY <2>1, <2>2, <2>3, <2>4 DEF Derived
<1>6. CASE AcceptFile
  <2>1. /\ UNCHANGED <<assets, pc, command, seen, risks, bundle, answer, edited>>
        /\ pc = "idle" /\ command = "onboard" /\ accepted' = bundle /\ stale' = edited
        /\ bundle # {}
    BY <1>6 DEF AcceptFile, project
  <2>2. PICK b : b = ProposalBundle(seen, risks) /\ b.assets = seen /\ b.risks = risks
    BY BundleIs
  <2>3. accepted' = {b} /\ answer = {}
    BY <2>1, <2>2 DEF Derived
  <2>4. /\ b.assets \subseteq Varying /\ b.risks \subseteq Signals
        /\ ~stale' => b.assets = assets'
    BY <2>1, <2>2 DEF Grounded, Exact
  <2>5. bundle \subseteq {ProposalBundle(seen, risks)}
    BY DEF Derived
  <2> QED
    BY <2>1, <2>2, <2>3, <2>4, <2>5 DEF Derived
<1>7. CASE Inspect
  <2>1. /\ UNCHANGED <<assets, command, seen, risks, accepted, stale>>
        /\ bundle' = {ProposalBundle(seen, risks)} /\ pc' = "idle"
        /\ command = "inspect" /\ answer' = {PipelineFailure(b, asked') : b \in bundle'}
    BY <1>7 DEF Inspect, Built, project
  <2>2. answer' = {PipelineFailure(ProposalBundle(seen, risks), asked')}
    BY <2>1
  <2> QED
    BY <2>1, <2>2 DEF Derived
<1>8. CASE Run
  <2>1. /\ UNCHANGED <<assets, command, seen, risks, bundle, accepted, edited, stale>>
        /\ pc = "stat" /\ pc' = "idle" /\ command \in {"run", "run --apply"}
        /\ answer' = {RunFailure(seen, command = "run --apply")}
        /\ \A i \in Stats : i < at
    BY <1>8 DEF Run, project
  <2>2. ~stale => seen = assets
    <3>1. ~stale => ~edited
      BY <2>1 DEF Exact
    <3>2. ~edited => /\ seen \subseteq assets /\ assets \subseteq Varying
                     /\ \A i \in Stats : Candidates[i] \in assets => Candidates[i] \in seen
      BY <2>1 DEF Exact, Typed
    <3> QED
      BY <3>1, <3>2, StatsAre
  <2>3. bundle = {}
    BY <2>1 DEF Derived
  <2> QED
    BY <2>1, <2>2, <2>3 DEF Derived
<1>9. CASE UNCHANGED vars
  BY <1>9 DEF Derived, vars
<1> QED
  BY <1>1, <1>2, <1>3, <1>4, <1>5, <1>6, <1>7, <1>8, <1>9 DEF Next

LEMMA InitInv == Init => ProposalInv
<1> SUFFICES ASSUME Init PROVE ProposalInv
  OBVIOUS
<1>1. assets \subseteq Varying /\ text \in [SurfaceNames -> Texts \cup {{}}]
  BY DEF Init
<1>2. edits \in 0..Edits
  <2>1. edits = 0
    BY DEF Init
  <2> QED
    BY <2>1, ProposalAssumption
<1>3. at \in 1..(Len(Candidates) + 1)
  BY StatsAre DEF Init
<1>4. Typed
  BY <1>1, <1>2, <1>3 DEF Init, Typed
<1>5. History /\ Grounded /\ Thorough /\ Exact /\ Derived
  BY DEF Init, History, Grounded, Thorough, Exact, Derived
<1> QED
  BY <1>4, <1>5 DEF ProposalInv

LEMMA Always == Spec => []ProposalInv
<1>1. ProposalInv /\ [Next]_vars => ProposalInv'
  BY TypedNext, HistoryNext, GroundedNext, ThoroughNext, ExactNext, DerivedNext
     DEF ProposalInv
<1> QED
  BY <1>1, InitInv, PTL DEF Spec

-----------------------------------------------------------------------------
(* The theorems. *)

\* What was found is bracketed by what held all along and what held sometime.
LEMMA Bracketed ==
  ASSUME ProposalInv, NEW b \in bundle
  PROVE  /\ b = ProposalBundle(seen, risks)
         /\ KeptAssets \subseteq seen /\ KeptRisks \subseteq risks
         /\ seen \subseteq MetAssets /\ risks \subseteq MetRisks
         /\ risks \subseteq Signals
<1> USE DEF ProposalInv
<1>1. b = ProposalBundle(seen, risks) /\ bundle # {}
  BY DEF Derived
<1>2. "exists" \notin Signals /\ kept \subseteq Fact /\ met \subseteq Fact
  BY DEF Signals, History
<1>3. \A x : <<x, "exists">> \in Fact => x \in Varying
  BY <1>2 DEF Fact
<1>4. \A f \in Fact : f[2] # "exists" =>
        f[2] \in Signals /\ f = <<f[1], f[2]>> /\ \E i \in 1..Len(Surfaces) : f[1] = Surfaces[i]
  BY DEF Fact, SurfaceNames
<1>5. \A f \in Fact : f = <<f[1], f[2]>>
  BY DEF Fact
<1>6. KeptAssets \subseteq seen
  <2> SUFFICES ASSUME NEW f \in kept, f[2] = "exists" PROVE f[1] \in seen
    BY DEF KeptAssets
  <2>1. <<f[1], "exists">> \in kept /\ f[1] \in Varying
    BY <1>2, <1>3, <1>5
  <2> QED
    BY <1>1, <2>1 DEF Thorough, Found
<1>7. KeptRisks \subseteq risks
  <2> SUFFICES ASSUME NEW f \in kept, f[2] # "exists" PROVE f[2] \in risks
    BY DEF KeptRisks
  <2>1. PICK i \in 1..Len(Surfaces) : f[1] = Surfaces[i] /\ <<Surfaces[i], f[2]>> \in kept
    BY <1>2, <1>4
  <2>2. f[2] \in Signals /\ i < Len(Surfaces) + 1
    BY <1>2, <1>4, StatsAre
  <2>3. Read(Len(Surfaces) + 1)
    BY <1>1 DEF Thorough
  <2> QED
    BY <2>1, <2>2, <2>3 DEF Read
<1>8. seen \subseteq MetAssets
  <2> SUFFICES ASSUME NEW x \in seen PROVE x \in MetAssets
    OBVIOUS
  <2>1. PICK f \in met : f = <<x, "exists">>
    BY DEF Grounded
  <2>2. f[1] = x /\ f[2] = "exists"
    BY <2>1
  <2> QED
    BY <2>2 DEF MetAssets
<1>9. risks \subseteq MetRisks
  <2> SUFFICES ASSUME NEW r \in risks PROVE r \in MetRisks
    OBVIOUS
  <2>1. PICK s \in SurfaceNames : <<s, r>> \in met
    BY DEF Grounded
  <2>2. PICK f \in met : f = <<s, r>>
    BY <2>1
  <2>3. f[2] = r /\ f[2] # "exists"
    BY <1>2, <2>2 DEF Grounded
  <2> QED
    BY <2>3 DEF MetRisks
<1> QED
  BY <1>1, <1>6, <1>7, <1>8, <1>9 DEF Grounded

LEMMA FewInSingleton ==
  ASSUME NEW S, NEW x, S \subseteq {x}
  PROVE  Cardinality(S) <= 1
<1>1. IsFiniteSet({x}) /\ Cardinality({x}) = 1
  BY FS_Singleton
<1> QED
  BY <1>1, FS_Subset

\* Type correctness of what a command has found, proposed and answered.
THEOREM TypeSafe == Spec => []TypeOK
<1>1. ProposalInv => TypeOK
  <2> SUFFICES ASSUME ProposalInv PROVE TypeOK
    OBVIOUS
  <2> USE DEF ProposalInv
  <2>1. \A b \in bundle \cup accepted : b.assets \subseteq Varying /\ b.risks \subseteq Signals
    <3>1. ASSUME NEW b \in bundle
          PROVE  b.assets = seen /\ b.risks = risks
      <4>1. b = ProposalBundle(seen, risks)
        BY DEF Derived
      <4> QED
        BY <4>1, BundleIs
    <3>2. \A b \in accepted : b.assets \subseteq Varying /\ b.risks \subseteq Signals
      BY DEF Derived
    <3> QED
      BY <3>1, <3>2 DEF Grounded
  <2>2. \A d \in answer : d.tier \in Tiers
    <3>1. ASSUME NEW a, NEW r, NEW o PROVE PipelineFailure(ProposalBundle(a, r), o).tier \in Tiers
      BY PipelineIs DEF DefaultTier, Tiers
    <3>2. ASSUME NEW a, NEW apply \in BOOLEAN PROVE RunFailure(a, apply).tier \in Tiers
      BY DEF RunFailure, FailureTier, ResolvedTier, DefaultTier, Tiers
    <3>3. ASSUME NEW d \in answer
          PROVE  \/ d = PipelineFailure(ProposalBundle(seen, risks), asked)
                 \/ \E apply \in BOOLEAN : d = RunFailure(seen, apply)
      <4>1. command = "inspect" => d = PipelineFailure(ProposalBundle(seen, risks), asked)
        BY <3>3 DEF Derived
      <4>2. command \in {"run", "run --apply"} => d = RunFailure(seen, command = "run --apply")
        BY <3>3 DEF Derived
      <4>3. command \in {"inspect", "run", "run --apply"}
        BY <3>3 DEF Derived
      <4> QED
        BY <4>1, <4>2, <4>3
    <3> QED
      BY <3>1, <3>2, <3>3
  <2>3. Cardinality(bundle) <= 1
    BY FewInSingleton DEF Derived
  <2>4. Cardinality(answer) <= 1
    <3>1. answer = {} \/ \E d : answer = {d}
      BY DEF Derived
    <3> QED
      BY <3>1, FewInSingleton
  <2>5. Cardinality(accepted) <= 1
    <3>1. accepted = {} \/ \E b : accepted = {b}
      BY DEF Derived
    <3> QED
      BY <3>1, FewInSingleton
  <2>6. met \subseteq (Varying \cup SurfaceNames) \X (Signals \cup {"exists"})
    BY DEF History, Fact
  <2>7. /\ assets \subseteq Varying /\ seen \subseteq Varying /\ risks \subseteq Signals
        /\ text \in [SurfaceNames -> Texts \cup {{}}] /\ kept \subseteq met
    BY DEF Typed, Grounded, History
  <2>8. /\ edits \in 0..Edits /\ pc \in {"idle", "stat", "read"}
        /\ command \in Commands \cup {"none"}
        /\ at \in 1..(Len(Candidates) + 1) \cup 1..(Len(Surfaces) + 1)
        /\ edited \in BOOLEAN /\ stale \in BOOLEAN
        /\ asked \in Tiers \cup {"none"}
    BY DEF Typed
  <2> QED
    BY <2>1, <2>2, <2>3, <2>4, <2>5, <2>6, <2>7, <2>8 DEF TypeOK
<1> QED
  BY <1>1, Always, PTL

\* A conflict or a risk that is there all along is routed to strict and allows
\* no execution, whatever else is edited while DetectAssets and
\* detectRiskSignals read.
THEOREM DangerIsRouted == Spec => []DangerRouted
<1>1. ProposalInv => DangerRouted
  <2> SUFFICES ASSUME ProposalInv, NEW b \in bundle,
                      DetectConflicts(KeptAssets) # {} \/ KeptRisks # {}
               PROVE  b.routing.transition = "strict" /\ ~b.routing.execution
    BY DEF DangerRouted
  <2>1. PICK c, r : /\ c = DetectConflicts(seen) /\ r = risks
                    /\ b.routing = FailureRouting(c, r)
    BY Bracketed, BundleIs
  <2>2. KeptAssets \subseteq seen /\ KeptRisks \subseteq risks /\ risks \subseteq Signals
    BY Bracketed
  <2>3. DetectConflicts(KeptAssets) # {} => c # {}
    <3>1. /\ DuplicateGuidance(KeptAssets) => DuplicateGuidance(seen)
          /\ ManyRuntimes(KeptAssets) => ManyRuntimes(seen)
      BY <2>2, ConflictsGrow
    <3> QED
      BY <2>1, <3>1, ConflictsAre
  <2>4. c \in SUBSET {"duplicate guidance", "runtime ecosystems"} /\ r \in SUBSET Signals
    BY <2>1, <2>2, ConflictsAre
  <2>5. c # {} \/ r # {}
    BY <2>1, <2>2, <2>3
  <2> QED
    BY <2>1, <2>4, <2>5, DangerIsStrict
<1> QED
  BY <1>1, Always, PTL

\* A trigger that mapConflictsToFailure names has a ground that held while the
\* proposal was built, and without a trigger the project is left alone.
THEOREM AlarmsAreGrounded == Spec => []AlarmGrounded
<1>1. ProposalInv => AlarmGrounded
  <2> SUFFICES ASSUME ProposalInv, NEW b \in bundle
               PROVE  /\ "instruction_conflict" \in b.triggers => DuplicateGuidance(MetAssets)
                      /\ "unresolved_capability" \in b.triggers =>
                            ManyRuntimes(MetAssets) \/ "send" \in MetRisks
                      /\ "policy_ambiguity" \in b.triggers =>
                            DuplicateGuidance(MetAssets) \/ MetRisks # {}
                      /\ b.triggers = {} => b.routing.transition = "none" /\ b.routing.execution
    BY DEF AlarmGrounded
  <2>1. PICK c, r : /\ c = DetectConflicts(seen) /\ r = risks
                    /\ b.routing = FailureRouting(c, r) /\ b.triggers = Triggers(c, r)
    BY Bracketed, BundleIs
  <2>2. seen \subseteq MetAssets /\ risks \subseteq MetRisks /\ risks \subseteq Signals
    BY Bracketed
  <2>3. c \in SUBSET {"duplicate guidance", "runtime ecosystems"} /\ r \in SUBSET Signals
    BY <2>1, <2>2, ConflictsAre
  <2>4. /\ "duplicate guidance" \in c => DuplicateGuidance(MetAssets)
        /\ "runtime ecosystems" \in c => ManyRuntimes(MetAssets)
    BY <2>1, <2>2, ConflictsAre, ConflictsGrow
  <2>5. b.triggers = {} => b.routing.transition = "none" /\ b.routing.execution
    <3>1. b.triggers = {} => c = {} /\ r = {}
      BY <2>1, <2>3, TriggersAre
    <3> QED
      BY <2>1, <3>1, QuietIsFree
  <2>6. /\ "instruction_conflict" \in b.triggers => "duplicate guidance" \in c
        /\ "unresolved_capability" \in b.triggers => "runtime ecosystems" \in c \/ "send" \in r
        /\ "policy_ambiguity" \in b.triggers => "duplicate guidance" \in c \/ r # {}
    <3>1. /\ "instruction_conflict" \in Triggers(c, r) => "duplicate guidance" \in c
          /\ "unresolved_capability" \in Triggers(c, r) => "runtime ecosystems" \in c \/ "send" \in r
          /\ "policy_ambiguity" \in Triggers(c, r) => "duplicate guidance" \in c \/ r # {}
      BY <2>3, TriggersAre
    <3> QED
      BY <2>1, <3>1
  <2>7. ("send" \in r => "send" \in MetRisks) /\ (r # {} => MetRisks # {})
    BY <2>1, <2>2
  <2> QED
    BY <2>4, <2>5, <2>6, <2>7
<1> QED
  BY <1>1, Always, PTL

\* The pipeline decides what the proposal announced, but for the tier that the
\* bundle of --input asks for, and run answers duplicate guidance as the proposal
\* that was accepted does.
THEOREM RoutingsDoAgree == Spec => []RoutingsAgree
<1>1. ProposalInv => RoutingsAgree
  <2> SUFFICES ASSUME ProposalInv PROVE RoutingsAgree
    OBVIOUS
  <2> USE DEF ProposalInv
  <2>1. ASSUME command = "inspect", NEW b \in bundle, NEW d \in answer
        PROVE  /\ d.class = b.routing.class
               /\ b.routing.transition = "strict" => d.transition = "strict"
               /\ d # b.routing => Overridable(d.class) /\ asked \in Tiers /\ d.tier = asked
               /\ d.execution /\ ~b.routing.execution => asked = "WARN_ONLY"
               /\ b.routing.projection /\ ~d.projection => asked = "BLOCK"
    <3>1. /\ b = ProposalBundle(seen, risks)
          /\ d = PipelineFailure(ProposalBundle(seen, risks), asked)
      BY <2>1 DEF Derived
    <3>2. risks \in SUBSET Signals
      BY DEF Grounded
    <3> QED
      BY <3>1, <3>2, OverrideIsBounded
  <2>2. ASSUME command \in {"run", "run --apply"}, ~stale, NEW b \in accepted, NEW d \in answer,
               "duplicate guidance" \in b.conflicts
        PROVE  /\ d.transition = b.routing.transition /\ d.execution = b.routing.execution
               /\ command = "run" => d.class = b.routing.class
    <3>1. PICK apply \in BOOLEAN : apply <=> command = "run --apply"
      OBVIOUS
    <3>2. d = RunFailure(seen, command = "run --apply") /\ seen = assets
      BY <2>2 DEF Derived
    <3>3. PICK a, r : a = seen /\ b = ProposalBundle(a, r)
      BY <2>2, <3>2 DEF Derived
    <3>4. d = RunFailure(a, apply)
      <4>1. (command = "run --apply") = apply
        BY <3>1
      <4> QED
        BY <3>2, <3>3, <4>1
    <3>5. DuplicateGuidance(a)
      <4>1. b.conflicts = DetectConflicts(a)
        BY <3>3, BundleIs
      <4> QED
        BY <2>2, <4>1, ConflictsAre
    <3>6. command = "run" => ~apply
      BY <3>1
    <3> QED
      BY <3>3, <3>4, <3>5, <3>6, RunIs, ProposalIs
  <2> QED
    BY <2>1, <2>2 DEF RoutingsAgree
<1> QED
  BY <1>1, Always, PTL

=============================================================================
