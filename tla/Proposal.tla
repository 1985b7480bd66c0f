------------------------------- MODULE Proposal -------------------------------
(***************************************************************************)
(* A command makes up its mind about the user's project.  onboard, accept  *)
(* and inspect --onboard-root build an onboarding proposal: a stat call    *)
(* for each candidate asset, then the text of each surface that was there. *)
(* accept records the proposal, or one an earlier onboard printed; inspect *)
(* hands its routing to the pipeline, and with it the override that the    *)
(* bundle of --input asks for; run makes its own routing, from the assets  *)
(* alone.  Meanwhile the user goes on editing the project.                 *)
(*                                                                         *)
(* The commands follow one another: they share nothing here but what they  *)
(* read.  A walk of a directory is one read of its text.                   *)
(***************************************************************************)
EXTENDS Inference, Sequences

CONSTANTS
  Varying,     \* the candidate assets the project may have
  Texts,       \* what the text of a surface may hold
  Edits        \* bound on the user's edits

ASSUME ProposalAssumption ==
  /\ Varying \subseteq {Candidates[i] : i \in 1..Len(Candidates)}
  /\ Texts \subseteq SUBSET Signals
  /\ Edits \in Nat

Commands == {"onboard", "accept", "inspect", "run", "run --apply"}
SurfaceNames == {Surfaces[i] : i \in 1..Len(Surfaces)}

\* The stat calls that can find something, by their place in the list.
Stats == {i \in 1..Len(Candidates) : Candidates[i] \in Varying}

VARIABLES
  assets,      \* the candidate assets that exist
  text,        \* the signals in the text of each surface
  edits,       \* the user's edits so far
  pc,          \* of the command: idle, stat or read
  command,
  at,          \* the stat call or the surface it is at
  seen,        \* the assets it has found
  risks,       \* and the risk signals
  bundle,      \* the last proposal built, as a set of at most one
  answer,      \* the failure decision of the last inspect or run, likewise
  asked,       \* the tier the bundle of that inspect asks for, or none
  accepted,    \* the accepted proposal, likewise
  kept,        \* history: the facts that held all through the last detection
  met,         \* history: the facts that held at some moment of it
  edited,      \* history: the user has edited since it began
  stale        \* history: the user has edited since the accepted one began

vars == <<assets, text, edits, pc, command, at, seen, risks, bundle, answer,
          asked, accepted, kept, met, edited, stale>>
project == <<assets, text, edits>>

\* What is true of a project: the assets there are and the risks in them.
Facts(a, t) ==
    {<<asset, "exists">> : asset \in a}
        \cup {fact \in (SurfaceNames \cap a) \X Signals :
                 fact[2] \in RisksOf(fact[1], t[fact[1]])}

Possible(a) == ".cursor/rules" \in a => ".cursor" \in a

Init ==
  /\ assets \in {a \in SUBSET Varying : Possible(a)}
  /\ text \in {t \in [SurfaceNames -> Texts \cup {{}}] :
                 \A s \in SurfaceNames \ Varying : t[s] = {}}
  /\ edits = 0
  /\ pc = "idle"
  /\ command = "none"
  /\ at = 1
  /\ seen = {}
  /\ risks = {}
  /\ bundle = {}
  /\ answer = {}
  /\ asked = "none"
  /\ accepted = {}
  /\ kept = {}
  /\ met = {}
  /\ edited = FALSE
  /\ stale = FALSE

-----------------------------------------------------------------------------
(* The user *)

Edit ==
  /\ edits < Edits
  /\ \/ /\ \E asset \in Varying :
             assets' = IF asset \in assets THEN assets \ {asset} ELSE assets \cup {asset}
        /\ Possible(assets')
        /\ UNCHANGED text
     \/ /\ \E s \in SurfaceNames \cap assets : \E t \in Texts \ {text[s]} :
             text' = [text EXCEPT ![s] = t]
        /\ UNCHANGED assets
  /\ edits' = edits + 1
  /\ edited' = TRUE
  /\ stale' = TRUE
  /\ kept' = IF pc = "idle" THEN kept ELSE kept \cap Facts(assets', text')
  /\ met' = IF pc = "idle" THEN met ELSE met \cup Facts(assets', text')
  /\ UNCHANGED <<pc, command, at, seen, risks, bundle, answer, asked, accepted>>

-----------------------------------------------------------------------------
(* Detection *)

Begin(c) ==
  /\ pc = "idle"
  /\ pc' = "stat"
  /\ command' = c
  /\ at' = 1
  /\ seen' = {}
  /\ risks' = {}
  /\ bundle' = {}
  /\ answer' = {}
  /\ asked' = "none"
  /\ kept' = Facts(assets, text)
  /\ met' = Facts(assets, text)
  /\ edited' = FALSE
  /\ UNCHANGED <<project, accepted, stale>>

\* One stat call of DetectAssets; run needs nothing more of the project.
Stat ==
  /\ pc = "stat"
  /\ \E i \in Stats :
       /\ at <= i
       /\ \A j \in Stats : at <= j => i <= j
       /\ seen' = seen \cup ({Candidates[i]} \cap assets)
       /\ at' = i + 1
  /\ UNCHANGED <<project, pc, command, risks, bundle, answer, asked, accepted, kept,
                 met, edited, stale>>

Listed ==
  /\ pc = "stat" /\ command \notin {"run", "run --apply"}
  /\ \A i \in Stats : i < at
  /\ pc' = "read"
  /\ at' = 1
  /\ UNCHANGED <<project, command, seen, risks, bundle, answer, asked, accepted, kept,
                 met, edited, stale>>

\* A surface that was found is read; one that has gone since tells nothing.
ReadSurface ==
  /\ pc = "read"
  /\ at <= Len(Surfaces)
  /\ risks' = risks \cup
       IF Surfaces[at] \in seen \cap assets
       THEN RisksOf(Surfaces[at], text[Surfaces[at]]) ELSE {}
  /\ at' = at + 1
  /\ UNCHANGED <<project, pc, command, seen, bundle, answer, asked, accepted, kept,
                 met, edited, stale>>

\* BuildOnboardingProposal has read all it reads.
Built(c) ==
  /\ pc = "read" /\ command = c
  /\ at > Len(Surfaces)
  /\ pc' = "idle"
  /\ bundle' = {ProposalBundle(seen, risks)}
  /\ UNCHANGED <<project, command, at, seen, risks, kept, met, edited>>

-----------------------------------------------------------------------------
(* The commands *)

Onboard ==
  /\ Built("onboard")
  /\ UNCHANGED <<answer, asked, accepted, stale>>

\* accept persists the proposal whatever its routing says.
Accept ==
  /\ Built("accept")
  /\ accepted' = bundle'
  /\ stale' = edited
  /\ UNCHANGED <<answer, asked>>

\* accept --proposal takes the file an earlier onboard wrote.
AcceptFile ==
  /\ pc = "idle" /\ command = "onboard" /\ bundle # {}
  /\ accepted' = bundle
  /\ stale' = edited
  /\ UNCHANGED <<project, pc, command, at, seen, risks, bundle, answer, asked, kept, met,
                 edited>>

\* Mutant: the triggers of the proposal are not handed on.
PipelineFailureNoTriggers(b, override) ==
    FailureTier(b.routing.class,
                [triggers |-> {}, override |-> override, diagnosticsOnly |-> b.conflicts = {}])

\* applyOnboardingFailure: the class and the triggers of the proposal, a
\* diagnosticsOnly of its own, and the override the input came with.
PipelineFailure(b, override) ==
    FailureTier(b.routing.class,
                [triggers        |-> b.triggers,
                 override        |-> override,
                 diagnosticsOnly |-> b.conflicts = {}])

\* The bundle of --input may ask for a tier; the default input asks for none,
\* and what names no tier is not heard.
Inspect ==
  /\ Built("inspect")
  /\ asked' \in Tiers \cup {"none"}
  /\ answer' = {PipelineFailure(b, asked') : b \in bundle'}
  /\ UNCHANGED <<accepted, stale>>

\* buildRunInspectInput: no manifest and no text counts here.
RunFailure(a, apply) ==
    FailureTier(IF apply THEN "approval_failure"
                ELSE IF DuplicateGuidance(a) THEN "legacy_conflict_failure"
                ELSE "projection_failure",
                [triggers |-> (IF DuplicateGuidance(a)
                                  THEN {"instruction_conflict", "policy_ambiguity"} ELSE {})
                              \cup (IF apply THEN {"missing_approval"} ELSE {}),
                 override |-> "", diagnosticsOnly |-> FALSE])

Run ==
  /\ pc = "stat" /\ command \in {"run", "run --apply"}
  /\ \A i \in Stats : i < at
  /\ pc' = "idle"
  /\ answer' = {RunFailure(seen, command = "run --apply")}
  /\ UNCHANGED <<project, command, at, seen, risks, bundle, asked, accepted, kept, met,
                 edited, stale>>

Next ==
  \/ Edit
  \/ \E c \in Commands : Begin(c)
  \/ Stat
  \/ Listed
  \/ ReadSurface
  \/ Onboard
  \/ Accept
  \/ AcceptFile
  \/ Inspect
  \/ Run

Spec == Init /\ [][Next]_vars

-----------------------------------------------------------------------------
(* Properties *)

\* The types of the variables.
TypeOK ==
  /\ assets \subseteq Varying /\ seen \subseteq Varying
  /\ text \in [SurfaceNames -> Texts \cup {{}}]
  /\ edits \in 0..Edits
  /\ pc \in {"idle", "stat", "read"}
  /\ command \in Commands \cup {"none"}
  /\ at \in 1..(Len(Candidates) + 1) \cup 1..(Len(Surfaces) + 1)
  /\ risks \subseteq Signals
  /\ \A b \in bundle \cup accepted : b.assets \subseteq Varying /\ b.risks \subseteq Signals
  /\ \A d \in answer : d.tier \in Tiers
  /\ Cardinality(bundle) <= 1 /\ Cardinality(answer) <= 1 /\ Cardinality(accepted) <= 1
  /\ kept \subseteq met
  /\ met \subseteq (Varying \cup SurfaceNames) \X (Signals \cup {"exists"})
  /\ edited \in BOOLEAN /\ stale \in BOOLEAN
  /\ asked \in Tiers \cup {"none"}

KeptAssets == {fact[1] : fact \in {f \in kept : f[2] = "exists"}}
KeptRisks == {fact[2] : fact \in {f \in kept : f[2] # "exists"}}
MetAssets == {fact[1] : fact \in {f \in met : f[2] = "exists"}}
MetRisks == {fact[2] : fact \in {f \in met : f[2] # "exists"}}

\* A conflict or a risk that was there from the first stat call to the last
\* read is never missed, whatever else the user edits meanwhile: the proposal
\* routes the project to strict and allows no execution
\* (onboarding.go:373-456).
DangerRouted ==
  \A b \in bundle :
    DetectConflicts(KeptAssets) # {} \/ KeptRisks # {} =>
        /\ b.routing.transition = "strict"
        /\ ~b.routing.execution

\* No false alarm: a trigger has a ground that held at some moment of the
\* detection, and a proposal without one leaves the project alone.
AlarmGrounded ==
  \A b \in bundle :
    /\ "instruction_conflict" \in b.triggers => DuplicateGuidance(MetAssets)
    /\ "unresolved_capability" \in b.triggers =>
          ManyRuntimes(MetAssets) \/ "send" \in MetRisks
    /\ "policy_ambiguity" \in b.triggers =>
          DuplicateGuidance(MetAssets) \/ MetRisks # {}
    /\ b.triggers = {} => b.routing.transition = "none" /\ b.routing.execution

\* A routing is computed in three places, and they agree.  The pipeline decides
\* about the failure just what the proposal announced, though it is handed a
\* diagnosticsOnly computed another way (cmd_mode.go:98-104 against
\* onboarding.go:375), unless the bundle of --input asks for another tier
\* (cmd_mode.go:28-36) and the class of the failure gives way to it: then the
\* tier is the one asked for, but the class stays, strict stays strict, only a
\* WARN_ONLY lifts a ban on execution and only a BLOCK forbids a projection that
\* was allowed.  run routes by a copy of the rule that onboarding routes by:
\* while the project stays as it was accepted, it treats duplicate guidance as
\* announced, and names the same class unless an apply asks for an approval
\* first (cmd_run.go:230-241 against onboarding.go:320-325, 418-448).
RoutingsAgree ==
  /\ command = "inspect" => \A b \in bundle : \A d \in answer :
       /\ d.class = b.routing.class
       /\ b.routing.transition = "strict" => d.transition = "strict"
       /\ d # b.routing => Overridable(d.class) /\ asked \in Tiers /\ d.tier = asked
       /\ d.execution /\ ~b.routing.execution => asked = "WARN_ONLY"
       /\ b.routing.projection /\ ~d.projection => asked = "BLOCK"
  /\ command \in {"run", "run --apply"} /\ ~stale =>
       \A b \in accepted : \A d \in answer :
         "duplicate guidance" \in b.conflicts =>
           /\ d.transition = b.routing.transition
           /\ d.execution = b.routing.execution
           /\ command = "run" => d.class = b.routing.class
=============================================================================
