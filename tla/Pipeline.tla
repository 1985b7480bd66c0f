------------------------------- MODULE Pipeline -------------------------------
(***************************************************************************)
(* internal/pipeline: one evaluation of a bundle runs the eleven resolvers *)
(* in a fixed order, hands the failure decision on to the strict state     *)
(* machine and to the operation resolver, folds the next allowed actions   *)
(* into one and clamps it to the mode.                                     *)
(*                                                                         *)
(* Nothing of an evaluation is kept by the program.  The caller of         *)
(* inspect, preview or simulate with --input gives the lifecycle state the *)
(* bundle starts from; lifecycle is the state such a caller was last told  *)
(* and gives back.  Bundles follow each other without bound.               *)
(***************************************************************************)
EXTENDS Resolvers, Sequences

CONSTANTS
    Modes,            \* modes asked for
    Bundles           \* what may be asked, a record of Bundle

VARIABLES
    mode,             \* of the evaluation under way, "" when it is answered
    bundle,           \* the bundle it evaluates
    steps,            \* the resolver outputs so far, each with its name
    final,            \* final_allowed_action of the last evaluation
    lifecycle         \* the lifecycle state the caller gives to the next one

vars == <<mode, bundle, steps, final, lifecycle>>

\* The order of ExecuteOrdered.
Order == <<"layer", "guidance", "projection", "failure", "strict", "mutation",
           "legacy", "operation", "extension", "portability", "audit">>

\* A bundle has an input for each resolver, named as the resolver is; strict
\* is the event, "" when the bundle leaves it to the failure, and the approval.
ASSUME BundleAssumption ==
    \A b \in Bundles : {Order[i] : i \in 1..Len(Order)} \subseteq DOMAIN b

Init ==
    /\ mode = ""
    /\ bundle = ""
    /\ steps = <<>>
    /\ final = "none"
    /\ lifecycle = "normal"

\* The evaluation has come to the resolver called name.
At(name) ==
    /\ mode # ""
    /\ Len(steps) < Len(Order)
    /\ Order[Len(steps) + 1] = name

Emit(name, output) ==
    /\ At(name)
    /\ steps' = steps \o <<[name |-> name, output |-> output]>>
    /\ UNCHANGED <<mode, bundle, final, lifecycle>>

\* The output of a resolver that has run.
Output(name) == steps[CHOOSE i \in 1..Len(steps) : steps[i].name = name].output

Ran(name) == \E i \in 1..Len(steps) : steps[i].name = name

\* normalizeMode refuses any other mode before the first resolver runs.
Begin ==
    \E m \in Modes \cap {"inspect", "preview", "simulate"} :
        /\ mode = "" /\ steps = <<>>
        /\ mode' = m
        /\ bundle' \in Bundles
        /\ UNCHANGED <<steps, final, lifecycle>>

Layer      == Emit("layer", ClassifyLayer(bundle.layer))
Guidance   == Emit("guidance", GuidancePrecedence(bundle.guidance))
Projection == Emit("projection", ProjectionEligibility(bundle.projection))
Failure    == Emit("failure", FailureTier(bundle.failure.class, bundle.failure))

\* The event the failure decision stands for, when the bundle names none.
DerivedEvent(failure) ==
    CASE failure.transition = "strict"  -> "trigger_strict"
      [] failure.transition = "guarded" -> "trigger_guarded"
      [] OTHER                          -> "reset"

Strict ==
    /\ Ran("failure")
    /\ Emit("strict",
            Transition([state    |-> lifecycle,
                        event    |-> IF bundle.strict.event = ""
                                     THEN DerivedEvent(Output("failure"))
                                     ELSE bundle.strict.event,
                        approved |-> bundle.strict.approved]))

Mutation    == Emit("mutation", MutationScope(bundle.mutation))
Legacy      == Emit("legacy", LegacyStatus(bundle.legacy))

\* The tier of the failure decision replaces whatever the bundle gave.
Operation ==
    /\ Ran("failure")
    /\ Emit("operation", OperationCapability(bundle.operation, Output("failure").tier))

Extension   == Emit("extension", ExtensionOrder(bundle.extension))
Portability == Emit("portability", SurfacePortability(bundle.portability))
Audit       == Emit("audit", AuditRequirements(bundle.audit))

MoreRestrictive(current, next) ==
    IF Rank(next) < Rank(current) THEN next ELSE current

\* The loop of ExecuteOrdered over the steps, from apply.
Fold[i \in 0..Len(steps)] ==
    IF i = 0 THEN "apply" ELSE MoreRestrictive(Fold[i - 1], steps[i].output.next)

\* Mutant: the clamp of inspect mode does not keep a deny.
ClampByModeLosesDeny(action, m) ==
    CASE m = "inspect"                         -> "inspect"
      [] action = "apply" /\ m # "inspect"     -> "propose"
      [] OTHER                                 -> action

ClampByMode(action, m) ==
    CASE action = "deny"                       -> "deny"
      [] action # "deny" /\ m = "inspect"      -> "inspect"
      [] action = "apply" /\ m # "inspect"     -> "propose"
      [] OTHER                                 -> action

\* The bundle is answered and the caller keeps the lifecycle state it names.
Answer ==
    /\ mode # ""
    /\ Len(steps) = Len(Order)
    /\ final' = ClampByMode(Fold[Len(steps)], mode)
    /\ lifecycle' = Output("strict").state
    /\ mode' = ""
    /\ UNCHANGED <<bundle, steps>>

\* The process ends and keeps nothing of it.
Forget ==
    /\ mode = "" /\ steps # <<>>
    /\ bundle' = ""
    /\ steps' = <<>>
    /\ final' = "none"
    /\ UNCHANGED <<mode, lifecycle>>

Next ==
    \/ Begin  \/ Layer     \/ Guidance  \/ Projection  \/ Failure \/ Strict
    \/ Mutation \/ Legacy  \/ Operation \/ Extension   \/ Portability
    \/ Audit  \/ Answer    \/ Forget

Spec == Init /\ [][Next]_vars

-----------------------------------------------------------------------------
(* Properties. *)

\* The types of the variables.
TypeOK ==
    /\ mode \in Modes \cup {""}
    /\ mode # "" => bundle \in Bundles
    /\ Len(steps) <= Len(Order)
    /\ \A i \in 1..Len(steps) : steps[i].name = Order[i] /\ steps[i].output.next \in Actions
    /\ final \in Actions \cup {"none"}
    /\ lifecycle \in States

\* An evaluation has been answered and no other one has begun.
Answered == mode = "" /\ steps # <<>>

\* The final action is no less restrained than what any of the eleven resolvers
\* said, and it is deny exactly when one of them said deny: neither the fold of
\* ExecuteOrdered nor the clamp of the mode loosens or invents a refusal.
FinalRestrained ==
    Answered =>
        /\ \A i \in 1..Len(steps) : Rank(final) <= Rank(steps[i].output.next)
        /\ final = "deny" <=> \E i \in 1..Len(steps) : steps[i].output.next = "deny"

\* A policy failure, an audit integrity failure or a failure class the table
\* does not know denies the bundle and stops execution and projection, and an
\* approval failure stops execution and keeps the operation below apply,
\* whatever override the bundle asks for and whatever its other inputs are.
FailClosed ==
    Answered =>
        LET f == Output("failure")
        IN  /\ DefaultTier(f.class) = "BLOCK" =>
                  final = "deny" /\ ~f.execution /\ ~f.projection
            /\ f.class = "approval_failure" =>
                  ~f.execution /\ Output("operation").effective < 3

\* Once a caller has been told strict, every later bundle leaves it strict until
\* one asks for the release with its approval; resets, warnings and weaker
\* failures do not lift it, and the way out passes through released.
StrictNeedsRelease ==
    [][lifecycle = "strict" /\ lifecycle' # "strict" =>
          /\ lifecycle' = "released"
          /\ Output("strict").input.event = "release_approved"
          /\ Output("strict").input.approved]_vars

=============================================================================
