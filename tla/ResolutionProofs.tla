-------------------------- MODULE ResolutionProofs --------------------------
(***************************************************************************)
(* Proofs about what the resolvers are run for: Pipeline, for every set of *)
(* bundles and every sequence of them, and Surfaces, for every project and *)
(* every number of edits.                                                  *)
(*                                                                         *)
(* That strict is left by an approved release only needs the history of    *)
(* the evaluation under way: its fifth step, once taken, is the transition *)
(* from the lifecycle state that the caller still holds (Evaluated).       *)
(*                                                                         *)
(* That the answer is as restrained as its eleven parts is a fact about    *)
(* the fold.  It is defined by recursion: FoldRounds shows that there is a *)
(* function of that kind, and FoldProperties is an induction, over a set   *)
(* of naturals (SetInduction).  AnswerInv then carries what the failure    *)
(* and operation resolvers said until the answer is forgotten.             *)
(*                                                                         *)
(* That an apply serves what was there all along is SupportedIsServed      *)
(* about the plan, and the files kept are among those it was made from     *)
(* (SurfacesInv).  That an editor is detected where it shows is a fact     *)
(* about the scores: one binding beats all others (BestExists), and what   *)
(* an editor scores without a file of its own copilot scores as well.      *)
(***************************************************************************)
EXTENDS Pipeline, Surfaces, SequenceTheorems, WellFoundedInduction, TLAPS

StrictPlace == 5

\* What the strict state machine has answered for the bundle under way.
StrictAnswered(output) ==
    \E event, approved :
        output = Transition([state |-> lifecycle, event |-> event, approved |-> approved])

\* The steps taken are the first ones of the order, and the fifth is about the
\* state that the caller gave.
Evaluated ==
    /\ \E S : steps \in Seq(S)
    /\ Len(steps) <= Len(Order)
    /\ \A i \in 1..Len(steps) : steps[i].name = Order[i]
    /\ mode # "" /\ StrictPlace <= Len(steps) => StrictAnswered(steps[StrictPlace].output)

\* The places of the order that the proofs look at.
LEMMA OrderPlaces ==
    /\ Len(Order) = 11
    /\ Order[StrictPlace] = "strict"
    /\ \A i \in 1..11 : Order[i] = "strict" => i = StrictPlace
BY DEF Order, StrictPlace

\* The strict machine is among the first eleven.
LEMMA StrictPlaceIn == \A n : n = 11 => StrictPlace \in 1..n /\ StrictPlace <= n
BY DEF StrictPlace

\* No steps yet.
LEMMA NoSteps ==
    ASSUME NEW s, s = <<>>
    PROVE  /\ \E S : s \in Seq(S)
           /\ Len(s) <= Len(Order)
           /\ \A i \in 1..Len(s) : FALSE
           /\ ~(StrictPlace <= Len(s))
<1>1. <<>> \in Seq({}) /\ Len(<<>>) = 0
  BY EmptySeq
<1>2. Len(Order) = 11
  BY OrderPlaces
<1>3. Len(s) = 0 /\ s \in Seq({})
  BY <1>1
<1>4. \A i \in 1..0 : FALSE
  OBVIOUS
<1> QED
  BY <1>2, <1>3, <1>4 DEF StrictPlace

\* What one element at the end does to a sequence.
LEMMA OneMore ==
    ASSUME NEW S, NEW s \in Seq(S), NEW e
    PROVE  /\ s \o <<e>> \in Seq(S \cup {e})
           /\ Len(s) \in Nat
           /\ Len(s \o <<e>>) = Len(s) + 1
           /\ \A i \in 1..Len(s) : (s \o <<e>>)[i] = s[i]
           /\ (s \o <<e>>)[Len(s) + 1] = e
<1>1. S \subseteq S \cup {e}
  OBVIOUS
<1>2. s \in Seq(S \cup {e})
  BY <1>1, SeqMonotonic
<1>3. <<e>> \in Seq(S \cup {e}) /\ Len(<<e>>) = 1 /\ <<e>>[1] = e
  OBVIOUS
<1>4. Len(s) \in Nat
  BY LenProperties
<1> QED
  BY <1>2, <1>3, <1>4, ConcatProperties

\* A step that emits the output of the resolver whose turn it is keeps the steps
\* in their order; only the strict machine has something to say about itself.
LEMMA EmitKeepsOrder ==
    ASSUME NEW name, NEW output, Evaluated, Emit(name, output),
           name = "strict" => StrictAnswered(output)
    PROVE  Evaluated'
<1>1. /\ mode # ""
      /\ Len(steps) < 11
      /\ Order[Len(steps) + 1] = name
      /\ steps' = steps \o <<[name |-> name, output |-> output]>>
      /\ mode' = mode /\ lifecycle' = lifecycle
  BY OrderPlaces DEF Emit, At
<1>2. PICK step : step = [name |-> name, output |-> output]
  OBVIOUS
<1>3. step.name = name /\ step.output = output
  BY <1>2
<1>4. steps' = steps \o <<step>>
  BY <1>1, <1>2
<1>5. PICK S : steps \in Seq(S)
  BY DEF Evaluated
<1>6. /\ steps' \in Seq(S \cup {step})
      /\ Len(steps) \in Nat
      /\ Len(steps') = Len(steps) + 1
      /\ \A i \in 1..Len(steps) : steps'[i] = steps[i]
      /\ steps'[Len(steps) + 1] = step
  BY <1>4, <1>5, OneMore
<1>7. Len(steps') <= Len(Order)
  <2>1. Len(steps) < 11 /\ Len(steps) \in Nat /\ Len(steps') = Len(steps) + 1
    BY <1>1, <1>6
  <2>2. Len(Order) = 11
    BY OrderPlaces
  <2> QED
    BY <2>1, <2>2
<1>8. ASSUME NEW i \in 1..Len(steps') PROVE steps'[i].name = Order[i]
  <2>1. CASE i \in 1..Len(steps)
    BY <1>6, <2>1 DEF Evaluated
  <2>2. CASE i = Len(steps) + 1
    BY <1>1, <1>3, <1>6, <2>2
  <2> QED
    BY <1>6, <2>1, <2>2
<1>9. ASSUME StrictPlace <= Len(steps')
      PROVE  StrictAnswered(steps[StrictPlace].output)'
  <2>1. CASE StrictPlace <= Len(steps)
    <3>1. StrictAnswered(steps[StrictPlace].output)
      BY <1>1, <2>1 DEF Evaluated
    <3>2. steps'[StrictPlace] = steps[StrictPlace]
      BY <1>6, <2>1 DEF StrictPlace
    <3> QED
      BY <1>1, <3>1, <3>2 DEF StrictAnswered
  <2>2. CASE Len(steps) < StrictPlace
    <3>1. Len(steps) + 1 = StrictPlace
      BY <1>6, <1>9, <2>2 DEF StrictPlace
    <3>2. name = "strict"
      BY <1>1, <3>1, OrderPlaces
    <3>3. steps'[StrictPlace].output = output
      BY <1>3, <1>6, <3>1
    <3> QED
      BY <1>1, <3>2, <3>3 DEF StrictAnswered
  <2> QED
    BY <1>6, <2>1, <2>2 DEF StrictPlace
<1> QED
  BY <1>6, <1>7, <1>8, <1>9 DEF Evaluated

\* The invariant.
LEMMA EvaluatedInvariant == Spec => []Evaluated
<1>1. Init => Evaluated
  BY NoSteps DEF Init, Evaluated
<1>2. Evaluated /\ [Next]_vars => Evaluated'
  <2> SUFFICES ASSUME Evaluated, [Next]_vars PROVE Evaluated'
    OBVIOUS
  <2>1. CASE Begin
    <3>1. steps' = <<>>
      BY <2>1 DEF Begin
    <3> QED
      BY <3>1, NoSteps DEF Evaluated
  <2>2. CASE Layer
    BY <2>2, EmitKeepsOrder DEF Layer
  <2>3. CASE Guidance
    BY <2>3, EmitKeepsOrder DEF Guidance
  <2>4. CASE Projection
    BY <2>4, EmitKeepsOrder DEF Projection
  <2>5. CASE Failure
    BY <2>5, EmitKeepsOrder DEF Failure
  <2>6. CASE Strict
    <3> DEFINE input == [state    |-> lifecycle,
                         event    |-> IF bundle.strict.event = ""
                                      THEN DerivedEvent(Output("failure"))
                                      ELSE bundle.strict.event,
                         approved |-> bundle.strict.approved]
    <3>1. Emit("strict", Transition(input))
      BY <2>6 DEF Strict
    <3>2. StrictAnswered(Transition(input))
      BY DEF StrictAnswered
    <3> QED
      BY <3>1, <3>2, EmitKeepsOrder
  <2>7. CASE Mutation
    BY <2>7, EmitKeepsOrder DEF Mutation
  <2>8. CASE Legacy
    BY <2>8, EmitKeepsOrder DEF Legacy
  <2>9. CASE Operation
    BY <2>9, EmitKeepsOrder DEF Operation
  <2>10. CASE Extension
    BY <2>10, EmitKeepsOrder DEF Extension
  <2>11. CASE Portability
    BY <2>11, EmitKeepsOrder DEF Portability
  <2>12. CASE Audit
    BY <2>12, EmitKeepsOrder DEF Audit
  <2>13. CASE Answer
    BY <2>13 DEF Answer, Evaluated
  <2>14. CASE Forget
    <3>1. steps' = <<>>
      BY <2>14 DEF Forget
    <3> QED
      BY <3>1, NoSteps DEF Evaluated
  <2>15. CASE UNCHANGED vars
    BY <2>15 DEF vars, Evaluated, StrictAnswered
  <2> QED
    BY <2>1, <2>2, <2>3, <2>4, <2>5, <2>6, <2>7, <2>8, <2>9, <2>10, <2>11, <2>12,
       <2>13, <2>14, <2>15 DEF Next
<1> QED
  BY <1>1, <1>2, PTL DEF Spec

\* When the bundle is answered the strict step is found where the order has it.
LEMMA StrictOutput ==
    ASSUME Evaluated, mode # "", Len(steps) = Len(Order)
    PROVE  StrictAnswered(Output("strict"))
<1>1. \A i \in 1..Len(steps) : steps[i].name = "strict" <=> i = StrictPlace
  <2>1. \A i \in 1..Len(steps) : steps[i].name = Order[i] /\ i \in 1..11
    BY OrderPlaces DEF Evaluated
  <2> QED
    BY <2>1, OrderPlaces
<1>2. StrictPlace \in 1..Len(steps) /\ StrictPlace <= Len(steps)
  BY OrderPlaces, StrictPlaceIn
<1>3. (CHOOSE i \in 1..Len(steps) : steps[i].name = "strict") = StrictPlace
  BY <1>1, <1>2
<1>4. Output("strict") = steps[StrictPlace].output
  BY <1>3 DEF Output
<1> QED
  BY <1>2, <1>4 DEF Evaluated

\* What the strict state machine answers carries its input and the state that
\* follows.
LEMMA TransitionFields ==
    ASSUME NEW state, NEW event, NEW approved, NEW out,
           out = Transition([state |-> state, event |-> event, approved |-> approved])
    PROVE  /\ out.state = NextState(state, event, approved)
           /\ out.input.event = event
           /\ out.input.approved = approved
BY DEF Transition

\* StrictNeedsRelease, for every set of bundles: a caller who has been told strict
\* and gives it back is told another state only in answer to a bundle that asks for
\* the release with its approval (failure/strict-state-machine/resolver.go:53-64,
\* pipeline/pipeline.go:72-127).
THEOREM StrictIsKept == Spec => StrictNeedsRelease
<1>1. ASSUME Evaluated, [Next]_vars, lifecycle = "strict", lifecycle' # "strict"
      PROVE  /\ lifecycle' = "released"
             /\ Output("strict").input.event = "release_approved"
             /\ Output("strict").input.approved
  <2>1. Answer
    BY <1>1 DEF Next, vars, Begin, Layer, Guidance, Projection, Failure, Strict, Mutation,
       Legacy, Operation, Extension, Portability, Audit, Forget, Emit
  <2>2. PICK event, approved :
           Output("strict") =
             Transition([state |-> lifecycle, event |-> event, approved |-> approved])
    BY <1>1, <2>1, StrictOutput DEF Answer, StrictAnswered
  <2>3. /\ lifecycle' = NextState("strict", event, approved)
        /\ Output("strict").input.event = event
        /\ Output("strict").input.approved = approved
    <3>1. /\ Output("strict").state = NextState(lifecycle, event, approved)
          /\ Output("strict").input.event = event
          /\ Output("strict").input.approved = approved
      BY <2>2, TransitionFields
    <3> QED
      BY <1>1, <2>1, <3>1 DEF Answer
  <2>4. event = "release_approved" /\ approved
    BY <1>1, <2>3 DEF NextState
  <2>5. lifecycle' = "released"
    BY <2>3, <2>4 DEF NextState
  <2> QED
    BY <2>3, <2>4, <2>5
<1> QED
  BY <1>1, EvaluatedInvariant, PTL DEF Spec, StrictNeedsRelease

-----------------------------------------------------------------------------
(* The fold of the answers *)

\* A set of naturals that is not empty has a least element,
LEMMA LeastNat ==
  ASSUME NEW T \in SUBSET Nat, T # {}
  PROVE  \E n \in T : \A m \in T : n <= m
<1> DEFINE R == {ss \in Nat \X Nat : ss[1] < ss[2]}
<1>1. IsWellFoundedOn(R, Nat)
  BY NatLessThanWellFounded DEF OpToRel
<1>2. \E x \in T : \A y \in T : <<y, x>> \notin R
  <2> HIDE DEF R
  <2> QED
    BY <1>1, WFMin
<1>3. PICK x \in T : \A y \in T : <<y, x>> \notin R
  BY <1>2
<1>4. ASSUME NEW y \in T PROVE x <= y
  <2>1. <<y, x>> \in Nat \X Nat /\ <<y, x>>[1] = y /\ <<y, x>>[2] = x
    OBVIOUS
  <2>2. ~(y < x)
    BY <1>3, <2>1
  <2> QED
    BY <2>2
<1> QED
  BY <1>4

\* and what holds of 0 and is passed on by every natural holds of all.
LEMMA SetInduction ==
  ASSUME NEW T \in SUBSET Nat, 0 \in T, \A n \in T : n + 1 \in T
  PROVE  \A n \in Nat : n \in T
<1> SUFFICES ASSUME NEW k \in Nat, k \notin T PROVE FALSE
  OBVIOUS
<1>1. PICK n \in Nat \ T : \A m \in Nat \ T : n <= m
  BY LeastNat
<1>2. n # 0 /\ n - 1 \in Nat
  BY <1>1
<1>3. n - 1 \in T
  BY <1>1, <1>2
<1>4. (n - 1) + 1 = n
  BY <1>2
<1> QED
  BY <1>1, <1>3, <1>4

LEMMA RankProperties ==
    ASSUME NEW a \in Actions
    PROVE  /\ Rank(a) \in 0..5
           /\ \A b \in Actions : Rank(a) = Rank(b) => a = b
           /\ Rank(a) = 0 <=> a = "deny"
           /\ Rank(a) <= Rank("apply")
BY DEF Actions, Rank

\* Of some actions one is the most restrained.
LEMMA MostRestrained ==
    ASSUME NEW A \in SUBSET Actions, A # {}
    PROVE  \E a \in A : \A b \in A : Rank(a) <= Rank(b)
<1>1. PICK T : T = {Rank(a) : a \in A}
  OBVIOUS
<1>2. T \in SUBSET Nat /\ T # {}
  BY <1>1, RankProperties
<1>3. PICK n \in T : \A m \in T : n <= m
  BY <1>2, LeastNat
<1> QED
  BY <1>1, <1>3

Typed == Len(steps) \in Nat /\ \A i \in 1..Len(steps) : steps[i].output.next \in Actions

\* The loop of ExecuteOrdered, round by round: there is such a function, the one
\* that picks the most restrained of the answers so far.
LEMMA FoldRounds ==
    ASSUME Typed
    PROVE  /\ Fold[0] = "apply"
           /\ \A i \in 1..Len(steps) :
                 Fold[i] = MoreRestrictive(Fold[i - 1], steps[i].output.next)
<1> DEFINE Said(i) == {"apply"} \cup {steps[j].output.next : j \in 1..i}
           Least(i) == CHOOSE a \in Said(i) : \A b \in Said(i) : Rank(a) <= Rank(b)
           f == [i \in 0..Len(steps) |-> Least(i)]
           Rounds(g) == g = [i \in 0..Len(steps) |->
                               IF i = 0 THEN "apply"
                               ELSE MoreRestrictive(g[i - 1], steps[i].output.next)]
<1>1. Len(steps) \in Nat
  BY DEF Typed
<1>2. ASSUME NEW i \in 0..Len(steps)
      PROVE  Said(i) \in SUBSET Actions /\ "apply" \in Said(i)
  BY <1>1 DEF Typed, Actions
<1>3. ASSUME NEW i \in 0..Len(steps)
      PROVE  /\ Least(i) \in Said(i) /\ Least(i) \in Actions
             /\ \A b \in Said(i) : Rank(Least(i)) <= Rank(b)
  <2> HIDE DEF Said
  <2>1. \E a \in Said(i) : \A b \in Said(i) : Rank(a) <= Rank(b)
    BY <1>2, MostRestrained
  <2> QED
    BY <1>2, <2>1
<1>4. ASSUME NEW i \in 0..Len(steps), NEW a \in Said(i),
             \A b \in Said(i) : Rank(a) <= Rank(b)
      PROVE  a = Least(i)
  <2> HIDE DEF Said, Least
  <2>1. a \in Actions /\ Least(i) \in Actions /\ Least(i) \in Said(i)
    BY <1>2, <1>3, <1>4
  <2>2. Rank(a) <= Rank(Least(i)) /\ Rank(Least(i)) <= Rank(a)
    BY <1>3, <1>4, <2>1
  <2>3. Rank(a) = Rank(Least(i))
    BY <2>1, <2>2, RankProperties
  <2> QED
    BY <2>1, <2>3, RankProperties
<1>5. Least(0) = "apply"
  <2>1. Said(0) = {"apply"}
    OBVIOUS
  <2>2. Least(0) \in Said(0)
    BY <1>1, <1>3
  <2> HIDE DEF Said, Least
  <2> QED
    BY <2>1, <2>2
<1>6. ASSUME NEW i \in 1..Len(steps)
      PROVE  Least(i) = MoreRestrictive(Least(i - 1), steps[i].output.next)
  <2>1. i \in 0..Len(steps) /\ i - 1 \in 0..Len(steps)
    BY <1>1
  <2>2. PICK next \in Actions : next = steps[i].output.next
    BY DEF Typed
  <2>3. Said(i) = Said(i - 1) \cup {next}
    <3>1. 1..i = (1..(i - 1)) \cup {i}
      BY <1>1
    <3> QED
      BY <2>2, <3>1
  <2> HIDE DEF Said, Least
  <2>4. /\ Least(i - 1) \in Said(i - 1) /\ Least(i - 1) \in Actions
        /\ \A b \in Said(i - 1) : Rank(Least(i - 1)) <= Rank(b) /\ b \in Actions
    BY <1>2, <1>3, <2>1
  <2>5. CASE Rank(next) < Rank(Least(i - 1))
    <3>1. \A b \in Said(i) : Rank(next) <= Rank(b)
      BY <2>2, <2>3, <2>4, <2>5, RankProperties
    <3>2. next = Least(i)
      BY <1>4, <2>1, <2>3, <3>1
    <3> QED
      BY <2>2, <2>5, <3>2 DEF MoreRestrictive
  <2>6. CASE ~(Rank(next) < Rank(Least(i - 1)))
    <3>1. \A b \in Said(i) : Rank(Least(i - 1)) <= Rank(b)
      BY <2>2, <2>3, <2>4, <2>6, RankProperties
    <3>2. Least(i - 1) = Least(i)
      BY <1>4, <2>1, <2>3, <2>4, <3>1
    <3> QED
      BY <2>2, <2>6, <3>2 DEF MoreRestrictive
  <2> QED
    BY <2>5, <2>6
<1>7. Rounds(f)
  <2> HIDE DEF Least
  <2>1. ASSUME NEW i \in 0..Len(steps)
        PROVE  f[i] = IF i = 0 THEN "apply"
                      ELSE MoreRestrictive(f[i - 1], steps[i].output.next)
    <3>1. CASE i = 0
      BY <1>5, <3>1
    <3>2. CASE i # 0
      <4>1. i \in 1..Len(steps) /\ i - 1 \in 0..Len(steps)
        BY <1>1, <3>2
      <4>2. f[i] = Least(i) /\ f[i - 1] = Least(i - 1)
        BY <4>1
      <4> QED
        BY <1>6, <3>2, <4>1, <4>2
    <3> QED
      BY <3>1, <3>2
  <2> QED
    BY <2>1
<1>8. Fold = CHOOSE g : Rounds(g)
  BY DEF Fold
<1>9. Rounds(Fold)
  <2> HIDE DEF Rounds, f
  <2> QED
    BY <1>7, <1>8
<1> QED
  BY <1>1, <1>9

\* The fold is no less restrained than any answer, and is one of them or apply.
LEMMA FoldProperties ==
    ASSUME Typed
    PROVE  LET fold == Fold[Len(steps)]
           IN  /\ fold \in Actions
               /\ \A i \in 1..Len(steps) : Rank(fold) <= Rank(steps[i].output.next)
               /\ \/ fold = "apply"
                  \/ \E i \in 1..Len(steps) : fold = steps[i].output.next
<1> DEFINE Good(a, n) == /\ a \in Actions
                         /\ \A i \in 1..n : Rank(a) <= Rank(steps[i].output.next)
                         /\ a = "apply" \/ \E i \in 1..n : a = steps[i].output.next
           T == {n \in Nat : n <= Len(steps) => Good(Fold[n], n)}
<1>1. Len(steps) \in Nat
  BY DEF Typed
<1>2. 0 \in T
  BY FoldRounds DEF Actions
<1>3. ASSUME NEW n \in T PROVE n + 1 \in T
  <2> SUFFICES ASSUME n + 1 <= Len(steps) PROVE Good(Fold[n + 1], n + 1)
    OBVIOUS
  <2>1. n \in Nat /\ n + 1 \in 1..Len(steps) /\ n <= Len(steps) /\ (n + 1) - 1 = n
    BY <1>1
  <2>2. Good(Fold[n], n)
    BY <2>1
  <2>3. PICK next \in Actions : next = steps[n + 1].output.next
    BY <2>1 DEF Typed
  <2>4. Fold[n + 1] = MoreRestrictive(Fold[n], next)
    <3>1. Fold[n + 1] = MoreRestrictive(Fold[(n + 1) - 1], steps[n + 1].output.next)
      BY <2>1, FoldRounds
    <3> QED
      BY <2>1, <2>3, <3>1
  <2>5. \A i \in 1..(n + 1) : i \in 1..n \/ i = n + 1
    BY <2>1
  <2>6. \A i \in 1..n : i \in 1..(n + 1) /\ steps[i].output.next \in Actions
    BY <1>1, <2>1 DEF Typed
  <2>7. n + 1 \in 1..(n + 1)
    BY <2>1
  <2>8. CASE Rank(next) < Rank(Fold[n])
    <3>1. Fold[n + 1] = next
      BY <2>4, <2>8 DEF MoreRestrictive
    <3>2. ASSUME NEW i \in 1..n PROVE Rank(next) <= Rank(steps[i].output.next)
      BY <2>2, <2>3, <2>6, <2>8, RankProperties
    <3>3. Rank(next) <= Rank(next)
      BY <2>3, RankProperties
    <3>4. \A i \in 1..(n + 1) : Rank(next) <= Rank(steps[i].output.next)
      BY <2>3, <2>5, <3>2, <3>3
    <3> QED
      BY <2>3, <2>7, <3>1, <3>4
  <2>9. CASE ~(Rank(next) < Rank(Fold[n]))
    <3>1. Fold[n + 1] = Fold[n]
      BY <2>4, <2>9 DEF MoreRestrictive
    <3>2. Rank(Fold[n]) <= Rank(next)
      BY <2>2, <2>3, <2>9, RankProperties
    <3>3. \A i \in 1..(n + 1) : Rank(Fold[n]) <= Rank(steps[i].output.next)
      BY <2>2, <2>3, <2>5, <3>2
    <3> QED
      BY <2>2, <2>6, <3>1, <3>3
  <2> QED
    BY <2>8, <2>9
<1>4. \A n \in Nat : n \in T
  <2>1. T \in SUBSET Nat
    OBVIOUS
  <2> HIDE DEF T
  <2> QED
    BY <1>2, <1>3, <2>1, SetInduction
<1>5. Good(Fold[Len(steps)], Len(steps))
  BY <1>1, <1>4
<1> QED
  BY <1>5

\* The clamp keeps a deny, makes none, and only restrains.
LEMMA ClampProperties ==
    ASSUME NEW a \in Actions, NEW m \in {"inspect", "preview", "simulate"}
    PROVE  /\ ClampByMode(a, m) \in Actions
           /\ Rank(ClampByMode(a, m)) <= Rank(a)
           /\ ClampByMode(a, m) = "deny" <=> a = "deny"
BY DEF ClampByMode, Actions, Rank

-----------------------------------------------------------------------------
(* The answer *)

FailurePlace   == 4
OperationPlace == 8

FailureAnswered(output) == \E class, ctx : output = FailureTier(class, ctx)
OperationAnswered(output, tier) == \E command : output = OperationCapability(command, tier)

\* The two steps that others depend on are what they should be, and stay so
\* until the answer is forgotten.
Told ==
    /\ mode \in {"", "inspect", "preview", "simulate"}
    /\ Answered => Len(steps) = Len(Order)
    /\ FailurePlace <= Len(steps) => FailureAnswered(steps[FailurePlace].output)
    /\ OperationPlace <= Len(steps) =>
          OperationAnswered(steps[OperationPlace].output, steps[FailurePlace].output.tier)

AnswerInv == Evaluated /\ TypeOK /\ Told /\ FinalRestrained

LEMMA MorePlaces ==
    /\ \A i \in 1..11 : Order[i] = "failure" <=> i = FailurePlace
    /\ \A i \in 1..11 : Order[i] = "operation" <=> i = OperationPlace
    /\ \A i \in 1..11 : Order[i] = "strict" <=> i = StrictPlace
BY DEF Order, FailurePlace, OperationPlace, StrictPlace

\* A resolver that has run is found at its place.
LEMMA OutputAt ==
    ASSUME Evaluated, NEW k \in 1..Len(steps), NEW name,
           \A i \in 1..11 : Order[i] = name <=> i = k
    PROVE  Output(name) = steps[k].output
<1>1. \A i \in 1..Len(steps) : steps[i].name = Order[i] /\ i \in 1..11
  <2>1. PICK S : steps \in Seq(S)
    BY DEF Evaluated
  <2>2. Len(steps) \in Nat /\ Len(steps) <= 11
    BY <2>1, OrderPlaces, LenProperties DEF Evaluated
  <2>3. \A i \in 1..Len(steps) : i \in 1..11
    BY <2>2
  <2> QED
    BY <2>3 DEF Evaluated
<1>2. \A i \in 1..Len(steps) : steps[i].name = name <=> i = k
  BY <1>1
<1>3. (CHOOSE i \in 1..Len(steps) : steps[i].name = name) = k
  BY <1>2
<1> QED
  BY <1>3 DEF Output

LEMMA StepsTyped ==
    ASSUME Evaluated, TypeOK
    PROVE  Typed /\ Len(steps) <= 11
<1>1. PICK S : steps \in Seq(S)
  BY DEF Evaluated
<1>2. Len(steps) \in Nat
  BY <1>1, LenProperties
<1> QED
  BY <1>2, OrderPlaces DEF TypeOK, Typed

\* What each resolver says may be done next is an action.
LEMMA NextActions ==
    /\ \A x : ClassifyLayer(x).next \in Actions
    /\ \A x : GuidancePrecedence(x).next \in Actions
    /\ \A x : ProjectionEligibility(x).next \in Actions
    /\ \A c, x : FailureTier(c, x).next \in Actions
    /\ \A x : Transition(x).next \in Actions
    /\ \A x : MutationScope(x).next \in Actions
    /\ \A x : LegacyStatus(x).next \in Actions
    /\ \A x, t : OperationCapability(x, t).next \in Actions
    /\ \A x : ExtensionOrder(x).next \in Actions
    /\ \A x : SurfacePortability(x).next \in Actions
    /\ \A x : AuditRequirements(x).next \in Actions
<1>1. \A x : ClassifyLayer(x).next \in Actions
  BY DEF ClassifyLayer, Actions
<1>2. \A x : GuidancePrecedence(x).next \in Actions
  BY DEF GuidancePrecedence, Actions
<1>3. \A x : ProjectionEligibility(x).next \in Actions
  BY DEF ProjectionEligibility, Actions
<1>4. \A c, x : FailureTier(c, x).next \in Actions
  BY DEF FailureTier, Actions
<1>5. \A x : Transition(x).next \in Actions
  BY DEF Transition, Actions
<1>6. \A x : MutationScope(x).next \in Actions
  BY DEF MutationScope, Actions
<1>7. \A x : LegacyStatus(x).next \in Actions
  BY DEF LegacyStatus, Actions
<1>8. \A x, t : OperationCapability(x, t).next \in Actions
  <2> SUFFICES ASSUME NEW x, NEW t PROVE OperationCapability(x, t).next \in Actions
    OBVIOUS
  <2>1. PICK base : base = ActionClass(x)
    OBVIOUS
  <2>2. PICK ceiling : ceiling = CeilingForTier(t)
    OBVIOUS
  <2>3. base \in 1..3 /\ ceiling \in 1..3
    BY <2>1, <2>2 DEF ActionClass, CeilingForTier
  <2>4. PICK effective \in 1..3 : effective = IF base < ceiling THEN base ELSE ceiling
    BY <2>3
  <2>5. OperationCapability(x, t).next = <<"inspect", "propose", "apply">>[effective]
    BY <2>1, <2>2, <2>4 DEF OperationCapability
  <2>6. effective = 1 \/ effective = 2 \/ effective = 3
    BY <2>4
  <2> QED
    BY <2>5, <2>6 DEF Actions
<1>9. \A x : ExtensionOrder(x).next \in Actions
  BY DEF ExtensionOrder, Actions
<1>10. \A x : SurfacePortability(x).next \in Actions
  BY DEF SurfacePortability, Actions
<1>11. \A x : AuditRequirements(x).next \in Actions
  BY DEF AuditRequirements, Actions
<1> QED
  BY <1>1, <1>2, <1>3, <1>4, <1>5, <1>6, <1>7, <1>8, <1>9, <1>10, <1>11

LEMMA EmitKeepsAnswers ==
    ASSUME AnswerInv, NEW name, NEW output, Emit(name, output), output.next \in Actions,
           name = "strict" => StrictAnswered(output),
           name = "failure" => FailureAnswered(output),
           name = "operation" => OperationAnswered(output, Output("failure").tier)
    PROVE  AnswerInv'
<1>1. Evaluated /\ Typed /\ Len(steps) <= 11 /\ Len(Order) = 11
  BY StepsTyped, OrderPlaces DEF AnswerInv
<1>2. Evaluated'
  BY <1>1, EmitKeepsOrder
<1>3. PICK step : step = [name |-> name, output |-> output]
  OBVIOUS
<1>4. step.name = name /\ step.output = output
  BY <1>3
<1>5. /\ mode # "" /\ Len(steps) < 11 /\ Order[Len(steps) + 1] = name
      /\ steps' = steps \o <<step>>
      /\ UNCHANGED <<mode, bundle, final, lifecycle>>
  BY <1>1, <1>3 DEF Emit, At
<1>6. PICK S : steps \in Seq(S)
  BY <1>1 DEF Evaluated
<1>7. /\ Len(steps) \in Nat
      /\ Len(steps') = Len(steps) + 1
      /\ \A i \in 1..Len(steps) : steps'[i] = steps[i]
      /\ steps'[Len(steps) + 1] = step
  <2>1. steps' = steps \o <<step>>
    BY <1>5
  <2> QED
    BY <1>6, <2>1, OneMore
<1>8. \A i \in 1..Len(steps') : i \in 1..Len(steps) \/ i = Len(steps) + 1
  BY <1>7
<1>9. TypeOK'
  <2>1. ASSUME NEW i \in 1..Len(steps')
        PROVE  steps'[i].name = Order[i] /\ steps'[i].output.next \in Actions
    <3>1. CASE i \in 1..Len(steps)
      BY <1>7, <3>1 DEF AnswerInv, TypeOK
    <3>2. CASE i = Len(steps) + 1
      BY <1>4, <1>5, <1>7, <3>2
    <3> QED
      BY <1>8, <3>1, <3>2
  <2>2. Len(steps') <= Len(Order)
    <3>1. Len(steps) \in Nat /\ Len(steps) < 11 /\ Len(steps') = Len(steps) + 1
      BY <1>5, <1>7
    <3>2. Len(Order) = 11
      BY <1>1
    <3> QED
      BY <3>1, <3>2
  <2> QED
    BY <1>5, <2>1, <2>2 DEF AnswerInv, TypeOK
<1>10. Told'
  <2>1. ASSUME FailurePlace <= Len(steps')
        PROVE  FailureAnswered(steps'[FailurePlace].output)
    <3>1. CASE FailurePlace <= Len(steps)
      <4>1. steps'[FailurePlace] = steps[FailurePlace]
        BY <1>7, <3>1 DEF FailurePlace
      <4> QED
        BY <3>1, <4>1 DEF AnswerInv, Told
    <3>2. CASE ~(FailurePlace <= Len(steps))
      <4>1. FailurePlace = Len(steps) + 1 /\ FailurePlace \in 1..11
        BY <1>7, <2>1, <3>2 DEF FailurePlace
      <4>2. name = "failure"
        BY <1>5, <4>1, MorePlaces
      <4> QED
        BY <1>4, <1>7, <4>1, <4>2
    <3> QED
      BY <3>1, <3>2
  <2>2. ASSUME OperationPlace <= Len(steps')
        PROVE  OperationAnswered(steps'[OperationPlace].output,
                                 steps'[FailurePlace].output.tier)
    <3>0. FailurePlace \in 1..Len(steps)
      BY <1>7, <2>2 DEF FailurePlace, OperationPlace
    <3>1. steps'[FailurePlace] = steps[FailurePlace]
      BY <1>7, <3>0
    <3>2. CASE OperationPlace <= Len(steps)
      <4>1. steps'[OperationPlace] = steps[OperationPlace]
        BY <1>7, <3>2 DEF OperationPlace
      <4> QED
        BY <3>1, <3>2, <4>1 DEF AnswerInv, Told
    <3>3. CASE ~(OperationPlace <= Len(steps))
      <4>1. OperationPlace = Len(steps) + 1 /\ OperationPlace \in 1..11
        BY <1>7, <2>2, <3>3 DEF OperationPlace
      <4>2. name = "operation"
        BY <1>5, <4>1, MorePlaces
      <4>3. Output("failure") = steps[FailurePlace].output
        BY <1>1, <3>0, MorePlaces, OutputAt
      <4> QED
        BY <1>4, <1>7, <3>1, <4>1, <4>2, <4>3
    <3> QED
      BY <3>2, <3>3
  <2>3. mode' \in {"inspect", "preview", "simulate"} /\ ~Answered'
    BY <1>5 DEF AnswerInv, Told, Answered
  <2> QED
    BY <2>1, <2>2, <2>3 DEF Told, FailureAnswered, OperationAnswered
<1>11. FinalRestrained'
  BY <1>5 DEF FinalRestrained, Answered
<1> QED
  BY <1>2, <1>9, <1>10, <1>11 DEF AnswerInv

\* The step that answers.
LEMMA AnswerKeepsAnswers ==
    ASSUME AnswerInv, Answer
    PROVE  AnswerInv'
<1>1. Evaluated /\ Typed /\ Len(steps) <= 11 /\ Len(Order) = 11 /\ Len(steps) = 11
  BY StepsTyped, OrderPlaces DEF AnswerInv, Answer
<1>2. Evaluated'
  BY <1>1 DEF Answer, Evaluated
<1>3. mode \in {"inspect", "preview", "simulate"}
  BY DEF Answer, AnswerInv, Told
<1>4. PICK fold : fold = Fold[Len(steps)]
  OBVIOUS
<1>5. /\ fold \in Actions
      /\ \A i \in 1..Len(steps) : Rank(fold) <= Rank(steps[i].output.next)
      /\ fold = "apply" \/ \E i \in 1..Len(steps) : fold = steps[i].output.next
  BY <1>1, <1>4, FoldProperties
<1>6. final' = ClampByMode(fold, mode) /\ steps' = steps /\ bundle' = bundle /\ mode' = ""
  BY <1>4 DEF Answer
<1>7. /\ final' \in Actions
      /\ Rank(final') <= Rank(fold)
      /\ final' = "deny" <=> fold = "deny"
  BY <1>3, <1>5, <1>6, ClampProperties
<1>8. lifecycle' \in States
  <2>1. PICK event, approved :
           Output("strict") =
             Transition([state |-> lifecycle, event |-> event, approved |-> approved])
    BY <1>1, StrictOutput DEF Answer, StrictAnswered
  <2>2. Output("strict").state = NextState(lifecycle, event, approved)
    BY <2>1, TransitionFields
  <2>3. lifecycle \in States
    BY DEF AnswerInv, TypeOK
  <2>4. NextState(lifecycle, event, approved) \in States
    BY <2>3 DEF NextState, States
  <2> QED
    BY <2>2, <2>4 DEF Answer
<1>9. TypeOK'
  BY <1>6, <1>7, <1>8 DEF AnswerInv, TypeOK
<1>10. Told'
  BY <1>1, <1>6 DEF AnswerInv, Told, FailureAnswered, OperationAnswered
<1>11. FinalRestrained'
  <2>1. ASSUME NEW i \in 1..Len(steps) PROVE Rank(final') <= Rank(steps[i].output.next)
    <3>1. steps[i].output.next \in Actions
      BY <1>1 DEF Typed
    <3> QED
      BY <1>5, <1>7, <3>1, RankProperties
  <2>2. ASSUME NEW i \in 1..Len(steps), steps[i].output.next = "deny" PROVE fold = "deny"
    <3>1. "deny" \in Actions
      BY DEF Actions
    <3>2. Rank(fold) <= 0
      BY <1>5, <2>2, <3>1, RankProperties
    <3> QED
      BY <1>5, <3>2, RankProperties
  <2>3. fold = "deny" => \E i \in 1..Len(steps) : steps[i].output.next = "deny"
    BY <1>5
  <2> QED
    BY <1>6, <1>7, <2>1, <2>2, <2>3 DEF FinalRestrained
<1> QED
  BY <1>2, <1>9, <1>10, <1>11 DEF AnswerInv

\* The other steps start an evaluation, or forget one.
LEMMA RestKeepsAnswers ==
    ASSUME AnswerInv, Evaluated', Begin \/ Forget \/ UNCHANGED vars
    PROVE  AnswerInv'
<1>1. CASE Begin \/ Forget
  <2>1. steps' = <<>> /\ Len(Order) = 11
    BY <1>1, OrderPlaces DEF Begin, Forget
  <2>2. /\ Len(steps') <= Len(Order)
        /\ \A i \in 1..Len(steps') : FALSE
        /\ ~(FailurePlace <= Len(steps')) /\ ~(OperationPlace <= Len(steps'))
    <3>1. \A s : s = <<>> => Len(s) = 0
      OBVIOUS
    <3>2. Len(steps') = 0 /\ \A i \in 1..0 : FALSE
      BY <2>1, <3>1
    <3> QED
      BY <2>1, <3>2 DEF FailurePlace, OperationPlace
  <2>3. TypeOK'
    BY <1>1, <2>2 DEF AnswerInv, TypeOK, Begin, Forget
  <2>4. Told'
    BY <1>1, <2>1, <2>2 DEF AnswerInv, Told, Begin, Forget, Answered
  <2>5. FinalRestrained'
    BY <2>1 DEF FinalRestrained, Answered
  <2> QED
    BY <2>3, <2>4, <2>5 DEF AnswerInv
<1>2. CASE UNCHANGED vars
  BY <1>2 DEF vars, AnswerInv, TypeOK, Told, Answered, FinalRestrained, FailureAnswered,
     OperationAnswered
<1> QED
  BY <1>1, <1>2

LEMMA AnswerInvariant == Spec => []AnswerInv
<1>1. Init => AnswerInv
  <2> SUFFICES ASSUME Init PROVE AnswerInv
    OBVIOUS
  <2>1. steps = <<>> /\ Len(Order) = 11 /\ Len(steps) = 0
    BY OrderPlaces DEF Init
  <2>2. Evaluated
    BY NoSteps DEF Init, Evaluated
  <2>3. /\ Len(steps) <= Len(Order)
        /\ \A i \in 1..Len(steps) : FALSE
        /\ ~(FailurePlace <= Len(steps)) /\ ~(OperationPlace <= Len(steps))
    <3>1. \A i \in 1..0 : FALSE
      OBVIOUS
    <3> QED
      BY <2>1, <3>1 DEF FailurePlace, OperationPlace
  <2>4. TypeOK
    BY <2>3 DEF Init, TypeOK, States
  <2> QED
    BY <2>1, <2>2, <2>3, <2>4 DEF Init, AnswerInv, Told, FinalRestrained, Answered
<1>2. AnswerInv /\ Evaluated' /\ [Next]_vars => AnswerInv'
  <2> SUFFICES ASSUME AnswerInv, Evaluated', [Next]_vars PROVE AnswerInv'
    OBVIOUS
  <2>1. CASE Begin \/ Forget \/ UNCHANGED vars
    BY <2>1, RestKeepsAnswers
  <2>2. CASE Layer
    BY <2>2, EmitKeepsAnswers, NextActions DEF Layer
  <2>3. CASE Guidance
    BY <2>3, EmitKeepsAnswers, NextActions DEF Guidance
  <2>4. CASE Projection
    BY <2>4, EmitKeepsAnswers, NextActions DEF Projection
  <2>5. CASE Failure
    <3>1. FailureAnswered(FailureTier(bundle.failure.class, bundle.failure))
      BY DEF FailureAnswered
    <3> QED
      BY <2>5, <3>1, EmitKeepsAnswers, NextActions DEF Failure
  <2>6. CASE Strict
    <3> DEFINE input == [state    |-> lifecycle,
                         event    |-> IF bundle.strict.event = ""
                                      THEN DerivedEvent(Output("failure"))
                                      ELSE bundle.strict.event,
                         approved |-> bundle.strict.approved]
    <3>1. Emit("strict", Transition(input))
      BY <2>6 DEF Strict
    <3>2. StrictAnswered(Transition(input))
      BY DEF StrictAnswered
    <3>3. Transition(input).next \in Actions
      BY NextActions
    <3> QED
      BY <3>1, <3>2, <3>3, EmitKeepsAnswers
  <2>7. CASE Mutation
    BY <2>7, EmitKeepsAnswers, NextActions DEF Mutation
  <2>8. CASE Legacy
    BY <2>8, EmitKeepsAnswers, NextActions DEF Legacy
  <2>9. CASE Operation
    <3>1. OperationAnswered(OperationCapability(bundle.operation, Output("failure").tier),
                            Output("failure").tier)
      BY DEF OperationAnswered
    <3> QED
      BY <2>9, <3>1, EmitKeepsAnswers, NextActions DEF Operation
  <2>10. CASE Extension
    BY <2>10, EmitKeepsAnswers, NextActions DEF Extension
  <2>11. CASE Portability
    BY <2>11, EmitKeepsAnswers, NextActions DEF Portability
  <2>12. CASE Audit
    BY <2>12, EmitKeepsAnswers, NextActions DEF Audit
  <2>13. CASE Answer
    BY <2>13, AnswerKeepsAnswers
  <2> QED
    BY <2>1, <2>2, <2>3, <2>4, <2>5, <2>6, <2>7, <2>8, <2>9, <2>10, <2>11, <2>12, <2>13
       DEF Next
<1> QED
  BY <1>1, <1>2, EvaluatedInvariant, PTL DEF Spec

\* The types of the variables, for every set of bundles; every resolver answers
\* with an action the clamp and the fold know (pipeline/pipeline.go:72-127).
THEOREM TypeSafe == Spec => []TypeOK
<1>1. AnswerInv => TypeOK
  BY DEF AnswerInv
<1> QED
  BY <1>1, AnswerInvariant, PTL

\* The final action is no less restrained than any of the eleven answers, and
\* deny exactly when one of them is, for every set of bundles
\* (pipeline/pipeline.go:116-120, 192-235).
THEOREM FinalIsRestrained == Spec => []FinalRestrained
<1>1. AnswerInv => FinalRestrained
  BY DEF AnswerInv
<1> QED
  BY <1>1, AnswerInvariant, PTL

\* What the tables say of the classes that block, and of a missing approval,
\* whatever override is asked for.
LEMMA BlocksAndApprovals ==
    ASSUME NEW class, NEW ctx, NEW f, f = FailureTier(class, ctx)
    PROVE  /\ f.class = class
           /\ DefaultTier(class) = "BLOCK" =>
                 f.next = "deny" /\ ~f.execution /\ ~f.projection
           /\ class = "approval_failure" => ~f.execution /\ f.tier = "DEGRADE_TO_STRICT"
<1>1. PICK tier : tier = ResolvedTier(class, ctx)
  OBVIOUS
<1>2. /\ f.class = class /\ f.tier = tier
      /\ f.execution = ExecutionAllowed(class, tier)
      /\ f.projection = ProjectionAllowed(class, tier, ctx.diagnosticsOnly)
      /\ tier = "BLOCK" => f.next = "deny"
  BY <1>1 DEF FailureTier
<1>3. DefaultTier(class) = "BLOCK" =>
        ~Overridable(class) /\ class # "projection_failure" /\ class # "adapter_execution_failure"
  BY DEF DefaultTier, Overridable
<1>4. ~Overridable(class) => tier = DefaultTier(class)
  BY <1>1 DEF ResolvedTier
<1>5. DefaultTier(class) = "BLOCK" => f.next = "deny" /\ ~f.execution /\ ~f.projection
  BY <1>2, <1>3, <1>4 DEF ExecutionAllowed, ProjectionAllowed
<1>6. class = "approval_failure" => ~Overridable(class) /\ DefaultTier(class) = "DEGRADE_TO_STRICT"
  BY DEF DefaultTier, Overridable
<1>7. class = "approval_failure" => ~f.execution /\ f.tier = "DEGRADE_TO_STRICT"
  BY <1>2, <1>4, <1>6 DEF ExecutionAllowed
<1> QED
  BY <1>2, <1>5, <1>7

\* A failure that blocks denies the bundle and stops execution and projection,
\* and an approval failure stops execution and keeps the operation below apply,
\* for every set of bundles and whatever the other ten resolvers say
\* (failure/resolve-failure-tier/resolver.go, pipeline/pipeline.go:72-127).
THEOREM FailsClosed == Spec => []FailClosed
<1>1. AnswerInv => FailClosed
  <2> SUFFICES ASSUME AnswerInv, Answered PROVE FailClosed
    BY DEF FailClosed
  <2>1. Evaluated /\ Len(steps) = 11
    BY OrderPlaces DEF AnswerInv, Told
  <2>2. FailurePlace \in 1..Len(steps) /\ OperationPlace \in 1..Len(steps)
    BY <2>1 DEF FailurePlace, OperationPlace
  <2>3. PICK f : f = Output("failure")
    OBVIOUS
  <2>4. f = steps[FailurePlace].output
    BY <2>1, <2>2, <2>3, MorePlaces, OutputAt
  <2>5. Output("operation") = steps[OperationPlace].output
    BY <2>1, <2>2, MorePlaces, OutputAt
  <2>6. FailurePlace <= Len(steps) /\ OperationPlace <= Len(steps)
    BY <2>1 DEF FailurePlace, OperationPlace
  <2>7. /\ FailureAnswered(steps[FailurePlace].output)
         /\ OperationAnswered(steps[OperationPlace].output, steps[FailurePlace].output.tier)
    BY <2>6 DEF AnswerInv, Told
  <2>8. PICK class, ctx : f = FailureTier(class, ctx)
    BY <2>4, <2>7 DEF FailureAnswered
  <2>9. /\ f.class = class
        /\ DefaultTier(class) = "BLOCK" => f.next = "deny" /\ ~f.execution /\ ~f.projection
        /\ class = "approval_failure" => ~f.execution /\ f.tier = "DEGRADE_TO_STRICT"
    BY <2>8, BlocksAndApprovals
  <2>10. f.next = "deny" => final = "deny"
    BY <2>2, <2>4 DEF AnswerInv, FinalRestrained
  <2>11. f.tier = "DEGRADE_TO_STRICT" => Output("operation").effective < 3
    <3>1. PICK command : Output("operation") = OperationCapability(command, f.tier)
      BY <2>4, <2>5, <2>7 DEF OperationAnswered
    <3>2. PICK base : base = ActionClass(command)
      OBVIOUS
    <3>3. base \in 1..3
      BY <3>2 DEF ActionClass
    <3>4. Output("operation").effective =
            IF base < CeilingForTier(f.tier) THEN base ELSE CeilingForTier(f.tier)
      BY <3>1, <3>2 DEF OperationCapability
    <3>5. f.tier = "DEGRADE_TO_STRICT" => CeilingForTier(f.tier) = 2
      BY DEF CeilingForTier
    <3> QED
      BY <3>3, <3>4, <3>5
  <2> QED
    BY <2>3, <2>9, <2>10, <2>11 DEF FailClosed
<1> QED
  BY <1>1, AnswerInvariant, PTL

-----------------------------------------------------------------------------
(* What a supported portability promises *)

LEMMA HasMore ==
  ASSUME NEW a, NEW b, NEW names, a \subseteq b, Has(a, names)
  PROVE  Has(b, names)
BY DEF Has

LEMMA CandidateNames ==
  /\ {"AGENTS.md"} \subseteq {Candidates[i] : i \in 1..Len(Candidates)}
  /\ RuleDirs \cup {".vscode"} \subseteq {Candidates[i] : i \in 1..Len(Candidates)}
  /\ {"docs"} \subseteq {Candidates[i] : i \in 1..Len(Candidates)}
<1>1. /\ Len(Candidates) = 17
      /\ Candidates[1] = "AGENTS.md" /\ Candidates[2] = ".cursor"
      /\ Candidates[3] = ".cursor/rules" /\ Candidates[6] = "docs"
      /\ Candidates[12] = ".vscode"
  BY DEF Candidates
<1>2. 1 \in 1..17 /\ 2 \in 1..17 /\ 3 \in 1..17 /\ 6 \in 1..17 /\ 12 \in 1..17
  OBVIOUS
<1> HIDE DEF Candidates
<1> QED
  BY <1>1, <1>2 DEF RuleDirs

LEMMA HasAsset ==
  ASSUME NEW fs, NEW names, names \subseteq {Candidates[i] : i \in 1..Len(Candidates)}
  PROVE  Has(Assets(fs), names) = Has(fs, names)
BY DEF Has, Assets

\* When a plan is supported, whatever of the project asks for a target is one
\* that the binding writes.
Served(fs, id, place) ==
  LET b == Load(id, place)
      Written(t, names) == Has(fs, names) => t \in b.targets
  IN  /\ Written("agents_md", {"AGENTS.md"})
      /\ Written("ide_rules", RuleDirs \cup {".vscode"})
      /\ Written("repo_docs", {"docs"})

LEMMA SupportedIsServed ==
  ASSUME NEW fs, NEW id, NEW place, NEW present,
         Gate(PlanPortability(id, place, Assets(fs), present))
  PROVE  Served(fs, id, place)
<1> DEFINE b == Load(id, place)
           requested == RequestedTargets(id, Assets(fs), b)
<1>1. requested \subseteq b.targets
  <2> DEFINE available == AvailableSources(Assets(fs), present)
             in == [requested |-> requested, available |-> available,
                    sources |-> b.sources, targets |-> b.targets, mode |-> b.mode]
  <2>1. PlanPortability(id, place, Assets(fs), present) = SurfacePortability(in)
    BY DEF PlanPortability
  <2>2. in.requested = requested /\ in.targets = b.targets
    OBVIOUS
  <2> HIDE DEF in, requested, b
  <2>3. SurfacePortability(in).status = "supported" =>
          in.requested \subseteq in.targets
    BY DEF SurfacePortability
  <2> QED
    BY <2>1, <2>2, <2>3 DEF Gate
<1>2. ProjectTargets(Assets(fs), b) # {} => ProjectTargets(Assets(fs), b) \subseteq b.targets
  BY <1>1 DEF RequestedTargets
<1>3. /\ Has(Assets(fs), {"AGENTS.md"}) => "agents_md" \in ProjectTargets(Assets(fs), b)
      /\ Has(Assets(fs), RuleDirs \cup {".vscode"}) =>
           "ide_rules" \in ProjectTargets(Assets(fs), b)
      /\ Has(Assets(fs), {"docs"}) => "repo_docs" \in ProjectTargets(Assets(fs), b)
  BY DEF ProjectTargets
<1> QED
  BY <1>2, <1>3, HasAsset, CandidateNames DEF Served

-----------------------------------------------------------------------------
(* Until an apply the files that have been there all along are in the      *)
(* project, and a plan that passes the gate serves them.                   *)

SurfacesInv ==
  /\ files \subseteq Varying /\ Possible(files)
  /\ kept \subseteq files
  /\ pc = "resolve" => source = "none"
  /\ pc # "stopped" => outcome = "none"
  /\ pc = "gate" => \A p \in plan : Gate(p) => Served(kept, iface, cmd.place)
  /\ outcome = "applied" => Served(kept, iface, cmd.place)

LEMMA ServedLess ==
  ASSUME NEW fs, NEW gs, gs \subseteq fs, NEW id, NEW place, Served(fs, id, place)
  PROVE  Served(gs, id, place)
BY HasMore DEF Served

LEMMA SurfacesInvStep == SurfacesInv /\ [SurfacesNext]_surfacesVars => SurfacesInv'
<1> SUFFICES ASSUME SurfacesInv, [SurfacesNext]_surfacesVars PROVE SurfacesInv'
  OBVIOUS
<1>1. CASE Edit
  <2>1. /\ kept' = kept \cap files' /\ kept' \subseteq kept
        /\ UNCHANGED <<pc, cmd, iface, source, plan, outcome>>
    BY <1>1 DEF Edit
  <2>2. files' \subseteq Varying /\ Possible(files')
    BY <1>1 DEF Edit, SurfacesInv
  <2>3. \A id, place : Served(kept, id, place) => Served(kept', id, place)
    BY <2>1, ServedLess
  <2> QED
    BY <2>1, <2>2, <2>3 DEF SurfacesInv
<1>2. ASSUME NEW c \in Command, BeginCommand(c) PROVE SurfacesInv'
  BY <1>2 DEF BeginCommand, project, store, SurfacesInv
<1>3. CASE ResolveGiven \/ ResolveAuto
  BY <1>3 DEF ResolveGiven, ResolveAuto, Resolve, project, store, SurfacesInv
<1>4. CASE ResolveDetected
  <2>1. /\ pc = "resolve" /\ kept' = files /\ files' = files
        /\ \/ pc' = "stopped" /\ outcome' \in {"error", "needs_input"}
           \/ pc' = "plan" /\ outcome' = outcome
    BY <1>4 DEF ResolveDetected, Resolve, Stop, project
  <2> QED
    BY <2>1 DEF SurfacesInv
<1>5. CASE Plan
  <2>1. pc = "plan" /\ UNCHANGED <<files, cmd, iface, source, kept>>
    BY <1>5 DEF Plan, project
  <2>2. CASE cmd.place = "outside"
    BY <1>5, <2>1, <2>2 DEF Plan, Stop, SurfacesInv
  <2>3. CASE cmd.place # "outside"
    <3>1. /\ plan' = {PlanPortability(iface, cmd.place, Assets(files), path = "normal")}
          /\ pc' = "gate" /\ outcome' = outcome
      BY <1>5, <2>3 DEF Plan
    <3>2. Gate(PlanPortability(iface, cmd.place, Assets(files), path = "normal"))
            => Served(kept, iface, cmd.place)
      BY SupportedIsServed, ServedLess DEF SurfacesInv
    <3>3. \A p \in plan' : Gate(p) => Served(kept', iface', cmd'.place)
      BY <2>1, <3>1, <3>2
    <3> QED
      BY <2>1, <3>1, <3>3 DEF SurfacesInv
  <2> QED
    BY <2>2, <2>3
<1>6. CASE AcceptOnboarding \/ Inspect
  BY <1>6 DEF AcceptOnboarding, Inspect, Stop, project, SurfacesInv
<1>7. CASE Apply
  <2>1. /\ pc = "gate" /\ pc' = "stopped"
        /\ UNCHANGED <<files, cmd, iface, source, plan, kept>>
        /\ \E p \in plan : outcome' = IF Gate(p) THEN "applied" ELSE "proposal_only"
    BY <1>7 DEF Apply, Stop, project
  <2> QED
    BY <2>1 DEF SurfacesInv
<1>8. CASE UNCHANGED surfacesVars
  BY <1>8 DEF surfacesVars, SurfacesInv
<1> QED
  BY <1>1, <1>2, <1>3, <1>4, <1>5, <1>6, <1>7, <1>8 DEF SurfacesNext

LEMMA SurfacesInvariant == SurfacesSpec => []SurfacesInv
<1>1. SurfacesInit => SurfacesInv
  BY DEF SurfacesInit, SurfacesInv
<1> QED
  BY <1>1, SurfacesInvStep, PTL DEF SurfacesSpec

\* An apply never goes ahead over what the binding cannot write, whatever the
\* project holds, whoever edits it meanwhile and wherever the command runs.
THEOREM AppliesServe == SurfacesSpec => []NoSilentDegrade
<1>1. SurfacesInv => NoSilentDegrade
  BY DEF SurfacesInv, NoSilentDegrade, Served
<1> QED
  BY <1>1, SurfacesInvariant, PTL
-----------------------------------------------------------------------------
(* The choice among the bindings *)

LEMMA IdNames ==
  /\ Len(Ids) = 7 /\ Ids[1] = "claude-code" /\ Ids[2] = "copilot" /\ Ids[3] = "cursor"
  /\ Ids[4] = "generic-cli" /\ Ids[5] = "github-actions" /\ Ids[6] = "mcp" /\ Ids[7] = "vscode"
BY DEF Ids

LEMMA IndexOf ==
  ASSUME NEW i \in 1..7
  PROVE  Index(Ids[i]) = i
<1>1. \A k \in 1..7 : Ids[k] = Ids[i] => k = i
  <2>1. \A k \in 1..7 : k = 1 \/ k = 2 \/ k = 3 \/ k = 4 \/ k = 5 \/ k = 6 \/ k = 7
    OBVIOUS
  <2> QED
    BY <2>1, IdNames
<1>2. Index(Ids[i]) = CHOOSE k \in 1..7 : Ids[k] = Ids[i]
  BY IdNames DEF Index
<1> HIDE DEF Ids
<1> QED
  BY <1>1, <1>2

LEMMA WeightType ==
  ASSUME NEW a, NEW names, NEW points \in Nat
  PROVE  Weight(a, names, points) \in Nat
BY DEF Weight

LEMMA PartsType ==
  ASSUME NEW b, NEW fs
  PROVE  SourcePoints(b, Assets(fs)) \in Nat /\ SurfacePoints(b, fs) \in Nat
<1>1. SourcePoints(b, Assets(fs)) \in Nat
  BY WeightType DEF SourcePoints
<1>2. SurfacePoints(b, fs) \in Nat
  BY WeightType DEF SurfacePoints
<1> QED
  BY <1>1, <1>2

LEMMA PointsType ==
  ASSUME NEW id, NEW fs
  PROVE  Points(id, fs) \in Nat
<1> DEFINE b == Binding(id)
<1>1. AnchorPoints(id) \in Nat
  BY DEF AnchorPoints
<1>2. SourcePoints(b, Assets(fs)) \in Nat
  BY PartsType
<1>3. SurfacePoints(b, fs) \in Nat
  BY PartsType
<1>4. /\ Weight(fs, {b.install}, 100) \in Nat /\ Weight(fs, {b.autostart}, 95) \in Nat
      /\ Weight(fs, Anchor(id), AnchorPoints(id)) \in Nat
  BY <1>1, WeightType
<1> HIDE DEF b
<1> QED
  BY <1>2, <1>3, <1>4 DEF Points, b

\* Of some bindings one is better than all others.
LEMMA BestExists ==
  ASSUME NEW scoring, scoring # {}, scoring \subseteq {Ids[i] : i \in 1..7}, NEW fs
  PROVE  \E x \in scoring : \A y \in scoring \ {x} : Better(x, y, fs)
<1> DEFINE First(k) == {x \in scoring : Index(x) <= k}
           Best(k) == \E x \in First(k) : \A y \in First(k) \ {x} : Better(x, y, fs)
           T == {k \in Nat : k <= 7 => First(k) = {} \/ Best(k)}
<1>1. \A x \in scoring : Index(x) \in 1..7 /\ Ids[Index(x)] = x /\ Points(x, fs) \in Nat
  BY IndexOf, PointsType
<1>2. 0 \in T
  <2>1. First(0) = {}
    BY <1>1
  <2> QED
    BY <2>1
<1>3. ASSUME NEW k \in T PROVE k + 1 \in T
  <2> SUFFICES ASSUME k + 1 <= 7, First(k + 1) # {} PROVE Best(k + 1)
    OBVIOUS
  <2>1. k \in Nat /\ k <= 7 /\ (First(k) = {} \/ Best(k))
    OBVIOUS
  <2>2. \A x \in First(k + 1) : x \in First(k) \/ x = Ids[k + 1]
    <3> TAKE x \in First(k + 1)
    <3>1. Index(x) <= k \/ Index(x) = k + 1
      BY <1>1, <2>1
    <3> QED
      BY <1>1, <3>1
  <2>3. \A x \in First(k) : x \in First(k + 1) /\ Index(x) < k + 1
    BY <1>1, <2>1
  <2>4. CASE Ids[k + 1] \notin First(k + 1)
    <3>1. First(k + 1) = First(k)
      BY <2>2, <2>3, <2>4
    <3> HIDE DEF First
    <3> QED
      BY <2>1, <3>1
  <2>5. CASE Ids[k + 1] \in First(k + 1)
    <3>1. PICK new \in First(k + 1) : new = Ids[k + 1]
      BY <2>5
    <3>2. Index(new) = k + 1
      BY <2>1, <3>1, IndexOf
    <3>3. CASE First(k) = {}
      <4>1. \A y \in First(k + 1) : y = new
        BY <2>2, <3>1, <3>3
      <4> HIDE DEF First
      <4> QED
        BY <4>1
    <3>4. CASE Best(k)
      <4>1. PICK x \in First(k) : \A y \in First(k) \ {x} : Better(x, y, fs)
        BY <3>4
      <4>2. /\ \A y \in First(k) : Points(x, fs) >= Points(y, fs)
            /\ \A y \in First(k) : Points(y, fs) \in Nat
            /\ Points(new, fs) \in Nat
        BY <1>1, <4>1 DEF Better
      <4>3. CASE Points(new, fs) > Points(x, fs)
        <5>1. \A y \in First(k) : Better(new, y, fs)
          BY <4>2, <4>3 DEF Better
        <5> HIDE DEF First
        <5> QED
          BY <2>2, <3>1, <5>1
      <4>4. CASE ~(Points(new, fs) > Points(x, fs))
        <5>1. Better(x, new, fs)
          BY <2>3, <3>2, <4>2, <4>4 DEF Better
        <5>2. x \in First(k + 1)
          BY <2>3
        <5>3. \A y \in First(k + 1) \ {x} : Better(x, y, fs)
          <6> HIDE DEF First
          <6> QED
            BY <2>2, <3>1, <4>1, <5>1
        <5> HIDE DEF First
        <5> QED
          BY <5>2, <5>3
      <4> QED
        BY <4>3, <4>4
    <3> QED
      BY <2>1, <3>3, <3>4
  <2> QED
    BY <2>4, <2>5
<1>4. First(7) = {} \/ Best(7)
  <2>1. \A k \in Nat : k \in T
    <3>1. T \in SUBSET Nat
      OBVIOUS
    <3> HIDE DEF T
    <3> QED
      BY <1>2, <1>3, <3>1, SetInduction
  <2> HIDE DEF First, Best
  <2> QED
    BY <2>1
<1>5. First(7) = scoring
  BY <1>1
<1> QED
  BY <1>4, <1>5

\* What an editor has no file of its own for, copilot scores as well.
LEMMA CopilotScores ==
  ASSUME NEW fs, Possible(fs)
  PROVE  /\ ~Has(fs, {".vscode", ".atrakta/wrap/vscode.sh"}) =>
              Points("copilot", fs) >= Points("vscode", fs)
         /\ ~Has(fs, RuleDirs \cup {".atrakta/wrap/cursor.sh"}) =>
              Points("copilot", fs) >= Points("cursor", fs)
<1> DEFINE c == IdeBinding("", "")
           v == IdeBinding(".atrakta/wrap/vscode.sh", ".vscode/tasks.json")
           u == IdeBinding(".atrakta/wrap/cursor.sh", ".cursor/autostart.json")
<1>1. Binding("copilot") = c /\ Binding("vscode") = v /\ Binding("cursor") = u
  BY DEF Binding
<1>2. /\ c.sources = v.sources /\ c.sources = u.sources
      /\ c.surfaces = {"tool_hint", "diagnostics"}
      /\ v.surfaces = {"tool_hint", "diagnostics", "autostart"}
      /\ u.surfaces = {"tool_hint", "diagnostics", "autostart"}
      /\ v.install = ".atrakta/wrap/vscode.sh" /\ v.autostart = ".vscode/tasks.json"
      /\ u.install = ".atrakta/wrap/cursor.sh" /\ u.autostart = ".cursor/autostart.json"
  BY DEF IdeBinding
<1>3. /\ Anchor("vscode") = {".vscode"} /\ Anchor("cursor") = RuleDirs
      /\ Anchor("copilot") = {}
  BY DEF Anchor
<1>4. /\ SourcePoints(c, Assets(fs)) = SourcePoints(v, Assets(fs))
      /\ SourcePoints(c, Assets(fs)) = SourcePoints(u, Assets(fs))
  <2> HIDE DEF c, v, u
  <2> QED
    BY <1>2 DEF SourcePoints
<1>5. PICK n \in Nat : n = SourcePoints(c, Assets(fs))
  BY PartsType
<1>6. PICK m \in Nat : m = SurfacePoints(c, fs)
  BY PartsType
<1>7. \A b \in {v, u} : ~Has(fs, {b.autostart}) => SurfacePoints(b, fs) = m
  <2> TAKE b \in {v, u}
  <2>1. /\ "autostart" \notin c.surfaces
        /\ "tool_hint" \in c.surfaces /\ "diagnostics" \in c.surfaces
        /\ "tool_hint" \in b.surfaces /\ "diagnostics" \in b.surfaces
    BY <1>2
  <2> DEFINE w == Weight(Assets(fs), {".cursor", ".vscode", "AGENTS.md"}, 10)
             x == Weight(Assets(fs), {"docs", "AGENTS.md"}, 5)
  <2>2. w \in Nat /\ x \in Nat
    BY WeightType
  <2>3. SurfacePoints(c, fs) = 0 + w + x
    BY <2>1 DEF SurfacePoints
  <2>4. ~Has(fs, {b.autostart}) => SurfacePoints(b, fs) = 0 + w + x
    BY <2>1 DEF SurfacePoints, Weight
  <2> QED
    BY <1>6, <2>3, <2>4
<1>8. Points("copilot", fs) >= n + m
  <2>1. /\ Weight(fs, {c.install}, 100) \in Nat /\ Weight(fs, {c.autostart}, 95) \in Nat
        /\ Weight(fs, Anchor("copilot"), AnchorPoints("copilot")) \in Nat
    BY WeightType DEF AnchorPoints
  <2> HIDE DEF c
  <2> QED
    BY <1>1, <1>5, <1>6, <2>1 DEF Points
<1>9. ASSUME ~Has(fs, {".vscode", ".atrakta/wrap/vscode.sh"})
      PROVE  Points("vscode", fs) = n + m
  <2>1. ~Has(fs, {v.install}) /\ ~Has(fs, {".vscode"})
    BY <1>2, <1>9 DEF Has
  <2>2. ~Has(fs, {v.autostart})
    <3>1. DirOf(".vscode/tasks.json") = {".vscode"}
      BY DEF DirOf
    <3> QED
      BY <1>2, <2>1, <3>1 DEF Has, Possible
  <2>3. /\ Weight(fs, {v.install}, 100) = 0 /\ Weight(fs, {v.autostart}, 95) = 0
        /\ Weight(fs, Anchor("vscode"), AnchorPoints("vscode")) = 0
    BY <1>3, <2>1, <2>2 DEF Weight
  <2>4. SurfacePoints(v, fs) = m
    BY <1>7, <2>2
  <2> HIDE DEF v, c
  <2>5. Points("vscode", fs) =
          Weight(fs, {v.install}, 100) + Weight(fs, {v.autostart}, 95)
            + Weight(fs, Anchor("vscode"), AnchorPoints("vscode"))
            + SourcePoints(v, Assets(fs)) + SurfacePoints(v, fs)
    BY <1>1 DEF Points
  <2>6. SourcePoints(v, Assets(fs)) = n
    BY <1>4, <1>5
  <2> QED
    BY <2>3, <2>4, <2>5, <2>6
<1>10. ASSUME ~Has(fs, RuleDirs \cup {".atrakta/wrap/cursor.sh"})
       PROVE  Points("cursor", fs) = n + m
  <2>1. ~Has(fs, {u.install}) /\ ~Has(fs, RuleDirs)
    BY <1>2, <1>10 DEF Has
  <2>2. ~Has(fs, {u.autostart})
    <3>1. DirOf(".cursor/autostart.json") = {".cursor"}
      BY DEF DirOf
    <3> QED
      BY <1>2, <2>1, <3>1 DEF Has, Possible, RuleDirs
  <2>3. /\ Weight(fs, {u.install}, 100) = 0 /\ Weight(fs, {u.autostart}, 95) = 0
        /\ Weight(fs, Anchor("cursor"), AnchorPoints("cursor")) = 0
    BY <1>3, <2>1, <2>2 DEF Weight
  <2>4. SurfacePoints(u, fs) = m
    BY <1>7, <2>2
  <2> HIDE DEF u, c
  <2>5. Points("cursor", fs) =
          Weight(fs, {u.install}, 100) + Weight(fs, {u.autostart}, 95)
            + Weight(fs, Anchor("cursor"), AnchorPoints("cursor"))
            + SourcePoints(u, Assets(fs)) + SurfacePoints(u, fs)
    BY <1>1 DEF Points
  <2>6. SourcePoints(u, Assets(fs)) = n
    BY <1>4, <1>5
  <2> QED
    BY <2>3, <2>4, <2>5, <2>6
<1>11. Points("copilot", fs) \in Nat
  BY PointsType
<1> QED
  BY <1>8, <1>9, <1>10, <1>11

LEMMA DetectShows ==
  ASSUME NEW fs, Possible(fs), NEW place
  PROVE  /\ Detect(fs, place) = "vscode" => Has(fs, {".vscode", ".atrakta/wrap/vscode.sh"})
         /\ Detect(fs, place) = "cursor" => Has(fs, RuleDirs \cup {".atrakta/wrap/cursor.sh"})
<1> DEFINE scoring == {id \in Listed(place) : Points(id, fs) > 0}
<1>1. CASE scoring = {}
  <2>1. Detect(fs, place) = ByAsset(Assets(fs))
    BY <1>1 DEF Detect
  <2>2. ByAsset(Assets(fs)) = "vscode" => Has(Assets(fs), {".vscode"})
    BY DEF ByAsset
  <2>3. ByAsset(Assets(fs)) = "cursor" => Has(Assets(fs), RuleDirs)
    BY DEF ByAsset
  <2> QED
    BY <2>1, <2>2, <2>3 DEF Has, Assets
<1>2. CASE scoring # {}
  <2>1. Listed(place) = {Ids[i] : i \in 1..7}
    BY <1>2, IdNames DEF Listed
  <2>2. PICK x : x = CHOOSE z \in scoring : \A y \in scoring \ {z} : Better(z, y, fs)
    OBVIOUS
  <2>3. x \in scoring /\ \A y \in scoring \ {x} : Better(x, y, fs)
    <3> HIDE DEF scoring
    <3>1. scoring \subseteq {Ids[i] : i \in 1..7}
      BY <2>1 DEF scoring
    <3>2. \E z \in scoring : \A y \in scoring \ {z} : Better(z, y, fs)
      BY <1>2, <3>1, BestExists
    <3> QED
      BY <2>2, <3>2
  <2>4. Detect(fs, place) = x
    BY <1>2, <2>2 DEF Detect
  <2>5. Index("copilot") = 2 /\ Index("vscode") = 7 /\ Index("cursor") = 3
    BY IdNames, IndexOf
  <2>6. "copilot" \in Listed(place)
    BY <2>1, IdNames
  <2>7. \A id \in {"vscode", "cursor"} : ~(x = id /\ Points("copilot", fs) >= Points(id, fs))
    <3> SUFFICES ASSUME NEW id \in {"vscode", "cursor"}, x = id,
                        Points("copilot", fs) >= Points(id, fs)
                 PROVE  FALSE
      OBVIOUS
    <3>1. Points("copilot", fs) \in Nat /\ Points(id, fs) \in Nat
      BY PointsType
    <3>2. "copilot" \in scoring \ {x}
      BY <2>3, <2>6, <3>1
    <3>3. Better(id, "copilot", fs)
      <4> HIDE DEF scoring
      <4> QED
        BY <2>3, <3>2
    <3> QED
      BY <2>5, <3>1, <3>3 DEF Better
  <2> QED
    BY <2>4, <2>7, CopilotScores
<1> QED
  BY <1>1, <1>2

\* An editor is detected only where the project shows a sign of it, whatever
\* files a project may have: the score decides, and copilot wins a draw.
THEOREM EditorIsShown == SurfacesSpec => EditorShown
<1>1. SurfacesInv /\ [SurfacesNext]_surfacesVars =>
        [pc = "resolve" /\ source' = "detect" =>
           /\ iface' = "vscode" => Has(files, {".vscode", ".atrakta/wrap/vscode.sh"})
           /\ iface' = "cursor" => Has(files, RuleDirs \cup {".atrakta/wrap/cursor.sh"})]_surfacesVars
  <2> SUFFICES ASSUME SurfacesInv, SurfacesNext, pc = "resolve", source' = "detect"
               PROVE  /\ iface' = "vscode" => Has(files, {".vscode", ".atrakta/wrap/vscode.sh"})
                      /\ iface' = "cursor" =>
                           Has(files, RuleDirs \cup {".atrakta/wrap/cursor.sh"})
    OBVIOUS
  <2>1. source = "none" /\ Possible(files)
    BY DEF SurfacesInv
  <2>2. ResolveDetected
    BY <2>1 DEF SurfacesNext, Edit, BeginCommand, ResolveGiven, ResolveAuto, Resolve, Plan,
                AcceptOnboarding, Inspect, Apply
  <2>3. iface' = Detect(files, cmd.place)
    BY <2>2 DEF ResolveDetected, Resolve
  <2> QED
    BY <2>1, <2>3, DetectShows
<1> QED
  BY <1>1, SurfacesInvariant, PTL DEF SurfacesSpec, EditorShown

-----------------------------------------------------------------------------
(* The types of Surfaces *)

LEMMA PlanStatus ==
  ASSUME NEW id, NEW place, NEW a, NEW present
  PROVE  PlanPortability(id, place, a, present).status
           \in {"supported", "degraded", "unsupported"}
<1>1. \A in : SurfacePortability(in).status \in {"supported", "degraded", "unsupported"}
  BY DEF SurfacePortability
<1> QED
  BY <1>1 DEF PlanPortability

LEMMA DetectIsKnown ==
  ASSUME NEW fs, NEW place
  PROVE  Detect(fs, place) \in Known \cup {"unresolved"}
<1> DEFINE scoring == {id \in Listed(place) : Points(id, fs) > 0}
<1>1. Known = {Ids[i] : i \in 1..7} /\ Listed(place) \subseteq Known
  BY IdNames DEF Known, Listed
<1>2. CASE scoring = {}
  <2>1. Detect(fs, place) = ByAsset(Assets(fs))
    BY <1>2 DEF Detect
  <2>2. {"cursor", "vscode", "mcp", "generic-cli", "github-actions"} \subseteq Known
    BY <1>1, IdNames
  <2>3. ByAsset(Assets(fs)) \in {"cursor", "vscode", "mcp", "generic-cli", "github-actions",
                                 "unresolved"}
    BY DEF ByAsset
  <2> QED
    BY <2>1, <2>2, <2>3
<1>3. CASE scoring # {}
  <2>1. Detect(fs, place) = CHOOSE x \in scoring : \A y \in scoring \ {x} : Better(x, y, fs)
    BY <1>3 DEF Detect
  <2>2. \E x \in scoring : \A y \in scoring \ {x} : Better(x, y, fs)
    <3>1. scoring \subseteq {Ids[i] : i \in 1..7}
      BY <1>1
    <3> HIDE DEF scoring
    <3> QED
      BY <1>3, <3>1, BestExists
  <2>3. Detect(fs, place) \in scoring
    <3> HIDE DEF scoring
    <3> QED
      BY <2>1, <2>2
  <2> QED
    BY <1>1, <2>3
<1> QED
  BY <1>2, <1>3

\* The types, those that mention the empty name apart.
Name == Known \cup Givens \cup {""}
AnyCommand == Command \cup {NoCommand}
NameTypes == auto \in Name /\ cmd \in AnyCommand /\ iface \in Name
OtherTypes ==
  /\ files \subseteq Varying /\ Possible(files) /\ kept \subseteq files
  /\ edits \in 0..Edits
  /\ onboarded \in BOOLEAN
  /\ pc \in {"idle", "resolve", "plan", "gate", "stopped"}
  /\ path \in {"none", "onboarding", "normal"}
  /\ source \in {"none", "given", "auto", "detect", "default"}
  /\ \A p \in plan : p.status \in {"supported", "degraded", "unsupported"}
  /\ outcome \in {"none", "error", "needs_input", "onboarded", "inspected",
                  "proposal_only", "applied"}

LEMMA TypeParts == SurfacesTypeOK <=> NameTypes /\ OtherTypes
BY Zenon DEF SurfacesTypeOK, NameTypes, OtherTypes, Name, AnyCommand

LEMMA NameParts ==
  /\ Known \subseteq Name /\ Givens \subseteq Name /\ "" \in Name
  /\ Command \subseteq AnyCommand
  /\ \A c \in AnyCommand : c.given \in Name
<1>1. NoCommand.given = ""
  BY Zenon DEF NoCommand
<1>2. \A c \in Command : c.given \in Givens
  BY DEF Command
<1> QED
  BY <1>1, <1>2, Zenon DEF Name, AnyCommand

LEMMA EditsBound == Edits \in Nat
BY SurfacesAssumption, Zenon

\* Whatever the projects and the places, the variables have their types: an
\* interface is one of the bindings or was named by the user, also when it comes
\* from the auto state.
THEOREM SurfacesTypeSafe == SurfacesSpec => []SurfacesTypeOK
<1>1. SurfacesInit => NameTypes /\ OtherTypes
  <2> SUFFICES ASSUME SurfacesInit PROVE NameTypes /\ OtherTypes
    OBVIOUS
  <2>1. NameTypes
    BY NameParts, Zenon DEF SurfacesInit, NameTypes, AnyCommand
  <2>2. /\ files \subseteq Varying /\ Possible(files) /\ kept = {}
        /\ edits = 0 /\ onboarded = FALSE /\ pc = "idle" /\ path = "none"
        /\ source = "none" /\ plan = {} /\ outcome = "none"
    BY Zenon DEF SurfacesInit
  <2>3. edits \in 0..Edits
    BY <2>2, EditsBound
  <2>4. kept \subseteq files /\ \A p \in plan : FALSE
    BY <2>2
  <2> QED
    BY <2>1, <2>2, <2>3, <2>4, Zenon DEF OtherTypes
<1>2. NameTypes /\ OtherTypes /\ [SurfacesNext]_surfacesVars => NameTypes' /\ OtherTypes'
  <2> SUFFICES ASSUME NameTypes, OtherTypes, [SurfacesNext]_surfacesVars
               PROVE  NameTypes' /\ OtherTypes'
    OBVIOUS
  <2>1. CASE Edit
    <3>1. edits' \in 0..Edits
      BY <2>1, EditsBound DEF Edit, OtherTypes
    <3>2. files' \subseteq Varying /\ Possible(files') /\ kept' \subseteq files'
      BY <2>1 DEF Edit, OtherTypes
    <3> QED
      BY <2>1, <3>1, <3>2 DEF Edit, OtherTypes, NameTypes, store
  <2>2. ASSUME NEW c \in Command, BeginCommand(c) PROVE NameTypes' /\ OtherTypes'
    <3>1. /\ cmd' = c /\ iface' \in Name /\ auto' = auto
          /\ UNCHANGED <<files, edits, onboarded>>
          /\ kept' = files /\ pc' = "resolve" /\ source' = "none" /\ outcome' = "none"
          /\ plan' = {}
      BY <2>2, NameParts, Zenon DEF BeginCommand, project, store
    <3>2. path' \in {"onboarding", "normal"}
      BY <2>2, Zenon DEF BeginCommand
    <3>3. cmd' \in AnyCommand
      BY <3>1, NameParts, Zenon
    <3> QED
      BY <3>1, <3>2, <3>3 DEF OtherTypes, NameTypes
  <2>3. CASE ResolveGiven \/ ResolveAuto
    <3>1. /\ iface' \in {cmd.given, auto} /\ source' \in {"given", "auto"}
          /\ pc' = "plan" /\ outcome' = outcome /\ kept' = files
          /\ UNCHANGED <<files, edits, onboarded, auto, cmd, path, plan>>
      BY <2>3, Zenon DEF ResolveGiven, ResolveAuto, Resolve, project, store
    <3>2. iface' \in Name
      BY <3>1, NameParts, Zenon DEF NameTypes
    <3> QED
      BY <3>1, <3>2 DEF OtherTypes, NameTypes
  <2>4. CASE ResolveDetected
    <3>1. Detect(files, cmd.place) \in Known \cup {"unresolved"}
      BY DetectIsKnown
    <3>2. "generic-cli" \in Known
      BY IdNames DEF Known
    <3>3. /\ kept' = files
          /\ UNCHANGED <<files, edits, onboarded, auto, cmd, path, plan>>
      BY <2>4, Zenon DEF ResolveDetected, Resolve, project, store
    <3>4. /\ source' \in {"none", "detect", "default"}
          /\ pc' \in {"stopped", "plan"}
          /\ outcome' = outcome \/ outcome' \in {"error", "needs_input"}
      BY <2>4, Zenon DEF ResolveDetected, Resolve, Stop
    <3>5. iface' \in Name
      BY <2>4, <3>1, <3>2, NameParts, Zenon DEF ResolveDetected, Resolve
    <3> QED
      BY <3>3, <3>4, <3>5 DEF OtherTypes, NameTypes
  <2>5. CASE Plan
    <3>1. /\ UNCHANGED <<files, edits, onboarded, auto, cmd, path, iface, source, kept>>
          /\ pc' \in {"stopped", "gate"}
          /\ outcome' = outcome \/ outcome' = "error"
          /\ plan' = plan
             \/ plan' = {PlanPortability(iface, cmd.place, Assets(files), path = "normal")}
      BY <2>5 DEF Plan, Stop, project, store
    <3>2. \A p \in plan' : p.status \in {"supported", "degraded", "unsupported"}
      BY <3>1, PlanStatus DEF OtherTypes
    <3> QED
      BY <3>1, <3>2 DEF OtherTypes, NameTypes
  <2>6. CASE AcceptOnboarding \/ Inspect \/ Apply
    <3>1. /\ UNCHANGED <<files, edits, cmd, path, iface, source, plan, kept>>
          /\ pc' = "stopped" /\ auto' \in {iface, auto}
          /\ onboarded' = onboarded \/ onboarded' = TRUE
          /\ outcome' \in {"onboarded", "inspected", "applied", "proposal_only"}
      BY <2>6 DEF AcceptOnboarding, Inspect, Apply, Remember, Stop, project
    <3> QED
      BY <3>1 DEF OtherTypes, NameTypes
  <2>7. CASE UNCHANGED surfacesVars
    BY <2>7 DEF surfacesVars, OtherTypes, NameTypes
  <2> QED
    BY <2>1, <2>2, <2>3, <2>4, <2>5, <2>6, <2>7 DEF SurfacesNext
<1>3. SurfacesSpec => [](NameTypes /\ OtherTypes)
  BY <1>1, <1>2, PTL DEF SurfacesSpec
<1> QED
  BY <1>3, TypeParts, PTL
=============================================================================
