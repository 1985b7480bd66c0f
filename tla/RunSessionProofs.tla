-------------------------- MODULE RunSessionProofs --------------------------
(***************************************************************************)
(* Theorems about RunSession, for any set of commands, any interfaces,     *)
(* inputs and targets, and any bounds.                                     *)
(***************************************************************************)
EXTENDS RunSession, SequenceTheorems, TLAPS

-----------------------------------------------------------------------------
(* The steps of the routes *)

Occurs(x, s) == \E i \in 1..Len(s) : s[i] = x

LEMMA OccursConcat ==
  ASSUME NEW S, NEW s \in Seq(S), NEW t \in Seq(S), NEW x
  PROVE  /\ s \o t \in Seq(S)
         /\ Occurs(x, s \o t) <=> Occurs(x, s) \/ Occurs(x, t)
<1>1. /\ s \o t \in Seq(S) /\ Len(s \o t) = Len(s) + Len(t)
      /\ Len(s) \in Nat /\ Len(t) \in Nat
      /\ \A i \in 1..Len(s) : (s \o t)[i] = s[i]
      /\ \A i \in 1..Len(t) : (s \o t)[Len(s) + i] = t[i]
  BY ConcatProperties, LenProperties
<1>2. Occurs(x, s) => Occurs(x, s \o t)
  BY <1>1 DEF Occurs
<1>3. ASSUME Occurs(x, t) PROVE Occurs(x, s \o t)
  <2>1. PICK i \in 1..Len(t) : t[i] = x
    BY <1>3 DEF Occurs
  <2>2. Len(s) + i \in 1..Len(s \o t) /\ (s \o t)[Len(s) + i] = x
    BY <1>1, <2>1
  <2> QED
    BY <2>2 DEF Occurs
<1>4. ASSUME Occurs(x, s \o t) PROVE Occurs(x, s) \/ Occurs(x, t)
  <2>1. PICK i \in 1..Len(s \o t) : (s \o t)[i] = x
    BY <1>4 DEF Occurs
  <2>2. CASE i \in 1..Len(s)
    BY <1>1, <2>1, <2>2 DEF Occurs
  <2>3. CASE i - Len(s) \in 1..Len(t)
    <3>1. Len(s) + (i - Len(s)) = i
      BY <1>1
    <3> QED
      BY <1>1, <2>1, <2>3, <3>1 DEF Occurs
  <2> QED
    BY <1>1, <2>2, <2>3
<1> QED
  BY <1>1, <1>2, <1>3, <1>4

RunEvents == Events \ {"run_execute"}
Saved == {File("snapshot"), File("auto"), <<"merge", "graph">>, File("graph"), File("handoff")}
Audited == {Event("install", "run_execute")} \cup {Event("run", e) : e \in RunEvents}
Mutated == {File(f) : f \in T} \cup {Event("install", f) : f \in T}
Anything == Saved \cup Audited \cup Mutated \cup {File("run-state")}

LEMMA SavesItems ==
  /\ Saves \in Seq(Anything)
  /\ \A x : Occurs(x, Saves) <=> x \in Saved
<1>1. /\ Len(Saves) = 5 /\ Saves[1] = File("snapshot") /\ Saves[2] = File("auto")
      /\ Saves[3] = <<"merge", "graph">> /\ Saves[4] = File("graph") /\ Saves[5] = File("handoff")
  BY DEF Saves
<1>2. \A x : Occurs(x, Saves) <=> x \in {Saves[1], Saves[2], Saves[3], Saves[4], Saves[5]}
  BY <1>1 DEF Occurs
<1>3. Saves \in Seq(Anything)
  BY DEF Saves, Anything, Saved
<1> QED
  BY <1>1, <1>2, <1>3 DEF Saved

LEMMA MutationsItems ==
  /\ Len(Targets) \in Nat
  /\ Mutations \in Seq(Anything) /\ Len(Mutations) = 2 * Len(Targets)
  /\ \A i \in 1..Len(Targets) :
       /\ Mutations[2 * i - 1] = File(Targets[i])
       /\ Mutations[2 * i] = Event("install", Targets[i])
  /\ \A k \in 1..Len(Mutations) :
       \E i \in 1..Len(Targets) :
         \/ k = 2 * i - 1 /\ Mutations[k] = File(Targets[i])
         \/ k = 2 * i /\ Mutations[k] = Event("install", Targets[i])
<1> DEFINE L == Len(Targets)
<1>1. L \in Nat
  BY SessionAssumption
<1>2. /\ Mutations = [k \in 1..2 * L |-> IF k % 2 = 1 THEN File(Targets[(k + 1) \div 2])
                                         ELSE Event("install", Targets[k \div 2])]
  BY DEF Mutations
<1> HIDE DEF L
<1>3. \A i \in 1..L : 2 * i - 1 \in 1..2 * L /\ 2 * i \in 1..2 * L
                       /\ (2 * i - 1) % 2 = 1 /\ (2 * i) % 2 # 1
                       /\ ((2 * i - 1) + 1) \div 2 = i /\ (2 * i) \div 2 = i
  BY <1>1
<1>4. \A k \in 1..2 * L : \E i \in 1..L : k = 2 * i - 1 \/ k = 2 * i
  <2>1. \A k \in 1..2 * L : (k + 1) \div 2 \in 1..L /\ (k = 2 * ((k + 1) \div 2) - 1 \/ k = 2 * ((k + 1) \div 2))
    BY <1>1
  <2> QED
    BY <2>1
<1>5. \A i \in 1..L : /\ Mutations[2 * i - 1] = File(Targets[i])
                      /\ Mutations[2 * i] = Event("install", Targets[i])
  BY <1>2, <1>3
<1>6. \A i \in 1..L : Targets[i] \in T
  BY DEF L, T
<1>7. \A k \in 1..2 * L : Mutations[k] \in Anything
  BY <1>4, <1>5, <1>6 DEF Anything, Mutated
<1>8. Mutations \in Seq(Anything) /\ Len(Mutations) = 2 * L
  <2>1. 2 * L \in Nat
    BY <1>1
  <2>2. Mutations \in [1..2 * L -> Anything]
    BY <1>2, <1>7
  <2> QED
    BY <2>1, <2>2
<1>9. \A k \in 1..2 * L : \E i \in 1..L :
        \/ k = 2 * i - 1 /\ Mutations[k] = File(Targets[i])
        \/ k = 2 * i /\ Mutations[k] = Event("install", Targets[i])
  <2> TAKE k \in 1..2 * L
  <2>1. PICK i \in 1..L : k = 2 * i - 1 \/ k = 2 * i
    BY <1>4
  <2>2. /\ Mutations[2 * i - 1] = File(Targets[i])
        /\ Mutations[2 * i] = Event("install", Targets[i])
    BY <1>5
  <2>3. \/ k = 2 * i - 1 /\ Mutations[k] = File(Targets[i])
        \/ k = 2 * i /\ Mutations[k] = Event("install", Targets[i])
    BY <2>1, <2>2
  <2> QED
    BY <2>3
<1> USE DEF L
<1> QED
  BY <1>1, <1>5, <1>8, <1>9

LEMMA OnlyItems ==
  ASSUME NEW c \in BOOLEAN, NEW s \in Seq(Anything)
  PROVE  /\ Only(c, s) \in Seq(Anything)
         /\ \A x : Occurs(x, Only(c, s)) <=> c /\ Occurs(x, s)
BY DEF Only, Occurs
LEMMA Joined ==
  ASSUME NEW s \in Seq(Anything), NEW t \in Seq(Anything)
  PROVE  /\ s \o t \in Seq(Anything)
         /\ \A x : Occurs(x, s \o t) <=> Occurs(x, s) \/ Occurs(x, t)
BY OccursConcat

LEMMA EventItems ==
  /\ \A e \in RunEvents : Event("run", e) \in Anything
  /\ Event("install", "run_execute") \in Anything /\ File("run-state") \in Anything
  /\ File("auto") \in Anything /\ File("handoff") \in Anything
BY DEF Anything, Audited, Saved

\* What each route does, in terms of what occurs in it.
LEMMA FastItems ==
  /\ Fast \in Seq(Anything)
  /\ \A x : Occurs(x, Fast) <=>
       x \in {Event("install", "run_execute"), File("auto"), File("handoff"), Event("run", "end")}
<1>1. Len(Fast) = 4 /\ Fast[1] = Event("install", "run_execute") /\ Fast[2] = File("auto")
      /\ Fast[3] = File("handoff") /\ Fast[4] = Event("run", "end")
  BY DEF Fast
<1>2. \A x : Occurs(x, Fast) <=> x \in {Fast[1], Fast[2], Fast[3], Fast[4]}
  BY <1>1 DEF Occurs
<1>3. Fast \in Seq(Anything)
  BY EventItems DEF Fast, RunEvents, Events
<1> QED
  BY <1>1, <1>2, <1>3

LEMMA OneItem ==
  ASSUME NEW a \in Anything
  PROVE  <<a>> \in Seq(Anything) /\ \A x : Occurs(x, <<a>>) <=> x = a
BY DEF Occurs

LEMMA TwoItems ==
  ASSUME NEW a \in Anything, NEW b \in Anything
  PROVE  <<a, b>> \in Seq(Anything) /\ \A x : Occurs(x, <<a, b>>) <=> x \in {a, b}
<1>1. /\ <<a, b>> \in Seq(Anything) /\ Len(<<a, b>>) = 2
      /\ <<a, b>>[1] = a /\ <<a, b>>[2] = b
  OBVIOUS
<1> QED
  BY <1>1 DEF Occurs

LEMMA ThreeItems ==
  ASSUME NEW a \in Anything, NEW b \in Anything, NEW c \in Anything
  PROVE  <<a, b, c>> \in Seq(Anything) /\ \A x : Occurs(x, <<a, b, c>>) <=> x \in {a, b, c}
<1>1. /\ <<a, b, c>> \in Seq(Anything) /\ Len(<<a, b, c>>) = 3
      /\ <<a, b, c>>[1] = a /\ <<a, b, c>>[2] = b /\ <<a, b, c>>[3] = c
  OBVIOUS
<1> QED
  BY <1>1 DEF Occurs

LEMMA SessionType ==
  ASSUME req \in [Proc -> Requests], NEW p \in Proc
  PROVE  Session(p) \in BOOLEAN /\ req[p].apply \in BOOLEAN /\ req[p].approves \in BOOLEAN
BY SessionAssumption DEF Session, Request

LEMMA LookItems ==
  ASSUME req \in [Proc -> Requests], NEW p \in Proc
  PROVE  /\ Look(p) \in Seq(Anything)
         /\ \A x : Occurs(x, Look(p)) <=>
              \/ Session(p) /\ x \in {Event("run", "detect.performed"), Event("run", "plan.created")}
              \/ req[p].apply /\ x \in {Event("install", "run_execute"), Event("run", "apply.begin")}
<1> DEFINE a == <<Event("run", "detect.performed"), Event("run", "plan.created")>>
           b == <<Event("install", "run_execute"), Event("run", "apply.begin")>>
<1>1. /\ a \in Seq(Anything) /\ b \in Seq(Anything)
      /\ \A x : Occurs(x, a) <=> x \in {Event("run", "detect.performed"), Event("run", "plan.created")}
      /\ \A x : Occurs(x, b) <=> x \in {Event("install", "run_execute"), Event("run", "apply.begin")}
  BY TwoItems, EventItems DEF RunEvents, Events
<1>2. Look(p) = Only(Session(p), a) \o Only(req[p].apply, b)
  BY DEF Look
<1> HIDE DEF a, b
<1>3. /\ Only(Session(p), a) \in Seq(Anything) /\ Only(req[p].apply, b) \in Seq(Anything)
      /\ \A x : Occurs(x, Only(Session(p), a)) <=> Session(p) /\ Occurs(x, a)
      /\ \A x : Occurs(x, Only(req[p].apply, b)) <=> req[p].apply /\ Occurs(x, b)
  BY <1>1, SessionType, OnlyItems
<1>4. /\ Look(p) \in Seq(Anything)
      /\ \A x : Occurs(x, Look(p)) <=>
           Occurs(x, Only(Session(p), a)) \/ Occurs(x, Only(req[p].apply, b))
  BY <1>2, <1>3, Joined
<1> QED
  BY <1>1, <1>3, <1>4

LEMMA UnsupportedItems ==
  ASSUME req \in [Proc -> Requests], NEW p \in Proc
  PROVE  /\ Unsupported(p) \in Seq(Anything)
         /\ \A x : Occurs(x, Unsupported(p)) <=>
              \/ Session(p) /\ x = Event("run", "gate.result")
              \/ x = Event("install", "run_execute")
              \/ Session(p) /\ (x = Event("run", "end") \/ Occurs(x, Saves))
<1> DEFINE a == <<Event("run", "gate.result")>>
           b == <<Event("install", "run_execute")>>
           c == <<Event("run", "end")>>
<1>1. /\ a \in Seq(Anything) /\ b \in Seq(Anything) /\ c \in Seq(Anything)
      /\ \A x : Occurs(x, a) <=> x = Event("run", "gate.result")
      /\ \A x : Occurs(x, b) <=> x = Event("install", "run_execute")
      /\ \A x : Occurs(x, c) <=> x = Event("run", "end")
  BY OneItem, EventItems DEF RunEvents, Events
<1>2. Unsupported(p) = (Only(Session(p), a) \o b) \o Only(Session(p), c \o Saves)
  BY DEF Unsupported
<1> HIDE DEF a, b, c
<1>3. /\ c \o Saves \in Seq(Anything)
      /\ \A x : Occurs(x, c \o Saves) <=> x = Event("run", "end") \/ Occurs(x, Saves)
  BY <1>1, SavesItems, OccursConcat
<1>4. /\ Only(Session(p), a) \o b \in Seq(Anything)
      /\ \A x : Occurs(x, Only(Session(p), a) \o b) <=>
           (Session(p) /\ x = Event("run", "gate.result")) \/ x = Event("install", "run_execute")
  <2> DEFINE o == Only(Session(p), a)
  <2>1. o \in Seq(Anything) /\ \A x : Occurs(x, o) <=> Session(p) /\ x = Event("run", "gate.result")
    BY <1>1, SessionType, OnlyItems
  <2> HIDE DEF o
  <2>2. /\ o \o b \in Seq(Anything)
        /\ \A x : Occurs(x, o \o b) <=> Occurs(x, o) \/ Occurs(x, b)
    BY <1>1, <2>1, Joined
  <2>3. /\ o \o b \in Seq(Anything)
        /\ \A x : Occurs(x, o \o b) <=>
             (Session(p) /\ x = Event("run", "gate.result")) \/ x = Event("install", "run_execute")
    BY <1>1, <2>1, <2>2
  <2> QED
    BY <2>3 DEF o
<1>5. /\ Only(Session(p), c \o Saves) \in Seq(Anything)
      /\ \A x : Occurs(x, Only(Session(p), c \o Saves)) <=>
           Session(p) /\ (x = Event("run", "end") \/ Occurs(x, Saves))
  BY <1>3, SessionType, OnlyItems
<1> DEFINE u == Only(Session(p), a) \o b
           v == Only(Session(p), c \o Saves)
<1>6. Unsupported(p) = u \o v /\ u \in Seq(Anything) /\ v \in Seq(Anything)
  BY <1>2, <1>4, <1>5
<1>7. /\ \A x : Occurs(x, u) <=>
           (Session(p) /\ x = Event("run", "gate.result")) \/ x = Event("install", "run_execute")
      /\ \A x : Occurs(x, v) <=> Session(p) /\ (x = Event("run", "end") \/ Occurs(x, Saves))
  BY <1>4, <1>5
<1> HIDE DEF u, v
<1>8. /\ Unsupported(p) \in Seq(Anything)
      /\ \A x : Occurs(x, Unsupported(p)) <=> Occurs(x, u) \/ Occurs(x, v)
  BY <1>6, Joined
<1> QED
  BY <1>7, <1>8

LEMMA RefusedItems ==
  ASSUME req \in [Proc -> Requests], NEW p \in Proc
  PROVE  /\ Refused(p) \in Seq(Anything)
         /\ \A x : Occurs(x, Refused(p)) <=>
              x \in {Event("run", "gate.result"), Event("install", "run_execute")}
<1> DEFINE a == <<Event("run", "gate.result")>>
           b == <<Event("install", "run_execute"), Event("run", "gate.result")>>
<1>1. /\ a \in Seq(Anything) /\ b \in Seq(Anything)
      /\ \A x : Occurs(x, a) <=> x = Event("run", "gate.result")
      /\ \A x : Occurs(x, b) <=>
           x \in {Event("run", "gate.result"), Event("install", "run_execute")}
  BY OneItem, TwoItems, EventItems DEF RunEvents, Events
<1>2. Refused(p) = Only(Session(p), a) \o b
  BY DEF Refused
<1> HIDE DEF a, b
<1>3. /\ Only(Session(p), a) \in Seq(Anything)
      /\ \A x : Occurs(x, Only(Session(p), a)) <=> Session(p) /\ Occurs(x, a)
  BY <1>1, SessionType, OnlyItems
<1>4. /\ Refused(p) \in Seq(Anything)
      /\ \A x : Occurs(x, Refused(p)) <=> Occurs(x, Only(Session(p), a)) \/ Occurs(x, b)
  BY <1>1, <1>2, <1>3, Joined
<1> QED
  BY <1>1, <1>3, <1>4

LEMMA ApplyItems ==
  ASSUME req \in [Proc -> Requests], NEW p \in Proc
  PROVE  /\ Apply(p) \in Seq(Anything)
         /\ \A x : Occurs(x, Apply(p)) <=>
              \/ Occurs(x, Mutations)
              \/ x \in {File("run-state"), Event("install", "run_execute"),
                        Event("run", "apply.performed")}
              \/ Session(p) /\ Occurs(x, Saves)
         /\ Len(Apply(p)) > 2 * Len(Targets)
         /\ Apply(p)[2 * Len(Targets) + 1] = File("run-state")
         /\ \A k \in 1..2 * Len(Targets) : Apply(p)[k] = Mutations[k]
         /\ \A k \in 1..Len(Apply(p)) : k > 2 * Len(Targets) =>
              \/ Apply(p)[k] \in {File("run-state"), Event("install", "run_execute"),
                                  Event("run", "apply.performed")}
              \/ Occurs(Apply(p)[k], Saves)
<1> DEFINE a == <<File("run-state"), Event("install", "run_execute"), Event("run", "apply.performed")>>
           b == Only(Session(p), Saves)
<1>c. a[1] = File("run-state")
  OBVIOUS
<1>1. /\ a \in Seq(Anything) /\ Len(a) = 3
      /\ \A x : Occurs(x, a) <=> x \in {File("run-state"), Event("install", "run_execute"),
                                        Event("run", "apply.performed")}
  <2>1. /\ File("run-state") \in Anything /\ Event("install", "run_execute") \in Anything
        /\ Event("run", "apply.performed") \in Anything
    BY EventItems DEF RunEvents, Events
  <2>2. /\ a \in Seq(Anything)
        /\ \A x : Occurs(x, a) <=> x \in {File("run-state"), Event("install", "run_execute"),
                                          Event("run", "apply.performed")}
    BY <2>1, ThreeItems
  <2>3. Len(a) = 3
    OBVIOUS
  <2> QED
    BY <2>2, <2>3
<1>2. b \in Seq(Anything) /\ \A x : Occurs(x, b) <=> Session(p) /\ Occurs(x, Saves)
  BY SessionType, OnlyItems, SavesItems
<1> DEFINE u == Mutations \o a
<1>3. Apply(p) = u \o b
  BY DEF Apply
<1> HIDE DEF a, b
<1> DEFINE L == 2 * Len(Targets)
<1>5. Len(Mutations) = L /\ L \in Nat /\ Len(b) \in Nat
  BY <1>2, MutationsItems, LenProperties
<1> HIDE DEF L
<1>a. /\ u \in Seq(Anything)
      /\ \A x : Occurs(x, u) <=> Occurs(x, Mutations) \/ Occurs(x, a)
  BY <1>1, MutationsItems, Joined
<1>b. /\ Len(u) = L + 3
      /\ \A k \in 1..L : u[k] = Mutations[k]
      /\ \A k \in 1..3 : u[L + k] = a[k]
  <2>1. Mutations \in Seq(Anything) /\ a \in Seq(Anything)
    BY <1>1, MutationsItems
  <2> QED
    <3>1. /\ Len(u) = Len(Mutations) + Len(a)
          /\ \A k \in 1..Len(Mutations) : u[k] = Mutations[k]
          /\ \A k \in 1..Len(a) : u[Len(Mutations) + k] = a[k]
      BY <2>1, ConcatProperties
    <3> HIDE DEF u
    <3> QED
      BY <1>1, <1>5, <3>1
<1> HIDE DEF u
<1>4. /\ Apply(p) \in Seq(Anything)
      /\ \A x : Occurs(x, Apply(p)) <=> Occurs(x, u) \/ Occurs(x, b)
  BY <1>2, <1>3, <1>a, Joined
<1>6. /\ Len(Apply(p)) = L + 3 + Len(b)
      /\ \A k \in 1..L + 3 : Apply(p)[k] = u[k]
      /\ \A k \in 1..Len(b) : Apply(p)[L + 3 + k] = b[k]
  <2>1. /\ Len(u \o b) = Len(u) + Len(b)
        /\ \A k \in 1..Len(u) : (u \o b)[k] = u[k]
        /\ \A k \in 1..Len(b) : (u \o b)[Len(u) + k] = b[k]
    BY <1>2, <1>a, ConcatProperties
  <2> QED
    BY <1>3, <1>b, <2>1
<1>7. \A k \in 1..L : Apply(p)[k] = Mutations[k]
  BY <1>5, <1>6, <1>b
<1>8. ASSUME NEW k \in 1..Len(Apply(p)), k > L
      PROVE  Occurs(Apply(p)[k], a) \/ Occurs(Apply(p)[k], b)
  <2>1. CASE k <= L + 3
    <3>1. k - L \in 1..3 /\ L + (k - L) = k
      BY <1>5, <1>8, <2>1
    <3> QED
      BY <1>1, <1>5, <1>6, <1>b, <2>1, <3>1, <1>8 DEF Occurs
  <2>2. CASE k > L + 3
    <3>1. k - (L + 3) \in 1..Len(b) /\ L + 3 + (k - (L + 3)) = k
      BY <1>5, <1>6, <1>8, <2>2
    <3> QED
      BY <1>6, <3>1 DEF Occurs
  <2> QED
    BY <1>5, <1>8, <2>1, <2>2
<1>9. Len(Apply(p)) > L /\ Apply(p)[L + 1] = File("run-state")
  BY <1>c, <1>5, <1>6, <1>b
<1> QED
  BY <1>1, <1>2, <1>4, <1>7, <1>8, <1>9, <1>a DEF L

LEMMA InspectItems ==
  ASSUME req \in [Proc -> Requests], NEW p \in Proc
  PROVE  /\ Inspect(p) \in Seq(Anything)
         /\ \A x : Occurs(x, Inspect(p)) <=>
              \/ x = Event("install", "run_execute")
              \/ Session(p) /\ (\/ x \in {Event("run", "end"), Event("run", "gate.result")}
                                \/ Occurs(x, Saves))
<1> DEFINE a == <<Event("install", "run_execute")>>
           b == <<Event("run", "end"), Event("run", "gate.result")>>
<1>1. /\ a \in Seq(Anything) /\ b \in Seq(Anything)
      /\ \A x : Occurs(x, a) <=> x = Event("install", "run_execute")
      /\ \A x : Occurs(x, b) <=> x \in {Event("run", "end"), Event("run", "gate.result")}
  BY OneItem, TwoItems, EventItems DEF RunEvents, Events
<1>2. Inspect(p) = a \o Only(Session(p), b \o Saves)
  BY DEF Inspect
<1> HIDE DEF a, b
<1>3. /\ b \o Saves \in Seq(Anything)
      /\ \A x : Occurs(x, b \o Saves) <=>
           x \in {Event("run", "end"), Event("run", "gate.result")} \/ Occurs(x, Saves)
  BY <1>1, SavesItems, OccursConcat
<1>4. /\ Only(Session(p), b \o Saves) \in Seq(Anything)
      /\ \A x : Occurs(x, Only(Session(p), b \o Saves)) <=>
           Session(p) /\ (\/ x \in {Event("run", "end"), Event("run", "gate.result")}
                          \/ Occurs(x, Saves))
  BY <1>3, SessionType, OnlyItems
<1> QED
  BY <1>1, <1>2, <1>4, OccursConcat

Routes == Final \cup {"begin", "look"}

LEMMA BeginItems ==
  ASSUME req \in [Proc -> Requests], NEW p \in Proc
  PROVE  LET b == Only(Session(p), <<Event("run", "begin")>>)
         IN b \in Seq(Anything) /\ \A x : Occurs(x, b) <=> Session(p) /\ x = Event("run", "begin")
<1>1. /\ <<Event("run", "begin")>> \in Seq(Anything)
      /\ \A x : Occurs(x, <<Event("run", "begin")>>) <=> x = Event("run", "begin")
  BY OneItem, EventItems DEF RunEvents, Events
<1> QED
  BY <1>1, SessionType, OnlyItems

\* All that the proofs below need of the routes.
LEMMA StepsItems ==
  ASSUME req \in [Proc -> Requests], NEW p \in Proc, route[p] \in Routes
  PROVE  /\ Steps(p) \in Seq(Anything)
         /\ \A f \in T : Occurs(File(f), Steps(p)) => route[p] = "apply"
         /\ Occurs(Event("run", "end"), Steps(p)) =>
              route[p] \in {"fast", "unsupported", "inspect"}
         /\ Occurs(Event("run", "apply.performed"), Steps(p)) <=> route[p] = "apply"
         /\ route[p] = "begin" /\ Session(p) => Occurs(Event("run", "begin"), Steps(p))
         /\ route[p] = "look" /\ req[p].apply => Occurs(Event("run", "apply.begin"), Steps(p))
         /\ route[p] \in {"fast", "unsupported", "inspect"} /\ Session(p) =>
              Occurs(Event("run", "end"), Steps(p))
         /\ route[p] = "refused" => Occurs(Event("run", "gate.result"), Steps(p))
<1>1. /\ \A f \in T : File(f) \notin Saved \cup Audited \cup {File("run-state")}
      /\ \A x \in Saved : x[1] # "run"
  BY SessionAssumption DEF Saved, Audited, File, Event
<1>3. \A e : Event("run", e)[1] = "run" /\ ~Occurs(Event("run", e), Saves)
  BY <1>1, SavesItems DEF Event
<1>4. \A e : ~Occurs(Event("run", e), Mutations)
  BY MutationsItems DEF Occurs, Event, File
<1>5. \A f \in T : ~Occurs(File(f), Saves)
  BY <1>1, SavesItems
<1>8. "install" \in Streams /\ "run" \in Streams /\ \A f \in T : File(f) # File("run-state")
                                               /\ File(f) # File("auto") /\ File(f) # File("handoff")
  BY <1>1 DEF Streams, Saved
<1>10. CASE route[p] = "begin"
  <2>1. Steps(p) = Only(Session(p), <<Event("run", "begin")>>)
    BY <1>10 DEF Steps
  <2>2. \A f \in T : ~Occurs(File(f), Steps(p))
    BY <1>8, <2>1, BeginItems DEF Event, File
  <2>3. ~Occurs(Event("run", "apply.performed"), Steps(p))
    BY <2>1, BeginItems DEF Event, File
  <2>4. /\ Steps(p) \in Seq(Anything)
        /\ ~Occurs(Event("run", "end"), Steps(p))
        /\ Session(p) => Occurs(Event("run", "begin"), Steps(p))
    BY <2>1, BeginItems DEF Event, File
  <2> QED
    BY <1>10, <2>2, <2>3, <2>4
<1>11. CASE route[p] = "fast"
  <2>1. Steps(p) = Fast
    BY <1>11 DEF Steps
  <2>2. \A f \in T : ~Occurs(File(f), Steps(p))
    BY <1>8, <2>1, FastItems DEF Event, File
  <2>3. ~Occurs(Event("run", "apply.performed"), Steps(p))
    BY <2>1, FastItems DEF Event, File
  <2>4. /\ Steps(p) \in Seq(Anything)
        /\ Occurs(Event("run", "end"), Steps(p))
    BY <2>1, FastItems DEF Event, File
  <2> QED
    BY <1>11, <2>2, <2>3, <2>4
<1>12. CASE route[p] = "look"
  <2>1. Steps(p) = Look(p)
    BY <1>12 DEF Steps
  <2>2. \A f \in T : ~Occurs(File(f), Steps(p))
    BY <1>8, <2>1, LookItems DEF Event, File
  <2>3. ~Occurs(Event("run", "apply.performed"), Steps(p))
    BY <2>1, LookItems DEF Event, File
  <2>4. /\ Steps(p) \in Seq(Anything)
        /\ ~Occurs(Event("run", "end"), Steps(p))
        /\ req[p].apply => Occurs(Event("run", "apply.begin"), Steps(p))
    BY <2>1, LookItems DEF Event, File
  <2> QED
    BY <1>12, <2>2, <2>3, <2>4
<1>13. CASE route[p] = "unsupported"
  <2>1. Steps(p) = Unsupported(p)
    BY <1>13 DEF Steps
  <2>2. \A f \in T : ~Occurs(File(f), Steps(p))
    BY <1>3, <1>5, <1>8, <2>1, UnsupportedItems DEF Event, File
  <2>3. ~Occurs(Event("run", "apply.performed"), Steps(p))
    BY <1>3, <2>1, UnsupportedItems DEF Event, File
  <2>4. /\ Steps(p) \in Seq(Anything)
        /\ Session(p) => Occurs(Event("run", "end"), Steps(p))
    BY <1>3, <2>1, UnsupportedItems DEF Event, File
  <2> QED
    BY <1>13, <2>2, <2>3, <2>4
<1>14. CASE route[p] = "refused"
  <2>1. Steps(p) = Refused(p)
    BY <1>14 DEF Steps
  <2>2. \A f \in T : ~Occurs(File(f), Steps(p))
    BY <1>8, <2>1, RefusedItems DEF Event, File
  <2>3. ~Occurs(Event("run", "apply.performed"), Steps(p))
    BY <2>1, RefusedItems DEF Event, File
  <2>4. /\ Steps(p) \in Seq(Anything)
        /\ ~Occurs(Event("run", "end"), Steps(p))
        /\ Occurs(Event("run", "gate.result"), Steps(p))
    BY <2>1, RefusedItems DEF Event, File
  <2> QED
    BY <1>14, <2>2, <2>3, <2>4
<1>15. CASE route[p] = "apply"
  <2>1. Steps(p) = Apply(p)
    BY <1>15 DEF Steps
  <2>2. /\ Steps(p) \in Seq(Anything)
        /\ Occurs(Event("run", "apply.performed"), Steps(p))
    BY <2>1, ApplyItems
  <2>3. ~Occurs(Event("run", "end"), Steps(p))
    <3> DEFINE x == Event("run", "end")
    <3>1. x \notin {File("run-state"), Event("install", "run_execute"),
                   Event("run", "apply.performed")}
      BY DEF Event, File
    <3>2. ~Occurs(x, Mutations) /\ ~Occurs(x, Saves)
      BY <1>3, <1>4
    <3> HIDE DEF x
    <3>3. ~Occurs(x, Apply(p))
      BY <3>1, <3>2, ApplyItems
    <3> QED
      BY <2>1, <3>3 DEF x
  <2> QED
    BY <1>15, <2>2, <2>3
<1>16. CASE route[p] = "inspect"
  <2>1. Steps(p) = Inspect(p)
    BY <1>16 DEF Steps
  <2>2. \A f \in T : ~Occurs(File(f), Steps(p))
    BY <1>3, <1>5, <1>8, <2>1, InspectItems DEF Event, File
  <2>3. ~Occurs(Event("run", "apply.performed"), Steps(p))
    BY <1>3, <2>1, InspectItems DEF Event, File
  <2>4. /\ Steps(p) \in Seq(Anything)
        /\ Session(p) => Occurs(Event("run", "end"), Steps(p))
    BY <1>3, <2>1, InspectItems DEF Event, File
  <2> QED
    BY <1>16, <2>2, <2>3, <2>4
<1> QED
  BY <1>10, <1>11, <1>12, <1>13, <1>14, <1>15, <1>16 DEF Routes, Final

LEMMA ItemKinds ==
  ASSUME NEW x \in Anything
  PROVE  /\ x[1] = "file" => x[2] \in Files /\ x = File(x[2])
         /\ x[1] \in Streams => x[2] \in Events \cup T /\ x = Event(x[1], x[2])
         /\ x[1] \in {"file", "merge"} => x[1] \notin Streams
<1>1. CASE x \in Saved \cup {File("run-state")} \cup {File(f) : f \in T}
  BY <1>1 DEF Saved, File, Files, Streams
<1>2. CASE x \in Audited \cup {Event("install", f) : f \in T}
  BY <1>2 DEF Audited, RunEvents, Events, Event, Streams
<1> QED
  BY <1>1, <1>2 DEF Anything, Mutated

LEMMA SameSteps ==
  ASSUME NEW p \in Proc, req' = req, route'[p] = route[p]
  PROVE  Steps(p)' = Steps(p)
BY DEF Steps, Look, Unsupported, Refused, Apply, Inspect, Session, Only, Fast, Saves, Mutations

-----------------------------------------------------------------------------
(* Where a command is *)

Admitted == {"preflightInstall", "preflightRun", "key", "match", "look"}
Early == {"idle", "handoff", "enter"} \cup Admitted

\* The control of a command: the route it is on, the step it is at, and an
\* interface once it has entered.
Ctl(p) ==
  /\ pc[p] \in Early => route[p] = "begin"
  /\ pc[p] = "write" => n[p] <= Len(Steps(p)) /\ Steps(p)[n[p]][1] = "file"
  /\ pc[p] = "ok" => route[p] \in Final \ {"refused"} /\ n[p] > Len(Steps(p))
  /\ pc[p] = "needs_approval" => route[p] = "refused" /\ n[p] > Len(Steps(p))
  /\ pc[p] \in {"go", "write", "ok", "needs_approval"} \cup Admitted => iface[p] \in Interfaces

\* The steps of a command before it has looked at the workspace.
Prepare(p) ==
  \/ ResumeAuto(p) \/ ResumeHandoff(p) \/ Enter(p) \/ Begun(p)
  \/ PreflightInstall(p) \/ PreflightRun(p) \/ ComputeKey(p)

LEMMA NextCases ==
  ASSUME [Next]_vars
  PROVE  \/ \E p \in Proc : \/ Prepare(p) \/ Match(p) \/ Detect(p) \/ Decide(p)
                            \/ Record(p) \/ ReadGraph(p) \/ Truncate(p) \/ Write(p)
                            \/ Exit(p) \/ Kill(p)
         \/ Edit
         \/ UNCHANGED vars
BY DEF Next, Step, Prepare

LEMMA StepsType ==
  ASSUME TypeOK, NEW p \in Proc
  PROVE  /\ Steps(p) \in Seq(Anything) /\ Len(Steps(p)) \in Nat
         /\ n[p] \in 1..Len(Steps(p)) + 1
         /\ n[p] <= Len(Steps(p)) => Steps(p)[n[p]] \in Anything /\ n[p] + 1 \in 1..Len(Steps(p)) + 1
<1>1. req \in [Proc -> Requests] /\ route[p] \in Routes /\ n[p] \in 1..Len(Steps(p)) + 1
  BY DEF TypeOK, Routes
<1>2. Steps(p) \in Seq(Anything) /\ Len(Steps(p)) \in Nat
  BY <1>1, StepsItems, LenProperties
<1>3. n[p] <= Len(Steps(p)) => n[p] \in 1..Len(Steps(p))
  BY <1>1, <1>2
<1>4. \A i \in 1..Len(Steps(p)) : Steps(p)[i] \in Anything
  BY <1>2, ElementOfSeq
<1> QED
  BY <1>1, <1>2, <1>3, <1>4

LEMMA FileContent ==
  /\ \A f \in T : ContentOf(f) = Proc \cup {"none"}
  /\ ContentOf("run-state") = Proc \cup {"none"}
  /\ ContentOf("snapshot") = Key /\ ContentOf("graph") = Graph
  /\ ContentOf("auto") = Interfaces \cup {"none"} /\ ContentOf("handoff") = Interfaces \cup {"none"}
  /\ \A f \in T : \A p : Content(p, f) = p
BY SessionAssumption DEF ContentOf, Content

LEMMA GraphTypes ==
  /\ NoKey \in Key /\ NoGraph \in Graph
  /\ \A p : Nodes(p) \in Graph
  /\ \A g, h \in Graph : Merge(g, h) \in Graph
BY DEF NoKey, Key, NoGraph, Graph, Status, Nodes, Merge

\* What a step leaves alone of a command that does not take it.
Same(q) ==
  /\ UNCHANGED <<req, pc[q], iface[q], seen[q], key[q], merged[q], route[q], n[q]>>
  /\ \A s \in Streams : \A e : Recorded(q, s, e)' <=> Recorded(q, s, e)

LEMMA PrepareStep ==
  ASSUME TypeOK, NEW p \in Proc, Ctl(p), Prepare(p)
  PROVE  /\ UNCHANGED <<fileVars, auditVars, req, seen, merged, route, n, opVars>>
         /\ \A q \in Proc \ {p} : Same(q)
         /\ pc' \in [Proc -> PC] /\ iface' \in [Proc -> Interfaces \cup {"unset"}]
         /\ key' \in [Proc -> Key]
         /\ route[p] = "begin"
         /\ pc'[p] \in {"handoff", "enter", "go", "error"} \cup Admitted
         /\ pc'[p] \in {"go"} \cup Admitted => iface'[p] \in Interfaces
         /\ pc'[p] \in Admitted => pc[p] \in Admitted \/ Done(p, "begin")
         /\ pc'[p] = "key" => Session(p)
         /\ pc'[p] = "match" => pc[p] = "key" /\ key'[p].interface = iface'[p]
         /\ pc'[p] = "error" => "auto" \in torn \/ frozen # {}
<1> USE DEF fileVars, auditVars, procVars, opVars
<1>1. \A l \in PC : Goto(p, l) =>
        pc'[p] = l /\ pc' \in [Proc -> PC] /\ \A q \in Proc \ {p} : pc'[q] = pc[q]
  BY DEF Goto, TypeOK
<1>2. /\ disk["auto"] \in Interfaces \cup {"none"} /\ disk["handoff"] \in Interfaces \cup {"none"}
      /\ iface \in [Proc -> Interfaces \cup {"unset"}] /\ Detected \in Interfaces
  BY FileContent, SessionAssumption DEF TypeOK, Files
<1>3. \A f \in {"auto", "handoff"} : Adopt(p, f) /\ Readable(f) =>
        iface' \in [Proc -> Interfaces \cup {"unset"}] /\ \A q \in Proc \ {p} : iface'[q] = iface[q]
  BY <1>2 DEF Adopt, Readable
<1>4. CASE ResumeAuto(p) \/ ResumeHandoff(p)
  <2>1. pc'[p] \in {"handoff", "enter"} /\ pc' \in [Proc -> PC] /\ pc[p] \in Early
        /\ \A q \in Proc \ {p} : pc'[q] = pc[q]
    BY <1>1, <1>4 DEF ResumeAuto, ResumeHandoff, PC, Early
  <2>2. /\ iface' \in [Proc -> Interfaces \cup {"unset"}]
        /\ \A q \in Proc \ {p} : iface'[q] = iface[q]
        /\ UNCHANGED <<fileVars, auditVars, req, seen, key, merged, route, n, opVars>>
    BY <1>2, <1>3, <1>4 DEF ResumeAuto, ResumeHandoff
  <2> QED
    BY <2>1, <2>2 DEF Same, Recorded, Ctl, TypeOK, Admitted
<1>5. CASE Enter(p)
  <2>1. UNCHANGED <<fileVars, auditVars, req, seen, key, merged, route, n, opVars>>
        /\ pc[p] \in Early
    BY <1>5 DEF Enter, Early
  <2>2. /\ iface' \in [Proc -> Interfaces \cup {"unset"}]
        /\ \A q \in Proc \ {p} : iface'[q] = iface[q]
    BY <1>2, <1>5 DEF Enter
  <2>3. /\ pc' \in [Proc -> PC] /\ \A q \in Proc \ {p} : pc'[q] = pc[q]
        /\ pc'[p] \in {"go", "error"}
    BY <1>1, <1>5 DEF Enter, PC
  <2>5. pc'[p] = "error" => "auto" \in torn
    <3>1. Goto(p, "go") => pc'[p] # "error"
      BY <1>1 DEF PC
    <3> QED
      BY <1>5, <3>1 DEF Enter
  <2>4. pc'[p] = "go" => iface'[p] \in Interfaces
    <3>1. iface[p] # "unset" /\ UNCHANGED iface => iface'[p] \in Interfaces
      BY <1>2
    <3>2. iface' = [iface EXCEPT ![p] = IF disk["auto"] # "none" THEN disk["auto"] ELSE Detected]
            => iface'[p] \in Interfaces
      BY <1>2
    <3>3. Goto(p, "error") => pc'[p] # "go"
      BY <1>1 DEF PC
    <3> QED
      BY <1>5, <3>1, <3>2, <3>3 DEF Enter
  <2> QED
    BY <2>1, <2>2, <2>3, <2>4, <2>5 DEF Same, Recorded, Ctl, TypeOK, Admitted
<1>6. CASE Begun(p)
  <2>1. /\ UNCHANGED <<fileVars, auditVars, procVars, n, opVars>>
        /\ pc' \in [Proc -> PC] /\ \A q \in Proc \ {p} : pc'[q] = pc[q]
        /\ pc'[p] = "preflightInstall" /\ Done(p, "begin") /\ pc[p] = "go" /\ route[p] = "begin"
    BY <1>1, <1>6 DEF Begun, PC, Done
  <2> QED
    BY <2>1 DEF Same, Recorded, Ctl, TypeOK, Admitted
<1>7. CASE PreflightInstall(p) \/ PreflightRun(p)
  <2>1. /\ UNCHANGED <<fileVars, auditVars, procVars, n, opVars>>
        /\ pc' \in [Proc -> PC] /\ \A q \in Proc \ {p} : pc'[q] = pc[q]
        /\ pc'[p] \in {"error", "preflightRun", "key", "look"}
        /\ pc[p] \in {"preflightInstall", "preflightRun"}
    BY <1>1, <1>7 DEF PreflightInstall, PreflightRun, Preflight, PC
  <2>2. (pc'[p] = "key" => Session(p)) /\ (pc'[p] = "error" => frozen # {})
    <3>1. CASE PreflightInstall(p)
      BY <1>1, <3>1 DEF PreflightInstall, Preflight, PC
    <3>2. CASE PreflightRun(p)
      <4>1. PICK l \in {"error", "key", "look"} :
              /\ Goto(p, l) /\ (l = "key" => Session(p)) /\ (l = "error" => frozen # {})
        BY <3>2 DEF PreflightRun, Preflight
      <4>2. pc'[p] = l
        BY <1>1, <4>1 DEF PC
      <4> QED
        BY <4>1, <4>2
    <3> QED
      BY <1>7, <3>1, <3>2
  <2> QED
    BY <2>1, <2>2 DEF Same, Recorded, Ctl, TypeOK, Admitted, Early
<1>8. CASE ComputeKey(p)
  <2>1. /\ UNCHANGED <<fileVars, auditVars, req, iface, seen, merged, route, n, opVars>>
        /\ pc' \in [Proc -> PC] /\ \A q \in Proc \ {p} : pc'[q] = pc[q] /\ key'[q] = key[q]
        /\ pc'[p] = "match" /\ pc[p] = "key"
    BY <1>1, <1>8 DEF ComputeKey, PC, TypeOK
  <2>2. KeyNow(p) \in Key
    BY <2>1, SessionType DEF KeyNow, Key, Ctl, TypeOK, Admitted
  <2>3. key' \in [Proc -> Key] /\ key'[p].interface = iface'[p]
    <3>1. key' = [key EXCEPT ![p] = KeyNow(p)] /\ iface' = iface
      BY <1>8 DEF ComputeKey
    <3>2. key' \in [Proc -> Key] /\ key'[p] = KeyNow(p)
      BY <2>2, <3>1 DEF TypeOK
    <3> QED
      BY <3>1, <3>2 DEF KeyNow
  <2> QED
    BY <2>1, <2>3 DEF Same, Recorded, Ctl, TypeOK, Admitted, Early
<1> QED
  BY <1>4, <1>5, <1>6, <1>7, <1>8 DEF Prepare

LEMMA PcOf ==
  ASSUME TypeOK, NEW p \in Proc, NEW l \in PC, Goto(p, l)
  PROVE  pc'[p] = l /\ pc' \in [Proc -> PC] /\ \A q \in Proc \ {p} : pc'[q] = pc[q]
BY DEF Goto, TypeOK

LEMMA Taken ==
  ASSUME TypeOK, NEW p \in Proc, NEW r \in Routes, Take(p, r)
  PROVE  /\ route'[p] = r /\ route' \in [Proc -> Routes]
         /\ n'[p] = 1 /\ n' \in [Proc -> Nat]
         /\ \A q \in Proc \ {p} : route'[q] = route[q] /\ n'[q] = n[q]
BY DEF Take, TypeOK, Routes

LEMMA Advanced ==
  ASSUME TypeOK, NEW p \in Proc, Advance(p)
  PROVE  /\ pc'[p] = "go" /\ pc' \in [Proc -> PC]
         /\ n'[p] = n[p] + 1 /\ n' \in [Proc -> Nat]
         /\ \A q \in Proc \ {p} : pc'[q] = pc[q] /\ n'[q] = n[q]
<1>1. Goto(p, "go") /\ n' = [n EXCEPT ![p] = n[p] + 1] /\ n \in [Proc -> Nat]
  BY DEF Advance, TypeOK
<1>2. n'[p] = n[p] + 1 /\ n' \in [Proc -> Nat] /\ \A q \in Proc \ {p} : n'[q] = n[q]
  BY <1>1
<1> QED
  BY <1>1, <1>2, PcOf DEF PC

\* The steps in which a command may take another route.
Turn(p) == Match(p) \/ Detect(p) \/ Decide(p)

LEMMA TurnStep ==
  ASSUME TypeOK, NEW p \in Proc, Ctl(p), Turn(p)
  PROVE  /\ UNCHANGED <<fileVars, auditVars, req, iface, key, merged, inputs, last, edits>>
         /\ \A q \in Proc \ {p} : Same(q)
         /\ pc' \in [Proc -> PC] /\ route' \in [Proc -> Routes] /\ n' \in [Proc -> Nat]
         /\ seen' \in [Proc -> Inputs \cup {"none"}] /\ inspected' \subseteq Inputs \X Interfaces
         /\ iface[p] \in Interfaces
         /\ \/ /\ pc[p] = "match" /\ route[p] = "begin" /\ pc'[p] \in {"error", "look"}
               /\ pc'[p] = "error" => "snapshot" \in torn
               /\ UNCHANGED <<route, n, seen, inspected>>
            \/ /\ pc'[p] = "go" /\ n'[p] = 1
               /\ \/ pc[p] = "match" /\ route[p] = "begin" /\ route'[p] = "fast"
                     /\ disk["snapshot"] # NoKey /\ disk["snapshot"] = key[p]
                     /\ UNCHANGED <<seen, inspected>>
                  \/ pc[p] = "look" /\ route[p] = "begin" /\ route'[p] = "look"
                     /\ inspected' = inspected \cup {<<inputs, iface[p]>>}
                  \/ Done(p, "look") /\ route'[p] = Gate(p)
                     /\ Gate(p) \in {"inspect", "unsupported", "refused", "apply"}
                     /\ UNCHANGED <<seen, inspected>>
<1> USE DEF fileVars, auditVars, procVars, opVars
<1>1. CASE Match(p)
  <2>1. /\ UNCHANGED <<fileVars, auditVars, req, iface, seen, key, merged, opVars>>
        /\ pc[p] = "match" /\ route[p] = "begin" /\ iface[p] \in Interfaces
    BY <1>1 DEF Match, Ctl, Early, Admitted
  <2>2. \/ /\ (Goto(p, "error") /\ "snapshot" \in torn) \/ Goto(p, "look")
           /\ UNCHANGED <<route, n>>
        \/ Goto(p, "go") /\ Take(p, "fast") /\ Matches(disk["snapshot"], key[p])
    BY <1>1 DEF Match
  <2>3. CASE /\ (Goto(p, "error") /\ "snapshot" \in torn) \/ Goto(p, "look")
             /\ UNCHANGED <<route, n>>
    <3>1. /\ pc'[p] \in {"error", "look"} /\ (pc'[p] = "error" => "snapshot" \in torn)
          /\ pc' \in [Proc -> PC] /\ \A q \in Proc \ {p} : pc'[q] = pc[q]
      BY <2>3, PcOf DEF PC
    <3> QED
      BY <2>1, <2>3, <3>1 DEF Same, Recorded, TypeOK, Routes
  <2>4. CASE Goto(p, "go") /\ Take(p, "fast") /\ Matches(disk["snapshot"], key[p])
    <3>1. pc'[p] = "go" /\ pc' \in [Proc -> PC] /\ \A q \in Proc \ {p} : pc'[q] = pc[q]
      BY <2>4, PcOf DEF PC
    <3>2. /\ route'[p] = "fast" /\ route' \in [Proc -> Routes]
          /\ n'[p] = 1 /\ n' \in [Proc -> Nat]
          /\ \A q \in Proc \ {p} : route'[q] = route[q] /\ n'[q] = n[q]
      BY <2>4, Taken DEF Routes, Final
    <3> QED
      BY <2>1, <2>4, <3>1, <3>2 DEF Same, Recorded, TypeOK, Matches
  <2> QED
    BY <2>2, <2>3, <2>4
<1>2. CASE Detect(p)
  <2>1. /\ UNCHANGED <<fileVars, auditVars, req, iface, key, merged, inputs, last, edits>>
        /\ pc[p] = "look" /\ route[p] = "begin" /\ iface[p] \in Interfaces
        /\ Goto(p, "go") /\ Take(p, "look")
        /\ seen' = [seen EXCEPT ![p] = inputs] /\ inspected' = inspected \cup {<<inputs, iface[p]>>}
    BY <1>2 DEF Detect, Ctl, Early, Admitted
  <2>2. pc'[p] = "go" /\ pc' \in [Proc -> PC] /\ \A q \in Proc \ {p} : pc'[q] = pc[q]
    BY <2>1, PcOf DEF PC
  <2>3. /\ route'[p] = "look" /\ route' \in [Proc -> Routes]
        /\ n'[p] = 1 /\ n' \in [Proc -> Nat]
        /\ \A q \in Proc \ {p} : route'[q] = route[q] /\ n'[q] = n[q]
    BY <2>1, Taken DEF Routes
  <2>4. /\ seen' \in [Proc -> Inputs \cup {"none"}] /\ inspected' \subseteq Inputs \X Interfaces
        /\ \A q \in Proc \ {p} : seen'[q] = seen[q]
    BY <2>1 DEF TypeOK
  <2> QED
    BY <2>1, <2>2, <2>3, <2>4 DEF Same, Recorded
<1>3. CASE Decide(p)
  <2>1. /\ UNCHANGED <<fileVars, auditVars, pc, req, iface, seen, key, merged, opVars>>
        /\ Done(p, "look") /\ Take(p, Gate(p)) /\ pc[p] = "go" /\ iface[p] \in Interfaces
    BY <1>3 DEF Decide, Done, Ctl
  <2>2. Gate(p) \in {"inspect", "unsupported", "refused", "apply"}
    BY DEF Gate
  <2>3. /\ route'[p] = Gate(p) /\ route' \in [Proc -> Routes]
        /\ n'[p] = 1 /\ n' \in [Proc -> Nat]
        /\ \A q \in Proc \ {p} : route'[q] = route[q] /\ n'[q] = n[q]
    BY <2>1, <2>2, Taken DEF Routes, Final
  <2> QED
    BY <2>1, <2>2, <2>3 DEF Same, Recorded, TypeOK
<1> QED
  BY <1>1, <1>2, <1>3 DEF Turn

LEMMA RecordStep ==
  ASSUME TypeOK, NEW p \in Proc, Record(p)
  PROVE  /\ UNCHANGED <<fileVars, procVars, opVars>>
         /\ \A q \in Proc \ {p} : Same(q)
         /\ pc' \in [Proc -> PC] /\ n' \in [Proc -> Nat] /\ frozen' \subseteq Streams
         /\ DOMAIN recorded' = Streams
         /\ \A s \in Streams : recorded'[s] \subseteq Proc \X (Events \cup T)
         /\ pc[p] = "go" /\ n[p] <= Len(Steps(p))
         /\ \A s \in Streams : \A e : Recorded(p, s, e) => Recorded(p, s, e)'
         /\ \A s \in Streams : \A e :
              Recorded(p, s, e)' => Recorded(p, s, e) \/ Steps(p)[n[p]] = Event(s, e)
         /\ \/ /\ pc'[p] = "go" /\ n'[p] = n[p] + 1
               /\ \A s, e : Steps(p)[n[p]] = Event(s, e) => Recorded(p, s, e)'
               /\ UNCHANGED frozen
            \/ pc'[p] = "error" /\ UNCHANGED n /\ frozen' # {}
<1> USE DEF fileVars, auditVars, procVars, opVars
<1>1. PICK a, e : a = Steps(p)[n[p]][1] /\ e = Steps(p)[n[p]][2]
  OBVIOUS
<1>2. /\ a \in Streams /\ e \in Events \cup T /\ Steps(p)[n[p]] = Event(a, e)
      /\ pc[p] = "go" /\ n[p] <= Len(Steps(p))
  BY <1>1, StepsType, ItemKinds DEF Record, At
<1> DEFINE with == [recorded EXCEPT ![a] = @ \cup {<<p, e>>}]
<1>3. \/ /\ a \notin frozen /\ recorded' = with /\ Advance(p) /\ UNCHANGED frozen
      \/ /\ recorded' \in {recorded, with} /\ frozen' = frozen \cup {a}
         /\ Goto(p, "error") /\ UNCHANGED n
  BY <1>1 DEF Record, Item
<1>4. UNCHANGED <<fileVars, procVars, opVars>>
  BY DEF Record
<1>5. /\ DOMAIN with = Streams
      /\ with[a] = recorded[a] \cup {<<p, e>>}
      /\ \A s \in Streams \ {a} : with[s] = recorded[s]
  BY <1>2 DEF TypeOK
<1>6. /\ \A s \in Streams : with[s] \subseteq Proc \X (Events \cup T)
      /\ \A s \in Streams : recorded[s] \subseteq with[s]
  BY <1>2, <1>5 DEF TypeOK
<1>7. \A s \in Streams, q \in Proc : \A b :
        <<q, b>> \in with[s] <=> <<q, b>> \in recorded[s] \/ (q = p /\ s = a /\ b = e)
  BY <1>5
<1>8. \A s, b : Steps(p)[n[p]] = Event(s, b) <=> s = a /\ b = e
  BY <1>2 DEF Event
<1> HIDE DEF with
<1>9. CASE a \notin frozen /\ recorded' = with /\ Advance(p) /\ UNCHANGED frozen
  <2>1. \A s \in Streams, q \in Proc : \A b :
          Recorded(q, s, b)' <=> Recorded(q, s, b) \/ (q = p /\ s = a /\ b = e)
    BY <1>7, <1>9 DEF Recorded
  <2>2. /\ pc'[p] = "go" /\ pc' \in [Proc -> PC]
        /\ n'[p] = n[p] + 1 /\ n' \in [Proc -> Nat]
        /\ \A q \in Proc \ {p} : pc'[q] = pc[q] /\ n'[q] = n[q]
    BY <1>9, Advanced
  <2>3. /\ DOMAIN recorded' = Streams /\ frozen' \subseteq Streams
        /\ \A s \in Streams : recorded'[s] \subseteq Proc \X (Events \cup T)
    BY <1>5, <1>6, <1>9 DEF TypeOK
  <2>4. \A q \in Proc \ {p} : Same(q)
    BY <1>4, <2>1, <2>2 DEF Same
  <2> QED
    BY <1>2, <1>4, <1>8, <1>9, <2>1, <2>2, <2>3, <2>4
<1>10. CASE recorded' \in {recorded, with} /\ frozen' = frozen \cup {a}
            /\ Goto(p, "error") /\ UNCHANGED n
  <2>1. /\ \A s \in Streams : \A b : Recorded(p, s, b) => Recorded(p, s, b)'
        /\ \A s \in Streams : \A b : Recorded(p, s, b)' => Recorded(p, s, b) \/ (s = a /\ b = e)
        /\ \A s \in Streams : \A b : \A q \in Proc \ {p} : Recorded(q, s, b)' <=> Recorded(q, s, b)
    BY <1>6, <1>7, <1>10 DEF Recorded
  <2>2. pc'[p] = "error" /\ pc' \in [Proc -> PC] /\ \A q \in Proc \ {p} : pc'[q] = pc[q]
    BY <1>10, PcOf DEF PC
  <2>3. /\ DOMAIN recorded' = Streams /\ frozen' \subseteq Streams /\ frozen' # {}
        /\ n' \in [Proc -> Nat]
        /\ \A s \in Streams : recorded'[s] \subseteq Proc \X (Events \cup T)
    BY <1>2, <1>5, <1>6, <1>10 DEF TypeOK
  <2>4. \A q \in Proc \ {p} : Same(q)
    BY <1>4, <1>10, <2>1, <2>2 DEF Same
  <2> QED
    BY <1>2, <1>4, <1>8, <1>10, <2>1, <2>2, <2>3, <2>4
<1> QED
  BY <1>3, <1>9, <1>10

\* An append is no step of a file.
LEMMA RecordPlace ==
  ASSUME NEW p \in Proc, Record(p)
  PROVE  /\ \A f : Steps(p)[n[p]] # File(f)
         /\ Steps(p)[n[p]] # <<"merge", "graph">>
<1>1. At(p, Streams)
  BY DEF Record
<1> QED
  BY <1>1 DEF At, Streams, File

LEMMA FileStep ==
  ASSUME TypeOK, NEW p \in Proc, Ctl(p), ReadGraph(p) \/ Truncate(p)
  PROVE  /\ UNCHANGED <<disk, auditVars, req, iface, seen, route, opVars>>
         /\ \A q \in Proc \ {p} : Same(q)
         /\ pc' \in [Proc -> PC] /\ n' \in [Proc -> Nat] /\ torn' \subseteq Files
         /\ key' \in [Proc -> Key] /\ merged' \in [Proc -> Graph]
         /\ pc[p] = "go" /\ n[p] <= Len(Steps(p))
         /\ \/ /\ pc'[p] = "go" /\ n'[p] = n[p] + 1 /\ Steps(p)[n[p]][1] = "merge"
               /\ UNCHANGED <<torn, key>>
            \/ /\ pc'[p] = "write" /\ Steps(p)[n[p]][1] = "file"
               /\ torn' = torn \cup {Item(p)} /\ Item(p) \in Files
               /\ key'[p] = IF Item(p) = "snapshot" THEN KeyNow(p) ELSE key[p]
               /\ UNCHANGED <<n, merged>>
<1> USE DEF fileVars, auditVars, procVars, opVars
<1>1. CASE ReadGraph(p)
  <2>1. /\ UNCHANGED <<fileVars, auditVars, req, iface, seen, key, route, opVars>>
        /\ pc[p] = "go" /\ n[p] <= Len(Steps(p)) /\ Steps(p)[n[p]][1] = "merge" /\ Advance(p)
        /\ merged' = [merged EXCEPT ![p] = IF "graph" \in torn THEN Nodes(p)
                                           ELSE Merge(disk["graph"], Nodes(p))]
    BY <1>1 DEF ReadGraph, At
  <2>2. /\ pc'[p] = "go" /\ pc' \in [Proc -> PC]
        /\ n'[p] = n[p] + 1 /\ n' \in [Proc -> Nat]
        /\ \A q \in Proc \ {p} : pc'[q] = pc[q] /\ n'[q] = n[q]
    BY <2>1, Advanced
  <2>3. disk["graph"] \in Graph
    BY FileContent DEF TypeOK, Files
  <2>4. merged' \in [Proc -> Graph] /\ \A q \in Proc \ {p} : merged'[q] = merged[q]
    <3>1. Nodes(p) \in Graph /\ Merge(disk["graph"], Nodes(p)) \in Graph
      BY <2>3, GraphTypes
    <3> QED
      BY <2>1, <3>1 DEF TypeOK
  <2> QED
    BY <2>1, <2>2, <2>4 DEF Same, Recorded, TypeOK
<1>2. CASE Truncate(p)
  <2>1. /\ UNCHANGED <<disk, auditVars, req, iface, seen, merged, route, n, opVars>>
        /\ pc[p] = "go" /\ n[p] <= Len(Steps(p)) /\ Steps(p)[n[p]][1] = "file" /\ Goto(p, "write")
        /\ torn' = torn \cup {Item(p)}
        /\ key' = IF Item(p) = "snapshot" THEN [key EXCEPT ![p] = KeyNow(p)] ELSE key
    BY <1>2 DEF Truncate, At
  <2>2. pc'[p] = "write" /\ pc' \in [Proc -> PC] /\ \A q \in Proc \ {p} : pc'[q] = pc[q]
    BY <2>1, PcOf DEF PC
  <2>3. Item(p) \in Files
    BY <2>1, StepsType, ItemKinds DEF Item
  <2>4. KeyNow(p) \in Key
    BY <2>1, SessionType DEF KeyNow, Key, Ctl, TypeOK
  <2>5. /\ key' \in [Proc -> Key] /\ \A q \in Proc \ {p} : key'[q] = key[q]
        /\ key'[p] = IF Item(p) = "snapshot" THEN KeyNow(p) ELSE key[p]
    <3>1. CASE Item(p) = "snapshot"
      BY <2>1, <2>4, <3>1 DEF TypeOK
    <3>2. CASE Item(p) # "snapshot"
      BY <2>1, <3>2 DEF TypeOK
    <3> QED
      BY <3>1, <3>2
  <2>6. torn' \subseteq Files /\ n' \in [Proc -> Nat] /\ merged' \in [Proc -> Graph]
    BY <2>1, <2>3 DEF TypeOK
  <2>7. \A q \in Proc \ {p} : Same(q)
    BY <2>1, <2>2, <2>5 DEF Same, Recorded
  <2> QED
    BY <2>1, <2>2, <2>3, <2>5, <2>6, <2>7
<1> QED
  BY <1>1, <1>2

LEMMA WriteStep ==
  ASSUME TypeOK, NEW p \in Proc, Ctl(p), Write(p)
  PROVE  /\ UNCHANGED <<auditVars, procVars, opVars>>
         /\ \A q \in Proc \ {p} : Same(q)
         /\ pc' \in [Proc -> PC] /\ n' \in [Proc -> Nat]
         /\ pc[p] = "write" /\ n[p] <= Len(Steps(p))
         /\ pc'[p] = "go" /\ n'[p] = n[p] + 1
         /\ Steps(p)[n[p]] = File(Item(p)) /\ Item(p) \in Files
         /\ DOMAIN disk' = Files
         /\ disk'[Item(p)] = Content(p, Item(p)) /\ Content(p, Item(p)) \in ContentOf(Item(p))
         /\ \A f \in Files \ {Item(p)} : disk'[f] = disk[f]
         /\ torn' = torn \ {Item(p)}
<1> USE DEF fileVars, auditVars, procVars, opVars
<1>1. /\ UNCHANGED <<auditVars, procVars, opVars>>
      /\ pc[p] = "write" /\ n[p] <= Len(Steps(p)) /\ Steps(p)[n[p]][1] = "file"
      /\ Advance(p) /\ iface[p] \in Interfaces
      /\ disk' = [disk EXCEPT ![Item(p)] = Content(p, Item(p))]
      /\ torn' = torn \ {Item(p)}
  BY DEF Write, Ctl
<1>2. /\ pc'[p] = "go" /\ pc' \in [Proc -> PC]
      /\ n'[p] = n[p] + 1 /\ n' \in [Proc -> Nat]
      /\ \A q \in Proc \ {p} : pc'[q] = pc[q] /\ n'[q] = n[q]
  BY <1>1, Advanced
<1>3. Item(p) \in Files /\ Steps(p)[n[p]] = File(Item(p))
  BY <1>1, StepsType, ItemKinds DEF Item
<1>4. Content(p, Item(p)) \in ContentOf(Item(p))
  <2>1. CASE Item(p) \in T \cup {"run-state"}
    BY <2>1, FileContent DEF Content
  <2>2. CASE Item(p) \in {"snapshot", "graph"}
    BY <2>2, FileContent DEF Content, TypeOK
  <2>3. CASE Item(p) \in {"auto", "handoff"}
    BY <1>1, <2>3, FileContent DEF Content
  <2> QED
    BY <1>3, <2>1, <2>2, <2>3 DEF Files
<1>5. /\ DOMAIN disk' = Files /\ disk'[Item(p)] = Content(p, Item(p))
      /\ \A f \in Files \ {Item(p)} : disk'[f] = disk[f]
  BY <1>1, <1>3 DEF TypeOK
<1>6. \A q \in Proc \ {p} : Same(q)
  BY <1>1, <1>2 DEF Same, Recorded
<1> QED
  BY <1>1, <1>2, <1>3, <1>4, <1>5, <1>6

LEMMA EndStep ==
  ASSUME TypeOK, NEW p \in Proc, Ctl(p), Exit(p) \/ Kill(p)
  PROVE  /\ UNCHANGED <<fileVars, auditVars, procVars, n, inputs, inspected, edits>>
         /\ \A q \in Proc \ {p} : Same(q)
         /\ pc' \in [Proc -> PC] /\ last' \in Interfaces \cup {"none"}
         /\ \/ /\ pc'[p] = "ok" /\ pc[p] = "go"
               /\ route[p] \in Final \ {"refused"} /\ n[p] > Len(Steps(p))
               /\ iface[p] \in Interfaces
            \/ /\ pc'[p] = "needs_approval" /\ pc[p] = "go"
               /\ route[p] = "refused" /\ n[p] > Len(Steps(p)) /\ iface[p] \in Interfaces
            \/ pc'[p] = "killed" /\ Running(p) /\ UNCHANGED last
<1> USE DEF fileVars, auditVars, procVars, opVars
<1>1. CASE Exit(p)
  <2>1. /\ UNCHANGED <<fileVars, auditVars, procVars, n, inputs, inspected, edits>>
        /\ pc[p] = "go" /\ route[p] \in Final /\ n[p] > Len(Steps(p)) /\ iface[p] \in Interfaces
        /\ last' \in {iface[p], last}
    BY <1>1 DEF Exit, Done, Ctl
  <2>2. Goto(p, IF route[p] = "refused" THEN "needs_approval" ELSE "ok")
    BY <1>1 DEF Exit
  <2>3. /\ pc' \in [Proc -> PC] /\ \A q \in Proc \ {p} : pc'[q] = pc[q]
        /\ pc'[p] = IF route[p] = "refused" THEN "needs_approval" ELSE "ok"
    BY <2>2, PcOf DEF PC
  <2>4. \A q \in Proc \ {p} : Same(q)
    BY <2>1, <2>3 DEF Same, Recorded
  <2>5. last' \in Interfaces \cup {"none"}
    BY <2>1 DEF TypeOK
  <2> QED
    BY <2>1, <2>3, <2>4, <2>5
<1>2. CASE Kill(p)
  <2>1. /\ UNCHANGED <<fileVars, auditVars, procVars, n, opVars>> /\ Running(p) /\ Goto(p, "killed")
    BY <1>2 DEF Kill
  <2>2. pc'[p] = "killed" /\ pc' \in [Proc -> PC] /\ \A q \in Proc \ {p} : pc'[q] = pc[q]
    BY <2>1, PcOf DEF PC
  <2> QED
    BY <2>1, <2>2 DEF Same, Recorded, TypeOK
<1> QED
  BY <1>1, <1>2

-----------------------------------------------------------------------------
(* The types *)

LEMMA CtlKept ==
  ASSUME NEW q \in Proc, Ctl(q), Same(q)
  PROVE  Ctl(q)' /\ Steps(q)' = Steps(q)
<1>1. req' = req /\ route'[q] = route[q] /\ pc'[q] = pc[q] /\ n'[q] = n[q] /\ iface'[q] = iface[q]
  BY DEF Same
<1>2. Steps(q)' = Steps(q)
  BY <1>1, SameSteps
<1> QED
  BY <1>1, <1>2 DEF Ctl

LEMMA TypeKept ==
  ASSUME TypeOK, NEW p \in Proc, \A q \in Proc \ {p} : Ctl(q) /\ Same(q), req' = req,
         inputs' \in Inputs, torn' \subseteq Files, frozen' \subseteq Streams,
         DOMAIN disk' = Files, \A f \in Files : disk'[f] \in ContentOf(f),
         DOMAIN recorded' = Streams,
         \A s \in Streams : recorded'[s] \subseteq Proc \X (Events \cup T),
         pc' \in [Proc -> PC], iface' \in [Proc -> Interfaces \cup {"unset"}],
         seen' \in [Proc -> Inputs \cup {"none"}], key' \in [Proc -> Key],
         merged' \in [Proc -> Graph], route' \in [Proc -> Routes], n' \in [Proc -> Nat],
         n'[p] \in 1..Len(Steps(p)') + 1,
         inspected' \subseteq Inputs \X Interfaces, last' \in Interfaces \cup {"none"},
         edits' \in 0..Edits, raced' \in BOOLEAN
  PROVE  TypeOK'
<1>1. \A q \in Proc : n'[q] \in 1..Len(Steps(q)') + 1
  <2> TAKE q \in Proc
  <2>1. CASE q # p
    <3>1. Steps(q)' = Steps(q) /\ n'[q] = n[q]
      BY <2>1, CtlKept DEF Same
    <3> QED
      BY <3>1 DEF TypeOK
  <2> QED
    BY <2>1
<1> QED
  BY <1>1 DEF TypeOK, ContentOf, Routes

LEMMA RacedType == TypeOK /\ [Next]_vars => raced' \in BOOLEAN
BY DEF TypeOK, Next, Note, vars

\* One step of a command, with what it may change.
LEMMA StepKeepsTypes ==
  ASSUME TypeOK, [Next]_vars, \A q \in Proc : Ctl(q), NEW p \in Proc,
         \/ Prepare(p) \/ Turn(p) \/ Record(p) \/ ReadGraph(p) \/ Truncate(p) \/ Write(p)
         \/ Exit(p) \/ Kill(p)
  PROVE  TypeOK' /\ \A q \in Proc : Ctl(q)'
<1> USE DEF fileVars, auditVars, procVars, opVars
<1>1. /\ raced' \in BOOLEAN /\ Len(Steps(p)) \in Nat /\ n[p] \in 1..Len(Steps(p)) + 1
      /\ req \in [Proc -> Requests] /\ route \in [Proc -> Routes] /\ n \in [Proc -> Nat]
  BY RacedType, StepsType DEF TypeOK, Routes
<1>2. ASSUME \A q \in Proc \ {p} : Same(q), Ctl(p)'
      PROVE  \A q \in Proc : Ctl(q)'
  <2>1. \A q \in Proc \ {p} : Ctl(q)'
    BY <1>2, CtlKept
  <2> QED
    BY <1>2, <2>1
<1>3. CASE Prepare(p)
  <2>1. /\ UNCHANGED <<fileVars, auditVars, req, seen, merged, route, n, opVars>>
        /\ \A q \in Proc \ {p} : Same(q)
        /\ pc' \in [Proc -> PC] /\ iface' \in [Proc -> Interfaces \cup {"unset"}]
        /\ key' \in [Proc -> Key] /\ route[p] = "begin"
        /\ pc'[p] \in {"handoff", "enter", "go", "error"} \cup Admitted
        /\ pc'[p] \in {"go"} \cup Admitted => iface'[p] \in Interfaces
    BY <1>3, PrepareStep
  <2>2. Steps(p)' = Steps(p)
    BY <2>1, SameSteps
  <2>3. Ctl(p)'
    BY <2>1, <2>2 DEF Ctl, Admitted
  <2>4. TypeOK'
    BY <1>1, <2>1, <2>2, TypeKept DEF TypeOK
  <2> QED
    BY <1>2, <2>1, <2>3, <2>4
<1>4. CASE Turn(p)
  <2>1. /\ UNCHANGED <<fileVars, auditVars, req, iface, key, merged, inputs, last, edits>>
        /\ \A q \in Proc \ {p} : Same(q)
        /\ pc' \in [Proc -> PC] /\ route' \in [Proc -> Routes] /\ n' \in [Proc -> Nat]
        /\ seen' \in [Proc -> Inputs \cup {"none"}] /\ inspected' \subseteq Inputs \X Interfaces
        /\ iface[p] \in Interfaces
        /\ \/ /\ pc'[p] \in {"error", "look"} /\ route[p] = "begin"
              /\ UNCHANGED <<route, n>>
           \/ pc'[p] = "go" /\ n'[p] = 1
    BY <1>4, TurnStep
  <2>2. Ctl(p)'
    BY <2>1 DEF Ctl, Early, Admitted
  <2>3. n'[p] \in 1..Len(Steps(p)') + 1
    <3>1. CASE UNCHANGED <<route, n>>
      BY <1>1, <2>1, <3>1, SameSteps
    <3>2. CASE n'[p] = 1
      <4>1. Steps(p)' \in Seq(Anything)
        <5>1. ASSUME req' \in [Proc -> Requests], route'[p] \in Routes PROVE Steps(p)' \in Seq(Anything)
          <6>1. (req \in [Proc -> Requests] /\ route[p] \in Routes => Steps(p) \in Seq(Anything))'
            BY StepsItems, PTL
          <6> QED
            BY <5>1, <6>1
        <5> QED
          BY <1>1, <2>1, <5>1
      <4>2. Len(Steps(p)') \in Nat
        BY <4>1, LenProperties
      <4> QED
        BY <3>2, <4>2
    <3> QED
      BY <2>1, <3>1, <3>2
  <2>4. TypeOK'
    BY <1>1, <2>1, <2>3, TypeKept DEF TypeOK
  <2> QED
    BY <1>2, <2>1, <2>2, <2>4
<1>5. CASE Record(p)
  <2>1. /\ UNCHANGED <<fileVars, procVars, opVars>>
        /\ \A q \in Proc \ {p} : Same(q)
        /\ pc' \in [Proc -> PC] /\ n' \in [Proc -> Nat] /\ frozen' \subseteq Streams
        /\ DOMAIN recorded' = Streams
        /\ \A s \in Streams : recorded'[s] \subseteq Proc \X (Events \cup T)
        /\ pc[p] = "go" /\ n[p] <= Len(Steps(p))
        /\ \/ pc'[p] = "go" /\ n'[p] = n[p] + 1
           \/ pc'[p] = "error" /\ UNCHANGED n
    BY <1>5, RecordStep
  <2>2. Steps(p)' = Steps(p)
    BY <2>1, SameSteps
  <2>3. Ctl(p)'
    BY <2>1, <2>2 DEF Ctl, Early, Admitted
  <2>4. n'[p] \in 1..Len(Steps(p)') + 1
    BY <1>1, <2>1, <2>2
  <2>5. TypeOK'
    BY <1>1, <2>1, <2>4, TypeKept DEF TypeOK
  <2> QED
    BY <1>2, <2>1, <2>3, <2>5
<1>6. CASE ReadGraph(p) \/ Truncate(p)
  <2>1. /\ UNCHANGED <<disk, auditVars, req, iface, seen, route, opVars>>
        /\ \A q \in Proc \ {p} : Same(q)
        /\ pc' \in [Proc -> PC] /\ n' \in [Proc -> Nat] /\ torn' \subseteq Files
        /\ key' \in [Proc -> Key] /\ merged' \in [Proc -> Graph]
        /\ pc[p] = "go" /\ n[p] <= Len(Steps(p))
        /\ \/ pc'[p] = "go" /\ n'[p] = n[p] + 1
           \/ pc'[p] = "write" /\ Steps(p)[n[p]][1] = "file" /\ UNCHANGED n
    BY <1>6, FileStep
  <2>2. Steps(p)' = Steps(p)
    BY <2>1, SameSteps
  <2>3. Ctl(p)'
    BY <2>1, <2>2 DEF Ctl, Early, Admitted
  <2>4. n'[p] \in 1..Len(Steps(p)') + 1
    BY <1>1, <2>1, <2>2
  <2>5. TypeOK'
    BY <1>1, <2>1, <2>4, TypeKept DEF TypeOK
  <2> QED
    BY <1>2, <2>1, <2>3, <2>5
<1>7. CASE Write(p)
  <2>1. /\ UNCHANGED <<auditVars, procVars, opVars>>
        /\ \A q \in Proc \ {p} : Same(q)
        /\ pc' \in [Proc -> PC] /\ n' \in [Proc -> Nat]
        /\ pc[p] = "write" /\ n[p] <= Len(Steps(p)) /\ pc'[p] = "go" /\ n'[p] = n[p] + 1
        /\ Item(p) \in Files /\ DOMAIN disk' = Files
        /\ disk'[Item(p)] \in ContentOf(Item(p))
        /\ \A f \in Files \ {Item(p)} : disk'[f] = disk[f]
        /\ torn' = torn \ {Item(p)}
    BY <1>7, WriteStep
  <2>2. Steps(p)' = Steps(p)
    BY <2>1, SameSteps
  <2>3. Ctl(p)'
    BY <2>1, <2>2 DEF Ctl, Early, Admitted
  <2>4. n'[p] \in 1..Len(Steps(p)') + 1
    BY <1>1, <2>1, <2>2
  <2>6. \A f \in Files : disk'[f] \in ContentOf(f)
    BY <2>1 DEF TypeOK
  <2>5. TypeOK'
    BY <1>1, <2>1, <2>4, <2>6, TypeKept DEF TypeOK
  <2> QED
    BY <1>2, <2>1, <2>3, <2>5
<1>8. CASE Exit(p) \/ Kill(p)
  <2>1. /\ UNCHANGED <<fileVars, auditVars, procVars, n, inputs, inspected, edits>>
        /\ \A q \in Proc \ {p} : Same(q)
        /\ pc' \in [Proc -> PC] /\ last' \in Interfaces \cup {"none"}
        /\ \/ /\ pc'[p] = "ok" /\ iface[p] \in Interfaces
              /\ route[p] \in Final \ {"refused"} /\ n[p] > Len(Steps(p))
           \/ /\ pc'[p] = "needs_approval" /\ iface[p] \in Interfaces
              /\ route[p] = "refused" /\ n[p] > Len(Steps(p))
           \/ pc'[p] = "killed"
    BY <1>8, EndStep
  <2>2. Steps(p)' = Steps(p)
    BY <2>1, SameSteps
  <2>3. Ctl(p)'
    BY <2>1, <2>2 DEF Ctl, Early, Admitted
  <2>4. n'[p] \in 1..Len(Steps(p)') + 1
    BY <1>1, <2>1, <2>2
  <2>5. TypeOK'
    BY <1>1, <2>1, <2>4, TypeKept DEF TypeOK
  <2> QED
    BY <1>2, <2>1, <2>3, <2>5
<1> QED
  BY <1>3, <1>4, <1>5, <1>6, <1>7, <1>8

LEMMA TypeNext == TypeOK /\ (\A p \in Proc : Ctl(p)) /\ [Next]_vars =>
                    TypeOK' /\ (\A p \in Proc : Ctl(p))'
<1> SUFFICES ASSUME TypeOK, \A p \in Proc : Ctl(p), [Next]_vars
             PROVE  TypeOK' /\ \A p \in Proc : Ctl(p)'
  OBVIOUS
<1>1. CASE \E p \in Proc : \/ Prepare(p) \/ Turn(p) \/ Record(p) \/ ReadGraph(p)
                           \/ Truncate(p) \/ Write(p) \/ Exit(p) \/ Kill(p)
  BY <1>1, StepKeepsTypes
<1>2. CASE Edit
  <2>1. /\ UNCHANGED <<disk, torn, recorded, frozen, pc, req, iface, seen, key, merged,
                       route, n, inspected, last>>
        /\ inputs' \in Inputs /\ edits' \in 0..Edits /\ raced' \in BOOLEAN
    <3>1. edits' = edits + 1 /\ edits < Edits /\ edits \in 0..Edits /\ Edits \in Nat
      BY <1>2, SessionAssumption DEF Edit, TypeOK
    <3> QED
      BY <1>2, <3>1, RacedType DEF Edit, fileVars, auditVars, procVars
  <2>2. \A p \in Proc : Steps(p)' = Steps(p)
    BY <2>1, SameSteps
  <2>3. TypeOK'
    BY <2>1, <2>2 DEF TypeOK, ContentOf
  <2>4. \A p \in Proc : Ctl(p)'
    BY <2>1, <2>2 DEF Ctl
  <2> QED
    BY <2>3, <2>4
<1>3. CASE UNCHANGED vars
  <2>1. \A p \in Proc : Steps(p)' = Steps(p)
    BY <1>3, SameSteps DEF vars
  <2>2. TypeOK'
    BY <1>3, <2>1 DEF TypeOK, ContentOf, vars
  <2>3. \A p \in Proc : Ctl(p)'
    BY <1>3, <2>1 DEF Ctl, vars
  <2> QED
    BY <2>2, <2>3
<1> QED
  BY <1>1, <1>2, <1>3, NextCases DEF Turn

LEMMA TypeInit == Init => TypeOK /\ \A p \in Proc : Ctl(p)
<1> SUFFICES ASSUME Init
             PROVE  TypeOK /\ \A p \in Proc : Ctl(p)
  OBVIOUS
<1>1. DOMAIN disk = Files /\ \A f \in Files : disk[f] \in ContentOf(f)
  <2>1. \A f \in Files : \/ f \in T \cup {"run-state"} \/ f = "snapshot" \/ f = "graph"
                         \/ f \in {"auto", "handoff"}
    BY DEF Files
  <2>2. /\ \A f \in T \cup {"run-state", "auto", "handoff"} : f # "snapshot" /\ f # "graph"
    BY SessionAssumption
  <2>3. /\ \A f \in T \cup {"run-state", "auto", "handoff"} : f \in Files => disk[f] = "none"
        /\ disk["snapshot"] = NoKey /\ disk["graph"] = NoGraph
    BY <2>2 DEF Init, Files
  <2>4. DOMAIN disk = Files
    BY DEF Init
  <2>5. \A f \in T \cup {"run-state", "auto", "handoff"} : "none" \in ContentOf(f)
    BY FileContent
  <2>6. NoKey \in ContentOf("snapshot") /\ NoGraph \in ContentOf("graph")
    BY FileContent, GraphTypes
  <2> QED
    BY <2>1, <2>3, <2>4, <2>5, <2>6
<1>2. /\ DOMAIN recorded = Streams
      /\ \A s \in Streams : recorded[s] \subseteq Proc \X (Events \cup T)
      /\ inputs \in Inputs /\ torn \subseteq Files /\ frozen \subseteq Streams
      /\ pc \in [Proc -> PC] /\ req \in [Proc -> Requests]
      /\ seen \in [Proc -> Inputs \cup {"none"}] /\ n \in [Proc -> Nat]
      /\ route \in [Proc -> Final \cup {"begin", "look"}]
      /\ inspected \subseteq Inputs \X Interfaces /\ last \in Interfaces \cup {"none"}
      /\ raced \in BOOLEAN
  BY DEF Init, PC
<1>3. edits \in 0..Edits
  BY SessionAssumption DEF Init
<1>4. iface \in [Proc -> Interfaces \cup {"unset"}]
  BY SessionAssumption DEF Init, Request
<1>5. key \in [Proc -> Key] /\ merged \in [Proc -> Graph]
  BY GraphTypes DEF Init
<1>6. \A p \in Proc : n[p] \in 1..Len(Steps(p)) + 1
  <2> TAKE p \in Proc
  <2>1. route[p] \in Routes /\ n[p] = 1
    BY DEF Init, Routes
  <2>2. Len(Steps(p)) \in Nat
    BY <1>2, <2>1, StepsItems, LenProperties
  <2> QED
    BY <2>1, <2>2
<1>7. TypeOK
  BY <1>1, <1>2, <1>3, <1>4, <1>5, <1>6 DEF TypeOK
<1>8. \A p \in Proc : Ctl(p)
  BY DEF Init, Ctl, Early, Admitted
<1> QED
  BY <1>7, <1>8

\* The types hold in every state a command line can reach.
THEOREM TypeSafe == Spec => []TypeOK
<1> DEFINE Inv == TypeOK /\ \A p \in Proc : Ctl(p)
<1>1. Init => Inv
  BY TypeInit
<1>2. Inv /\ [Next]_vars => Inv'
  BY TypeNext
<1>3. Inv => TypeOK
  OBVIOUS
<1> QED
  BY <1>1, <1>2, <1>3, PTL DEF Spec

-----------------------------------------------------------------------------
(* What a command has recorded and written *)

\* The events of the steps it has passed are recorded.
Passed(p) ==
  \A i \in 1..Len(Steps(p)) : i < n[p] =>
    \A s \in Streams, e \in Events \cup T : Steps(p)[i] = Event(s, e) => Recorded(p, s, e)

\* Beyond its first route, a session has its begin event; a closing event is
\* that of the route that writes it.
Evidence(p) ==
  /\ Session(p) /\ (pc[p] \in Admitted \/ route[p] # "begin") => Recorded(p, "run", "begin")
  /\ Recorded(p, "run", "end") => route[p] \in {"fast", "unsupported", "inspect"}
  /\ Recorded(p, "run", "apply.performed") => route[p] = "apply"

\* An apply has been announced, approved and found portable.
Approved(p) ==
  route[p] = "apply" =>
    Recorded(p, "run", "apply.begin") /\ req[p].approves /\ seen[p] \in Portable

\* A target that names a command was written in a step of its apply.
Wrote(p) ==
  \A f \in T : disk[f] = p =>
    route[p] = "apply" /\ \E i \in 1..Len(Targets) : Targets[i] = f /\ n[p] > 2 * i - 1

CommandInv(p) == Ctl(p) /\ Passed(p) /\ Evidence(p) /\ Approved(p) /\ Wrote(p)
SessionInv == TypeOK /\ \A p \in Proc : CommandInv(p)

LEMMA InvKept ==
  ASSUME NEW q \in Proc, CommandInv(q), Same(q),
         \A f \in T : disk'[f] = q => disk[f] = q
  PROVE  CommandInv(q)'
<1>1. /\ req' = req /\ route'[q] = route[q] /\ pc'[q] = pc[q] /\ n'[q] = n[q]
      /\ seen'[q] = seen[q]
      /\ \A s \in Streams : \A e : Recorded(q, s, e)' <=> Recorded(q, s, e)
  BY DEF Same
<1>2. Ctl(q)' /\ Steps(q)' = Steps(q)
  BY CtlKept DEF CommandInv
<1>3. Passed(q)'
  BY <1>1, <1>2 DEF CommandInv, Passed
<1>4. Evidence(q)' /\ Approved(q)'
  BY <1>1 DEF CommandInv, Evidence, Approved, Session, Streams
<1>5. Wrote(q)'
  BY <1>1 DEF CommandInv, Wrote
<1> QED
  BY <1>2, <1>3, <1>4, <1>5 DEF CommandInv

\* Where a generated target is written, its event is the step after.
LEMMA TargetStep ==
  ASSUME TypeOK, NEW p \in Proc, NEW f \in T, n[p] <= Len(Steps(p)),
         Steps(p)[n[p]] = File(f)
  PROVE  /\ route[p] = "apply"
         /\ \E i \in 1..Len(Targets) : Targets[i] = f /\ n[p] = 2 * i - 1
<1>1. /\ req \in [Proc -> Requests] /\ route[p] \in Routes
      /\ Len(Steps(p)) \in Nat /\ n[p] \in 1..Len(Steps(p)) + 1
  BY StepsType DEF TypeOK, Routes
<1>2. n[p] \in 1..Len(Steps(p))
  BY <1>1
<1>3. Occurs(File(f), Steps(p))
  BY <1>2 DEF Occurs
<1>4. route[p] = "apply"
  BY <1>1, <1>3, StepsItems
<1>5. Steps(p) = Apply(p)
  BY <1>4 DEF Steps
<1>6. /\ File(f) \notin {File("run-state"), Event("install", "run_execute"),
                         Event("run", "apply.performed")}
      /\ ~Occurs(File(f), Saves)
  BY SessionAssumption, SavesItems DEF Saved, File, Event
<1>7. Len(Targets) \in Nat /\ ~(n[p] > 2 * Len(Targets))
  BY <1>1, <1>2, <1>5, <1>6, ApplyItems, MutationsItems
<1>8. n[p] \in 1..Len(Mutations) /\ Mutations[n[p]] = File(f)
  <2>1. n[p] \in 1..2 * Len(Targets)
    BY <1>2, <1>7
  <2> QED
    BY <1>1, <1>5, <2>1, ApplyItems, MutationsItems
<1>9. PICK i \in 1..Len(Targets) :
        \/ n[p] = 2 * i - 1 /\ Mutations[n[p]] = File(Targets[i])
        \/ n[p] = 2 * i /\ Mutations[n[p]] = Event("install", Targets[i])
  BY <1>8, MutationsItems
<1>10. n[p] = 2 * i - 1 /\ Targets[i] = f
  BY <1>8, <1>9 DEF File, Event
<1> QED
  BY <1>4, <1>10

\* What occurs in a route that a command has finished is recorded.
LEMMA FinishedRecorded ==
  ASSUME TypeOK, NEW p \in Proc, Passed(p), n[p] > Len(Steps(p)),
         NEW s \in Streams, NEW e \in Events \cup T, Occurs(Event(s, e), Steps(p))
  PROVE  Recorded(p, s, e)
<1>1. Len(Steps(p)) \in Nat /\ n[p] \in Nat
  BY StepsType DEF TypeOK
<1>2. PICK i \in 1..Len(Steps(p)) : Steps(p)[i] = Event(s, e)
  BY DEF Occurs
<1>3. i < n[p]
  BY <1>1
<1> QED
  BY <1>2, <1>3 DEF Passed

LEMMA OthersKept ==
  ASSUME TypeOK, NEW p \in Proc, \A q \in Proc \ {p} : CommandInv(q) /\ Same(q),
         \A f \in T : disk'[f] = disk[f] \/ disk'[f] = p, CommandInv(p)'
  PROVE  \A q \in Proc : CommandInv(q)'
<1>1. \A q \in Proc \ {p} : CommandInv(q)'
  BY InvKept
<1> QED
  BY <1>1

LEMMA StepKeepsInv ==
  ASSUME SessionInv, [Next]_vars, NEW p \in Proc,
         \/ Prepare(p) \/ Turn(p) \/ Record(p) \/ ReadGraph(p) \/ Truncate(p) \/ Write(p)
         \/ Exit(p) \/ Kill(p)
  PROVE  \A q \in Proc : CommandInv(q)'
<1> USE DEF fileVars, auditVars, procVars, opVars
<1>1. /\ TypeOK /\ \A q \in Proc : CommandInv(q) /\ Ctl(q)
      /\ Passed(p) /\ Evidence(p) /\ Approved(p) /\ Wrote(p)
      /\ req \in [Proc -> Requests] /\ route[p] \in Routes /\ n[p] \in Nat
      /\ Len(Steps(p)) \in Nat /\ n[p] \in 1..Len(Steps(p)) + 1
      /\ Ctl(p)'
  BY StepsType, StepKeepsTypes DEF SessionInv, CommandInv, TypeOK, Routes
<1>2. CASE Prepare(p)
  <2>1. /\ UNCHANGED <<disk, recorded, req, seen, route, n>>
        /\ \A q \in Proc \ {p} : Same(q)
        /\ route[p] = "begin"
        /\ pc'[p] \in Admitted => pc[p] \in Admitted \/ Done(p, "begin")
    BY <1>1, <1>2, PrepareStep
  <2>2. Steps(p)' = Steps(p) /\ \A s, e : Recorded(p, s, e)' <=> Recorded(p, s, e)
    BY <2>1, SameSteps DEF Recorded
  <2>3. Done(p, "begin") /\ Session(p) => Recorded(p, "run", "begin")
    <3>1. n[p] > Len(Steps(p)) /\ Session(p) => Recorded(p, "run", "begin")
      BY <1>1, <2>1, StepsItems, FinishedRecorded DEF Streams, Events
    <3> QED
      BY <3>1 DEF Done
  <2>4. Passed(p)'
    BY <1>1, <2>1, <2>2 DEF Passed
  <2>5. Evidence(p)'
    BY <1>1, <2>1, <2>2, <2>3 DEF Evidence, Session
  <2>6. Approved(p)' /\ Wrote(p)'
    BY <1>1, <2>1, <2>2 DEF Approved, Wrote
  <2>7. CommandInv(p)'
    BY <1>1, <2>4, <2>5, <2>6 DEF CommandInv
  <2> QED
    BY <1>1, <2>1, <2>7, OthersKept
<1>3. CASE Turn(p)
  <2>1. /\ UNCHANGED <<disk, recorded, req>>
        /\ \A q \in Proc \ {p} : Same(q)
        /\ \/ /\ pc[p] = "match" /\ route[p] = "begin" /\ pc'[p] \in {"error", "look"}
              /\ UNCHANGED <<route, n, seen>>
           \/ /\ pc'[p] = "go" /\ n'[p] = 1
              /\ \/ pc[p] = "match" /\ route[p] = "begin" /\ route'[p] = "fast"
                 \/ pc[p] = "look" /\ route[p] = "begin" /\ route'[p] = "look"
                 \/ Done(p, "look") /\ route'[p] = Gate(p)
                    /\ Gate(p) \in {"inspect", "unsupported", "refused", "apply"}
                    /\ UNCHANGED seen
    BY <1>1, <1>3, TurnStep
  <2>2. \A s, e : Recorded(p, s, e)' <=> Recorded(p, s, e)
    BY <2>1 DEF Recorded
  <2>3. Passed(p)'
    <3>1. CASE UNCHANGED <<route, n>>
      BY <1>1, <2>1, <2>2, <3>1, SameSteps DEF Passed
    <3>2. CASE n'[p] = 1
      BY <3>2 DEF Passed
    <3> QED
      BY <2>1, <3>1, <3>2
  <2>4. Session(p) => Recorded(p, "run", "begin")
    BY <1>1, <2>1 DEF Evidence, Admitted, Done
  <2>5. ~Recorded(p, "run", "end") /\ ~Recorded(p, "run", "apply.performed")
    BY <1>1, <2>1 DEF Evidence, Done
  <2>6. Evidence(p)'
    BY <2>1, <2>2, <2>4, <2>5 DEF Evidence, Session
  <2>7. Approved(p)'
    <3>1. ASSUME route'[p] = "apply"
          PROVE  Done(p, "look") /\ Gate(p) = "apply" /\ UNCHANGED seen
      BY <2>1, <3>1
    <3>2. ASSUME Done(p, "look"), Gate(p) = "apply"
          PROVE  req[p].approves /\ seen[p] \in Portable /\ req[p].apply
      BY <3>2 DEF Gate
    <3>3. ASSUME Done(p, "look"), req[p].apply
          PROVE  Recorded(p, "run", "apply.begin")
      <4>1. n[p] > Len(Steps(p)) /\ Occurs(Event("run", "apply.begin"), Steps(p))
        BY <1>1, <3>3, StepsItems DEF Done
      <4> QED
        BY <1>1, <4>1, FinishedRecorded DEF Streams, Events
    <3> QED
      BY <2>1, <2>2, <3>1, <3>2, <3>3 DEF Approved
  <2>8. Wrote(p)'
    BY <1>1, <2>1 DEF Wrote, Done
  <2>9. CommandInv(p)'
    BY <1>1, <2>3, <2>6, <2>7, <2>8 DEF CommandInv
  <2> QED
    BY <1>1, <2>1, <2>9, OthersKept
<1>4. CASE Record(p)
  <2>1. /\ UNCHANGED <<disk, req, seen, route>>
        /\ \A q \in Proc \ {p} : Same(q)
        /\ pc[p] = "go" /\ n[p] <= Len(Steps(p)) /\ pc'[p] \in {"go", "error"}
        /\ \A s \in Streams : \A e : Recorded(p, s, e) => Recorded(p, s, e)'
        /\ \A s \in Streams : \A e :
             Recorded(p, s, e)' => Recorded(p, s, e) \/ Steps(p)[n[p]] = Event(s, e)
        /\ \/ /\ n'[p] = n[p] + 1
              /\ \A s, e : Steps(p)[n[p]] = Event(s, e) => Recorded(p, s, e)'
           \/ n'[p] = n[p]
    BY <1>1, <1>4, RecordStep
  <2>2. Steps(p)' = Steps(p) /\ (Session(p)' <=> Session(p))
    BY <2>1, SameSteps DEF Session
  <2>3. Passed(p)'
    <3>1. \A i \in 1..Len(Steps(p)) : i < n'[p] => i < n[p] \/ (i = n[p] /\ n'[p] = n[p] + 1)
      BY <1>1, <2>1
    <3>2. ASSUME NEW i \in 1..Len(Steps(p)), i < n'[p], NEW s \in Streams,
                 NEW e \in Events \cup T, Steps(p)[i] = Event(s, e)
          PROVE  Recorded(p, s, e)'
      <4>1. CASE i < n[p]
        <5>1. Recorded(p, s, e)
          BY <1>1, <3>2, <4>1 DEF Passed
        <5> QED
          BY <2>1, <5>1
      <4>2. CASE i = n[p] /\ n'[p] = n[p] + 1
        BY <1>1, <2>1, <3>2, <4>2
      <4> QED
        BY <3>1, <3>2, <4>1, <4>2
    <3> QED
      BY <2>2, <3>2 DEF Passed
  <2>4. \A e \in {"end", "apply.performed"} :
          Recorded(p, "run", e)' => Recorded(p, "run", e) \/ Occurs(Event("run", e), Steps(p))
    <3>1. n[p] \in 1..Len(Steps(p))
      BY <1>1, <2>1
    <3> QED
      BY <2>1, <3>1 DEF Occurs, Streams
  <2>5. Evidence(p)'
    <3>1. Session(p) /\ (pc'[p] \in Admitted \/ route'[p] # "begin") => Recorded(p, "run", "begin")'
      BY <1>1, <2>1 DEF Evidence, Admitted, Streams
    <3>2. Recorded(p, "run", "end")' => route[p] \in {"fast", "unsupported", "inspect"}
      BY <1>1, <2>4, StepsItems DEF Evidence
    <3>3. Recorded(p, "run", "apply.performed")' => route[p] = "apply"
      BY <1>1, <2>4, StepsItems DEF Evidence
    <3> QED
      BY <2>1, <2>2, <3>1, <3>2, <3>3 DEF Evidence
  <2>6. Approved(p)'
    BY <1>1, <2>1 DEF Approved, Streams
  <2>7. Wrote(p)'
    <3>1. \A i \in 1..Len(Targets) : n[p] > 2 * i - 1 => n'[p] > 2 * i - 1
      BY <1>1, <2>1
    <3> QED
      BY <1>1, <2>1, <3>1 DEF Wrote
  <2>8. CommandInv(p)'
    BY <1>1, <2>3, <2>5, <2>6, <2>7 DEF CommandInv
  <2> QED
    BY <1>1, <2>1, <2>8, OthersKept
<1>5. CASE ReadGraph(p) \/ Truncate(p) \/ Write(p)
  <2>1. /\ UNCHANGED <<recorded, req, seen, route>>
        /\ \A q \in Proc \ {p} : Same(q)
        /\ pc[p] \in {"go", "write"} /\ n[p] <= Len(Steps(p)) /\ pc'[p] \in {"go", "write"}
        /\ n'[p] \in {n[p], n[p] + 1} /\ Steps(p)[n[p]][1] \in {"file", "merge"}
    BY <1>1, <1>5, FileStep, WriteStep DEF File
  <2>2. /\ Steps(p)' = Steps(p) /\ (Session(p)' <=> Session(p))
        /\ \A s, e : Recorded(p, s, e)' <=> Recorded(p, s, e)
    BY <2>1, SameSteps DEF Session, Recorded
  <2>3. \A s \in Streams : \A e : Steps(p)[n[p]] # Event(s, e)
    BY <2>1 DEF Event, Streams
  <2>4. Passed(p)'
    <3>1. \A i \in 1..Len(Steps(p)) : i < n'[p] => i < n[p] \/ i = n[p]
      BY <1>1, <2>1
    <3> QED
      BY <1>1, <2>2, <2>3, <3>1 DEF Passed
  <2>5. Evidence(p)' /\ Approved(p)'
    BY <1>1, <2>1, <2>2 DEF Evidence, Approved, Admitted
  <2>6. \A f \in T : disk'[f] = disk[f] \/
          (disk'[f] = p /\ Write(p) /\ Steps(p)[n[p]] = File(f) /\ n'[p] = n[p] + 1)
    <3>1. CASE ReadGraph(p) \/ Truncate(p)
      BY <1>1, <3>1, FileStep
    <3>2. CASE Write(p)
      BY <1>1, <3>2, WriteStep, FileContent DEF Files
    <3> QED
      BY <1>5, <3>1, <3>2
  <2>7. Wrote(p)'
    <3> SUFFICES ASSUME NEW f \in T, disk'[f] = p
                 PROVE  route[p] = "apply"
                        /\ \E i \in 1..Len(Targets) : Targets[i] = f /\ n'[p] > 2 * i - 1
      BY <2>1 DEF Wrote
    <3>0. Len(Targets) \in Nat
      BY MutationsItems
    <3>1. CASE disk[f] = p
      <4>1. /\ route[p] = "apply"
            /\ \E i \in 1..Len(Targets) : Targets[i] = f /\ n[p] > 2 * i - 1
        BY <1>1, <3>1 DEF Wrote
      <4>2. \A i \in 1..Len(Targets) : n[p] > 2 * i - 1 => n'[p] > 2 * i - 1
        BY <1>1, <2>1, <3>0
      <4> QED
        BY <4>1, <4>2
    <3>2. CASE disk[f] # p
      <4>1. Steps(p)[n[p]] = File(f) /\ n'[p] = n[p] + 1
        BY <2>6, <3>2
      <4>2. /\ route[p] = "apply"
            /\ \E i \in 1..Len(Targets) : Targets[i] = f /\ n[p] = 2 * i - 1
        BY <1>1, <2>1, <4>1, TargetStep
      <4>3. \A i \in 1..Len(Targets) : n[p] = 2 * i - 1 => n'[p] > 2 * i - 1
        BY <1>1, <3>0, <4>1
      <4> QED
        BY <4>2, <4>3
    <3> QED
      BY <3>1, <3>2
  <2>8. CommandInv(p)'
    BY <1>1, <2>4, <2>5, <2>7 DEF CommandInv
  <2> QED
    BY <1>1, <2>1, <2>6, <2>8, OthersKept
<1>6. CASE Exit(p) \/ Kill(p)
  <2>1. /\ UNCHANGED <<disk, recorded, req, seen, route, n>>
        /\ \A q \in Proc \ {p} : Same(q)
        /\ pc'[p] \in {"ok", "needs_approval", "killed"}
    BY <1>1, <1>6, EndStep
  <2>2. /\ Steps(p)' = Steps(p) /\ (Session(p)' <=> Session(p))
        /\ \A s, e : Recorded(p, s, e)' <=> Recorded(p, s, e)
    BY <2>1, SameSteps DEF Session, Recorded
  <2>3. Passed(p)' /\ Evidence(p)' /\ Approved(p)' /\ Wrote(p)'
    BY <1>1, <2>1, <2>2 DEF Passed, Evidence, Approved, Wrote, Admitted
  <2>4. CommandInv(p)'
    BY <1>1, <2>3 DEF CommandInv
  <2> QED
    BY <1>1, <2>1, <2>4, OthersKept
<1> QED
  BY <1>2, <1>3, <1>4, <1>5, <1>6

LEMMA InvNext == SessionInv /\ [Next]_vars => SessionInv'
<1> SUFFICES ASSUME SessionInv, [Next]_vars
             PROVE  TypeOK' /\ \A p \in Proc : CommandInv(p)'
  BY DEF SessionInv
<1>1. TypeOK'
  BY TypeNext DEF SessionInv, CommandInv
<1>2. CASE \E p \in Proc : \/ Prepare(p) \/ Turn(p) \/ Record(p) \/ ReadGraph(p)
                           \/ Truncate(p) \/ Write(p) \/ Exit(p) \/ Kill(p)
  BY <1>1, <1>2, StepKeepsInv
<1>3. CASE Edit \/ UNCHANGED vars
  <2>1. UNCHANGED <<disk, recorded, pc, req, iface, seen, key, merged, route, n>>
    BY <1>3 DEF Edit, vars, fileVars, auditVars, procVars
  <2>2. \A q \in Proc : Same(q)
    BY <2>1 DEF Same, Recorded
  <2>3. \A q \in Proc : CommandInv(q)'
    BY <2>1, <2>2, InvKept DEF SessionInv
  <2> QED
    BY <1>1, <2>3
<1> QED
  BY <1>1, <1>2, <1>3, NextCases DEF Turn

LEMMA InvInit == Init => SessionInv
<1> SUFFICES ASSUME Init
             PROVE  TypeOK /\ \A p \in Proc : CommandInv(p)
  BY DEF SessionInv
<1>1. TypeOK /\ \A p \in Proc : Ctl(p)
  BY TypeInit
<1>2. \A p \in Proc : pc[p] = "idle" /\ route[p] = "begin" /\ n[p] = 1
  BY DEF Init
<1>3. \A p \in Proc, f \in T : disk[f] # p
  BY SessionAssumption DEF Init, Files
<1>4. \A p \in Proc, s \in Streams : \A e : ~Recorded(p, s, e)
  BY DEF Init, Recorded
<1>5. \A p \in Proc : Passed(p)
  BY <1>2 DEF Passed
<1>6. \A p \in Proc : Evidence(p) /\ Approved(p) /\ Wrote(p)
  BY <1>2, <1>3, <1>4 DEF Evidence, Approved, Wrote, Admitted, Streams
<1> QED
  BY <1>1, <1>5, <1>6 DEF CommandInv

LEMMA InvAlways == Spec => []SessionInv
BY InvInit, InvNext, PTL DEF Spec

\* The event of a target comes before the next target.
LEMMA PassedTarget ==
  ASSUME SessionInv, NEW p \in Proc, route[p] = "apply",
         NEW i \in 1..Len(Targets), n[p] > 2 * i
  PROVE  Recorded(p, "install", Targets[i])
<1>1. /\ req \in [Proc -> Requests] /\ Len(Targets) \in Nat /\ Len(Apply(p)) \in Nat
      /\ Steps(p) = Apply(p) /\ Len(Apply(p)) > 2 * Len(Targets)
  BY StepsType, ApplyItems, MutationsItems DEF SessionInv, TypeOK, Steps
<1>2. 2 * i \in 1..Len(Steps(p)) /\ 2 * i \in 1..2 * Len(Targets)
  BY <1>1
<1>3. Steps(p)[2 * i] = Event("install", Targets[i])
  BY <1>1, <1>2, ApplyItems, MutationsItems
<1>4. Targets[i] \in T
  BY DEF T
<1>5. Passed(p)
  BY DEF SessionInv, CommandInv
<1> QED
  BY <1>2, <1>3, <1>4, <1>5 DEF Passed, Streams

\* mutation.Apply writes the file and then its event, target by target, after
\* apply.begin and the gates: whatever the command died of, no target is
\* unannounced and at most the last is without its event.
THEOREM TargetsAreWrittenAhead == Spec => []WriteAhead
<1>1. SessionInv => WriteAhead
  <2> SUFFICES ASSUME SessionInv
               PROVE  WriteAhead
    OBVIOUS
  <2>1. ASSUME NEW f \in T, disk[f] # "none"
        PROVE  /\ Recorded(disk[f], "run", "apply.begin")
               /\ req[disk[f]].approves /\ seen[disk[f]] \in Portable
    <3>1. disk[f] \in Proc
      BY <2>1, FileContent DEF SessionInv, TypeOK, Files
    <3> QED
      BY <3>1 DEF SessionInv, CommandInv, Wrote, Approved
  <2>2. ASSUME NEW f \in T, NEW g \in T, NEW p \in Proc, f # g, disk[f] = p,
               disk[g] = p \/ Writing(p, g)
        PROVE  Recorded(p, "install", f) \/ Recorded(p, "install", g)
    <3>1. TypeOK /\ Ctl(p) /\ Wrote(p) /\ n[p] \in Nat /\ Len(Targets) \in Nat
      BY MutationsItems DEF SessionInv, CommandInv, TypeOK
    <3>2. route[p] = "apply"
      BY <2>2, <3>1 DEF Wrote
    <3>3. PICK i \in 1..Len(Targets) : Targets[i] = f /\ n[p] > 2 * i - 1
      BY <2>2, <3>1 DEF Wrote
    <3>4. CASE disk[g] = p
      <4>1. PICK j \in 1..Len(Targets) : Targets[j] = g /\ n[p] > 2 * j - 1
        BY <3>1, <3>4 DEF Wrote
      <4>2. i # j
        BY <2>2, <3>3, <4>1
      <4>3. n[p] > 2 * i \/ n[p] > 2 * j
        BY <3>1, <3>3, <4>1, <4>2
      <4> QED
        BY <3>2, <3>3, <4>1, <4>3, PassedTarget
    <3>5. CASE Writing(p, g)
      <4>1. n[p] <= Len(Steps(p)) /\ Steps(p)[n[p]] = File(g)
        <5>1. n[p] <= Len(Steps(p)) /\ Steps(p)[n[p]][1] = "file" /\ Item(p) = g
          BY <3>1, <3>5 DEF Writing, Ctl
        <5> QED
          BY <3>1, <5>1, StepsType, ItemKinds DEF Item
      <4>2. PICK j \in 1..Len(Targets) : Targets[j] = g /\ n[p] = 2 * j - 1
        BY <3>1, <4>1, TargetStep
      <4>3. i # j
        BY <2>2, <3>3, <4>2
      <4>4. n[p] > 2 * i
        BY <3>1, <3>3, <4>2, <4>3
      <4> QED
        BY <3>2, <3>3, <4>4, PassedTarget
    <3> QED
      BY <2>2, <3>4, <3>5
  <2> QED
    BY <2>1, <2>2 DEF WriteAhead
<1> QED
  BY <1>1, InvAlways, PTL

\* The exits of runNormalPath: what the exit code says of a command, the streams say.
THEOREM ExitsAreTruthful == Spec => []ExitTruthful
<1>1. SessionInv => ExitTruthful
  <2> SUFFICES ASSUME SessionInv, NEW p \in Proc
               PROVE  /\ pc[p] = "ok" /\ Session(p) => Recorded(p, "run", "begin") /\ Closed(p)
                      /\ pc[p] = "ok" /\ Recorded(p, "run", "apply.performed") =>
                           \A f \in T : Recorded(p, "install", f)
                      /\ pc[p] = "needs_approval" =>
                           /\ Recorded(p, "run", "gate.result")
                           /\ ~Closed(p)
                           /\ \A f \in T : disk[f] # p
    BY DEF ExitTruthful
  <2>1. /\ TypeOK /\ Ctl(p) /\ Passed(p) /\ Evidence(p) /\ Wrote(p)
        /\ req \in [Proc -> Requests] /\ route[p] \in Routes
        /\ {"end", "apply.performed", "gate.result"} \subseteq Events \cup T /\ "run" \in Streams
    BY DEF SessionInv, CommandInv, TypeOK, Routes, Events, Streams
  <2>2. ASSUME pc[p] = "ok", Session(p)
        PROVE  Recorded(p, "run", "begin") /\ Closed(p)
    <3>1. route[p] \in Final \ {"refused"} /\ n[p] > Len(Steps(p))
      BY <2>1, <2>2 DEF Ctl
    <3>2. Recorded(p, "run", "begin")
      BY <2>1, <2>2, <3>1 DEF Evidence, Final
    <3>3. CASE route[p] = "apply"
      <4>1. Occurs(Event("run", "apply.performed"), Steps(p))
        BY <2>1, <3>3, StepsItems
      <4>2. Recorded(p, "run", "apply.performed")
        BY <2>1, <3>1, <4>1, FinishedRecorded
      <4> QED
        BY <3>2, <4>2 DEF Closed
    <3>4. CASE route[p] \in {"fast", "unsupported", "inspect"}
      <4>1. Occurs(Event("run", "end"), Steps(p))
        BY <2>1, <2>2, <3>4, StepsItems
      <4>2. Recorded(p, "run", "end")
        BY <2>1, <3>1, <4>1, FinishedRecorded
      <4> QED
        BY <3>2, <4>2 DEF Closed
    <3> QED
      BY <3>1, <3>3, <3>4 DEF Final
  <2>3. ASSUME pc[p] = "ok", Recorded(p, "run", "apply.performed"), NEW f \in T
        PROVE  Recorded(p, "install", f)
    <3>1. route[p] = "apply" /\ n[p] > Len(Steps(p))
      BY <2>1, <2>3 DEF Ctl, Evidence
    <3>2. PICK i \in 1..Len(Targets) : Targets[i] = f
      BY DEF T
    <3>3. n[p] > 2 * i
      <4>1. /\ Steps(p) = Apply(p) /\ Len(Apply(p)) > 2 * Len(Targets)
            /\ Len(Targets) \in Nat /\ Len(Steps(p)) \in Nat /\ n[p] \in Nat
        BY <2>1, <3>1, ApplyItems, MutationsItems, StepsType DEF Steps, TypeOK
      <4> QED
        BY <3>1, <4>1
    <3> QED
      BY <3>1, <3>2, <3>3, PassedTarget
  <2>4. ASSUME pc[p] = "needs_approval"
        PROVE  Recorded(p, "run", "gate.result") /\ ~Closed(p) /\ \A f \in T : disk[f] # p
    <3>1. route[p] = "refused" /\ n[p] > Len(Steps(p))
      BY <2>1, <2>4 DEF Ctl
    <3>2. Occurs(Event("run", "gate.result"), Steps(p))
      BY <2>1, <3>1, StepsItems
    <3>3. Recorded(p, "run", "gate.result")
      BY <2>1, <3>1, <3>2, FinishedRecorded
    <3> QED
      BY <2>1, <3>1, <3>3 DEF Closed, Evidence, Wrote
  <2> QED
    BY <2>2, <2>3, <2>4
<1> QED
  BY <1>1, InvAlways, PTL

-----------------------------------------------------------------------------
(* One command at a time *)

OneRuns == \A p, q \in Proc : Running(p) /\ Running(q) => p = q

\* What a step may be as long as no two commands have overlapped.
LEMMA AloneCases ==
  ASSUME SessionInv, [Next]_vars, ~raced'
  PROVE  /\ ~raced
         /\ \/ \E p \in Proc :
                 /\ \/ Prepare(p) \/ Turn(p) \/ Record(p) \/ ReadGraph(p) \/ Truncate(p)
                    \/ Write(p) \/ Exit(p) \/ Kill(p)
                 /\ \A q \in Proc \ {p} : ~Running(q)
            \/ Edit /\ \A p \in Proc : ~Running(p)
            \/ UNCHANGED vars
<1>1. raced \in BOOLEAN
  BY DEF SessionInv, TypeOK
<1>2. ASSUME NEW p \in Proc, Step(p) \/ Kill(p), Note(\E q \in Proc \ {p} : Running(q))
      PROVE  /\ ~raced /\ \A q \in Proc \ {p} : ~Running(q)
             /\ \/ Prepare(p) \/ Turn(p) \/ Record(p) \/ ReadGraph(p) \/ Truncate(p)
                \/ Write(p) \/ Exit(p) \/ Kill(p)
  <2>1. ~raced /\ ~(\E q \in Proc \ {p} : Running(q))
    BY <1>1, <1>2 DEF Note
  <2> QED
    BY <1>2, <2>1 DEF Step, Prepare, Turn
<1>3. ASSUME Edit, Note(\E p \in Proc : Running(p))
      PROVE  ~raced /\ \A p \in Proc : ~Running(p)
  BY <1>1, <1>3 DEF Note
<1>4. UNCHANGED vars => ~raced
  BY DEF vars
<1> QED
  BY <1>2, <1>3, <1>4 DEF Next

\* What the step of a command leaves of the other commands ...
LEMMA Others ==
  ASSUME SessionInv, NEW p \in Proc,
         \/ Prepare(p) \/ Turn(p) \/ Record(p) \/ ReadGraph(p) \/ Truncate(p)
         \/ Write(p) \/ Exit(p) \/ Kill(p)
  PROVE  req' = req /\ \A q \in Proc \ {p} : Same(q) /\ Steps(q)' = Steps(q)
<1>1. TypeOK /\ \A q \in Proc : Ctl(q)
  BY DEF SessionInv, CommandInv
<1>2. \A q \in Proc \ {p} : Same(q)
  BY <1>1, PrepareStep, TurnStep, RecordStep, FileStep, WriteStep, EndStep
<1>3. req' = req
  BY <1>1, PrepareStep, TurnStep, RecordStep, FileStep, WriteStep, EndStep DEF procVars
<1> QED
  BY <1>1, <1>2, <1>3, CtlKept

\* ... which still do not run if they did not.
LEMMA Alone ==
  ASSUME SessionInv, NEW p \in Proc, \A q \in Proc \ {p} : ~Running(q),
         \/ Prepare(p) \/ Turn(p) \/ Record(p) \/ ReadGraph(p) \/ Truncate(p)
         \/ Write(p) \/ Exit(p) \/ Kill(p)
  PROVE  /\ OneRuns' /\ req' = req
         /\ \A q \in Proc \ {p} : Same(q) /\ ~Running(q) /\ ~Running(q)' /\ Steps(q)' = Steps(q)
<1>1. req' = req /\ \A q \in Proc \ {p} : Same(q) /\ Steps(q)' = Steps(q)
  BY Others
<1>2. \A q \in Proc \ {p} : ~Running(q)'
  BY <1>1 DEF Same, Running
<1> QED
  BY <1>1, <1>2 DEF OneRuns

LEMMA Idle ==
  ASSUME SessionInv, Edit \/ UNCHANGED vars
  PROVE  /\ UNCHANGED <<disk, torn, recorded, frozen, pc, req, iface, seen, key, merged,
                        route, n, inspected, last>>
         /\ \A q \in Proc : Steps(q)' = Steps(q)
<1>1. UNCHANGED <<disk, torn, recorded, frozen, pc, req, iface, seen, key, merged,
                  route, n, inspected, last>>
  BY DEF Edit, vars, fileVars, auditVars, procVars
<1> QED
  BY <1>1, SameSteps

\* Which routes save what.
LEMMA SavedItems ==
  ASSUME req \in [Proc -> Requests], NEW p \in Proc, route[p] \in Routes
  PROVE  /\ \A x \in {File("snapshot"), <<"merge", "graph">>, File("graph")} :
              Occurs(x, Steps(p)) <=> Session(p) /\ route[p] \in {"unsupported", "apply", "inspect"}
         /\ Occurs(File("handoff"), Steps(p)) <=>
              \/ route[p] = "fast"
              \/ Session(p) /\ route[p] \in {"unsupported", "apply", "inspect"}
         /\ Occurs(File("run-state"), Steps(p)) => route[p] = "apply"
<1> DEFINE X == {File("snapshot"), <<"merge", "graph">>, File("graph")}
<1>1. /\ \A x \in X \cup {File("handoff")} : Occurs(x, Saves)
      /\ ~Occurs(File("run-state"), Saves)
  BY SavesItems DEF Saved, File
<1>2. \A x \in X \cup {File("handoff"), File("run-state")} :
        /\ \A s \in Streams : \A e : x # Event(s, e)
  BY DEF File, Event, Streams
<1>3. \A x \in X \cup {File("handoff")} : ~Occurs(x, Mutations)
  <2> SUFFICES ASSUME NEW k \in 1..Len(Mutations)
               PROVE  Mutations[k] \notin X \cup {File("handoff")}
    BY DEF Occurs
  <2>1. PICK i \in 1..Len(Targets) :
          Mutations[k] = File(Targets[i]) \/ Mutations[k] = Event("install", Targets[i])
    BY MutationsItems
  <2>2. Targets[i] \in T
    BY DEF T
  <2>3. Targets[i] \notin {"snapshot", "graph", "handoff"}
    BY <2>2, SessionAssumption
  <2> QED
    BY <2>1, <2>3 DEF File, Event
<1>4. \A x \in X : x # File("auto") /\ x # File("handoff") /\ x # File("run-state")
  BY DEF File
<1>5. File("handoff") # File("run-state") /\ File("run-state") # File("auto")
  BY DEF File
<1>6. "install" \in Streams /\ "run" \in Streams
  BY DEF Streams
<1> HIDE DEF X
<1>7. CASE route[p] = "begin"
  <2>1. Steps(p) = Only(Session(p), <<Event("run", "begin")>>)
    BY <1>7 DEF Steps
  <2>2. \A x : Occurs(x, Steps(p)) => x = Event("run", "begin")
    BY <2>1, BeginItems
  <2>3. \A x \in X \cup {File("handoff"), File("run-state")} : ~Occurs(x, Steps(p))
    BY <1>2, <1>6, <2>2
  <2> QED
    BY <1>7, <2>3 DEF X
<1>8. CASE route[p] = "fast"
  <2>1. Steps(p) = Fast
    BY <1>8 DEF Steps
  <2> QED
    BY <1>2, <1>4, <1>5, <1>6, <1>8, <2>1, FastItems DEF X
<1>9. CASE route[p] = "look"
  <2>1. Steps(p) = Look(p)
    BY <1>9 DEF Steps
  <2> QED
    BY <1>2, <1>6, <1>9, <2>1, LookItems DEF X
<1>10. CASE route[p] = "unsupported"
  <2>1. Steps(p) = Unsupported(p)
    BY <1>10 DEF Steps
  <2> QED
    BY <1>1, <1>2, <1>6, <1>10, <2>1, UnsupportedItems DEF X
<1>11. CASE route[p] = "refused"
  <2>1. Steps(p) = Refused(p)
    BY <1>11 DEF Steps
  <2> QED
    BY <1>2, <1>6, <1>11, <2>1, RefusedItems DEF X
<1>12. CASE route[p] = "apply"
  <2>1. Steps(p) = Apply(p)
    BY <1>12 DEF Steps
  <2> QED
    BY <1>1, <1>2, <1>3, <1>4, <1>5, <1>6, <1>12, <2>1, ApplyItems DEF X
<1>13. CASE route[p] = "inspect"
  <2>1. Steps(p) = Inspect(p)
    BY <1>13 DEF Steps
  <2> QED
    BY <1>1, <1>2, <1>6, <1>13, <2>1, InspectItems DEF X
<1> QED
  BY <1>7, <1>8, <1>9, <1>10, <1>11, <1>12, <1>13 DEF X, Routes, Final

-----------------------------------------------------------------------------
(* The fast path *)

\* While a command runs alone, the workspace is the one it planned for; the
\* key it saves, and the one it may match, are of a workspace planned for.
Foreseen(p) ==
  /\ Running(p) /\ route[p] \notin {"begin", "fast"} => <<inputs, iface[p]>> \in inspected
  /\ pc[p] = "match" => key[p].interface = iface[p]
  /\ pc[p] = "write" /\ Item(p) = "snapshot" => <<key[p].inputs, key[p].interface>> \in inspected
  /\ route[p] = "fast" => <<key[p].inputs, iface[p]>> \in inspected
SnapshotForeseen ==
  disk["snapshot"] # NoKey => <<disk["snapshot"].inputs, disk["snapshot"].interface>> \in inspected
FastInv == ~raced => OneRuns /\ SnapshotForeseen /\ \A p \in Proc : Foreseen(p)

LEMMA ForeseenKept ==
  ASSUME NEW q \in Proc, Foreseen(q), Same(q), Steps(q)' = Steps(q), ~Running(q),
         inspected \subseteq inspected'
  PROVE  Foreseen(q)'
<1>1. pc'[q] = pc[q] /\ route'[q] = route[q] /\ key'[q] = key[q] /\ iface'[q] = iface[q]
  BY DEF Same
<1>2. pc[q] \notin {"match", "write"}
  BY DEF Running, Stopped
<1> QED
  BY <1>1, <1>2 DEF Foreseen, Running

LEMMA FastStep ==
  ASSUME SessionInv, ~raced, FastInv, NEW p \in Proc, \A q \in Proc \ {p} : ~Running(q),
         \/ Prepare(p) \/ Turn(p) \/ Record(p) \/ ReadGraph(p) \/ Truncate(p)
         \/ Write(p) \/ Exit(p) \/ Kill(p)
  PROVE  OneRuns' /\ SnapshotForeseen' /\ \A q \in Proc : Foreseen(q)'
<1> USE DEF fileVars, auditVars, procVars, opVars
<1>1. /\ TypeOK /\ Ctl(p) /\ OneRuns' /\ req' = req /\ Foreseen(p) /\ SnapshotForeseen
      /\ \A q \in Proc \ {p} : Foreseen(q) /\ Same(q) /\ ~Running(q) /\ Steps(q)' = Steps(q)
      /\ req \in [Proc -> Requests] /\ route[p] \in Routes /\ n[p] \in 1..Len(Steps(p)) + 1
      /\ Len(Steps(p)) \in Nat
  BY Alone, StepsType DEF SessionInv, CommandInv, FastInv, TypeOK, Routes
<1>2. ASSUME inspected \subseteq inspected', SnapshotForeseen', Foreseen(p)'
      PROVE  OneRuns' /\ SnapshotForeseen' /\ \A q \in Proc : Foreseen(q)'
  <2>1. \A q \in Proc \ {p} : Foreseen(q)'
    BY <1>1, <1>2, ForeseenKept
  <2> QED
    BY <1>1, <1>2, <2>1
<1>3. CASE Prepare(p)
  <2>1. /\ UNCHANGED <<disk, inputs, inspected, route>> /\ route[p] = "begin"
        /\ pc'[p] \in {"handoff", "enter", "go", "error"} \cup Admitted
        /\ pc'[p] = "match" => key'[p].interface = iface'[p]
    BY <1>1, <1>3, PrepareStep
  <2>2. Foreseen(p)'
    BY <2>1 DEF Foreseen, Admitted
  <2> QED
    BY <1>1, <1>2, <2>1, <2>2 DEF SnapshotForeseen
<1>4. CASE Turn(p)
  <2>1. /\ UNCHANGED <<disk, inputs, iface, key>>
        /\ \/ /\ pc[p] = "match" /\ route[p] = "begin" /\ pc'[p] \in {"error", "look"}
              /\ UNCHANGED <<route, inspected>>
           \/ /\ pc'[p] = "go"
              /\ \/ pc[p] = "match" /\ route'[p] = "fast" /\ UNCHANGED inspected
                    /\ disk["snapshot"] # NoKey /\ disk["snapshot"] = key[p]
                 \/ pc[p] = "look" /\ route'[p] = "look"
                    /\ inspected' = inspected \cup {<<inputs, iface[p]>>}
                 \/ Done(p, "look") /\ UNCHANGED inspected
                    /\ route'[p] \in {"inspect", "unsupported", "refused", "apply"}
    BY <1>1, <1>4, TurnStep
  <2>2. SnapshotForeseen' /\ inspected \subseteq inspected'
    BY <1>1, <2>1 DEF SnapshotForeseen
  <2>0. pc'[p] \notin {"match", "write"}
    BY <2>1
  <2>3. ASSUME pc[p] = "match", route'[p] = "begin"
        PROVE  Foreseen(p)'
    BY <2>0, <2>3 DEF Foreseen
  <2>4. ASSUME pc[p] = "match", route'[p] = "fast", UNCHANGED inspected,
               disk["snapshot"] # NoKey, disk["snapshot"] = key[p]
        PROVE  Foreseen(p)'
    <3>1. <<key[p].inputs, key[p].interface>> \in inspected /\ key[p].interface = iface[p]
      BY <1>1, <2>4 DEF Foreseen, SnapshotForeseen
    <3>2. <<key'[p].inputs, iface'[p]>> \in inspected'
      BY <2>1, <2>4, <3>1
    <3> QED
      BY <2>0, <2>4, <3>2 DEF Foreseen
  <2>5. ASSUME route'[p] = "look", inspected' = inspected \cup {<<inputs, iface[p]>>}
        PROVE  Foreseen(p)'
    <3>1. <<inputs', iface'[p]>> \in inspected'
      BY <2>1, <2>5
    <3> QED
      BY <2>0, <2>5, <3>1 DEF Foreseen
  <2>6. ASSUME Done(p, "look"), UNCHANGED inspected,
               route'[p] \in {"inspect", "unsupported", "refused", "apply"}
        PROVE  Foreseen(p)'
    <3>1. Running(p) /\ route[p] = "look"
      BY <2>6 DEF Done, Running, Stopped
    <3>2. <<inputs', iface'[p]>> \in inspected'
      BY <1>1, <2>1, <2>6, <3>1 DEF Foreseen
    <3> QED
      BY <2>0, <2>6, <3>2 DEF Foreseen
  <2>7. Foreseen(p)'
    <3>1. CASE pc[p] = "match" /\ route[p] = "begin" /\ UNCHANGED <<route, inspected>>
      BY <2>3, <3>1
    <3> QED
      BY <2>1, <2>4, <2>5, <2>6, <3>1
  <2> QED
    BY <1>2, <2>2, <2>7
<1>5. CASE Record(p)
  <2>1. /\ UNCHANGED <<disk, inputs, inspected, iface, key, route>>
        /\ pc[p] = "go" /\ pc'[p] \in {"go", "error"}
    BY <1>1, <1>5, RecordStep
  <2>2. Foreseen(p)'
    BY <1>1, <2>1 DEF Foreseen, Running, Stopped
  <2> QED
    BY <1>1, <1>2, <2>1, <2>2 DEF SnapshotForeseen
<1>6. CASE ReadGraph(p) \/ Truncate(p)
  <2>1. /\ UNCHANGED <<disk, inputs, inspected, iface, route>>
        /\ pc[p] = "go" /\ n[p] <= Len(Steps(p)) /\ pc'[p] \in {"go", "write"}
        /\ pc'[p] = "go" => UNCHANGED key
        /\ pc'[p] = "write" =>
             /\ UNCHANGED n
             /\ Steps(p)[n[p]][1] = "file"
             /\ key'[p] = IF Item(p) = "snapshot" THEN KeyNow(p) ELSE key[p]
    BY <1>1, <1>6, FileStep
  <2>2. Steps(p)' = Steps(p)
    BY <1>1, <2>1, SameSteps
  <2>3. Running(p)
    BY <2>1 DEF Running, Stopped
  <2>4. pc'[p] = "write" => Item(p)' = Item(p)
    BY <2>1, <2>2 DEF Item
  <2>5. ASSUME Item(p) = "snapshot", pc'[p] = "write"
        PROVE  route[p] \in {"unsupported", "apply", "inspect"}
    <3>1. n[p] \in 1..Len(Steps(p)) /\ Steps(p)[n[p]] = File("snapshot")
      BY <1>1, <2>1, <2>5, StepsType, ItemKinds DEF Item
    <3>2. Occurs(File("snapshot"), Steps(p))
      BY <3>1 DEF Occurs
    <3> QED
      BY <1>1, <3>2, SavedItems
  <2>6. KeyNow(p).inputs = inputs /\ KeyNow(p).interface = iface[p]
    BY DEF KeyNow
  <2>7. Foreseen(p)'
    <3>1. CASE pc'[p] = "go"
      BY <1>1, <2>1, <2>3, <3>1 DEF Foreseen
    <3>2. CASE pc'[p] = "write" /\ Item(p) = "snapshot"
      BY <1>1, <2>1, <2>3, <2>4, <2>5, <2>6, <3>2 DEF Foreseen
    <3>3. CASE pc'[p] = "write" /\ Item(p) # "snapshot"
      BY <1>1, <2>1, <2>3, <2>4, <3>3 DEF Foreseen
    <3> QED
      BY <2>1, <3>1, <3>2, <3>3
  <2> QED
    BY <1>1, <1>2, <2>1, <2>7 DEF SnapshotForeseen
<1>7. CASE Write(p)
  <2>1. /\ UNCHANGED <<inputs, inspected, iface, key, route>>
        /\ pc[p] = "write" /\ pc'[p] = "go"
        /\ Item(p) \in Files /\ disk'[Item(p)] = Content(p, Item(p))
        /\ \A f \in Files \ {Item(p)} : disk'[f] = disk[f]
    BY <1>1, <1>7, WriteStep
  <2>2. Foreseen(p)'
    BY <1>1, <2>1 DEF Foreseen, Running, Stopped
  <2>3. SnapshotForeseen'
    <3>1. CASE Item(p) = "snapshot"
      BY <1>1, <2>1, <3>1 DEF Foreseen, Content, SnapshotForeseen
    <3>2. CASE Item(p) # "snapshot"
      BY <1>1, <2>1, <3>2 DEF SnapshotForeseen, Files
    <3> QED
      BY <3>1, <3>2
  <2> QED
    BY <1>2, <2>1, <2>2, <2>3
<1>8. CASE Exit(p) \/ Kill(p)
  <2>1. /\ UNCHANGED <<disk, inputs, inspected, iface, key, route>>
        /\ pc'[p] \in {"ok", "needs_approval", "killed"}
    BY <1>1, <1>8, EndStep
  <2>2. Foreseen(p)'
    BY <1>1, <2>1 DEF Foreseen, Running, Stopped
  <2> QED
    BY <1>1, <1>2, <2>1, <2>2 DEF SnapshotForeseen
<1> QED
  BY <1>3, <1>4, <1>5, <1>6, <1>7, <1>8

LEMMA FastNext == SessionInv /\ FastInv /\ [Next]_vars => FastInv'
<1> SUFFICES ASSUME SessionInv, FastInv, [Next]_vars, ~raced'
             PROVE  OneRuns' /\ SnapshotForeseen' /\ \A p \in Proc : Foreseen(p)'
  BY DEF FastInv
<1>1. ~raced /\ OneRuns /\ SnapshotForeseen /\ \A p \in Proc : Foreseen(p)
  BY AloneCases DEF FastInv
<1>2. CASE \E p \in Proc :
             /\ \/ Prepare(p) \/ Turn(p) \/ Record(p) \/ ReadGraph(p) \/ Truncate(p)
                \/ Write(p) \/ Exit(p) \/ Kill(p)
             /\ \A q \in Proc \ {p} : ~Running(q)
  BY <1>1, <1>2, FastStep
<1>3. CASE Edit /\ \A p \in Proc : ~Running(p)
  <2>1. /\ UNCHANGED <<disk, pc, iface, seen, key, merged, route, n, inspected, req, recorded>>
        /\ \A q \in Proc : Steps(q)' = Steps(q)
    BY <1>3, Idle
  <2>2. \A q \in Proc : Same(q)
    BY <2>1 DEF Same, Recorded
  <2>3. \A q \in Proc : Foreseen(q)'
    BY <1>1, <1>3, <2>1, <2>2, ForeseenKept
  <2> QED
    BY <1>1, <1>3, <2>1, <2>3 DEF OneRuns, Running, SnapshotForeseen
<1>4. CASE UNCHANGED vars
  <2>1. /\ UNCHANGED <<inputs, disk, pc, iface, key, route, n, inspected>>
        /\ \A q \in Proc : Steps(q)' = Steps(q)
    BY <1>4, Idle DEF vars
  <2>2. \A q \in Proc : Foreseen(q)'
    BY <1>1, <2>1 DEF Foreseen, Running, Item
  <2> QED
    BY <1>1, <2>1, <2>2 DEF OneRuns, Running, SnapshotForeseen
<1> QED
  BY <1>2, <1>3, <1>4, AloneCases

LEMMA FastInit == Init => FastInv
<1> SUFFICES ASSUME Init
             PROVE  OneRuns /\ SnapshotForeseen /\ \A p \in Proc : Foreseen(p)
  BY DEF FastInv
<1>1. \A p \in Proc : pc[p] = "idle" /\ route[p] = "begin"
  BY DEF Init
<1>2. disk["snapshot"] = NoKey
  BY DEF Init, Files
<1> QED
  BY <1>1, <1>2 DEF OneRuns, Running, SnapshotForeseen, Foreseen

\* startfast: the key that matches is that of a snapshot, the snapshot that of
\* a session, and the session had detected and planned for it.
THEOREM FastPathIsInspected == Spec => []FastPathInspected
<1>1. FastInv => FastPathInspected
  BY DEF FastInv, Foreseen, FastPathInspected
<1>2. Spec => []FastInv
  BY FastInit, FastNext, InvAlways, PTL DEF Spec
<1> QED
  BY <1>1, <1>2, PTL

-----------------------------------------------------------------------------
(* Torn files, and the errors they explain *)

\* A file that is torn is being written, or its writer was killed.
TornExplained ==
  \A f \in torn :
    KilledAt(f) \/ \E q \in Proc : pc[q] = "write" /\ Steps(q)[n[q]] = File(f)

LEMMA ActorLive ==
  ASSUME NEW p \in Proc,
         \/ Prepare(p) \/ Turn(p) \/ Record(p) \/ ReadGraph(p) \/ Truncate(p)
         \/ Write(p) \/ Exit(p) \/ Kill(p)
  PROVE  pc[p] \notin Stopped
<1>1. CASE Prepare(p)
  BY <1>1 DEF Prepare, ResumeAuto, ResumeHandoff, Enter, Begun, Done, PreflightInstall,
              PreflightRun, Preflight, ComputeKey, Stopped
<1>2. CASE Turn(p)
  BY <1>2 DEF Turn, Match, Detect, Decide, Done, Stopped
<1>3. CASE Record(p) \/ ReadGraph(p) \/ Truncate(p) \/ Write(p) \/ Exit(p) \/ Kill(p)
  BY <1>3 DEF Record, ReadGraph, Truncate, At, Write, Exit, Done, Kill, Running, Stopped
<1> QED
  BY <1>1, <1>2, <1>3

LEMMA KilledStays ==
  ASSUME SessionInv, NEW p \in Proc,
         \/ Prepare(p) \/ Turn(p) \/ Record(p) \/ ReadGraph(p) \/ Truncate(p)
         \/ Write(p) \/ Exit(p) \/ Kill(p),
         NEW f, KilledAt(f)
  PROVE  KilledAt(f)'
<1>1. PICK q \in Proc : pc[q] = "killed" /\ n[q] <= Len(Steps(q)) /\ Steps(q)[n[q]] = File(f)
  BY DEF KilledAt
<1>2. q # p
  BY <1>1, ActorLive DEF Stopped
<1>3. pc'[q] = pc[q] /\ n'[q] = n[q] /\ Steps(q)' = Steps(q)
  BY <1>2, Others DEF Same
<1> QED
  BY <1>1, <1>3 DEF KilledAt, File

LEMMA TornStep ==
  ASSUME SessionInv, TornExplained, NEW p \in Proc,
         \/ Prepare(p) \/ Turn(p) \/ Record(p) \/ ReadGraph(p) \/ Truncate(p)
         \/ Write(p) \/ Exit(p) \/ Kill(p)
  PROVE  TornExplained'
<1> USE DEF fileVars, auditVars, procVars, opVars
<1>1. /\ TypeOK /\ Ctl(p) /\ req' = req
      /\ \A q \in Proc \ {p} : Same(q) /\ Steps(q)' = Steps(q)
      /\ req \in [Proc -> Requests] /\ route[p] \in Routes
  BY Others DEF SessionInv, CommandInv, TypeOK, Routes
<1>2. ASSUME NEW f \in torn,
             ~(pc[p] = "write" /\ Steps(p)[n[p]] = File(f))
      PROVE  KilledAt(f)' \/ \E q \in Proc : pc'[q] = "write" /\ Steps(q)'[n'[q]] = File(f)
  <2>1. CASE KilledAt(f)
    BY <2>1, KilledStays
  <2>2. ASSUME NEW q \in Proc, pc[q] = "write", Steps(q)[n[q]] = File(f)
        PROVE  pc'[q] = "write" /\ Steps(q)'[n'[q]] = File(f)
    <3>1. q # p
      BY <1>2, <2>2
    <3>2. pc'[q] = pc[q] /\ n'[q] = n[q] /\ Steps(q)' = Steps(q)
      BY <1>1, <3>1 DEF Same
    <3> QED
      BY <2>2, <3>2
  <2> QED
    BY <2>1, <2>2 DEF TornExplained
<1>3. ASSUME torn' = torn, pc[p] # "write"
      PROVE  TornExplained'
  BY <1>2, <1>3 DEF TornExplained, File
<1>4. CASE Prepare(p)
  <2>1. torn' = torn /\ pc[p] # "write"
    BY <1>1, <1>4, PrepareStep
       DEF Prepare, ResumeAuto, ResumeHandoff, Enter, Begun, Done, PreflightInstall,
           PreflightRun, Preflight, ComputeKey
  <2> QED
    BY <1>3, <2>1
<1>5. CASE Turn(p)
  <2>1. torn' = torn /\ pc[p] # "write"
    BY <1>1, <1>5, TurnStep DEF Done
  <2> QED
    BY <1>3, <2>1
<1>6. CASE Record(p)
  <2>1. torn' = torn /\ pc[p] # "write"
    BY <1>1, <1>6, RecordStep
  <2> QED
    BY <1>3, <2>1
<1>7. CASE ReadGraph(p) \/ Truncate(p)
  <2>1. /\ pc[p] = "go" /\ n[p] <= Len(Steps(p)) /\ route' = route
        /\ \/ torn' = torn
           \/ /\ pc'[p] = "write" /\ Steps(p)[n[p]][1] = "file" /\ n' = n
              /\ torn' = torn \cup {Item(p)}
    BY <1>1, <1>7, FileStep
  <2>2. CASE torn' = torn
    BY <1>3, <2>1, <2>2
  <2>3. CASE /\ pc'[p] = "write" /\ Steps(p)[n[p]][1] = "file" /\ n' = n
             /\ torn' = torn \cup {Item(p)}
    <3>1. Steps(p)[n[p]] = File(Item(p)) /\ Steps(p)' = Steps(p)
      BY <1>1, <2>1, <2>3, StepsType, ItemKinds, SameSteps DEF Item
    <3>2. \A f \in torn' : \/ KilledAt(f)'
                           \/ \E q \in Proc : pc'[q] = "write" /\ Steps(q)'[n'[q]] = File(f)
      BY <1>2, <2>1, <2>3, <3>1
    <3> QED
      BY <3>2 DEF TornExplained, File
  <2> QED
    BY <2>1, <2>2, <2>3
<1>8. CASE Write(p)
  <2>1. torn' = torn \ {Item(p)} /\ Steps(p)[n[p]] = File(Item(p))
    BY <1>1, <1>8, WriteStep
  <2>2. \A f \in torn' : f \in torn /\ Steps(p)[n[p]] # File(f)
    BY <2>1 DEF File
  <2>3. \A f \in torn' : \/ KilledAt(f)'
                         \/ \E q \in Proc : pc'[q] = "write" /\ Steps(q)'[n'[q]] = File(f)
    BY <1>2, <2>2
  <2> QED
    BY <2>3 DEF TornExplained, File
<1>9. CASE Exit(p) \/ Kill(p)
  <2>1. /\ torn' = torn /\ route' = route /\ n' = n
        /\ pc[p] = "go" \/ pc'[p] = "killed"
    BY <1>1, <1>9, EndStep
  <2>2. CASE pc[p] # "write"
    BY <1>3, <2>1, <2>2
  <2>3. CASE pc[p] = "write"
    <3>1. /\ pc'[p] = "killed" /\ n[p] <= Len(Steps(p)) /\ Steps(p)' = Steps(p)
      BY <1>1, <2>1, <2>3, SameSteps DEF Ctl
    <3>2. ASSUME NEW f \in torn, Steps(p)[n[p]] = File(f)
          PROVE  KilledAt(f)'
      BY <2>1, <3>1, <3>2 DEF KilledAt, File
    <3>3. \A f \in torn' : \/ KilledAt(f)'
                           \/ \E q \in Proc : pc'[q] = "write" /\ Steps(q)'[n'[q]] = File(f)
      BY <1>2, <2>1, <3>2
    <3> QED
      BY <3>3 DEF TornExplained, File
  <2> QED
    BY <2>2, <2>3
<1> QED
  BY <1>4, <1>5, <1>6, <1>7, <1>8, <1>9

LEMMA TornNext == SessionInv /\ TornExplained /\ [Next]_vars => TornExplained'
<1>1. ASSUME SessionInv, TornExplained, Edit \/ UNCHANGED vars
      PROVE  TornExplained'
  <2>1. UNCHANGED <<torn, pc, n>> /\ \A q \in Proc : Steps(q)' = Steps(q)
    BY <1>1, Idle
  <2> QED
    BY <1>1, <2>1 DEF TornExplained, KilledAt, File
<1> QED
  BY <1>1, TornStep, NextCases DEF Turn

LEMMA TornAlways == Spec => []TornExplained
<1>1. Init => TornExplained
  BY DEF Init, TornExplained
<1> QED
  BY <1>1, TornNext, InvAlways, PTL DEF Spec

\* Whoever runs alone and finds a file torn owes it to a kill.
LEMMA TornAlone ==
  ASSUME TornExplained, NEW p \in Proc, \A q \in Proc \ {p} : ~Running(q), pc[p] # "write",
         NEW f \in torn
  PROVE  KilledAt(f)
<1>1. \A q \in Proc : pc[q] # "write"
  BY DEF Running, Stopped
<1> QED
  BY <1>1 DEF TornExplained

\* LoadAutoState and LoadSnapshot fail on what a kill left half written; the
\* other loaders do not, and no command leaves a file torn that it survives.
THEOREM ErrorsAreExplained == Spec => []ErrorsExplained
<1>1. SessionInv /\ TornExplained /\ ErrorsExplained /\ [Next]_vars => ErrorsExplained'
  <2> SUFFICES ASSUME SessionInv, TornExplained, ErrorsExplained, [Next]_vars,
                      ~raced', frozen' = {}
               PROVE  \A q \in Proc : pc'[q] = "error" => KilledAt("snapshot")' \/ KilledAt("auto")'
    BY DEF ErrorsExplained
  <2>1. ~raced
    BY AloneCases
  <2>2. ASSUME NEW p \in Proc, \A q \in Proc \ {p} : ~Running(q),
               \/ Prepare(p) \/ Turn(p) \/ Record(p) \/ ReadGraph(p) \/ Truncate(p)
               \/ Write(p) \/ Exit(p) \/ Kill(p),
               NEW q \in Proc, pc'[q] = "error"
        PROVE  KilledAt("snapshot")' \/ KilledAt("auto")'
    <3>1. /\ TypeOK /\ Ctl(p)
          /\ \A r \in Proc \ {p} : pc'[r] = pc[r]
      BY <2>2, Others DEF SessionInv, CommandInv, Same
    <3>2. frozen = {}
      <4>1. CASE Record(p)
        BY <3>1, <4>1, RecordStep
      <4>2. CASE ~Record(p)
        BY <2>2, <3>1, <4>2, PrepareStep, TurnStep, FileStep, WriteStep, EndStep
           DEF auditVars
      <4> QED
        BY <4>1, <4>2
    <3>3. CASE q # p
      <4>1. KilledAt("snapshot") \/ KilledAt("auto")
        BY <2>1, <2>2, <3>1, <3>2, <3>3 DEF ErrorsExplained
      <4> QED
        BY <2>2, <4>1, KilledStays
    <3>4. CASE q = p
      <4>1. pc[p] # "write" /\ ("snapshot" \in torn \/ "auto" \in torn)
        <5>1. CASE Prepare(p)
          <6>1. pc[p] # "write"
            BY <5>1 DEF Prepare, ResumeAuto, ResumeHandoff, Enter, Begun, Done,
                        PreflightInstall, PreflightRun, Preflight, ComputeKey
          <6> QED
            BY <2>2, <3>1, <3>2, <3>4, <5>1, <6>1, PrepareStep
        <5>2. CASE Turn(p)
          BY <2>2, <3>1, <3>4, <5>2, TurnStep
        <5>3. CASE Record(p)
          BY <2>2, <3>1, <3>4, <5>3, RecordStep
        <5>4. CASE ReadGraph(p) \/ Truncate(p)
          BY <2>2, <3>1, <3>4, <5>4, FileStep
        <5>5. CASE Write(p)
          BY <2>2, <3>1, <3>4, <5>5, WriteStep
        <5>6. CASE Exit(p) \/ Kill(p)
          BY <2>2, <3>1, <3>4, <5>6, EndStep
        <5> QED
          BY <2>2, <5>1, <5>2, <5>3, <5>4, <5>5, <5>6
      <4>2. KilledAt("snapshot") \/ KilledAt("auto")
        BY <2>2, <4>1, TornAlone
      <4> QED
        BY <2>2, <4>2, KilledStays
    <3> QED
      BY <3>3, <3>4
  <2>3. ASSUME Edit \/ UNCHANGED vars, NEW q \in Proc, pc'[q] = "error"
        PROVE  KilledAt("snapshot")' \/ KilledAt("auto")'
    <3>1. UNCHANGED <<frozen, pc, n>> /\ \A r \in Proc : Steps(r)' = Steps(r)
      BY <2>3, Idle
    <3>2. KilledAt("snapshot") \/ KilledAt("auto")
      BY <2>1, <2>3, <3>1 DEF ErrorsExplained
    <3> QED
      BY <3>1, <3>2 DEF KilledAt, File
  <2> QED
    BY <2>2, <2>3, AloneCases
<1>2. Init => ErrorsExplained
  BY DEF Init, ErrorsExplained
<1> QED
  BY <1>1, <1>2, InvAlways, TornAlways, PTL DEF Spec

-----------------------------------------------------------------------------
(* The run state *)

\* A command in the middle of its apply holds the targets behind it.
Holds(p) ==
  Running(p) /\ route[p] = "apply" =>
    \A i \in 1..Len(Targets) : n[p] > 2 * i - 1 => disk[Targets[i]] = p
StateInv == RunStateTruthful /\ (~raced => \A p \in Proc : Holds(p))

LEMMA ApplyPlace ==
  ASSUME TypeOK, NEW p \in Proc, route[p] = "apply"
  PROVE  /\ Len(Targets) \in Nat /\ n[p] \in Nat /\ n[p] >= 1
         /\ Len(Steps(p)) \in Nat /\ Len(Steps(p)) > 2 * Len(Targets)
         /\ \A i \in 1..Len(Targets) : Steps(p)[2 * i - 1] = File(Targets[i])
         /\ Steps(p)[2 * Len(Targets) + 1] = File("run-state")
         /\ \A f : n[p] <= 2 * Len(Targets) /\ Steps(p)[n[p]] = File(f) => f \in T
<1>1. /\ req \in [Proc -> Requests] /\ Steps(p) = Apply(p) /\ n[p] \in 1..Len(Steps(p)) + 1
      /\ Len(Targets) \in Nat /\ Len(Steps(p)) \in Nat /\ n[p] \in Nat
  BY StepsType, MutationsItems DEF TypeOK, Steps
<1>2. \A k \in 1..2 * Len(Targets) : Steps(p)[k] = Mutations[k]
  BY <1>1, ApplyItems
<1>3. \A i \in 1..Len(Targets) : 2 * i - 1 \in 1..2 * Len(Targets)
  BY <1>1
<1>4. \A i \in 1..Len(Targets) : Steps(p)[2 * i - 1] = File(Targets[i])
  BY <1>2, <1>3, MutationsItems
<1>5. ASSUME NEW f, n[p] <= 2 * Len(Targets), Steps(p)[n[p]] = File(f)
      PROVE  f \in T
  <2>1. n[p] \in 1..Len(Mutations) /\ Mutations[n[p]] = File(f)
    BY <1>1, <1>2, <1>5, MutationsItems
  <2>2. PICK i \in 1..Len(Targets) : File(f) = File(Targets[i]) \/ File(f) = Event("install", Targets[i])
    BY <2>1, MutationsItems
  <2> QED
    BY <2>2 DEF File, Event, T
<1> QED
  BY <1>1, <1>4, <1>5, ApplyItems

LEMMA StateStep ==
  ASSUME SessionInv, StateInv, ~raced, ~raced', NEW p \in Proc,
         \A q \in Proc \ {p} : ~Running(q),
         \/ Prepare(p) \/ Turn(p) \/ Record(p) \/ ReadGraph(p) \/ Truncate(p)
         \/ Write(p) \/ Exit(p) \/ Kill(p)
  PROVE  StateInv'
<1> USE DEF fileVars, auditVars, procVars, opVars
<1> DEFINE L == Len(Targets)
           Kept(d, f) == d[f] = d["run-state"] \/ \E q \in Proc : d[f] = q /\ Applying(q)
           KeptNext(f) == disk'[f] = disk'["run-state"] \/ \E q \in Proc : disk'[f] = q /\ Applying(q)'
<1>1. /\ TypeOK /\ Ctl(p) /\ req' = req /\ Holds(p)
      /\ \A q \in Proc \ {p} : Same(q) /\ ~Running(q)' /\ Steps(q)' = Steps(q)
      /\ req \in [Proc -> Requests] /\ route[p] \in Routes /\ n[p] \in 1..Len(Steps(p)) + 1
      /\ Len(Steps(p)) \in Nat /\ L \in Nat /\ n[p] \in Nat
  BY Alone, StepsType, MutationsItems DEF SessionInv, CommandInv, StateInv, TypeOK, Routes
<1>2. \A q \in Proc \ {p} : Holds(q)'
  BY <1>1 DEF Holds
<1>3. \A q \in Proc \ {p} : Applying(q) => Applying(q)'
  BY <1>1 DEF Applying, Same
<1>4. \A f \in T : f # "run-state" /\ f \in Files
  BY SessionAssumption DEF Files
<1>5. disk["run-state"] # "none" => \A f \in T : Kept(disk, f)
  BY DEF StateInv, RunStateTruthful
<1>6. ASSUME Holds(p)', disk'["run-state"] # "none" => \A f \in T : KeptNext(f)
      PROVE  StateInv'
  BY <1>2, <1>6 DEF StateInv, RunStateTruthful
<1>7. ASSUME UNCHANGED disk, Applying(p) => Applying(p)'
      PROVE  disk'["run-state"] # "none" => \A f \in T : KeptNext(f)
  BY <1>3, <1>5, <1>7
<1> HIDE DEF Kept, KeptNext, L
<1>8. \A i \in 1..L : Targets[i] \in T
  BY DEF T, L
<1>9. CASE Prepare(p) \/ Turn(p)
  <2>1. /\ UNCHANGED disk /\ route[p] # "apply"
        /\ route'[p] # "apply" \/ n'[p] = 1
    BY <1>1, <1>9, PrepareStep, TurnStep DEF Done
  <2>2. \A i \in 1..L : ~(1 > 2 * i - 1)
    BY <1>1
  <2>3. Holds(p)'
    BY <2>1, <2>2 DEF Holds, L
  <2>4. ~Applying(p)
    BY <2>1 DEF Applying
  <2> QED
    BY <1>6, <1>7, <2>1, <2>3, <2>4
<1>10. CASE Record(p) \/ ReadGraph(p) \/ Truncate(p)
  <2>1. /\ UNCHANGED <<disk, route>> /\ pc[p] = "go" /\ n[p] <= Len(Steps(p))
        /\ pc'[p] \in {"go", "error", "write"}
        /\ n'[p] = n[p] \/ (n'[p] = n[p] + 1 /\ \A f : Steps(p)[n[p]] # File(f))
    <3>1. CASE Record(p)
      <4>1. \A f : Steps(p)[n[p]] # File(f)
        BY <3>1, RecordPlace
      <4> QED
        BY <1>1, <3>1, <4>1, RecordStep
    <3>2. CASE ReadGraph(p) \/ Truncate(p)
      BY <1>1, <3>2, FileStep DEF File
    <3> QED
      BY <1>10, <3>1, <3>2
  <2>2. Running(p)
    BY <2>1 DEF Running, Stopped
  <2>3. Holds(p)'
    <3> SUFFICES ASSUME route[p] = "apply", NEW i \in 1..L, n'[p] > 2 * i - 1
                 PROVE  disk[Targets[i]] = p
      BY <2>1 DEF Holds, L
    <3>1. n[p] # 2 * i - 1 \/ n'[p] = n[p]
      BY <1>1, <2>1, ApplyPlace DEF L
    <3>2. n[p] > 2 * i - 1
      BY <1>1, <2>1, <3>1
    <3> QED
      BY <1>1, <2>2, <3>2 DEF Holds, L
  <2>4. Applying(p) => Applying(p)'
    <3> SUFFICES ASSUME route[p] = "apply", n[p] <= 2 * L + 1
                 PROVE  n'[p] <= 2 * L + 1
      BY <2>1 DEF Applying, L
    <3>1. n[p] # 2 * L + 1 \/ n'[p] = n[p]
      BY <1>1, <2>1, ApplyPlace DEF L
    <3> QED
      BY <1>1, <2>1, <3>1
  <2> QED
    BY <1>6, <1>7, <2>1, <2>3, <2>4
<1>11. CASE Write(p)
  <2>1. /\ route' = route /\ pc[p] = "write" /\ n[p] <= Len(Steps(p))
        /\ pc'[p] = "go" /\ n'[p] = n[p] + 1
        /\ Steps(p)[n[p]] = File(Item(p)) /\ Item(p) \in Files
        /\ disk'[Item(p)] = Content(p, Item(p))
        /\ \A f \in Files \ {Item(p)} : disk'[f] = disk[f]
    BY <1>1, <1>11, WriteStep
  <2>2. Running(p) /\ n[p] \in 1..Len(Steps(p))
    BY <1>1, <2>1 DEF Running, Stopped
  <2>3. Holds(p)'
    <3> SUFFICES ASSUME route[p] = "apply", NEW i \in 1..L, n'[p] > 2 * i - 1
                 PROVE  disk'[Targets[i]] = p
      BY <2>1 DEF Holds, L
    <3>1. CASE Item(p) = Targets[i]
      BY <1>8, <2>1, <3>1, FileContent
    <3>2. CASE Item(p) # Targets[i]
      <4>1. n[p] # 2 * i - 1
        BY <1>1, <2>1, <3>2, ApplyPlace DEF L, File
      <4>2. n[p] > 2 * i - 1
        BY <1>1, <2>1, <4>1
      <4>3. disk[Targets[i]] = p
        BY <1>1, <2>2, <4>2 DEF Holds, L
      <4> QED
        BY <1>4, <1>8, <2>1, <3>2, <4>3
    <3> QED
      BY <3>1, <3>2
  <2>4. disk'["run-state"] # "none" => \A f \in T : KeptNext(f)
    <3>1. CASE Item(p) = "run-state"
      <4>1. route[p] = "apply"
        <5>1. Occurs(File("run-state"), Steps(p))
          BY <2>1, <2>2, <3>1 DEF Occurs
        <5> QED
          BY <1>1, <5>1, SavedItems
      <4>2. n[p] > 2 * L
        BY <1>1, <1>4, <2>1, <3>1, <4>1, ApplyPlace DEF L
      <4>3. \A i \in 1..L : n[p] > 2 * i - 1
        BY <1>1, <4>2
      <4>4. \A f \in T : disk[f] = p
        <5> TAKE f \in T
        <5>1. PICK i \in 1..L : Targets[i] = f
          BY DEF T, L
        <5> QED
          BY <1>1, <2>2, <4>1, <4>3, <5>1 DEF Holds, L
      <4>5. disk'["run-state"] = p
        BY <2>1, <3>1, FileContent DEF Content
      <4>6. \A f \in T : disk'[f] = p
        BY <1>4, <2>1, <3>1, <4>4
      <4> QED
        BY <4>5, <4>6 DEF KeptNext
    <3>2. CASE Item(p) \in T
      <4>1. route[p] = "apply" /\ \E i \in 1..Len(Targets) : n[p] = 2 * i - 1
        BY <1>1, <2>1, <3>2, TargetStep
      <4>2. n'[p] <= 2 * L + 1
        <5>1. PICK i \in 1..L : n[p] = 2 * i - 1
          BY <4>1 DEF L
        <5> QED
          BY <1>1, <2>1, <5>1
      <4>3. Applying(p)'
        BY <2>1, <4>1, <4>2 DEF Applying, L
      <4>4. disk'["run-state"] = disk["run-state"]
        BY <1>4, <2>1, <3>2 DEF Files
      <4>5. ASSUME NEW f \in T, disk["run-state"] # "none"
            PROVE  KeptNext(f)
        <5>1. CASE f = Item(p)
          <6>1. disk'[f] = p
            BY <2>1, <3>2, <5>1, FileContent
          <6> QED
            BY <4>3, <6>1 DEF KeptNext
        <5>2. CASE f # Item(p)
          <6>1. disk'[f] = disk[f]
            BY <1>4, <2>1, <5>2
          <6>2. disk[f] = disk["run-state"] \/ \E q \in Proc : disk[f] = q /\ Applying(q)
            BY <1>5, <4>5 DEF Kept
          <6>3. \A q \in Proc : Applying(q) => Applying(q)'
            BY <1>3, <4>3
          <6> QED
            BY <4>4, <6>1, <6>2, <6>3 DEF KeptNext
        <5> QED
          BY <5>1, <5>2
      <4> QED
        BY <4>4, <4>5
    <3>3. CASE Item(p) \notin T \cup {"run-state"}
      <4>1. ~Applying(p)
        <5> SUFFICES ASSUME route[p] = "apply", n[p] <= 2 * L + 1
                     PROVE  FALSE
          BY DEF Applying, L
        <5>1. n[p] # 2 * L + 1
          BY <1>1, <2>1, <3>3, ApplyPlace DEF L, File
        <5>2. n[p] <= 2 * L
          BY <1>1, <5>1
        <5> QED
          BY <1>1, <2>1, <3>3, <5>2, ApplyPlace DEF L
      <4>2. disk'["run-state"] = disk["run-state"] /\ \A f \in T : disk'[f] = disk[f]
        BY <1>4, <2>1, <3>3 DEF Files
      <4>3. ASSUME NEW f \in T, disk["run-state"] # "none"
            PROVE  KeptNext(f)
        <5>1. disk[f] = disk["run-state"] \/ \E q \in Proc : disk[f] = q /\ Applying(q)
          BY <1>5, <4>3 DEF Kept
        <5>2. \A q \in Proc : Applying(q) => Applying(q)'
          BY <1>3, <4>1
        <5> QED
          BY <4>2, <5>1, <5>2 DEF KeptNext
      <4> QED
        BY <4>2, <4>3
    <3> QED
      BY <3>1, <3>2, <3>3
  <2> QED
    BY <1>6, <2>3, <2>4
<1>12. CASE Exit(p) \/ Kill(p)
  <2>1. /\ UNCHANGED <<disk, route, n>>
        /\ \/ pc'[p] = "killed"
           \/ pc'[p] \in {"ok", "needs_approval"} /\ n[p] > Len(Steps(p))
    BY <1>1, <1>12, EndStep
  <2>2. Holds(p)'
    BY <2>1 DEF Holds, Running, Stopped
  <2>3. Applying(p) => Applying(p)'
    <3>1. CASE pc'[p] = "killed"
      BY <2>1, <3>1 DEF Applying
    <3>2. CASE n[p] > Len(Steps(p))
      <4>1. route[p] = "apply" => ~(n[p] <= 2 * L + 1)
        BY <1>1, <3>2, ApplyPlace DEF L
      <4> QED
        BY <4>1 DEF Applying, L
    <3> QED
      BY <2>1, <3>1, <3>2
  <2> QED
    BY <1>6, <1>7, <2>1, <2>2, <2>3
<1> QED
  BY <1>9, <1>10, <1>11, <1>12

LEMMA StateNext == SessionInv /\ StateInv /\ [Next]_vars => StateInv'
<1> SUFFICES ASSUME SessionInv, StateInv, [Next]_vars
             PROVE  StateInv'
  OBVIOUS
<1>1. CASE raced'
  BY <1>1 DEF StateInv, RunStateTruthful
<1>2. CASE ~raced' /\ (Edit \/ UNCHANGED vars)
  <2>1. /\ UNCHANGED <<disk, pc, route, n>> /\ ~raced
    BY <1>2, Idle, AloneCases
  <2> QED
    BY <1>2, <2>1 DEF StateInv, RunStateTruthful, Applying, Holds, Running
<1> QED
  BY <1>1, <1>2, AloneCases, StateStep

\* runNormalPath writes the run state after the last mutation: what it reports applied is
\* applied, or another apply is on its way to report.
THEOREM RunStateIsTruthful == Spec => []RunStateTruthful
<1>1. Init => StateInv
  BY DEF Init, StateInv, RunStateTruthful, Holds, Files, Running
<1>2. Spec => []StateInv
  BY <1>1, StateNext, InvAlways, PTL DEF Spec
<1>3. StateInv => RunStateTruthful
  BY DEF StateInv
<1> QED
  BY <1>2, <1>3, PTL

-----------------------------------------------------------------------------
(* The task graph *)

\* A graph is written right after it has been merged.
MergedFirst(s) == \A i \in 1..Len(s) : s[i] = File("graph") => i > 1 /\ s[i - 1] = <<"merge", "graph">>

LEMMA MergedFirstConcat ==
  ASSUME NEW s \in Seq(Anything), NEW t \in Seq(Anything), MergedFirst(s), MergedFirst(t)
  PROVE  MergedFirst(s \o t)
<1>1. /\ Len(s \o t) = Len(s) + Len(t) /\ Len(s) \in Nat /\ Len(t) \in Nat
      /\ \A i \in 1..Len(s) : (s \o t)[i] = s[i]
      /\ \A i \in 1..Len(t) : (s \o t)[Len(s) + i] = t[i]
  BY ConcatProperties, LenProperties
<1> SUFFICES ASSUME NEW i \in 1..Len(s \o t), (s \o t)[i] = File("graph")
             PROVE  i > 1 /\ (s \o t)[i - 1] = <<"merge", "graph">>
  BY DEF MergedFirst
<1>2. CASE i <= Len(s)
  <2>1. s[i] = File("graph") /\ i \in 1..Len(s)
    BY <1>1, <1>2
  <2>2. i > 1 /\ s[i - 1] = <<"merge", "graph">>
    BY <2>1 DEF MergedFirst
  <2>3. i - 1 \in 1..Len(s)
    BY <2>1, <2>2
  <2> QED
    BY <1>1, <2>2, <2>3
<1>3. CASE i > Len(s)
  <2> DEFINE j == i - Len(s)
  <2>1. j \in 1..Len(t) /\ Len(s) + j = i
    BY <1>1, <1>3
  <2>2. t[j] = File("graph")
    BY <1>1, <2>1
  <2>3. j > 1 /\ t[j - 1] = <<"merge", "graph">>
    BY <2>1, <2>2 DEF MergedFirst
  <2>4. j - 1 \in 1..Len(t) /\ Len(s) + (j - 1) = i - 1 /\ i > 1
    BY <1>1, <2>1, <2>3
  <2> QED
    BY <1>1, <2>3, <2>4
<1> QED
  BY <1>1, <1>2, <1>3

LEMMA MergedFirstOnly ==
  ASSUME NEW c \in BOOLEAN, NEW s \in Seq(Anything), MergedFirst(s)
  PROVE  MergedFirst(Only(c, s)) /\ Only(c, s) \in Seq(Anything)
BY DEF Only, MergedFirst

LEMMA MergedFirstNone ==
  ASSUME NEW s, ~Occurs(File("graph"), s)
  PROVE  MergedFirst(s)
BY DEF Occurs, MergedFirst

LEMMA SavesMerged == MergedFirst(Saves)
<1>1. /\ Len(Saves) = 5 /\ Saves[1] = File("snapshot") /\ Saves[2] = File("auto")
      /\ Saves[3] = <<"merge", "graph">> /\ Saves[4] = File("graph") /\ Saves[5] = File("handoff")
  BY DEF Saves
<1>2. /\ File("snapshot") # File("graph") /\ File("auto") # File("graph")
      /\ <<"merge", "graph">> # File("graph") /\ File("handoff") # File("graph")
  BY DEF File
<1> QED
  BY <1>1, <1>2 DEF MergedFirst

LEMMA StepsMerged ==
  ASSUME req \in [Proc -> Requests], NEW p \in Proc, route[p] \in Routes
  PROVE  MergedFirst(Steps(p)) /\ Len(Steps(p)) \in Nat
<1>1. Len(Steps(p)) \in Nat /\ Session(p) \in BOOLEAN /\ Saves \in Seq(Anything)
  BY StepsItems, SavesItems, LenProperties, SessionType
<1>2. CASE route[p] \notin {"unsupported", "apply", "inspect"}
  BY <1>1, <1>2, SavedItems, MergedFirstNone
<1>3. \A e : Event("run", e) # File("graph") /\ Event("install", e) # File("graph")
  BY DEF Event, File
<1>4. CASE route[p] = "unsupported"
  <2> DEFINE a == <<Event("run", "gate.result")>>
             b == <<Event("install", "run_execute")>>
             c == <<Event("run", "end")>>
  <2>1. /\ a \in Seq(Anything) /\ b \in Seq(Anything) /\ c \in Seq(Anything)
        /\ ~Occurs(File("graph"), a) /\ ~Occurs(File("graph"), b) /\ ~Occurs(File("graph"), c)
    BY <1>3, OneItem, EventItems DEF RunEvents, Events
  <2>2. Steps(p) = (Only(Session(p), a) \o b) \o Only(Session(p), c \o Saves)
    BY <1>4 DEF Steps, Unsupported
  <2> HIDE DEF a, b, c
  <2>3. MergedFirst(a) /\ MergedFirst(b) /\ MergedFirst(c)
    BY <2>1, MergedFirstNone
  <2>4. MergedFirst(c \o Saves) /\ c \o Saves \in Seq(Anything)
    BY <1>1, <2>1, <2>3, SavesMerged, MergedFirstConcat, Joined
  <2> DEFINE u == Only(Session(p), a)
             v == Only(Session(p), c \o Saves)
  <2>5. /\ u \in Seq(Anything) /\ MergedFirst(u) /\ v \in Seq(Anything) /\ MergedFirst(v)
    BY <1>1, <2>1, <2>3, <2>4, MergedFirstOnly
  <2>6. Steps(p) = (u \o b) \o v
    BY <2>2
  <2> HIDE DEF u, v
  <2>7. u \o b \in Seq(Anything) /\ MergedFirst(u \o b)
    BY <2>1, <2>3, <2>5, MergedFirstConcat, Joined
  <2> DEFINE w == u \o b
  <2>8. w \in Seq(Anything) /\ MergedFirst(w) /\ Steps(p) = w \o v
    BY <2>6, <2>7
  <2> HIDE DEF w
  <2> QED
    BY <1>1, <2>5, <2>8, MergedFirstConcat
<1>5. CASE route[p] = "apply"
  <2> DEFINE a == <<File("run-state"), Event("install", "run_execute"), Event("run", "apply.performed")>>
             v == Only(Session(p), Saves)
  <2>1. /\ a \in Seq(Anything)
        /\ \A x : Occurs(x, a) <=> x \in {File("run-state"), Event("install", "run_execute"),
                                          Event("run", "apply.performed")}
    BY ThreeItems, EventItems DEF RunEvents, Events
  <2>2. Steps(p) = (Mutations \o a) \o v
    BY <1>5 DEF Steps, Apply
  <2> HIDE DEF a
  <2>3. v \in Seq(Anything) /\ MergedFirst(v)
    BY <1>1, SavesMerged, MergedFirstOnly
  <2> HIDE DEF v
  <2>4. ~Occurs(File("graph"), a) /\ ~Occurs(File("graph"), Mutations)
    <3>1. File("run-state") # File("graph")
      BY DEF File
    <3>2. ~Occurs(File("graph"), Mutations)
      <4> SUFFICES ASSUME NEW k \in 1..Len(Mutations)
                   PROVE  Mutations[k] # File("graph")
        BY DEF Occurs
      <4>1. PICK i \in 1..Len(Targets) :
              Mutations[k] = File(Targets[i]) \/ Mutations[k] = Event("install", Targets[i])
        BY MutationsItems
      <4>2. Targets[i] \in T /\ "graph" \notin T
        BY SessionAssumption DEF T
      <4>3. File(Targets[i]) # File("graph")
        BY <4>2 DEF File
      <4> QED
        BY <1>3, <4>1, <4>3
    <3> QED
      BY <1>3, <2>1, <3>1, <3>2
  <2>5. MergedFirst(a) /\ MergedFirst(Mutations) /\ Mutations \in Seq(Anything)
    BY <2>4, MergedFirstNone, MutationsItems
  <2> DEFINE w == Mutations \o a
  <2>6. w \in Seq(Anything) /\ MergedFirst(w) /\ Steps(p) = w \o v
    BY <2>1, <2>2, <2>5, MergedFirstConcat, Joined
  <2> HIDE DEF w
  <2> QED
    BY <1>1, <2>3, <2>6, MergedFirstConcat
<1>6. CASE route[p] = "inspect"
  <2> DEFINE a == <<Event("install", "run_execute")>>
             b == <<Event("run", "end"), Event("run", "gate.result")>>
  <2>1. /\ a \in Seq(Anything) /\ b \in Seq(Anything)
        /\ ~Occurs(File("graph"), a) /\ ~Occurs(File("graph"), b)
    BY <1>3, OneItem, TwoItems, EventItems DEF RunEvents, Events
  <2>2. Steps(p) = a \o Only(Session(p), b \o Saves)
    BY <1>6 DEF Steps, Inspect
  <2> HIDE DEF a, b
  <2>3. MergedFirst(a) /\ MergedFirst(b)
    BY <2>1, MergedFirstNone
  <2>4. MergedFirst(b \o Saves) /\ b \o Saves \in Seq(Anything)
    BY <1>1, <2>1, <2>3, SavesMerged, MergedFirstConcat, Joined
  <2> DEFINE v == Only(Session(p), b \o Saves)
  <2>5. v \in Seq(Anything) /\ MergedFirst(v) /\ Steps(p) = a \o v
    BY <1>1, <2>2, <2>4, MergedFirstOnly
  <2> HIDE DEF v
  <2> QED
    BY <1>1, <2>1, <2>3, <2>5, MergedFirstConcat
<1> QED
  BY <1>2, <1>4, <1>5, <1>6

Once == \E p \in Proc : pc[p] = "ok" /\ Session(p) /\ route[p] = "apply"
AllApplied(g) == \A f \in T : g[f] = "applied"

\* The graph that a command is about to write, and the one it has written.
KeepsApplied(p) ==
  /\ /\ Running(p) /\ n[p] <= Len(Steps(p)) /\ Steps(p)[n[p]] = File("graph")
     /\ route[p] = "apply" \/ (Once /\ ~KilledAt("graph"))
     => AllApplied(merged[p])
  /\ /\ Running(p) /\ route[p] = "apply"
     /\ \E i \in 1..Len(Steps(p)) : i < n[p] /\ Steps(p)[i] = File("graph")
     => AllApplied(disk["graph"])
GraphInv ==
  ~raced => /\ Once /\ ~KilledAt("graph") => AllApplied(disk["graph"])
            /\ \A p \in Proc : KeepsApplied(p)

LEMMA MergeApplied ==
  /\ \A p : route[p] = "apply" => AllApplied(Nodes(p))
  /\ \A g, h : AllApplied(g) \/ AllApplied(h) => AllApplied(Merge(g, h))
BY DEF AllApplied, Nodes, Merge

LEMMA GraphStep ==
  ASSUME SessionInv, TornExplained, GraphInv, ~raced, NEW p \in Proc,
         \A q \in Proc \ {p} : ~Running(q),
         \/ Prepare(p) \/ Turn(p) \/ Record(p) \/ ReadGraph(p) \/ Truncate(p)
         \/ Write(p) \/ Exit(p) \/ Kill(p)
  PROVE  /\ Once' /\ ~KilledAt("graph")' => AllApplied(disk'["graph"])
         /\ \A q \in Proc : KeepsApplied(q)'
<1> USE DEF fileVars, auditVars, procVars, opVars
<1>1. /\ TypeOK /\ Ctl(p) /\ req' = req /\ KeepsApplied(p)
      /\ \A q \in Proc \ {p} : Same(q) /\ ~Running(q)' /\ Steps(q)' = Steps(q)
      /\ req \in [Proc -> Requests] /\ route[p] \in Routes /\ n[p] \in 1..Len(Steps(p)) + 1
      /\ Len(Steps(p)) \in Nat /\ n[p] \in Nat /\ MergedFirst(Steps(p))
  BY Alone, StepsType, StepsMerged DEF SessionInv, CommandInv, GraphInv, TypeOK, Routes
<1>2. \A q \in Proc \ {p} : KeepsApplied(q)'
  BY <1>1 DEF KeepsApplied
<1>3. ~KilledAt("graph")' => ~KilledAt("graph")
  BY KilledStays
<1>4. Once /\ ~KilledAt("graph") => AllApplied(disk["graph"])
  BY DEF GraphInv
<1>5. Once' => Once \/ (pc'[p] = "ok" /\ Session(p) /\ route'[p] = "apply")
  <2>1. \A q \in Proc \ {p} : pc'[q] = pc[q] /\ route'[q] = route[q]
    BY <1>1 DEF Same
  <2> QED
    BY <1>1, <2>1 DEF Once, Session
<1>6. CASE Prepare(p) \/ Turn(p)
  <2>1. /\ UNCHANGED disk /\ pc'[p] # "ok"
        /\ \/ UNCHANGED <<route, n>> /\ route[p] = "begin"
           \/ n'[p] = 1 /\ route' \in [Proc -> Routes]
    BY <1>1, <1>6, PrepareStep, TurnStep DEF Admitted
  <2>2. CASE UNCHANGED <<route, n>> /\ route[p] = "begin"
    <3>1. Steps(p)' = Steps(p) /\ ~Occurs(File("graph"), Steps(p))
      BY <1>1, <2>2, SameSteps, SavedItems
    <3>2. n[p] <= Len(Steps(p)) => Steps(p)[n[p]] # File("graph")
      BY <1>1, <3>1 DEF Occurs
    <3>3. KeepsApplied(p)'
      BY <2>2, <3>1, <3>2 DEF KeepsApplied, File
    <3> QED
      BY <1>2, <1>3, <1>4, <1>5, <2>1, <3>3
  <2>3. CASE n'[p] = 1 /\ route' \in [Proc -> Routes]
    <3>1. MergedFirst(Steps(p)') /\ Len(Steps(p)') \in Nat
      <4>1. (req \in [Proc -> Requests] /\ route[p] \in Routes
               => MergedFirst(Steps(p)) /\ Len(Steps(p)) \in Nat)'
        BY StepsMerged, PTL
      <4>2. MergedFirst(Steps(p))' <=> MergedFirst(Steps(p)')
        BY DEF MergedFirst, File
      <4> QED
        BY <1>1, <2>3, <4>1, <4>2
    <3>2. 1 <= Len(Steps(p)') => Steps(p)'[1] # File("graph")
      BY <3>1 DEF MergedFirst
    <3>3. \A i \in 1..Len(Steps(p)') : ~(i < 1)
      BY <3>1
    <3>4. KeepsApplied(p)'
      BY <2>3, <3>2, <3>3 DEF KeepsApplied, File
    <3> QED
      BY <1>2, <1>3, <1>4, <1>5, <2>1, <3>4
  <2> QED
    BY <2>1, <2>2, <2>3
<1>7. CASE Record(p) \/ ReadGraph(p) \/ Truncate(p)
  <2>1. /\ UNCHANGED <<disk, route>> /\ pc[p] = "go" /\ n[p] <= Len(Steps(p))
        /\ pc'[p] \in {"go", "error", "write"}
        /\ \/ n'[p] = n[p] /\ UNCHANGED merged
           \/ /\ n'[p] = n[p] + 1 /\ Steps(p)[n[p]] # File("graph")
              /\ Steps(p)[n[p]] = <<"merge", "graph">> => ReadGraph(p)
    <3>1. CASE Record(p)
      <4>1. Steps(p)[n[p]] # File("graph") /\ Steps(p)[n[p]] # <<"merge", "graph">>
        BY <3>1, RecordPlace
      <4> QED
        BY <1>1, <3>1, <4>1, RecordStep
    <3>2. CASE ReadGraph(p)
      <4>1. n[p] <= Len(Steps(p)) /\ Steps(p)[n[p]][1] = "merge"
        BY <3>2 DEF ReadGraph, At
      <4> QED
        BY <1>1, <3>2, <4>1, FileStep DEF File
    <3>3. CASE Truncate(p)
      <4>1. Steps(p)[n[p]][1] = "file"
        BY <3>3 DEF Truncate, At
      <4> QED
        BY <1>1, <3>3, <4>1, FileStep
    <3> QED
      BY <1>7, <3>1, <3>2, <3>3
  <2>2. Running(p) /\ Steps(p)' = Steps(p) /\ (Once' => Once)
    BY <1>1, <1>5, <2>1, SameSteps DEF Running, Stopped
  <2>3. ASSUME n'[p] = n[p] + 1, n'[p] <= Len(Steps(p)), Steps(p)[n'[p]] = File("graph"),
               route[p] = "apply" \/ (Once /\ ~KilledAt("graph"))
        PROVE  AllApplied(merged'[p])
    <3>1. Steps(p)[n[p]] = <<"merge", "graph">>
      <4>1. n[p] + 1 \in 1..Len(Steps(p)) /\ (n[p] + 1) - 1 = n[p]
        BY <1>1, <2>3
      <4> QED
        BY <1>1, <2>3, <4>1 DEF MergedFirst
    <3>2. ReadGraph(p)
      BY <1>1, <2>1, <2>3, <3>1
    <3>3. merged'[p] = IF "graph" \in torn THEN Nodes(p) ELSE Merge(disk["graph"], Nodes(p))
      BY <1>1, <3>2 DEF ReadGraph, TypeOK
    <3>4. CASE route[p] = "apply"
      BY <3>3, <3>4, MergeApplied
    <3>5. CASE Once /\ ~KilledAt("graph")
      <4>1. "graph" \notin torn
        BY <2>1, <3>5, TornAlone
      <4> QED
        BY <1>4, <3>3, <3>5, <4>1, MergeApplied
    <3> QED
      BY <2>3, <3>4, <3>5
  <2>4. ASSUME Running(p)', n'[p] <= Len(Steps(p)), Steps(p)[n'[p]] = File("graph"),
               route[p] = "apply" \/ (Once /\ ~KilledAt("graph"))
        PROVE  AllApplied(merged'[p])
    <3>1. CASE n'[p] = n[p] /\ UNCHANGED merged
      BY <1>1, <2>2, <2>4, <3>1 DEF KeepsApplied
    <3> QED
      BY <2>1, <2>3, <2>4, <3>1
  <2>5. ASSUME route[p] = "apply", NEW i \in 1..Len(Steps(p)), i < n'[p], Steps(p)[i] = File("graph")
        PROVE  AllApplied(disk["graph"])
    <3>1. i < n[p]
      BY <1>1, <2>1, <2>5
    <3> QED
      BY <1>1, <2>2, <2>5, <3>1 DEF KeepsApplied
  <2>6. KeepsApplied(p)'
    BY <1>3, <2>1, <2>2, <2>4, <2>5 DEF KeepsApplied, AllApplied, File
  <2> QED
    BY <1>2, <1>3, <1>4, <2>1, <2>2, <2>6
<1>8. CASE Write(p)
  <2>1. /\ route' = route /\ merged' = merged /\ pc[p] = "write" /\ n[p] <= Len(Steps(p))
        /\ pc'[p] = "go" /\ n'[p] = n[p] + 1
        /\ Steps(p)[n[p]] = File(Item(p)) /\ Item(p) \in Files
        /\ disk'[Item(p)] = Content(p, Item(p))
        /\ \A f \in Files \ {Item(p)} : disk'[f] = disk[f]
    BY <1>1, <1>8, WriteStep
  <2>2. Running(p) /\ Steps(p)' = Steps(p) /\ (Once' => Once)
    BY <1>1, <1>5, <2>1, SameSteps DEF Running, Stopped
  <2>3. ~(n'[p] <= Len(Steps(p)) /\ Steps(p)[n'[p]] = File("graph"))
    <3> SUFFICES ASSUME n'[p] <= Len(Steps(p)), Steps(p)[n'[p]] = File("graph")
                 PROVE  FALSE
      OBVIOUS
    <3>1. n[p] + 1 \in 1..Len(Steps(p)) /\ (n[p] + 1) - 1 = n[p]
      BY <1>1, <2>1
    <3>2. Steps(p)[n[p]] = <<"merge", "graph">>
      BY <1>1, <2>1, <3>1 DEF MergedFirst
    <3> QED
      BY <2>1, <3>2 DEF File
  <2>4. CASE Item(p) = "graph"
    <3>1. disk'["graph"] = merged[p]
      BY <2>1, <2>4 DEF Content
    <3>2. route[p] = "apply" \/ (Once /\ ~KilledAt("graph")) => AllApplied(disk'["graph"])
      BY <1>1, <2>1, <2>2, <2>4, <3>1 DEF KeepsApplied
    <3>3. KeepsApplied(p)'
      BY <2>1, <2>2, <2>3, <3>2 DEF KeepsApplied, AllApplied, File
    <3> QED
      BY <1>2, <1>3, <2>2, <3>2, <3>3
  <2>5. CASE Item(p) # "graph"
    <3>1. disk'["graph"] = disk["graph"]
      BY <2>1, <2>5 DEF Files
    <3>2. ASSUME route[p] = "apply", NEW i \in 1..Len(Steps(p)), i < n'[p],
                 Steps(p)[i] = File("graph")
          PROVE  AllApplied(disk["graph"])
      <4>1. i # n[p]
        BY <2>1, <2>5, <3>2 DEF File
      <4>2. i < n[p]
        BY <1>1, <2>1, <3>2, <4>1
      <4> QED
        BY <1>1, <2>2, <3>2, <4>2 DEF KeepsApplied
    <3>3. KeepsApplied(p)'
      BY <2>1, <2>2, <2>3, <3>1, <3>2 DEF KeepsApplied, AllApplied, File
    <3> QED
      BY <1>2, <1>3, <1>4, <2>2, <3>1, <3>3
  <2> QED
    BY <2>4, <2>5
<1>9. CASE Exit(p) \/ Kill(p)
  <2>1. /\ UNCHANGED <<disk, route, n>>
        /\ \/ pc'[p] = "killed"
           \/ /\ pc'[p] \in {"ok", "needs_approval"} /\ n[p] > Len(Steps(p)) /\ pc[p] = "go"
    BY <1>1, <1>9, EndStep
  <2>2. KeepsApplied(p)'
    BY <2>1 DEF KeepsApplied, Running, Stopped
  <2>3. ASSUME pc'[p] = "ok", Session(p), route[p] = "apply"
        PROVE  AllApplied(disk["graph"])
    <3>1. n[p] > Len(Steps(p)) /\ Running(p)
      BY <2>1, <2>3 DEF Running, Stopped
    <3>2. PICK i \in 1..Len(Steps(p)) : Steps(p)[i] = File("graph")
      BY <1>1, <2>3, SavedItems DEF Occurs
    <3>3. i < n[p]
      BY <1>1, <3>1
    <3> QED
      BY <1>1, <2>3, <3>1, <3>2, <3>3 DEF KeepsApplied
  <2> QED
    BY <1>2, <1>3, <1>4, <1>5, <2>1, <2>2, <2>3
<1> QED
  BY <1>6, <1>7, <1>8, <1>9

LEMMA GraphNext == SessionInv /\ TornExplained /\ GraphInv /\ [Next]_vars => GraphInv'
<1> SUFFICES ASSUME SessionInv, TornExplained, GraphInv, [Next]_vars, ~raced'
             PROVE  /\ Once' /\ ~KilledAt("graph")' => AllApplied(disk'["graph"])
                    /\ \A p \in Proc : KeepsApplied(p)'
  BY DEF GraphInv, AllApplied
<1>1. CASE Edit \/ UNCHANGED vars
  <2>1. /\ UNCHANGED <<disk, pc, route, n, req, merged>> /\ ~raced
        /\ \A q \in Proc : Steps(q)' = Steps(q)
    BY <1>1, Idle, AloneCases
  <2>2. (Once' <=> Once) /\ (KilledAt("graph")' <=> KilledAt("graph"))
    BY <2>1 DEF Once, KilledAt, Session, File
  <2>3. \A p \in Proc : KeepsApplied(p)'
    BY <2>1, <2>2 DEF GraphInv, KeepsApplied, Running, AllApplied, File
  <2> QED
    BY <2>1, <2>2, <2>3 DEF GraphInv
<1> QED
  BY <1>1, AloneCases, GraphStep

\* saveSessionRuntimeArtifacts merges what it plans into the graph it finds:
\* a target whose application was reported is never demoted to planned.
THEOREM LifecycleIsKept == Spec => []LifecycleKept
<1>1. Init => GraphInv
  BY DEF Init, GraphInv, Once, KeepsApplied, Running
<1>2. Spec => []GraphInv
  BY <1>1, GraphNext, InvAlways, TornAlways, PTL DEF Spec
<1>3. GraphInv => LifecycleKept
  BY DEF GraphInv, LifecycleKept, Once, AllApplied
<1> QED
  BY <1>2, <1>3, PTL

-----------------------------------------------------------------------------
(* The handoff *)

\* No command stopped short after it came to its handoff, and none is there.
Settled ==
  \A q \in Proc : pc[q] \in {"killed", "error"} \/ Running(q) => ~CameTo(q, "handoff")

\* A command past its handoff has left its interface there; only a session
\* takes the fast path.
HandsOver(p) ==
  /\ Running(p) /\ (\E i \in 1..Len(Steps(p)) : i < n[p] /\ Steps(p)[i] = File("handoff"))
     => disk["handoff"] = iface[p]
  /\ route[p] = "fast" \/ pc[p] \in {"key", "match"} => Session(p)
HandoffInv ==
  ~raced => /\ last # "none" /\ Settled => disk["handoff"] = last
            /\ \A p \in Proc : HandsOver(p)

LEMMA NoHandoff ==
  ASSUME req \in [Proc -> Requests], NEW p \in Proc, route[p] \in Routes,
         ~Occurs(File("handoff"), Steps(p))
  PROVE  /\ ~CameTo(p, "handoff")
         /\ \A i \in 1..Len(Steps(p)) : Steps(p)[i] # File("handoff")
BY DEF Occurs, CameTo

LEMMA HandoffStep ==
  ASSUME SessionInv, HandoffInv, ~raced, NEW p \in Proc,
         \A q \in Proc \ {p} : ~Running(q),
         \/ Prepare(p) \/ Turn(p) \/ Record(p) \/ ReadGraph(p) \/ Truncate(p)
         \/ Write(p) \/ Exit(p) \/ Kill(p)
  PROVE  /\ last' # "none" /\ Settled' => disk'["handoff"] = last'
         /\ \A q \in Proc : HandsOver(q)'
<1> USE DEF fileVars, auditVars, procVars, opVars
<1>1. /\ TypeOK /\ Ctl(p) /\ req' = req /\ HandsOver(p) /\ (Session(p)' <=> Session(p))
      /\ \A q \in Proc \ {p} : Same(q) /\ ~Running(q)' /\ Steps(q)' = Steps(q)
      /\ req \in [Proc -> Requests] /\ route[p] \in Routes /\ n[p] \in 1..Len(Steps(p)) + 1
      /\ Len(Steps(p)) \in Nat /\ n[p] \in Nat /\ pc[p] \notin Stopped
  BY Alone, StepsType, ActorLive
     DEF SessionInv, CommandInv, HandoffInv, TypeOK, Routes, Session
<1>2. \A q \in Proc \ {p} : HandsOver(q)'
  <2> TAKE q \in Proc \ {p}
  <2>1. HandsOver(q) /\ req'[q] = req[q] /\ route'[q] = route[q] /\ pc'[q] = pc[q] /\ ~Running(q)'
    BY <1>1 DEF HandoffInv, Same
  <2> QED
    BY <2>1 DEF HandsOver, Session
<1>3. last # "none" /\ Settled => disk["handoff"] = last
  BY DEF HandoffInv
<1>4. ASSUME ~CameTo(p, "handoff"), Settled'
      PROVE  Settled
  <2> SUFFICES ASSUME NEW q \in Proc, q # p, pc[q] \in {"killed", "error"}
               PROVE  ~CameTo(q, "handoff")
    BY <1>1, <1>4 DEF Settled, Stopped
  <2>1. pc'[q] = pc[q] /\ n'[q] = n[q] /\ Steps(q)' = Steps(q)
    BY <1>1 DEF Same
  <2>2. ~CameTo(q, "handoff")'
    BY <1>4, <2>1 DEF Settled
  <2> QED
    BY <2>1, <2>2 DEF CameTo, File
<1>5. ASSUME ~CameTo(p, "handoff"), last' = last, disk'["handoff"] = disk["handoff"]
      PROVE  last' # "none" /\ Settled' => disk'["handoff"] = last'
  BY <1>3, <1>4, <1>5
<1>6. CASE Prepare(p)
  <2>1. /\ UNCHANGED <<disk, last, route, n>> /\ route[p] = "begin"
        /\ pc'[p] = "key" => Session(p)
        /\ pc'[p] = "match" => pc[p] = "key"
    BY <1>1, <1>6, PrepareStep
  <2>2. /\ Steps(p)' = Steps(p) /\ ~CameTo(p, "handoff")
        /\ \A i \in 1..Len(Steps(p)) : Steps(p)[i] # File("handoff")
    BY <1>1, <2>1, SameSteps, SavedItems, NoHandoff
  <2>3. HandsOver(p)'
    BY <1>1, <2>1, <2>2 DEF HandsOver, File
  <2> QED
    BY <1>2, <1>5, <2>1, <2>2, <2>3
<1>7. CASE Turn(p)
  <2>1. /\ UNCHANGED <<disk, last>> /\ route[p] \in {"begin", "look"}
        /\ \/ UNCHANGED <<route, n>> /\ pc'[p] \in {"error", "look"} /\ route[p] = "begin"
           \/ /\ n'[p] = 1 /\ pc'[p] = "go"
              /\ route'[p] = "fast" => pc[p] = "match"
    BY <1>1, <1>7, TurnStep DEF Done
  <2>2. /\ ~CameTo(p, "handoff")
        /\ \A i \in 1..Len(Steps(p)) : Steps(p)[i] # File("handoff")
    BY <1>1, <2>1, SavedItems, NoHandoff
  <2>3. HandsOver(p)'
    <3>1. CASE UNCHANGED <<route, n>> /\ pc'[p] \in {"error", "look"} /\ route[p] = "begin"
      <4>1. Steps(p)' = Steps(p)
        BY <1>1, <3>1, SameSteps
      <4> QED
        BY <2>2, <3>1, <4>1 DEF HandsOver, File
    <3>2. CASE n'[p] = 1 /\ pc'[p] = "go" /\ (route'[p] = "fast" => pc[p] = "match")
      <4>1. \A i \in 1..Len(Steps(p)') : ~(i < 1)
        OBVIOUS
      <4>2. route'[p] = "fast" => Session(p)
        BY <1>1, <3>2 DEF HandsOver
      <4> QED
        BY <1>1, <3>2, <4>1, <4>2 DEF HandsOver, File
    <3> QED
      BY <2>1, <3>1, <3>2
  <2> QED
    BY <1>2, <1>5, <2>1, <2>2, <2>3
<1>8. CASE Record(p) \/ ReadGraph(p) \/ Truncate(p) \/ Write(p)
  <2>1. /\ UNCHANGED <<last, route, iface>> /\ pc'[p] \in {"go", "error", "write"}
        /\ pc[p] \in {"go", "write"} /\ n[p] <= Len(Steps(p))
        /\ n'[p] \in {n[p], n[p] + 1}
        /\ \/ disk' = disk /\ (n'[p] = n[p] \/ Steps(p)[n[p]] # File("handoff"))
           \/ /\ Write(p) /\ n'[p] = n[p] + 1
              /\ Steps(p)[n[p]] = File(Item(p)) /\ Item(p) \in Files
              /\ disk'[Item(p)] = Content(p, Item(p)) /\ pc'[p] = "go"
              /\ \A f \in Files \ {Item(p)} : disk'[f] = disk[f]
    <3>1. CASE Record(p)
      <4>1. Steps(p)[n[p]] # File("handoff")
        BY <3>1, RecordPlace
      <4> QED
        BY <1>1, <3>1, <4>1, RecordStep
    <3>2. CASE ReadGraph(p) \/ Truncate(p)
      BY <1>1, <3>2, FileStep DEF File
    <3>3. CASE Write(p)
      BY <1>1, <3>3, WriteStep
    <3> QED
      BY <1>8, <3>1, <3>2, <3>3
  <2>2. Running(p) /\ Steps(p)' = Steps(p)
    BY <1>1, <2>1, SameSteps DEF Running, Stopped
  <2>3. Settled' => ~CameTo(p, "handoff")' /\ ~CameTo(p, "handoff")
    <3>1. Settled' => ~CameTo(p, "handoff")'
      BY <2>1 DEF Settled, Running, Stopped
    <3>2. CameTo(p, "handoff") => CameTo(p, "handoff")'
      <4>1. \A i \in 1..Len(Steps(p)) : i <= n[p] => i <= n'[p]
        BY <1>1, <2>1
      <4> QED
        BY <2>2, <4>1 DEF CameTo, File
    <3> QED
      BY <3>1, <3>2
  <2>4. Settled' => disk'["handoff"] = disk["handoff"]
    <3>1. CASE Write(p) /\ Item(p) = "handoff"
      <4>1. n[p] \in 1..Len(Steps(p)) /\ Steps(p)[n[p]] = File("handoff") /\ n[p] <= n[p]
        BY <1>1, <2>1, <3>1, WriteStep
      <4>2. CameTo(p, "handoff")
        BY <4>1 DEF CameTo
      <4> QED
        BY <2>3, <4>2
    <3>2. CASE ~(Write(p) /\ Item(p) = "handoff")
      BY <2>1, <3>2 DEF Files
    <3> QED
      BY <3>1, <3>2
  <2>5. ASSUME NEW i \in 1..Len(Steps(p)), i < n'[p], Steps(p)[i] = File("handoff")
        PROVE  disk'["handoff"] = iface[p]
    <3>1. CASE Write(p) /\ Item(p) = "handoff"
      <4>1. disk'["handoff"] = Content(p, "handoff")
        BY <1>1, <3>1, WriteStep
      <4> QED
        BY <4>1 DEF Content
    <3>2. CASE ~(Write(p) /\ Item(p) = "handoff")
      <4>1. i # n[p] \/ n'[p] = n[p]
        BY <2>1, <2>5, <3>2 DEF File
      <4>2. i < n[p]
        BY <1>1, <2>1, <2>5, <4>1
      <4>3. disk'["handoff"] = disk["handoff"]
        BY <2>1, <3>2 DEF Files
      <4> QED
        BY <1>1, <2>2, <2>5, <4>2, <4>3 DEF HandsOver
    <3> QED
      BY <3>1, <3>2
  <2>6. HandsOver(p)'
    <3>1. route'[p] = "fast" \/ pc'[p] \in {"key", "match"} => Session(p)
      BY <1>1, <2>1 DEF HandsOver
    <3> QED
      BY <1>1, <2>1, <2>2, <2>5, <3>1 DEF HandsOver, File
  <2> QED
    BY <1>2, <1>5, <2>1, <2>3, <2>4, <2>6
<1>9. CASE Kill(p)
  <2>1. /\ UNCHANGED <<disk, route, n, last>> /\ pc'[p] = "killed"
    BY <1>1, <1>9, PcOf DEF Kill, PC
  <2>2. Steps(p)' = Steps(p)
    BY <1>1, <2>1, SameSteps
  <2>3. Settled' => ~CameTo(p, "handoff")
    BY <2>1, <2>2 DEF Settled, CameTo, File
  <2>4. HandsOver(p)'
    BY <1>1, <2>1 DEF HandsOver, Running, Stopped
  <2> QED
    BY <1>2, <1>5, <2>1, <2>3, <2>4
<1>10. CASE Exit(p)
  <2>1. /\ UNCHANGED <<disk, route, n, iface>> /\ pc'[p] \in {"ok", "needs_approval"}
        /\ route[p] \in Final /\ n[p] > Len(Steps(p)) /\ pc[p] = "go"
        /\ last' = IF Session(p) /\ route[p] # "refused" THEN iface[p] ELSE last
    <3>1. /\ UNCHANGED <<disk, route, n, iface>>
          /\ route[p] \in Final /\ n[p] > Len(Steps(p)) /\ pc[p] = "go"
          /\ last' = IF Session(p) /\ route[p] # "refused" THEN iface[p] ELSE last
      BY <1>10 DEF Exit, Done, fileVars, procVars
    <3>2. Goto(p, IF route[p] = "refused" THEN "needs_approval" ELSE "ok")
      BY <1>10 DEF Exit
    <3>3. pc'[p] = IF route[p] = "refused" THEN "needs_approval" ELSE "ok"
      BY <1>1, <3>2, PcOf DEF PC
    <3> QED
      BY <3>1, <3>3
  <2>2. HandsOver(p)'
    BY <1>1, <2>1 DEF HandsOver, Running, Stopped
  <2>3. CASE Session(p) /\ route[p] # "refused"
    <3>1. Occurs(File("handoff"), Steps(p))
      BY <1>1, <2>1, <2>3, SavedItems DEF Final
    <3>2. PICK i \in 1..Len(Steps(p)) : Steps(p)[i] = File("handoff")
      BY <3>1 DEF Occurs
    <3>3. i < n[p] /\ Running(p)
      BY <1>1, <2>1 DEF Running, Stopped
    <3>4. disk["handoff"] = iface[p]
      BY <1>1, <3>2, <3>3 DEF HandsOver
    <3> QED
      BY <1>2, <2>1, <2>2, <2>3, <3>4
  <2>4. CASE ~(Session(p) /\ route[p] # "refused")
    <3>1. ~Occurs(File("handoff"), Steps(p))
      BY <1>1, <2>4, SavedItems DEF HandsOver
    <3>2. ~CameTo(p, "handoff")
      BY <1>1, <3>1, NoHandoff
    <3> QED
      BY <1>2, <1>5, <2>1, <2>2, <2>4, <3>2
  <2> QED
    BY <2>3, <2>4
<1> QED
  BY <1>6, <1>7, <1>8, <1>9, <1>10

LEMMA HandoffNext == SessionInv /\ HandoffInv /\ [Next]_vars => HandoffInv'
<1> SUFFICES ASSUME SessionInv, HandoffInv, [Next]_vars, ~raced'
             PROVE  /\ last' # "none" /\ Settled' => disk'["handoff"] = last'
                    /\ \A p \in Proc : HandsOver(p)'
  BY DEF HandoffInv
<1>1. CASE Edit \/ UNCHANGED vars
  <2>1. /\ UNCHANGED <<disk, pc, route, n, req, iface, last>> /\ ~raced
        /\ \A q \in Proc : Steps(q)' = Steps(q)
    BY <1>1, Idle, AloneCases
  <2>2. Settled' <=> Settled
    BY <2>1 DEF Settled, CameTo, Running, File
  <2>3. \A p \in Proc : HandsOver(p)'
    BY <2>1 DEF HandoffInv, HandsOver, Running, Session, File
  <2> QED
    BY <2>1, <2>2, <2>3 DEF HandoffInv
<1> QED
  BY <1>1, AloneCases, HandoffStep

\* resumeCommand prefers the handoff, and the handoff is the last file
\* that a session saves: it names the interface of the last that finished.
THEOREM ResumeFollowsLast == Spec => ResumesLast
<1> DEFINE A == \A p \in Proc :
                  /\ pc[p] = "handoff" /\ pc'[p] = "enter" /\ ~raced'
                  /\ req[p].interface = "unset" /\ last # "none"
                  /\ \A q \in Proc : pc[q] \in {"killed", "error"} => ~CameTo(q, "handoff")
                  => iface'[p] = last
<1>1. SessionInv /\ TornExplained /\ HandoffInv /\ [Next]_vars => A
  <2> SUFFICES ASSUME SessionInv, TornExplained, HandoffInv, [Next]_vars, NEW p \in Proc,
                      pc[p] = "handoff", pc'[p] = "enter", ~raced',
                      req[p].interface = "unset", last # "none",
                      \A q \in Proc : pc[q] \in {"killed", "error"} => ~CameTo(q, "handoff")
               PROVE  iface'[p] = last
    OBVIOUS
  <2>1. ~raced /\ TypeOK /\ Ctl(p) /\ req \in [Proc -> Requests] /\ route[p] \in Routes
    BY AloneCases DEF SessionInv, CommandInv, TypeOK, Routes
  <2>2. ResumeHandoff(p) /\ \A q \in Proc \ {p} : ~Running(q)
    <3>1. pc' # pc /\ ~Edit /\ ~UNCHANGED vars
      BY DEF Edit, vars
    <3>2. PICK r \in Proc :
            /\ \/ Prepare(r) \/ Turn(r) \/ Record(r) \/ ReadGraph(r) \/ Truncate(r)
               \/ Write(r) \/ Exit(r) \/ Kill(r)
            /\ \A q \in Proc \ {r} : ~Running(q)
      BY <3>1, AloneCases
    <3>3. r = p
      BY <3>2, Others DEF Same
    <3>4. ~Turn(p) /\ ~Record(p) /\ ~ReadGraph(p) /\ ~Truncate(p) /\ ~Write(p) /\ ~Exit(p)
      BY DEF Turn, Match, Detect, Decide, Done, Record, ReadGraph, Truncate, At, Write, Exit
    <3>5. ~Kill(p)
      BY <2>1, PcOf DEF Kill, PC
    <3>6. Prepare(p) => ResumeHandoff(p)
      BY DEF Prepare, ResumeAuto, Enter, Begun, Done, PreflightInstall, PreflightRun,
             Preflight, ComputeKey
    <3> QED
      BY <3>2, <3>3, <3>4, <3>5, <3>6
  <2>3. ~CameTo(p, "handoff")
    <3>1. route[p] = "begin"
      BY <2>1 DEF Ctl, Early
    <3> QED
      BY <2>1, <3>1, SavedItems, NoHandoff
  <2>4. disk["handoff"] = last
    BY <2>1, <2>2, <2>3 DEF HandoffInv, Settled
  <2>5. "handoff" \notin torn
    <3> SUFFICES ASSUME "handoff" \in torn
                 PROVE  FALSE
      OBVIOUS
    <3>1. KilledAt("handoff")
      BY <2>2, TornAlone
    <3>2. PICK q \in Proc : pc[q] = "killed" /\ n[q] <= Len(Steps(q)) /\ Steps(q)[n[q]] = File("handoff")
      BY <3>1 DEF KilledAt
    <3>3. n[q] \in 1..Len(Steps(q)) /\ n[q] <= n[q]
      BY <2>1, <3>2, StepsType
    <3> QED
      BY <3>2, <3>3 DEF CameTo
  <2>6. iface' = [iface EXCEPT ![p] = disk["handoff"]]
    BY <2>2, <2>4, <2>5 DEF ResumeHandoff, Readable, Adopt
  <2> QED
    BY <2>1, <2>4, <2>6 DEF TypeOK
<1>2. Init => HandoffInv
  BY DEF Init, HandoffInv, HandsOver, Running
<1>3. Spec => []HandoffInv
  BY <1>2, HandoffNext, InvAlways, PTL DEF Spec
<1> HIDE DEF A
<1>4. Spec => [][A]_vars
  BY <1>1, <1>3, InvAlways, TornAlways, PTL DEF Spec
<1> QED
  BY <1>4 DEF ResumesLast, A

=============================================================================
