---------------------------- MODULE CallerProofs ----------------------------
(***************************************************************************)
(* Proofs about the two who call atrakta, do what it asks for and call     *)
(* again: the adapter of AdapterLoop, for every limit, and the operator of *)
(* Recovery, for every project and any number of kills and edits.          *)
(*                                                                         *)
(* That run is invoked three times at most needs the link between the      *)
(* number of attempts and the flags gathered so far: it is Counted.        *)
(*                                                                         *)
(* That a start goes through after a clean bill needs no more of the store *)
(* than the types of its files (DiskInvariant).  That a command keeps a    *)
(* store healthy is an argument about its steps, whatever their number: on *)
(* the files that doctor compares each of them is Quiet, quiet steps can   *)
(* all be taken, and what they leave is told file by file (AfterField).    *)
(***************************************************************************)
EXTENDS AdapterLoop, Recovery, SequenceTheorems, WellFoundedInduction, TLAPS

\* The retries so far, as the flags tell them.
Added(flag) == IF flag \in args \ base THEN 1 ELSE 0

\* Before an invocation there were as many attempts as flags were added, and
\* while its answer is dealt with there was one more.
Retries == Added("--interface") + Added("--approve")
Counted ==
  /\ phase = "invoke" => Len(attempts) = Retries
  /\ Len(attempts) <= Retries + 1
  /\ phase \in {"input", "approval"} => Len(attempts) = Retries + 1

Attempt == [args : SUBSET Flags, code : {"0", "1", "2", "3", "none"}]

\* The types the arguments below rest on.
Types ==
  /\ config \in Config
  /\ args \subseteq Flags
  /\ base \subseteq args
  /\ attempts \in Seq(Attempt)
  /\ phase \in {"invoke", "input", "approval", "done", "failed"}

LEMMA TypesInvariant == LoopSpec => []Types
<1>1. LoopInit => Types
  BY DEF LoopInit, Types
<1>2. Types /\ [LoopNext]_loopVars => Types'
  <2> SUFFICES ASSUME Types, [LoopNext]_loopVars PROVE Types'
    OBVIOUS
  <2>1. CASE Invoke
    <3>1. PICK code \in {"0", "1", "2", "3", "none"} :
             attempts' = attempts \o <<[args |-> args, code |-> code]>>
      BY <2>1 DEF Invoke
    <3>2. [args |-> args, code |-> code] \in Attempt
      BY DEF Types, Attempt
    <3>3. attempts' \in Seq(Attempt)
      BY <3>1, <3>2 DEF Types
    <3> QED
      BY <2>1, <3>3 DEF Invoke, Types, fixed
  <2>2. CASE RetryLimit
    BY <2>2 DEF RetryLimit, Types, fixed
  <2>3. CASE CollectInput
    BY <2>3 DEF CollectInput, Retry, Types, Flags, fixed
  <2>4. CASE NoInput
    BY <2>4 DEF NoInput, Fail, Types, fixed
  <2>5. CASE CollectApproval
    BY <2>5 DEF CollectApproval, Retry, Types, Flags, fixed
  <2>6. CASE NoApproval
    BY <2>6 DEF NoApproval, Fail, Types, fixed
  <2>7. CASE UNCHANGED loopVars
    BY <2>7 DEF loopVars, Types
  <2> QED
    BY <2>1, <2>2, <2>3, <2>4, <2>5, <2>6, <2>7 DEF LoopNext
<1> QED
  BY <1>1, <1>2, PTL DEF LoopSpec

LEMMA CountedInvariant == LoopSpec => []Counted
<1>1. LoopInit => Counted
  BY DEF LoopInit, Counted, Retries, Added
<1>2. Types /\ Counted /\ [LoopNext]_loopVars => Counted'
  <2> SUFFICES ASSUME Types, Counted, [LoopNext]_loopVars PROVE Counted'
    OBVIOUS
  <2>1. CASE Invoke
    <3>1. PICK code \in {"0", "1", "2", "3", "none"} :
             attempts' = attempts \o <<[args |-> args, code |-> code]>>
      BY <2>1 DEF Invoke
    <3>2. Len(attempts') = Len(attempts) + 1
      BY <3>1 DEF Types
    <3>3. phase = "invoke" /\ phase' # "invoke"
      BY <2>1 DEF Invoke
    <3>4. args' = args /\ base' = base
      BY <2>1 DEF Invoke, fixed
    <3>5. Retries' = Retries /\ Retries \in Nat /\ Len(attempts) \in Nat
      BY <3>4 DEF Retries, Added, Types
    <3> QED
      BY <3>2, <3>3, <3>5 DEF Counted
  <2>2. CASE RetryLimit \/ NoInput \/ NoApproval
    <3>1. /\ args' = args /\ base' = base /\ attempts' = attempts
          /\ phase' = "failed"
      BY <2>2 DEF RetryLimit, NoInput, NoApproval, Fail, fixed
    <3>2. Retries' = Retries /\ Retries \in Nat /\ Len(attempts) \in Nat
      BY <3>1 DEF Retries, Added, Types
    <3> QED
      BY <3>1, <3>2 DEF Counted
  <2>3. CASE CollectInput
    BY <2>3 DEF CollectInput, Retry, Types, Counted, Retries, Added, fixed
  <2>4. CASE CollectApproval
    BY <2>4 DEF CollectApproval, Retry, Types, Counted, Retries, Added, fixed
  <2>5. CASE UNCHANGED loopVars
    BY <2>5 DEF loopVars, Counted, Retries, Added
  <2> QED
    BY <2>1, <2>2, <2>3, <2>4, <2>5 DEF LoopNext
<1> QED
  BY <1>1, <1>2, TypesInvariant, PTL DEF LoopSpec

\* Whatever run answers and however high the limit: at most three invocations,
\* and the default limit of ExecuteRunLoop is never what ends the loop.
THEOREM ThreeAttemptsAtMost == LoopSpec => []RetriesAddFlags
<1>1. Types /\ Counted => RetriesAddFlags
  <2> SUFFICES ASSUME Types, Counted PROVE RetriesAddFlags
    OBVIOUS
  <2>1. Retries \in 0..2
    BY DEF Retries, Added
  <2>2. Len(attempts) \in Nat
    BY DEF Types
  <2>3. RoomForRetries => Max \in Nat /\ Max >= 3
    <3>1. config.maxAttempts \in Nat
      BY LimitsAssumption DEF Types, Config
    <3> QED
      BY <3>1 DEF RoomForRetries, Max
  <2> QED
    BY <2>1, <2>2, <2>3 DEF Counted, RetriesAddFlags
<1> QED
  BY <1>1, TypesInvariant, CountedInvariant, PTL

\* Consent to --approve, as ApproveOnlyOnConsent has it: the attempt that asked
\* stays in the trace, because attempts are only ever added to.
Asked == \E i \in 1..Len(attempts) :
           attempts[i].code = "3" /\ "--approve" \notin attempts[i].args

\* The last attempt carries the flags the loop still has, and the code that the
\* phase goes back to.
LastAttempt ==
  phase \in {"input", "approval"} =>
    /\ Len(attempts) > 0
    /\ attempts[Len(attempts)].args = args
    /\ phase = "approval" => attempts[Len(attempts)].code = "3"

LEMMA LastAttemptInvariant == LoopSpec => []LastAttempt
<1>1. LoopInit => LastAttempt
  BY DEF LoopInit, LastAttempt
<1>2. Types /\ LastAttempt /\ [LoopNext]_loopVars => LastAttempt'
  <2> SUFFICES ASSUME Types, LastAttempt, [LoopNext]_loopVars PROVE LastAttempt'
    OBVIOUS
  <2>1. CASE Invoke
    <3>1. PICK code \in {"0", "1", "2", "3", "none"} :
             /\ attempts' = attempts \o <<[args |-> args, code |-> code]>>
             /\ phase' = "approval" => code = "3"
      BY <2>1 DEF Invoke
    <3>2. Len(attempts') = Len(attempts) + 1 /\ Len(attempts) \in Nat
      BY <3>1 DEF Types
    <3>3. attempts'[Len(attempts')] = [args |-> args, code |-> code]
      BY <3>1, <3>2 DEF Types
    <3>4. args' = args
      BY <2>1 DEF Invoke
    <3> QED
      BY <3>1, <3>2, <3>3, <3>4 DEF LastAttempt
  <2>2. CASE CollectInput \/ CollectApproval
    BY <2>2 DEF CollectInput, CollectApproval, Retry, LastAttempt
  <2>3. CASE RetryLimit \/ NoInput \/ NoApproval
    BY <2>3 DEF RetryLimit, NoInput, NoApproval, Fail, LastAttempt
  <2>4. CASE UNCHANGED loopVars
    BY <2>4 DEF loopVars, LastAttempt
  <2> QED
    BY <2>1, <2>2, <2>3, <2>4 DEF LoopNext
<1> QED
  BY <1>1, <1>2, TypesInvariant, PTL DEF LoopSpec

\* --approve travels only with consent, in a loop that may ask, and after run
\* asked for it.
THEOREM ConsentOnly == LoopSpec => []ApproveOnlyOnConsent
<1>1. LoopInit => ApproveOnlyOnConsent
  BY DEF LoopInit, ApproveOnlyOnConsent
<1>2. Types /\ LastAttempt /\ ApproveOnlyOnConsent /\ [LoopNext]_loopVars
        => ApproveOnlyOnConsent'
  <2> SUFFICES ASSUME Types, LastAttempt, ApproveOnlyOnConsent, [LoopNext]_loopVars
               PROVE  ApproveOnlyOnConsent'
    OBVIOUS
  <2> USE DEF Asked
  <2>1. CASE Invoke
    <3>1. PICK code \in {"0", "1", "2", "3", "none"} :
             attempts' = attempts \o <<[args |-> args, code |-> code]>>
      BY <2>1 DEF Invoke
    <3>2. UNCHANGED <<config, base, args, granted>>
      BY <2>1 DEF Invoke, fixed
    <3>3. /\ Len(attempts') = Len(attempts) + 1 /\ Len(attempts) \in Nat
          /\ \A i \in 1..Len(attempts) : attempts'[i] = attempts[i]
      BY <3>1 DEF Types
    <3>4. Asked => Asked'
      BY <3>3
    <3> QED
      BY <3>2, <3>4 DEF ApproveOnlyOnConsent
  <2>2. CASE RetryLimit \/ NoInput \/ NoApproval
    BY <2>2 DEF RetryLimit, NoInput, NoApproval, Fail, ApproveOnlyOnConsent, fixed
  <2>3. CASE CollectInput
    BY <2>3 DEF CollectInput, Retry, ApproveOnlyOnConsent, fixed
  <2>4. CASE CollectApproval
    <3>1. /\ phase = "approval" /\ "--approve" \notin args
          /\ config.interactive /\ config.approvals
          /\ args' = args \cup {"--approve"} /\ granted'
          /\ UNCHANGED <<config, base, attempts>>
      BY <2>4 DEF CollectApproval, Retry, fixed
    <3>2. /\ Len(attempts) \in 1..Len(attempts)
          /\ attempts[Len(attempts)].args = args
          /\ attempts[Len(attempts)].code = "3"
      BY <3>1 DEF LastAttempt, Types
    <3>3. Asked'
      BY <3>1, <3>2
    <3> QED
      BY <3>1, <3>3 DEF ApproveOnlyOnConsent
  <2>5. CASE UNCHANGED loopVars
    BY <2>5 DEF loopVars, ApproveOnlyOnConsent
  <2> QED
    BY <2>1, <2>2, <2>3, <2>4, <2>5 DEF LoopNext
<1> QED
  BY <1>1, <1>2, TypesInvariant, LastAttemptInvariant, PTL DEF LoopSpec

-----------------------------------------------------------------------------
(* Induction *)

\* A set of naturals that is not empty has a least element,
LEMMA LeastNat ==
  ASSUME NEW T \in SUBSET Nat, T # {}
  PROVE  \E n \in T : \A m \in T : n <= m
<1> DEFINE R == {ss \in Nat \X Nat : ss[1] < ss[2]}
<1>1. IsWellFoundedOn(R, Nat)
  BY NatLessThanWellFounded DEF OpToRel
<1>2. \E x \in T : \A y \in T : <<y, x>> \notin R
  <2> HIDE DEF R
  <2> QED
    BY <1>1, WFMin
<1>3. PICK x \in T : \A y \in T : <<y, x>> \notin R
  BY <1>2
<1>4. ASSUME NEW y \in T PROVE x <= y
  <2>1. <<y, x>> \in Nat \X Nat /\ <<y, x>>[1] = y /\ <<y, x>>[2] = x
    OBVIOUS
  <2>2. ~(y < x)
    BY <1>3, <2>1
  <2> QED
    BY <2>2
<1> QED
  BY <1>4

\* and what holds of 0 and is passed on by every natural holds of all.
LEMMA SetInduction ==
  ASSUME NEW T \in SUBSET Nat, 0 \in T, \A n \in T : n + 1 \in T
  PROVE  \A n \in Nat : n \in T
<1> SUFFICES ASSUME NEW k \in Nat, k \notin T PROVE FALSE
  OBVIOUS
<1>1. PICK n \in Nat \ T : \A m \in Nat \ T : n <= m
  BY LeastNat
<1>2. n # 0 /\ n - 1 \in Nat
  BY <1>1
<1>3. n - 1 \in T
  BY <1>1, <1>2
<1>4. (n - 1) + 1 = n
  BY <1>2
<1> QED
  BY <1>1, <1>3, <1>4


-----------------------------------------------------------------------------
(* The types *)

Fields == {"index", "marker", "contract", "dirs", "install", "run", "snapshot", "auto",
           "handoff", "state", "progress", "graph", "doc", "work"}

Lines == {"none", "ok", "torn"}
Streams == {"none", "ok", "broken"}
Contracts == {"none", "ok", "short", "torn"}
Canons == {"none", "canonical_present", "onboarding_complete", "partial_state",
           "corrupt_state"}
Known == {"cli", "ide"}
Names == {"none", "torn"} \cup Known
Assets == Works \cup {"none"}
SessionFiles == [kind : {"none", "torn", "v0", "v1"}, command : {"none", "start", "resume"},
                 canon : Canons]
Keys == [contract : Contracts, work : Assets, agents : BOOLEAN,
         interface : {"none"} \cup Known, apply : BOOLEAN]
Snapshots == [kind : {"none", "ok", "torn"}, key : Keys]
Origins == [contract : Contracts, canon : Canons, work : Assets,
            source : {"none", "default", "detect"}]
Documents == [kind : {"none", "user", "torn", "rendered"}, from : Origins]

\* What each of the files may be.
Value(f) ==
  CASE f \in {"index", "marker"}            -> Lines
    [] f = "contract"                       -> Contracts
    [] f = "dirs"                           -> SUBSET {"canonical", "state"}
    [] f \in {"install", "run"}             -> Streams
    [] f = "snapshot"                       -> Snapshots
    [] f \in {"auto", "handoff"}            -> Names
    [] f \in {"state", "progress", "graph"} -> SessionFiles
    [] f = "doc"                            -> Documents
    [] f = "work"                           -> Works

Values == UNION {Value(f) : f \in Fields}
Disks == {d \in [Fields -> Values] : \A f \in Fields : d[f] \in Value(f)}
Steps == {s \in [op : {"write", "remove", "mkdir", "append"}, file : Fields, to : Values] :
            /\ s.to \in Value(s.file)
            /\ s.op \in {"write", "append"} => s.file \notin {"dirs", "work"}}

LEMMA ValueOf ==
  /\ Value("index") = Lines /\ Value("marker") = Lines
  /\ Value("contract") = Contracts
  /\ Value("dirs") = SUBSET {"canonical", "state"}
  /\ Value("install") = Streams /\ Value("run") = Streams
  /\ Value("snapshot") = Snapshots
  /\ Value("auto") = Names /\ Value("handoff") = Names
  /\ Value("state") = SessionFiles /\ Value("progress") = SessionFiles
  /\ Value("graph") = SessionFiles
  /\ Value("doc") = Documents
  /\ Value("work") = Works
BY DEF Value

LEMMA DiskFields ==
  ASSUME NEW d \in Disks
  PROVE  /\ d.index \in Lines /\ d.marker \in Lines
         /\ d.contract \in Contracts
         /\ d.dirs \in SUBSET {"canonical", "state"}
         /\ d.install \in Streams /\ d.run \in Streams
         /\ d.snapshot \in Snapshots
         /\ d.auto \in Names /\ d.handoff \in Names
         /\ d.state \in SessionFiles /\ d.progress \in SessionFiles
         /\ d.graph \in SessionFiles
         /\ d.doc \in Documents
         /\ d.work \in Works
<1>1. \A f \in Fields : d[f] \in Value(f)
  BY DEF Disks
<1> QED
  BY <1>1, ValueOf DEF Fields

LEMMA SetField ==
  ASSUME NEW d \in Disks, NEW f \in Fields, NEW v \in Value(f)
  PROVE  [d EXCEPT ![f] = v] \in Disks
<1>1. v \in Values
  BY DEF Values
<1>2. [d EXCEPT ![f] = v] \in [Fields -> Values]
  BY <1>1 DEF Disks
<1>3. \A g \in Fields : [d EXCEPT ![f] = v][g] \in Value(g)
  BY DEF Disks
<1> QED
  BY <1>2, <1>3 DEF Disks

LEMMA PutType ==
  ASSUME NEW d \in Disks, NEW s \in Steps
  PROVE  Put(d, s) \in Disks
<1>1. s.file \in Fields /\ s.to \in Value(s.file)
  BY DEF Steps
<1> QED
  BY <1>1, SetField DEF Put

LEMMA TornType ==
  ASSUME NEW f \in Fields \ {"dirs", "work"}
  PROVE  TornOf(f) \in Value(f)
<1>1. CASE f \in {"state", "progress", "graph"}
  BY <1>1, ValueOf DEF TornOf, Torn, Session, SessionFiles, Canons
<1>2. CASE f = "snapshot"
  BY <1>2, ValueOf DEF TornOf, NoSnapshot, Snapshot, Key, Snapshots, Keys, Contracts, Assets
<1>3. CASE f = "doc"
  BY <1>3, ValueOf DEF TornOf, Plain, Document, Origin, Documents, Origins, Contracts, Canons,
                       Assets
<1>4. CASE f \in {"install", "run"}
  BY <1>4, ValueOf DEF TornOf, Streams
<1>5. CASE f \in {"index", "marker", "contract", "auto", "handoff"}
  BY <1>5, ValueOf DEF TornOf, Lines, Contracts, Names
<1> QED
  BY <1>1, <1>2, <1>3, <1>4, <1>5 DEF Fields

LEMMA CutType ==
  ASSUME NEW d \in Disks, NEW s \in Steps
  PROVE  Cut(d, s) \in Disks
<1>1. s.file \in Fields /\ (s.op \in {"write", "append"} => s.file \notin {"dirs", "work"})
  BY DEF Steps
<1>2. CASE s.op \in {"write", "append"}
  <2>1. TornOf(s.file) \in Value(s.file)
    BY <1>1, <1>2, TornType
  <2> QED
    BY <1>1, <1>2, <2>1, SetField DEF Cut
<1>3. CASE s.op \notin {"write", "append"}
  BY <1>3 DEF Cut
<1> QED
  BY <1>2, <1>3

-----------------------------------------------------------------------------
(* The steps of a command *)

LEMMA AfterRounds ==
  ASSUME NEW d \in Disks, NEW steps \in Seq(Steps)
  PROVE  \E past \in [0..Len(steps) -> Disks] :
           /\ past[0] = d
           /\ \A i \in 1..Len(steps) : past[i] = Put(past[i - 1], steps[i])
           /\ After(d, steps) = past[Len(steps)]
<1> DEFINE N == Len(steps)
           Upto(g, n) == /\ g \in [0..N -> Disks]
                         /\ g[0] = d
                         /\ \A i \in 1..N : i <= n => g[i] = Put(g[i - 1], steps[i])
           T == {n \in Nat : n <= N => \E g : Upto(g, n)}
           Rounds(g) == g = [i \in 0..N |-> IF i = 0 THEN d ELSE Put(g[i - 1], steps[i])]
<1>1. N \in Nat /\ \A i \in 1..N : steps[i] \in Steps
  BY LenProperties, ElementOfSeq
<1>2. ASSUME NEW x \in Disks, NEW i \in 1..N PROVE Put(x, steps[i]) \in Disks
  BY <1>1, PutType
<1> HIDE DEF N
<1>3. 0 \in T
  <2>1. PICK g : g = [i \in 0..N |-> d]
    OBVIOUS
  <2>2. Upto(g, 0)
    BY <1>1, <2>1
  <2> QED
    BY <2>2
<1>4. ASSUME NEW n \in T PROVE n + 1 \in T
  <2> SUFFICES ASSUME n + 1 <= N PROVE \E g : Upto(g, n + 1)
    OBVIOUS
  <2>1. PICK g : Upto(g, n)
    <3>1. n <= N
      BY <1>1
    <3> HIDE DEF Upto
    <3> QED
      BY <3>1
  <2>2. n \in 0..N /\ n + 1 \in 1..N /\ n \in Nat
    BY <1>1
  <2>3. PICK y \in Disks : y = Put(g[n], steps[n + 1])
    BY <1>2, <2>1, <2>2
  <2>4. PICK h : h = [i \in 0..N |-> IF i = n + 1 THEN y ELSE g[i]]
    OBVIOUS
  <2>5. h \in [0..N -> Disks] /\ h[0] = d
    <3>1. 0 \in 0..N /\ 0 # n + 1
      BY <1>1, <2>2
    <3>2. h \in [0..N -> Disks]
      BY <2>1, <2>3, <2>4
    <3> QED
      BY <2>1, <2>4, <3>1, <3>2
  <2>6. ASSUME NEW i \in 1..N, i <= n + 1 PROVE h[i] = Put(h[i - 1], steps[i])
    <3>1. i - 1 \in 0..N /\ i \in 0..N /\ i - 1 # n + 1
      BY <1>1, <2>2, <2>6
    <3>2. h[i - 1] = g[i - 1]
      BY <2>4, <3>1
    <3>3. CASE i = n + 1
      <4>1. h[i] = y /\ i - 1 = n
        BY <2>2, <2>4, <3>1, <3>3
      <4> QED
        BY <2>3, <3>2, <3>3, <4>1
    <3>4. CASE i # n + 1
      <4>1. h[i] = g[i] /\ i <= n
        BY <2>2, <2>4, <2>6, <3>1, <3>4
      <4> QED
        BY <2>1, <3>2, <4>1
    <3> QED
      BY <3>3, <3>4
  <2>7. Upto(h, n + 1)
    BY <2>5, <2>6
  <2> QED
    BY <2>7
<1>5. PICK g : Upto(g, N)
  <2>1. \A n \in Nat : n \in T
    <3>1. T \in SUBSET Nat
      OBVIOUS
    <3> HIDE DEF T
    <3> QED
      BY <1>3, <1>4, <3>1, SetInduction
  <2>2. N <= N /\ N \in T
    <3> HIDE DEF T
    <3> QED
      BY <1>1, <2>1
  <2> HIDE DEF Upto
  <2> QED
    BY <2>2
<1>6. Rounds(g)
  <2>1. ASSUME NEW i \in 0..N
        PROVE  g[i] = IF i = 0 THEN d ELSE Put(g[i - 1], steps[i])
    <3>1. i = 0 \/ i \in 1..N
      BY <1>1
    <3> QED
      BY <1>1, <1>5, <3>1
  <2>2. g \in [0..N -> Disks]
    BY <1>5
  <2> QED
    BY <2>1, <2>2
<1>7. PICK past : Rounds(past) /\ After(d, steps) = past[N]
  <2>1. After(d, steps) = (CHOOSE f : Rounds(f))[N]
    BY DEF After, N
  <2>2. Rounds(CHOOSE f : Rounds(f))
    <3> HIDE DEF Rounds
    <3> QED
      BY <1>6
  <2> HIDE DEF Rounds
  <2> QED
    BY <2>1, <2>2
<1>8. \A n \in Nat : n <= N => past[n] \in Disks
  <2> DEFINE U == {n \in Nat : n <= N => past[n] \in Disks}
  <2>1. 0 \in U
    BY <1>1, <1>7
  <2>2. ASSUME NEW n \in U PROVE n + 1 \in U
    <3> SUFFICES ASSUME n + 1 <= N PROVE past[n + 1] \in Disks
      OBVIOUS
    <3>1. n \in Nat /\ n <= N /\ n + 1 \in 1..N /\ n + 1 \in 0..N /\ n + 1 # 0
          /\ (n + 1) - 1 = n
      BY <1>1
    <3>2. past[n + 1] = Put(past[n], steps[n + 1])
      BY <1>7, <3>1
    <3> QED
      BY <1>2, <3>1, <3>2
  <2>3. U \in SUBSET Nat
    OBVIOUS
  <2>4. \A n \in Nat : n \in U
    <3> HIDE DEF U
    <3> QED
      BY <2>1, <2>2, <2>3, SetInduction
  <2> QED
    BY <2>4
<1>9. past \in [0..N -> Disks]
  <2>1. \A n \in 0..N : past[n] \in Disks
    BY <1>1, <1>8
  <2> QED
    BY <1>7, <2>1
<1>10. past[0] = d /\ \A i \in 1..N : past[i] = Put(past[i - 1], steps[i])
  <2>1. 0 \in 0..N /\ \A i \in 1..N : i \in 0..N /\ i # 0
    BY <1>1
  <2> QED
    BY <1>7, <2>1
<1> QED
  BY <1>7, <1>9, <1>10 DEF N

LEMMA AfterType ==
  ASSUME NEW d \in Disks, NEW steps \in Seq(Steps)
  PROVE  After(d, steps) \in Disks
<1>1. Len(steps) \in 0..Len(steps)
  BY LenProperties
<1> QED
  BY <1>1, AfterRounds

\* A file that every step on it gives the same contents has those contents in
\* the end, and one that no step is on is left as it is.
Writes(steps, f, v) == \A i \in 1..Len(steps) : steps[i].file = f => steps[i].to = v
Touches(steps, f) == \E i \in 1..Len(steps) : steps[i].file = f

LEMMA AfterField ==
  ASSUME NEW d \in Disks, NEW steps \in Seq(Steps), NEW f \in Fields, NEW v,
         Writes(steps, f, v)
  PROVE  After(d, steps)[f] = IF Touches(steps, f) THEN v ELSE d[f]
<1> DEFINE N == Len(steps)
<1>1. N \in Nat /\ \A i \in 1..N : steps[i] \in Steps
  BY LenProperties, ElementOfSeq
<1>2. PICK past \in [0..N -> Disks] :
        /\ past[0] = d
        /\ \A i \in 1..N : past[i] = Put(past[i - 1], steps[i])
        /\ After(d, steps) = past[N]
  BY AfterRounds
<1> DEFINE Seen(n) == \E i \in 1..n : steps[i].file = f
           T == {n \in Nat : n <= N => past[n][f] = IF Seen(n) THEN v ELSE d[f]}
<1>3. Writes(steps, f, v)
  OBVIOUS
<1> HIDE DEF N
<1>4. 0 \in T
  <2>1. ~Seen(0)
    OBVIOUS
  <2> QED
    BY <1>2, <2>1
<1>5. ASSUME NEW n \in T PROVE n + 1 \in T
  <2> SUFFICES ASSUME n + 1 <= N
               PROVE  past[n + 1][f] = IF Seen(n + 1) THEN v ELSE d[f]
    OBVIOUS
  <2>1. /\ n \in Nat /\ n <= N /\ n \in 0..N /\ n + 1 \in 1..N /\ (n + 1) - 1 = n
        /\ 1..(n + 1) = 1..n \cup {n + 1}
    BY <1>1
  <2>2. past[n + 1] = Put(past[n], steps[n + 1])
    BY <1>2, <2>1
  <2>3. past[n][f] = IF Seen(n) THEN v ELSE d[f]
    BY <2>1
  <2>4. past[n] \in Disks
    BY <1>2, <2>1
  <2>5. past[n + 1][f] = IF steps[n + 1].file = f THEN steps[n + 1].to ELSE past[n][f]
    BY <2>2, <2>4 DEF Put, Disks
  <2>6. steps[n + 1].file = f => steps[n + 1].to = v
    BY <1>3, <2>1 DEF Writes, N
  <2>7. Seen(n + 1) <=> Seen(n) \/ steps[n + 1].file = f
    BY <2>1
  <2> HIDE DEF Seen
  <2> QED
    BY <2>3, <2>5, <2>6, <2>7
<1>6. N \in T
  <2>1. T \in SUBSET Nat
    OBVIOUS
  <2> HIDE DEF T
  <2> QED
    BY <1>1, <1>4, <1>5, <2>1, SetInduction
<1> QED
  BY <1>1, <1>2, <1>6 DEF Touches, N

LEMMA ConcatSteps ==
  ASSUME NEW s \in Seq(Steps), NEW t \in Seq(Steps)
  PROVE  s \o t \in Seq(Steps)
BY ConcatProperties

LEMMA OneStep ==
  ASSUME NEW x \in Steps
  PROVE  <<x>> \in Seq(Steps)
OBVIOUS

LEMMA WriteType ==
  ASSUME NEW f \in Fields \ {"dirs", "work"}, NEW v \in Value(f)
  PROVE  Write(f, v) \in Seq(Steps)
<1>1. v \in Values
  BY DEF Values
<1>2. [op |-> "write", file |-> f, to |-> v] \in Steps
  BY <1>1 DEF Steps
<1> QED
  BY <1>2, OneStep DEF Write

LEMMA UnlinkType ==
  ASSUME NEW f \in Fields, NEW v \in Value(f)
  PROVE  Unlink(f, v) \in Seq(Steps)
<1>1. v \in Values
  BY DEF Values
<1>2. [op |-> "remove", file |-> f, to |-> v] \in Steps
  BY <1>1 DEF Steps
<1> QED
  BY <1>2, OneStep DEF Unlink

LEMMA MkdirType ==
  ASSUME NEW dirs \in SUBSET {"canonical", "state"}
  PROVE  Mkdir(dirs) \in Seq(Steps)
<1>1. dirs \in Value("dirs") /\ "dirs" \in Fields
  BY ValueOf DEF Fields
<1>2. dirs \in Values
  BY <1>1 DEF Values
<1>3. [op |-> "mkdir", file |-> "dirs", to |-> dirs] \in Steps
  BY <1>1, <1>2 DEF Steps
<1> QED
  BY <1>3, OneStep DEF Mkdir

LEMMA RecordType ==
  ASSUME NEW f \in {"install", "run"}
  PROVE  Record(f) \in Seq(Steps)
<1>1. "ok" \in Value(f) /\ f \in Fields
  BY ValueOf DEF Fields, Streams
<1>2. "ok" \in Values
  BY <1>1 DEF Values
<1>3. [op |-> "append", file |-> f, to |-> "ok"] \in Steps
  BY <1>1, <1>2 DEF Steps
<1> QED
  BY <1>3, OneStep DEF Record

LEMMA NoStep == <<>> \in Seq(Steps)
BY EmptySeq

\* The types of what the steps write.
LEMMA SessionType ==
  ASSUME NEW c \in SessionCommand, NEW canon \in Canons
  PROVE  Session("v1", c.name, canon) \in SessionFiles
BY DEF SessionCommand, Session, SessionFiles

LEMMA SnapshotType ==
  ASSUME NEW contract \in Contracts, NEW work \in Works, NEW agents \in BOOLEAN,
         NEW interface \in Known, NEW apply \in BOOLEAN
  PROVE  Snapshot("ok", Key(contract, work, agents, interface, apply)) \in Snapshots
BY DEF Snapshot, Key, Snapshots, Keys, Assets

LEMMA NoSnapshotType == NoSnapshot \in Snapshots
BY DEF NoSnapshot, Snapshot, Key, Snapshots, Keys, Assets, Contracts

LEMMA CanonType == ASSUME NEW d \in Disks PROVE Canon(d) \in Canons
<1>1. d.index \in Lines /\ d.marker \in Lines
  BY DiskFields
<1> QED
  BY <1>1 DEF Canon, Canons

LEMMA RenderingType == ASSUME NEW d \in Disks PROVE Rendering(d) \in Documents
<1>1. d.contract \in Contracts /\ d.work \in Works /\ Canon(d) \in Canons
  BY DiskFields, CanonType
<1>2. (IF Valid(d.contract) THEN d.contract ELSE "none") \in Contracts
  BY <1>1 DEF Contracts
<1>3. (IF Detected(d) = "unset" THEN "default" ELSE "detect") \in {"none", "default", "detect"}
  OBVIOUS
<1> QED
  BY <1>1, <1>2, <1>3 DEF Rendering, Document, Origin, Documents, Origins, Assets

LEMMA PlainType ==
  ASSUME NEW kind \in {"none", "user", "torn"}
  PROVE  Plain(kind) \in Documents
BY DEF Plain, Document, Origin, Documents, Origins, Contracts, Canons, Assets

LEMMA InterfaceType ==
  ASSUME NEW d \in Disks, NEW c \in SessionCommand
  PROVE  Interface(d, c) \in Known \cup {"error", "unset"}
<1>1. d.auto \in Names /\ d.handoff \in Names
  BY DiskFields
<1>2. Given(d, c) \in Known \cup {"unset"}
  BY <1>1 DEF Given, Readable, Names, Known, SessionCommand
<1>3. Detected(d) \in Known \cup {"unset"}
  BY DEF Detected, Known
<1> QED
  BY <1>1, <1>2, <1>3 DEF Interface, Readable, Names, Known

LEMMA SavesType ==
  ASSUME NEW d \in Disks, NEW c \in SessionCommand, Interface(d, c) \in Known,
         NEW canon \in Canons, NEW contract \in Contracts, NEW agents \in BOOLEAN
  PROVE  Saves(d, c, canon, contract, agents) \in Seq(Steps)
<1>1. PICK interface \in Known : interface = Interface(d, c)
  OBVIOUS
<1>2. PICK key : key = Key(contract, d.work, agents, interface, c.apply)
  OBVIOUS
<1>3. Write("snapshot", Snapshot("ok", key)) \in Seq(Steps)
  <2>1. Snapshot("ok", key) \in Value("snapshot")
    BY <1>2, SnapshotType, DiskFields, ValueOf DEF SessionCommand
  <2> QED
    BY <2>1, WriteType DEF Fields
<1>4. Write("auto", interface) \in Seq(Steps) /\ Write("handoff", interface) \in Seq(Steps)
  BY ValueOf, WriteType DEF Fields, Names
<1>5. /\ Write("state", Session("v1", c.name, canon)) \in Seq(Steps)
      /\ Write("progress", Session("v1", c.name, "none")) \in Seq(Steps)
      /\ Write("graph", Session("v1", c.name, "none")) \in Seq(Steps)
  <2>1. "none" \in Canons
    BY DEF Canons
  <2> QED
    BY <2>1, SessionType, ValueOf, WriteType DEF Fields
<1> QED
  BY <1>1, <1>2, <1>3, <1>4, <1>5, ConcatSteps DEF Saves

LEMMA OnboardingType ==
  ASSUME NEW d \in Disks, NEW c \in SessionCommand, Interface(d, c) \in Known
  PROVE  Onboarding(d, c) \in Seq(Steps)
<1>1. Record("run") \in Seq(Steps) /\ Record("install") \in Seq(Steps)
  BY RecordType
<1>2. /\ Mkdir({"canonical"}) \in Seq(Steps)
      /\ Mkdir({"canonical", "state"}) \in Seq(Steps)
  BY MkdirType
<1>3. /\ Write("index", "ok") \in Seq(Steps)
      /\ Write("contract", "ok") \in Seq(Steps)
      /\ Write("marker", "ok") \in Seq(Steps)
  BY ValueOf, WriteType DEF Fields, Lines, Contracts
<1>4. Saves(d, c, "none", "ok", HasAgents(d)) \in Seq(Steps)
  BY SavesType DEF HasAgents, Canons, Contracts
<1> QED
  BY <1>1, <1>2, <1>3, <1>4, ConcatSteps DEF Onboarding

\* A session that gets anywhere knows its interface.
LEMMA RoutesKnow ==
  ASSUME NEW d \in Disks, NEW c \in SessionCommand,
         Route(d, c) \in {"onboarding", "fast", "full", "apply"}
  PROVE  Interface(d, c) \in Known
<1>1. Interface(d, c) # "error" /\ Interface(d, c) # "unset"
  BY DEF Route
<1> QED
  BY <1>1, InterfaceType

LEMMA SessionStepsType ==
  ASSUME NEW d \in Disks, NEW c \in SessionCommand
  PROVE  SessionSteps(d, c) \in Seq(Steps)
<1> DEFINE full == Record("run") \o Record("install") \o Record("run")
<1>1. Record("run") \in Seq(Steps) /\ Record("install") \in Seq(Steps)
  BY RecordType
<1>2. full \in Seq(Steps)
  BY <1>1, ConcatSteps
<1>3. CASE Route(d, c) = "onboarding"
  BY <1>3, RoutesKnow, OnboardingType DEF SessionSteps
<1>4. CASE Route(d, c) = "contract wanted"
  BY <1>2, <1>4 DEF SessionSteps
<1>5. CASE Route(d, c) = "unread"
  BY <1>1, <1>5 DEF SessionSteps
<1>6. CASE Route(d, c) = "fast"
  <2>1. /\ Write("auto", Interface(d, c)) \in Seq(Steps)
        /\ Write("handoff", Interface(d, c)) \in Seq(Steps)
    BY <1>6, RoutesKnow, ValueOf, WriteType DEF Fields, Names
  <2>2. SessionSteps(d, c) =
          Record("run") \o Record("install") \o Write("auto", Interface(d, c))
            \o Write("handoff", Interface(d, c)) \o Record("run")
    BY <1>6 DEF SessionSteps
  <2> QED
    BY <1>1, <2>1, <2>2, ConcatSteps
<1>7. CASE Route(d, c) \in {"full", "apply"}
  <2>1. Saves(d, c, Canon(d), d.contract, HasAgents(d)) \in Seq(Steps)
    BY <1>7, RoutesKnow, CanonType, DiskFields, SavesType DEF HasAgents
  <2>2. CASE Route(d, c) = "full"
    <3>1. SessionSteps(d, c) = full \o Saves(d, c, Canon(d), d.contract, HasAgents(d))
      BY <2>2 DEF SessionSteps
    <3> HIDE DEF full
    <3> QED
      BY <1>2, <2>1, <3>1, ConcatSteps
  <2>3. CASE Route(d, c) = "apply"
    <3>1. SessionSteps(d, c) =
            full \o Mkdir(d.dirs \cup {"state"}) \o Record("install") \o Record("run")
              \o Saves(d, c, Canon(d), d.contract, HasAgents(d))
      BY <2>3 DEF SessionSteps
    <3>2. Mkdir(d.dirs \cup {"state"}) \in Seq(Steps)
      BY DiskFields, MkdirType
    <3> HIDE DEF full
    <3>3. full \o Mkdir(d.dirs \cup {"state"}) \o Record("install") \in Seq(Steps)
      BY <1>1, <1>2, <3>2, ConcatSteps
    <3> QED
      BY <1>1, <2>1, <3>1, <3>3, ConcatSteps
  <2> QED
    BY <1>7, <2>2, <2>3
<1>8. CASE Route(d, c) \notin {"onboarding", "contract wanted", "unread", "fast", "full",
                               "apply"}
  <2>1. SessionSteps(d, c) = <<>>
    BY <1>8 DEF SessionSteps
  <2> QED
    BY <2>1, NoStep
<1> QED
  BY <1>3, <1>4, <1>5, <1>6, <1>7, <1>8

LEMMA RepairStepsType ==
  ASSUME NEW d \in Disks
  PROVE  RepairSteps(d) \in Seq(Steps)
<1>1. Record("run") \in Seq(Steps)
  BY RecordType
<1>2. ASSUME NEW e \in Disks PROVE Write("doc", Rendering(e)) \in Seq(Steps)
  BY RenderingType, ValueOf, WriteType DEF Fields
<1>3. PICK again : again = [d EXCEPT !.doc = Rendering(d)]
  OBVIOUS
<1>4. again \in Disks
  BY <1>3, RenderingType, ValueOf, SetField DEF Fields
<1>5. Write("doc", Rendering(d)) \o Write("doc", Rendering(again)) \o Record("run")
        \in Seq(Steps)
  BY <1>1, <1>2, <1>4, ConcatSteps
<1> QED
  BY <1>1, <1>3, <1>5 DEF RepairSteps

LEMMA CollectStepsType ==
  ASSUME NEW d \in Disks
  PROVE  CollectSteps(d) \in Seq(Steps)
<1>1. Record("run") \in Seq(Steps)
  BY RecordType
<1>2. /\ Unlink("auto", "none") \in Seq(Steps)
      /\ Unlink("handoff", "none") \in Seq(Steps)
      /\ Unlink("snapshot", NoSnapshot) \in Seq(Steps)
  BY UnlinkType, ValueOf, NoSnapshotType DEF Fields, Names
<1>3. Unlink("auto", "none") \o Unlink("handoff", "none") \o Unlink("snapshot", NoSnapshot)
        \o Record("run") \in Seq(Steps)
  BY <1>1, <1>2, ConcatSteps
<1> QED
  BY <1>3, NoStep DEF CollectSteps

LEMMA ByHandType ==
  ASSUME NEW d \in Disks, NEW advice, NEW s \in ByHand(d, advice)
  PROVE  s \in Seq(Steps)
<1>1. Write("contract", "ok") \in Seq(Steps) /\ Write("index", "ok") \in Seq(Steps)
  BY WriteType, ValueOf DEF Fields, Contracts, Lines
<1>2. Unlink("marker", "none") \in Seq(Steps) /\ Unlink("dirs", {}) \in Seq(Steps)
  BY UnlinkType, ValueOf DEF Fields, Lines
<1> QED
  BY <1>1, <1>2, NoStep DEF ByHand

LEMMA SessionsAre ==
  ASSUME NEW advice, NEW c \in Sessions(advice)
  PROVE  c \in SessionCommand
<1>1. c \in {Start, [Start EXCEPT !.name = "resume"], [Start EXCEPT !.interface = "cli"]}
  BY DEF Sessions
<1>2. Start \in SessionCommand
  BY DEF Start, SessionCommand
<1>3. /\ [Start EXCEPT !.name = "resume"] \in SessionCommand
      /\ [Start EXCEPT !.interface = "cli"] \in SessionCommand
  BY <1>2 DEF SessionCommand
<1> QED
  BY <1>1, <1>2, <1>3

LEMMA CommandJobsType ==
  ASSUME NEW d \in Disks, NEW advice, NEW job \in CommandJobs(d, advice)
  PROVE  job.steps \in Seq(Steps)
<1>1. CASE \E c \in Sessions(advice) : job = SessionJob(d, c)
  BY <1>1, SessionsAre, SessionStepsType DEF SessionJob, Job
<1>2. CASE job = Job(RepairSteps(d), <<>>)
  BY <1>2, RepairStepsType DEF Job
<1>3. CASE job = Job(CollectSteps(d), <<>>)
  BY <1>3, CollectStepsType DEF Job
<1> QED
  BY <1>1, <1>2, <1>3 DEF CommandJobs

LEMMA SubSeqType ==
  ASSUME NEW steps \in Seq(Steps), NEW k \in 0..Len(steps)
  PROVE  SubSeq(steps, 1, k) \in Seq(Steps)
<1>1. Len(steps) \in Nat /\ \A i \in 1..Len(steps) : steps[i] \in Steps
  BY LenProperties, ElementOfSeq
<1>2. 1 \in Int /\ k \in Int /\ \A i \in 1..k : steps[i] \in Steps
  BY <1>1
<1> QED
  BY <1>2, SubSeqProperties

\* An append that fails ends the command: what is left is how it began.
LEMMA PossibleType ==
  ASSUME NEW d \in Disks, NEW steps \in Seq(Steps)
  PROVE  Possible(d, steps) \in Seq(Steps)
<1> DEFINE failing == {i \in 1..Len(steps) :
                          steps[i].op = "append" /\ d[steps[i].file] = "broken"}
           first == CHOOSE i \in failing : \A j \in failing : i <= j
<1>1. CASE failing = {}
  BY <1>1 DEF Possible
<1>2. CASE failing # {}
  <2>1. failing \in SUBSET Nat
    OBVIOUS
  <2>2. \E i \in failing : \A j \in failing : i <= j
    <3> HIDE DEF failing
    <3> QED
      BY <1>2, <2>1, LeastNat
  <2>3. first \in failing
    <3> HIDE DEF failing
    <3> QED
      BY <2>2
  <2>4. first - 1 \in 0..Len(steps) /\ Len(steps) \in Nat
    BY <2>3, LenProperties
  <2>5. Possible(d, steps) = SubSeq(steps, 1, first - 1)
    BY <1>2 DEF Possible
  <2> HIDE DEF first, failing
  <2> QED
    BY <2>4, <2>5, SubSeqType
<1> QED
  BY <1>1, <1>2

-----------------------------------------------------------------------------
(* The type of the disk *)

LEMMA FreshType ==
  ASSUME NEW work \in Works, NEW doc \in {Plain("none"), Plain("user")}
  PROVE  Fresh(work, doc) \in Disks
<1> DEFINE r == Fresh(work, doc)
<1>1. DOMAIN r = Fields
  BY DEF Fresh, Fields
<1>2. r = [f \in Fields |-> r[f]]
  BY <1>1 DEF Fresh
<1>3. /\ r.index = "none" /\ r.marker = "none" /\ r.contract = "none" /\ r.dirs = {}
      /\ r.install = "none" /\ r.run = "none" /\ r.snapshot = NoSnapshot
      /\ r.auto = "none" /\ r.handoff = "none"
      /\ r.state = Absent /\ r.progress = Absent /\ r.graph = Absent
      /\ r.doc = doc /\ r.work = work
  BY DEF Fresh
<1>4. Absent \in SessionFiles
  BY DEF Absent, Session, SessionFiles, Canons
<1>5. doc \in Documents
  BY PlainType
<1> HIDE DEF r
<1>6. \A f \in Fields : r[f] \in Value(f)
  BY <1>3, <1>4, <1>5, ValueOf, NoSnapshotType DEF Fields, Lines, Contracts, Streams, Names
<1>7. \A f \in Fields : r[f] \in Values
  BY <1>6 DEF Values
<1>8. r \in [Fields -> Values]
  BY <1>2, <1>7
<1> QED
  BY <1>6, <1>8 DEF Disks, r

LEMMA LegacyType ==
  ASSUME NEW work \in Works, NEW doc \in {Plain("none"), Plain("user")},
         NEW snapshot \in BOOLEAN
  PROVE  Legacy(work, doc, "cli", snapshot) \in Disks
<1>1. PICK d \in Disks : d = Fresh(work, doc)
  BY FreshType
<1>2. PICK snap : snap = IF snapshot
                           THEN Snapshot("ok", Key("ok", work, doc.kind # "none", "cli", FALSE))
                           ELSE NoSnapshot
  OBVIOUS
<1>3. snap \in Snapshots
  <2>1. "ok" \in Contracts /\ "cli" \in Known /\ (doc.kind # "none") \in BOOLEAN
    BY DEF Contracts, Known
  <2> QED
    BY <1>2, <2>1, SnapshotType, NoSnapshotType
<1>4. /\ Session("v0", "start", "onboarding_complete") \in SessionFiles
      /\ Session("v0", "start", "none") \in SessionFiles
  BY DEF Session, SessionFiles, Canons
<1>5. PICK e : e = Legacy(work, doc, "cli", snapshot)
  OBVIOUS
<1>6. /\ DOMAIN e = Fields /\ e = [f \in Fields |-> e[f]]
      /\ e.index = "ok" /\ e.marker = "ok" /\ e.contract = "ok"
      /\ e.dirs = {"canonical", "state"}
      /\ e.install = "ok" /\ e.run = d.run /\ e.snapshot = snap
      /\ e.auto = "cli" /\ e.handoff = d.handoff
      /\ e.state = Session("v0", "start", "onboarding_complete")
      /\ e.progress = Session("v0", "start", "none") /\ e.graph = Session("v0", "start", "none")
      /\ e.doc = d.doc /\ e.work = d.work
  BY <1>1, <1>2, <1>5 DEF Legacy, Disks, Fields
<1>7. \A f \in Fields : e[f] \in Value(f)
  BY <1>3, <1>4, <1>6, ValueOf, DiskFields
     DEF Fields, Lines, Contracts, Streams, Names, Known
<1>8. \A f \in Fields : e[f] \in Values
  BY <1>7 DEF Values
<1> QED
  BY <1>5, <1>6, <1>7, <1>8 DEF Disks

LEMMA InterruptedType ==
  ASSUME disk \in Disks, NEW job, job.steps \in Seq(Steps), Interrupted(job)
  PROVE  disk' \in Disks
<1>1. PICK steps \in Seq(Steps) : steps = Possible(disk, job.steps)
  BY PossibleType
<1>2. PICK k \in 0..Len(steps) :
        LET sofar == After(disk, SubSeq(steps, 1, k))
        IN  \/ disk' = sofar
            \/ k < Len(steps) /\ disk' = Cut(sofar, steps[k + 1])
  BY <1>1 DEF Interrupted
<1>3. After(disk, SubSeq(steps, 1, k)) \in Disks
  BY SubSeqType, AfterType
<1>4. k < Len(steps) => steps[k + 1] \in Steps
  BY LenProperties, ElementOfSeq
<1> QED
  BY <1>2, <1>3, <1>4, CutType

LEMMA LostType ==
  ASSUME NEW d \in Disks, NEW file \in Losable
  PROVE  Lost(d, file) \in Disks
<1>1. file \in {"index", "marker", "contract", "state", "graph", "run"}
  BY RecoveryAssumption
<1>2. Absent \in SessionFiles
  BY DEF Absent, Session, SessionFiles, Canons
<1>3. PICK v : v = IF file \in {"state", "graph"} THEN Absent ELSE "none"
  OBVIOUS
<1>4. file \in Fields /\ v \in Value(file)
  BY <1>1, <1>2, <1>3, ValueOf DEF Fields, Lines, Contracts, Streams
<1> QED
  BY <1>3, <1>4, SetField DEF Lost

\* Whatever is killed, lost or edited, every file is absent, whole or damaged in
\* one of the ways the commands tell apart.
DiskOK == disk \in Disks

LEMMA DiskInvariant == Spec => []DiskOK
<1>1. Init => DiskOK
  BY FreshType, LegacyType DEF Init, DiskOK
<1>2. DiskOK /\ [Next]_vars => DiskOK'
  <2> SUFFICES ASSUME disk \in Disks, [Next]_vars PROVE disk' \in Disks
    BY DEF DiskOK
  <2>1. CASE Diagnose
    BY <2>1 DEF Diagnose
  <2>2. CASE Follow
    <3>1. PICK job \in CommandJobs(disk, Head(todo)) \cup HandJobs(disk, Head(todo)) :
            disk' = After(disk, Possible(disk, job.steps))
      BY <2>2 DEF Follow
    <3>2. job.steps \in Seq(Steps)
      <4>1. CASE job \in CommandJobs(disk, Head(todo))
        BY <4>1, CommandJobsType
      <4>2. CASE job \in HandJobs(disk, Head(todo))
        BY <4>2, ByHandType DEF HandJobs, Job
      <4> QED
        BY <4>1, <4>2
    <3> QED
      BY <3>1, <3>2, PossibleType, AfterType
  <2>3. CASE KillFollowed
    BY <2>3, CommandJobsType, InterruptedType DEF KillFollowed
  <2>4. CASE Use
    BY <2>4, SessionStepsType, PossibleType, AfterType DEF Use
  <2>5. CASE KillUsed
    <3>1. PICK c \in SessionCommand : Interrupted(SessionJob(disk, c))
      BY <2>5 DEF KillUsed
    <3>2. SessionJob(disk, c).steps \in Seq(Steps)
      BY SessionStepsType DEF SessionJob, Job
    <3> QED
      BY <3>1, <3>2, InterruptedType
  <2>6. CASE Edit
    <3>1. CASE \E file \in Losable : disk' = Lost(disk, file)
      BY <3>1, LostType
    <3>2. CASE disk' = [disk EXCEPT !.contract = "short"]
      BY <3>2, SetField, ValueOf DEF Fields, Contracts
    <3>3. CASE \E kind \in {"none", "user"} : disk' = [disk EXCEPT !.doc = Plain(kind)]
      BY <3>3, SetField, ValueOf, PlainType DEF Fields
    <3>4. CASE \E work \in Works : disk' = [disk EXCEPT !.work = work]
      BY <3>4, SetField, ValueOf DEF Fields
    <3> QED
      BY <2>6, <3>1, <3>2, <3>3, <3>4 DEF Edit
  <2>7. CASE UNCHANGED vars
    BY <2>7 DEF vars
  <2> QED
    BY <2>1, <2>2, <2>3, <2>4, <2>5, <2>6, <2>7 DEF Next, Operator
<1> QED
  BY <1>1, <1>2, PTL DEF Spec

-----------------------------------------------------------------------------
(* What a clean bill of health says *)

LEMMA HealthSays ==
  ASSUME NEW d \in Disks, Healthy(d)
  PROVE  /\ d.contract = "ok" /\ d.run = "ok" /\ d.doc = Rendering(d)
         /\ ~Unreadable(d.state) /\ ~Unreadable(d.graph)
         /\ "v0" \notin {d.state.kind, d.graph.kind, d.progress.kind}
         /\ d.state.command = d.graph.command
         /\ Canon(d) \notin Blocking /\ d.state.canon = Canon(d)
<1>1. /\ StateRemedy(d) = "none" /\ ParityRemedy(d) = "none"
      /\ ChainRemedy(d) = "none" /\ SecurityRemedy(d) = "none"
  <2>1. /\ Len(DoctorRemedies(d)) = 4
        /\ DoctorRemedies(d)[1] = StateRemedy(d) /\ DoctorRemedies(d)[2] = ParityRemedy(d)
        /\ DoctorRemedies(d)[3] = ChainRemedy(d) /\ DoctorRemedies(d)[4] = SecurityRemedy(d)
    BY DEF DoctorRemedies
  <2>2. 1 \in 1..4 /\ 2 \in 1..4 /\ 3 \in 1..4 /\ 4 \in 1..4
    OBVIOUS
  <2> QED
    BY <2>1, <2>2 DEF Healthy, Clean
<1>2. d.progress.kind # "v0"
  <2>1. /\ Len(MigrateRemedies(d)) = 3
        /\ MigrateRemedies(d)[2] = IF d.progress.kind = "v0" THEN "start or resume" ELSE "none"
    BY DEF MigrateRemedies
  <2>2. 2 \in 1..3
    OBVIOUS
  <2> QED
    BY <2>1, <2>2 DEF Healthy, Clean
<1>3. d.contract = "ok" /\ d.doc = Rendering(d)
  BY <1>1 DEF SecurityRemedy, ParityRemedy
<1>4. d.run = "ok"
  BY <1>1, DiskFields DEF ChainRemedy, Streams
<1> QED
  BY <1>1, <1>2, <1>3, <1>4 DEF StateRemedy

LEMMA Health ==
  ASSUME NEW d,
         d.contract = "ok", d.run = "ok", d.doc = Rendering(d),
         d.state.kind = "v1", d.graph.kind = "v1", d.progress.kind # "v0",
         d.state.command = d.graph.command,
         Canon(d) \notin Blocking, d.state.canon = Canon(d)
  PROVE  Healthy(d)
<1>1. /\ StateRemedy(d) = "none" /\ ParityRemedy(d) = "none"
      /\ ChainRemedy(d) = "none" /\ SecurityRemedy(d) = "none"
  BY DEF StateRemedy, Unreadable, ParityRemedy, ChainRemedy, SecurityRemedy
<1>2. DoctorRemedies(d) = <<"none", "none", "none", "none">>
  BY <1>1 DEF DoctorRemedies
<1>3. MigrateRemedies(d) = <<"none", "none", "none">>
  BY DEF MigrateRemedies
<1> QED
  BY <1>2, <1>3 DEF Healthy, Clean

\* Whatever was killed, lost or edited: after a clean bill a start goes through,
\* because an AGENTS.md that passes the parity check is there, and an interface is
\* detected in it.
THEOREM HealthyStarts == Spec => []DoctorForesees
<1>1. DiskOK => DoctorForesees
  <2> SUFFICES ASSUME disk \in Disks, Healthy(disk), ~Jammed(disk), Canon(disk) # "none"
               PROVE  Route(disk, Start) \in {"fast", "full"}
    BY DEF DiskOK, DoctorForesees
  <2>1. /\ disk.contract = "ok" /\ disk.run = "ok" /\ disk.doc = Rendering(disk)
        /\ Canon(disk) \notin Blocking
    BY HealthSays
  <2>2. /\ disk.install # "broken" /\ disk.snapshot.kind # "torn"
        /\ disk.index # "torn" /\ disk.marker # "torn" /\ disk.auto # "torn"
    BY DEF Jammed
  <2>3. Detected(disk) \in Known
    <3>1. disk.doc.kind = "rendered"
      BY <2>1 DEF Rendering, Document
    <3> QED
      BY <3>1 DEF Detected, HasAgents, Known
  <2>4. Start.name = "start" /\ Start.interface = "unset" /\ Start.apply = FALSE
        /\ Start \in SessionCommand
    BY DEF Start, SessionCommand
  <2>5. Interface(disk, Start) \in Known
    <3>1. Given(disk, Start) = "unset"
      BY <2>4 DEF Given
    <3>2. disk.auto \in Names
      BY DiskFields
    <3> QED
      BY <2>2, <2>3, <3>1, <3>2 DEF Interface, Readable, Names, Known
  <2> QED
    BY <2>1, <2>2, <2>4, <2>5 DEF Route, Valid, Known
<1> QED
  BY <1>1, DiskInvariant, PTL

-----------------------------------------------------------------------------
(* Steps that keep a store healthy *)

\* A step that says of the session what the last one said, or leaves alone what
\* doctor looks at; c is the session that may be saving itself.
Quiet(d, c, x) ==
  /\ x.op = "append" => d[x.file] # "broken"
  /\ x.file \notin {"index", "marker", "doc", "work"}
  /\ x.file \in {"contract", "run"} => x.to = "ok"
  /\ x.file = "state" => x.to = Session("v1", c.name, Canon(d))
  /\ x.file \in {"progress", "graph"} => x.to = Session("v1", c.name, "none")

AllQuiet(d, c, steps) ==
  /\ steps \in Seq(Steps)
  /\ \A i \in 1..Len(steps) : Quiet(d, c, steps[i])

\* The session state and the task graph are written both or neither.
Together(steps) == Touches(steps, "state") <=> Touches(steps, "graph")

LEMMA ConcatQuiet ==
  ASSUME NEW d, NEW c, NEW s, NEW t, AllQuiet(d, c, s), AllQuiet(d, c, t)
  PROVE  /\ AllQuiet(d, c, s \o t)
         /\ \A f : Touches(s \o t, f) <=> Touches(s, f) \/ Touches(t, f)
<1>1. s \in Seq(Steps) /\ t \in Seq(Steps) /\ Len(s) \in Nat /\ Len(t) \in Nat
  BY LenProperties DEF AllQuiet
<1>2. PICK u : u = s \o t
  OBVIOUS
<1>3. /\ u \in Seq(Steps)
      /\ Len(u) = Len(s) + Len(t)
      /\ \A i \in 1..Len(s) + Len(t) :
           u[i] = IF i <= Len(s) THEN s[i] ELSE t[i - Len(s)]
  BY <1>1, <1>2, ConcatProperties
<1>4. ASSUME NEW i \in 1..Len(u)
      PROVE  \/ i \in 1..Len(s) /\ u[i] = s[i]
             \/ i - Len(s) \in 1..Len(t) /\ u[i] = t[i - Len(s)]
  BY <1>1, <1>3
<1>5. AllQuiet(d, c, u)
  BY <1>3, <1>4 DEF AllQuiet
<1>6. ASSUME NEW f PROVE Touches(u, f) <=> Touches(s, f) \/ Touches(t, f)
  <2>1. Touches(u, f) => Touches(s, f) \/ Touches(t, f)
    BY <1>4 DEF Touches
  <2>2. ASSUME NEW i \in 1..Len(s), s[i].file = f PROVE Touches(u, f)
    <3>1. i \in 1..Len(u) /\ u[i] = s[i]
      BY <1>1, <1>3
    <3> QED
      BY <2>2, <3>1 DEF Touches
  <2>3. ASSUME NEW i \in 1..Len(t), t[i].file = f PROVE Touches(u, f)
    <3>1. i + Len(s) \in 1..Len(u) /\ ~(i + Len(s) <= Len(s)) /\ (i + Len(s)) - Len(s) = i
      BY <1>1, <1>3
    <3>2. u[i + Len(s)] = t[i]
      BY <1>1, <1>3, <3>1
    <3> QED
      BY <2>3, <3>1, <3>2 DEF Touches
  <2> QED
    BY <2>1, <2>2, <2>3 DEF Touches
<1> QED
  BY <1>2, <1>5, <1>6

LEMMA ConcatTogether ==
  ASSUME NEW d, NEW c, NEW s, NEW t, AllQuiet(d, c, s), AllQuiet(d, c, t),
         Together(s), Together(t)
  PROVE  AllQuiet(d, c, s \o t) /\ Together(s \o t)
BY ConcatQuiet DEF Together

LEMMA OneQuiet ==
  ASSUME NEW d, NEW c, NEW x \in Steps, Quiet(d, c, x)
  PROVE  AllQuiet(d, c, <<x>>) /\ \A f : Touches(<<x>>, f) <=> x.file = f
<1>1. <<x>> \in Seq(Steps) /\ Len(<<x>>) = 1 /\ <<x>>[1] = x
  BY OneStep
<1>2. \A i \in 1..1 : i = 1
  OBVIOUS
<1> QED
  BY <1>1, <1>2 DEF AllQuiet, Touches

\* All steps of a quiet command are taken, and leave the store healthy.
LEMMA QuietPossible ==
  ASSUME NEW d, NEW c, NEW steps, AllQuiet(d, c, steps)
  PROVE  Possible(d, steps) = steps
BY DEF AllQuiet, Quiet, Possible

LEMMA QuietKeeps ==
  ASSUME NEW d \in Disks, NEW c, NEW steps, AllQuiet(d, c, steps), Together(steps),
         Healthy(d), Canon(d) # "none"
  PROVE  Healthy(After(d, steps))
<1>1. PICK e \in Disks : e = After(d, steps)
  BY AfterType DEF AllQuiet
<1>2. steps \in Seq(Steps) /\ \A i \in 1..Len(steps) : Quiet(d, c, steps[i])
  BY DEF AllQuiet
<1>3. ASSUME NEW f \in Fields, NEW v, Writes(steps, f, v)
      PROVE  e[f] = IF Touches(steps, f) THEN v ELSE d[f]
  BY <1>1, <1>2, <1>3, AfterField
<1>4. ASSUME NEW f \in {"index", "marker", "doc", "work"} PROVE e[f] = d[f]
  <2>1. f \in Fields /\ ~Touches(steps, f) /\ Writes(steps, f, "")
    BY <1>2 DEF Fields, Touches, Writes, Quiet
  <2> QED
    BY <1>3, <2>1
<1>5. ASSUME NEW f \in {"contract", "run"} PROVE e[f] = "ok"
  <2>1. f \in Fields /\ Writes(steps, f, "ok")
    BY <1>2 DEF Fields, Writes, Quiet
  <2>2. d.contract = "ok" /\ d.run = "ok"
    BY HealthSays
  <2> QED
    BY <1>3, <2>1, <2>2
<1>6. e.progress.kind # "v0"
  <2>1. "progress" \in Fields /\ Writes(steps, "progress", Session("v1", c.name, "none"))
    BY <1>2 DEF Fields, Writes, Quiet
  <2>2. d.progress.kind # "v0"
    BY HealthSays
  <2> QED
    BY <1>3, <2>1, <2>2 DEF Session
<1>7. \/ /\ e.state = Session("v1", c.name, Canon(d))
         /\ e.graph = Session("v1", c.name, "none")
      \/ e.state = d.state /\ e.graph = d.graph
  <2>1. /\ "state" \in Fields /\ Writes(steps, "state", Session("v1", c.name, Canon(d)))
        /\ "graph" \in Fields /\ Writes(steps, "graph", Session("v1", c.name, "none"))
    BY <1>2 DEF Fields, Writes, Quiet
  <2> QED
    BY <1>3, <2>1 DEF Together
<1>8. /\ e.index = d.index /\ e.marker = d.marker /\ e.doc = d.doc /\ e.work = d.work
      /\ e.contract = "ok" /\ e.run = "ok"
  BY <1>4, <1>5
<1>9. /\ d.contract = "ok" /\ d.doc = Rendering(d) /\ Canon(d) \notin Blocking
      /\ ~Unreadable(d.state) /\ ~Unreadable(d.graph)
      /\ d.state.kind # "v0" /\ d.graph.kind # "v0"
      /\ d.state.command = d.graph.command /\ d.state.canon = Canon(d)
  BY HealthSays
<1>10. Canon(e) = Canon(d)
  <2>1. d.index \in Lines /\ d.marker \in Lines
    BY DiskFields
  <2>2. ~(d.index = "none" /\ d.marker = "none")
    BY <1>9, <2>1 DEF Canon, Blocking
  <2> QED
    BY <1>8, <2>1, <2>2 DEF Canon
<1>11. e.doc = Rendering(e)
  <2>1. Detected(e) = Detected(d)
    BY <1>8 DEF Detected, HasAgents
  <2> QED
    BY <1>8, <1>9, <1>10, <2>1 DEF Rendering
<1>12. /\ e.state.kind = "v1" /\ e.graph.kind = "v1"
       /\ e.state.command = e.graph.command /\ e.state.canon = Canon(d)
  <2>1. d.state \in SessionFiles /\ d.graph \in SessionFiles
    BY DiskFields
  <2>2. d.state.kind = "v1" /\ d.graph.kind = "v1"
    BY <1>9, <2>1 DEF SessionFiles, Unreadable
  <2> QED
    BY <1>7, <1>9, <2>2 DEF Session
<1> QED
  BY <1>1, <1>6, <1>8, <1>9, <1>10, <1>11, <1>12, Health

LEMMA QuietWrite ==
  ASSUME NEW d, NEW c, NEW f \in Fields \ {"dirs", "work", "index", "marker", "doc"},
         NEW v \in Value(f),
         f \in {"contract", "run"} => v = "ok",
         f = "state" => v = Session("v1", c.name, Canon(d)),
         f \in {"progress", "graph"} => v = Session("v1", c.name, "none")
  PROVE  /\ AllQuiet(d, c, Write(f, v))
         /\ \A g : Touches(Write(f, v), g) <=> f = g
<1>1. PICK x : x = [op |-> "write", file |-> f, to |-> v]
  OBVIOUS
<1>2. x.op = "write" /\ x.file = f /\ x.to = v
  BY <1>1
<1>3. x \in Steps
  <2>1. v \in Values
    BY DEF Values
  <2> QED
    BY <1>1, <2>1 DEF Steps
<1>4. Quiet(d, c, x)
  BY <1>2 DEF Quiet
<1>5. Write(f, v) = <<x>>
  BY <1>1 DEF Write
<1> QED
  BY <1>2, <1>3, <1>4, <1>5, OneQuiet

LEMMA QuietUnlink ==
  ASSUME NEW d, NEW c, NEW f \in {"auto", "handoff", "snapshot"}, NEW v \in Value(f)
  PROVE  AllQuiet(d, c, Unlink(f, v)) /\ Together(Unlink(f, v))
<1>1. PICK x : x = [op |-> "remove", file |-> f, to |-> v]
  OBVIOUS
<1>2. x.op = "remove" /\ x.file = f /\ x.to = v
  BY <1>1
<1>3. x \in Steps
  <2>1. f \in Fields
    BY DEF Fields
  <2>2. v \in Values
    BY <2>1 DEF Values
  <2> QED
    BY <1>1, <2>1, <2>2 DEF Steps
<1>4. Quiet(d, c, x)
  BY <1>2 DEF Quiet
<1>5. Unlink(f, v) = <<x>>
  BY <1>1 DEF Unlink
<1> QED
  BY <1>2, <1>3, <1>4, <1>5, OneQuiet DEF Together

LEMMA QuietMkdir ==
  ASSUME NEW d, NEW c, NEW dirs \in SUBSET {"canonical", "state"}
  PROVE  AllQuiet(d, c, Mkdir(dirs)) /\ Together(Mkdir(dirs))
<1>1. PICK x : x = [op |-> "mkdir", file |-> "dirs", to |-> dirs]
  OBVIOUS
<1>2. x.op = "mkdir" /\ x.file = "dirs" /\ x.to = dirs
  BY <1>1
<1>3. x \in Steps
  <2>1. "dirs" \in Fields /\ dirs \in Value("dirs")
    BY ValueOf DEF Fields
  <2>2. dirs \in Values
    BY <2>1 DEF Values
  <2> QED
    BY <1>1, <2>1, <2>2 DEF Steps
<1>4. Quiet(d, c, x)
  BY <1>2 DEF Quiet
<1>5. Mkdir(dirs) = <<x>>
  BY <1>1 DEF Mkdir
<1> QED
  BY <1>2, <1>3, <1>4, <1>5, OneQuiet DEF Together

LEMMA QuietRecord ==
  ASSUME NEW d, NEW c, NEW f \in {"install", "run"}, d[f] # "broken"
  PROVE  AllQuiet(d, c, Record(f)) /\ Together(Record(f))
<1>1. PICK x : x = [op |-> "append", file |-> f, to |-> "ok"]
  OBVIOUS
<1>2. x.op = "append" /\ x.file = f /\ x.to = "ok"
  BY <1>1
<1>3. x \in Steps
  <2>1. f \in Fields /\ "ok" \in Value(f)
    BY ValueOf DEF Fields, Streams
  <2>2. "ok" \in Values
    BY <2>1 DEF Values
  <2> QED
    BY <1>1, <2>1, <2>2 DEF Steps
<1>4. Quiet(d, c, x)
  BY <1>2 DEF Quiet
<1>5. Record(f) = <<x>>
  BY <1>1 DEF Record
<1> QED
  BY <1>2, <1>3, <1>4, <1>5, OneQuiet DEF Together

LEMMA NoneQuiet == ASSUME NEW d, NEW c PROVE AllQuiet(d, c, <<>>) /\ Together(<<>>)
<1>1. <<>> \in Seq(Steps) /\ Len(<<>>) = 0
  BY EmptySeq
<1> QED
  BY <1>1 DEF AllQuiet, Together, Touches

LEMMA QuietSaves ==
  ASSUME NEW d \in Disks, NEW c \in SessionCommand, Interface(d, c) \in Known,
         NEW contract \in Contracts, NEW agents \in BOOLEAN
  PROVE  /\ AllQuiet(d, c, Saves(d, c, Canon(d), contract, agents))
         /\ Together(Saves(d, c, Canon(d), contract, agents))
<1>1. PICK interface \in Known : interface = Interface(d, c)
  OBVIOUS
<1>2. PICK key : key = Key(contract, d.work, agents, interface, c.apply)
  OBVIOUS
<1>3. PICK state \in SessionFiles : state = Session("v1", c.name, Canon(d))
  BY SessionType, CanonType
<1>4. PICK session \in SessionFiles : session = Session("v1", c.name, "none")
  <2>1. "none" \in Canons
    BY DEF Canons
  <2> QED
    BY <2>1, SessionType
<1>5. PICK a : a = Write("snapshot", Snapshot("ok", key))
  OBVIOUS
<1>6. PICK b : b = Write("auto", interface)
  OBVIOUS
<1>7. PICK s : s = Write("state", state)
  OBVIOUS
<1>8. PICK p : p = Write("progress", session)
  OBVIOUS
<1>9. PICK g : g = Write("graph", session)
  OBVIOUS
<1>10. PICK h : h = Write("handoff", interface)
  OBVIOUS
<1>11. AllQuiet(d, c, a) /\ AllQuiet(d, c, b) /\ AllQuiet(d, c, h)
  <2>1. Snapshot("ok", key) \in Value("snapshot")
    BY <1>2, SnapshotType, DiskFields, ValueOf DEF SessionCommand
  <2>2. interface \in Value("auto") /\ interface \in Value("handoff")
    BY ValueOf DEF Names
  <2> QED
    BY <1>5, <1>6, <1>10, <2>1, <2>2, QuietWrite DEF Fields
<1>12. /\ AllQuiet(d, c, s) /\ AllQuiet(d, c, p) /\ AllQuiet(d, c, g)
       /\ Touches(s, "state") /\ Touches(g, "graph")
  <2>1. state \in Value("state") /\ session \in Value("progress") /\ session \in Value("graph")
    BY ValueOf
  <2> QED
    BY <1>3, <1>4, <1>7, <1>8, <1>9, <2>1, QuietWrite DEF Fields
<1>13. AllQuiet(d, c, a \o b) /\ AllQuiet(d, c, a \o b \o s)
  BY <1>11, <1>12, ConcatQuiet
<1>14. Touches(a \o b \o s, "state")
  BY <1>11, <1>12, <1>13, ConcatQuiet
<1>15. AllQuiet(d, c, a \o b \o s \o p) /\ Touches(a \o b \o s \o p, "state")
  BY <1>12, <1>13, <1>14, ConcatQuiet
<1>16. /\ AllQuiet(d, c, a \o b \o s \o p \o g)
       /\ Touches(a \o b \o s \o p \o g, "state") /\ Touches(a \o b \o s \o p \o g, "graph")
  <2>1. PICK w : w = a \o b \o s \o p
    OBVIOUS
  <2>2. AllQuiet(d, c, w) /\ Touches(w, "state")
    BY <1>15, <2>1
  <2>3. AllQuiet(d, c, w \o g) /\ \A f : Touches(w \o g, f) <=> Touches(w, f) \/ Touches(g, f)
    BY <1>12, <2>2, ConcatQuiet
  <2> QED
    BY <1>12, <2>1, <2>2, <2>3
<1>17. /\ AllQuiet(d, c, a \o b \o s \o p \o g \o h)
       /\ Touches(a \o b \o s \o p \o g \o h, "state")
       /\ Touches(a \o b \o s \o p \o g \o h, "graph")
  BY <1>11, <1>16, ConcatQuiet
<1>18. Saves(d, c, Canon(d), contract, agents) = a \o b \o s \o p \o g \o h
  BY <1>1, <1>2, <1>3, <1>4, <1>5, <1>6, <1>7, <1>8, <1>9, <1>10 DEF Saves
<1> QED
  BY <1>17, <1>18 DEF Together

LEMMA QuietSession ==
  ASSUME NEW d \in Disks, NEW c \in SessionCommand, Healthy(d), Canon(d) # "none"
  PROVE  AllQuiet(d, c, SessionSteps(d, c)) /\ Together(SessionSteps(d, c))
<1> DEFINE OK(s) == AllQuiet(d, c, s) /\ Together(s)
<1>1. ASSUME NEW s, NEW t, OK(s), OK(t) PROVE OK(s \o t)
  BY <1>1, ConcatTogether
<1>2. d.contract = "ok" /\ d["run"] # "broken"
  BY HealthSays
<1>3. OK(Record("run")) /\ (d["install"] # "broken" => OK(Record("install")))
  BY <1>2, QuietRecord
<1>4. OK(<<>>)
  BY NoneQuiet
<1>5. Route(d, c) \in {"fast", "full", "apply"} =>
        Interface(d, c) \in Known /\ d["install"] # "broken"
  BY RoutesKnow DEF Route
<1>6. Route(d, c) # "onboarding" /\ Route(d, c) # "contract wanted"
  BY <1>2 DEF Route, Valid
<1>7. CASE Route(d, c) = "unread"
  BY <1>3, <1>7 DEF SessionSteps
<1>8. CASE Route(d, c) = "fast"
  <2>1. PICK a : a = Write("auto", Interface(d, c))
    OBVIOUS
  <2>2. PICK h : h = Write("handoff", Interface(d, c))
    OBVIOUS
  <2>3. OK(a) /\ OK(h)
    <3>1. Interface(d, c) \in Value("auto") /\ Interface(d, c) \in Value("handoff")
      BY <1>5, <1>8, ValueOf DEF Names
    <3> QED
      BY <2>1, <2>2, <3>1, QuietWrite DEF Fields, Together
  <2>4. PICK r : r = Record("run")
    OBVIOUS
  <2>5. PICK i : i = Record("install")
    OBVIOUS
  <2>6. OK(r) /\ OK(i)
    BY <1>3, <1>5, <1>8, <2>4, <2>5
  <2>7. SessionSteps(d, c) = r \o i \o a \o h \o r
    BY <1>8, <2>1, <2>2, <2>4, <2>5 DEF SessionSteps
  <2> HIDE DEF OK
  <2>8. OK(r \o i \o a)
    BY <1>1, <2>3, <2>6
  <2>9. OK(r \o i \o a \o h \o r)
    BY <1>1, <2>3, <2>6, <2>8
  <2> QED
    BY <2>7, <2>9 DEF OK
<1>9. CASE Route(d, c) \in {"full", "apply"}
  <2>1. PICK r : r = Record("run")
    OBVIOUS
  <2>2. PICK i : i = Record("install")
    OBVIOUS
  <2>3. PICK m : m = Mkdir(d.dirs \cup {"state"})
    OBVIOUS
  <2>4. PICK s : s = Saves(d, c, Canon(d), d.contract, HasAgents(d))
    OBVIOUS
  <2>5. OK(r) /\ OK(i)
    BY <1>3, <1>5, <1>9, <2>1, <2>2
  <2>6. OK(m)
    BY <2>3, DiskFields, QuietMkdir
  <2>7. OK(s)
    BY <1>5, <1>9, <2>4, DiskFields, QuietSaves DEF HasAgents
  <2>8. Route(d, c) = "full" => SessionSteps(d, c) = r \o i \o r \o s
    BY <2>1, <2>2, <2>4 DEF SessionSteps
  <2>9. Route(d, c) = "apply" => SessionSteps(d, c) = r \o i \o r \o m \o i \o r \o s
    BY <2>1, <2>2, <2>3, <2>4 DEF SessionSteps
  <2> HIDE DEF OK
  <2>10. OK(r \o i \o r)
    BY <1>1, <2>5
  <2>11. OK(r \o i \o r \o s)
    BY <1>1, <2>7, <2>10
  <2>12. OK(r \o i \o r \o m \o i)
    BY <1>1, <2>5, <2>6, <2>10
  <2>13. OK(r \o i \o r \o m \o i \o r \o s)
    BY <1>1, <2>5, <2>7, <2>12
  <2> QED
    BY <1>9, <2>8, <2>9, <2>11, <2>13 DEF OK
<1>10. CASE Route(d, c) \notin {"unread", "fast", "full", "apply"}
  <2>1. SessionSteps(d, c) = <<>>
    BY <1>6, <1>10 DEF SessionSteps
  <2> QED
    BY <1>4, <2>1
<1> QED
  BY <1>7, <1>8, <1>9, <1>10

LEMMA QuietAdvice ==
  ASSUME NEW d \in Disks, Healthy(d), Canon(d) # "none", NEW advice,
         NEW job \in CommandJobs(d, advice) \cup HandJobs(d, advice)
  PROVE  \E c : AllQuiet(d, c, job.steps) /\ Together(job.steps)
<1>1. /\ d.contract = "ok" /\ d["run"] # "broken" /\ d.doc = Rendering(d)
      /\ Canon(d) \notin Blocking
  BY HealthSays
<1>2. CASE \E c \in Sessions(advice) : job = SessionJob(d, c)
  BY <1>2, SessionsAre, QuietSession DEF SessionJob, Job
<1>3. CASE job = Job(RepairSteps(d), <<>>)
  <2>1. job.steps = Record("run")
    BY <1>1, <1>3 DEF Job, RepairSteps
  <2> QED
    BY <1>1, <2>1, QuietRecord
<1>4. CASE job = Job(CollectSteps(d), <<>>)
  <2>1. PICK a : a = Unlink("auto", "none")
    OBVIOUS
  <2>2. PICK h : h = Unlink("handoff", "none")
    OBVIOUS
  <2>3. PICK s : s = Unlink("snapshot", NoSnapshot)
    OBVIOUS
  <2>4. PICK r : r = Record("run")
    OBVIOUS
  <2>5. job.steps = <<>> \/ job.steps = a \o h \o s \o r
    BY <1>4, <2>1, <2>2, <2>3, <2>4 DEF Job, CollectSteps
  <2> DEFINE OK(t) == AllQuiet(d, Start, t) /\ Together(t)
  <2>6. OK(a) /\ OK(h) /\ OK(s) /\ OK(r) /\ OK(<<>>)
    <3>1. "none" \in Value("auto") /\ "none" \in Value("handoff")
          /\ NoSnapshot \in Value("snapshot")
      BY ValueOf, NoSnapshotType DEF Names
    <3> QED
      BY <1>1, <2>1, <2>2, <2>3, <2>4, <3>1, QuietUnlink, QuietRecord, NoneQuiet
  <2>7. \A t, u : OK(t) /\ OK(u) => OK(t \o u)
    BY ConcatTogether
  <2> HIDE DEF OK
  <2>8. OK(a \o h \o s \o r)
    BY <2>6, <2>7
  <2> QED
    BY <2>5, <2>6, <2>8 DEF OK
<1>5. CASE job \in HandJobs(d, advice)
  <2>1. PICK s \in ByHand(d, advice) : job.steps = s
    BY <1>5 DEF HandJobs, Job
  <2>2. s = Write("contract", "ok") \/ s = <<>>
    BY <1>1, <2>1 DEF ByHand, Blocking
  <2>3. "ok" \in Value("contract")
    BY ValueOf DEF Contracts
  <2>4. PICK w : w = Write("contract", "ok")
    OBVIOUS
  <2>5. AllQuiet(d, Start, w) /\ \A g : Touches(w, g) <=> g = "contract"
    BY <2>3, <2>4, QuietWrite DEF Fields
  <2>6. Together(w)
    BY <2>5 DEF Together
  <2>7. AllQuiet(d, Start, s) /\ Together(s)
    BY <2>2, <2>4, <2>5, <2>6, NoneQuiet
  <2> QED
    BY <2>1, <2>7
<1> QED
  BY <1>2, <1>3, <1>4, <1>5 DEF CommandJobs

\* No command that runs to its end makes a healthy store unhealthy, whichever one
\* it is, whatever it was advised by and whatever else is damaged: of what doctor
\* compares it writes nothing, or state and task graph together.
THEOREM HealthIsKept == Spec => HealthyKept
<1>1. DiskOK /\ [Next]_vars =>
        [Healthy(disk) /\ Canon(disk) # "none" /\ (Follow \/ Use) => Healthy(disk')]_vars
  <2> SUFFICES ASSUME disk \in Disks, Healthy(disk), Canon(disk) # "none", Follow \/ Use
               PROVE  Healthy(disk')
    BY DEF DiskOK
  <2>1. CASE Follow
    <3>1. PICK job \in CommandJobs(disk, Head(todo)) \cup HandJobs(disk, Head(todo)) :
            disk' = After(disk, Possible(disk, job.steps))
      BY <2>1 DEF Follow
    <3>2. PICK c : AllQuiet(disk, c, job.steps) /\ Together(job.steps)
      BY <3>1, QuietAdvice
    <3> QED
      BY <3>1, <3>2, QuietPossible, QuietKeeps
  <2>2. CASE Use
    <3>1. PICK c \in SessionCommand :
            disk' = After(disk, Possible(disk, SessionSteps(disk, c)))
      BY <2>2 DEF Use
    <3> QED
      BY <3>1, QuietSession, QuietPossible, QuietKeeps
  <2> QED
    BY <2>1, <2>2
<1> QED
  BY <1>1, DiskInvariant, PTL DEF Spec, HealthyKept
=============================================================================
