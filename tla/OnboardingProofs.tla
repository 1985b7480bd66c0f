-------------------------- MODULE OnboardingProofs --------------------------
(***************************************************************************)
(* Theorems about Onboarding, for any set of commands, any requests and    *)
(* any bounds.                                                             *)
(***************************************************************************)
EXTENDS Onboarding, TLAPS

-----------------------------------------------------------------------------
(* Type correctness *)

LEMMA WritesPlaces ==
  /\ Len(Writes) = 5
  /\ Writes[1] = "generated" /\ Writes[2] = "policy" /\ Writes[3] = "capabilities"
  /\ Writes[4] = "contract" /\ Writes[5] = "onboarding"
  /\ \A i \in 1..5 : Writes[i] \in Files /\ DirOf(Writes[i]) \subseteq Dirs
  /\ \A f \in Files : \E i \in 1..5 : Writes[i] = f
BY DEF Writes, Files, DirOf, Dirs

LEMMA ClassType == \A found : Classify(found) \in Class
BY DEF Classify, Class

LEMMA StoreType ==
  ASSUME TypeOK, NEW s \in [Files -> Content], NEW d \in SUBSET Dirs, Store(s, d)
  PROVE  /\ store' \in [Files -> Content]
         /\ dirs' \subseteq Dirs
         /\ during' \in [Proc -> SUBSET Class]
BY ClassType DEF Store, TypeOK, ClassOf

LEMMA RecordType ==
  ASSUME TypeOK, NEW p \in Proc, NEW s \in Streams, NEW event \in Events,
         NEW next \in PC, Record(p, s, event, next)
  PROVE  /\ recorded' \in [Streams -> SUBSET (Proc \X Events)]
         /\ frozen' \subseteq Streams
         /\ pc' \in [Proc -> PC]
<1> DEFINE with == [recorded EXCEPT ![s] = @ \cup {<<p, event>>}]
<1>1. recorded \in [Streams -> SUBSET (Proc \X Events)] /\ <<p, event>> \in Proc \X Events
  BY DEF TypeOK
<1>2. with \in [Streams -> SUBSET (Proc \X Events)]
  BY <1>1
<1>3. recorded' \in {recorded, with}
  BY DEF Record
<1>4. frozen' \subseteq Streams
  BY DEF Record, TypeOK
<1>5. pc' \in [Proc -> PC]
  <2>1. Goto(p, next) \/ Goto(p, "error")
    BY DEF Record
  <2> QED
    BY <2>1 DEF Goto, TypeOK, PC
<1> QED
  BY <1>1, <1>2, <1>3, <1>4, <1>5

LEMMA TypeStep == TypeOK /\ [Next]_vars => TypeOK'
<1> SUFFICES ASSUME TypeOK, [Next]_vars PROVE TypeOK'
  OBVIOUS
<1> USE OnboardingAssumption
<1>a. Next => raced' \in BOOLEAN
  BY DEF Next, Note, TypeOK
<1>b. ASSUME NEW s \in [Files -> Content], NEW d \in SUBSET Dirs, Operate(s, d), raced' \in BOOLEAN
      PROVE  TypeOK'
  <2>1. /\ store' \in [Files -> Content]
        /\ dirs' \subseteq Dirs
        /\ during' \in [Proc -> SUBSET Class]
    BY <1>b, StoreType DEF Operate
  <2>2. spent' \in 0..Operations /\ deleted' \in BOOLEAN
    BY <1>b DEF Operate, TypeOK
  <2> QED
    BY <1>b, <2>1, <2>2 DEF Operate, TypeOK, auditVars, procVars
<1>c. store \in [Files -> Content] /\ dirs \subseteq Dirs
  BY DEF TypeOK
<1>d. \A fs : Without(fs) \in [Files -> Content]
  BY <1>c DEF Without, Content
<1>1. ASSUME NEW p \in Proc, raced' \in BOOLEAN,
             StatPolicy(p) \/ StatOnboarding(p) \/ StatCanonicalDir(p) \/ StatStateDir(p)
      PROVE  TypeOK'
  <2>1. UNCHANGED <<storeVars, auditVars, req, report, at, opVars>>
    BY <1>1 DEF StatPolicy, StatOnboarding, StatCanonicalDir, StatStateDir, See
  <2>2. saw' \in [Proc -> SUBSET {"policy", "onboarding", "canonical", "state"}]
        /\ pc' \in [Proc -> PC]
    <3>1. ASSUME NEW marker \in {"policy", "onboarding", "canonical", "state"}, NEW there,
                 NEW next \in PC, See(p, marker, there, next)
          PROVE  /\ saw' \in [Proc -> SUBSET {"policy", "onboarding", "canonical", "state"}]
                 /\ pc' \in [Proc -> PC]
      BY <3>1 DEF See, TypeOK, Goto
    <3>2. {"onboarding?", "canonical?", "state?", "route"} \subseteq PC
      BY DEF PC
    <3>3. CASE StatPolicy(p)
      BY <3>1, <3>2, <3>3 DEF StatPolicy
    <3>4. CASE StatOnboarding(p)
      BY <3>1, <3>2, <3>4 DEF StatOnboarding
    <3>5. CASE StatCanonicalDir(p)
      BY <3>1, <3>2, <3>5 DEF StatCanonicalDir
    <3>6. CASE StatStateDir(p)
      BY <3>1, <3>2, <3>6 DEF StatStateDir
    <3> QED
      BY <1>1, <3>3, <3>4, <3>5, <3>6
  <2>3. during' \in [Proc -> SUBSET Class]
    BY <1>1, ClassType DEF StatPolicy, StatOnboarding, StatCanonicalDir, StatStateDir,
       ClassOf, TypeOK
  <2> QED
    BY <1>1, <2>1, <2>2, <2>3 DEF TypeOK, storeVars, auditVars, opVars
<1>2. ASSUME NEW p \in Proc, raced' \in BOOLEAN, Route(p) PROVE TypeOK'
  <2>1. report' \in [Proc -> Class]
    BY <1>2, ClassType DEF Route, TypeOK
  <2>2. /\ recorded' \in [Streams -> SUBSET (Proc \X Events)]
        /\ frozen' \subseteq Streams
        /\ pc' \in [Proc -> PC]
    <3>1. CASE \E next \in {"gate", "contract"} : Record(p, "run", "begin", next)
      BY <3>1, RecordType DEF PC, Streams, Events
    <3>2. CASE UNCHANGED auditVars /\ \E l \in PC : Goto(p, l)
      BY <3>2 DEF TypeOK, Goto, auditVars
    <3> QED
      BY <1>2, <3>1, <3>2 DEF Route, PC
  <2> QED
    BY <1>2, <2>1, <2>2 DEF Route, TypeOK, storeVars, opVars
<1>3. ASSUME NEW p \in Proc, raced' \in BOOLEAN,
             \/ Gate(p) \/ AcceptInstall(p) \/ AcceptRun(p) \/ End(p)
             \/ NoContract(p) \/ NoContractEvent(p)
      PROVE  TypeOK'
  <2>1. /\ recorded' \in [Streams -> SUBSET (Proc \X Events)]
        /\ frozen' \subseteq Streams
        /\ pc' \in [Proc -> PC]
    <3>1. CASE \E s \in Streams, next \in PC, event \in Events : Record(p, s, event, next)
      BY <3>1, RecordType
    <3>2. CASE UNCHANGED auditVars /\ \E l \in PC : Goto(p, l)
      BY <3>2 DEF TypeOK, Goto, auditVars
    <3>3. CASE Gate(p)
      BY <3>1, <3>2, <3>3 DEF Gate, PC, Streams, Events
    <3>4. CASE AcceptInstall(p)
      BY <3>1, <3>4 DEF AcceptInstall, PC, Streams, Events
    <3>5. CASE AcceptRun(p)
      BY <3>1, <3>5 DEF AcceptRun, PC, Streams, Events
    <3>6. CASE End(p)
      BY <3>1, <3>2, <3>6 DEF End, PC, Streams, Events
    <3>7. CASE NoContract(p)
      BY <3>1, <3>7 DEF NoContract, PC, Streams, Events
    <3>8. CASE NoContractEvent(p)
      BY <3>1, <3>8 DEF NoContractEvent, PC, Streams, Events
    <3> QED
      BY <1>3, <3>3, <3>4, <3>5, <3>6, <3>7, <3>8
  <2>2. UNCHANGED <<storeVars, procVars, during, opVars>>
    BY <1>3 DEF Gate, AcceptInstall, AcceptRun, End, NoContract, NoContractEvent
  <2> QED
    BY <1>3, <2>1, <2>2 DEF TypeOK, storeVars, procVars, opVars
<1>4. ASSUME NEW p \in Proc, raced' \in BOOLEAN, MakeDir(p) \/ Truncate(p) \/ WriteFile(p)
      PROVE  TypeOK'
  <2>1. Writes[at[p]] \in Files /\ DirOf(Writes[at[p]]) \subseteq Dirs /\ at[p] \in 1..5
    BY WritesPlaces DEF TypeOK
  <2>2. /\ store' \in [Files -> Content]
        /\ dirs' \subseteq Dirs
        /\ during' \in [Proc -> SUBSET Class]
    BY <1>4, <1>c, <2>1, StoreType DEF MakeDir, Truncate, WriteFile, TypeOK, Content, storeVars
  <2>3. pc' \in [Proc -> PC] /\ at' \in [Proc -> 1..Len(Writes)]
    BY <1>4, <2>1, WritesPlaces DEF MakeDir, Truncate, WriteFile, TypeOK, Goto, PC, procVars
  <2> QED
    BY <1>4, <2>2, <2>3 DEF MakeDir, Truncate, WriteFile, TypeOK, auditVars, procVars, opVars
<1>5. ASSUME NEW p \in Proc, raced' \in BOOLEAN,
             \/ LoadContract(p) \/ LoadPolicy(p) \/ LoadOnboarding(p)
             \/ PreflightInstall(p) \/ PreflightRun(p) \/ Kill(p)
      PROVE  TypeOK'
  BY <1>5 DEF LoadContract, LoadPolicy, LoadOnboarding, PreflightInstall, PreflightRun,
     Check, Kill, TypeOK, Goto, PC, storeVars, auditVars, procVars, opVars
<1>6. ASSUME Operator, raced' \in BOOLEAN PROVE TypeOK'
  <2>1. CASE EditContract
    BY <1>6, <1>b, <1>c, <2>1 DEF EditContract, Files, Content
  <2>2. CASE \E f \in Files : DeleteFile(f)
    BY <1>6, <1>b, <1>c, <1>d, <2>2 DEF DeleteFile
  <2>3. CASE \E d \in Dirs : DeleteDir(d)
    BY <1>6, <1>b, <1>c, <1>d, <2>3 DEF DeleteDir
  <2>4. CASE \E p \in Proc : RestoreIndex(p)
    BY <1>6, <1>b, <1>c, <2>4 DEF RestoreIndex, Files, Content, Dirs
  <2>5. CASE \E p \in Proc : DeleteOnboardingState(p) \/ DeleteDirectories(p)
    BY <1>6, <1>b, <1>c, <1>d, <2>5 DEF DeleteOnboardingState, DeleteDirectories
  <2>6. CASE \E p \in Proc : RestoreContract(p)
    BY <1>6, <1>b, <1>c, <2>6 DEF RestoreContract, Files, Content
  <2> QED
    BY <1>6, <2>1, <2>2, <2>3, <2>4, <2>5, <2>6 DEF Operator
<1>7. CASE UNCHANGED vars
  BY <1>7 DEF TypeOK, vars
<1> QED
  BY <1>a, <1>1, <1>2, <1>3, <1>4, <1>5, <1>6, <1>7 DEF Next, Step

LEMMA TypeInit == Init => TypeOK
<1> SUFFICES ASSUME Init PROVE TypeOK
  OBVIOUS
<1>1. /\ store \in [Files -> Content] /\ dirs \subseteq Dirs
      /\ recorded \in [Streams -> SUBSET (Proc \X Events)] /\ frozen \subseteq Streams
  BY DEF Init, Content
<1>2. /\ pc \in [Proc -> PC] /\ req \in [Proc -> Requests]
      /\ saw \in [Proc -> SUBSET {"policy", "onboarding", "canonical", "state"}]
      /\ report \in [Proc -> Class]
  BY DEF Init, PC, Class
<1>3. at \in [Proc -> 1..Len(Writes)] /\ during \in [Proc -> SUBSET Class]
  BY WritesPlaces DEF Init
<1>4. spent \in 0..Operations
  BY OnboardingAssumption DEF Init
<1>5. deleted \in BOOLEAN /\ raced \in BOOLEAN
  BY Zenon DEF Init
<1> QED
  BY <1>1, <1>2, <1>3, <1>4, <1>5 DEF TypeOK

\* Every variable keeps its type, whatever commands race, die or are repaired.
THEOREM TypeSafe == Spec => []TypeOK
BY TypeInit, TypeStep, PTL DEF Spec

-----------------------------------------------------------------------------
(* The marker comes last *)

Applied == {"acceptInstall", "acceptRun", "end", "accepted"}
Accepting == {"mkdir", "truncate", "write"} \cup Applied

\* The steps of a command that change no file.
Quiet(p) ==
  \/ StatPolicy(p) \/ StatOnboarding(p) \/ StatCanonicalDir(p) \/ StatStateDir(p)
  \/ Route(p) \/ Gate(p) \/ AcceptInstall(p) \/ AcceptRun(p) \/ End(p)
  \/ LoadContract(p) \/ NoContract(p) \/ NoContractEvent(p)
  \/ LoadPolicy(p) \/ LoadOnboarding(p) \/ PreflightInstall(p) \/ PreflightRun(p)
  \/ Kill(p)

Writing(p) == MakeDir(p) \/ Truncate(p) \/ WriteFile(p)

LEMMA NextCases ==
  ASSUME [Next]_vars
  PROVE  \/ \E p \in Proc : Quiet(p) \/ Writing(p)
         \/ Operator
         \/ UNCHANGED vars
BY DEF Next, Step, Quiet, Writing

\* Nothing but a deletion takes a file or a directory away.
Present(f) == store[f] # "absent"
LEMMA NothingLost ==
  ASSUME TypeOK, [Next]_vars, ~deleted'
  PROVE  /\ ~deleted
         /\ \A f \in Files : Present(f) => Present(f)'
         /\ dirs \subseteq dirs'
<1>1. ASSUME NEW s, NEW d, Operate(s, d)
      PROVE  /\ ~deleted
             /\ \A f \in Files : Present(f) => Present(f)'
             /\ dirs \subseteq dirs'
  <2>1. /\ ~deleted /\ Found(store, dirs) \subseteq Found(s, d)
        /\ \A f \in Files : store[f] # "absent" => s[f] # "absent"
    BY <1>1 DEF Operate
  <2>2. store' = s /\ dirs' = d
    BY <1>1 DEF Operate, Store
  <2>3. \A x \in Dirs : x # "policy" /\ x # "onboarding"
    BY DEF Dirs
  <2>4. dirs \subseteq d
    BY <2>1, <2>3 DEF Found, TypeOK
  <2> QED
    BY <2>1, <2>2, <2>4 DEF Present
<1>2. ASSUME NEW p \in Proc, Quiet(p)
      PROVE  UNCHANGED <<store, dirs, deleted>>
  BY <1>2 DEF Quiet, StatPolicy, StatOnboarding, StatCanonicalDir, StatStateDir, See, Route,
     Gate, AcceptInstall, AcceptRun, End, LoadContract, NoContract, NoContractEvent,
     LoadPolicy, LoadOnboarding, PreflightInstall, PreflightRun, Check, Kill, storeVars,
     opVars
<1>3. ASSUME NEW p \in Proc, Writing(p)
      PROVE  /\ ~deleted
             /\ \A f \in Files : Present(f) => Present(f)'
             /\ dirs \subseteq dirs'
  <2>1. deleted' = deleted
    BY <1>3 DEF Writing, MakeDir, Truncate, WriteFile, opVars
  <2>2. CASE MakeDir(p)
    BY <2>1, <2>2 DEF MakeDir, Store, Present
  <2>3. CASE Truncate(p)
    BY <2>1, <2>3 DEF Truncate, Store, Present, storeVars, TypeOK
  <2>4. CASE WriteFile(p)
    BY <2>1, <2>4 DEF WriteFile, Store, Present, TypeOK
  <2> QED
    BY <1>3, <2>2, <2>3, <2>4 DEF Writing
<1>4. Operator => \E s, d : Operate(s, d)
  BY DEF Operator, EditContract, DeleteFile, DeleteDir, RestoreIndex, DeleteOnboardingState,
     DeleteDirectories, RestoreContract
<1>5. CASE UNCHANGED vars
  BY <1>5 DEF vars, Present
<1> QED
  BY <1>1, <1>2, <1>3, <1>4, <1>5, NextCases DEF Present

LEMMA RecordStep ==
  ASSUME TypeOK, NEW p \in Proc, NEW s \in Streams, NEW event, NEW next \in PC,
         Record(p, s, event, next)
  PROVE  /\ pc' = [pc EXCEPT ![p] = pc'[p]]
         /\ pc'[p] \in {next, "error"}
         /\ pc'[p] # "error" => <<p, event>> \in recorded'[s]
         /\ \A t \in Streams : recorded[t] \subseteq recorded'[t]
<1> DEFINE with == [recorded EXCEPT ![s] = @ \cup {<<p, event>>}]
<1>1. with[s] = recorded[s] \cup {<<p, event>>} /\ \A t \in Streams : recorded[t] \subseteq with[t]
  BY DEF TypeOK
<1>2. CASE recorded' = with /\ Goto(p, next)
  BY <1>1, <1>2 DEF Goto, TypeOK
<1>3. CASE recorded' \in {recorded, with} /\ Goto(p, "error")
  BY <1>1, <1>3 DEF Goto, TypeOK
<1> QED
  BY <1>2, <1>3 DEF Record

\* What a quiet step may do to the command that takes it.
LEMMA QuietStep ==
  ASSUME TypeOK, NEW p \in Proc, Quiet(p)
  PROVE  /\ UNCHANGED <<store, dirs, req, at, opVars>>
         /\ pc' = [pc EXCEPT ![p] = pc'[p]]
         /\ pc'[p] # "write" /\ pc[p] # "killed"
         /\ pc[p] = "write" => pc'[p] = "killed"
         /\ pc'[p] \in Applied => pc[p] \in Applied
         /\ pc'[p] \in Accepting =>
              pc[p] \in Accepting \/ (pc[p] = "gate" /\ req[p].approves)
         /\ pc'[p] \in {"acceptRun", "end", "accepted"} =>
              \/ pc[p] \in {"acceptRun", "end", "accepted"}
              \/ <<p, "accept_onboarding">> \in recorded'["install"]
         /\ pc'[p] \in {"end", "accepted"} =>
              \/ pc[p] \in {"end", "accepted"}
              \/ <<p, "onboarding.accepted">> \in recorded'["run"]
<1> DEFINE Goal == /\ UNCHANGED <<store, dirs, req, at, opVars>>
                   /\ pc' = [pc EXCEPT ![p] = pc'[p]]
                   /\ pc'[p] # "write" /\ pc[p] # "killed"
                   /\ pc[p] = "write" => pc'[p] = "killed"
                   /\ pc'[p] \in Applied => pc[p] \in Applied
                   /\ pc'[p] \in Accepting =>
                        pc[p] \in Accepting \/ (pc[p] = "gate" /\ req[p].approves)
                   /\ pc'[p] \in {"acceptRun", "end", "accepted"} =>
                        \/ pc[p] \in {"acceptRun", "end", "accepted"}
                        \/ <<p, "accept_onboarding">> \in recorded'["install"]
                   /\ pc'[p] \in {"end", "accepted"} =>
                        \/ pc[p] \in {"end", "accepted"}
                        \/ <<p, "onboarding.accepted">> \in recorded'["run"]
<1> USE DEF storeVars, procVars, opVars
<1>a. ASSUME NEW l, Goto(p, l)
      PROVE  pc' = [pc EXCEPT ![p] = pc'[p]] /\ pc'[p] = l
  BY <1>a DEF Goto, TypeOK
<1>s. "install" \in Streams /\ "run" \in Streams
  BY DEF Streams
<1>1. ASSUME StatPolicy(p) \/ StatOnboarding(p) \/ StatCanonicalDir(p) \/ StatStateDir(p)
      PROVE  Goal
  BY <1>1, <1>a DEF StatPolicy, StatOnboarding, StatCanonicalDir, StatStateDir, See, Accepting,
     Applied
<1>2. CASE Route(p)
  <2>1. UNCHANGED <<store, dirs, req, at, opVars>> /\ pc[p] = "route"
    BY <1>2 DEF Route
  <2>2. /\ pc' = [pc EXCEPT ![p] = pc'[p]]
        /\ pc'[p] \in {"blocked", "needs_input", "gate", "contract", "error"}
    BY <1>2, <1>a, <1>s, RecordStep DEF Route, PC
  <2> QED
    BY <2>1, <2>2 DEF Accepting, Applied
<1>3. CASE Gate(p)
  <2>1. UNCHANGED <<store, dirs, req, at, opVars>> /\ pc[p] = "gate"
    BY <1>3 DEF Gate
  <2>2. /\ pc' = [pc EXCEPT ![p] = pc'[p]]
        /\ pc'[p] \in {"needs_approval", "error"} \/ (pc'[p] = "mkdir" /\ req[p].approves)
    BY <1>3, <1>a, <1>s, RecordStep DEF Gate, PC
  <2> QED
    BY <2>1, <2>2 DEF Accepting, Applied
<1>4. CASE AcceptInstall(p)
  <2>1. UNCHANGED <<store, dirs, req, at, opVars>> /\ pc[p] = "acceptInstall"
    BY <1>4 DEF AcceptInstall
  <2>2. /\ pc' = [pc EXCEPT ![p] = pc'[p]]
        /\ \/ pc'[p] = "error"
           \/ pc'[p] = "acceptRun" /\ <<p, "accept_onboarding">> \in recorded'["install"]
    BY <1>4, <1>s, RecordStep DEF AcceptInstall, PC
  <2> QED
    BY <2>1, <2>2 DEF Accepting, Applied
<1>5. CASE AcceptRun(p)
  <2>1. UNCHANGED <<store, dirs, req, at, opVars>> /\ pc[p] = "acceptRun"
    BY <1>5 DEF AcceptRun
  <2>2. /\ pc' = [pc EXCEPT ![p] = pc'[p]]
        /\ \/ pc'[p] = "error"
           \/ pc'[p] = "end" /\ <<p, "onboarding.accepted">> \in recorded'["run"]
    BY <1>5, <1>s, RecordStep DEF AcceptRun, PC
  <2> QED
    BY <2>1, <2>2 DEF Accepting, Applied
<1>6. CASE End(p)
  <2>1. UNCHANGED <<store, dirs, req, at, opVars>> /\ pc[p] = "end"
    BY <1>6 DEF End
  <2>2. pc' = [pc EXCEPT ![p] = pc'[p]] /\ pc'[p] \in {"error", "accepted"}
    BY <1>6, <1>a, <1>s, RecordStep DEF End, PC
  <2> QED
    BY <2>1, <2>2 DEF Accepting, Applied
<1>7. CASE NoContract(p) \/ NoContractEvent(p)
  <2>1. UNCHANGED <<store, dirs, req, at, opVars>> /\ pc[p] \in {"noContract", "noContractEvent"}
    BY <1>7 DEF NoContract, NoContractEvent
  <2>2. /\ pc' = [pc EXCEPT ![p] = pc'[p]]
        /\ pc'[p] \in {"error", "noContractEvent", "needs_input"}
    BY <1>7, <1>s, RecordStep DEF NoContract, NoContractEvent, PC
  <2> QED
    BY <2>1, <2>2 DEF Accepting, Applied
<1>8. CASE \/ LoadContract(p) \/ LoadPolicy(p) \/ LoadOnboarding(p)
           \/ PreflightInstall(p) \/ PreflightRun(p)
  BY <1>8, <1>a DEF LoadContract, LoadPolicy, LoadOnboarding, PreflightInstall, PreflightRun,
     Check, Accepting, Applied
<1>9. CASE Kill(p)
  BY <1>9, <1>a DEF Kill, Running, Stopped, Accepting, Applied
<1> QED
  BY <1>1, <1>2, <1>3, <1>4, <1>5, <1>6, <1>7, <1>8, <1>9 DEF Quiet

\* What a writing step may do.
LEMMA WritingDetail ==
  ASSUME TypeOK, NEW p \in Proc, Writing(p)
  PROVE  LET f == Writes[at[p]]
         IN /\ UNCHANGED <<req, saw, report, opVars, auditVars>> /\ f \in Files /\ pc[p] # "killed"
            /\ pc' = [pc EXCEPT ![p] = pc'[p]]
            /\ \/ /\ pc[p] = "mkdir" \/ (pc[p] = "idle" /\ req[p].command = "accept")
                  /\ pc'[p] = "truncate"
                  /\ UNCHANGED <<store, at>> /\ dirs' = dirs \cup DirOf(f)
               \/ /\ pc[p] = "truncate" /\ pc'[p] = "write"
                  /\ store' = [store EXCEPT ![f] = "torn"] /\ UNCHANGED <<dirs, at>>
               \/ /\ pc[p] = "truncate" /\ pc'[p] = "error" /\ ~(DirOf(f) \subseteq dirs)
                  /\ UNCHANGED <<store, dirs, at>>
               \/ /\ pc[p] = "write" /\ pc'[p] = "mkdir" /\ at[p] < 5
                  /\ store' = [store EXCEPT ![f] = IF @ = "absent" THEN @ ELSE "default"]
                  /\ at' = [at EXCEPT ![p] = at[p] + 1] /\ UNCHANGED dirs
               \/ /\ pc[p] = "write" /\ pc'[p] = "acceptInstall" /\ at[p] = 5
                  /\ store' = [store EXCEPT ![f] = IF @ = "absent" THEN @ ELSE "default"]
                  /\ UNCHANGED <<dirs, at>>
<1> USE DEF storeVars, procVars, opVars
<1>1. at[p] \in 1..5 /\ Len(Writes) = 5 /\ Writes[at[p]] \in Files
  BY WritesPlaces DEF TypeOK
<1>2. \A l : Goto(p, l) => pc' = [pc EXCEPT ![p] = pc'[p]] /\ pc'[p] = l
  BY DEF Goto, TypeOK
<1>3. CASE MakeDir(p)
  BY <1>1, <1>2, <1>3 DEF MakeDir, Store
<1>4. CASE Truncate(p)
  BY <1>1, <1>2, <1>4 DEF Truncate, Store
<1>5. CASE WriteFile(p)
  <2> DEFINE f == Writes[at[p]]
  <2>1. [store EXCEPT ![f] = IF @ = "absent" THEN @ ELSE "default"] =
        IF store[f] = "absent" THEN store ELSE [store EXCEPT ![f] = "default"]
    BY <1>1 DEF TypeOK
  <2>2. pc[p] = "write" /\ UNCHANGED <<dirs, req, saw, report, opVars, auditVars>>
        /\ store' = [store EXCEPT ![f] = IF @ = "absent" THEN @ ELSE "default"]
    BY <1>5, <2>1 DEF WriteFile, Store
  <2>3. pc' = [pc EXCEPT ![p] = pc'[p]]
        /\ \/ at[p] = 5 /\ pc'[p] = "acceptInstall" /\ UNCHANGED at
           \/ at[p] # 5 /\ pc'[p] = "mkdir" /\ at' = [at EXCEPT ![p] = at[p] + 1]
    BY <1>1, <1>2, <1>5 DEF WriteFile
  <2> QED
    BY <1>1, <2>2, <2>3
<1> QED
  BY <1>3, <1>4, <1>5 DEF Writing

\* The same as far as the files and the command that writes go.
LEMMA WritingStep ==
  ASSUME TypeOK, NEW p \in Proc, Writing(p)
  PROVE  LET f == Writes[at[p]]
         IN /\ UNCHANGED <<req, opVars, auditVars>> /\ f \in Files /\ pc[p] # "killed"
            /\ pc' = [pc EXCEPT ![p] = pc'[p]]
            /\ \/ /\ pc[p] = "mkdir" \/ (pc[p] = "idle" /\ req[p].command = "accept")
                  /\ pc'[p] = "truncate"
                  /\ UNCHANGED <<store, at>>
               \/ /\ pc[p] = "truncate" /\ pc'[p] = "write"
                  /\ store' = [store EXCEPT ![f] = "torn"] /\ UNCHANGED at
               \/ /\ pc[p] = "truncate" /\ pc'[p] = "error"
                  /\ UNCHANGED <<store, at>>
               \/ /\ pc[p] = "write" /\ pc'[p] = "mkdir" /\ at[p] < 5
                  /\ store' = [store EXCEPT ![f] = IF @ = "absent" THEN @ ELSE "default"]
                  /\ at' = [at EXCEPT ![p] = at[p] + 1]
               \/ /\ pc[p] = "write" /\ pc'[p] = "acceptInstall" /\ at[p] = 5
                  /\ store' = [store EXCEPT ![f] = IF @ = "absent" THEN @ ELSE "default"]
                  /\ UNCHANGED at
BY WritingDetail

\* What the operator can make of a file.
LEMMA OperatorStore ==
  ASSUME TypeOK, Operator
  PROVE  /\ UNCHANGED <<pc, req, at, saw, report, recorded, frozen>>
         /\ \A f \in Files :
              \/ store'[f] \in {store[f], "absent"}
              \/ f = "contract" /\ Whole("contract") /\ store'[f] = "edited"
              \/ f = "policy" /\ store'[f] = "default" /\ \E p \in Proc : RestoreIndex(p)
              \/ f = "contract" /\ store'[f] = "default" /\ \E p \in Proc : RestoreContract(p)
         /\ dirs' \subseteq dirs \/ \E p \in Proc : RestoreIndex(p)
<1> USE DEF Operate, Store, auditVars, procVars
<1>1. CASE EditContract
  <2>1. /\ UNCHANGED <<pc, req, at, saw, report, recorded, frozen>> /\ Whole("contract")
        /\ store' = [store EXCEPT !["contract"] = "edited"] /\ dirs' = dirs
    BY <1>1 DEF EditContract
  <2> QED
    BY <2>1 DEF TypeOK
<1>2. ASSUME NEW f \in Files, DeleteFile(f)
      PROVE  /\ UNCHANGED <<pc, req, at, saw, report, recorded, frozen>>
             /\ \A g \in Files : store'[g] \in {store[g], "absent"}
             /\ dirs' \subseteq dirs
  BY <1>2 DEF DeleteFile, Without
<1>3. ASSUME NEW d \in Dirs, DeleteDir(d)
      PROVE  /\ UNCHANGED <<pc, req, at, saw, report, recorded, frozen>>
             /\ \A g \in Files : store'[g] \in {store[g], "absent"}
             /\ dirs' \subseteq dirs
  BY <1>3 DEF DeleteDir, Without
<1>4. ASSUME NEW p \in Proc, DeleteOnboardingState(p) \/ DeleteDirectories(p)
      PROVE  /\ UNCHANGED <<pc, req, at, saw, report, recorded, frozen>>
             /\ \A g \in Files : store'[g] \in {store[g], "absent"}
             /\ dirs' \subseteq dirs
  BY <1>4 DEF DeleteOnboardingState, DeleteDirectories, Without
<1>5. ASSUME NEW p \in Proc, RestoreIndex(p)
      PROVE  /\ UNCHANGED <<pc, req, at, saw, report, recorded, frozen>>
             /\ \A g \in Files : store'[g] = store[g] \/ (g = "policy" /\ store'[g] = "default")
  <2>1. /\ UNCHANGED <<pc, req, at, saw, report, recorded, frozen>>
        /\ store' = [store EXCEPT !["policy"] = "default"]
    BY <1>5 DEF RestoreIndex
  <2> QED
    BY <2>1 DEF TypeOK
<1>6. ASSUME NEW p \in Proc, RestoreContract(p)
      PROVE  /\ UNCHANGED <<pc, req, at, saw, report, recorded, frozen>>
             /\ \A g \in Files : store'[g] = store[g] \/ (g = "contract" /\ store'[g] = "default")
             /\ dirs' = dirs
  <2>1. /\ UNCHANGED <<pc, req, at, saw, report, recorded, frozen>>
        /\ store' = [store EXCEPT !["contract"] = "default"] /\ dirs' = dirs
    BY <1>6 DEF RestoreContract
  <2> QED
    BY <2>1 DEF TypeOK
<1> QED
  BY <1>1, <1>2, <1>3, <1>4, <1>5, <1>6 DEF Operator

LEMMA OperatorStep ==
  ASSUME TypeOK, Operator
  PROVE  /\ UNCHANGED <<pc, req, at, saw, report, recorded, frozen>>
         /\ \A f \in Files : store'[f] = "torn" => store[f] = "torn"
BY OperatorStore

\* What MarkerLast rests on: an accept comes to a file over all those before
\* it in Writes, and none of them goes away again.
MarkerInv ==
  /\ \A f \in Files : store[f] = "torn" => Unfinished(f)
  /\ ~deleted =>
       /\ \A p \in Proc :
            /\ \A j \in 1..5 : j < at[p] => Present(Writes[j])
            /\ pc[p] = "write" => Present(Writes[at[p]])
            /\ pc[p] \in Applied => \A f \in Files : Present(f)
       /\ Present("onboarding") => \A f \in Files : Present(f)

LEMMA TornStep ==
  ASSUME TypeOK, [Next]_vars, \A f \in Files : store[f] = "torn" => Unfinished(f)
  PROVE  \A f \in Files : store'[f] = "torn" => Unfinished(f)'
<1> SUFFICES ASSUME NEW f \in Files, store'[f] = "torn" PROVE Unfinished(f)'
  OBVIOUS
<1>a. \A q \in Proc : pc'[q] \in {"write", "killed"} /\ Writes[at'[q]] = f => Unfinished(f)'
  BY DEF Unfinished
<1>b. ASSUME store[f] = "torn"
      PROVE  \E q \in Proc : pc[q] \in {"write", "killed"} /\ Writes[at[q]] = f
  BY <1>b DEF Unfinished
<1>1. ASSUME NEW p \in Proc, Quiet(p) PROVE Unfinished(f)'
  <2>1. /\ UNCHANGED <<store, at>> /\ pc' = [pc EXCEPT ![p] = pc'[p]] /\ pc[p] # "killed"
        /\ pc[p] = "write" => pc'[p] = "killed"
    BY <1>1, QuietStep
  <2>2. PICK q \in Proc : pc[q] \in {"write", "killed"} /\ Writes[at[q]] = f
    BY <1>b, <2>1
  <2>3. pc'[q] \in {"write", "killed"}
    BY <2>1, <2>2 DEF TypeOK
  <2> QED
    BY <1>a, <2>1, <2>2, <2>3
<1>2. ASSUME NEW p \in Proc, Writing(p) PROVE Unfinished(f)'
  <2>1. CASE Writes[at[p]] = f /\ pc[p] # "write"
    <3>1. CASE pc'[p] = "write" /\ UNCHANGED at
      BY <1>2, <1>a, <2>1, <3>1
    <3>2. CASE store'[f] = store[f] /\ pc[p] # "killed" /\ pc[p] # "write" /\ UNCHANGED at
               /\ pc' = [pc EXCEPT ![p] = pc'[p]]
      BY <1>a, <1>b, <3>2 DEF TypeOK
    <3> QED
      BY <1>2, <2>1, <3>1, <3>2, WritingStep
  <2>2. CASE Writes[at[p]] = f /\ pc[p] = "write"
    <3>1. store'[f] \in {"absent", "default"}
      BY <1>2, <2>2, WritingStep DEF TypeOK
    <3> QED
      BY <3>1
  <2>3. CASE Writes[at[p]] # f
    <3>1. /\ store'[f] = store[f]
          /\ \A q \in Proc \ {p} : pc'[q] = pc[q] /\ at'[q] = at[q]
          /\ pc[p] # "killed"
      BY <1>2, <2>3, WritingStep DEF TypeOK
    <3>2. PICK q \in Proc : pc[q] \in {"write", "killed"} /\ Writes[at[q]] = f
      BY <1>b, <3>1
    <3> QED
      BY <1>a, <2>3, <3>1, <3>2
  <2> QED
    BY <2>1, <2>2, <2>3
<1>3. CASE Operator \/ UNCHANGED vars
  <2>1. UNCHANGED <<pc, at>> /\ store[f] = "torn"
    BY <1>3, OperatorStep DEF vars
  <2> QED
    BY <1>a, <1>b, <2>1
<1> QED
  BY <1>1, <1>2, <1>3, NextCases

LEMMA MarkerStep == TypeOK /\ MarkerInv /\ [Next]_vars => MarkerInv'
<1> SUFFICES ASSUME TypeOK, MarkerInv, [Next]_vars PROVE MarkerInv'
  OBVIOUS
<1>1. \A f \in Files : store'[f] = "torn" => Unfinished(f)'
  BY TornStep DEF MarkerInv
<1>2. ASSUME ~deleted'
      PROVE  /\ \A q \in Proc :
                  /\ \A j \in 1..5 : j < at'[q] => Present(Writes[j])'
                  /\ pc'[q] = "write" => store'[Writes[at'[q]]] # "absent"
                  /\ pc'[q] \in Applied => \A f \in Files : Present(f)'
             /\ Present("onboarding")' => \A f \in Files : Present(f)'
  <2>1. ~deleted /\ \A f \in Files : Present(f) => Present(f)'
    BY <1>2, NothingLost
  <2>2. /\ \A q \in Proc :
             /\ \A j \in 1..5 : j < at[q] => Present(Writes[j])
             /\ pc[q] = "write" => Present(Writes[at[q]])
             /\ pc[q] \in Applied => \A f \in Files : Present(f)
        /\ Present("onboarding") => \A f \in Files : Present(f)
    BY <2>1 DEF MarkerInv
  <2>a. \A j \in 1..5 : Writes[j] \in Files
    BY WritesPlaces
  <2>b. \A q \in Proc : at[q] \in 1..5
    BY WritesPlaces DEF TypeOK
  <2>c. ASSUME NEW q \in Proc, UNCHANGED <<pc[q], at[q]>>
        PROVE  /\ \A j \in 1..5 : j < at'[q] => Present(Writes[j])'
               /\ pc'[q] = "write" => store'[Writes[at'[q]]] # "absent"
               /\ pc'[q] \in Applied => \A f \in Files : Present(f)'
    BY <2>1, <2>2, <2>a, <2>b, <2>c DEF Present
  <2>d. ASSUME UNCHANGED <<store, dirs>> \/ (store["onboarding"] = "absent" => store'["onboarding"] = "absent")
        PROVE  Present("onboarding")' => \A f \in Files : Present(f)'
    BY <2>1, <2>2, <2>d DEF Present
  <2>3. ASSUME NEW p \in Proc, Quiet(p)
        PROVE  /\ \A q \in Proc :
                  /\ \A j \in 1..5 : j < at'[q] => Present(Writes[j])'
                  /\ pc'[q] = "write" => store'[Writes[at'[q]]] # "absent"
                  /\ pc'[q] \in Applied => \A f \in Files : Present(f)'
               /\ Present("onboarding")' => \A f \in Files : Present(f)'
    <3>0. /\ UNCHANGED <<store, dirs, at>> /\ pc' = [pc EXCEPT ![p] = pc'[p]]
          /\ pc'[p] # "write" /\ (pc'[p] \in Applied => pc[p] \in Applied)
      BY <2>3, QuietStep
    <3>1. /\ UNCHANGED <<store, dirs, at>> /\ \A q \in Proc \ {p} : pc'[q] = pc[q]
          /\ pc'[p] # "write" /\ (pc'[p] \in Applied => pc[p] \in Applied)
      BY <3>0 DEF TypeOK
    <3>2. \A q \in Proc \ {p} : UNCHANGED <<pc[q], at[q]>>
      BY <3>1
    <3> QED
      BY <2>1, <2>2, <2>c, <2>d, <3>1, <3>2 DEF Present
  <2>4. ASSUME NEW p \in Proc, Writing(p)
        PROVE  /\ \A q \in Proc :
                  /\ \A j \in 1..5 : j < at'[q] => Present(Writes[j])'
                  /\ pc'[q] = "write" => store'[Writes[at'[q]]] # "absent"
                  /\ pc'[q] \in Applied => \A f \in Files : Present(f)'
               /\ Present("onboarding")' => \A f \in Files : Present(f)'
    <3>1. \A q \in Proc \ {p} : UNCHANGED <<pc[q], at[q]>>
      BY <2>4, WritingStep DEF TypeOK
    <3>2. \A j \in 1..5 : j < at'[p] => Present(Writes[j])'
      <4>1. \/ at'[p] = at[p]
            \/ pc[p] = "write" /\ at'[p] = at[p] + 1
        BY <2>4, WritingStep DEF TypeOK
      <4>2. CASE at'[p] = at[p]
        BY <2>1, <2>2, <2>a, <4>2
      <4>3. CASE pc[p] = "write" /\ at'[p] = at[p] + 1
        <5>1. \A j \in 1..5 : j < at'[p] => j < at[p] \/ j = at[p]
          BY <2>b, <4>3
        <5> QED
          BY <2>1, <2>2, <2>a, <4>3, <5>1
      <4> QED
        BY <4>1, <4>2, <4>3
    <3>3. pc'[p] = "write" => store'[Writes[at'[p]]] # "absent"
      BY <2>4, <2>b, WritingStep DEF TypeOK
    <3>4. pc'[p] \in Applied => \A f \in Files : Present(f)'
      <4>1. SUFFICES ASSUME pc'[p] \in Applied, NEW f \in Files PROVE Present(f)'
        OBVIOUS
      <4>2. pc[p] = "write" /\ at[p] = 5
        BY <2>4, <4>1, WritingStep DEF Applied
      <4>3. PICK j \in 1..5 : Writes[j] = f
        BY WritesPlaces
      <4>4. j < at[p] \/ j = at[p]
        BY <4>2
      <4> QED
        BY <2>1, <2>2, <4>2, <4>3, <4>4
    <3>5. Present("onboarding")' => \A f \in Files : Present(f)'
      <4>1. CASE Writes[at[p]] # "onboarding"
        <5>1. store'["onboarding"] = store["onboarding"]
          BY <2>4, <4>1, WritingStep DEF TypeOK, Files
        <5> QED
          BY <2>d, <5>1
      <4>2. CASE Writes[at[p]] = "onboarding" /\ pc[p] = "truncate"
        <5>1. at[p] = 5
          BY <2>b, <4>2, WritesPlaces
        <5>2. \A j \in 1..4 : Present(Writes[j])'
          BY <2>1, <2>2, <2>a, <5>1
        <5>3. \A f \in Files : f # "onboarding" => \E j \in 1..4 : Writes[j] = f
          BY DEF Files, Writes
        <5> QED
          BY <5>2, <5>3
      <4>3. CASE Writes[at[p]] = "onboarding" /\ pc[p] # "truncate"
        <5>1. store["onboarding"] = "absent" => store'["onboarding"] = "absent"
          BY <2>4, <4>3, WritingStep DEF TypeOK
        <5> QED
          BY <2>d, <5>1
      <4> QED
        BY <4>1, <4>2, <4>3
    <3> QED
      BY <2>c, <3>1, <3>2, <3>3, <3>4, <3>5
  <2>5. CASE Operator
    <3>1. UNCHANGED <<pc, at>>
      BY <2>5, OperatorStep
    <3>2. store["onboarding"] = "absent" => store'["onboarding"] = "absent"
      BY <2>5 DEF Operator, EditContract, DeleteFile, DeleteDir, RestoreIndex,
         DeleteOnboardingState, DeleteDirectories, RestoreContract, Operate, Store, Without,
         Files, TypeOK
    <3> QED
      BY <2>c, <2>d, <3>1, <3>2
  <2>6. CASE UNCHANGED vars
    <3>1. UNCHANGED <<pc, at, store, dirs>>
      BY <2>6 DEF vars
    <3> QED
      BY <2>c, <2>d, <3>1
  <2> QED
    BY <2>3, <2>4, <2>5, <2>6, NextCases
<1> QED
  BY <1>1, <1>2 DEF MarkerInv, Present

LEMMA MarkerInit == Init => MarkerInv
BY DEF Init, MarkerInv, Present, Applied, Files

\* The marker that declares onboarding complete is never there before the files
\* it stands for, and every torn file is one that an accept is rewriting or was
\* killed rewriting, for any number of commands.
THEOREM MarkerIsLast == Spec => []MarkerLast
<1>1. MarkerInv => MarkerLast
  BY DEF MarkerInv, MarkerLast, Present
<1> QED
  BY <1>1, MarkerInit, MarkerStep, TypeSafe, PTL DEF Spec

-----------------------------------------------------------------------------
(* What a reported acceptance stands for *)

\* What AcceptedComplete rests on: only an approved command writes, and it
\* passes the two appends in this order.
AcceptedInv ==
  \A p \in Proc :
    /\ pc[p] \in Accepting => req[p].command = "accept" \/ req[p].approves
    /\ pc[p] \in {"acceptRun", "end", "accepted"} =>
         <<p, "accept_onboarding">> \in recorded["install"]
    /\ pc[p] \in {"end", "accepted"} =>
         <<p, "onboarding.accepted">> \in recorded["run"]

\* Streams only grow, and a command keeps its arguments.
LEMMA StreamsGrow ==
  ASSUME TypeOK, [Next]_vars
  PROVE  req' = req /\ \A s \in Streams : recorded[s] \subseteq recorded'[s]
<1> USE DEF auditVars, procVars
<1>1. ASSUME UNCHANGED <<recorded, frozen>> \/
             \E p \in Proc, s \in Streams, event \in Events, next \in PC : Record(p, s, event, next)
      PROVE  \A s \in Streams : recorded[s] \subseteq recorded'[s]
  BY <1>1, RecordStep
<1>s. "install" \in Streams /\ "run" \in Streams
  BY DEF Streams
<1>2. ASSUME NEW p \in Proc, Quiet(p)
      PROVE  req' = req /\ \A s \in Streams : recorded[s] \subseteq recorded'[s]
  <2>1. req' = req
    BY <1>2, QuietStep
  <2>2. CASE Route(p)
    BY <1>1, <1>s, <2>1, <2>2 DEF Route, PC, Events
  <2>3. CASE Gate(p) \/ End(p)
    BY <1>1, <1>s, <2>1, <2>3 DEF Gate, End, PC, Events
  <2>4. CASE AcceptInstall(p) \/ AcceptRun(p) \/ NoContract(p) \/ NoContractEvent(p)
    BY <1>1, <1>s, <2>1, <2>4 DEF AcceptInstall, AcceptRun, NoContract, NoContractEvent, PC, Events
  <2>5. CASE ~(\/ Route(p) \/ Gate(p) \/ End(p) \/ AcceptInstall(p) \/ AcceptRun(p)
               \/ NoContract(p) \/ NoContractEvent(p))
    BY <1>1, <1>2, <2>1, <2>5 DEF Quiet, StatPolicy, StatOnboarding, StatCanonicalDir,
       StatStateDir, See, LoadContract, LoadPolicy, LoadOnboarding, PreflightInstall,
       PreflightRun, Check, Kill
  <2> QED
    BY <2>2, <2>3, <2>4, <2>5
<1>3. ASSUME NEW p \in Proc, Writing(p)
      PROVE  req' = req /\ \A s \in Streams : recorded[s] \subseteq recorded'[s]
  BY <1>3, WritingStep
<1>4. CASE Operator
  BY <1>4, OperatorStep
<1>5. CASE UNCHANGED vars
  BY <1>5 DEF vars
<1> QED
  BY <1>2, <1>3, <1>4, <1>5, NextCases

LEMMA AcceptedStep == TypeOK /\ AcceptedInv /\ [Next]_vars => AcceptedInv'
<1> SUFFICES ASSUME TypeOK, AcceptedInv, [Next]_vars, NEW q \in Proc
             PROVE  /\ pc'[q] \in Accepting => req'[q].command = "accept" \/ req'[q].approves
                    /\ pc'[q] \in {"acceptRun", "end", "accepted"} =>
                         <<q, "accept_onboarding">> \in recorded'["install"]
                    /\ pc'[q] \in {"end", "accepted"} =>
                         <<q, "onboarding.accepted">> \in recorded'["run"]
  BY DEF AcceptedInv
<1>1. /\ pc[q] \in Accepting => req[q].command = "accept" \/ req[q].approves
      /\ pc[q] \in {"acceptRun", "end", "accepted"} =>
           <<q, "accept_onboarding">> \in recorded["install"]
      /\ pc[q] \in {"end", "accepted"} =>
           <<q, "onboarding.accepted">> \in recorded["run"]
  BY DEF AcceptedInv
<1>2. /\ req' = req
      /\ recorded["install"] \subseteq recorded'["install"]
      /\ recorded["run"] \subseteq recorded'["run"]
  BY StreamsGrow DEF Streams
<1>3. CASE pc'[q] = pc[q]
  BY <1>1, <1>2, <1>3
<1>4. ASSUME NEW p \in Proc, Quiet(p), p = q
      PROVE  /\ pc'[q] \in Accepting => req[q].command = "accept" \/ req[q].approves
             /\ pc'[q] \in {"acceptRun", "end", "accepted"} =>
                  <<q, "accept_onboarding">> \in recorded'["install"]
             /\ pc'[q] \in {"end", "accepted"} =>
                  <<q, "onboarding.accepted">> \in recorded'["run"]
  BY <1>1, <1>2, <1>4, QuietStep
<1>5. ASSUME NEW p \in Proc, Writing(p), p = q
      PROVE  /\ pc'[q] \in Accepting => req[q].command = "accept" \/ req[q].approves
             /\ pc'[q] \notin {"acceptRun", "end", "accepted"}
  BY <1>1, <1>5, WritingStep DEF Accepting, Applied
<1>6. \/ pc'[q] = pc[q]
      \/ \E p \in Proc : (Quiet(p) \/ Writing(p)) /\ p = q
  <2>1. \A p \in Proc : Quiet(p) \/ Writing(p) => pc' = [pc EXCEPT ![p] = pc'[p]]
    BY QuietStep, WritingStep
  <2>2. Operator \/ UNCHANGED vars => pc' = pc
    BY OperatorStep DEF vars
  <2> QED
    BY <2>1, <2>2, NextCases DEF TypeOK
<1> QED
  BY <1>2, <1>3, <1>4, <1>5, <1>6

LEMMA AcceptedInit == Init => AcceptedInv
BY DEF Init, AcceptedInv, Accepting, Applied

\* A command that reported an accepted onboarding was approved, left both its
\* events in the streams and a store all of whose files are whole or being
\* rewritten by another accept, for any number of commands.
THEOREM AcceptedIsComplete == Spec => []AcceptedComplete
<1>1. TypeOK /\ MarkerInv /\ AcceptedInv => AcceptedComplete
  <2> SUFFICES ASSUME TypeOK, MarkerInv, AcceptedInv, NEW p \in Proc, pc[p] = "accepted"
               PROVE  /\ req[p].command = "accept" \/ req[p].approves
                      /\ <<p, "accept_onboarding">> \in recorded["install"]
                      /\ <<p, "onboarding.accepted">> \in recorded["run"]
                      /\ ~deleted => \A f \in Files : Whole(f) \/ Unfinished(f)
    BY DEF AcceptedComplete
  <2>1. ~deleted => \A f \in Files : Present(f)
    BY DEF MarkerInv, Applied
  <2>2. \A f \in Files : store[f] \in {"default", "edited"} \/ store[f] = "torn" \/ ~Present(f)
    BY DEF TypeOK, Content, Present
  <2>3. ~deleted => \A f \in Files : Whole(f) \/ Unfinished(f)
    BY <2>1, <2>2 DEF MarkerInv, Whole
  <2> QED
    BY <2>3 DEF AcceptedInv, Accepting, Applied
<1> QED
  BY <1>1, MarkerInit, MarkerStep, AcceptedInit, AcceptedStep, TypeSafe, PTL DEF Spec

-----------------------------------------------------------------------------
(* Detection reports a state the store was in *)

\* While nothing is deleted, canonical/ is there before the index in it, and
\* state/ only after the index.
Placed ==
  /\ Present("policy") => "canonical" \in dirs
  /\ "state" \in dirs => Present("policy")

Looked(p) == req[p].command # "accept" /\ pc[p] \notin {"idle", "killed"}

\* What a command has found is still there, and the states it may come to
\* report are among those the store has been in since its first stat call.
View(p) ==
  /\ pc[p] = "idle" => saw[p] = {}
  /\ saw[p] \subseteq Found(store, dirs)
  /\ pc[p] \in Detecting => ClassOf(store, dirs) \in during[p]
  /\ pc[p] \in Detecting /\ "policy" \notin saw[p] /\ dirs # {} =>
       "corrupt_state" \in during[p]
  /\ {"policy", "onboarding"} \subseteq saw[p] => "onboarding_complete" \in during[p]
  /\ Looked(p) /\ pc[p] # "onboarding?" /\ "policy" \in saw[p] /\ "onboarding" \notin saw[p]
       => "canonical_present" \in during[p]
  /\ "policy" \notin saw[p] /\ saw[p] \cap Dirs # {} => "corrupt_state" \in during[p]
  /\ Looked(p) /\ "policy" \notin saw[p] /\ "none" \notin during[p] =>
       \/ "canonical" \in saw[p]
       \/ "canonical" \in dirs /\ pc[p] \in {"onboarding?", "canonical?"}
  /\ report[p] = "partial_state" => "onboarding" \in saw[p]
  /\ Routed(p) /\ report[p] # "partial_state" => report[p] \in during[p]

ReportInv == ~deleted => Placed /\ \A p \in Proc : View(p)

LEMMA ClassFacts ==
  ASSUME NEW s, NEW d \in SUBSET Dirs
  PROVE  /\ s["policy"] # "absent" /\ s["onboarding"] # "absent" =>
              ClassOf(s, d) = "onboarding_complete"
         /\ s["policy"] # "absent" /\ s["onboarding"] = "absent" =>
              ClassOf(s, d) = "canonical_present"
         /\ s["policy"] = "absent" /\ s["onboarding"] = "absent" =>
              ClassOf(s, d) = IF d = {} THEN "none" ELSE "corrupt_state"
         /\ \A x \in Dirs : x \in Found(s, d) <=> x \in d
         /\ "policy" \in Found(s, d) <=> s["policy"] # "absent"
         /\ "onboarding" \in Found(s, d) <=> s["onboarding"] # "absent"
<1>1. "policy" \notin d /\ "onboarding" \notin d
  BY DEF Dirs
<1>2. /\ \A x \in Dirs : x \in Found(s, d) <=> x \in d
      /\ "policy" \in Found(s, d) <=> s["policy"] # "absent"
      /\ "onboarding" \in Found(s, d) <=> s["onboarding"] # "absent"
  BY <1>1 DEF Found, Dirs
<1>3. s["policy"] = "absent" /\ s["onboarding"] = "absent" => Found(s, d) = d
  BY DEF Found
<1> QED
  BY <1>1, <1>2, <1>3 DEF ClassOf, Classify

LEMMA Grows ==
  ASSUME TypeOK, [Next]_vars, ~deleted'
  PROVE  ~deleted /\ Found(store, dirs) \subseteq Found(store', dirs')
<1>1. ~deleted /\ dirs \subseteq dirs' /\ \A f \in Files : Present(f) => Present(f)'
  BY NothingLost
<1> QED
  BY <1>1 DEF Found, Present, Files

\* The first directory comes into a store that has neither marker.
LEMMA FirstDirectory ==
  ASSUME TypeOK, [Next]_vars, ~deleted', MarkerInv, Placed, \A p \in Proc : View(p)
  PROVE  /\ Placed'
         /\ dirs = {} /\ dirs' # {} =>
              store'["policy"] = "absent" /\ store'["onboarding"] = "absent"
<1>0. ~deleted /\ dirs \subseteq dirs' /\ \A f \in Files : Present(f) => Present(f)'
  BY NothingLost
<1>1. Present("onboarding") => Present("policy")
  BY <1>0 DEF MarkerInv, Files
<1>2. ASSUME UNCHANGED <<store, dirs>> \/ (dirs' = dirs /\ (Present("policy")' => Present("policy")))
      PROVE  /\ Placed'
             /\ dirs = {} /\ dirs' # {} =>
                  store'["policy"] = "absent" /\ store'["onboarding"] = "absent"
  BY <1>0, <1>2 DEF Placed, Present, Files
<1>3. ASSUME NEW p \in Proc, Quiet(p)
      PROVE  UNCHANGED <<store, dirs>>
  BY <1>3, QuietStep
<1>4. ASSUME NEW p \in Proc, MakeDir(p)
      PROVE  /\ Placed'
             /\ dirs = {} /\ dirs' # {} =>
                  store'["policy"] = "absent" /\ store'["onboarding"] = "absent"
  <2>1. store' = store /\ dirs' = dirs \cup DirOf(Writes[at[p]])
    BY <1>4 DEF MakeDir, Store
  <2>2. "state" \in dirs' => "state" \in dirs \/ at[p] = 5
    BY <2>1 DEF TypeOK, DirOf, Writes
  <2>3. at[p] = 5 => Present("policy")
    BY <1>0 DEF MarkerInv, Writes
  <2> QED
    BY <1>0, <1>1, <2>1, <2>2, <2>3 DEF Placed, Present
<1>5. ASSUME NEW p \in Proc, Truncate(p)
      PROVE  /\ Placed'
             /\ dirs = {} /\ dirs' # {} =>
                  store'["policy"] = "absent" /\ store'["onboarding"] = "absent"
  <2>1. dirs' = dirs
    BY <1>5 DEF Truncate, Store, storeVars
  <2>2. Present("policy")' /\ ~Present("policy") => "canonical" \in dirs
    <3>1. Writes[at[p]] \in Files
      BY WritesPlaces DEF TypeOK
    <3>2. Present("policy")' /\ ~Present("policy") => Writes[at[p]] = "policy"
      BY <1>5, <3>1 DEF Truncate, Store, storeVars, Present, TypeOK, Files
    <3> QED
      BY <1>5, <3>2 DEF Truncate, Store, storeVars, Present, DirOf
  <2> QED
    BY <1>0, <2>1, <2>2 DEF Placed, Files
<1>6. ASSUME NEW p \in Proc, WriteFile(p)
      PROVE  dirs' = dirs /\ (Present("policy")' => Present("policy"))
  <2>1. Writes[at[p]] \in Files
    BY WritesPlaces DEF TypeOK
  <2> QED
    BY <1>6, <2>1 DEF WriteFile, Store, Present, TypeOK, Files
<1>7. ASSUME Operator, ~\E p \in Proc : RestoreIndex(p)
      PROVE  dirs' = dirs /\ (Present("policy")' => Present("policy"))
  <2>1. dirs' \subseteq dirs /\ (Present("policy")' => Present("policy"))
    BY <1>7 DEF Operator, EditContract, DeleteFile, DeleteDir, DeleteOnboardingState,
         DeleteDirectories, RestoreContract, Operate, Store, Without, Present, Files, TypeOK
  <2> QED
    BY <1>0, <2>1
<1>8. ASSUME NEW p \in Proc, RestoreIndex(p)
      PROVE  /\ Placed'
             /\ dirs = {} /\ dirs' # {} =>
                  store'["policy"] = "absent" /\ store'["onboarding"] = "absent"
  <2>1. dirs' = dirs \cup {"canonical"} /\ Present("policy")'
    BY <1>8 DEF RestoreIndex, Operate, Store, Present, Files, TypeOK
  <2>2. report[p] = "partial_state"
    BY <1>8 DEF RestoreIndex, Told
  <2>3. Present("onboarding")
    BY <2>2, ClassFacts DEF View, TypeOK, Present
  <2>4. "canonical" \in dirs
    BY <1>1, <2>3 DEF Placed
  <2> QED
    BY <2>1, <2>4 DEF Placed
<1>9. CASE UNCHANGED vars
  BY <1>2, <1>9 DEF vars
<1> QED
  BY <1>2, <1>3, <1>4, <1>5, <1>6, <1>7, <1>8, <1>9, NextCases DEF Writing

\* What a step may do to a command that does not look or report by it.
Elsewhere(q) ==
  /\ saw'[q] = saw[q] /\ report'[q] = report[q] /\ req'[q] = req[q]
  /\ during[q] \subseteq during'[q]
  /\ pc[q] \in Detecting =>
       ClassOf(store', dirs') \in during'[q] \/ UNCHANGED <<store, dirs>>
  /\ \/ pc'[q] = pc[q]
     \/ pc'[q] = "killed"
     \/ /\ pc[q] \notin Detecting \cup {"route", "killed"}
        /\ pc'[q] \notin Detecting \cup {"route", "idle"}
        /\ pc[q] = "idle" => req[q].command = "accept"

LEMMA StoreNotes ==
  ASSUME TypeOK, NEW s, NEW d, Store(s, d), NEW q \in Proc
  PROVE  /\ during[q] \subseteq during'[q]
         /\ pc[q] \in Detecting => ClassOf(store', dirs') \in during'[q]
BY DEF Store, TypeOK

LEMMA LookStep ==
  ASSUME TypeOK, [Next]_vars, NEW q \in Proc
  PROVE  \/ StatPolicy(q) \/ StatOnboarding(q) \/ StatCanonicalDir(q) \/ StatStateDir(q)
         \/ Route(q)
         \/ Elsewhere(q)
<1> USE DEF storeVars, procVars, opVars
<1>g. \A p \in Proc : \A l : Goto(p, l) =>
        pc'[p] = l /\ \A r \in Proc \ {p} : pc'[r] = pc[r]
  BY DEF Goto, TypeOK
<1>s. "install" \in Streams /\ "run" \in Streams
  BY DEF Streams
<1>1. ASSUME NEW p \in Proc, p # q,
             StatPolicy(p) \/ StatOnboarding(p) \/ StatCanonicalDir(p) \/ StatStateDir(p)
      PROVE  Elsewhere(q)
  <2>1. saw'[q] = saw[q] /\ UNCHANGED <<report, req, store, dirs>> /\ pc'[q] = pc[q]
    BY <1>1, <1>g DEF StatPolicy, StatOnboarding, StatCanonicalDir, StatStateDir, See, TypeOK
  <2>2. during'[q] = during[q]
    BY <1>1 DEF StatPolicy, StatOnboarding, StatCanonicalDir, StatStateDir, TypeOK
  <2> QED
    BY <2>1, <2>2 DEF Elsewhere
<1>2. ASSUME NEW p \in Proc, p # q, Route(p) PROVE Elsewhere(q)
  <2>1. report'[q] = report[q] /\ UNCHANGED <<saw, during, req, store, dirs>>
    BY <1>2 DEF Route, TypeOK
  <2>2. pc' = [pc EXCEPT ![p] = pc'[p]]
    BY <1>2, QuietStep DEF Quiet
  <2> QED
    BY <1>2, <2>1, <2>2 DEF Elsewhere, TypeOK
<1>3. ASSUME NEW p \in Proc,
             \/ Gate(p) \/ AcceptInstall(p) \/ AcceptRun(p) \/ End(p)
             \/ NoContract(p) \/ NoContractEvent(p)
      PROVE  Elsewhere(q)
  <2>1. UNCHANGED <<saw, report, during, req, store, dirs>>
    BY <1>3 DEF Gate, AcceptInstall, AcceptRun, End, NoContract, NoContractEvent
  <2>2. pc' = [pc EXCEPT ![p] = pc'[p]]
    BY <1>3, QuietStep DEF Quiet
  <2>3. pc[p] \notin Detecting \cup {"route", "killed", "idle"}
    BY <1>3 DEF Gate, AcceptInstall, AcceptRun, End, NoContract, NoContractEvent, Detecting
  <2>4. pc'[p] \notin Detecting \cup {"route", "idle"}
    <3>1. CASE Gate(p) \/ End(p)
      <4>1. Gate(p) => pc'[p] \in {"mkdir", "needs_approval", "error"}
        BY <1>g, <1>s, RecordStep DEF Gate, PC
      <4>2. End(p) => pc'[p] \in {"accepted", "error"}
        BY <1>g, <1>s, RecordStep DEF End, PC
      <4> QED
        BY <3>1, <4>1, <4>2 DEF Detecting
    <3>2. CASE AcceptInstall(p) \/ AcceptRun(p)
      BY <1>s, <3>2, RecordStep DEF AcceptInstall, AcceptRun, PC, Detecting
    <3>3. CASE NoContract(p) \/ NoContractEvent(p)
      BY <1>s, <3>3, RecordStep DEF NoContract, NoContractEvent, PC, Detecting
    <3> QED
      BY <1>3, <3>1, <3>2, <3>3
  <2> QED
    BY <2>1, <2>2, <2>3, <2>4 DEF Elsewhere, TypeOK
<1>4. ASSUME NEW p \in Proc,
             \/ LoadContract(p) \/ LoadPolicy(p) \/ LoadOnboarding(p)
             \/ PreflightInstall(p) \/ PreflightRun(p) \/ Kill(p)
      PROVE  Elsewhere(q)
  <2>1. UNCHANGED <<saw, report, during, req, store, dirs>>
    BY <1>4 DEF LoadContract, LoadPolicy, LoadOnboarding, PreflightInstall, PreflightRun,
       Check, Kill
  <2>2. pc'[q] = pc[q] \/ pc'[q] = "killed" \/
        /\ pc[q] \notin Detecting \cup {"route", "killed", "idle"}
        /\ pc'[q] \notin Detecting \cup {"route", "idle"}
    BY <1>4, <1>g DEF LoadContract, LoadPolicy, LoadOnboarding, PreflightInstall,
       PreflightRun, Check, Kill, Detecting
  <2> QED
    BY <2>1, <2>2 DEF Elsewhere
<1>5. ASSUME NEW p \in Proc, Writing(p) PROVE Elsewhere(q)
  <2>1. UNCHANGED <<saw, report, req>>
    BY <1>5 DEF Writing, MakeDir, Truncate, WriteFile
  <2>2. /\ during[q] \subseteq during'[q]
        /\ pc[q] \in Detecting =>
             ClassOf(store', dirs') \in during'[q] \/ UNCHANGED <<store, dirs>>
    BY <1>5, StoreNotes DEF Writing, MakeDir, Truncate, WriteFile
  <2>3. /\ pc' = [pc EXCEPT ![p] = pc'[p]]
        /\ pc[p] \in {"mkdir", "truncate", "write"} \/ (pc[p] = "idle" /\ req[p].command = "accept")
        /\ pc'[p] \in {"mkdir", "truncate", "write", "error", "acceptInstall"}
    BY <1>5, WritingStep
  <2>4. pc'[q] = pc[q] \/ p = q
    BY <2>3 DEF TypeOK
  <2> QED
    BY <2>1, <2>2, <2>3, <2>4 DEF Elsewhere, Detecting
<1>6. CASE Operator
  <2>1. UNCHANGED <<pc, saw, report, req>>
    BY <1>6, OperatorStep
  <2>2. \E s, d : Store(s, d)
    BY <1>6 DEF Operator, EditContract, DeleteFile, DeleteDir, RestoreIndex,
       DeleteOnboardingState, DeleteDirectories, RestoreContract, Operate
  <2> QED
    BY <2>1, <2>2, StoreNotes DEF Elsewhere
<1>7. CASE UNCHANGED vars
  BY <1>7 DEF vars, Elsewhere
<1> QED
  BY <1>1, <1>2, <1>3, <1>4, <1>5, <1>6, <1>7, NextCases DEF Quiet

LEMMA ViewStep ==
  ASSUME TypeOK, MarkerInv, [Next]_vars, ~deleted', Placed, \A p \in Proc : View(p),
         NEW q \in Proc
  PROVE  View(q)'
<1> USE DEF storeVars, procVars, opVars
<1>1. ~deleted /\ Found(store, dirs) \subseteq Found(store', dirs')
  BY Grows
<1>2. dirs = {} /\ dirs' # {} => store'["policy"] = "absent" /\ store'["onboarding"] = "absent"
  BY FirstDirectory
<1>3. View(q)
  OBVIOUS
<1>4. TypeOK'
  BY TypeStep
<1>5. Present("onboarding") => Present("policy")
  BY <1>1 DEF MarkerInv, Files
<1>6. dirs \in SUBSET Dirs /\ dirs' \in SUBSET Dirs
  BY <1>4 DEF TypeOK
<1>c. Classify(saw[q]) \in Class
  BY ClassType
<1>10. CASE Elsewhere(q)
  <2>1. dirs = {} /\ dirs' # {} => ClassOf(store', dirs') = "corrupt_state"
    BY <1>2, <1>6, ClassFacts
  <2>2. pc'[q] \in Detecting => pc'[q] = pc[q] /\ ClassOf(store', dirs') \in during'[q]
    BY <1>3, <1>10 DEF View, Elsewhere, Detecting
  <2>3. pc'[q] \in Detecting /\ "policy" \notin saw'[q] /\ dirs' # {} =>
          "corrupt_state" \in during'[q]
    BY <1>3, <1>10, <2>1, <2>2 DEF View, Elsewhere
  <2>4. /\ Looked(q)' => Looked(q)
        /\ Looked(q)' /\ pc'[q] # "onboarding?" => pc[q] # "onboarding?"
        /\ Routed(q)' => Routed(q)
        /\ Looked(q)' /\ pc[q] \in {"onboarding?", "canonical?"} => pc'[q] = pc[q]
        /\ pc'[q] = "idle" => pc[q] = "idle"
    BY <1>10 DEF Elsewhere, Looked, Routed, Detecting
  <2>5. dirs \subseteq dirs'
    BY <1>1, <1>6, ClassFacts
  <2>6. /\ saw'[q] = saw[q] /\ report'[q] = report[q] /\ during[q] \subseteq during'[q]
    BY <1>10 DEF Elsewhere
  <2> QED
    BY <1>1, <1>3, <2>2, <2>3, <2>4, <2>5, <2>6 DEF View
<1>11. CASE StatPolicy(q)
  <2>1. /\ pc[q] = "idle" /\ req[q].command # "accept" /\ pc'[q] = "onboarding?"
        /\ saw'[q] = saw[q] \cup (IF Present("policy") THEN {"policy"} ELSE {})
        /\ during'[q] = {ClassOf(store, dirs)}
        /\ UNCHANGED <<store, dirs, req, report>>
    BY <1>11 DEF StatPolicy, See, Goto, TypeOK, Present
  <2>2. saw[q] = {}
    BY <1>3, <2>1 DEF View
  <2>3. CASE Present("policy")
    <3>1. saw'[q] = {"policy"} /\ "policy" \in Found(store, dirs)
      BY <1>6, <2>1, <2>2, <2>3, ClassFacts DEF Present
    <3>2. "policy" \notin Dirs
      BY DEF Dirs
    <3> QED
      BY <1>1, <1>3, <2>1, <2>2, <3>1, <3>2 DEF View, Looked, Routed, Detecting
  <2>4. CASE ~Present("policy")
    <3>1. saw'[q] = {}
      BY <2>1, <2>2, <2>4
    <3>2. ClassOf(store, dirs) = IF dirs = {} THEN "none" ELSE "corrupt_state"
      BY <1>5, <1>6, <2>4, ClassFacts DEF Present
    <3>3. dirs # {} => "canonical" \in dirs
      BY <1>6, <2>4 DEF Placed, Dirs
    <3> QED
      BY <1>1, <1>3, <2>1, <3>1, <3>2, <3>3 DEF View, Looked, Routed, Detecting
  <2> QED
    BY <2>3, <2>4
<1>12. CASE StatOnboarding(q)
  <2>1. /\ pc[q] = "onboarding?" /\ pc'[q] = "canonical?"
        /\ saw'[q] = saw[q] \cup (IF Present("onboarding") THEN {"onboarding"} ELSE {})
        /\ UNCHANGED <<store, dirs, req, report, during>>
    BY <1>12 DEF StatOnboarding, See, Goto, TypeOK, Present
  <2>2. /\ "policy" \in saw[q] => Present("policy")
        /\ Present("onboarding") => "onboarding" \in Found(store, dirs)
    BY <1>3, <1>6, ClassFacts DEF View, Present
  <2>3. /\ "policy" \in saw[q] /\ Present("onboarding") => "onboarding_complete" \in during[q]
        /\ "policy" \in saw[q] /\ ~Present("onboarding") => "canonical_present" \in during[q]
    BY <1>3, <1>6, <2>1, <2>2, ClassFacts DEF View, Detecting, Present
  <2>4. "onboarding" \notin Dirs
    BY DEF Dirs
  <2> QED
    BY <1>1, <1>3, <2>1, <2>2, <2>3, <2>4 DEF View, Looked, Routed, Detecting
<1>13. CASE StatCanonicalDir(q)
  <2>1. /\ pc[q] = "canonical?" /\ pc'[q] = "state?"
        /\ saw'[q] = saw[q] \cup (IF "canonical" \in dirs THEN {"canonical"} ELSE {})
        /\ UNCHANGED <<store, dirs, req, report, during>>
    BY <1>13 DEF StatCanonicalDir, See, Goto, TypeOK
  <2>2. "canonical" \in dirs => "canonical" \in Found(store, dirs)
    BY DEF Found
  <2>3. "canonical" \in dirs /\ "policy" \notin saw[q] => "corrupt_state" \in during[q]
    BY <1>3, <2>1 DEF View, Detecting
  <2> QED
    BY <1>1, <1>3, <2>1, <2>2, <2>3 DEF View, Looked, Routed, Detecting
<1>14. CASE StatStateDir(q)
  <2>1. /\ pc[q] = "state?" /\ pc'[q] = "route"
        /\ saw'[q] = saw[q] \cup (IF "state" \in dirs THEN {"state"} ELSE {})
        /\ UNCHANGED <<store, dirs, req, report, during>>
    BY <1>14 DEF StatStateDir, See, Goto, TypeOK
  <2>2. "state" \in dirs => "state" \in Found(store, dirs)
    BY DEF Found
  <2>3. "state" \in dirs /\ "policy" \notin saw[q] => "corrupt_state" \in during[q]
    BY <1>3, <2>1 DEF View, Detecting
  <2> QED
    BY <1>1, <1>3, <2>1, <2>2, <2>3 DEF View, Looked, Routed, Detecting
<1>15. CASE Route(q)
  <2>1. /\ pc[q] = "route" /\ report'[q] = Classify(saw[q])
        /\ UNCHANGED <<store, dirs, req, saw, during>>
    BY <1>15 DEF Route, TypeOK
  <2>2. pc'[q] \in {"blocked", "needs_input", "gate", "contract", "error"}
    <3>1. \A l : Goto(q, l) => pc'[q] = l
      BY DEF Goto, TypeOK
    <3>2. "run" \in Streams
      BY DEF Streams
    <3> QED
      BY <1>15, <3>1, <3>2, RecordStep DEF Route, PC
  <2>3. Classify(saw[q]) = "partial_state" => "onboarding" \in saw[q]
    BY DEF Classify
  <2>4. req[q].command # "accept" /\ Classify(saw[q]) # "partial_state" =>
          Classify(saw[q]) \in during[q]
    <3>1. saw[q] # {} /\ "policy" \notin saw[q] /\ "onboarding" \notin saw[q] =>
            saw[q] \cap Dirs # {}
      <4>1. saw[q] \subseteq {"policy", "onboarding", "canonical", "state"}
        BY DEF TypeOK
      <4> QED
        BY <4>1 DEF Dirs
    <3> QED
      BY <1>3, <2>1, <3>1 DEF View, Looked, Classify
  <2> QED
    BY <1>1, <1>3, <2>1, <2>2, <2>3, <2>4 DEF View, Looked, Routed, Detecting
<1> QED
  BY <1>10, <1>11, <1>12, <1>13, <1>14, <1>15, LookStep

LEMMA ReportStep == TypeOK /\ MarkerInv /\ ReportInv /\ [Next]_vars => ReportInv'
BY Grows, FirstDirectory, ViewStep DEF ReportInv

LEMMA ReportInit == Init => ReportInv
<1> SUFFICES ASSUME Init PROVE Placed /\ \A p \in Proc : View(p)
  BY DEF ReportInv
<1>1. store = [f \in Files |-> "absent"] /\ dirs = {}
  BY DEF Init
<1>2. Placed
  BY <1>1 DEF Placed, Present, Files
<1>3. ASSUME NEW p \in Proc PROVE View(p)
  <2>1. pc[p] = "idle" /\ saw[p] = {} /\ report[p] = "none"
    BY DEF Init
  <2> QED
    BY <2>1 DEF View, Looked, Routed, Detecting
<1> QED
  BY <1>2, <1>3

\* Although detection is four stat calls among which other commands write, a
\* command reports a state the store was in while it looked, unless it
\* reports partial_state, for any number of commands.
THEOREM ReportIsTruthful == Spec => []ReportTruthful
<1>1. ReportInv => ReportTruthful
  BY DEF ReportInv, ReportTruthful, View
<1> QED
  BY <1>1, MarkerInit, MarkerStep, ReportInit, ReportStep, TypeSafe, PTL DEF Spec

-----------------------------------------------------------------------------
(* One command at a time *)

Looking(p) == pc[p] \in Detecting \cup {"route"}
Loading == {"contract", "noContract", "noContractEvent", "policy", "onboarding",
            "preflightInstall", "preflightRun", "ready"}
AtFile == {"mkdir", "truncate", "write"}
Kept == {"policy", "capabilities", "contract"}

\* Only a command that found the index comes to the contract.
Control ==
  \A p \in Proc :
    pc[p] \in Loading \/ (pc[p] = "needs_input" /\ req[p].resolves) => "policy" \in saw[p]

\* An accept opens a file in a directory that is there; no contract without index.
Ordered ==
  ~deleted =>
    /\ \A p \in Proc : pc[p] = "truncate" => DirOf(Writes[at[p]]) \subseteq dirs
    /\ Present("contract") => Present("policy")

OneRuns == \A p, q \in Proc : Running(p) /\ Running(q) => p = q

\* A store between two of accept's writes is one at which an accept is, or was killed.
IndexDue ==
  "canonical" \in dirs /\ ~Present("policy") =>
    \/ KilledAt({"policy"})
    \/ \E p \in Proc : pc[p] = "truncate" /\ Writes[at[p]] = "policy"
ContractDue ==
  Present("policy") /\ ~Present("contract") =>
    \/ KilledAt(Kept)
    \/ \E p \in Proc : pc[p] \in AtFile /\ Writes[at[p]] \in Kept

Explained(p) ==
  /\ Looking(p) /\ "policy" \notin saw[p] => ~Present("policy")
  /\ pc[p] \in {"gate"} \cup AtFile /\ req[p].command # "accept" => store["contract"] # "edited"
  /\ pc[p] = "blocked" => report[p] = "corrupt_state" /\ KilledAt({"policy"})
  /\ \/ pc[p] \in {"noContract", "noContractEvent"}
     \/ pc[p] = "needs_input" /\ req[p].resolves
     => KilledAt(Kept)
  /\ frozen = {} /\ pc[p] = "error" => KilledAt({"policy", "onboarding"})

Serial ==
  ~raced /\ ~deleted => OneRuns /\ IndexDue /\ ContractDue /\ \A p \in Proc : Explained(p)

SerialInv == Control /\ Ordered /\ Serial

\* While nothing has raced, no other command is running when one takes a step,
\* and none when the operator does.
LEMMA SerialCases ==
  ASSUME [Next]_vars, ~raced'
  PROVE  /\ ~raced
         /\ \/ \E p \in Proc : (Quiet(p) \/ Writing(p)) /\ \A q \in Proc \ {p} : ~Running(q)
            \/ Operator /\ \A q \in Proc : ~Running(q)
            \/ UNCHANGED vars
<1>1. CASE UNCHANGED vars
  BY <1>1 DEF vars
<1>2. ASSUME NEW p \in Proc, Step(p) \/ Kill(p), Note(\E q \in Proc \ {p} : Running(q))
      PROVE  ~raced /\ (Quiet(p) \/ Writing(p)) /\ \A q \in Proc \ {p} : ~Running(q)
  <2>1. Quiet(p) \/ Writing(p)
    BY <1>2 DEF Step, Quiet, Writing
  <2>2. ~raced /\ ~\E q \in Proc \ {p} : Running(q)
    BY <1>2 DEF Note
  <2> QED
    BY <2>1, <2>2
<1>3. CASE Operator /\ Note(\E p \in Proc : Running(p))
  BY <1>3 DEF Note
<1> QED
  BY <1>1, <1>2, <1>3 DEF Next

LEMMA KilledStays ==
  ASSUME TypeOK, [Next]_vars, NEW S, KilledAt(S)
  PROVE  KilledAt(S)'
<1>1. PICK q \in Proc : pc[q] = "killed" /\ Writes[at[q]] \in S
  BY DEF KilledAt
<1>2. pc'[q] = "killed" /\ at'[q] = at[q]
  <2>1. ASSUME NEW p \in Proc, Quiet(p) PROVE pc'[q] = "killed" /\ at'[q] = at[q]
    BY <1>1, <2>1, QuietStep DEF TypeOK
  <2>2. ASSUME NEW p \in Proc, Writing(p) PROVE pc'[q] = "killed" /\ at'[q] = at[q]
    BY <1>1, <2>2, WritingStep DEF TypeOK
  <2>3. Operator \/ UNCHANGED vars => UNCHANGED <<pc, at>>
    BY OperatorStep DEF vars
  <2> QED
    BY <1>1, <2>1, <2>2, <2>3, NextCases
<1> QED
  BY <1>1, <1>2 DEF KilledAt

\* Where each quiet step comes from, and what it has looked at.
QuietDetail(p) ==
  /\ pc'[p] = "blocked" =>
       pc[p] = "route" /\ report'[p] = Classify(saw[p]) /\ Classify(saw[p]) \in Blocking
  /\ pc'[p] = "contract" => pc[p] = "route" /\ "policy" \in saw[p]
  /\ pc'[p] = "gate" => pc[p] = "route" /\ saw[p] = {}
  /\ pc'[p] = "mkdir" => pc[p] = "gate"
  /\ pc'[p] \notin {"truncate", "write", "idle"}
  /\ pc'[p] = "noContract" => pc[p] = "contract" /\ ~Whole("contract")
  /\ pc'[p] = "noContractEvent" => pc[p] = "noContract"
  /\ pc'[p] = "needs_input" /\ req[p].resolves => pc[p] \in {"noContract", "noContractEvent"}
  /\ pc'[p] \in Loading => pc[p] \in Loading \/ pc'[p] = "contract"
  /\ pc'[p] = "error" => \/ frozen' # {}
                         \/ pc[p] = "policy" /\ ~Whole("policy")
                         \/ pc[p] = "onboarding" /\ store["onboarding"] = "torn"
  /\ Looking(p)' => \/ pc[p] \in Detecting
                    \/ pc[p] = "idle" /\ (Present("policy") => "policy" \in saw'[p])
  /\ saw[p] \subseteq saw'[p]
  /\ pc[p] \in AtFile => pc'[p] = "killed"
  /\ \A q \in Proc \ {p} : UNCHANGED <<pc[q], saw[q], report[q]>>
  /\ UNCHANGED <<store, dirs, req, at>>
  /\ frozen \subseteq frozen'

LEMMA RecordFreezes ==
  ASSUME TypeOK, NEW p \in Proc, NEW s \in Streams, NEW event, NEW next \in PC \ {"error"},
         Record(p, s, event, next)
  PROVE  /\ pc'[p] \in {next, "error"} /\ \A q \in Proc \ {p} : pc'[q] = pc[q]
         /\ pc'[p] = "error" => frozen' # {}
         /\ frozen \subseteq frozen'
<1>1. \A l : Goto(p, l) => pc'[p] = l /\ \A q \in Proc \ {p} : pc'[q] = pc[q]
  BY DEF Goto, TypeOK
<1> QED
  BY <1>1 DEF Record

LEMMA QuietDetails ==
  ASSUME TypeOK, NEW p \in Proc, Quiet(p)
  PROVE  QuietDetail(p)
<1> USE DEF storeVars, procVars, auditVars, opVars
<1>g. \A l : Goto(p, l) => pc'[p] = l /\ \A q \in Proc \ {p} : pc'[q] = pc[q]
  BY DEF Goto, TypeOK
<1>s. "install" \in Streams /\ "run" \in Streams
  BY DEF Streams
<1>a. UNCHANGED <<store, dirs, req, at>>
  BY QuietStep
<1>1. CASE StatPolicy(p) \/ StatOnboarding(p) \/ StatCanonicalDir(p) \/ StatStateDir(p)
  <2>1. /\ UNCHANGED <<report, frozen>> /\ saw[p] \subseteq saw'[p]
        /\ \A q \in Proc \ {p} : UNCHANGED <<pc[q], saw[q]>>
        /\ pc'[p] \in Detecting \cup {"route"}
    BY <1>1, <1>g DEF StatPolicy, StatOnboarding, StatCanonicalDir, StatStateDir, See, TypeOK,
       Detecting
  <2>2. \/ pc[p] \in Detecting
        \/ pc[p] = "idle" /\ (Present("policy") => "policy" \in saw'[p])
    BY <1>1 DEF StatPolicy, StatOnboarding, StatCanonicalDir, StatStateDir, See, TypeOK,
       Detecting, Present
  <2> QED
    BY <1>a, <2>1, <2>2 DEF QuietDetail, Detecting, Loading, AtFile
<1>2. CASE Route(p)
  <2>1. /\ UNCHANGED saw /\ report'[p] = Classify(saw[p]) /\ pc[p] = "route"
        /\ \A q \in Proc \ {p} : report'[q] = report[q]
    BY <1>2 DEF Route, TypeOK
  <2>2. /\ Classify(saw[p]) \in Blocking \/ Classify(saw[p]) = "none" \/ "policy" \in saw[p]
        /\ Classify(saw[p]) = "none" => saw[p] = {}
    BY DEF Classify, Blocking
  <2>3. /\ \A q \in Proc \ {p} : pc'[q] = pc[q]
        /\ frozen \subseteq frozen'
        /\ \/ pc'[p] = "blocked" /\ Classify(saw[p]) \in Blocking
           \/ pc'[p] = "needs_input" /\ ~req[p].resolves
           \/ pc'[p] = "gate" /\ Classify(saw[p]) = "none"
           \/ pc'[p] = "contract" /\ Classify(saw[p]) \notin Blocking \cup {"none"}
           \/ pc'[p] = "error" /\ frozen' # {}
    <3>1. CASE /\ report'[p] \in Blocking /\ Goto(p, "blocked") /\ UNCHANGED auditVars
      BY <1>g, <2>1, <3>1
    <3>2. CASE /\ ~req[p].resolves /\ Goto(p, "needs_input") /\ UNCHANGED auditVars
      BY <1>g, <3>2
    <3>3. ASSUME NEW next \in {"gate", "contract"},
                 next = IF report'[p] = "none" THEN "gate" ELSE "contract",
                 report'[p] = "none" \/ report'[p] \notin Blocking,
                 \/ Record(p, "run", "begin", next)
                 \/ Goto(p, next) /\ UNCHANGED auditVars
          PROVE  /\ \A q \in Proc \ {p} : pc'[q] = pc[q]
                 /\ frozen \subseteq frozen'
                 /\ \/ pc'[p] = "gate" /\ Classify(saw[p]) = "none"
                    \/ pc'[p] = "contract" /\ Classify(saw[p]) \notin Blocking \cup {"none"}
                    \/ pc'[p] = "error" /\ frozen' # {}
      <4>1. next \in PC \ {"error"}
        BY DEF PC
      <4>2. /\ pc'[p] = next \/ (pc'[p] = "error" /\ frozen' # {})
            /\ \A q \in Proc \ {p} : pc'[q] = pc[q]
            /\ frozen \subseteq frozen'
        BY <1>g, <1>s, <3>3, <4>1, RecordFreezes
      <4> QED
        BY <2>1, <3>3, <4>2
    <3> QED
      BY <1>2, <3>1, <3>2, <3>3 DEF Route
  <2> QED
    BY <1>a, <2>1, <2>2, <2>3 DEF QuietDetail, Looking, Detecting, Loading, AtFile
<1>3. CASE Gate(p)
  <2>1. UNCHANGED <<saw, report>> /\ pc[p] = "gate"
    BY <1>3 DEF Gate
  <2>2. /\ \A q \in Proc \ {p} : pc'[q] = pc[q]
        /\ frozen \subseteq frozen'
        /\ \/ pc'[p] \in {"mkdir", "needs_approval"}
           \/ pc'[p] = "error" /\ frozen' # {}
    <3>1. "needs_approval" \in PC \ {"error"}
      BY DEF PC
    <3> QED
      BY <1>3, <1>g, <1>s, <3>1, RecordFreezes DEF Gate
  <2> QED
    BY <1>a, <2>1, <2>2 DEF QuietDetail, Looking, Detecting, Loading, AtFile
<1>4. CASE AcceptInstall(p) \/ AcceptRun(p) \/ End(p)
  <2>1. UNCHANGED <<saw, report>> /\ pc[p] \in {"acceptInstall", "acceptRun", "end"}
    BY <1>4 DEF AcceptInstall, AcceptRun, End
  <2>2. /\ \A q \in Proc \ {p} : pc'[q] = pc[q]
        /\ frozen \subseteq frozen'
        /\ \/ pc'[p] \in {"acceptRun", "end", "accepted"}
           \/ pc'[p] = "error" /\ frozen' # {}
    <3>1. {"acceptRun", "end", "accepted"} \subseteq PC \ {"error"}
      BY DEF PC
    <3>2. CASE AcceptInstall(p)
      BY <1>s, <3>1, <3>2, RecordFreezes DEF AcceptInstall
    <3>3. CASE AcceptRun(p)
      BY <1>s, <3>1, <3>3, RecordFreezes DEF AcceptRun
    <3>4. CASE End(p)
      BY <1>g, <1>s, <3>1, <3>4, RecordFreezes DEF End
    <3> QED
      BY <1>4, <3>2, <3>3, <3>4
  <2> QED
    BY <1>a, <2>1, <2>2 DEF QuietDetail, Looking, Detecting, Loading, AtFile
<1>5. CASE NoContract(p) \/ NoContractEvent(p)
  <2>1. /\ UNCHANGED <<saw, report>> /\ pc[p] \in {"noContract", "noContractEvent"}
    BY <1>5 DEF NoContract, NoContractEvent
  <2>2. /\ \A q \in Proc \ {p} : pc'[q] = pc[q]
        /\ frozen \subseteq frozen'
        /\ \/ pc'[p] = "needs_input"
           \/ pc'[p] = "noContractEvent" /\ pc[p] = "noContract"
           \/ pc'[p] = "error" /\ frozen' # {}
    <3>1. {"noContractEvent", "needs_input"} \subseteq PC \ {"error"}
      BY DEF PC
    <3>2. CASE NoContract(p)
      BY <1>s, <3>1, <3>2, RecordFreezes DEF NoContract
    <3>3. CASE NoContractEvent(p)
      BY <1>s, <3>1, <3>3, RecordFreezes DEF NoContractEvent
    <3> QED
      BY <1>5, <3>2, <3>3
  <2> QED
    BY <1>a, <2>1, <2>2 DEF QuietDetail, Looking, Detecting, Loading, AtFile
<1>6. CASE \/ LoadContract(p) \/ LoadPolicy(p) \/ LoadOnboarding(p)
           \/ PreflightInstall(p) \/ PreflightRun(p)
  <2>1. UNCHANGED <<saw, report, frozen>>
    BY <1>6 DEF LoadContract, LoadPolicy, LoadOnboarding, PreflightInstall, PreflightRun, Check
  <2>2. /\ \A q \in Proc \ {p} : pc'[q] = pc[q]
        /\ \/ pc[p] = "contract" /\ pc'[p] = "policy"
           \/ pc[p] = "contract" /\ pc'[p] = "noContract" /\ ~Whole("contract")
           \/ pc[p] = "policy" /\ pc'[p] = "onboarding"
           \/ pc[p] = "policy" /\ pc'[p] = "error" /\ ~Whole("policy")
           \/ pc[p] = "onboarding" /\ pc'[p] = "preflightInstall"
           \/ pc[p] = "onboarding" /\ pc'[p] = "error" /\ store["onboarding"] = "torn"
           \/ pc[p] = "preflightInstall" /\ pc'[p] = "preflightRun"
           \/ pc[p] = "preflightRun" /\ pc'[p] = "ready"
           \/ pc[p] \in {"preflightInstall", "preflightRun"} /\ pc'[p] = "error" /\ frozen # {}
    BY <1>6, <1>g DEF LoadContract, LoadPolicy, LoadOnboarding, PreflightInstall, PreflightRun,
       Check
  <2> QED
    BY <1>a, <2>1, <2>2 DEF QuietDetail, Looking, Detecting, Loading, AtFile
<1>7. CASE Kill(p)
  <2>1. /\ UNCHANGED <<saw, report, frozen>> /\ pc'[p] = "killed"
        /\ \A q \in Proc \ {p} : pc'[q] = pc[q]
    BY <1>7, <1>g DEF Kill
  <2> QED
    BY <1>a, <2>1 DEF QuietDetail, Looking, Detecting, Loading, AtFile
<1> QED
  BY <1>1, <1>2, <1>3, <1>4, <1>5, <1>6, <1>7 DEF Quiet

LEMMA ControlStep == TypeOK /\ Control /\ [Next]_vars => Control'
<1> SUFFICES ASSUME TypeOK, Control, [Next]_vars, NEW q \in Proc,
                    pc'[q] \in Loading \/ (pc'[q] = "needs_input" /\ req'[q].resolves)
             PROVE  "policy" \in saw'[q]
  BY DEF Control
<1>1. pc[q] \in Loading \/ (pc[q] = "needs_input" /\ req[q].resolves) => "policy" \in saw[q]
  BY DEF Control
<1>2. ASSUME NEW p \in Proc, Quiet(p) PROVE "policy" \in saw'[q]
  <2>1. QuietDetail(p)
    BY <1>2, QuietDetails
  <2>2. CASE p = q
    BY <1>1, <2>1, <2>2 DEF QuietDetail, Loading
  <2>3. CASE p # q
    BY <1>1, <2>1, <2>3 DEF QuietDetail
  <2> QED
    BY <2>2, <2>3
<1>3. ASSUME NEW p \in Proc, Writing(p) PROVE "policy" \in saw'[q]
  <2>1. UNCHANGED <<req, saw>> /\ pc' = [pc EXCEPT ![p] = pc'[p]]
        /\ pc'[p] \in {"mkdir", "truncate", "write", "error", "acceptInstall"}
    BY <1>3, WritingDetail
  <2>2. p # q
    BY <2>1 DEF Loading
  <2> QED
    BY <1>1, <2>1, <2>2 DEF TypeOK
<1>4. CASE Operator \/ UNCHANGED vars
  BY <1>1, <1>4, OperatorStep DEF vars
<1> QED
  BY <1>2, <1>3, <1>4, NextCases

LEMMA OrderedStep ==
  ASSUME TypeOK, MarkerInv, ReportInv, Control, Ordered, [Next]_vars
  PROVE  Ordered'
<1> SUFFICES ASSUME ~deleted'
             PROVE  /\ \A q \in Proc : pc'[q] = "truncate" => DirOf(Writes[at'[q]]) \subseteq dirs'
                    /\ Present("contract")' => Present("policy")'
  BY DEF Ordered
<1>1. ~deleted /\ dirs \subseteq dirs' /\ \A f \in Files : Present(f) => Present(f)'
  BY NothingLost
<1>2. /\ \A q \in Proc : pc[q] = "truncate" => DirOf(Writes[at[q]]) \subseteq dirs
      /\ Present("contract") => Present("policy")
  BY <1>1 DEF Ordered
<1>3. Present("contract") => Present("policy")'
  BY <1>1, <1>2 DEF Files
<1>4. ASSUME NEW p \in Proc, Quiet(p)
      PROVE  /\ \A q \in Proc : pc'[q] = "truncate" => DirOf(Writes[at'[q]]) \subseteq dirs'
             /\ Present("contract")' => Present("policy")'
  <2>1. QuietDetail(p)
    BY <1>4, QuietDetails
  <2> QED
    BY <1>1, <1>2, <1>3, <2>1 DEF QuietDetail, Present
<1>5. ASSUME NEW p \in Proc, Writing(p)
      PROVE  /\ \A q \in Proc : pc'[q] = "truncate" => DirOf(Writes[at'[q]]) \subseteq dirs'
             /\ Present("contract")' => Present("policy")'
  <2>1. \A q \in Proc \ {p} : pc'[q] = pc[q] /\ at'[q] = at[q]
    <3>1. pc' = [pc EXCEPT ![p] = pc'[p]]
      BY <1>5, WritingStep
    <3>2. at' = at \/ at' = [at EXCEPT ![p] = at[p] + 1]
      BY <1>5, WritingStep
    <3> QED
      BY <3>1, <3>2 DEF TypeOK
  <2>2. pc'[p] = "truncate" => DirOf(Writes[at'[p]]) \subseteq dirs'
    BY <1>5, WritingDetail
  <2>3. Present("contract")' /\ ~Present("contract") => Writes[at[p]] = "contract"
    BY <1>5, WritingStep DEF TypeOK, Present, Files
  <2>4. Writes[at[p]] = "contract" => Present("policy")
    <3>1. at[p] \in 1..5 /\ (Writes[at[p]] = "contract" => at[p] = 4)
      BY WritesPlaces DEF TypeOK
    <3> QED
      BY <1>1, <3>1, WritesPlaces DEF MarkerInv
  <2> QED
    BY <1>1, <1>2, <1>3, <2>1, <2>2, <2>3, <2>4 DEF Files
<1>6. CASE Operator
  <2>1. UNCHANGED <<pc, at>>
    BY <1>6, OperatorStep
  <2>2. ASSUME NEW p \in Proc, RestoreContract(p) PROVE Present("policy")
    <3>1. "policy" \in saw[p]
      BY <2>2 DEF RestoreContract, Control
    <3>2. "policy" \in Found(store, dirs)
      BY <1>1, <3>1 DEF ReportInv, View
    <3> QED
      BY <3>2, ClassFacts DEF TypeOK, Present
  <2>3. Present("contract")' => Present("contract") \/ \E p \in Proc : RestoreContract(p)
    BY <1>6, OperatorStore DEF Whole, Present, Files
  <2> QED
    BY <1>1, <1>2, <1>3, <2>1, <2>2, <2>3 DEF Files
<1>7. CASE UNCHANGED vars
  BY <1>1, <1>2, <1>3, <1>7 DEF vars, Present
<1> QED
  BY <1>4, <1>5, <1>6, <1>7, NextCases

\* A quiet step of the only command that runs.
LEMMA SerialQuiet ==
  ASSUME TypeOK, MarkerInv, ReportInv, Control, Ordered, ~deleted, [Next]_vars,
         OneRuns, IndexDue, ContractDue, \A q \in Proc : Explained(q),
         NEW p \in Proc, Quiet(p), \A q \in Proc \ {p} : ~Running(q)
  PROVE  OneRuns' /\ IndexDue' /\ ContractDue' /\ (\A q \in Proc : Explained(q))'
<1>1. QuietDetail(p)
  BY QuietDetails
<1>2. UNCHANGED <<store, dirs, req, at>> /\ \A q \in Proc \ {p} : UNCHANGED <<pc[q], saw[q], report[q]>>
  BY <1>1 DEF QuietDetail
<1>3. \A q \in Proc : q # p => pc[q] \in Stopped \cup {"idle"}
  BY DEF Running
<1>4. OneRuns'
  BY <1>2, <1>3 DEF OneRuns, Running
<1>5. IndexDue'
  <2> SUFFICES ASSUME "canonical" \in dirs, ~Present("policy") PROVE KilledAt({"policy"})'
    BY <1>2 DEF IndexDue, Present
  <2>1. CASE KilledAt({"policy"})
    BY <2>1, KilledStays
  <2>2. CASE pc[p] = "truncate" /\ Writes[at[p]] = "policy"
    BY <1>1, <1>2, <2>2 DEF QuietDetail, AtFile, KilledAt
  <2> QED
    BY <1>3, <2>1, <2>2 DEF IndexDue, Stopped
<1>6. ContractDue'
  <2> SUFFICES ASSUME Present("policy"), ~Present("contract") PROVE KilledAt(Kept)'
    BY <1>2 DEF ContractDue, Present
  <2>1. CASE KilledAt(Kept)
    BY <2>1, KilledStays
  <2>2. CASE pc[p] \in AtFile /\ Writes[at[p]] \in Kept
    BY <1>1, <1>2, <2>2 DEF QuietDetail, KilledAt
  <2> QED
    BY <1>3, <2>1, <2>2 DEF ContractDue, Stopped, AtFile
<1>7. ASSUME NEW q \in Proc \ {p} PROVE Explained(q)'
  <2>1. Explained(q) /\ UNCHANGED <<pc[q], saw[q], report[q], store, req>>
    BY <1>2
  <2>2. frozen' = {} => frozen = {}
    BY <1>1 DEF QuietDetail
  <2>3. \A S : KilledAt(S) => KilledAt(S)'
    BY KilledStays
  <2> QED
    BY <2>1, <2>2, <2>3 DEF Explained, Looking, Present
<1>8. Explained(p)'
  <2>1. Explained(p)
    OBVIOUS
  <2>2. /\ "policy" \in saw[p] => Present("policy")
        /\ "onboarding" \in saw[p] => Present("policy")
        /\ \A x \in Dirs : x \in saw[p] => x \in dirs
        /\ Placed
    <3>1. Placed /\ saw[p] \subseteq Found(store, dirs) /\ dirs \in SUBSET Dirs
      BY DEF ReportInv, View, TypeOK
    <3>2. Present("onboarding") => Present("policy")
      BY DEF MarkerInv, Files
    <3>3. /\ "policy" \in Found(store, dirs) => Present("policy")
          /\ "onboarding" \in Found(store, dirs) => Present("onboarding")
          /\ \A x \in Dirs : x \in Found(store, dirs) => x \in dirs
      BY <3>1, ClassFacts DEF Present
    <3> QED
      BY <3>1, <3>2, <3>3
  <2>3. Looking(p)' /\ "policy" \notin saw'[p] => ~Present("policy")'
    BY <1>1, <1>2, <2>1 DEF QuietDetail, Explained, Looking, Present
  <2>4. pc'[p] \in {"gate"} \cup AtFile /\ req[p].command # "accept" => store["contract"] # "edited"
    <3>1. CASE pc'[p] = "gate"
      <4>1. ~Present("policy")
        BY <1>1, <2>1, <3>1 DEF QuietDetail, Explained, Looking
      <4> QED
        BY <4>1 DEF Ordered, Present
    <3>2. CASE pc'[p] = "mkdir"
      BY <1>1, <2>1, <3>2 DEF QuietDetail, Explained
    <3> QED
      BY <1>1, <3>1, <3>2 DEF QuietDetail, AtFile
  <2>5. pc'[p] = "blocked" => report'[p] = "corrupt_state" /\ KilledAt({"policy"})'
    <3> SUFFICES ASSUME pc'[p] = "blocked"
                 PROVE  report'[p] = "corrupt_state" /\ KilledAt({"policy"})'
      OBVIOUS
    <3>1. pc[p] = "route" /\ report'[p] = Classify(saw[p]) /\ Classify(saw[p]) \in Blocking
      BY <1>1 DEF QuietDetail
    <3>2. "policy" \notin saw[p] /\ (Classify(saw[p]) = "partial_state" => "onboarding" \in saw[p])
      BY <3>1 DEF Classify, Blocking
    <3>3. ~Present("policy")
      BY <2>1, <3>1, <3>2 DEF Explained, Looking
    <3>4. Classify(saw[p]) = "corrupt_state" /\ "onboarding" \notin saw[p]
      BY <2>2, <3>1, <3>2, <3>3 DEF Blocking
    <3>5. saw[p] # {}
      BY <3>4 DEF Classify
    <3>6. "canonical" \in saw[p] \/ "state" \in saw[p]
      BY <3>2, <3>4, <3>5 DEF TypeOK
    <3>7. "canonical" \in dirs
      BY <2>2, <3>3, <3>6 DEF Dirs, Placed
    <3>8. KilledAt({"policy"})
      BY <1>3, <3>1, <3>3, <3>7 DEF IndexDue, Stopped
    <3> QED
      BY <3>1, <3>4, <3>8, KilledStays
  <2>6. ASSUME NEW f \in Files, "policy" \in saw[p], pc[p] \notin {"write", "killed"},
               store[f] = "torn"
        PROVE  KilledAt({f})
    <3>1. PICK q \in Proc : pc[q] \in {"write", "killed"} /\ Writes[at[q]] = f
      BY <2>6 DEF MarkerInv, Unfinished
    <3>2. pc[q] = "killed"
      BY <1>3, <2>6, <3>1 DEF Stopped
    <3> QED
      BY <3>1, <3>2 DEF KilledAt
  <2>7. \/ pc'[p] \in {"noContract", "noContractEvent"}
        \/ pc'[p] = "needs_input" /\ req[p].resolves
        => KilledAt(Kept)'
    <3>1. CASE pc'[p] = "noContract"
      <4>1. pc[p] = "contract" /\ ~Whole("contract") /\ "policy" \in saw[p]
        BY <1>1, <3>1 DEF QuietDetail, Control, Loading
      <4>2. CASE ~Present("contract")
        BY <1>3, <2>2, <4>1, <4>2, KilledStays DEF ContractDue, AtFile, Stopped
      <4>3. CASE Present("contract")
        <5>1. store["contract"] = "torn"
          BY <4>1, <4>3 DEF Whole, Present, TypeOK, Files, Content
        <5>2. KilledAt({"contract"})
          BY <2>6, <4>1, <5>1 DEF Files
        <5>3. KilledAt(Kept)
          BY <5>2 DEF KilledAt, Kept
        <5> QED
          BY <5>3, KilledStays
      <4> QED
        BY <4>2, <4>3
    <3>2. CASE \/ pc'[p] = "noContractEvent"
               \/ pc'[p] = "needs_input" /\ req[p].resolves
      <4>1. KilledAt(Kept)
        BY <1>1, <2>1, <3>2 DEF QuietDetail, Explained
      <4> QED
        BY <4>1, KilledStays
    <3> QED
      BY <3>1, <3>2
  <2>8. frozen' = {} /\ pc'[p] = "error" => KilledAt({"policy", "onboarding"})'
    <3> SUFFICES ASSUME frozen' = {}, pc'[p] = "error"
                 PROVE  KilledAt({"policy", "onboarding"})
      BY KilledStays
    <3>1. \/ pc[p] = "policy" /\ ~Whole("policy")
          \/ pc[p] = "onboarding" /\ store["onboarding"] = "torn"
      BY <1>1 DEF QuietDetail
    <3>2. "policy" \in saw[p]
      BY <3>1 DEF Control, Loading
    <3>3. pc[p] = "policy" => store["policy"] = "torn"
      BY <2>2, <3>1, <3>2 DEF Whole, Present, TypeOK, Files, Content
    <3>4. KilledAt({"policy"}) \/ KilledAt({"onboarding"})
      BY <2>6, <3>1, <3>2, <3>3 DEF Files
    <3> QED
      BY <3>4 DEF KilledAt
  <2> QED
    BY <1>2, <2>3, <2>4, <2>5, <2>7, <2>8 DEF Explained
<1> QED
  BY <1>4, <1>5, <1>6, <1>7, <1>8

\* A writing step of the only command that runs.
LEMMA SerialWriting ==
  ASSUME TypeOK, MarkerInv, ReportInv, Control, Ordered, ~deleted, ~deleted', [Next]_vars,
         OneRuns, IndexDue, ContractDue, \A q \in Proc : Explained(q),
         NEW p \in Proc, Writing(p), \A q \in Proc \ {p} : ~Running(q)
  PROVE  OneRuns' /\ IndexDue' /\ ContractDue' /\ (\A q \in Proc : Explained(q))'
<1> DEFINE f == Writes[at[p]]
<1>1. /\ UNCHANGED <<req, saw, report, frozen>> /\ f \in Files
      /\ pc' = [pc EXCEPT ![p] = pc'[p]]
  BY WritingDetail DEF auditVars
<1>2. \A q \in Proc \ {p} : pc'[q] = pc[q] /\ pc[q] \in Stopped \cup {"idle"}
  BY <1>1 DEF Running, TypeOK
<1>3. dirs \subseteq dirs' /\ \A g \in Files : Present(g) => Present(g)'
  BY NothingLost
<1>4. \/ pc'[p] = "truncate" /\ UNCHANGED <<store, at>> /\ dirs' = dirs \cup DirOf(f)
         /\ (pc[p] = "mkdir" \/ (pc[p] = "idle" /\ req[p].command = "accept"))
      \/ pc[p] = "truncate" /\ pc'[p] = "write" /\ store' = [store EXCEPT ![f] = "torn"]
         /\ UNCHANGED <<dirs, at>>
      \/ pc[p] = "write" /\ pc'[p] = "mkdir" /\ at[p] < 5 /\ UNCHANGED dirs
         /\ store' = [store EXCEPT ![f] = IF @ = "absent" THEN @ ELSE "default"]
         /\ at' = [at EXCEPT ![p] = at[p] + 1]
      \/ pc[p] = "write" /\ pc'[p] = "acceptInstall" /\ at[p] = 5 /\ UNCHANGED <<dirs, at>>
         /\ store' = [store EXCEPT ![f] = IF @ = "absent" THEN @ ELSE "default"]
  <2>1. pc[p] = "truncate" => DirOf(f) \subseteq dirs
    BY DEF Ordered
  <2> QED
    BY <2>1, WritingDetail
<1>5. /\ at[p] \in 1..5 /\ Writes[1] = "generated" /\ Writes[2] = "policy"
      /\ Writes[3] = "capabilities" /\ Writes[4] = "contract" /\ Writes[5] = "onboarding"
  BY WritesPlaces DEF TypeOK
<1>6. \A j \in 1..5 : j < at[p] => Present(Writes[j])
  BY DEF MarkerInv
<1>7. OneRuns'
  BY <1>2 DEF OneRuns, Running
<1>8. IndexDue'
  <2> SUFFICES ASSUME "canonical" \in dirs', ~Present("policy")'
               PROVE  \/ KilledAt({"policy"})'
                      \/ pc'[p] = "truncate" /\ Writes[at'[p]] = "policy"
    BY DEF IndexDue
  <2>1. ~Present("policy")
    BY <1>3 DEF Files
  <2>2. CASE KilledAt({"policy"})
    BY <2>2, KilledStays
  <2>3. CASE pc[p] = "truncate" /\ f = "policy"
    <3>1. store'["policy"] = "torn"
      BY <1>4, <2>3 DEF TypeOK, Files
    <3> QED
      BY <3>1 DEF Present
  <2>4. CASE "canonical" \notin dirs
    <3>1. pc'[p] = "truncate" /\ UNCHANGED at /\ "canonical" \in DirOf(f)
      BY <1>4, <2>4
    <3>2. at[p] \in {2, 3}
      BY <1>5, <3>1 DEF DirOf
    <3>3. at[p] = 2
      BY <1>5, <1>6, <2>1, <3>2
    <3> QED
      BY <1>5, <3>1, <3>3
  <2> QED
    BY <1>2, <2>1, <2>2, <2>3, <2>4 DEF IndexDue, Stopped
<1>9. ContractDue'
  <2> SUFFICES ASSUME Present("policy")', ~Present("contract")'
               PROVE  \/ KilledAt(Kept)'
                      \/ pc'[p] \in AtFile /\ Writes[at'[p]] \in Kept
    BY DEF ContractDue
  <2>1. ~Present("contract")
    BY <1>3 DEF Files
  <2>2. CASE KilledAt(Kept)
    BY <2>2, KilledStays
  <2>3. CASE pc[p] \in AtFile /\ f \in Kept
    <3>1. at[p] \in 2..4
      BY <1>5, <2>3 DEF Kept
    <3>2. CASE pc[p] # "write"
      <4>1. pc'[p] \in AtFile /\ UNCHANGED at
        BY <1>4, <2>3, <3>2 DEF AtFile
      <4> QED
        BY <2>3, <4>1
    <3>3. CASE pc[p] = "write"
      <4>1. at[p] # 4
        BY <1>5, <2>1, <3>3 DEF MarkerInv
      <4>2. pc'[p] = "mkdir" /\ at'[p] = at[p] + 1
        BY <1>4, <3>1, <3>3 DEF TypeOK
      <4>3. at'[p] \in {3, 4}
        BY <3>1, <4>1, <4>2
      <4> QED
        BY <1>5, <4>2, <4>3 DEF AtFile, Kept
    <3> QED
      BY <3>2, <3>3
  <2>4. CASE ~Present("policy")
    <3>1. f = "policy" /\ store'["policy"] # store["policy"]
      BY <1>4, <2>4 DEF Present, TypeOK, Files
    <3>2. pc'[p] = "write" /\ UNCHANGED at
      BY <1>4, <2>4, <3>1 DEF Present, TypeOK, Files
    <3> QED
      BY <3>1, <3>2 DEF AtFile, Kept
  <2> QED
    BY <1>2, <2>1, <2>2, <2>3, <2>4 DEF ContractDue, Stopped, AtFile
<1>10. ASSUME NEW q \in Proc \ {p} PROVE Explained(q)'
  <2>1. Explained(q) /\ UNCHANGED <<pc[q], saw[q], report[q], req, frozen>>
    BY <1>1, <1>2
  <2>2. pc[q] \notin Detecting \cup {"route", "gate"} \cup AtFile
    BY <1>2 DEF Stopped, Detecting, AtFile
  <2>3. \A S : KilledAt(S) => KilledAt(S)'
    BY KilledStays
  <2> QED
    BY <2>1, <2>2, <2>3 DEF Explained, Looking
<1>11. Explained(p)'
  <2>1. pc'[p] \in {"truncate", "write", "mkdir", "acceptInstall"}
    BY <1>4
  <2>2. req[p].command # "accept" => store'["contract"] # "edited"
    <3>1. req[p].command # "accept" => store["contract"] # "edited"
      BY <1>4 DEF Explained, AtFile
    <3> QED
      BY <1>1, <1>4, <3>1 DEF TypeOK, Files
  <2> QED
    BY <1>1, <2>1, <2>2 DEF Explained, Looking, Detecting
<1> QED
  BY <1>7, <1>8, <1>9, <1>10, <1>11

\* A step of the operator while no command runs.
LEMMA SerialOperator ==
  ASSUME TypeOK, MarkerInv, ReportInv, ~deleted, ~deleted', [Next]_vars,
         OneRuns, IndexDue, ContractDue, \A q \in Proc : Explained(q),
         Operator, \A q \in Proc : ~Running(q)
  PROVE  OneRuns' /\ IndexDue' /\ ContractDue' /\ (\A q \in Proc : Explained(q))'
<1>1. UNCHANGED <<pc, req, at, saw, report, frozen>>
  BY OperatorStep
<1>2. \A q \in Proc : pc[q] \in Stopped \cup {"idle"}
  BY DEF Running
<1>3. \A g \in Files : Present(g) => Present(g)'
  BY NothingLost
<1>4. \/ dirs' \subseteq dirs /\ (Present("policy")' => Present("policy"))
      \/ Present("policy")' /\ \E p \in Proc : Told(p, "partial_state")
  <2>1. CASE \E p \in Proc : RestoreIndex(p)
    BY <2>1 DEF RestoreIndex, Operate, Store, Present, Files, TypeOK
  <2>2. CASE ~\E p \in Proc : RestoreIndex(p)
    BY <2>2, OperatorStore DEF Present, Files
  <2> QED
    BY <2>1, <2>2
<1>5. (\E p \in Proc : Told(p, "partial_state")) => Present("contract")
  <2>1. ASSUME NEW p \in Proc, Told(p, "partial_state") PROVE Present("contract")
    <3>1. "onboarding" \in Found(store, dirs)
      BY <2>1 DEF ReportInv, View, Told
    <3>2. Present("onboarding")
      BY <3>1, ClassFacts DEF TypeOK, Present
    <3> QED
      BY <3>2 DEF MarkerInv, Files
  <2> QED
    BY <2>1
<1>6. OneRuns'
  BY <1>1 DEF OneRuns, Running
<1>7. IndexDue'
  <2> SUFFICES ASSUME "canonical" \in dirs', ~Present("policy")' PROVE KilledAt({"policy"})'
    BY DEF IndexDue
  <2>1. "canonical" \in dirs /\ ~Present("policy")
    BY <1>3, <1>4 DEF Files
  <2>2. KilledAt({"policy"})
    BY <1>2, <2>1 DEF IndexDue, Stopped
  <2> QED
    BY <2>2, KilledStays
<1>8. ContractDue'
  <2> SUFFICES ASSUME Present("policy")', ~Present("contract")' PROVE KilledAt(Kept)'
    BY DEF ContractDue
  <2>1. Present("policy") /\ ~Present("contract")
    BY <1>3, <1>4, <1>5 DEF Files
  <2>2. KilledAt(Kept)
    BY <1>2, <2>1 DEF ContractDue, Stopped, AtFile
  <2> QED
    BY <2>2, KilledStays
<1>9. ASSUME NEW q \in Proc PROVE Explained(q)'
  <2>1. Explained(q)
    OBVIOUS
  <2>2. pc[q] \notin Detecting \cup {"route", "gate"} \cup AtFile
    BY <1>2 DEF Stopped, Detecting, AtFile
  <2>3. \A S : KilledAt(S) => KilledAt(S)'
    BY KilledStays
  <2> QED
    BY <1>1, <2>1, <2>2, <2>3 DEF Explained, Looking
<1> QED
  BY <1>6, <1>7, <1>8, <1>9

LEMMA SerialStep ==
  ASSUME TypeOK, MarkerInv, ReportInv, SerialInv, [Next]_vars
  PROVE  SerialInv'
<1>1. Control' /\ Ordered'
  BY ControlStep, OrderedStep DEF SerialInv
<1>2. ASSUME ~raced', ~deleted'
      PROVE  OneRuns' /\ IndexDue' /\ ContractDue' /\ (\A p \in Proc : Explained(p))'
  <2>1. ~raced /\ ~deleted
    BY <1>2, SerialCases, NothingLost
  <2>2. /\ Control /\ Ordered /\ OneRuns /\ IndexDue /\ ContractDue
        /\ \A p \in Proc : Explained(p)
    BY <2>1 DEF SerialInv, Serial
  <2>3. CASE UNCHANGED vars
    BY <2>2, <2>3 DEF vars, OneRuns, IndexDue, ContractDue, Explained, KilledAt, Present,
       Running, Looking
  <2> QED
    BY <1>2, <2>1, <2>2, <2>3, SerialCases, SerialQuiet, SerialWriting, SerialOperator
<1> QED
  BY <1>1, <1>2 DEF SerialInv, Serial

LEMMA SerialInit == Init => SerialInv
<1> SUFFICES ASSUME Init PROVE SerialInv
  OBVIOUS
<1>1. /\ store = [f \in Files |-> "absent"] /\ dirs = {}
      /\ \A p \in Proc : pc[p] = "idle"
  BY DEF Init
<1>2. /\ ~Present("policy") /\ ~Present("contract")
      /\ \A p \in Proc : ~Running(p) /\ ~Looking(p)
  BY <1>1 DEF Present, Files, Running, Looking, Detecting
<1> QED
  BY <1>1, <1>2 DEF SerialInv, Control, Ordered, Serial, OneRuns, IndexDue, ContractDue,
     Explained, Loading, AtFile

LEMMA OnboardingInv == Spec => [](TypeOK /\ MarkerInv /\ ReportInv /\ SerialInv)
BY TypeInit, TypeStep, MarkerInit, MarkerStep, ReportInit, ReportStep, SerialInit, SerialStep,
   PTL DEF Spec

\* One command at a time, nothing deleted and no append failing: every refusal
\* goes back to an accept that was killed, at a file the refusal tells, for any
\* number of commands one after the other.
THEOREM RefusalsAreExplained == Spec => []RefusalsExplained
<1>1. SerialInv => RefusalsExplained
  BY DEF SerialInv, Serial, Explained, RefusalsExplained, Kept
<1> QED
  BY <1>1, OnboardingInv, PTL

\* One command at a time and nothing deleted: no step but one of an accept
\* takes the place of a contract the user has edited.
THEOREM EditIsKept == Spec => EditSurvives
<1>1. ASSUME TypeOK, MarkerInv, ReportInv, SerialInv, [Next]_vars,
             store["contract"] = "edited", store'["contract"] # "edited", ~raced', ~deleted'
      PROVE  \E p \in Proc : pc'[p] # pc[p] /\ req[p].command = "accept"
  <2>1. ~raced /\ ~deleted
    BY <1>1, SerialCases, NothingLost
  <2>2. \A p \in Proc : Explained(p)
    BY <1>1, <2>1 DEF SerialInv, Serial
  <2>3. ASSUME NEW p \in Proc, Quiet(p) PROVE FALSE
    BY <1>1, <2>3, QuietStep
  <2>4. ASSUME NEW p \in Proc, Writing(p)
        PROVE  pc'[p] # pc[p] /\ req[p].command = "accept"
    <3>1. store' # store /\ pc[p] \in AtFile /\ pc'[p] # pc[p]
      BY <1>1, <2>4, WritingStep DEF AtFile
    <3>2. Explained(p)
      BY <2>2
    <3> QED
      BY <1>1, <3>1, <3>2 DEF Explained
  <2>5. CASE Operator
    <3>1. Present("contract") => Present("contract")'
      BY <1>1, NothingLost DEF Files
    <3>2. store'["contract"] \in {"edited", "absent"}
      BY <1>1, <2>5 DEF Operator, EditContract, DeleteFile, DeleteDir, RestoreIndex,
         DeleteOnboardingState, DeleteDirectories, RestoreContract, Operate, Store, Without,
         Whole, Files, TypeOK
    <3> QED
      BY <1>1, <3>1, <3>2 DEF Present
  <2>6. CASE UNCHANGED vars
    BY <1>1, <2>6 DEF vars
  <2> QED
    BY <1>1, <2>3, <2>4, <2>5, <2>6, NextCases
<1>2. TypeOK /\ MarkerInv /\ ReportInv /\ SerialInv /\ [Next]_vars =>
        [store["contract"] = "edited" /\ store'["contract"] # "edited" /\ ~raced' /\ ~deleted' =>
          \E p \in Proc : pc'[p] # pc[p] /\ req[p].command = "accept"]_vars
  BY <1>1
<1> QED
  BY <1>2, OnboardingInv, PTL DEF Spec, EditSurvives

=============================================================================
