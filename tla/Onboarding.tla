----------------------------- MODULE Onboarding -----------------------------
(***************************************************************************)
(* How a project store comes to be: the state detection that routes every  *)
(* run, start and resume (internal/run/state.go, internal/entry), the      *)
(* onboarding path with its approval gate (cmd_run_lifecycle.go), the      *)
(* writes of AcceptOnboarding (internal/persist), and the normal path up   *)
(* to the point where the store has been read (cmd_run.go).                *)
(*                                                                         *)
(* A process is one command.  Detection is four stat calls and every file  *)
(* is truncated and then written, so commands interleave at each of them;  *)
(* a command may be killed anywhere.  "start" stands for start and resume, *)
(* which differ here in the names of their events only.  The eight files   *)
(* under generated/ are one file: nothing in this part reads them.         *)
(*                                                                         *)
(* The two audit streams are what AuditLedger promises: an append is       *)
(* recorded, or it fails and from then on the stream is frozen.            *)
(***************************************************************************)
EXTENDS Naturals, Sequences, FiniteSets

CONSTANTS
  Proc,        \* the commands
  Requests,    \* what they may ask for
  Faulty,      \* an append may meet a racing append or a torn write
  Losable,     \* what the operator may delete
  Operations,  \* bound on the operator's deletions, edits and repairs
  Racers       \* bound on the commands of a behaviour in which two overlap

Files == {"generated", "policy", "capabilities", "contract", "onboarding"}
Dirs  == {"canonical", "state"}
Content == {"absent", "torn", "default", "edited"}
Streams == {"install", "run"}
Events == {"begin", "gate.result", "accept_onboarding", "onboarding.accepted", "end",
           "run_execute", "error.raised"}
Class == {"none", "canonical_present", "onboarding_complete",
          "partial_state", "corrupt_state"}
Blocking == {"partial_state", "corrupt_state"}
Request == [command : {"accept", "run", "start"}, approves : BOOLEAN,
            resolves : BOOLEAN]

ASSUME OnboardingAssumption ==
  /\ Requests \subseteq Request
  /\ Faulty \in BOOLEAN
  /\ Losable \subseteq Files \cup Dirs
  /\ Operations \in Nat
  /\ Racers \in Nat

VARIABLES
  store,     \* the content of each file of .atrakta
  dirs,      \* which of .atrakta/canonical and .atrakta/state exist
  recorded,  \* the events a reader of each stream accepts
  frozen,    \* the streams that no longer verify
  pc,        \* where each command is
  req,       \* its arguments
  saw,       \* the markers its stat calls have found
  report,    \* the state it detected
  at,        \* the file AcceptOnboarding is at, an index of Writes
  during,    \* history: the states the store was in while it was detecting
  spent,     \* the operator's actions so far
  deleted,   \* history: the operator deleted something
  raced      \* history: two commands overlapped, or the operator and a command

vars == <<store, dirs, recorded, frozen, pc, req, saw, report, at, during, spent,
          deleted, raced>>
opVars == <<spent, deleted>>
storeVars == <<store, dirs>>
auditVars == <<recorded, frozen>>
procVars  == <<req, saw, report, at>>

-----------------------------------------------------------------------------
(* The store and its classification *)

\* Mutant: the marker that completes onboarding is written first.
WritesStateFirst == <<"onboarding", "generated", "policy", "capabilities", "contract">>

\* The order in which AcceptOnboarding writes.
Writes == <<"generated", "policy", "capabilities", "contract", "onboarding">>

DirOf(f) == IF f \in {"policy", "capabilities"} THEN {"canonical"}
            ELSE IF f = "onboarding" THEN {"state"} ELSE {}

\* Mutant: a store without its marker counts as none.
ClassifyByMarker(found) ==
  IF {"policy", "onboarding"} \subseteq found THEN "onboarding_complete"
  ELSE IF "onboarding" \in found THEN "partial_state"
  ELSE IF "policy" \notin found /\ found # {} THEN "corrupt_state"
  ELSE "none"

Classify(found) ==
  IF {"policy", "onboarding"} \subseteq found THEN "onboarding_complete"
  ELSE IF "policy" \in found THEN "canonical_present"
  ELSE IF "onboarding" \in found THEN "partial_state"
  ELSE IF found # {} THEN "corrupt_state"
  ELSE "none"

\* What stat calls made all at once would find.
Found(s, d) == {f \in {"policy", "onboarding"} : s[f] # "absent"} \cup d
ClassOf(s, d) == Classify(Found(s, d))

PC == {"idle", "onboarding?", "canonical?", "state?", "route", "gate",
       "mkdir", "truncate", "write", "acceptInstall", "acceptRun", "end",
       "contract", "noContract", "noContractEvent", "policy", "onboarding",
       "preflightInstall", "preflightRun",
       "accepted", "needs_input", "needs_approval", "blocked", "error", "ready",
       "killed"}
Detecting == {"onboarding?", "canonical?", "state?"}
Stopped == {"accepted", "needs_input", "needs_approval", "blocked", "error",
            "ready", "killed"}
Running(p) == pc[p] \notin Stopped \cup {"idle"}
Session(p) == req[p].command = "start"
Goto(p, l) == pc' = [pc EXCEPT ![p] = l]

\* A change of the store, noted by the commands that are detecting its state.
Store(s, d) ==
  /\ store' = s
  /\ dirs' = d
  /\ during' = [q \in Proc |-> during[q] \cup
                  IF pc[q] \in Detecting THEN {ClassOf(s, d)} ELSE {}]

Init ==
  /\ store = [f \in Files |-> "absent"]
  /\ dirs = {}
  /\ recorded = [s \in Streams |-> {}]
  /\ frozen = {}
  /\ pc = [p \in Proc |-> "idle"]
  /\ req \in [Proc -> Requests]
  /\ saw = [p \in Proc |-> {}]
  /\ report = [p \in Proc |-> "none"]
  /\ at = [p \in Proc |-> 1]
  /\ during = [p \in Proc |-> {}]
  /\ spent = 0
  /\ deleted = FALSE
  /\ raced = FALSE

\* AppendAndVerify and AppendRunEventAndVerify as AuditLedger has them; a
\* command whose append fails exits with a runtime error.
Record(p, s, event, next) ==
  \/ /\ s \notin frozen
     /\ recorded' = [recorded EXCEPT ![s] = @ \cup {<<p, event>>}]
     /\ Goto(p, next)
     /\ UNCHANGED frozen
  \/ /\ Faulty \/ s \in frozen
     /\ recorded' \in {recorded, [recorded EXCEPT ![s] = @ \cup {<<p, event>>}]}
     /\ frozen' = frozen \cup {s}
     /\ Goto(p, "error")

-----------------------------------------------------------------------------
(* Detection: DetectCanonicalState, then entry.Resolve *)

See(p, marker, there, next) ==
  /\ saw' = [saw EXCEPT ![p] = @ \cup IF there THEN {marker} ELSE {}]
  /\ Goto(p, next)
  /\ UNCHANGED <<storeVars, auditVars, req, report, at, opVars>>

\* Mutant: the wrong index is looked for.
StatCapabilities(p) ==
  /\ pc[p] = "idle" /\ req[p].command # "accept"
  /\ See(p, "policy", store["capabilities"] # "absent", "onboarding?")
  /\ during' = [during EXCEPT ![p] = {ClassOf(store, dirs)}]

StatPolicy(p) ==
  /\ pc[p] = "idle" /\ req[p].command # "accept"
  /\ See(p, "policy", store["policy"] # "absent", "onboarding?")
  /\ during' = [during EXCEPT ![p] = {ClassOf(store, dirs)}]

StatOnboarding(p) ==
  /\ pc[p] = "onboarding?"
  /\ See(p, "onboarding", store["onboarding"] # "absent", "canonical?")
  /\ UNCHANGED during

StatCanonicalDir(p) ==
  /\ pc[p] = "canonical?"
  /\ See(p, "canonical", "canonical" \in dirs, "state?")
  /\ UNCHANGED during

StatStateDir(p) ==
  /\ pc[p] = "state?"
  /\ See(p, "state", "state" \in dirs, "route")
  /\ UNCHANGED during

\* A session's first event is recorded before anything is approved.
Route(p) ==
  /\ pc[p] = "route"
  /\ report' = [report EXCEPT ![p] = Classify(saw[p])]
  /\ \/ /\ report'[p] \in Blocking
        /\ Goto(p, "blocked")
        /\ UNCHANGED auditVars
     \/ /\ report'[p] \notin Blocking \cup {"none"} /\ ~req[p].resolves
        /\ Goto(p, "needs_input")
        /\ UNCHANGED auditVars
     \/ /\ report'[p] = "none" \/ (report'[p] \notin Blocking /\ req[p].resolves)
        /\ LET next == IF report'[p] = "none" THEN "gate" ELSE "contract"
           IN IF Session(p) THEN Record(p, "run", "begin", next)
              ELSE Goto(p, next) /\ UNCHANGED auditVars
  /\ UNCHANGED <<storeVars, req, saw, at, during, opVars>>

-----------------------------------------------------------------------------
(* The onboarding path: runOnboardingPath and AcceptOnboarding *)

\* --approve or a yes at the prompt; otherwise exit 3.
Gate(p) ==
  /\ pc[p] = "gate"
  /\ IF req[p].approves THEN Goto(p, "mkdir") /\ UNCHANGED auditVars
     ELSE IF Session(p) THEN Record(p, "run", "gate.result", "needs_approval")
     ELSE Goto(p, "needs_approval") /\ UNCHANGED auditVars
  /\ UNCHANGED <<storeVars, procVars, during, opVars>>

\* os.MkdirAll of the file's directory; "atrakta accept" begins here.
MakeDir(p) ==
  /\ pc[p] = "mkdir" \/ (pc[p] = "idle" /\ req[p].command = "accept")
  /\ Store(store, dirs \cup DirOf(Writes[at[p]]))
  /\ Goto(p, "truncate")
  /\ UNCHANGED <<auditVars, procVars, opVars>>

\* os.WriteFile is an O_TRUNC open and a write.
Truncate(p) ==
  /\ pc[p] = "truncate"
  /\ IF DirOf(Writes[at[p]]) \subseteq dirs
       THEN /\ Store([store EXCEPT ![Writes[at[p]]] = "torn"], dirs)
            /\ Goto(p, "write")
       ELSE /\ Goto(p, "error")
            /\ UNCHANGED <<storeVars, during>>
  /\ UNCHANGED <<auditVars, procVars, opVars>>

\* A file that was deleted after the open is written to no avail.
WriteFile(p) ==
  /\ pc[p] = "write"
  /\ LET f == Writes[at[p]]
     IN Store(IF store[f] = "absent" THEN store
              ELSE [store EXCEPT ![f] = "default"], dirs)
  /\ IF at[p] = Len(Writes)
       THEN Goto(p, "acceptInstall") /\ UNCHANGED at
       ELSE Goto(p, "mkdir") /\ at' = [at EXCEPT ![p] = @ + 1]
  /\ UNCHANGED <<auditVars, req, saw, report, opVars>>

\* Mutant: the run event is left out.
AcceptInstallOnly(p) ==
  /\ pc[p] = "acceptInstall"
  /\ Record(p, "install", "accept_onboarding", "end")
  /\ UNCHANGED <<storeVars, procVars, during, opVars>>

AcceptInstall(p) ==
  /\ pc[p] = "acceptInstall"
  /\ Record(p, "install", "accept_onboarding", "acceptRun")
  /\ UNCHANGED <<storeVars, procVars, during, opVars>>

AcceptRun(p) ==
  /\ pc[p] = "acceptRun"
  /\ Record(p, "run", "onboarding.accepted", "end")
  /\ UNCHANGED <<storeVars, procVars, during, opVars>>

\* What a session saves after this event is RunSession's.
End(p) ==
  /\ pc[p] = "end"
  /\ IF Session(p) THEN Record(p, "run", "end", "accepted")
     ELSE Goto(p, "accepted") /\ UNCHANGED auditVars
  /\ UNCHANGED <<storeVars, procVars, during, opVars>>

-----------------------------------------------------------------------------
(* The normal path up to the preflight *)

Whole(f) == store[f] \in {"default", "edited"}

Check(p, label, ok, next, otherwise) ==
  /\ pc[p] = label
  /\ Goto(p, IF ok THEN next ELSE otherwise)
  /\ UNCHANGED <<storeVars, auditVars, procVars, during, opVars>>

LoadContract(p) == Check(p, "contract", Whole("contract"), "policy", "noContract")

NoContract(p) ==
  /\ pc[p] = "noContract"
  /\ Record(p, "install", "run_execute",
            IF Session(p) THEN "noContractEvent" ELSE "needs_input")
  /\ UNCHANGED <<storeVars, procVars, during, opVars>>

NoContractEvent(p) ==
  /\ pc[p] = "noContractEvent"
  /\ Record(p, "run", "error.raised", "needs_input")
  /\ UNCHANGED <<storeVars, procVars, during, opVars>>

\* loadCanonicalSummary needs the policy index; the onboarding state may be
\* missing but not unreadable.
LoadPolicy(p)     == Check(p, "policy", Whole("policy"), "onboarding", "error")
LoadOnboarding(p) == Check(p, "onboarding", store["onboarding"] # "torn",
                           "preflightInstall", "error")
PreflightInstall(p) == Check(p, "preflightInstall", "install" \notin frozen,
                             "preflightRun", "error")
PreflightRun(p)     == Check(p, "preflightRun", "run" \notin frozen, "ready", "error")

-----------------------------------------------------------------------------
(* Faults and the operator *)

Kill(p) ==
  /\ Running(p)
  /\ Goto(p, "killed")
  /\ UNCHANGED <<storeVars, auditVars, procVars, during, opVars>>

Operate(s, d) ==
  /\ spent < Operations
  /\ spent' = spent + 1
  /\ Store(s, d)
  /\ deleted' = (deleted \/ Found(store, dirs) \ Found(s, d) # {}
                         \/ \E f \in Files : store[f] # "absent" /\ s[f] = "absent")
  /\ UNCHANGED <<auditVars, procVars, pc>>

Without(fs) == [f \in Files |-> IF f \in fs THEN "absent" ELSE store[f]]

EditContract == Whole("contract") /\ Operate([store EXCEPT !["contract"] = "edited"], dirs)
DeleteFile(f) == f \in Losable /\ store[f] # "absent" /\ Operate(Without({f}), dirs)
DeleteDir(d) ==
  /\ d \in Losable \cap dirs
  /\ Operate(Without({f \in Files : d \in DirOf(f)}), dirs \ {d})

\* The operator follows the advice printed by a blocked command.
Told(p, class) == pc[p] = "blocked" /\ report[p] = class
RestoreIndex(p) ==
  /\ Told(p, "partial_state") /\ ~Whole("policy")
  /\ Operate([store EXCEPT !["policy"] = "default"], dirs \cup {"canonical"})
DeleteOnboardingState(p) ==
  /\ Told(p, "partial_state") /\ store["onboarding"] # "absent"
  /\ Operate(Without({"onboarding"}), dirs)
DeleteDirectories(p) ==
  /\ Told(p, "corrupt_state") /\ dirs # {}
  /\ Operate(Without({"policy", "capabilities", "onboarding"}), {})
\* ... or by one that found no valid contract.
RestoreContract(p) ==
  /\ pc[p] = "needs_input" /\ req[p].resolves /\ ~Whole("contract")
  /\ Operate([store EXCEPT !["contract"] = "default"], dirs)

Step(p) ==
  \/ StatPolicy(p) \/ StatOnboarding(p) \/ StatCanonicalDir(p) \/ StatStateDir(p)
  \/ Route(p) \/ Gate(p)
  \/ MakeDir(p) \/ Truncate(p) \/ WriteFile(p)
  \/ AcceptInstall(p) \/ AcceptRun(p) \/ End(p)
  \/ LoadContract(p) \/ NoContract(p) \/ NoContractEvent(p)
  \/ LoadPolicy(p) \/ LoadOnboarding(p) \/ PreflightInstall(p) \/ PreflightRun(p)

Operator ==
  \/ EditContract
  \/ \E f \in Files : DeleteFile(f)
  \/ \E d \in Dirs : DeleteDir(d)
  \/ \E p \in Proc : \/ RestoreIndex(p) \/ DeleteOnboardingState(p)
                     \/ DeleteDirectories(p) \/ RestoreContract(p)

Note(overlap) ==
  /\ raced' = (raced \/ overlap)
  /\ raced' => Cardinality({p \in Proc : pc'[p] # "idle"}) <= Racers

Next ==
  \/ \E p \in Proc : (Step(p) \/ Kill(p)) /\ Note(\E q \in Proc \ {p} : Running(q))
  \/ Operator /\ Note(\E p \in Proc : Running(p))

Spec == Init /\ [][Next]_vars

-----------------------------------------------------------------------------
(* Properties *)

\* The types of the variables.
TypeOK ==
  /\ store \in [Files -> Content]
  /\ dirs \subseteq Dirs
  /\ recorded \in [Streams -> SUBSET (Proc \X Events)]
  /\ frozen \subseteq Streams
  /\ pc \in [Proc -> PC]
  /\ req \in [Proc -> Requests]
  /\ saw \in [Proc -> SUBSET {"policy", "onboarding", "canonical", "state"}]
  /\ report \in [Proc -> Class]
  /\ at \in [Proc -> 1..Len(Writes)]
  /\ during \in [Proc -> SUBSET Class]
  /\ spent \in 0..Operations
  /\ deleted \in BOOLEAN
  /\ raced \in BOOLEAN

\* Some command truncated the file and has not written it, or never will.
Unfinished(f) == \E p \in Proc : pc[p] \in {"write", "killed"} /\ Writes[at[p]] = f

\* Crash safety of the write order: the marker that declares onboarding
\* complete is never there before everything it stands for, however many
\* accepts race and wherever they are killed.  A torn file is one that some
\* accept is rewriting, or was killed rewriting.
MarkerLast ==
  /\ \A f \in Files : store[f] = "torn" => Unfinished(f)
  /\ ~deleted /\ store["onboarding"] # "absent" =>
       \A f \in Files : store[f] # "absent"

\* A command that reported an accepted onboarding was approved, has both its events
\* in the streams, and every file of the store is whole, or being rewritten by another
\* accept, until somebody deletes it.
AcceptedComplete ==
  \A p \in Proc : pc[p] = "accepted" =>
    /\ req[p].command = "accept" \/ req[p].approves
    /\ <<p, "accept_onboarding">> \in recorded["install"]
    /\ <<p, "onboarding.accepted">> \in recorded["run"]
    /\ ~deleted => \A f \in Files : Whole(f) \/ Unfinished(f)

\* Although the stat calls are not atomic, the state a command reports is one
\* the store was in while it looked, unless that state is partial_state.
Routed(p) ==
  req[p].command # "accept" /\ pc[p] \notin {"idle", "route", "killed"} \cup Detecting
ReportTruthful ==
  ~deleted => \A p \in Proc : Routed(p) /\ report[p] # "partial_state" =>
                 report[p] \in during[p]

\* One command at a time and nothing deleted: what the user has made of the
\* contract is overwritten by accept only.  run, start and resume detect the state
\* before they ask for approval and look at no contract then, so that an edit made
\* while they ask, or beside another accept, is the only one they can lose
\* (cmd_run_lifecycle.go:49-83, accept.go:87-127).
EditSurvives ==
  [][ store["contract"] = "edited" /\ store'["contract"] # "edited" /\ ~raced' /\ ~deleted' =>
        \E p \in Proc : pc'[p] # pc[p] /\ req[p].command = "accept" ]_vars

\* One command at a time, nothing deleted and no append failing: every refusal
\* goes back to an accept that was killed, and the refusal tells where.  Only a
\* kill between making canonical/ and creating the index blocks the store.
KilledAt(S) == \E q \in Proc : pc[q] = "killed" /\ Writes[at[q]] \in S
RefusalsExplained ==
  ~deleted /\ ~raced /\ frozen = {} => \A p \in Proc :
    /\ pc[p] = "blocked" => report[p] = "corrupt_state" /\ KilledAt({"policy"})
    /\ pc[p] = "needs_input" /\ req[p].resolves =>
         KilledAt({"policy", "capabilities", "contract"})
    /\ pc[p] = "error" => KilledAt({"policy", "onboarding"})
=============================================================================
