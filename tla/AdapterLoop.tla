----------------------------- MODULE AdapterLoop -----------------------------
(***************************************************************************)
(* The loop in which an adapter calls atrakta run (internal/adapters): it  *)
(* invokes run, collects what an exit of 2 or 3 asks for, and invokes run  *)
(* again with one more flag.  run is external here and may exit with any   *)
(* code; the collectors are the adapter's own and may answer, refuse, fail *)
(* or be missing.  Of the arguments only the two flags the loop adds are   *)
(* kept, and of a payload nothing: it is handed to the collectors.         *)
(***************************************************************************)
EXTENDS Naturals, Sequences

CONSTANT Limits    \* what ExecuteConfig.MaxAttempts may be

ASSUME LimitsAssumption == Limits \subseteq Nat

Flags == {"--interface", "--approve"}
Config == [interactive : BOOLEAN, inputs : BOOLEAN, approvals : BOOLEAN,
           maxAttempts : Limits]

VARIABLES
  config,    \* how the adapter set the loop up, and which collectors it gave
  base,      \* the flags it called the loop with
  args,      \* the flags of the next invocation
  attempts,  \* the invocations that have returned: their flags and exit codes
  phase,     \* what the loop does next, or how it ended
  final,     \* FinalExitCode
  granted    \* history: an approval collector has agreed

loopVars == <<config, base, args, attempts, phase, final, granted>>
fixed == <<config, base>>

\* Zero means the default.
Max == IF config.maxAttempts = 0 THEN 3 ELSE config.maxAttempts

LoopInit ==
  /\ config \in Config
  /\ base \in SUBSET Flags
  /\ args = base
  /\ attempts = <<>>
  /\ phase = "invoke"
  /\ final = "none"
  /\ granted = FALSE

\* The loop ends with an error and the exit code of the attempt it ended on.
Fail == /\ phase' = "failed"
        /\ final' = attempts[Len(attempts)].code
        /\ UNCHANGED <<fixed, args, attempts, granted>>

\* One attempt; "none" is an invocation that ended in an error of its own.
Invoke ==
  /\ phase = "invoke"
  /\ Len(attempts) < Max
  /\ \E code \in {"0", "1", "2", "3", "none"} :
       /\ attempts' = attempts \o <<[args |-> args, code |-> code]>>
       /\ phase' = CASE code = "0" -> "done"
                     [] code = "2" -> "input"
                     [] code = "3" -> "approval"
                     [] OTHER -> "failed"
       /\ final' = IF code \in {"2", "3"} THEN final ELSE code
  /\ UNCHANGED <<fixed, args, granted>>

RetryLimit ==
  /\ phase = "invoke"
  /\ Len(attempts) >= Max
  /\ phase' = "failed"
  /\ final' = "1"
  /\ UNCHANGED <<fixed, args, attempts, granted>>

Retry(flag) ==
  /\ phase' = "invoke"
  /\ args' = args \cup {flag}
  /\ UNCHANGED <<fixed, attempts, final>>

\* Mutant: an interface is passed again when it was there already.
CollectInputAgain ==
  /\ phase = "input"
  /\ config.inputs
  /\ Retry("--interface")
  /\ UNCHANGED granted

\* resolveNeedsInput, when the collector returns an interface.
CollectInput ==
  /\ phase = "input"
  /\ config.inputs
  /\ "--interface" \notin args
  /\ Retry("--interface")
  /\ UNCHANGED granted

\* No collector, its error, no interface in what it returned, or one already
\* there.
NoInput == phase = "input" /\ Fail

\* Mutant: the collector is asked in a non-interactive loop too.
CollectApprovalAlways ==
  /\ phase = "approval"
  /\ "--approve" \notin args
  /\ config.approvals
  /\ Retry("--approve")
  /\ granted' = TRUE

\* resolveNeedsApproval, when the collector agrees.
CollectApproval ==
  /\ phase = "approval"
  /\ "--approve" \notin args
  /\ config.interactive
  /\ config.approvals
  /\ Retry("--approve")
  /\ granted' = TRUE

\* --approve already there, a non-interactive loop, no collector, its error or
\* its refusal.
NoApproval == phase = "approval" /\ Fail

LoopNext == Invoke \/ RetryLimit \/ CollectInput \/ NoInput \/ CollectApproval \/ NoApproval

LoopSpec == LoopInit /\ [][LoopNext]_loopVars

-----------------------------------------------------------------------------
(* Properties *)

\* The types of the variables.
TypeOK ==
  /\ config \in Config
  /\ base \subseteq Flags
  /\ args \subseteq Flags
  /\ attempts \in Seq([args : SUBSET Flags, code : {"0", "1", "2", "3", "none"}])
  /\ Len(attempts) <= Max
  /\ phase \in {"invoke", "input", "approval", "done", "failed"}
  /\ final \in {"none", "0", "1", "2", "3"}
  /\ granted \in BOOLEAN

RoomForRetries == config.maxAttempts = 0 \/ config.maxAttempts >= 3

\* Whatever run answers and however high the limit is set, run is invoked three
\* times at most: every retry adds one of two flags that was not there.  So a
\* limit of three, the default, is never what ends the loop.
RetriesAddFlags ==
  /\ Len(attempts) <= 3
  /\ RoomForRetries /\ phase = "invoke" => Len(attempts) < Max

\* --approve is passed on only by an adapter that passed it from the start, or
\* after its collector agreed, in an interactive loop, on an attempt that
\* exited for want of approval.
ApproveOnlyOnConsent ==
  /\ "--approve" \in args \ base =>
       /\ granted /\ config.interactive /\ config.approvals
       /\ \E i \in 1..Len(attempts) :
            attempts[i].code = "3" /\ "--approve" \notin attempts[i].args
  /\ granted => "--approve" \in args

=============================================================================
