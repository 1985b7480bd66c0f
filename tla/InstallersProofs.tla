-------------------------- MODULE InstallersProofs --------------------------
(***************************************************************************)
(* Theorems about Installers, for any commands, requests, files and        *)
(* bounds.                                                                 *)
(*                                                                         *)
(* CoreInv places every command: the step before it, the file of the step, *)
(* and what its plan was made from.  With it, TracedInv relates the files  *)
(* a command has changed to the events of it in the stream; both hold      *)
(* however the commands, the user, kills, failing appends and failing      *)
(* writes interleave, and so does DocInv, of the settings of the user in   *)
(* an IDE file.  The rest of OneInv speaks of the behaviours in which no   *)
(* two of them overlap: what the running command has read is still what is *)
(* there.                                                                  *)
(***************************************************************************)
EXTENDS Installers, FiniteSetTheorems, SequenceTheorems, TLAPS

WriteJob  == {"hook.install", "hook.repair", "wrap.install", "ide-autostart"} \cup SetupSteps
RemoveJob == {"hook.uninstall", "wrap.uninstall"}
StepPC    == {"read", "decide", "gate", "truncate", "write", "remove", "exec", "event"}
Content   == ScriptContent \cup DocContent
EventName == Events \cup {"init.begin", "init.step", "init.end"}
Status    == Result \cup {"non_ok"}
LogEntry  == [by : Proc, event : EventName, on : SUBSET (Targets \cup SetupSteps),
              status : Status, count : 0..3]

\* The types, of the events too; the steps counted and those ahead are at most
\* the three of a setup.
TypeInv ==
  /\ file \in [Targets -> Content]
  /\ \A t \in Scripts : file[t] \in ScriptContent
  /\ \A t \in Docs : file[t] \in DocContent
  /\ log \in Seq(LogEntry)
  /\ frozen \in BOOLEAN
  /\ pc \in [Proc -> PC]
  /\ req \in Requests
  /\ todo \in [Proc -> Seq(Command \cup SetupSteps)]
  /\ at \in [Proc -> Nat]
  /\ saw \in [Proc -> [Targets -> Content]]
  /\ result \in [Proc -> Result]
  /\ steps \in [Proc -> Nat]
  /\ \A p \in Proc : steps[p] + Len(todo[p]) <= 3
  /\ changed \in [Proc -> SUBSET Targets]
  /\ edited \subseteq Targets /\ mine \subseteq Docs \X Part
  /\ spent \in 0..Edits
  /\ raced \in BOOLEAN

\* Where a command is, and the file of its plan it is at.
JobInv(p) ==
  /\ ~IsInit(p) => todo[p] = <<req[p].command>> /\ pc[p] \notin {"step", "start", "end"}
  /\ IsInit(p) => \A i \in 1..Len(todo[p]) : todo[p][i] \in SetupSteps
  /\ IsInit(p) => \A i, j \in 1..Len(todo[p]) : todo[p][i] = todo[p][j] => i = j
  /\ pc[p] \in StepPC \cup {"step"} => todo[p] # <<>>
  /\ pc[p] = "start" => todo[p] = <<>>
  /\ pc[p] = "idle" => todo[p] = Jobs(req[p])
  /\ pc[p] \in {"idle", "decide", "gate", "remove", "exec", "event", "step", "start"} => at[p] = 1
  /\ pc[p] = "read" => at[p] \in 1..Len(Reads(p))
  /\ pc[p] \in {"truncate", "write"} => at[p] \in 1..Len(Plan(p))
  /\ pc[p] \in {"gate", "truncate", "write"} => Job(p) \in WriteJob /\ Plan(p) # <<>>
  /\ pc[p] = "remove" => Job(p) \in RemoveJob
  /\ pc[p] = "exec" => Job(p) = "wrap.run"
  /\ pc[p] = "event" /\ Job(p) = "wrap.run" => result[p] \in {"completed", "failed"}

\* What was approved, and what the decision saw: no hook is installed where one
\* was, --no-overwrite replaces nothing, and only what is managed is removed.
DecidedInv(p) ==
  /\ pc[p] \in {"truncate", "write"} => Job(p) \in req[p].approves
  /\ pc[p] \in {"gate", "truncate", "write"} =>
       /\ Job(p) = "hook.install" => saw[p][req[p].hook] = "absent"
       /\ Job(p) \in SetupSteps /\ req[p].keeps =>
            \A i \in 1..Len(Plan(p)) : ~Exists(Plan(p)[i], saw[p][Plan(p)[i]])
  /\ pc[p] = "remove" => Managed(saw[p][Reads(p)[1]])

\* What a command has changed is what it has reported and, between its first
\* change and its event, the part of the plan it has got to; where a file or an
\* append has failed, the first files of the step that failed.
Partial(p) ==
  CASE pc[p] = "truncate" -> {Plan(p)[i] : i \in 1..(at[p] - 1)}
    [] pc[p] = "write"    -> {Plan(p)[i] : i \in 1..at[p]}
    [] pc[p] = "event"    -> OnEvent(p)
    [] OTHER              -> {}

Exempt(p) == result[p] = "io_error" \/ (result[p] = "error" /\ frozen)
PartOf(p) == \E k \in 0..Len(Halted(p)) :
               changed[p] = Reported(p) \cup {Halted(p)[i] : i \in 1..k}
ReportInv(p) ==
  pc[p] # "killed" =>
    \/ changed[p] = Reported(p) \cup Partial(p)
    \/ pc[p] \in {"end", "done"} /\ Exempt(p) /\ PartOf(p)
BrokenInv(p) == result[p] = "io_error" => pc[p] \in {"end", "done", "killed"}

\* The steps an init has on record and those before it are all of its setup, it
\* counts the installed ones right, and what it has reported is what these
\* install; a setup that was refused has stopped at the step that was.
StepEvents(p) == EventsOf(p, {"init.step"})
Tallied(p) ==
  /\ Cardinality(StepEvents(p)) + Len(todo[p]) = Len(Jobs(req[p]))
  /\ RefusedSteps(p) = {}
  /\ steps[p] = Cardinality(InstalledSteps(p))
Credit(p) == UNION {UNION {SetupTargets(s) : s \in log[j].on} : j \in InstalledSteps(p)}
Claimed(p) == IF pc[p] = "step" /\ result[p] = "installed" THEN SetupTargets(Job(p)) ELSE {}
Stopped(p) ==
  \E j \in RefusedSteps(p) :
    /\ log[j].on \cap req[p].approves = {}
    /\ \A k \in StepEvents(p) : k = j \/ (k < j /\ k \notin RefusedSteps(p))

InitInv(p) ==
  IsInit(p) =>
   /\ pc[p] \notin {"end", "done", "killed"} =>
        Tallied(p) /\ Reported(p) = Credit(p) \cup Claimed(p)
   /\ pc[p] = "end" =>
        \/ result[p] \in {"error", "io_error"}
        \/ /\ steps[p] = Cardinality(InstalledSteps(p)) /\ Reported(p) = Credit(p)
           /\ \/ todo[p] = <<>> /\ Tallied(p)
              \/ todo[p] # <<>> /\ result[p] = "needs_approval" /\ Stopped(p)
   /\ pc[p] = "step" /\ result[p] = "needs_approval" => Job(p) \notin req[p].approves

\* One command at a time: what a plan still holds of the files is as it was
\* read, and what has been written is done.
SerialInv == \A p, q \in Proc : Running(p) /\ Running(q) => p = q

Done(t) == file[t] \in IF t = "tasks" THEN {"ours", "both", "kept"} ELSE {"ours", "both"}
Current(p, t) == Job(p) # "wrap.install" => saw[p][t] = file[t]
FreshInv(p) ==
  /\ pc[p] = "read" => \A i \in 1..Len(Reads(p)) : i < at[p] => Current(p, Reads(p)[i])
  /\ pc[p] \in {"decide", "gate", "remove"} =>
       \A i \in 1..Len(Reads(p)) : Current(p, Reads(p)[i])
  /\ pc[p] = "truncate" => \A i \in 1..Len(Plan(p)) :
       IF i < at[p] THEN Done(Plan(p)[i]) ELSE Current(p, Plan(p)[i])
  /\ pc[p] = "write" => \A i \in 1..Len(Plan(p)) :
       IF i < at[p] THEN Done(Plan(p)[i])
       ELSE IF i = at[p] THEN file[Plan(p)[i]] = "empty" ELSE Current(p, Plan(p)[i])
  /\ pc[p] = "event" => \A i \in 1..Len(Plan(p)) :
       IF Job(p) \in RemoveJob THEN file[Plan(p)[i]] = "absent" ELSE Done(Plan(p)[i])

\* What a job ahead is to change has not been reported.
NewInv(p) ==
  pc[p] \notin {"end", "done", "killed"} =>
    /\ ~IsInit(p) => Reported(p) = {}
    /\ IsInit(p) => \A i \in 1..Len(todo[p]) :
         (pc[p] = "step" => i > 1) => SetupTargets(todo[p][i]) \cap Reported(p) = {}

CoreInv == TypeInv /\ \A p \in Proc : JobInv(p) /\ DecidedInv(p)

-----------------------------------------------------------------------------
(* The jobs, what they read and what they plan *)

AnyJob == (Command \ {"init"}) \cup SetupSteps

\* The arguments of a command.
LEMMA RequestType ==
  ASSUME TypeInv, NEW p \in Proc
  PROVE  /\ req \in [Proc -> Request]
         /\ req[p] \in Request
         /\ req[p].command \in Command /\ req[p].hook \in Hooks
         /\ req[p].skips \subseteq SetupSteps
         /\ req[p].keeps \in BOOLEAN
<1>1. req \in [Proc -> Request]
  BY InstallersAssumption DEF TypeInv
<1>2. req[p] \in Request
  BY <1>1
<1> QED
  BY <1>1, <1>2 DEF Request, SetupSteps

LEMMA WantedIs ==
  ASSUME NEW r, NEW j \in SetupSteps
  PROVE  /\ Wanted(r, j) \in Seq(SetupSteps)
         /\ Len(Wanted(r, j)) \in {0, 1}
         /\ \A i \in 1..Len(Wanted(r, j)) : Wanted(r, j)[i] = j
BY DEF Wanted

\* The jobs of a request: at most three, and those of a setup distinct.
LEMMA JobsOf ==
  ASSUME NEW r \in Request
  PROVE  /\ Jobs(r) \in Seq(AnyJob)
         /\ Len(Jobs(r)) <= 3
         /\ r.command = "init" =>
              /\ \A i \in 1..Len(Jobs(r)) : Jobs(r)[i] \in SetupSteps
              /\ \A i, j \in 1..Len(Jobs(r)) : Jobs(r)[i] = Jobs(r)[j] => i = j
<1>1. CASE r.command # "init"
  BY <1>1 DEF Jobs, AnyJob, Request
<1>2. CASE r.command = "init" /\ ~r.onboards
  BY <1>2 DEF Jobs
<1>3. CASE r.command = "init" /\ r.onboards
  <2> DEFINE a == Wanted(r, "wrap")
             b == Wanted(r, "hook")
             c == Wanted(r, "ide")
  <2>1. /\ a \in Seq(SetupSteps) /\ b \in Seq(SetupSteps) /\ c \in Seq(SetupSteps)
        /\ Len(a) \in {0, 1} /\ Len(b) \in {0, 1} /\ Len(c) \in {0, 1}
        /\ \A i \in 1..Len(a) : a[i] = "wrap"
        /\ \A i \in 1..Len(b) : b[i] = "hook"
        /\ \A i \in 1..Len(c) : c[i] = "ide"
    BY WantedIs DEF SetupSteps
  <2>2. Jobs(r) = a \o b \o c
    BY <1>3 DEF Jobs
  <2> HIDE DEF a, b, c
  <2>3. /\ a \o b \in Seq(SetupSteps) /\ Len(a \o b) = Len(a) + Len(b)
        /\ \A i \in 1..Len(a \o b) :
             (a \o b)[i] = IF i <= Len(a) THEN "wrap" ELSE "hook"
    BY <2>1
  <2>4. /\ a \o b \o c \in Seq(SetupSteps) /\ Len(a \o b \o c) = Len(a) + Len(b) + Len(c)
        /\ \A i \in 1..Len(a \o b \o c) : (a \o b \o c)[i] =
             IF i <= Len(a) THEN "wrap" ELSE IF i <= Len(a) + Len(b) THEN "hook" ELSE "ide"
    BY <2>1, <2>3
  <2> QED
    BY <2>1, <2>2, <2>4 DEF AnyJob, SetupSteps
<1> QED
  BY <1>1, <1>2, <1>3

\* The job in hand, and what is left after it.
LEMMA JobType ==
  ASSUME TypeInv, NEW p \in Proc, JobInv(p), todo[p] # <<>>
  PROVE  /\ Job(p) \in AnyJob
         /\ IsInit(p) => Job(p) \in SetupSteps
         /\ ~IsInit(p) => Job(p) \in Command \ {"init"}
         /\ Len(todo[p]) \in 1..3
         /\ Tail(todo[p]) \in Seq(Command \cup SetupSteps)
         /\ Len(Tail(todo[p])) = Len(todo[p]) - 1
         /\ \A i \in 1..Len(Tail(todo[p])) : Tail(todo[p])[i] = todo[p][i + 1]
<1>1. todo[p] \in Seq(Command \cup SetupSteps) /\ Len(todo[p]) <= 3
  BY DEF TypeInv
<1>2. Len(todo[p]) \in 1..3 /\ Job(p) = todo[p][1]
  <2>1. Len(todo[p]) \in Nat /\ Len(todo[p]) # 0
    BY <1>1, EmptySeq
  <2>2. Job(p) = todo[p][1]
    BY <1>1, <2>1, HeadTailProperties DEF Job
  <2>3. ASSUME NEW n \in Nat, n # 0, n <= 3 PROVE n \in 1..3
    BY <2>3
  <2> QED
    BY <1>1, <2>1, <2>2, <2>3
<1>3. IsInit(p) => Job(p) \in SetupSteps
  BY <1>1, <1>2 DEF JobInv
<1>4. ~IsInit(p) => Job(p) \in Command \ {"init"}
  BY <1>2, RequestType DEF JobInv, IsInit
<1>5. /\ Tail(todo[p]) \in Seq(Command \cup SetupSteps)
      /\ Len(Tail(todo[p])) = Len(todo[p]) - 1
      /\ \A i \in 1..Len(Tail(todo[p])) : Tail(todo[p])[i] = todo[p][i + 1]
  BY <1>1, <1>2
<1> QED
  BY <1>2, <1>3, <1>4, <1>5 DEF AnyJob

\* Reads and Plan, case by case.
LEMMA ReadsIs ==
  ASSUME NEW p
  PROVE  /\ Job(p) \in {"hook.install", "hook.uninstall"} => Reads(p) = <<req[p].hook>>
         /\ Job(p) = "hook" => Reads(p) = <<"pre-commit">>
         /\ Job(p) \in {"hook.status", "hook.repair"} => Reads(p) = HookTypes
         /\ Job(p) = "wrap.install" => Reads(p) = <<>>
         /\ Job(p) \in {"wrap.uninstall", "wrap.run", "wrap"} => Reads(p) = <<"wrap">>
         /\ Job(p) \in {"ide-autostart", "ide"} => Reads(p) = <<"tasks", "cursor">>
BY DEF Reads

LEMMA PlanIs ==
  ASSUME NEW p
  PROVE  /\ Job(p) = "hook.repair" =>
              Plan(p) = Drifted(p, "pre-commit") \o Drifted(p, "post-checkout")
         /\ Job(p) = "wrap.install" => Plan(p) = <<"wrap">>
         /\ Job(p) \in {"hook.status", "wrap.run"} => Plan(p) = <<>>
         /\ Job(p) \notin {"hook.repair", "wrap.install", "hook.status", "wrap.run"} =>
              Plan(p) = Reads(p)
BY DEF Plan

LEMMA AnyJobIs ==
  ASSUME NEW j
  PROVE  j \in AnyJob <=>
           j \in {"hook.install", "hook.uninstall", "hook.status", "hook.repair",
                  "wrap.install", "wrap.uninstall", "wrap.run", "ide-autostart",
                  "wrap", "hook", "ide"}
BY DEF AnyJob, Command, SetupSteps

\* A step reads no file twice.
LEMMA ReadsType ==
  ASSUME NEW p, Job(p) \in AnyJob, req[p].hook \in Hooks
  PROVE  /\ Reads(p) \in Seq(Targets)
         /\ Len(Reads(p)) \in 0..2
         /\ Job(p) # "wrap.install" => Len(Reads(p)) > 0
         /\ \A i \in 1..Len(Reads(p)) : Reads(p)[i] \in Targets
         /\ \A i, j \in 1..Len(Reads(p)) : Reads(p)[i] = Reads(p)[j] => i = j
<1>1. \/ \E x \in Targets : Reads(p) = <<x>>
      \/ \E x, y \in Targets : x # y /\ Reads(p) = <<x, y>>
      \/ Job(p) = "wrap.install" /\ Reads(p) = <<>>
  <2>1. CASE Job(p) \in {"hook.install", "hook.uninstall"}
    BY <2>1, ReadsIs DEF Targets, Scripts
  <2>2. CASE Job(p) = "hook"
    BY <2>2, ReadsIs DEF Targets, Scripts, Hooks
  <2>3. CASE Job(p) \in {"hook.status", "hook.repair"}
    BY <2>3, ReadsIs DEF Targets, Scripts, Hooks, HookTypes
  <2>4. CASE Job(p) = "wrap.install"
    BY <2>4, ReadsIs
  <2>5. CASE Job(p) \in {"wrap.uninstall", "wrap.run", "wrap"}
    BY <2>5, ReadsIs DEF Targets, Scripts
  <2>6. CASE Job(p) \in {"ide-autostart", "ide"}
    BY <2>6, ReadsIs DEF Targets, Docs
  <2> QED
    BY <2>1, <2>2, <2>3, <2>4, <2>5, <2>6, AnyJobIs
<1>2. CASE \E x \in Targets : Reads(p) = <<x>>
  BY <1>2
<1>3. CASE \E x, y \in Targets : x # y /\ Reads(p) = <<x, y>>
  BY <1>3
<1>4. CASE Job(p) = "wrap.install" /\ Reads(p) = <<>>
  BY <1>4
<1> QED
  BY <1>1, <1>2, <1>3, <1>4

\* A plan is of what was read, but for the wrapper, and names no file twice.
LEMMA PlanType ==
  ASSUME NEW p, Job(p) \in AnyJob, req[p].hook \in Hooks
  PROVE  /\ Plan(p) \in Seq(Targets)
         /\ Len(Plan(p)) \in 0..2
         /\ \A i \in 1..Len(Plan(p)) : Plan(p)[i] \in Targets
         /\ \A i, j \in 1..Len(Plan(p)) : Plan(p)[i] = Plan(p)[j] => i = j
         /\ Job(p) # "wrap.install" => \A i \in 1..Len(Plan(p)) :
              \E k \in 1..Len(Reads(p)) : Reads(p)[k] = Plan(p)[i]
         /\ Job(p) \in WriteJob \ {"hook.repair"} => Len(Plan(p)) > 0
         /\ Job(p) \in RemoveJob => Len(Plan(p)) = 1 /\ Plan(p) = Reads(p)
<1>1. CASE Job(p) = "hook.repair"
  <2> DEFINE a == Drifted(p, "pre-commit")
             b == Drifted(p, "post-checkout")
  <2>1. Plan(p) = a \o b
    BY <1>1, PlanIs
  <2>2. Reads(p) = <<"pre-commit", "post-checkout">>
    BY <1>1, ReadsIs DEF HookTypes
  <2>3. /\ "pre-commit" \in Targets /\ "post-checkout" \in Targets
        /\ Len(Reads(p)) = 2 /\ Reads(p)[1] = "pre-commit" /\ Reads(p)[2] = "post-checkout"
    BY <2>2 DEF Targets, Scripts, Hooks
  <2>4. /\ a \in Seq(Targets) /\ b \in Seq(Targets)
        /\ Len(a) \in {0, 1} /\ Len(b) \in {0, 1}
        /\ \A i \in 1..Len(a) : a[i] = "pre-commit"
        /\ \A i \in 1..Len(b) : b[i] = "post-checkout"
    BY <2>3 DEF Drifted
  <2> HIDE DEF a, b
  <2>5. /\ a \o b \in Seq(Targets) /\ Len(a \o b) = Len(a) + Len(b)
        /\ \A i \in 1..Len(a \o b) :
             (a \o b)[i] = IF i <= Len(a) THEN "pre-commit" ELSE "post-checkout"
    BY <2>4
  <2>6. Job(p) \notin RemoveJob
    BY <1>1 DEF RemoveJob
  <2> QED
    BY <1>1, <2>1, <2>3, <2>4, <2>5, <2>6
<1>2. CASE Job(p) = "wrap.install"
  <2>1. Plan(p) = <<"wrap">> /\ "wrap" \in Targets
    BY <1>2, PlanIs DEF Targets, Scripts
  <2> QED
    BY <1>2, <2>1 DEF RemoveJob
<1>3. CASE Job(p) \in {"hook.status", "wrap.run"}
  <2>1. Plan(p) = <<>>
    BY <1>3, PlanIs
  <2> QED
    BY <1>3, <2>1 DEF WriteJob, RemoveJob, SetupSteps
<1>4. CASE Job(p) \notin {"hook.repair", "wrap.install", "hook.status", "wrap.run"}
  <2>1. Plan(p) = Reads(p)
    BY <1>4, PlanIs
  <2>2. Job(p) \in RemoveJob => Len(Plan(p)) = 1
    <3>1. CASE Job(p) = "hook.uninstall"
      BY <2>1, <3>1, ReadsIs
    <3>2. CASE Job(p) = "wrap.uninstall"
      BY <2>1, <3>2, ReadsIs
    <3> QED
      BY <3>1, <3>2 DEF RemoveJob
  <2> QED
    BY <1>4, <2>1, <2>2, ReadsType
<1> QED
  BY <1>1, <1>2, <1>3, <1>4
-----------------------------------------------------------------------------
(* What the decisions come to *)

\* The decisions of the commands and what they have in common: a refusal, or
\* one of the ways on with what it was decided on.
DecideAny(p) ==
  \/ DecideHookInstall(p) \/ DecideHookUninstall(p)
  \/ DecideHookStatus(p) \/ DecideHookRepair(p)
  \/ DecideWrapInstall(p) \/ DecideWrapUninstall(p) \/ DecideWrapRun(p)
  \/ DecideIDE(p) \/ DecideStep(p)

Refusal == {"ok", "needs_approval", "skipped", "up_to_date", "skipped_existing"}
Cleared(p) ==
  /\ Job(p) = "hook.install" => saw[p][req[p].hook] = "absent"
  /\ Job(p) \in SetupSteps /\ req[p].keeps =>
       \A i \in 1..Len(Plan(p)) : ~Exists(Plan(p)[i], saw[p][Plan(p)[i]])

Decided(p) ==
  \/ \E r \in Refusal :
       /\ Conclude(p, r)
       /\ IsInit(p) => r \in {"up_to_date", "skipped_existing"}
  \/ /\ Proceed(p, "gate")
     /\ Job(p) \in WriteJob /\ Plan(p) # <<>> /\ Cleared(p)
  \/ /\ Proceed(p, "remove")
     /\ Job(p) \in RemoveJob /\ Managed(saw[p][Reads(p)[1]])
  \/ /\ Proceed(p, "exec")
     /\ Job(p) = "wrap.run"
  \/ /\ Proceed(p, "event")
     /\ Job(p) \in {"hook.status", "hook.repair"} /\ Plan(p) = <<>>
  \/ /\ Goto(p, "event") /\ UNCHANGED steps
     /\ result' = [result EXCEPT ![p] = "failed"]
     /\ Job(p) = "wrap.run" /\ Plan(p) = <<>>
  \/ Fail(p)

LEMMA DecideShape ==
  ASSUME TypeInv, NEW p \in Proc, JobInv(p), DecideAny(p)
  PROVE  pc[p] = "decide" /\ StillHere /\ Decided(p)
<1>1. pc[p] = "decide" /\ StillHere
  BY DEF DecideAny, DecideHookInstall, DecideHookUninstall, DecideHookStatus,
         DecideHookRepair, DecideWrapInstall, DecideWrapUninstall, DecideWrapRun,
         DecideIDE, DecideStep, Deciding
<1> SUFFICES Decided(p)
  BY <1>1
<1>2. /\ Job(p) \in AnyJob /\ req[p].hook \in Hooks
      /\ IsInit(p) => Job(p) \in SetupSteps
  BY <1>1, JobType, RequestType DEF JobInv, StepPC
<1>3. Job(p) \in WriteJob \ {"hook.repair"} => Plan(p) # <<>>
  <2>1. Len(<<>>) = 0
    BY EmptySeq
  <2> QED
    BY <1>2, <2>1, PlanType
<1>4. CASE DecideHookInstall(p)
  <2>1. Job(p) = "hook.install" /\ ~IsInit(p)
    BY <1>2, <1>4 DEF DecideHookInstall, Deciding, SetupSteps
  <2> QED
    BY <1>3, <1>4, <2>1
       DEF DecideHookInstall, Decided, Refusal, Cleared, WriteJob, SetupSteps
<1>5. CASE DecideHookUninstall(p)
  <2>1. Job(p) = "hook.uninstall" /\ ~IsInit(p)
    BY <1>2, <1>5 DEF DecideHookUninstall, Deciding, SetupSteps
  <2>2. Reads(p)[1] = req[p].hook
    BY <2>1, ReadsIs
  <2> QED
    BY <1>5, <2>1, <2>2 DEF DecideHookUninstall, Decided, Refusal, RemoveJob
<1>6. CASE DecideHookStatus(p)
  <2>1. Job(p) = "hook.status"
    BY <1>6 DEF DecideHookStatus, Deciding
  <2>2. Plan(p) = <<>>
    BY <2>1, PlanIs
  <2> QED
    BY <1>6, <2>1, <2>2 DEF DecideHookStatus, Decided
<1>7. CASE DecideHookRepair(p)
  <2>1. Job(p) = "hook.repair"
    BY <1>7 DEF DecideHookRepair, Deciding
  <2>2. Job(p) \in WriteJob /\ Cleared(p)
    BY <2>1 DEF WriteJob, Cleared, SetupSteps
  <2>3. CASE Plan(p) = <<>>
    BY <1>7, <2>1, <2>3 DEF DecideHookRepair, Decided
  <2>4. CASE Plan(p) # <<>>
    BY <1>7, <2>2, <2>4 DEF DecideHookRepair, Decided
  <2> QED
    BY <2>3, <2>4
<1>8. CASE DecideWrapInstall(p)
  <2>1. Job(p) = "wrap.install" /\ ~IsInit(p)
    BY <1>2, <1>8 DEF DecideWrapInstall, Deciding, SetupSteps
  <2> QED
    BY <1>3, <1>8, <2>1
       DEF DecideWrapInstall, Decided, Refusal, Cleared, WriteJob, SetupSteps
<1>9. CASE DecideWrapUninstall(p)
  <2>1. Job(p) = "wrap.uninstall" /\ ~IsInit(p)
    BY <1>2, <1>9 DEF DecideWrapUninstall, Deciding, SetupSteps
  <2>2. Reads(p)[1] = "wrap"
    BY <2>1, ReadsIs
  <2> QED
    BY <1>9, <2>1, <2>2 DEF DecideWrapUninstall, Decided, Refusal, RemoveJob
<1>10. CASE DecideWrapRun(p)
  <2>1. Job(p) = "wrap.run"
    BY <1>10 DEF DecideWrapRun, Deciding
  <2>2. Plan(p) = <<>>
    BY <2>1, PlanIs
  <2> QED
    BY <1>10, <2>1, <2>2 DEF DecideWrapRun, Decided
<1>11. CASE DecideIDE(p)
  <2>1. Job(p) = "ide-autostart" /\ ~IsInit(p)
    BY <1>2, <1>11 DEF DecideIDE, Deciding, SetupSteps
  <2> QED
    BY <1>3, <1>11, <2>1
       DEF DecideIDE, Decided, Refusal, Cleared, WriteJob, SetupSteps
<1>12. CASE DecideStep(p)
  <2>1. Job(p) \in SetupSteps /\ Job(p) # "hook.install" /\ Job(p) \in WriteJob \ {"hook.repair"}
    BY <1>12 DEF DecideStep, Deciding, SetupSteps, WriteJob
  <2>2. Plan(p) = Reads(p) /\ Plan(p) # <<>>
    BY <1>3, <2>1, PlanIs DEF SetupSteps
  <2> DEFINE S == {Reads(p)[i] : i \in 1..Len(Reads(p))}
  <2>3. \/ \E r \in {"up_to_date", "skipped_existing"} : Conclude(p, r)
        \/ Proceed(p, "gate") /\ ~(req[p].keeps /\ \E t \in S : Exists(t, saw[p][t]))
    BY <1>12 DEF DecideStep
  <2>4. CASE \E r \in {"up_to_date", "skipped_existing"} : Conclude(p, r)
    BY <2>4 DEF Decided, Refusal
  <2>5. CASE Proceed(p, "gate") /\ ~(req[p].keeps /\ \E t \in S : Exists(t, saw[p][t]))
    <3>1. req[p].keeps => \A i \in 1..Len(Plan(p)) : ~Exists(Plan(p)[i], saw[p][Plan(p)[i]])
      BY <2>2, <2>5
    <3> QED
      BY <2>1, <2>2, <2>5, <3>1 DEF Decided, Cleared
  <2> QED
    BY <2>3, <2>4, <2>5
<1> QED
  BY <1>4, <1>5, <1>6, <1>7, <1>8, <1>9, <1>10, <1>11, <1>12 DEF DecideAny
-----------------------------------------------------------------------------
(* Types *)

\* What a step may make of where the commands are and what they report.
Progress ==
  /\ pc' \in [Proc -> PC]
  /\ result' \in [Proc -> Result]
  /\ steps' \in [Proc -> Nat]
  /\ \A q \in Proc : steps'[q] <= steps[q]

LEMMA ProceedType ==
  ASSUME TypeInv, NEW p \in Proc, NEW l \in PC, Proceed(p, l)
  PROVE  Progress
BY DEF TypeInv, Proceed, Goto, Progress

LEMMA ConcludeType ==
  ASSUME TypeInv, NEW p \in Proc, NEW r \in Result, Conclude(p, r)
  PROVE  Progress
BY DEF TypeInv, Conclude, Goto, Progress, PC

LEMMA ReportType ==
  ASSUME TypeInv, NEW p \in Proc, NEW l \in PC, NEW r \in Result,
         Goto(p, l), result' = [result EXCEPT ![p] = r], UNCHANGED steps
  PROVE  Progress
BY DEF TypeInv, Goto, Progress

LEMMA BreakType ==
  ASSUME TypeInv, NEW p \in Proc, NEW r \in Result, Break(p, r)
  PROVE  Progress
BY DEF TypeInv, Break, Goto, Progress, PC

LEMMA FailType ==
  ASSUME TypeInv, NEW p \in Proc, Fail(p)
  PROVE  Progress
BY BreakType DEF Fail, Result

LEMMA DecidedType ==
  ASSUME TypeInv, NEW p \in Proc, Decided(p)
  PROVE  Progress
<1>1. Refusal \subseteq Result /\ "failed" \in Result
  BY DEF Refusal, Result
<1>2. {"gate", "remove", "exec", "event"} \subseteq PC
  BY DEF PC
<1>3. CASE \E r \in Refusal : Conclude(p, r)
  BY <1>1, <1>3, ConcludeType
<1>4. CASE \E l \in {"gate", "remove", "exec", "event"} : Proceed(p, l)
  BY <1>2, <1>4, ProceedType
<1>5. CASE Goto(p, "event") /\ UNCHANGED steps /\ result' = [result EXCEPT ![p] = "failed"]
  BY <1>1, <1>2, <1>5, ReportType
<1>6. CASE Fail(p)
  BY <1>6, FailType
<1> QED
  BY <1>3, <1>4, <1>5, <1>6 DEF Decided

LEMMA EntryType ==
  ASSUME TypeInv, NEW p \in Proc, NEW event \in EventName,
         NEW on \in SUBSET (Targets \cup SetupSteps), NEW status \in Status
  PROVE  Entry(p, event, on, status) \in LogEntry
<1>1. steps[p] \in 0..3
  <2>1. steps[p] \in Nat /\ steps[p] + Len(todo[p]) <= 3 /\ todo[p] \in Seq(Command \cup SetupSteps)
    BY DEF TypeInv
  <2>2. Len(todo[p]) \in Nat
    BY <2>1, LenProperties
  <2> QED
    BY <2>1, <2>2
<1> QED
  BY <1>1 DEF Entry, LogEntry

LEMMA LoggedType ==
  ASSUME TypeInv, NEW e \in LogEntry, Recorded(e) \/ Refused(e)
  PROVE  log' \in Seq(LogEntry) /\ frozen' \in BOOLEAN
<1>1. Append(log, e) \in Seq(LogEntry)
  BY AppendProperties DEF TypeInv
<1> QED
  BY <1>1 DEF TypeInv, Recorded, Refused

\* The event of a job, from its tables.
LEMMA EventType ==
  ASSUME TypeInv, NEW p \in Proc, JobInv(p), pc[p] = "event"
  PROVE  /\ Event(p)[1] \in Events
         /\ Event(p)[2] \in Result
         /\ Event(p)[1] \in EventName /\ Event(p)[2] \in Status
         /\ OnEvent(p) \in SUBSET (Targets \cup SetupSteps) /\ OnEvent(p) \subseteq Targets
<1>1. Job(p) \in AnyJob /\ req[p].hook \in Hooks
  BY JobType, RequestType DEF JobInv, StepPC
<1>2. result[p] \in Result
  BY DEF TypeInv
<1>3. Event(p) \in Events \X Result
  BY <1>1, <1>2, AnyJobIs DEF Event, Events, Result
<1>4. Events \subseteq EventName /\ Result \subseteq Status
  BY DEF EventName, Status
<1>5. OnEvent(p) \subseteq Targets
  BY <1>1, PlanType DEF OnEvent
<1>6. Event(p)[1] \in Events /\ Event(p)[2] \in Result
  BY <1>3
<1> QED
  BY <1>4, <1>5, <1>6

LEMMA EnterType ==
  ASSUME NEW jobs
  PROVE  Enter(jobs) \in {"start", "decide", "read"} /\ Enter(jobs) \in PC
BY DEF Enter, PC

\* Fewer steps still ahead of no more jobs.
LEMMA StepsBound ==
  ASSUME TypeInv, Progress, UNCHANGED todo
  PROVE  \A q \in Proc : steps'[q] + Len(todo'[q]) <= 3
<1> TAKE q \in Proc
<1>1. /\ todo[q] \in Seq(Command \cup SetupSteps) /\ steps[q] + Len(todo[q]) <= 3
      /\ steps[q] \in Nat /\ steps'[q] \in Nat /\ steps'[q] <= steps[q]
  BY DEF TypeInv, Progress
<1>2. Len(todo[q]) \in Nat
  BY <1>1, LenProperties
<1> QED
  BY <1>1, <1>2

LEMMA TypeQuiet ==
  ASSUME TypeInv, Progress, StillHere, raced' \in BOOLEAN
  PROVE  TypeInv'
<1>1. UNCHANGED todo
  BY DEF StillHere
<1>2. \A q \in Proc : steps'[q] + Len(todo'[q]) <= 3
  BY <1>1, StepsBound
<1> QED
  BY <1>2 DEF TypeInv, Progress, StillHere, auditVars, userVars

LEMMA TypeLogged ==
  ASSUME TypeInv, Progress, log' \in Seq(LogEntry), frozen' \in BOOLEAN, raced' \in BOOLEAN,
         UNCHANGED <<file, req, todo, at, saw, changed, edited, userVars>>
  PROVE  TypeInv'
<1>1. \A q \in Proc : steps'[q] + Len(todo'[q]) <= 3
  BY StepsBound
<1> QED
  BY <1>1 DEF TypeInv, Progress, userVars

LEMMA TypeRead ==
  ASSUME TypeInv, NEW p \in Proc, JobInv(p), Read(p), raced' \in BOOLEAN
  PROVE  TypeInv'
<1> DEFINE t == Reads(p)[at[p]]
<1>1. Job(p) \in AnyJob /\ req[p].hook \in Hooks /\ at[p] \in 1..Len(Reads(p))
  BY JobType, RequestType DEF JobInv, StepPC, Read
<1>2. t \in Targets /\ Len(Reads(p)) \in Nat
  BY <1>1, ReadsType
<1>3. Progress
  <2>1. \/ Fail(p) \/ Proceed(p, "decide") \/ Proceed(p, "read")
    BY DEF Read, Proceed
  <2>2. "decide" \in PC /\ "read" \in PC
    BY DEF PC
  <2> QED
    BY <2>1, <2>2, FailType, ProceedType
<1>4. saw' \in [Proc -> [Targets -> Content]]
  <2>1. saw' = [saw EXCEPT ![p][t] = file[t]]
    BY DEF Read
  <2>2. file[t] \in Content
    BY <1>2 DEF TypeInv
  <2> QED
    BY <1>2, <2>1, <2>2 DEF TypeInv
<1>5. at' \in [Proc -> Nat]
  <2>1. at[p] \in Nat
    BY DEF TypeInv
  <2>2. at' = at \/ at' = [at EXCEPT ![p] = 1] \/ at' = [at EXCEPT ![p] = at[p] + 1]
    BY DEF Read
  <2>3. at' = at \/ \E n \in Nat : at' = [at EXCEPT ![p] = n]
    BY <2>1, <2>2
  <2> QED
    BY <2>3 DEF TypeInv
<1>6. UNCHANGED <<file, log, frozen, req, todo, changed, edited, mine, spent>>
  BY DEF Read, auditVars, userVars
<1>7. \A q \in Proc : steps'[q] + Len(todo'[q]) <= 3
  BY <1>3, <1>6, StepsBound
<1> QED
  BY <1>3, <1>4, <1>5, <1>6, <1>7 DEF TypeInv, Progress

\* The file a command writes is one of its plan.
LEMMA WritesTarget ==
  ASSUME TypeInv, NEW p \in Proc, JobInv(p), pc[p] \in {"truncate", "write"}
  PROVE  Plan(p)[at[p]] \in Targets /\ at[p] \in 1..Len(Plan(p)) /\ Len(Plan(p)) \in 0..2
<1>1. Job(p) \in AnyJob /\ req[p].hook \in Hooks /\ at[p] \in 1..Len(Plan(p))
  BY JobType, RequestType DEF JobInv, StepPC
<1> QED
  BY <1>1, PlanType

LEMMA RemovesTarget ==
  ASSUME TypeInv, NEW p \in Proc, JobInv(p), pc[p] = "remove"
  PROVE  /\ Plan(p)[1] \in Scripts /\ Len(Plan(p)) = 1 /\ Plan(p) = Reads(p)
         /\ Plan(p)[1] \in Targets
<1>1. Job(p) \in RemoveJob /\ Job(p) \in AnyJob /\ req[p].hook \in Hooks
  BY JobType, RequestType DEF JobInv, StepPC
<1>2. Len(Plan(p)) = 1 /\ Plan(p) = Reads(p)
  BY <1>1, PlanType
<1>3. Reads(p)[1] \in Scripts
  <2>1. CASE Job(p) = "hook.uninstall"
    <3>1. Reads(p)[1] = req[p].hook
      BY <2>1, ReadsIs
    <3> QED
      BY <1>1, <3>1 DEF Scripts
  <2>2. CASE Job(p) = "wrap.uninstall"
    <3>1. Reads(p)[1] = "wrap"
      BY <2>2, ReadsIs
    <3> QED
      BY <3>1 DEF Scripts
  <2> QED
    BY <1>1, <2>1, <2>2 DEF RemoveJob
<1> QED
  BY <1>2, <1>3 DEF Targets

LEMMA ContentOf ==
  ASSUME TypeInv, NEW t \in Targets, NEW c,
         t \in Scripts => c \in ScriptContent,
         t \in Docs => c \in DocContent,
         file' = [file EXCEPT ![t] = c]
  PROVE  /\ file' \in [Targets -> Content]
         /\ \A u \in Scripts : file'[u] \in ScriptContent
         /\ \A u \in Docs : file'[u] \in DocContent
<1>1. c \in Content
  BY DEF Targets, Content
<1>2. file \in [Targets -> Content]
  BY DEF TypeInv
<1>3. Scripts \subseteq Targets /\ Docs \subseteq Targets
  BY DEF Targets
<1> QED
  BY <1>1, <1>2, <1>3 DEF TypeInv

LEMMA TypeFiles ==
  ASSUME TypeInv, Progress, NEW p \in Proc, NEW t \in Targets, NEW c,
         t \in Scripts => c \in ScriptContent,
         t \in Docs => c \in DocContent,
         file' = [file EXCEPT ![t] = c],
         changed' = changed \/ changed' = [changed EXCEPT ![p] = @ \cup {t}],
         edited' \subseteq edited,
         at' \in [Proc -> Nat], raced' \in BOOLEAN,
         UNCHANGED <<auditVars, req, todo, saw, userVars>>
  PROVE  TypeInv'
<1>1. /\ file' \in [Targets -> Content]
      /\ \A u \in Scripts : file'[u] \in ScriptContent
      /\ \A u \in Docs : file'[u] \in DocContent
  BY ContentOf
<1>2. \A q \in Proc : steps'[q] + Len(todo'[q]) <= 3
  BY StepsBound
<1>3. changed' \in [Proc -> SUBSET Targets]
  <2>1. CASE changed' = changed
    BY <2>1 DEF TypeInv
  <2>2. CASE changed' = [changed EXCEPT ![p] = @ \cup {t}]
    BY <2>2 DEF TypeInv
  <2> QED
    BY <2>1, <2>2
<1>4. edited' \subseteq Targets
  BY DEF TypeInv
<1> QED
  BY <1>1, <1>2, <1>3, <1>4 DEF TypeInv, Progress, auditVars, userVars
LEMMA TypeTruncate ==
  ASSUME TypeInv, NEW p \in Proc, JobInv(p), Truncate(p), raced' \in BOOLEAN
  PROVE  TypeInv'
<1> DEFINE t == Plan(p)[at[p]]
<1>1. t \in Targets
  BY WritesTarget DEF Truncate
<1>2. Progress
  BY ProceedType DEF Truncate, PC
<1>3. t \in Scripts => "empty" \in ScriptContent
  BY DEF ScriptContent
<1>4. t \in Docs => "empty" \in DocContent
  BY DEF DocContent
<1>5. /\ file' = [file EXCEPT ![t] = "empty"]
      /\ changed' = [changed EXCEPT ![p] = @ \cup {t}]
      /\ edited' \subseteq edited
      /\ UNCHANGED <<auditVars, req, todo, at, saw, userVars>>
  BY DEF Truncate
<1>6. at' \in [Proc -> Nat]
  BY <1>5 DEF TypeInv
<1> QED
  BY <1>1, <1>2, <1>3, <1>4, <1>5, <1>6, TypeFiles

\* Whatever others have put there, a file keeps a content of its kind.
LEMMA OverlayType ==
  ASSUME NEW t \in Targets, NEW now, NEW d, NEW c \in Overlay(t, now, Desired(t, d))
  PROVE  /\ t \in Scripts => c \in ScriptContent
         /\ t \in Docs => c \in DocContent
BY DEF Overlay, Desired, Held, Part, ScriptContent, DocContent, Docs, Scripts, Hooks

LEMMA TypeWrite ==
  ASSUME TypeInv, NEW p \in Proc, JobInv(p), WriteFile(p), raced' \in BOOLEAN
  PROVE  TypeInv'
<1> DEFINE t == Plan(p)[at[p]]
<1>1. t \in Targets
  BY WritesTarget DEF WriteFile
<1>2. Progress
  <2>1. Proceed(p, "event") \/ Proceed(p, "truncate")
    BY DEF WriteFile
  <2> QED
    BY <2>1, ProceedType DEF PC
<1>3. PICK c \in Overlay(t, file[t], Desired(t, saw[p][t])) : file' = [file EXCEPT ![t] = c]
  BY DEF WriteFile
<1>4. /\ t \in Scripts => c \in ScriptContent
      /\ t \in Docs => c \in DocContent
  BY <1>1, <1>3, OverlayType
<1>5. at' \in [Proc -> Nat]
  <2>1. at[p] \in Nat
    BY DEF TypeInv
  <2>2. at' = [at EXCEPT ![p] = 1] \/ at' = [at EXCEPT ![p] = at[p] + 1]
    BY DEF WriteFile
  <2>3. \E n \in Nat : at' = [at EXCEPT ![p] = n]
    BY <2>1, <2>2
  <2> QED
    BY <2>3 DEF TypeInv
<1>6. UNCHANGED <<auditVars, req, todo, saw, changed, edited, userVars>>
  BY DEF WriteFile
<1> QED
  BY <1>1, <1>2, <1>3, <1>4, <1>5, <1>6, TypeFiles

LEMMA TypeRemove ==
  ASSUME TypeInv, NEW p \in Proc, JobInv(p), Remove(p), raced' \in BOOLEAN
  PROVE  TypeInv'
<1> DEFINE t == Plan(p)[1]
<1>1. t \in Targets /\ t \in Scripts /\ t \notin Docs
  BY RemovesTarget DEF Remove, Scripts, Hooks, Docs
<1>2. CASE file[t] = "absent"
  <2>1. Progress
    BY <1>2, FailType DEF Remove
  <2>2. StillHere
    BY <1>2 DEF Remove, StillHere
  <2> QED
    BY <2>1, <2>2, TypeQuiet
<1>3. CASE file[t] # "absent"
  <2>1. Progress
    BY <1>3, ProceedType DEF Remove, PC
  <2>2. /\ file' = [file EXCEPT ![t] = "absent"]
        /\ changed' = [changed EXCEPT ![p] = @ \cup {t}]
        /\ edited' \subseteq edited
        /\ UNCHANGED <<auditVars, req, todo, at, saw, userVars>>
    BY <1>3 DEF Remove
  <2>3. at' \in [Proc -> Nat] /\ "absent" \in ScriptContent
    BY <2>2 DEF TypeInv, ScriptContent
  <2> QED
    BY <1>1, <2>1, <2>2, <2>3, TypeFiles
<1> QED
  BY <1>2, <1>3

LEMMA TypeRecord ==
  ASSUME TypeInv, NEW p \in Proc, JobInv(p), RecordEvent(p), raced' \in BOOLEAN
  PROVE  TypeInv'
<1> DEFINE e == Entry(p, Event(p)[1], OnEvent(p), Event(p)[2])
<1>1. pc[p] = "event"
  BY DEF RecordEvent
<1>2. e \in LogEntry
  BY <1>1, EventType, EntryType
<1>3. Recorded(e) \/ Refused(e)
  BY DEF RecordEvent
<1>4. log' \in Seq(LogEntry) /\ frozen' \in BOOLEAN
  BY <1>2, <1>3, LoggedType
<1>5. Progress
  <2>1. Conclude(p, Event(p)[2]) \/ Fail(p)
    BY DEF RecordEvent
  <2> QED
    BY <1>1, <2>1, EventType, ConcludeType, FailType
<1>6. UNCHANGED <<file, req, todo, at, saw, changed, edited, userVars>>
  BY DEF RecordEvent
<1> QED
  BY <1>4, <1>5, <1>6, TypeLogged

LEMMA StepEntry ==
  ASSUME TypeInv, NEW p \in Proc, JobInv(p), pc[p] = "step"
  PROVE  /\ Entry(p, "init.step", {Job(p)}, result[p]) \in LogEntry
         /\ IsInit(p) /\ Job(p) \in SetupSteps
<1>1. IsInit(p) /\ Job(p) \in SetupSteps
  BY JobType DEF JobInv
<1>2. {Job(p)} \in SUBSET (Targets \cup SetupSteps) /\ result[p] \in Status /\ "init.step" \in EventName
  BY <1>1 DEF TypeInv, Status, EventName
<1> QED
  BY <1>1, <1>2, EntryType

\* What a step of the setup that is recorded moves on to.
Advance(p) ==
  /\ todo' = [todo EXCEPT ![p] = Tail(todo[p])]
  /\ UNCHANGED saw
  /\ steps' = [steps EXCEPT ![p] = @ + IF result[p] = "installed" THEN 1 ELSE 0]
  /\ Goto(p, Enter(Tail(todo[p])))
  /\ UNCHANGED result

LEMMA InitStepShape ==
  ASSUME NEW p, InitStep(p)
  PROVE  LET e == Entry(p, "init.step", {Job(p)}, result[p])
         IN  /\ pc[p] = "step"
             /\ UNCHANGED <<file, req, at, changed, edited, mine, spent>>
             /\ \/ /\ Recorded(e) /\ result[p] = "needs_approval"
                   /\ Proceed(p, "end") /\ UNCHANGED <<todo, saw>>
                \/ Recorded(e) /\ result[p] # "needs_approval" /\ Advance(p)
                \/ Refused(e) /\ Fail(p) /\ UNCHANGED <<todo, saw>>
BY DEF InitStep, Advance, Proceed, userVars

LEMMA AdvanceType ==
  ASSUME TypeInv, NEW p \in Proc, JobInv(p), pc[p] = "step", Advance(p)
  PROVE  /\ pc' \in [Proc -> PC] /\ result' \in [Proc -> Result]
         /\ steps' \in [Proc -> Nat]
         /\ todo' \in [Proc -> Seq(Command \cup SetupSteps)]
         /\ saw' \in [Proc -> [Targets -> Content]]
         /\ \A q \in Proc : steps'[q] + Len(todo'[q]) <= 3
<1>1. /\ Tail(todo[p]) \in Seq(Command \cup SetupSteps) /\ Len(Tail(todo[p])) = Len(todo[p]) - 1
      /\ Len(todo[p]) \in 1..3
  BY JobType DEF JobInv
<1>3. steps' \in [Proc -> Nat]
  BY DEF TypeInv, Advance
<1>4. pc' \in [Proc -> PC] /\ result' \in [Proc -> Result]
  BY EnterType DEF TypeInv, Goto, Advance
<1>5. todo' \in [Proc -> Seq(Command \cup SetupSteps)] /\ saw' \in [Proc -> [Targets -> Content]]
  BY <1>1 DEF TypeInv, Advance
<1>6. ASSUME NEW q \in Proc PROVE steps'[q] + Len(todo'[q]) <= 3
  <2>1. steps[q] \in Nat /\ steps[q] + Len(todo[q]) <= 3
    BY DEF TypeInv
  <2>2. CASE q # p
    BY <2>1, <2>2 DEF Advance
  <2>3. CASE q = p
    <3>1. /\ todo'[q] = Tail(todo[p])
          /\ steps'[q] = steps[p] + IF result[p] = "installed" THEN 1 ELSE 0
      BY <2>3 DEF TypeInv, Advance
    <3> QED
      BY <1>1, <2>1, <2>3, <3>1
  <2> QED
    BY <2>2, <2>3
<1> QED
  BY <1>3, <1>4, <1>5, <1>6

LEMMA TypeInitStep ==
  ASSUME TypeInv, NEW p \in Proc, JobInv(p), InitStep(p), raced' \in BOOLEAN
  PROVE  TypeInv'
<1> DEFINE e == Entry(p, "init.step", {Job(p)}, result[p])
<1>1. /\ pc[p] = "step"
      /\ Recorded(e) \/ Refused(e)
      /\ UNCHANGED <<file, req, at, changed, edited, mine, spent>>
  BY InitStepShape
<1>2. log' \in Seq(LogEntry) /\ frozen' \in BOOLEAN
  BY <1>1, StepEntry, LoggedType DEF InitStep
<1>3. CASE (Proceed(p, "end") \/ Fail(p)) /\ UNCHANGED <<todo, saw>>
  <2>1. Progress
    BY <1>3, FailType, ProceedType DEF PC
  <2> QED
    BY <1>1, <1>2, <1>3, <2>1, TypeLogged DEF userVars
<1>4. CASE Advance(p)
  BY <1>1, <1>2, <1>4, AdvanceType DEF TypeInv
<1> QED
  BY <1>3, <1>4, InitStepShape

LEMMA InitEntries ==
  ASSUME TypeInv, NEW p \in Proc
  PROVE  /\ Entry(p, "init.begin", {}, "ok") \in LogEntry
         /\ Entry(p, "init.end", {}, EndStatus(p)) \in LogEntry
<1>1. EndStatus(p) \in Status /\ "ok" \in Status
  BY DEF EndStatus, Status, Result
<1>2. "init.begin" \in EventName /\ "init.end" \in EventName
  BY DEF EventName
<1> QED
  BY <1>1, <1>2, EntryType

LEMMA TypeInitBegin ==
  ASSUME TypeInv, NEW p \in Proc, InitBegin(p), raced' \in BOOLEAN
  PROVE  TypeInv'
<1> DEFINE e == Entry(p, "init.begin", {}, "ok")
<1>1. e \in LogEntry
  BY InitEntries
<1>2. log' \in Seq(LogEntry) /\ frozen' \in BOOLEAN
  <2>1. Recorded(e) \/ Refused(e) \/ UNCHANGED auditVars
    BY DEF InitBegin
  <2>2. CASE UNCHANGED auditVars
    BY <2>2 DEF auditVars, TypeInv
  <2> QED
    BY <1>1, <2>1, <2>2, LoggedType
<1>3. Progress
  <2>1. UNCHANGED steps
    BY DEF InitBegin
  <2>2. CASE Goto(p, Enter(todo[p])) /\ UNCHANGED result
    BY <2>1, <2>2, EnterType, ProceedType DEF Proceed
  <2>3. CASE Goto(p, "done") /\ result' = [result EXCEPT ![p] = "error"]
    BY <2>1, <2>3, ReportType DEF PC, Result
  <2>4. CASE Goto(p, "done") /\ result' = [result EXCEPT ![p] = "needs_input"]
    BY <2>1, <2>4, ReportType DEF PC, Result
  <2> QED
    BY <2>2, <2>3, <2>4 DEF InitBegin
<1>4. UNCHANGED <<file, req, todo, at, saw, changed, edited, userVars>>
  BY DEF InitBegin
<1> QED
  BY <1>2, <1>3, <1>4, TypeLogged

LEMMA TypeInitEnd ==
  ASSUME TypeInv, NEW p \in Proc, InitEnd(p), raced' \in BOOLEAN
  PROVE  TypeInv'
<1> DEFINE e == Entry(p, "init.end", {}, EndStatus(p))
<1>1. e \in LogEntry
  BY InitEntries
<1>2. Recorded(e) \/ Refused(e)
  BY DEF InitEnd
<1>3. Progress
  BY ProceedType DEF InitEnd, Proceed, PC
<1>4. UNCHANGED <<file, req, todo, at, saw, changed, edited, userVars>>
  BY DEF InitEnd
<1> QED
  BY <1>1, <1>2, <1>3, <1>4, LoggedType, TypeLogged

LEMMA TypeStart ==
  ASSUME TypeInv, NEW p \in Proc, Start(p), raced' \in BOOLEAN
  PROVE  TypeInv'
<1>1. PICK r \in {"ok", "needs_input", "needs_approval", "error"} :
        result' = [result EXCEPT ![p] = r]
  BY DEF Start
<1>2. Progress
  BY <1>1, ReportType DEF Start, PC, Result
<1>3. log' \in Seq(LogEntry) /\ frozen' \in BOOLEAN
  BY InstallersAssumption DEF Start, TypeInv
<1>4. UNCHANGED <<file, req, todo, at, saw, changed, edited, userVars>>
  BY DEF Start
<1> QED
  BY <1>2, <1>3, <1>4, TypeLogged

LEMMA TypeOthers ==
  ASSUME TypeInv, NEW p \in Proc, raced' \in BOOLEAN,
         Begin(p) \/ Gate(p) \/ Breakdown(p) \/ Exec(p) \/ Kill(p)
  PROVE  TypeInv'
<1>1. CASE Begin(p)
  <2>1. Progress
    BY <1>1, EnterType, ProceedType DEF Begin, Proceed
  <2> QED
    BY <1>1, <2>1, TypeQuiet DEF Begin, StillHere
<1>2. CASE Gate(p)
  <2>1. Progress
    BY <1>2, ProceedType, ConcludeType DEF Gate, PC, Result
  <2> QED
    BY <1>2, <2>1, TypeQuiet DEF Gate
<1>3. CASE Exec(p)
  <2>1. PICK r \in {"completed", "failed"} : result' = [result EXCEPT ![p] = r]
    BY <1>3 DEF Exec
  <2>2. Progress
    BY <1>3, <2>1, ReportType DEF Exec, PC, Result
  <2> QED
    BY <1>3, <2>2, TypeQuiet DEF Exec
<1>4. CASE Kill(p)
  <2>1. Progress
    BY <1>4, ProceedType DEF Kill, Proceed, PC
  <2> QED
    BY <1>4, <2>1, TypeQuiet DEF Kill
<1>5. CASE Breakdown(p)
  <2>1. Progress
    BY <1>5, BreakType DEF Breakdown, Result
  <2> QED
    BY <1>5, <2>1, TypeQuiet DEF Breakdown
<1> QED
  BY <1>1, <1>2, <1>3, <1>4, <1>5

LEMMA TypeEdit ==
  ASSUME TypeInv, NEW t \in Editable, NEW c \in UserContent(t), Edit(t, c), raced' \in BOOLEAN
  PROVE  TypeInv'
<1>1. t \in Targets
  BY InstallersAssumption
<1>2. /\ t \in Scripts => c \in ScriptContent
      /\ t \in Docs => c \in DocContent
  BY <1>1 DEF UserContent, ScriptContent, DocContent, Docs, Scripts, Hooks
<1>3. /\ file' \in [Targets -> Content]
      /\ \A u \in Scripts : file'[u] \in ScriptContent
      /\ \A u \in Docs : file'[u] \in DocContent
  BY <1>1, <1>2, ContentOf DEF Edit
<1>4. edited' \subseteq Targets /\ mine' \subseteq Docs \X Part
  BY <1>1 DEF TypeInv, Edit, Held, Part
<1>5. spent' \in 0..Edits
  BY InstallersAssumption DEF TypeInv, Edit
<1> QED
  BY <1>3, <1>4, <1>5 DEF TypeInv, Edit, auditVars

LEMMA TypeStep ==
  ASSUME TypeInv, NEW p \in Proc, JobInv(p), Step(p) \/ Kill(p), raced' \in BOOLEAN
  PROVE  TypeInv'
<1>1. CASE DecideAny(p)
  <2>1. StillHere /\ Decided(p)
    BY <1>1, DecideShape
  <2> QED
    BY <2>1, DecidedType, TypeQuiet
<1> QED
  BY <1>1, TypeOthers, TypeRead, TypeTruncate, TypeWrite, TypeRemove, TypeRecord,
     TypeInitStep, TypeInitBegin, TypeInitEnd, TypeStart DEF Step, DecideAny
-----------------------------------------------------------------------------
(* What a step leaves alone *)

\* Everything of the other commands.
Apart(p) ==
  /\ req' = req
  /\ \A q \in Proc \ {p} :
       /\ pc'[q] = pc[q] /\ todo'[q] = todo[q] /\ at'[q] = at[q] /\ saw'[q] = saw[q]
       /\ result'[q] = result[q] /\ steps'[q] = steps[q] /\ changed'[q] = changed[q]

LEMMA OwnStep ==
  ASSUME TypeInv, NEW p \in Proc, JobInv(p), Step(p) \/ Kill(p)
  PROVE  Apart(p)
<1>1. /\ pc \in [Proc -> PC] /\ result \in [Proc -> Result] /\ steps \in [Proc -> Nat]
      /\ todo \in [Proc -> Seq(Command \cup SetupSteps)] /\ at \in [Proc -> Nat]
      /\ saw \in [Proc -> [Targets -> Content]] /\ changed \in [Proc -> SUBSET Targets]
  BY DEF TypeInv
<1>2. CASE DecideAny(p)
  <2>1. StillHere /\ Decided(p)
    BY <1>2, DecideShape
  <2> QED
    BY <1>1, <2>1 DEF Apart, StillHere, Decided, Conclude, Proceed, Fail, Break, Goto
<1>3. CASE Begin(p) \/ Gate(p) \/ Breakdown(p) \/ Exec(p) \/ Kill(p) \/ Start(p) \/ InitEnd(p)
  BY <1>1, <1>3 DEF Apart, Begin, Gate, Breakdown, Exec, Kill, Start, InitEnd, StillHere, Conclude,
                    Proceed, Break, Goto
<1>4. CASE InitBegin(p)
  BY <1>1, <1>4 DEF Apart, InitBegin, Goto
<1>5. CASE Read(p)
  BY <1>1, <1>5 DEF Apart, Read, Fail, Break, Goto
<1>6. CASE Truncate(p) \/ WriteFile(p)
  BY <1>1, <1>6 DEF Apart, Truncate, WriteFile, Proceed, Goto
<1>7. CASE Remove(p)
  BY <1>1, <1>7 DEF Apart, Remove, Proceed, Fail, Break, Goto
<1>8. CASE RecordEvent(p)
  BY <1>1, <1>8 DEF Apart, RecordEvent, Conclude, Fail, Break, Goto
<1>9. CASE InitStep(p)
  <2>1. req' = req /\ at' = at /\ changed' = changed
    BY <1>9, InitStepShape
  <2>2. CASE Proceed(p, "end") /\ UNCHANGED <<todo, saw>>
    BY <1>1, <2>1, <2>2 DEF Apart, Proceed, Goto
  <2>3. CASE Fail(p) /\ UNCHANGED <<todo, saw>>
    BY <1>1, <2>1, <2>3 DEF Apart, Fail, Break, Goto
  <2>4. CASE Advance(p)
    BY <1>1, <2>1, <2>4 DEF Apart, Advance, Goto
  <2> QED
    BY <1>9, <2>2, <2>3, <2>4, InitStepShape
<1> QED
  BY <1>2, <1>3, <1>4, <1>5, <1>6, <1>7, <1>8, <1>9 DEF Step, DecideAny

\* The invariants of a command that does not move depend on itself alone.
LEMMA JobKept ==
  ASSUME NEW q, pc'[q] = pc[q], req'[q] = req[q], todo'[q] = todo[q], at'[q] = at[q],
         saw'[q] = saw[q], result'[q] = result[q], JobInv(q), DecidedInv(q)
  PROVE  JobInv(q)' /\ DecidedInv(q)'
<1>1. Job(q)' = Job(q) /\ IsInit(q)' = IsInit(q)
  BY DEF Job, IsInit
<1>2. Reads(q)' = Reads(q)
  BY <1>1 DEF Reads
<1>3. Plan(q)' = Plan(q)
  BY <1>1, <1>2 DEF Plan, Drifted
<1>4. JobInv(q)'
  BY <1>1, <1>2, <1>3 DEF JobInv
<1>5. DecidedInv(q)'
  BY <1>1, <1>2, <1>3 DEF DecidedInv
<1> QED
  BY <1>4, <1>5

\* A step that reads nothing new keeps the job and its plan.
LEMMA PlanKept ==
  ASSUME NEW p, req'[p] = req[p], todo'[p] = todo[p]
  PROVE  /\ Job(p)' = Job(p) /\ IsInit(p)' = IsInit(p) /\ Reads(p)' = Reads(p)
         /\ saw'[p] = saw[p] => Plan(p)' = Plan(p) /\ OnEvent(p)' = OnEvent(p)
<1>1. Job(p)' = Job(p) /\ IsInit(p)' = IsInit(p)
  BY DEF Job, IsInit
<1>2. Reads(p)' = Reads(p)
  BY <1>1 DEF Reads
<1>3. ASSUME saw'[p] = saw[p] PROVE Plan(p)' = Plan(p) /\ OnEvent(p)' = OnEvent(p)
  <2>1. Plan(p)' = Plan(p)
    BY <1>1, <1>2, <1>3 DEF Plan, Drifted
  <2> QED
    BY <2>1 DEF OnEvent
<1> QED
  BY <1>1, <1>2, <1>3
-----------------------------------------------------------------------------
(* The control of a command *)

\* A command at rest, between jobs, or ended.
LEMMA JobEnded ==
  ASSUME TypeInv, NEW p \in Proc, JobInv(p), req'[p] = req[p], todo'[p] = todo[p],
         pc'[p] \in {"end", "done", "killed"}, pc'[p] = "end" => IsInit(p)
  PROVE  JobInv(p)' /\ DecidedInv(p)'
<1>1. IsInit(p)' = IsInit(p)
  BY PlanKept
<1>2. JobInv(p)'
  BY <1>1 DEF JobInv, StepPC
<1>3. DecidedInv(p)'
  BY DEF DecidedInv
<1> QED
  BY <1>2, <1>3

LEMMA JobEntered ==
  ASSUME TypeInv, NEW p \in Proc, TypeInv', JobInv(p),
         req' = req, pc'[p] = Enter(todo'[p]), at'[p] = 1,
         ~IsInit(p) => todo'[p] = todo[p],
         IsInit(p) => /\ \A i \in 1..Len(todo'[p]) : todo'[p][i] \in SetupSteps
                      /\ \A i, j \in 1..Len(todo'[p]) : todo'[p][i] = todo'[p][j] => i = j
  PROVE  JobInv(p)' /\ DecidedInv(p)'
<1>1. IsInit(p)' = IsInit(p)
  BY DEF IsInit
<1>2. pc'[p] \in {"start", "decide", "read"}
  BY EnterType
<1>3. pc'[p] = "start" <=> todo'[p] = <<>>
  BY DEF Enter
<1>4. ~IsInit(p) => /\ todo'[p] = <<req'[p].command>> /\ todo'[p] # <<>>
  BY DEF JobInv
<1>5. ASSUME pc'[p] = "read" PROVE Len(Reads(p)') > 0 /\ Len(Reads(p)') \in Nat
  <2>1. todo'[p] # <<>> /\ Job(p)' # "wrap.install"
    BY <1>5 DEF Enter, Job
  <2>2. todo'[p] \in Seq(Command \cup SetupSteps) /\ Len(todo'[p]) \in Nat \ {0}
    BY <2>1, EmptySeq DEF TypeInv
  <2>3. Job(p)' = todo'[p][1]
    BY <2>1, <2>2 DEF Job
  <2>4. req[p].command \in Command /\ req[p].hook \in Hooks
    BY RequestType
  <2>5. Job(p)' \in AnyJob
    <3>1. CASE IsInit(p)
      BY <2>2, <2>3, <3>1 DEF AnyJob
    <3>2. CASE ~IsInit(p)
      <4>1. Job(p)' = req[p].command
        BY <1>4, <2>3, <3>2
      <4> QED
        BY <2>4, <3>2, <4>1 DEF AnyJob, IsInit
    <3> QED
      BY <3>1, <3>2
  <2>6. Reads(p)' \in {<<req[p].hook>>, <<"pre-commit">>, HookTypes, <<"wrap">>, <<"tasks", "cursor">>}
    BY <2>1, <2>5, AnyJobIs DEF Reads
  <2>7. CASE \E x : Reads(p)' = <<x>>
    BY <2>7
  <2>8. CASE \E x, y : Reads(p)' = <<x, y>>
    BY <2>8
  <2> QED
    BY <2>6, <2>7, <2>8 DEF HookTypes
<1>6. JobInv(p)'
  <2>1. pc'[p] = "read" => at'[p] \in 1..Len(Reads(p)')
    BY <1>5
  <2> QED
    BY <1>1, <1>2, <1>3, <1>4, <2>1 DEF JobInv, StepPC
<1>7. DecidedInv(p)'
  BY <1>2 DEF DecidedInv
<1> QED
  BY <1>6, <1>7

LEMMA JobBegin ==
  ASSUME TypeInv, NEW p \in Proc, TypeInv', JobInv(p), Begin(p) \/ InitBegin(p)
  PROVE  JobInv(p)' /\ DecidedInv(p)'
<1>1. /\ pc[p] = "idle" /\ at'[p] = 1 /\ req' = req /\ todo' = todo
  BY DEF Begin, InitBegin, JobInv
<1>2. pc'[p] = Enter(todo[p]) \/ pc'[p] = "done"
  BY DEF Begin, InitBegin, Goto, TypeInv
<1>3. CASE pc'[p] = "done"
  BY <1>1, <1>3, JobEnded
<1>4. CASE pc'[p] = Enter(todo[p])
  <2>1. IsInit(p) => /\ \A i \in 1..Len(todo'[p]) : todo'[p][i] \in SetupSteps
                     /\ \A i, j \in 1..Len(todo'[p]) : todo'[p][i] = todo'[p][j] => i = j
    BY <1>1 DEF JobInv
  <2> QED
    BY <1>1, <1>4, <2>1, JobEntered
<1> QED
  BY <1>2, <1>3, <1>4

LEMMA JobAdvance ==
  ASSUME TypeInv, NEW p \in Proc, TypeInv', JobInv(p), InitStep(p)
  PROVE  JobInv(p)' /\ DecidedInv(p)'
<1>1. pc[p] = "step" /\ req' = req /\ at' = at /\ at[p] = 1 /\ IsInit(p)
  BY InitStepShape DEF JobInv
<1>2. CASE (Proceed(p, "end") \/ Fail(p)) /\ UNCHANGED <<todo, saw>>
  <2>1. pc'[p] = "end"
    BY <1>1, <1>2 DEF Proceed, Fail, Break, Goto, TypeInv
  <2> QED
    BY <1>1, <1>2, <2>1, JobEnded
<1>3. CASE Advance(p)
  <2>1. pc'[p] = Enter(todo'[p]) /\ todo'[p] = Tail(todo[p])
    BY <1>3 DEF Advance, Goto, TypeInv
  <2>2. /\ Len(todo'[p]) = Len(todo[p]) - 1 /\ Len(todo[p]) \in 1..3
        /\ \A i \in 1..Len(todo'[p]) : todo'[p][i] = todo[p][i + 1]
    BY <1>1, <2>1, JobType DEF JobInv
  <2>3. \A i \in 1..Len(todo'[p]) : i + 1 \in 1..Len(todo[p])
    BY <2>2
  <2>4. /\ \A i \in 1..Len(todo[p]) : todo[p][i] \in SetupSteps
        /\ \A i, j \in 1..Len(todo[p]) : todo[p][i] = todo[p][j] => i = j
    BY <1>1 DEF JobInv
  <2>5. \A i \in 1..Len(todo'[p]) : todo'[p][i] \in SetupSteps
    BY <2>2, <2>3, <2>4
  <2>6. ASSUME NEW i \in 1..Len(todo'[p]), NEW j \in 1..Len(todo'[p]), todo'[p][i] = todo'[p][j]
        PROVE  i = j
    <3>1. i + 1 = j + 1
      BY <2>2, <2>3, <2>4, <2>6
    <3> QED
      BY <2>2, <3>1
  <2> QED
    BY <1>1, <2>1, <2>5, <2>6, JobEntered
<1> QED
  BY <1>2, <1>3, InitStepShape

LEMMA JobRead ==
  ASSUME TypeInv, NEW p \in Proc, JobInv(p), Read(p)
  PROVE  JobInv(p)' /\ DecidedInv(p)'
<1>1. /\ pc[p] = "read" /\ req' = req /\ todo' = todo /\ at[p] \in 1..Len(Reads(p))
      /\ todo[p] # <<>>
  BY DEF Read, JobInv, StepPC
<1>2. Job(p)' = Job(p) /\ IsInit(p)' = IsInit(p) /\ Reads(p)' = Reads(p)
  BY <1>1, PlanKept
<1>3. CASE Fail(p)
  <2>1. pc'[p] \in {"end", "done"} /\ (pc'[p] = "end" => IsInit(p))
    BY <1>3 DEF Fail, Break, Goto, TypeInv
  <2> QED
    BY <1>1, <2>1, JobEnded
<1>4. CASE ~Fail(p)
  <2>0. Len(Reads(p)) \in Nat
    BY <1>1, JobType, RequestType, ReadsType
  <2>1. \/ pc'[p] = "decide" /\ at'[p] = 1
        \/ pc'[p] = "read" /\ at'[p] = at[p] + 1 /\ at[p] # Len(Reads(p))
    BY <1>1, <1>4 DEF Read, Goto, TypeInv
  <2>2. pc'[p] = "read" => at'[p] \in 1..Len(Reads(p))
    BY <1>1, <2>0, <2>1
  <2>3. JobInv(p)'
    BY <1>1, <1>2, <2>1, <2>2 DEF JobInv, StepPC
  <2>4. DecidedInv(p)'
    BY <2>1 DEF DecidedInv
  <2> QED
    BY <2>3, <2>4
<1> QED
  BY <1>3, <1>4

LEMMA JobDecide ==
  ASSUME TypeInv, NEW p \in Proc, JobInv(p), DecideAny(p)
  PROVE  JobInv(p)' /\ DecidedInv(p)'
<1>1. /\ pc[p] = "decide" /\ StillHere /\ Decided(p)
      /\ req' = req /\ todo' = todo /\ at' = at /\ saw' = saw /\ at[p] = 1
      /\ todo[p] # <<>>
  BY DecideShape DEF StillHere, JobInv, StepPC
<1>2. /\ Job(p)' = Job(p) /\ IsInit(p)' = IsInit(p) /\ Reads(p)' = Reads(p)
      /\ Plan(p)' = Plan(p)
  BY <1>1, PlanKept
<1>3. CASE \/ \E r \in Refusal : Conclude(p, r)
           \/ Fail(p)
  <2>1. pc'[p] \in {"end", "done", "step"} /\ (pc'[p] \in {"end", "step"} => IsInit(p))
    BY <1>3 DEF Conclude, Fail, Break, Goto, TypeInv
  <2>2. CASE pc'[p] # "step"
    BY <1>1, <2>1, <2>2, JobEnded
  <2>3. CASE pc'[p] = "step"
    BY <1>1, <1>2, <2>1, <2>3 DEF JobInv, DecidedInv
  <2> QED
    BY <2>2, <2>3
<1>4. CASE Proceed(p, "gate") /\ Job(p) \in WriteJob /\ Plan(p) # <<>> /\ Cleared(p)
  <2>1. pc'[p] = "gate"
    BY <1>4 DEF Proceed, Goto, TypeInv
  <2> QED
    BY <1>1, <1>2, <1>4, <2>1 DEF JobInv, DecidedInv, Cleared, StepPC
<1>5. CASE Proceed(p, "remove") /\ Job(p) \in RemoveJob /\ Managed(saw[p][Reads(p)[1]])
  <2>1. pc'[p] = "remove"
    BY <1>5 DEF Proceed, Goto, TypeInv
  <2> QED
    BY <1>1, <1>2, <1>5, <2>1 DEF JobInv, DecidedInv, StepPC
<1>6. CASE Proceed(p, "exec") /\ Job(p) = "wrap.run"
  <2>1. pc'[p] = "exec"
    BY <1>6 DEF Proceed, Goto, TypeInv
  <2> QED
    BY <1>1, <1>2, <1>6, <2>1 DEF JobInv, DecidedInv, StepPC
<1>7. CASE Proceed(p, "event") /\ Job(p) \in {"hook.status", "hook.repair"}
  <2>1. pc'[p] = "event"
    BY <1>7 DEF Proceed, Goto, TypeInv
  <2> QED
    BY <1>1, <1>2, <1>7, <2>1 DEF JobInv, DecidedInv, StepPC
<1>8. CASE Goto(p, "event") /\ result' = [result EXCEPT ![p] = "failed"]
  <2>1. pc'[p] = "event" /\ result'[p] = "failed"
    BY <1>8 DEF Goto, TypeInv
  <2> QED
    BY <1>1, <1>2, <2>1 DEF JobInv, DecidedInv, StepPC
<1> QED
  BY <1>1, <1>3, <1>4, <1>5, <1>6, <1>7, <1>8 DEF Decided
LEMMA JobGate ==
  ASSUME TypeInv, NEW p \in Proc, JobInv(p), DecidedInv(p), Gate(p)
  PROVE  JobInv(p)' /\ DecidedInv(p)'
<1>1. /\ pc[p] = "gate" /\ req' = req /\ todo' = todo /\ at' = at /\ saw' = saw /\ at[p] = 1
      /\ todo[p] # <<>> /\ Plan(p) # <<>> /\ Job(p) \in WriteJob
  BY DEF Gate, StillHere, JobInv, StepPC
<1>2. /\ Job(p)' = Job(p) /\ IsInit(p)' = IsInit(p) /\ Reads(p)' = Reads(p)
      /\ Plan(p)' = Plan(p)
  BY <1>1, PlanKept
<1>3. CASE Conclude(p, "needs_approval")
  <2>1. pc'[p] \in {"done", "step"} /\ (pc'[p] = "step" => IsInit(p))
    BY <1>3 DEF Conclude, Goto, TypeInv
  <2>2. CASE pc'[p] # "step"
    BY <1>1, <2>1, <2>2, JobEnded
  <2>3. CASE pc'[p] = "step"
    BY <1>1, <1>2, <2>1, <2>3 DEF JobInv, DecidedInv
  <2> QED
    BY <2>2, <2>3
<1>4. CASE Proceed(p, "truncate") /\ Job(p) \in req[p].approves
  <2>1. pc'[p] = "truncate"
    BY <1>4 DEF Proceed, Goto, TypeInv
  <2>2. 1 \in 1..Len(Plan(p))
    <3>1. Plan(p) \in Seq(Targets)
      BY <1>1, JobType, RequestType, PlanType
    <3>2. Len(Plan(p)) \in Nat \ {0}
      BY <1>1, <3>1, EmptySeq
    <3> QED
      BY <3>2
  <2>3. JobInv(p)'
    BY <1>1, <1>2, <2>1, <2>2 DEF JobInv, StepPC
  <2>4. DecidedInv(p)'
    BY <1>1, <1>2, <1>4, <2>1 DEF DecidedInv
  <2> QED
    BY <2>3, <2>4
<1> QED
  BY <1>3, <1>4 DEF Gate

LEMMA JobWrite ==
  ASSUME TypeInv, NEW p \in Proc, JobInv(p), DecidedInv(p), Truncate(p) \/ WriteFile(p)
  PROVE  JobInv(p)' /\ DecidedInv(p)'
<1>1. /\ pc[p] \in {"truncate", "write"} /\ req' = req /\ todo' = todo /\ saw' = saw
      /\ todo[p] # <<>> /\ Plan(p) # <<>> /\ Job(p) \in WriteJob
      /\ at[p] \in 1..Len(Plan(p)) /\ Len(Plan(p)) \in 0..2
  BY WritesTarget DEF Truncate, WriteFile, JobInv, StepPC
<1>2. /\ Job(p)' = Job(p) /\ IsInit(p)' = IsInit(p) /\ Reads(p)' = Reads(p)
      /\ Plan(p)' = Plan(p)
  BY <1>1, PlanKept
<1>3. \/ pc'[p] = "write" /\ at'[p] = at[p]
      \/ pc'[p] = "event" /\ at'[p] = 1
      \/ pc'[p] = "truncate" /\ at'[p] = at[p] + 1 /\ at[p] # Len(Plan(p))
  BY DEF Truncate, WriteFile, Proceed, Goto, TypeInv
<1>4. pc'[p] \in {"truncate", "write"} => at'[p] \in 1..Len(Plan(p))
  BY <1>1, <1>3
<1>5. Job(p) # "wrap.run"
  BY <1>1 DEF WriteJob, SetupSteps
<1>6. JobInv(p)'
  BY <1>1, <1>2, <1>3, <1>4, <1>5 DEF JobInv, StepPC
<1>7. DecidedInv(p)'
  BY <1>1, <1>2, <1>3 DEF DecidedInv
<1> QED
  BY <1>6, <1>7

LEMMA JobRemove ==
  ASSUME TypeInv, NEW p \in Proc, JobInv(p), Remove(p)
  PROVE  JobInv(p)' /\ DecidedInv(p)'
<1>1. /\ pc[p] = "remove" /\ req' = req /\ todo' = todo /\ at' = at /\ saw' = saw /\ at[p] = 1
      /\ todo[p] # <<>> /\ Job(p) \in RemoveJob
  BY DEF Remove, JobInv, StepPC
<1>2. /\ Job(p)' = Job(p) /\ IsInit(p)' = IsInit(p)
  BY <1>1, PlanKept
<1>3. CASE Fail(p)
  <2>1. pc'[p] \in {"end", "done"} /\ (pc'[p] = "end" => IsInit(p))
    BY <1>3 DEF Fail, Break, Goto, TypeInv
  <2> QED
    BY <1>1, <2>1, JobEnded
<1>4. CASE Proceed(p, "event")
  <2>1. pc'[p] = "event"
    BY <1>4 DEF Proceed, Goto, TypeInv
  <2>2. Job(p) # "wrap.run"
    BY <1>1 DEF RemoveJob
  <2> QED
    BY <1>1, <1>2, <2>1, <2>2 DEF JobInv, DecidedInv, StepPC
<1> QED
  BY <1>3, <1>4 DEF Remove

LEMMA JobBreak ==
  ASSUME TypeInv, NEW p \in Proc, JobInv(p), Breakdown(p)
  PROVE  JobInv(p)' /\ DecidedInv(p)'
<1>1. req' = req /\ todo' = todo
  BY DEF Breakdown, StillHere
<1>2. pc'[p] \in {"end", "done"} /\ (pc'[p] = "end" => IsInit(p))
  BY DEF Breakdown, Break, Goto, TypeInv
<1> QED
  BY <1>1, <1>2, JobEnded

LEMMA JobExec ==
  ASSUME TypeInv, NEW p \in Proc, JobInv(p), Exec(p)
  PROVE  JobInv(p)' /\ DecidedInv(p)'
<1>1. /\ pc[p] = "exec" /\ req' = req /\ todo' = todo /\ at' = at /\ saw' = saw /\ at[p] = 1
      /\ todo[p] # <<>>
  BY DEF Exec, StillHere, JobInv, StepPC
<1>2. /\ Job(p)' = Job(p) /\ IsInit(p)' = IsInit(p)
  BY <1>1, PlanKept
<1>3. PICK r \in {"completed", "failed"} : result' = [result EXCEPT ![p] = r]
  BY DEF Exec
<1>4. pc'[p] = "event" /\ result'[p] = r
  BY <1>3 DEF Exec, Goto, TypeInv
<1> QED
  BY <1>1, <1>2, <1>3, <1>4 DEF JobInv, DecidedInv, StepPC

LEMMA JobRecord ==
  ASSUME TypeInv, NEW p \in Proc, JobInv(p), RecordEvent(p)
  PROVE  JobInv(p)' /\ DecidedInv(p)'
<1>1. /\ pc[p] = "event" /\ req' = req /\ todo' = todo /\ at' = at /\ saw' = saw /\ at[p] = 1
      /\ todo[p] # <<>>
  BY DEF RecordEvent, JobInv, StepPC
<1>2. /\ Job(p)' = Job(p) /\ IsInit(p)' = IsInit(p)
  BY <1>1, PlanKept
<1>3. pc'[p] \in {"end", "done", "step"} /\ (pc'[p] \in {"end", "step"} => IsInit(p))
  BY DEF RecordEvent, Conclude, Fail, Break, Goto, TypeInv
<1>4. CASE pc'[p] # "step"
  BY <1>1, <1>3, <1>4, JobEnded
<1>5. CASE pc'[p] = "step"
  BY <1>1, <1>2, <1>3, <1>5 DEF JobInv, DecidedInv
<1> QED
  BY <1>4, <1>5

LEMMA JobLast ==
  ASSUME TypeInv, NEW p \in Proc, JobInv(p), Start(p) \/ InitEnd(p) \/ Kill(p)
  PROVE  JobInv(p)' /\ DecidedInv(p)'
<1>1. req' = req /\ todo' = todo
  BY DEF Start, InitEnd, Kill, StillHere
<1>2. pc'[p] \in {"end", "done", "killed"} /\ (pc'[p] = "end" => IsInit(p))
  BY DEF Start, InitEnd, Kill, Goto, TypeInv, JobInv
<1> QED
  BY <1>1, <1>2, JobEnded

\* Every step of a command keeps its place.
LEMMA JobStep ==
  ASSUME TypeInv, TypeInv', NEW p \in Proc, JobInv(p), DecidedInv(p), Step(p) \/ Kill(p)
  PROVE  JobInv(p)' /\ DecidedInv(p)'
BY JobBegin, JobAdvance, JobRead, JobDecide, JobGate, JobWrite, JobRemove, JobBreak, JobExec,
   JobRecord, JobLast DEF Step, DecideAny

LEMMA NextCases ==
  ASSUME [Next]_vars
  PROVE  \/ \E p \in Proc : (Step(p) \/ Kill(p)) /\ Note(\E q \in Proc \ {p} : Running(q))
         \/ /\ \E t \in Editable : \E c \in UserContent(t) : Edit(t, c)
            /\ Note(\E p \in Proc : Running(p))
         \/ UNCHANGED vars
BY DEF Next, User

LEMMA RacedType ==
  ASSUME TypeInv, NEW overlap, Note(overlap), overlap \in BOOLEAN
  PROVE  raced' \in BOOLEAN
BY DEF TypeInv, Note

\* One command moves and the others stay, or the user edits.
LEMMA CoreNext ==
  ASSUME CoreInv, [Next]_vars
  PROVE  CoreInv'
<1>1. TypeInv /\ \A p \in Proc : JobInv(p) /\ DecidedInv(p)
  BY DEF CoreInv
<1>2. ASSUME NEW p \in Proc, Step(p) \/ Kill(p), Note(\E q \in Proc \ {p} : Running(q))
      PROVE  CoreInv'
  <2>1. raced' \in BOOLEAN
    BY <1>1, <1>2, RacedType
  <2>2. TypeInv'
    BY <1>1, <1>2, <2>1, TypeStep
  <2>3. Apart(p)
    BY <1>1, <1>2, OwnStep
  <2>4. ASSUME NEW q \in Proc PROVE JobInv(q)' /\ DecidedInv(q)'
    <3>1. CASE q = p
      BY <1>1, <1>2, <2>2, <3>1, JobStep
    <3>2. CASE q # p
      BY <1>1, <2>3, <2>4, <3>2, JobKept DEF Apart
    <3> QED
      BY <3>1, <3>2
  <2> QED
    BY <2>2, <2>4 DEF CoreInv
<1>3. ASSUME NEW t \in Editable, NEW c \in UserContent(t), Edit(t, c),
             Note(\E p \in Proc : Running(p))
      PROVE  CoreInv'
  <2>1. raced' \in BOOLEAN
    BY <1>1, <1>3, RacedType
  <2>2. TypeInv'
    BY <1>1, <1>3, <2>1, TypeEdit
  <2>3. ASSUME NEW q \in Proc PROVE JobInv(q)' /\ DecidedInv(q)'
    BY <1>1, <1>3, <2>3, JobKept DEF Edit
  <2> QED
    BY <2>2, <2>3 DEF CoreInv
<1>4. CASE UNCHANGED vars
  <2>1. TypeInv'
    BY <1>1, <1>4 DEF TypeInv, vars
  <2>2. ASSUME NEW q \in Proc PROVE JobInv(q)' /\ DecidedInv(q)'
    BY <1>1, <1>4, <2>2, JobKept DEF vars
  <2> QED
    BY <2>1, <2>2 DEF CoreInv
<1> QED
  BY <1>2, <1>3, <1>4, NextCases

LEMMA CoreInit ==
  ASSUME Init
  PROVE  CoreInv
<1>1. req \in Requests /\ req \in [Proc -> Request]
  BY InstallersAssumption DEF Init
<1>2. ASSUME NEW p \in Proc
      PROVE  /\ todo[p] = Jobs(req[p]) /\ Jobs(req[p]) \in Seq(AnyJob)
             /\ Len(Jobs(req[p])) <= 3 /\ Len(Jobs(req[p])) \in Nat
             /\ IsInit(p) => /\ \A i \in 1..Len(todo[p]) : todo[p][i] \in SetupSteps
                             /\ \A i, j \in 1..Len(todo[p]) : todo[p][i] = todo[p][j] => i = j
             /\ ~IsInit(p) => todo[p] = <<req[p].command>>
  <2>1. todo[p] = Jobs(req[p]) /\ req[p] \in Request
    BY <1>1, <1>2 DEF Init
  <2>2. Jobs(req[p]) \in Seq(AnyJob)
    BY <2>1, JobsOf
  <2>3. ~IsInit(p) => todo[p] = <<req[p].command>>
    BY <2>1 DEF IsInit, Jobs
  <2> QED
    BY <2>1, <2>2, <2>3, JobsOf, LenProperties DEF IsInit
<1>3. TypeInv
  <2>1. /\ file \in [Targets -> Content]
        /\ \A t \in Scripts : file[t] \in ScriptContent
        /\ \A t \in Docs : file[t] \in DocContent
    BY InstallersAssumption DEF Init, Content
  <2>2. log \in Seq(LogEntry) /\ frozen \in BOOLEAN /\ raced \in BOOLEAN
    BY EmptySeq DEF Init
  <2>3. Seq(AnyJob) \subseteq Seq(Command \cup SetupSteps)
    BY DEF AnyJob
  <2>4. todo \in [Proc -> Seq(Command \cup SetupSteps)]
    BY <1>2, <2>3 DEF Init
  <2>5. pc \in [Proc -> PC] /\ result \in [Proc -> Result] /\ at \in [Proc -> Nat]
    BY DEF Init, PC, Result
  <2>6. saw \in [Proc -> [Targets -> Content]]
    BY DEF Init, Unread, Content, ScriptContent
  <2>7. steps \in [Proc -> Nat] /\ \A p \in Proc : steps[p] + Len(todo[p]) <= 3
    <3>1. steps = [p \in Proc |-> 0]
      BY DEF Init
    <3> QED
      BY <1>2, <3>1
  <2>8. /\ changed \in [Proc -> SUBSET Targets] /\ edited \subseteq Targets
        /\ mine \subseteq Docs \X Part
    BY DEF Init
  <2>9. spent \in 0..Edits
    BY InstallersAssumption DEF Init
  <2> QED
    BY <1>1, <2>1, <2>2, <2>4, <2>5, <2>6, <2>7, <2>8, <2>9 DEF TypeInv
<1>4. ASSUME NEW p \in Proc PROVE JobInv(p) /\ DecidedInv(p)
  <2>1. pc[p] = "idle" /\ at[p] = 1
    BY <1>4 DEF Init
  <2>2. JobInv(p)
    BY <1>2, <1>4, <2>1 DEF JobInv, StepPC
  <2>3. DecidedInv(p)
    BY <2>1 DEF DecidedInv
  <2> QED
    BY <2>2, <2>3
<1> QED
  BY <1>3, <1>4 DEF CoreInv

\* Every command is where its job, its reads and its plan put it.
THEOREM CoreAlways == Spec => []CoreInv
BY CoreInit, CoreNext, PTL DEF Spec

LEMMA CoreImpliesTypeOK ==
  ASSUME CoreInv
  PROVE  TypeOK
<1>1. TypeInv /\ \A p \in Proc : JobInv(p)
  BY DEF CoreInv
<1>2. \A i \in 1..Len(log) : log[i].by \in Proc /\ log[i].count \in 0..3
  <2>1. ASSUME NEW i \in 1..Len(log) PROVE log[i] \in LogEntry
    BY <1>1, <2>1, ElementOfSeq DEF TypeInv
  <2> QED
    BY <2>1 DEF LogEntry
<1>3. steps \in [Proc -> 0..3]
  <2>1. ASSUME NEW p \in Proc PROVE steps[p] \in 0..3
    <3>1. /\ steps[p] \in Nat /\ steps[p] + Len(todo[p]) <= 3
          /\ todo[p] \in Seq(Command \cup SetupSteps)
      BY <1>1, <2>1 DEF TypeInv
    <3>2. Len(todo[p]) \in Nat
      BY <3>1, LenProperties
    <3> QED
      BY <3>1, <3>2
  <2> QED
    BY <1>1, <2>1 DEF TypeInv
<1>4. \A p \in Proc : pc[p] \in {"read", "truncate", "write"} =>
        at[p] \in 1..Len(IF pc[p] = "read" THEN Reads(p) ELSE Plan(p))
  BY <1>1 DEF JobInv
<1> QED
  BY <1>1, <1>2, <1>3, <1>4 DEF TypeInv, TypeOK, Content

\* Every variable keeps its type under any interleaving, kill and failing
\* append, and no command reads or writes past its plan.
THEOREM TypeSafe == Spec => []TypeOK
BY CoreAlways, CoreImpliesTypeOK, PTL
-----------------------------------------------------------------------------
(* What an append adds to the record of a command *)

LEMMA Appended ==
  ASSUME log \in Seq(LogEntry), NEW e \in LogEntry, log' = Append(log, e)
  PROVE  /\ Len(log) \in Nat /\ Len(log') = Len(log) + 1
         /\ \A i \in 1..Len(log) : log'[i] = log[i]
         /\ log'[Len(log) + 1] = e
BY AppendProperties, LenProperties

LEMMA EventsAppended ==
  ASSUME log \in Seq(LogEntry), NEW e \in LogEntry, log' = Append(log, e), NEW q, NEW E
  PROVE  EventsOf(q, E)' = IF e.by = q /\ e.event \in E THEN EventsOf(q, E) \cup {Len(log) + 1}
                           ELSE EventsOf(q, E)
<1>1. /\ Len(log) \in Nat /\ Len(log') = Len(log) + 1
      /\ \A i \in 1..Len(log) : log'[i] = log[i]
      /\ log'[Len(log) + 1] = e
  BY Appended
<1>2. 1..Len(log') = 1..Len(log) \cup {Len(log) + 1}
  BY <1>1
<1>3. CASE e.by = q /\ e.event \in E
  BY <1>1, <1>2, <1>3 DEF EventsOf
<1>4. CASE ~(e.by = q /\ e.event \in E)
  BY <1>1, <1>2, <1>4 DEF EventsOf
<1> QED
  BY <1>3, <1>4

LEMMA EventsKept ==
  ASSUME NEW q, NEW E,
         \/ log' = log
         \/ log \in Seq(LogEntry) /\ \E e \in LogEntry : e.by # q /\ log' = Append(log, e)
  PROVE  /\ EventsOf(q, E)' = EventsOf(q, E)
         /\ \A i \in EventsOf(q, E) : log'[i] = log[i]
<1>1. CASE log' = log
  BY <1>1 DEF EventsOf
<1>2. CASE log \in Seq(LogEntry) /\ \E e \in LogEntry : e.by # q /\ log' = Append(log, e)
  <2>1. PICK e \in LogEntry : e.by # q /\ log' = Append(log, e)
    BY <1>2
  <2>2. EventsOf(q, E)' = EventsOf(q, E)
    BY <1>2, <2>1, EventsAppended
  <2>3. EventsOf(q, E) \subseteq 1..Len(log)
    BY DEF EventsOf
  <2> QED
    BY <1>2, <2>1, <2>2, <2>3, Appended
<1> QED
  BY <1>1, <1>2

LEMMA EventsFinite ==
  ASSUME log \in Seq(LogEntry), NEW q, NEW E
  PROVE  /\ IsFiniteSet(EventsOf(q, E)) /\ Len(log) + 1 \notin EventsOf(q, E)
         /\ EventsOf(q, E) \subseteq 1..Len(log) /\ Len(log) \in Nat
<1>1. Len(log) \in Nat
  BY LenProperties
<1>2. IsFiniteSet(1..Len(log))
  BY <1>1, FS_Interval
<1>3. EventsOf(q, E) \subseteq 1..Len(log)
  BY DEF EventsOf
<1> QED
  BY <1>1, <1>2, <1>3, FS_Subset

\* What a command has recorded stays, and the events of others add nothing.
RecordKept(q) ==
  /\ Reported(q)' = Reported(q)
  /\ StepEvents(q)' = StepEvents(q)
  /\ InstalledSteps(q)' = InstalledSteps(q)
  /\ RefusedSteps(q)' = RefusedSteps(q)
  /\ EventsOf(q, {"init.end"})' = EventsOf(q, {"init.end"})
  /\ \A i \in StepEvents(q) \cup EventsOf(q, {"init.end"}) : log'[i] = log[i]

LEMMA OthersRecord ==
  ASSUME NEW q,
         \/ log' = log
         \/ log \in Seq(LogEntry) /\ \E e \in LogEntry : e.by # q /\ log' = Append(log, e)
  PROVE  RecordKept(q)
<1>1. /\ EventsOf(q, Events)' = EventsOf(q, Events)
      /\ \A i \in EventsOf(q, Events) : log'[i] = log[i]
  BY EventsKept
<1>2. /\ StepEvents(q)' = StepEvents(q)
      /\ \A i \in StepEvents(q) : log'[i] = log[i]
  BY EventsKept DEF StepEvents
<1>3. /\ EventsOf(q, {"init.end"})' = EventsOf(q, {"init.end"})
      /\ \A i \in EventsOf(q, {"init.end"}) : log'[i] = log[i]
  BY EventsKept
<1>4. Reported(q)' = Reported(q)
  <2>1. {log[i].on : i \in EventsOf(q, Events)}' = {log[i].on : i \in EventsOf(q, Events)}
    BY <1>1
  <2> QED
    BY <2>1 DEF Reported
<1>5. InstalledSteps(q)' = InstalledSteps(q) /\ RefusedSteps(q)' = RefusedSteps(q)
  BY <1>2 DEF InstalledSteps, RefusedSteps, StepEvents
<1> QED
  BY <1>2, <1>3, <1>4, <1>5 DEF RecordKept

\* A step of a command appends at most one event, its own; recordEvent alone
\* names files, and a stream that is broken stays so.
LEMMA LogStep ==
  ASSUME TypeInv, NEW p \in Proc, JobInv(p), Step(p) \/ Kill(p)
  PROVE  /\ \/ log' = log
            \/ \E e \in LogEntry : /\ e.by = p /\ log' = Append(log, e)
                                   /\ e.event \in Events => RecordEvent(p)
                                   /\ e.event = "init.step" => InitStep(p)
         /\ frozen => frozen'
<1>1. CASE DecideAny(p)
  BY <1>1, DecideShape DEF StillHere, auditVars
<1>2. CASE Begin(p) \/ Read(p) \/ Gate(p) \/ Exec(p) \/ Kill(p) \/ Truncate(p) \/ WriteFile(p)
           \/ Remove(p) \/ Breakdown(p)
  BY <1>2 DEF Begin, Read, Gate, Exec, Kill, Truncate, WriteFile, Remove, Breakdown, StillHere,
              auditVars
<1>3. CASE Start(p)
  BY <1>3, InstallersAssumption DEF Start, TypeInv
<1>4. ASSUME NEW e \in LogEntry, Recorded(e) \/ Refused(e)
      PROVE  /\ log' = log \/ log' = Append(log, e)
             /\ frozen => frozen'
  BY <1>4 DEF Recorded, Refused
<1>5. /\ \A x \in Events : x # "init.step"
      /\ {"init.begin", "init.step", "init.end"} \cap Events = {}
  BY DEF Events
<1>6. CASE RecordEvent(p)
  <2>1. /\ Entry(p, Event(p)[1], OnEvent(p), Event(p)[2]) \in LogEntry
        /\ Event(p)[1] # "init.step"
    BY <1>5, <1>6, EventType, EntryType DEF RecordEvent
  <2> QED
    BY <1>4, <1>6, <2>1 DEF RecordEvent, Entry
<1>7. CASE InitStep(p)
  <2>1. Entry(p, "init.step", {Job(p)}, result[p]) \in LogEntry
    BY <1>7, StepEntry DEF InitStep
  <2> QED
    BY <1>4, <1>5, <1>7, <2>1 DEF InitStep, Entry
<1>8. CASE InitBegin(p)
  <2>1. Entry(p, "init.begin", {}, "ok") \in LogEntry
    BY InitEntries
  <2> QED
    BY <1>4, <1>5, <1>8, <2>1 DEF InitBegin, Entry, auditVars
<1>9. CASE InitEnd(p)
  <2>1. Entry(p, "init.end", {}, EndStatus(p)) \in LogEntry
    BY InitEntries
  <2> QED
    BY <1>4, <1>5, <1>9, <2>1 DEF InitEnd, Entry
<1> QED
  BY <1>1, <1>2, <1>3, <1>6, <1>7, <1>8, <1>9 DEF Step, DecideAny

-----------------------------------------------------------------------------
(* What a command has changed and what it has reported *)

LEMMA ReportedAppended ==
  ASSUME log \in Seq(LogEntry), NEW e \in LogEntry, log' = Append(log, e), NEW q
  PROVE  Reported(q)' = Reported(q) \cup IF e.by = q /\ e.event \in Events THEN e.on ELSE {}
<1>1. EventsOf(q, Events)' = IF e.by = q /\ e.event \in Events
                             THEN EventsOf(q, Events) \cup {Len(log) + 1} ELSE EventsOf(q, Events)
  BY EventsAppended
<1>2. /\ \A i \in EventsOf(q, Events) : log'[i] = log[i]
      /\ log'[Len(log) + 1] = e
  BY Appended DEF EventsOf
<1>3. CASE e.by = q /\ e.event \in Events
  <2>1. \A x : x \in Reported(q)' <=> \E i \in EventsOf(q, Events)' : x \in log'[i].on
    BY DEF Reported
  <2>2. \A x : x \in Reported(q) <=> \E i \in EventsOf(q, Events) : x \in log[i].on
    BY DEF Reported
  <2>3. \A x : x \in Reported(q)' <=> x \in Reported(q) \/ x \in e.on
    BY <1>1, <1>2, <1>3, <2>1, <2>2
  <2> QED
    BY <1>3, <2>3
<1>4. CASE ~(e.by = q /\ e.event \in Events)
  <2>1. {log[i].on : i \in EventsOf(q, Events)}' = {log[i].on : i \in EventsOf(q, Events)}
    BY <1>1, <1>2, <1>4
  <2> QED
    BY <1>4, <2>1 DEF Reported
<1> QED
  BY <1>3, <1>4

\* An event about no file leaves what has been reported.
LEMMA ReportedKept ==
  ASSUME TypeInv, NEW p, NEW e \in LogEntry, e.event \notin Events, log' \in {log, Append(log, e)}
  PROVE  Reported(p)' = Reported(p)
<1>1. CASE log' = log
  BY <1>1, OthersRecord DEF RecordKept
<1>2. CASE log' = Append(log, e)
  BY <1>2, ReportedAppended DEF TypeInv
<1> QED
  BY <1>1, <1>2

LEMMA QuietReported ==
  ASSUME TypeInv, log' = log \/ \E e \in LogEntry : e.event \notin Events /\ log' = Append(log, e),
         NEW q
  PROVE  Reported(q)' = Reported(q)
<1>1. CASE log' = log
  BY <1>1, OthersRecord DEF RecordKept
<1>2. CASE \E e \in LogEntry : e.event \notin Events /\ log' = Append(log, e)
  BY <1>2, ReportedKept
<1> QED
  BY <1>1, <1>2

LEMMA NoPlanNoEvent ==
  ASSUME NEW p, Plan(p) = <<>>
  PROVE  OnEvent(p) = {}
<1>1. Len(Plan(p)) = 0
  BY EmptySeq
<1> QED
  BY <1>1 DEF OnEvent

LEMMA ReportIdle ==
  ASSUME NEW p, ReportInv(p), pc[p] \notin {"truncate", "write", "event", "killed"},
         changed'[p] = changed[p], Reported(p)' = Reported(p), frozen => frozen',
         Partial(p)' = {},
         pc[p] \in {"end", "done"} => /\ result'[p] = result[p] /\ Halted(p)' = Halted(p)
                                     /\ pc'[p] \in {"end", "done", "killed"}
  PROVE  ReportInv(p)'
<1>1. Partial(p) = {}
  BY DEF Partial
<1>2. CASE changed[p] = Reported(p)
  BY <1>2 DEF ReportInv
<1>3. CASE pc[p] \in {"end", "done"} /\ Exempt(p) /\ PartOf(p)
  <2>1. Exempt(p)' /\ PartOf(p)'
    BY <1>3 DEF Exempt, PartOf
  <2> QED
    BY <1>3, <2>1 DEF ReportInv
<1> QED
  BY <1>1, <1>2, <1>3 DEF ReportInv

\* The plan a command has stopped at.
LEMMA HaltedIs ==
  ASSUME TypeInv, NEW p \in Proc, JobInv(p)
  PROVE  /\ Len(Halted(p)) \in Nat
         /\ todo[p] # <<>> => Halted(p) = Plan(p)
<1>1. CASE todo[p] = <<>>
  BY <1>1, EmptySeq DEF Halted
<1>2. CASE todo[p] # <<>>
  BY <1>2, JobType, RequestType, PlanType DEF Halted
<1> QED
  BY <1>1, <1>2

LEMMA ReportDecide ==
  ASSUME TypeInv, NEW p \in Proc, JobInv(p), ReportInv(p), DecideAny(p)
  PROVE  ReportInv(p)'
<1>1. pc[p] = "decide" /\ StillHere /\ Decided(p)
  BY DecideShape
<1>2. changed' = changed /\ frozen' = frozen /\ log' = log /\ req' = req /\ todo' = todo /\ saw' = saw
  BY <1>1 DEF StillHere, auditVars
<1>3. Reported(p)' = Reported(p)
  BY <1>2, OthersRecord DEF RecordKept
<1>4. Plan(p)' = Plan(p) /\ OnEvent(p)' = OnEvent(p)
  BY <1>2, PlanKept
<1>5. pc'[p] = "event" => Plan(p) = <<>>
  BY <1>1 DEF Decided, Conclude, Proceed, Fail, Break, Goto, TypeInv
<1>6. pc'[p] \notin {"truncate", "write"}
  BY <1>1 DEF Decided, Conclude, Proceed, Fail, Break, Goto, TypeInv
<1>7. Partial(p)' = {}
  BY <1>4, <1>5, <1>6, NoPlanNoEvent DEF Partial
<1> QED
  BY <1>1, <1>2, <1>3, <1>7, ReportIdle

LEMMA ReportQuiet ==
  ASSUME TypeInv, NEW p \in Proc, JobInv(p), ReportInv(p),
         Begin(p) \/ Read(p) \/ Gate(p) \/ Exec(p) \/ Start(p) \/ Kill(p)
  PROVE  ReportInv(p)'
<1>1. /\ changed' = changed /\ log' = log /\ req' = req /\ todo' = todo
      /\ frozen => frozen'
  BY InstallersAssumption
     DEF Begin, Read, Gate, Exec, Start, Kill, StillHere, auditVars, TypeInv
<1>2. Reported(p)' = Reported(p)
  BY <1>1, OthersRecord DEF RecordKept
<1>3. CASE Kill(p)
  BY <1>3 DEF Kill, Goto, TypeInv, ReportInv
<1>4. CASE Begin(p) \/ Read(p) \/ Start(p)
  <2>1. pc'[p] \notin {"truncate", "write", "event"} /\ pc[p] \in {"idle", "read", "start"}
    BY <1>4, EnterType DEF Begin, Read, Start, Fail, Break, Goto, TypeInv
  <2>2. Partial(p)' = {}
    BY <2>1 DEF Partial
  <2> QED
    BY <1>1, <1>2, <2>1, <2>2, ReportIdle
<1>5. CASE Gate(p)
  <2>1. pc'[p] \notin {"write", "event"} /\ pc[p] = "gate" /\ at'[p] = 1
    BY <1>5 DEF Gate, Proceed, Conclude, StillHere, Goto, TypeInv, JobInv
  <2>2. Partial(p)' = {}
    BY <2>1 DEF Partial
  <2> QED
    BY <1>1, <1>2, <2>1, <2>2, ReportIdle
<1>6. CASE Exec(p)
  <2>1. pc'[p] = "event" /\ pc[p] = "exec" /\ Job(p) = "wrap.run" /\ saw' = saw
    BY <1>6 DEF Exec, StillHere, Goto, TypeInv, JobInv
  <2>2. Plan(p) = <<>>
    BY <2>1, PlanIs
  <2>3. OnEvent(p)' = {}
    BY <1>1, <2>1, <2>2, PlanKept, NoPlanNoEvent
  <2>4. Partial(p)' = {}
    BY <2>1, <2>3 DEF Partial
  <2> QED
    BY <1>1, <1>2, <2>1, <2>4, ReportIdle
<1> QED
  BY <1>3, <1>4, <1>5, <1>6

LEMMA ReportInit ==
  ASSUME TypeInv, NEW p \in Proc, JobInv(p), ReportInv(p), InitBegin(p) \/ InitStep(p) \/ InitEnd(p)
  PROVE  ReportInv(p)'
<1>1. ~RecordEvent(p)
  BY DEF InitBegin, InitStep, InitEnd, RecordEvent
<1>2. Reported(p)' = Reported(p)
  BY <1>1, LogStep, QuietReported DEF Step
<1>3. frozen => frozen'
  BY LogStep DEF Step
<1>4. changed' = changed
  BY InitStepShape DEF InitBegin, InitEnd
<1>5. CASE InitBegin(p)
  <2>1. pc[p] = "idle" /\ pc'[p] \notin {"truncate", "write", "event"}
    BY <1>5, EnterType DEF InitBegin, Goto, TypeInv
  <2>2. Partial(p)' = {}
    BY <2>1 DEF Partial
  <2> QED
    BY <1>2, <1>3, <1>4, <2>1, <2>2, ReportIdle
<1>6. CASE InitEnd(p)
  <2>1. /\ pc[p] = "end" /\ pc'[p] = "done" /\ result' = result
        /\ req' = req /\ todo' = todo /\ saw' = saw
    BY <1>6 DEF InitEnd, Goto, TypeInv
  <2>2. Partial(p)' = {}
    BY <2>1 DEF Partial
  <2>3. Halted(p)' = Halted(p)
    BY <2>1, PlanKept DEF Halted
  <2> QED
    BY <1>2, <1>3, <1>4, <2>1, <2>2, <2>3, ReportIdle
<1>7. CASE InitStep(p)
  <2>1. pc[p] = "step" /\ (Proceed(p, "end") \/ Fail(p) \/ Advance(p))
    BY <1>7, InitStepShape
  <2>2. pc'[p] \notin {"truncate", "write", "event"}
    BY <2>1, EnterType DEF Proceed, Fail, Break, Advance, Goto, TypeInv
  <2>3. Partial(p)' = {}
    BY <2>2 DEF Partial
  <2> QED
    BY <1>2, <1>3, <1>4, <2>1, <2>3, ReportIdle
<1> QED
  BY <1>5, <1>6, <1>7

\* A truncation adds the file of the plan, and the last write leaves the event.
LEMMA ReportWrite ==
  ASSUME TypeInv, NEW p \in Proc, JobInv(p), ReportInv(p), Truncate(p) \/ WriteFile(p)
  PROVE  ReportInv(p)'
<1> DEFINE t == Plan(p)[at[p]]
<1>1. /\ pc[p] \in {"truncate", "write"} /\ req' = req /\ todo' = todo /\ saw' = saw /\ log' = log
      /\ at[p] \in 1..Len(Plan(p)) /\ Len(Plan(p)) \in 0..2
  BY WritesTarget DEF Truncate, WriteFile, auditVars
<1>2. Plan(p)' = Plan(p) /\ OnEvent(p)' = OnEvent(p)
  BY <1>1, PlanKept
<1>3. Reported(p)' = Reported(p)
  BY <1>1, OthersRecord DEF RecordKept
<1>4. changed[p] = Reported(p) \cup Partial(p)
  BY <1>1 DEF ReportInv
<1>5. CASE Truncate(p)
  <2>1. pc[p] = "truncate" /\ pc'[p] = "write" /\ at' = at /\ changed'[p] = changed[p] \cup {t}
    BY <1>5 DEF Truncate, Proceed, Goto, TypeInv
  <2>2. 1..at[p] = 1..(at[p] - 1) \cup {at[p]}
    BY <1>1
  <2>3. Partial(p)' = {Plan(p)[i] : i \in 1..at[p]}
    BY <1>2, <2>1 DEF Partial
  <2>4. Partial(p) = {Plan(p)[i] : i \in 1..(at[p] - 1)}
    BY <2>1 DEF Partial
  <2>5. Partial(p)' = Partial(p) \cup {t}
    BY <2>2, <2>3, <2>4
  <2> QED
    BY <1>3, <1>4, <2>1, <2>5 DEF ReportInv
<1>6. CASE WriteFile(p)
  <2>1. /\ pc[p] = "write" /\ changed' = changed
        /\ \/ pc'[p] = "truncate" /\ at'[p] = at[p] + 1
           \/ pc'[p] = "event" /\ at[p] = Len(Plan(p))
    BY <1>6 DEF WriteFile, Proceed, Goto, TypeInv
  <2>2. Partial(p) = {Plan(p)[i] : i \in 1..at[p]}
    BY <2>1 DEF Partial
  <2>3. CASE pc'[p] = "truncate" /\ at'[p] = at[p] + 1
    <3>1. at'[p] - 1 = at[p]
      BY <1>1, <2>3
    <3>2. Partial(p)' = {Plan(p)[i] : i \in 1..at[p]}
      BY <1>2, <2>3, <3>1 DEF Partial
    <3> QED
      BY <1>3, <1>4, <2>1, <2>2, <3>2 DEF ReportInv
  <2>4. CASE pc'[p] = "event" /\ at[p] = Len(Plan(p))
    <3>1. Partial(p)' = {Plan(p)[i] : i \in 1..at[p]}
      BY <1>2, <2>4 DEF Partial, OnEvent
    <3> QED
      BY <1>3, <1>4, <2>1, <2>2, <3>1 DEF ReportInv
  <2> QED
    BY <2>1, <2>3, <2>4
<1> QED
  BY <1>5, <1>6

LEMMA ReportRemove ==
  ASSUME TypeInv, NEW p \in Proc, JobInv(p), ReportInv(p), Remove(p)
  PROVE  ReportInv(p)'
<1>1. /\ pc[p] = "remove" /\ req' = req /\ todo' = todo /\ saw' = saw /\ log' = log /\ frozen' = frozen
      /\ Len(Plan(p)) = 1
  BY RemovesTarget DEF Remove, auditVars
<1>2. Plan(p)' = Plan(p) /\ OnEvent(p)' = OnEvent(p)
  BY <1>1, PlanKept
<1>3. Reported(p)' = Reported(p)
  BY <1>1, OthersRecord DEF RecordKept
<1>4. changed[p] = Reported(p)
  BY <1>1 DEF ReportInv, Partial
<1>5. CASE changed' = changed /\ Fail(p)
  <2>1. pc'[p] \in {"end", "done"}
    BY <1>5 DEF Fail, Break, Goto, TypeInv
  <2> QED
    BY <1>3, <1>4, <1>5, <2>1 DEF ReportInv, Partial
<1>6. CASE changed' = [changed EXCEPT ![p] = @ \cup {Plan(p)[1]}] /\ Proceed(p, "event")
  <2>1. pc'[p] = "event" /\ changed'[p] = changed[p] \cup {Plan(p)[1]}
    BY <1>6 DEF Proceed, Goto, TypeInv
  <2>2. OnEvent(p) = {Plan(p)[1]}
    BY <1>1 DEF OnEvent
  <2> QED
    BY <1>2, <1>3, <1>4, <2>1, <2>2 DEF ReportInv, Partial
<1> QED
  BY <1>5, <1>6 DEF Remove

LEMMA ReportRecord ==
  ASSUME TypeInv, NEW p \in Proc, JobInv(p), ReportInv(p), RecordEvent(p)
  PROVE  ReportInv(p)'
<1> DEFINE e == Entry(p, Event(p)[1], OnEvent(p), Event(p)[2])
<1>1. /\ pc[p] = "event" /\ changed' = changed
      /\ e \in LogEntry /\ e.by = p /\ e.event \in Events /\ e.on = OnEvent(p)
  BY EventType, EntryType DEF RecordEvent, Entry
<1>2. changed[p] = Reported(p) \cup OnEvent(p)
  BY <1>1 DEF ReportInv, Partial
<1>3. CASE Recorded(e) /\ Conclude(p, Event(p)[2])
  <2>1. pc'[p] \in {"step", "done"} /\ log' = Append(log, e)
    BY <1>3 DEF Conclude, Goto, TypeInv, Recorded
  <2>2. Reported(p)' = Reported(p) \cup OnEvent(p)
    BY <1>1, <2>1, ReportedAppended DEF TypeInv
  <2> QED
    BY <1>1, <1>2, <2>1, <2>2 DEF ReportInv, Partial
<1>4. CASE Refused(e) /\ Fail(p)
  <2>1. pc'[p] \in {"end", "done"} /\ result'[p] = "error" /\ frozen' = TRUE
    BY <1>4 DEF Fail, Break, Goto, TypeInv, Refused
  <2>2. /\ req' = req /\ todo' = todo /\ saw' = saw /\ todo[p] # <<>>
        /\ log' = log \/ log' = Append(log, e)
    BY <1>1, <1>4 DEF RecordEvent, Refused, JobInv, StepPC
  <2>3. Halted(p)' = Plan(p) /\ Len(Plan(p)) \in Nat
    BY <2>2, HaltedIs, PlanKept DEF Halted
  <2>4. Reported(p)' = Reported(p) \/ Reported(p)' = Reported(p) \cup OnEvent(p)
    <3>1. CASE log' = log
      BY <3>1, OthersRecord DEF RecordKept
    <3>2. CASE log' = Append(log, e)
      BY <1>1, <3>2, ReportedAppended DEF TypeInv
    <3> QED
      BY <2>2, <3>1, <3>2
  <2>5. changed'[p] = Reported(p)' \cup {Plan(p)[i] : i \in 1..Len(Plan(p))}
    BY <1>1, <1>2, <2>4 DEF OnEvent
  <2>6. PartOf(p)'
    <3>1. Len(Plan(p)) \in 0..Len(Plan(p))
      BY <2>3
    <3> QED
      BY <2>3, <2>5, <3>1 DEF PartOf
  <2> QED
    BY <2>1, <2>6 DEF ReportInv, Exempt
<1> QED
  BY <1>3, <1>4 DEF RecordEvent

\* A command that breaks down keeps what its plan has got to.
LEMMA ReportBreak ==
  ASSUME TypeInv, NEW p \in Proc, JobInv(p), ReportInv(p), Breakdown(p)
  PROVE  ReportInv(p)'
<1>1. /\ pc[p] \in {"read", "gate", "truncate", "write", "remove"}
      /\ req' = req /\ todo' = todo /\ saw' = saw /\ changed' = changed /\ log' = log
  BY DEF Breakdown, StillHere, auditVars
<1>2. pc'[p] \in {"end", "done"} /\ result'[p] = "io_error"
  BY DEF Breakdown, Break, Goto, TypeInv
<1>3. Reported(p)' = Reported(p)
  BY <1>1, OthersRecord DEF RecordKept
<1>4. todo[p] # <<>> /\ at[p] \in Nat
  BY <1>1 DEF JobInv, StepPC, TypeInv
<1>5. Halted(p)' = Plan(p) /\ Len(Plan(p)) \in Nat
  BY <1>1, <1>4, HaltedIs, PlanKept DEF Halted
<1>6. \E k \in 0..Len(Plan(p)) : Partial(p) = {Plan(p)[i] : i \in 1..k}
  <2>1. CASE pc[p] = "truncate"
    <3>1. at[p] - 1 \in 0..Len(Plan(p))
      BY <1>5, <2>1 DEF JobInv
    <3> QED
      BY <2>1, <3>1 DEF Partial
  <2>2. CASE pc[p] = "write"
    <3>1. at[p] \in 0..Len(Plan(p))
      BY <1>5, <2>2 DEF JobInv
    <3> QED
      BY <2>2, <3>1 DEF Partial
  <2>3. CASE pc[p] \in {"read", "gate", "remove"}
    <3>1. 0 \in 0..Len(Plan(p)) /\ 1..0 = {}
      BY <1>5
    <3>2. Partial(p) = {}
      BY <2>3 DEF Partial
    <3>3. Partial(p) = {Plan(p)[i] : i \in 1..0}
      BY <3>1, <3>2
    <3> QED
      BY <3>1, <3>3
  <2> QED
    BY <1>1, <2>1, <2>2, <2>3
<1>7. changed[p] = Reported(p) \cup Partial(p)
  BY <1>1 DEF ReportInv
<1>8. PartOf(p)'
  BY <1>1, <1>3, <1>5, <1>6, <1>7 DEF PartOf
<1> QED
  BY <1>2, <1>8 DEF ReportInv, Exempt

LEMMA ReportStep ==
  ASSUME TypeInv, NEW p \in Proc, JobInv(p), ReportInv(p), Step(p) \/ Kill(p)
  PROVE  ReportInv(p)'
BY ReportDecide, ReportQuiet, ReportInit, ReportWrite, ReportRemove, ReportRecord, ReportBreak
   DEF Step, DecideAny
-----------------------------------------------------------------------------
(* The record of an init *)

\* InitTraced, of one command.
EndTraced(p) ==
  \E i \in EventsOf(p, {"init.end"}) :
    /\ log[i].status = "needs_approval" => Stopped(p)
    /\ log[i].status \in {"ok", "non_ok"} =>
         Cardinality(StepEvents(p)) = Len(Jobs(req[p])) /\ RefusedSteps(p) = {}
    /\ log[i].status # "error" =>
         log[i].count = Cardinality(InstalledSteps(p)) /\ changed[p] = Credit(p)
DoneInv(p) ==
  pc[p] = "done" /\ IsInit(p) /\ result[p] # "needs_input" /\ ~frozen => EndTraced(p)

\* The steps on record, those installed and those refused, are as they were.
StepsKept(p) ==
  /\ StepEvents(p)' = StepEvents(p)
  /\ \A j \in StepEvents(p) : log'[j] = log[j]
  /\ InstalledSteps(p)' = InstalledSteps(p)
  /\ RefusedSteps(p)' = RefusedSteps(p)

LEMMA StepsStay ==
  ASSUME TypeInv, NEW p,
         log' = log \/ \E e \in LogEntry : e.event # "init.step" /\ log' = Append(log, e)
  PROVE  StepsKept(p)
<1>1. CASE log' = log
  BY <1>1, OthersRecord DEF RecordKept, StepsKept
<1>2. CASE \E e \in LogEntry : e.event # "init.step" /\ log' = Append(log, e)
  <2>1. PICK e \in LogEntry : e.event # "init.step" /\ log' = Append(log, e)
    BY <1>2
  <2>2. StepEvents(p)' = StepEvents(p)
    BY <2>1, EventsAppended DEF StepEvents, TypeInv
  <2>3. \A j \in StepEvents(p) : log'[j] = log[j]
    BY <2>1, Appended DEF StepEvents, EventsOf, TypeInv
  <2> QED
    BY <2>2, <2>3 DEF StepsKept, InstalledSteps, RefusedSteps, StepEvents
<1> QED
  BY <1>1, <1>2

LEMMA CreditKept ==
  ASSUME NEW p, StepsKept(p)
  PROVE  /\ Credit(p)' = Credit(p)
         /\ Stopped(p) /\ req' = req => Stopped(p)'
<1>1. InstalledSteps(p) \subseteq StepEvents(p) /\ RefusedSteps(p) \subseteq StepEvents(p)
  BY DEF InstalledSteps, RefusedSteps, StepEvents
<1>2. \A j \in InstalledSteps(p) : log'[j].on = log[j].on
  BY <1>1 DEF StepsKept
<1>3. Credit(p)' = Credit(p)
  BY <1>2 DEF Credit, StepsKept
<1>4. ASSUME Stopped(p), req' = req PROVE Stopped(p)'
  BY <1>1, <1>4 DEF Stopped, StepsKept
<1> QED
  BY <1>3, <1>4

LEMMA TallyKept ==
  ASSUME NEW p, Tallied(p), StepsKept(p), todo'[p] = todo[p], steps'[p] = steps[p], req' = req
  PROVE  Tallied(p)'
BY DEF Tallied, StepsKept

\* A step of the setup goes on record.
LEMMA StepAppended ==
  ASSUME TypeInv, NEW p \in Proc, JobInv(p), pc[p] = "step", NEW n, n = Len(log) + 1,
         log' = Append(log, Entry(p, "init.step", {Job(p)}, result[p]))
  PROVE  /\ StepEvents(p)' = StepEvents(p) \cup {n}
         /\ IsFiniteSet(StepEvents(p)) /\ n \notin StepEvents(p)
         /\ n \in Nat /\ \A j \in StepEvents(p) : j \in Nat /\ j < n
         /\ \A j \in StepEvents(p) : log'[j] = log[j]
         /\ log'[n].status = result[p] /\ log'[n].on = {Job(p)}
         /\ InstalledSteps(p)' = InstalledSteps(p) \cup IF result[p] = "installed" THEN {n} ELSE {}
         /\ RefusedSteps(p)' = RefusedSteps(p) \cup IF result[p] = "needs_approval" THEN {n} ELSE {}
         /\ Reported(p)' = Reported(p)
<1> DEFINE e == Entry(p, "init.step", {Job(p)}, result[p])
<1>1. /\ e \in LogEntry /\ log' = Append(log, e) /\ e.by = p /\ e.event = "init.step"
      /\ e.status = result[p] /\ e.on = {Job(p)} /\ log \in Seq(LogEntry)
  BY StepEntry DEF Entry, TypeInv
<1> HIDE DEF e
<1>2. /\ StepEvents(p)' = StepEvents(p) \cup {n}
      /\ log'[n] = e
      /\ \A j \in StepEvents(p) : log'[j] = log[j]
  BY <1>1, EventsAppended, Appended DEF StepEvents, EventsOf
<1>3. /\ IsFiniteSet(StepEvents(p)) /\ n \notin StepEvents(p)
      /\ n \in Nat /\ \A j \in StepEvents(p) : j \in Nat /\ j < n
  BY <1>1, EventsFinite DEF StepEvents
<1>4. \A x : {i \in StepEvents(p) : log[i].status = x} \cup (IF result[p] = x THEN {n} ELSE {})
               = {i \in StepEvents(p)' : log'[i].status = x}
  <2> TAKE x
  <2>1. log'[n].status = result[p]
    BY <1>1, <1>2
  <2>2. CASE result[p] = x
    BY <1>2, <2>1, <2>2
  <2>3. CASE result[p] # x
    BY <1>2, <2>1, <2>3
  <2> QED
    BY <2>2, <2>3
<1>5. /\ InstalledSteps(p)' = InstalledSteps(p) \cup IF result[p] = "installed" THEN {n} ELSE {}
      /\ RefusedSteps(p)' = RefusedSteps(p) \cup IF result[p] = "needs_approval" THEN {n} ELSE {}
  BY <1>4 DEF InstalledSteps, RefusedSteps, StepEvents
<1>6. Reported(p)' = Reported(p)
  <2>1. e.event \notin Events
    BY <1>1 DEF Events
  <2> QED
    BY <1>1, <2>1, ReportedKept
<1> QED
  BY <1>1, <1>2, <1>3, <1>5, <1>6

\* A step that is recorded moves from those ahead to those on record, and what
\* it has changed is what it is credited with.
LEMMA TallyAdvanced ==
  ASSUME TypeInv, NEW p \in Proc, JobInv(p), Tallied(p), pc[p] = "step", Advance(p), req' = req,
         Recorded(Entry(p, "init.step", {Job(p)}, result[p])), result[p] # "needs_approval"
  PROVE  Tallied(p)' /\ Credit(p)' = Credit(p) \cup Claimed(p)
<1> PICK n : n = Len(log) + 1
  OBVIOUS
<1>2. /\ StepEvents(p)' = StepEvents(p) \cup {n}
      /\ IsFiniteSet(StepEvents(p)) /\ n \notin StepEvents(p)
      /\ \A j \in StepEvents(p) : log'[j] = log[j]
      /\ log'[n].on = {Job(p)}
      /\ InstalledSteps(p)' = InstalledSteps(p) \cup IF result[p] = "installed" THEN {n} ELSE {}
      /\ RefusedSteps(p)' = RefusedSteps(p)
  BY StepAppended DEF Recorded
<1>4. Cardinality(StepEvents(p)') = Cardinality(StepEvents(p)) + 1 /\ Cardinality(StepEvents(p)) \in Nat
  BY <1>2, FS_AddElement, FS_CardinalityType
<1>5. /\ InstalledSteps(p) \subseteq StepEvents(p) /\ IsFiniteSet(InstalledSteps(p))
      /\ n \notin InstalledSteps(p)
  BY <1>2, FS_Subset DEF InstalledSteps, StepEvents
<1>7. Cardinality(InstalledSteps(p)') =
        Cardinality(InstalledSteps(p)) + IF result[p] = "installed" THEN 1 ELSE 0
  <2>1. CASE result[p] = "installed"
    BY <1>2, <1>5, <2>1, FS_AddElement
  <2>2. CASE result[p] # "installed"
    <3>1. Cardinality(InstalledSteps(p)) \in Nat
      BY <1>5, FS_CardinalityType
    <3> QED
      BY <1>2, <2>2, <3>1
  <2> QED
    BY <2>1, <2>2
<1>8. Len(todo'[p]) = Len(todo[p]) - 1 /\ Len(todo[p]) \in 1..3
  BY JobType DEF JobInv, Advance, TypeInv
<1>9. Cardinality(StepEvents(p)') + Len(todo'[p]) = Len(Jobs(req'[p]))
  BY <1>4, <1>8 DEF Tallied
<1>10. steps'[p] = Cardinality(InstalledSteps(p)')
  <2>1. steps'[p] = steps[p] + IF result[p] = "installed" THEN 1 ELSE 0
    BY DEF Advance, TypeInv
  <2> QED
    BY <1>7, <2>1 DEF Tallied
<1>11. Tallied(p)'
  BY <1>2, <1>9, <1>10 DEF Tallied
<1>12. Credit(p)' = Credit(p) \cup Claimed(p)
  <2>1. \A x : x \in Credit(p)' <=> \E j \in InstalledSteps(p)' : \E s \in log'[j].on : x \in SetupTargets(s)
    BY DEF Credit
  <2>2. \A x : x \in Credit(p) <=> \E j \in InstalledSteps(p) : \E s \in log[j].on : x \in SetupTargets(s)
    BY DEF Credit
  <2>3. \A j \in InstalledSteps(p) : log'[j].on = log[j].on
    BY <1>2, <1>5
  <2>4. CASE result[p] = "installed"
    <3>1. Claimed(p) = SetupTargets(Job(p)) /\ InstalledSteps(p)' = InstalledSteps(p) \cup {n}
      BY <1>2, <2>4 DEF Claimed
    <3>2. \A x : x \in Credit(p)' <=> x \in Credit(p) \/ x \in SetupTargets(Job(p))
      BY <1>2, <2>1, <2>2, <2>3, <3>1
    <3> QED
      BY <3>1, <3>2
  <2>5. CASE result[p] # "installed"
    <3>1. Claimed(p) = {} /\ InstalledSteps(p)' = InstalledSteps(p)
      BY <1>2, <2>5 DEF Claimed
    <3>2. \A x : x \in Credit(p)' <=> x \in Credit(p)
      BY <2>1, <2>2, <2>3, <3>1
    <3> QED
      BY <3>1, <3>2
  <2> QED
    BY <2>4, <2>5
<1> QED
  BY <1>11, <1>12

\* Of an init, what a step other than appendInitStepEvent does to its record.
LEMMA InitKeeps ==
  ASSUME TypeInv, NEW p \in Proc, JobInv(p), Step(p) \/ Kill(p), ~InitStep(p)
  PROVE  StepsKept(p) /\ todo' = todo /\ req' = req
<1>1. todo' = todo /\ req' = req
  <2>1. CASE DecideAny(p)
    BY <2>1, DecideShape DEF StillHere
  <2> QED
    BY <2>1 DEF Step, DecideAny, Begin, InitBegin, Read, Gate, Truncate, WriteFile, Remove,
                Breakdown, Exec, RecordEvent, Start, InitEnd, Kill, StillHere
<1>2. log' = log \/ \E e \in LogEntry : e.event # "init.step" /\ log' = Append(log, e)
  BY LogStep
<1>3. StepsKept(p)
  BY <1>2, StepsStay
<1> QED
  BY <1>1, <1>3

\* Within the setup a step keeps the count of its steps, or fails.
LEMMA InitMoves ==
  ASSUME TypeInv, NEW p \in Proc, JobInv(p), IsInit(p), Step(p) \/ Kill(p), ~InitStep(p)
  PROVE  /\ pc[p] \notin {"done", "killed"}
         /\ pc[p] = "end" => pc'[p] \in {"done", "killed"}
         /\ \/ steps'[p] = steps[p] /\ (pc'[p] = "end" => pc[p] = "start")
            \/ pc'[p] \in {"end", "done"} /\ result'[p] \in {"error", "io_error"}
<1>1. CASE DecideAny(p)
  BY <1>1, DecideShape DEF Decided, Conclude, Proceed, Fail, Break, Goto, TypeInv
<1>2. CASE Begin(p) \/ Gate(p) \/ Exec(p)
  BY <1>2, EnterType DEF Begin, Gate, Exec, Conclude, Proceed, Goto, TypeInv
<1>3. CASE Kill(p)
  BY <1>3 DEF Kill, Running, Goto, TypeInv
<1>4. CASE InitBegin(p)
  BY <1>4, EnterType DEF InitBegin, Goto, TypeInv
<1>5. CASE Read(p)
  BY <1>5 DEF Read, Fail, Break, Goto, TypeInv
<1>6. CASE Truncate(p) \/ WriteFile(p)
  BY <1>6 DEF Truncate, WriteFile, Proceed, Goto, TypeInv
<1>7. CASE Remove(p) \/ Breakdown(p)
  BY <1>7 DEF Remove, Breakdown, Proceed, Fail, Break, Goto, TypeInv
<1>8. CASE RecordEvent(p)
  BY <1>8 DEF RecordEvent, Conclude, Fail, Break, Goto, TypeInv
<1>9. CASE Start(p) \/ InitEnd(p)
  BY <1>9 DEF Start, InitEnd, Goto, TypeInv
<1> QED
  BY <1>1, <1>2, <1>3, <1>4, <1>5, <1>6, <1>7, <1>8, <1>9 DEF Step, DecideAny

\* A command that is about to end its setup, or has exited, does not go back.
LEMMA Leaving ==
  ASSUME TypeInv, NEW p \in Proc, JobInv(p), Step(p) \/ Kill(p), ~InitStep(p),
         pc[p] \in {"end", "done", "killed", "step"}
  PROVE  pc'[p] \in {"end", "done", "killed"} /\ (InitEnd(p) \/ Kill(p))
<1>1. ~DecideAny(p)
  BY DecideShape
<1>2. CASE InitEnd(p) \/ Kill(p)
  BY <1>2 DEF InitEnd, Kill, Goto, TypeInv
<1>3. ~(Begin(p) \/ InitBegin(p) \/ Read(p) \/ Gate(p) \/ Exec(p) \/ Truncate(p) \/ WriteFile(p)
        \/ Remove(p) \/ Breakdown(p) \/ RecordEvent(p) \/ Start(p))
  BY DEF Begin, InitBegin, Read, Gate, Exec, Truncate, WriteFile, Remove, Breakdown, RecordEvent,
         Start
<1> QED
  BY <1>1, <1>2, <1>3 DEF Step, DecideAny

\* The steps of a setup have files of their own, and an event on all of them.
LEMMA SetupEvent ==
  ASSUME NEW p, Job(p) \in SetupSteps
  PROVE  Event(p)[2] = "installed"
<1>1. CASE Job(p) = "hook"
  BY <1>1 DEF Event
<1>2. CASE Job(p) = "wrap"
  BY <1>2 DEF Event
<1>3. CASE Job(p) = "ide"
  BY <1>3 DEF Event
<1> QED
  BY <1>1, <1>2, <1>3 DEF SetupSteps

LEMMA SetupTargetsAre ==
  ASSUME NEW p, Job(p) \in SetupSteps
  PROVE  OnEvent(p) = SetupTargets(Job(p))
<1>1. Plan(p) = Reads(p)
  BY PlanIs DEF SetupSteps
<1>2. CASE Job(p) = "wrap"
  <2>1. Plan(p) = <<"wrap">>
    BY <1>1, <1>2, ReadsIs
  <2> QED
    BY <1>2, <2>1 DEF OnEvent, SetupTargets
<1>3. CASE Job(p) = "hook"
  <2>1. Plan(p) = <<"pre-commit">>
    BY <1>1, <1>3, ReadsIs
  <2> QED
    BY <1>3, <2>1 DEF OnEvent, SetupTargets
<1>4. CASE Job(p) = "ide"
  <2>1. Plan(p) = <<"tasks", "cursor">>
    BY <1>1, <1>4, ReadsIs
  <2>2. Len(Plan(p)) = 2 /\ Plan(p)[1] = "tasks" /\ Plan(p)[2] = "cursor"
    BY <2>1
  <2>3. \A i \in 1..2 : i = 1 \/ i = 2
    OBVIOUS
  <2>4. SetupTargets(Job(p)) = {"tasks", "cursor"}
    BY <1>4 DEF SetupTargets, Docs
  <2>5. 1 \in 1..2 /\ 2 \in 1..2
    OBVIOUS
  <2> QED
    BY <2>2, <2>3, <2>4, <2>5 DEF OnEvent
<1> QED
  BY <1>2, <1>3, <1>4 DEF SetupSteps

\* Only the event of a step claims what the step has changed, and a step without
\* approval is one whose prompt was not.
LEMMA InitClaims ==
  ASSUME TypeInv, NEW p \in Proc, JobInv(p), IsInit(p), Step(p) \/ Kill(p), ~InitStep(p),
         InitInv(p)
  PROVE  /\ pc'[p] = "step" /\ result'[p] = "needs_approval" => Job(p) \notin req[p].approves
         /\ pc'[p] \notin {"end", "done", "killed"} => Reported(p)' = Credit(p) \cup Claimed(p)'
         /\ pc[p] = "start" => Reported(p)' = Credit(p)
<1>1. pc[p] \in StepPC \cup {"step"} => Job(p) \in SetupSteps
  BY JobType DEF JobInv
<1>2. CASE RecordEvent(p)
  <2>1. pc[p] = "event" /\ Job(p) \in SetupSteps /\ todo' = todo
    BY <1>1, <1>2 DEF RecordEvent, StepPC
  <2>2. Event(p)[2] = "installed" /\ OnEvent(p) = SetupTargets(Job(p)) /\ Job(p)' = Job(p)
    BY <2>1, SetupEvent, SetupTargetsAre DEF Job
  <2>3. Reported(p) = Credit(p)
    BY <2>1 DEF InitInv, Claimed
  <2> DEFINE e == Entry(p, Event(p)[1], OnEvent(p), Event(p)[2])
  <2>4. CASE Recorded(e) /\ Conclude(p, Event(p)[2])
    <3>1. pc'[p] = "step" /\ result'[p] = "installed" /\ log' = Append(log, e)
      BY <2>2, <2>4 DEF Conclude, Goto, TypeInv, Recorded
    <3>2. e \in LogEntry /\ e.by = p /\ e.event \in Events /\ e.on = OnEvent(p)
      BY <2>1, EventType, EntryType DEF Entry
    <3> HIDE DEF e
    <3>3. Reported(p)' = Reported(p) \cup OnEvent(p)
      BY <3>1, <3>2, ReportedAppended DEF TypeInv
    <3> QED
      BY <2>1, <2>2, <2>3, <3>1, <3>3 DEF Claimed
  <2>5. CASE Fail(p)
    <3>1. pc'[p] = "end"
      BY <2>5 DEF Fail, Break, Goto, TypeInv
    <3> QED
      BY <2>1, <3>1
  <2> QED
    BY <1>2, <2>4, <2>5 DEF RecordEvent
<1>3. CASE ~RecordEvent(p)
  <2>1. Reported(p)' = Reported(p)
    BY <1>3, LogStep, QuietReported
  <2>2. /\ pc'[p] = "step" /\ result'[p] = "needs_approval" => Job(p) \notin req[p].approves
        /\ pc'[p] = "step" => result'[p] # "installed"
    <3>1. CASE DecideAny(p)
      <4>1. pc[p] = "decide" /\ Decided(p)
        BY <3>1, DecideShape
      <4>2. Job(p) \in SetupSteps
        BY <1>1, <4>1 DEF StepPC
      <4>3. Job(p) \notin {"hook.status", "hook.repair", "wrap.run"} /\ Job(p) \notin RemoveJob
        BY <4>2 DEF SetupSteps, RemoveJob
      <4>4. \/ \E r \in {"up_to_date", "skipped_existing"} : Conclude(p, r)
            \/ Proceed(p, "gate") \/ Fail(p)
        BY <4>1, <4>3 DEF Decided
      <4> QED
        BY <4>4 DEF Conclude, Proceed, Fail, Break, Goto, TypeInv
    <3>2. CASE Gate(p)
      BY <3>2 DEF Gate, Conclude, Proceed, Goto, TypeInv
    <3>3. CASE Begin(p) \/ InitBegin(p) \/ Start(p) \/ InitEnd(p) \/ Kill(p) \/ Read(p) \/ Exec(p)
               \/ Truncate(p) \/ WriteFile(p) \/ Remove(p) \/ Breakdown(p)
      <4>1. pc'[p] # "step"
        BY <3>3, EnterType
           DEF Begin, InitBegin, Start, InitEnd, Kill, Read, Exec, Truncate, WriteFile, Remove,
               Breakdown, Proceed, Fail, Break, Goto, TypeInv
      <4> QED
        BY <4>1
    <3> QED
      BY <1>3, <3>1, <3>2, <3>3 DEF Step, DecideAny
  <2>3. pc[p] \in {"end", "done", "killed", "step"} => pc'[p] \in {"end", "done", "killed"}
    BY Leaving
  <2>4. pc[p] \notin {"end", "done", "killed", "step"} => Reported(p) = Credit(p)
    BY DEF InitInv, Claimed
  <2>5. Claimed(p)' = {}
    BY <2>2 DEF Claimed
  <2> QED
    BY <2>1, <2>2, <2>3, <2>4, <2>5
<1> QED
  BY <1>2, <1>3

\* Every step of an init keeps its tally.
LEMMA InitStepInv ==
  ASSUME TypeInv, NEW p \in Proc, JobInv(p), Step(p) \/ Kill(p), InitInv(p)
  PROVE  InitInv(p)'
<1>1. SUFFICES ASSUME IsInit(p)' PROVE InitInv(p)'
  BY DEF InitInv
<1>2. req' = req /\ IsInit(p)
  BY <1>1, OwnStep DEF Apart, IsInit
<1>3. CASE ~InitStep(p)
  <2>1. StepsKept(p) /\ todo' = todo /\ Credit(p)' = Credit(p) /\ Job(p)' = Job(p)
    BY <1>3, InitKeeps, CreditKept DEF Job
  <2>2. ASSUME pc'[p] \notin {"end", "done", "killed"} PROVE Tallied(p)'
    <3>1. pc[p] \notin {"end", "done", "killed"} /\ steps'[p] = steps[p]
      BY <1>2, <1>3, <2>2, InitMoves
    <3> QED
      BY <1>2, <2>1, <3>1, TallyKept DEF InitInv
  <2>3. ASSUME pc'[p] = "end", result'[p] \notin {"error", "io_error"}
        PROVE  todo'[p] = <<>> /\ Tallied(p)' /\ Reported(p)' = Credit(p)'
    <3>1. pc[p] = "start" /\ steps'[p] = steps[p]
      BY <1>2, <1>3, <2>3, InitMoves
    <3>2. Reported(p)' = Credit(p)
      BY <1>2, <1>3, <3>1, InitClaims
    <3> QED
      BY <1>2, <2>1, <3>1, <3>2, TallyKept DEF InitInv, JobInv
  <2>4. /\ pc'[p] = "step" /\ result'[p] = "needs_approval" => Job(p) \notin req[p].approves
        /\ pc'[p] \notin {"end", "done", "killed"} => Reported(p)' = Credit(p) \cup Claimed(p)'
    BY <1>2, <1>3, InitClaims
  <2> QED
    BY <1>2, <2>1, <2>2, <2>3, <2>4 DEF InitInv, Tallied
<1>4. CASE InitStep(p)
  <2> DEFINE e == Entry(p, "init.step", {Job(p)}, result[p])
  <2>1. pc[p] = "step" /\ Tallied(p) /\ todo[p] # <<>> /\ Reported(p) = Credit(p) \cup Claimed(p)
    BY <1>2, <1>4, InitStepShape DEF InitInv, JobInv
  <2>2. CASE Recorded(e) /\ result[p] = "needs_approval" /\ Proceed(p, "end") /\ UNCHANGED <<todo, saw>>
    <3> PICK n : n = Len(log) + 1
      OBVIOUS
    <3>1. /\ pc'[p] = "end" /\ result'[p] = "needs_approval" /\ todo'[p] # <<>>
          /\ steps'[p] = steps[p] /\ Job(p) \notin req[p].approves
      BY <1>2, <2>1, <2>2 DEF Proceed, Goto, TypeInv, InitInv
    <3>2. /\ StepEvents(p)' = StepEvents(p) \cup {n} /\ n \in Nat
          /\ \A j \in StepEvents(p) : j \in Nat /\ j < n
          /\ \A j \in StepEvents(p) : log'[j] = log[j]
          /\ log'[n].on = {Job(p)}
          /\ InstalledSteps(p)' = InstalledSteps(p)
          /\ RefusedSteps(p)' = RefusedSteps(p) \cup {n}
          /\ Reported(p)' = Reported(p)
      BY <2>1, <2>2, StepAppended DEF Recorded
    <3>3. RefusedSteps(p)' = {n}
      BY <2>1, <3>2 DEF Tallied
    <3>4. Stopped(p)'
      <4>1. log'[n].on \cap req'[p].approves = {}
        BY <1>2, <3>1, <3>2
      <4>2. \A k \in StepEvents(p)' : k = n \/ (k < n /\ k \notin RefusedSteps(p)')
        BY <3>2, <3>3
      <4> QED
        BY <3>3, <4>1, <4>2 DEF Stopped
    <3>5. Credit(p)' = Credit(p) /\ Reported(p)' = Credit(p)
      <4>1. InstalledSteps(p) \subseteq StepEvents(p)
        BY DEF InstalledSteps, StepEvents
      <4>2. \A j \in InstalledSteps(p) : log'[j].on = log[j].on
        BY <3>2, <4>1
      <4>3. Credit(p)' = Credit(p)
        BY <3>2, <4>2 DEF Credit
      <4> QED
        BY <2>1, <2>2, <3>2, <4>3 DEF Claimed
    <3>6. steps'[p] = Cardinality(InstalledSteps(p)')
      BY <2>1, <3>1, <3>2 DEF Tallied
    <3> QED
      BY <3>1, <3>4, <3>5, <3>6 DEF InitInv
  <2>3. CASE Recorded(e) /\ result[p] # "needs_approval" /\ Advance(p)
    <3>1. Tallied(p)' /\ Credit(p)' = Credit(p) \cup Claimed(p)
      BY <1>2, <2>1, <2>3, TallyAdvanced
    <3>2. pc'[p] \in {"start", "decide", "read"}
      BY <2>3, EnterType DEF Advance, Goto, TypeInv
    <3>3. Reported(p)' = Reported(p)
      BY <2>1, <2>3, StepAppended DEF Recorded
    <3>4. Claimed(p)' = {}
      BY <3>2 DEF Claimed
    <3> QED
      BY <2>1, <3>1, <3>2, <3>3, <3>4 DEF InitInv
  <2>4. CASE Refused(e) /\ Fail(p) /\ UNCHANGED <<todo, saw>>
    <3>1. pc'[p] = "end" /\ result'[p] = "error"
      BY <1>2, <2>4 DEF Fail, Break, Goto, TypeInv
    <3> QED
      BY <3>1 DEF InitInv
  <2> QED
    BY <1>4, <2>2, <2>3, <2>4, InitStepShape
<1> QED
  BY <1>3, <1>4

\* A command that broke down has left its setup and goes no further.
LEMMA BrokenStep ==
  ASSUME TypeInv, NEW p \in Proc, JobInv(p), Step(p) \/ Kill(p), BrokenInv(p)
  PROVE  BrokenInv(p)'
<1>1. CASE InitStep(p)
  <2>1. pc[p] = "step"
    BY <1>1 DEF InitStep
  <2>2. result'[p] = result[p] \/ result'[p] = "error"
    BY <1>1, InitStepShape DEF Proceed, Advance, Fail, Break, TypeInv
  <2> QED
    BY <2>1, <2>2 DEF BrokenInv
<1>2. CASE ~InitStep(p) /\ pc[p] \in {"end", "done", "killed", "step"}
  BY <1>2, Leaving DEF BrokenInv
<1>3. CASE ~InitStep(p) /\ pc[p] \notin {"end", "done", "killed", "step"}
  <2>1. result[p] # "io_error"
    BY <1>3 DEF BrokenInv
  <2>2. CASE Breakdown(p)
    BY <2>2 DEF Breakdown, Break, Goto, TypeInv, BrokenInv
  <2>3. CASE RecordEvent(p)
    <3>1. Event(p)[2] # "io_error"
      <4>1. Job(p) = "wrap.run" => result[p] # "io_error"
        BY <2>1
      <4>2. Job(p) \in AnyJob
        BY <2>3, JobType DEF RecordEvent, JobInv, StepPC
      <4> QED
        BY <4>1, <4>2, AnyJobIs DEF Event
    <3> QED
      BY <2>3, <3>1 DEF RecordEvent, Conclude, Fail, Break, BrokenInv, TypeInv
  <2>4. CASE DecideAny(p)
    BY <2>1, <2>4, DecideShape
       DEF Decided, Refusal, Conclude, Proceed, Fail, Break, BrokenInv, TypeInv
  <2>5. CASE ~(Breakdown(p) \/ RecordEvent(p) \/ DecideAny(p))
    <3>1. result'[p] # "io_error"
      BY <1>3, <2>1, <2>5
         DEF Step, DecideAny, Begin, InitBegin, Read, Gate, Truncate, WriteFile, Remove, Exec, Start,
             InitEnd, Kill, StillHere, Conclude, Proceed, Fail, Break, TypeInv
    <3> QED
      BY <3>1 DEF BrokenInv
  <2> QED
    BY <2>2, <2>3, <2>4, <2>5
<1> QED
  BY <1>1, <1>2, <1>3

\* init.end tells how the setup went.
LEMMA DoneStep ==
  ASSUME TypeInv, NEW p \in Proc, JobInv(p), Step(p) \/ Kill(p), ReportInv(p), InitInv(p), DoneInv(p)
  PROVE  DoneInv(p)'
<1>1. SUFFICES ASSUME pc'[p] = "done", IsInit(p)', result'[p] # "needs_input", ~frozen'
               PROVE  EndTraced(p)'
  BY DEF DoneInv
<1>2. req' = req /\ IsInit(p) /\ ~frozen
  BY <1>1, OwnStep, LogStep DEF Apart, IsInit
<1>3. pc[p] # "done"
  <2>1. CASE InitStep(p)
    BY <2>1 DEF InitStep
  <2>2. CASE ~InitStep(p)
    BY <1>2, <2>2, InitMoves
  <2> QED
    BY <2>1, <2>2
<1>4. InitEnd(p)
  <2>1. ~DecideAny(p)
    BY <1>1, <1>2, DecideShape DEF Decided, Conclude, Proceed, Fail, Break, Goto, TypeInv
  <2>2. ~(Begin(p) \/ Gate(p) \/ Exec(p) \/ Kill(p) \/ Read(p) \/ Truncate(p) \/ WriteFile(p)
          \/ Remove(p) \/ Breakdown(p) \/ RecordEvent(p) \/ Start(p))
    BY <1>1, <1>2, EnterType
       DEF Begin, Gate, Exec, Kill, Read, Truncate, WriteFile, Remove, Breakdown, RecordEvent, Start,
           Conclude, Proceed, Fail, Break, Goto, TypeInv
  <2>3. ~InitBegin(p)
    BY <1>1, <1>2, EnterType DEF InitBegin, Goto, Refused, TypeInv
  <2>4. ~InitStep(p)
    <3>1. Proceed(p, "end") \/ Advance(p) \/ Fail(p) => pc'[p] # "done"
      BY <1>2, EnterType DEF Proceed, Advance, Fail, Break, Goto, TypeInv
    <3> QED
      BY <1>1, <3>1, InitStepShape
  <2> QED
    BY <2>1, <2>2, <2>3, <2>4 DEF Step, DecideAny
<1> DEFINE e == Entry(p, "init.end", {}, EndStatus(p))
           n == Len(log) + 1
<1>5. /\ pc[p] = "end" /\ changed' = changed /\ StepsKept(p)
      /\ e \in LogEntry /\ log' = Append(log, e)
      /\ e.by = p /\ e.event = "init.end" /\ e.status = EndStatus(p) /\ e.count = steps[p]
  <2>1. e \in LogEntry
    BY InitEntries
  <2>2. StepsKept(p)
    BY <1>4, InitKeeps DEF InitStep, InitEnd
  <2> QED
    BY <1>1, <1>4, <2>1, <2>2 DEF InitEnd, Recorded, Refused, Entry
<1> HIDE DEF e
<1>6. n \in EventsOf(p, {"init.end"})' /\ log'[n] = e
  <2>1. e.by = p /\ e.event \in {"init.end"} /\ log \in Seq(LogEntry)
    BY <1>5 DEF TypeInv
  <2> QED
    BY <1>5, <2>1, EventsAppended, Appended
<1>7. ASSUME EndStatus(p) = "needs_approval"
      PROVE  Stopped(p)'
  <2>1. todo[p] # <<>> /\ result[p] \notin {"ok", "error", "io_error"}
    BY <1>7 DEF EndStatus
  <2>2. Stopped(p)
    BY <1>2, <1>5, <2>1 DEF InitInv
  <2> QED
    BY <1>2, <1>5, <2>2, CreditKept
<1>8. ASSUME EndStatus(p) \in {"ok", "non_ok"}
      PROVE  Cardinality(StepEvents(p)') = Len(Jobs(req'[p])) /\ RefusedSteps(p)' = {}
  <2>1. result[p] \notin {"error", "io_error"} /\ (result[p] = "ok" \/ todo[p] = <<>>)
    BY <1>8 DEF EndStatus
  <2>2. todo[p] = <<>> /\ Tallied(p)
    BY <1>2, <1>5, <2>1 DEF InitInv
  <2>3. Cardinality(StepEvents(p)) = Len(Jobs(req[p]))
    <3>1. Len(todo[p]) = 0 /\ Cardinality(StepEvents(p)) \in Nat
      BY <2>2, EmptySeq, EventsFinite, FS_CardinalityType DEF TypeInv, StepEvents
    <3> QED
      BY <2>2, <3>1 DEF Tallied
  <2> QED
    BY <1>2, <1>5, <2>2, <2>3 DEF Tallied, StepsKept
<1>9. ASSUME EndStatus(p) # "error"
      PROVE  steps[p] = Cardinality(InstalledSteps(p)') /\ changed'[p] = Credit(p)'
  <2>1. result[p] \notin {"error", "io_error"}
    BY <1>9 DEF EndStatus
  <2>2. steps[p] = Cardinality(InstalledSteps(p)) /\ Reported(p) = Credit(p)
    BY <1>2, <1>5, <2>1 DEF InitInv
  <2>3. changed[p] = Reported(p)
    BY <1>5, <2>1 DEF ReportInv, Exempt, Partial
  <2> QED
    BY <1>5, <2>2, <2>3, CreditKept DEF StepsKept
<1> QED
  BY <1>5, <1>6, <1>7, <1>8, <1>9 DEF EndTraced

-----------------------------------------------------------------------------
(* What the commands record, however they interleave *)

Traced(p) == ReportInv(p) /\ BrokenInv(p) /\ InitInv(p) /\ DoneInv(p)
TracedInv == \A p \in Proc : Traced(p)

\* What the record says of a command that does not move stays true.
LEMMA TracedKept ==
  ASSUME NEW q, pc'[q] = pc[q], req' = req, todo'[q] = todo[q], at'[q] = at[q],
         saw'[q] = saw[q], result'[q] = result[q], steps'[q] = steps[q], changed'[q] = changed[q],
         RecordKept(q), frozen => frozen', Traced(q)
  PROVE  Traced(q)'
<1>1. /\ IsInit(q)' = IsInit(q) /\ Plan(q)' = Plan(q) /\ OnEvent(q)' = OnEvent(q)
      /\ Job(q)' = Job(q)
  BY PlanKept
<1>2. Partial(q)' = Partial(q) /\ Halted(q)' = Halted(q) /\ Claimed(q)' = Claimed(q)
  BY <1>1 DEF Partial, Halted, Claimed
<1>3. ReportInv(q)'
  <2>1. Exempt(q) => Exempt(q)'
    BY DEF Exempt
  <2>2. PartOf(q) => PartOf(q)'
    BY <1>2 DEF PartOf, RecordKept
  <2> QED
    BY <1>2, <2>1, <2>2 DEF Traced, ReportInv, RecordKept
<1>4. /\ StepsKept(q) /\ (Tallied(q) => Tallied(q)')
      /\ Credit(q)' = Credit(q) /\ (Stopped(q) => Stopped(q)')
  <2>1. StepsKept(q)
    BY DEF RecordKept, StepsKept
  <2> QED
    BY <2>1, TallyKept, CreditKept
<1>5. InitInv(q)'
  BY <1>1, <1>2, <1>4 DEF Traced, InitInv, RecordKept
<1>6. DoneInv(q)'
  <2>1. EndTraced(q) => EndTraced(q)'
    BY <1>4 DEF EndTraced, RecordKept
  <2> QED
    BY <1>1, <2>1 DEF Traced, DoneInv
<1>7. BrokenInv(q)'
  BY DEF Traced, BrokenInv
<1> QED
  BY <1>3, <1>5, <1>6, <1>7 DEF Traced

LEMMA TracedInit ==
  ASSUME Init
  PROVE  TracedInv
<1>1. ASSUME NEW p \in Proc, NEW E PROVE EventsOf(p, E) = {}
  <2>1. Len(log) = 0
    BY EmptySeq DEF Init
  <2> QED
    BY <2>1 DEF EventsOf
<1>2. ASSUME NEW p \in Proc PROVE Traced(p)
  <2>1. /\ pc[p] = "idle" /\ steps[p] = 0 /\ changed[p] = {} /\ todo[p] = Jobs(req[p])
        /\ result[p] = "none"
    BY <1>2 DEF Init
  <2>2. Reported(p) = {}
    BY <1>1, <1>2 DEF Reported
  <2>3. /\ StepEvents(p) = {} /\ InstalledSteps(p) = {} /\ RefusedSteps(p) = {}
        /\ Credit(p) = {} /\ Claimed(p) = {}
    BY <1>1, <1>2, <2>1 DEF StepEvents, InstalledSteps, RefusedSteps, Credit, Claimed
  <2>4. Len(Jobs(req[p])) \in Nat
    <3>1. req[p] \in Request
      BY InstallersAssumption DEF Init
    <3> QED
      BY <3>1, JobsOf, LenProperties
  <2>5. Tallied(p)
    BY <2>1, <2>3, <2>4, FS_EmptySet DEF Tallied
  <2>6. ReportInv(p)
    BY <2>1, <2>2 DEF ReportInv, Partial
  <2>7. InitInv(p)
    BY <2>1, <2>2, <2>3, <2>5 DEF InitInv
  <2>8. DoneInv(p) /\ BrokenInv(p)
    BY <2>1 DEF DoneInv, BrokenInv
  <2> QED
    BY <2>6, <2>7, <2>8 DEF Traced
<1> QED
  BY <1>2 DEF TracedInv

\* The record of the command that moves grows with what it does, and those of
\* the others stay.
LEMMA TracedNext ==
  ASSUME CoreInv, TracedInv, [Next]_vars
  PROVE  TracedInv'
<1>1. TypeInv /\ \A p \in Proc : JobInv(p) /\ DecidedInv(p)
  BY DEF CoreInv
<1>2. \A p \in Proc : Traced(p)
  BY DEF TracedInv
<1>3. ASSUME NEW p \in Proc, Step(p) \/ Kill(p) PROVE TracedInv'
  <2>1. Apart(p) /\ (frozen => frozen')
    BY <1>1, <1>3, OwnStep, LogStep
  <2>2. ASSUME NEW q \in Proc, q # p PROVE Traced(q)'
    <3>1. log' = log \/ \E e \in LogEntry : e.by # q /\ log' = Append(log, e)
      BY <1>1, <1>3, <2>2, LogStep
    <3>2. RecordKept(q)
      BY <1>1, <3>1, OthersRecord DEF TypeInv
    <3> QED
      BY <1>2, <2>1, <2>2, <3>2, TracedKept DEF Apart
  <2>3. Traced(p)'
    BY <1>1, <1>2, <1>3, ReportStep, BrokenStep, InitStepInv, DoneStep DEF Traced
  <2> QED
    BY <2>2, <2>3 DEF TracedInv
<1>4. ASSUME UNCHANGED <<log, frozen, pc, req, todo, at, saw, result, steps, changed>>
      PROVE  TracedInv'
  <2>1. ASSUME NEW q \in Proc PROVE Traced(q)'
    <3>1. RecordKept(q)
      BY <1>4, OthersRecord
    <3> QED
      BY <1>2, <1>4, <3>1, TracedKept
  <2> QED
    BY <2>1 DEF TracedInv
<1>5. ASSUME NEW t \in Editable, NEW c \in UserContent(t), Edit(t, c) PROVE TracedInv'
  BY <1>4, <1>5 DEF Edit, auditVars
<1>6. CASE UNCHANGED vars
  BY <1>4, <1>6 DEF vars
<1> QED
  BY <1>3, <1>5, <1>6, NextCases

LEMMA TracedImplies ==
  ASSUME CoreInv, TracedInv
  PROVE  ChangesReported /\ InitTraced
<1>1. ASSUME NEW p \in Proc, pc[p] = "done"
      PROVE  /\ \/ result[p] = "io_error"
                \/ result[p] = "error" /\ frozen
                \/ changed[p] = Reported(p)
             /\ PartOf(p)
  <2>1. changed[p] = Reported(p) \/ (Exempt(p) /\ PartOf(p))
    <3>1. Partial(p) = {}
      BY <1>1 DEF Partial
    <3>2. ReportInv(p)
      BY DEF TracedInv, Traced
    <3> QED
      BY <1>1, <3>1, <3>2 DEF ReportInv
  <2>2. ASSUME changed[p] = Reported(p) PROVE PartOf(p)
    <3>1. 0 \in 0..Len(Halted(p))
      BY HaltedIs DEF CoreInv
    <3>2. {Halted(p)[i] : i \in 1..0} = {}
      OBVIOUS
    <3> QED
      BY <2>2, <3>1, <3>2 DEF PartOf
  <2> QED
    BY <2>1, <2>2 DEF Exempt
<1>2. ChangesReported
  BY <1>1 DEF ChangesReported, PartOf
<1>3. ASSUME NEW p \in Proc, pc[p] = "done", IsInit(p), result[p] # "needs_input", ~frozen
      PROVE  EndTraced(p)
  BY <1>3 DEF TracedInv, Traced, DoneInv
<1>4. InitTraced
  BY <1>3 DEF InitTraced, EndTraced, Stopped, Credit, StepEvents
<1> QED
  BY <1>2, <1>4

LEMMA TracedAlways == Spec => [](CoreInv /\ TracedInv)
<1>1. Init => CoreInv /\ TracedInv
  BY CoreInit, TracedInit
<1>2. CoreInv /\ TracedInv /\ [Next]_vars => (CoreInv /\ TracedInv)'
  BY CoreNext, TracedNext
<1> QED
  BY <1>1, <1>2, PTL DEF Spec

\* What a command has changed is what its events say, however commands, edits
\* and kills interleave, unless the stream broke or a file could not be written;
\* what is then missing are the first files of the step it ended in.
THEOREM ChangesAreReported == Spec => []ChangesReported
BY TracedAlways, TracedImplies, PTL

\* Every init that got past its first event on a stream that verifies ends with
\* one that tells how far its setup went: through all its steps, or up to the
\* first whose prompt was not answered with a yes, the earlier ones staying.
THEOREM InitIsTraced == Spec => []InitTraced
BY TracedAlways, TracedImplies, PTL

-----------------------------------------------------------------------------
(* What is left alone by most steps *)

\* Only three actions write, and no command makes a file the user's.
LEMMA FileStep ==
  ASSUME TypeInv, NEW p \in Proc, JobInv(p), Step(p) \/ Kill(p)
  PROVE  /\ mine' = mine
         /\ ~(Truncate(p) \/ WriteFile(p) \/ Remove(p)) => UNCHANGED <<file, changed, edited>>
<1>1. CASE DecideAny(p)
  BY <1>1, DecideShape DEF StillHere, userVars
<1>2. CASE InitStep(p)
  BY <1>2, InitStepShape
<1>3. CASE Begin(p) \/ InitBegin(p) \/ Read(p) \/ Gate(p) \/ Breakdown(p) \/ Exec(p)
           \/ RecordEvent(p) \/ Start(p) \/ InitEnd(p) \/ Kill(p)
  BY <1>3 DEF Begin, InitBegin, Read, Gate, Breakdown, Exec, RecordEvent, Start, InitEnd, Kill,
              StillHere, userVars
<1>4. CASE Truncate(p) \/ WriteFile(p) \/ Remove(p)
  BY <1>4 DEF Truncate, WriteFile, Remove, userVars
<1> QED
  BY <1>1, <1>2, <1>3, <1>4 DEF Step, DecideAny

\* The events about a file are as they were.
NamingKept(t) == Naming(t)' = Naming(t) /\ \A i \in Naming(t) : log'[i] = log[i]

LEMMA QuietNaming ==
  ASSUME TypeInv, log' = log \/ \E e \in LogEntry : e.event \notin Events /\ log' = Append(log, e),
         NEW t
  PROVE  NamingKept(t)
<1>1. CASE log' = log
  BY <1>1 DEF Naming, NamingKept
<1>2. CASE \E e \in LogEntry : e.event \notin Events /\ log' = Append(log, e)
  <2>1. PICK e \in LogEntry : e.event \notin Events /\ log' = Append(log, e)
    BY <1>2
  <2>2. /\ Len(log) \in Nat /\ Len(log') = Len(log) + 1
        /\ \A i \in 1..Len(log) : log'[i] = log[i]
        /\ log'[Len(log) + 1] = e
    BY <2>1, Appended DEF TypeInv
  <2>3. 1..Len(log') = 1..Len(log) \cup {Len(log) + 1}
    BY <2>2
  <2> QED
    BY <2>1, <2>2, <2>3 DEF Naming, NamingKept
<1> QED
  BY <1>1, <1>2

-----------------------------------------------------------------------------
(* What a step is about to change has not been reported yet *)

LEMMA TargetsApart ==
  ASSUME NEW i \in SetupSteps, NEW j \in SetupSteps, i # j
  PROVE  SetupTargets(i) \cap SetupTargets(j) = {}
BY DEF SetupSteps, SetupTargets, Docs

LEMMA Unreported ==
  ASSUME TypeInv, NEW p \in Proc, JobInv(p), NewInv(p), pc[p] \in StepPC
  PROVE  \A i \in 1..Len(Plan(p)) : Plan(p)[i] \notin Reported(p)
<1>1. pc[p] \notin {"end", "done", "killed", "step"} /\ todo[p] # <<>>
  BY DEF StepPC, JobInv
<1>2. CASE ~IsInit(p)
  BY <1>1, <1>2 DEF NewInv
<1>3. CASE IsInit(p)
  <2>1. Job(p) \in SetupSteps /\ Len(todo[p]) \in 1..3
    BY <1>1, <1>3, JobType
  <2>2. Job(p) = todo[p][1]
    BY <2>1, HeadTailProperties DEF Job, TypeInv
  <2>3. SetupTargets(Job(p)) \cap Reported(p) = {}
    BY <1>1, <1>3, <2>1, <2>2 DEF NewInv
  <2>4. OnEvent(p) = SetupTargets(Job(p))
    BY <2>1, SetupTargetsAre
  <2> QED
    BY <2>3, <2>4 DEF OnEvent
<1> QED
  BY <1>2, <1>3

LEMMA NewKept ==
  ASSUME NEW q, pc'[q] = pc[q], req' = req, todo'[q] = todo[q], Reported(q)' = Reported(q), NewInv(q)
  PROVE  NewInv(q)'
BY DEF NewInv, IsInit

LEMMA NewStep ==
  ASSUME TypeInv, NEW p \in Proc, JobInv(p), NewInv(p), Step(p) \/ Kill(p)
  PROVE  NewInv(p)'
<1>1. req' = req
  BY OwnStep DEF Apart
<1>2. CASE RecordEvent(p)
  <2>1. /\ pc[p] = "event" /\ todo' = todo /\ pc'[p] \in {"end", "done", "step"}
        /\ pc'[p] = "step" => IsInit(p) /\ Recorded(Entry(p, Event(p)[1], OnEvent(p), Event(p)[2]))
    BY <1>2 DEF RecordEvent, Conclude, Fail, Break, Goto, TypeInv
  <2>2. SUFFICES ASSUME pc'[p] = "step" PROVE NewInv(p)'
    BY <2>1 DEF NewInv
  <2>3. IsInit(p) /\ Job(p) \in SetupSteps /\ Len(todo[p]) \in 1..3 /\ Job(p) = todo[p][1]
    <3>1. todo[p] # <<>>
      BY <2>1 DEF JobInv, StepPC
    <3>2. IsInit(p) /\ Job(p) \in SetupSteps /\ Len(todo[p]) \in 1..3
      BY <2>1, <2>2, <3>1, JobType
    <3> QED
      BY <3>2, HeadTailProperties DEF Job, TypeInv
  <2>4. Reported(p)' = Reported(p) \cup OnEvent(p)
    <3> DEFINE e == Entry(p, Event(p)[1], OnEvent(p), Event(p)[2])
    <3>1. e \in LogEntry /\ e.by = p /\ e.event \in Events /\ e.on = OnEvent(p)
      BY <2>1, EventType, EntryType DEF Entry
    <3>2. log' = Append(log, e) /\ log \in Seq(LogEntry)
      BY <2>1, <2>2 DEF Recorded, TypeInv
    <3> HIDE DEF e
    <3> QED
      BY <3>1, <3>2, ReportedAppended
  <2>5. ASSUME NEW i \in 1..Len(todo[p]), i > 1
        PROVE  SetupTargets(todo[p][i]) \cap Reported(p)' = {}
    <3>1. todo[p][i] \in SetupSteps /\ todo[p][i] # Job(p)
      BY <2>3, <2>5 DEF JobInv
    <3>2. SetupTargets(todo[p][i]) \cap SetupTargets(Job(p)) = {}
      BY <2>3, <3>1, TargetsApart
    <3>3. SetupTargets(todo[p][i]) \cap Reported(p) = {}
      BY <2>1, <2>3 DEF NewInv
    <3> QED
      BY <2>3, <2>4, <3>2, <3>3, SetupTargetsAre
  <2> QED
    BY <1>1, <2>1, <2>2, <2>3, <2>5 DEF NewInv, IsInit
<1>3. CASE ~RecordEvent(p)
  <2>1. Reported(p)' = Reported(p)
    BY <1>3, LogStep, QuietReported
  <2>2. CASE InitStep(p)
    <3>1. SUFFICES ASSUME Advance(p) PROVE NewInv(p)'
      <4>1. Proceed(p, "end") \/ Fail(p) => pc'[p] \in {"end", "done"}
        BY DEF Proceed, Fail, Break, Goto, TypeInv
      <4> QED
        BY <2>2, <4>1, InitStepShape DEF NewInv
    <3>2. pc[p] = "step" /\ IsInit(p) /\ todo[p] # <<>>
      BY <2>2 DEF InitStep, JobInv
    <3>3. /\ Len(todo'[p]) = Len(todo[p]) - 1 /\ Len(todo[p]) \in 1..3
          /\ \A i \in 1..Len(todo'[p]) : todo'[p][i] = todo[p][i + 1]
      BY <3>1, <3>2, JobType DEF Advance, TypeInv
    <3>4. \A i \in 1..Len(todo'[p]) : i + 1 \in 1..Len(todo[p]) /\ i + 1 > 1
      BY <3>3
    <3>5. \A i \in 1..Len(todo[p]) : i > 1 => SetupTargets(todo[p][i]) \cap Reported(p) = {}
      BY <3>2 DEF NewInv
    <3>6. \A i \in 1..Len(todo'[p]) : SetupTargets(todo'[p][i]) \cap Reported(p) = {}
      BY <3>3, <3>4, <3>5
    <3> QED
      BY <1>1, <2>1, <3>2, <3>6 DEF NewInv, IsInit
  <2>3. CASE ~InitStep(p)
    <3>1. todo' = todo
      BY <2>3, InitKeeps
    <3>2. pc[p] \in {"end", "done", "killed", "step"} => pc'[p] \in {"end", "done", "killed"}
      BY <2>3, Leaving
    <3> QED
      BY <1>1, <2>1, <3>1, <3>2 DEF NewInv, IsInit
  <2> QED
    BY <2>2, <2>3
<1> QED
  BY <1>2, <1>3

-----------------------------------------------------------------------------
(* One command at a time: what it read is what is there *)

\* What is read is current, and what was read before is.
LEMMA FreshRead ==
  ASSUME TypeInv, NEW p \in Proc, JobInv(p), FreshInv(p), Read(p)
  PROVE  FreshInv(p)'
<1> DEFINE t == Reads(p)[at[p]]
<1>1. /\ pc[p] = "read" /\ req' = req /\ todo' = todo /\ file' = file
      /\ at[p] \in 1..Len(Reads(p)) /\ todo[p] # <<>> /\ at[p] \in Nat
  BY DEF Read, JobInv, StepPC, TypeInv
<1>2. Job(p) \in AnyJob /\ req[p].hook \in Hooks
  BY <1>1, JobType, RequestType
<1>3. /\ Reads(p)' = Reads(p) /\ Job(p)' = Job(p)
      /\ \A i \in 1..Len(Reads(p)) : Reads(p)[i] \in Targets
      /\ \A i, j \in 1..Len(Reads(p)) : Reads(p)[i] = Reads(p)[j] => i = j
      /\ Len(Reads(p)) \in 0..2
  BY <1>1, <1>2, PlanKept, ReadsType
<1>4. saw'[p] = [saw[p] EXCEPT ![t] = file[t]]
  BY DEF Read, TypeInv
<1>5. ASSUME NEW i \in 1..Len(Reads(p)), i <= at[p] PROVE Current(p, Reads(p)[i])'
  <2>1. saw[p] \in [Targets -> Content] /\ Reads(p)[i] \in Targets /\ t \in Targets
    BY <1>1, <1>3 DEF TypeInv
  <2>2. CASE i = at[p]
    BY <1>1, <1>3, <1>4, <2>1, <2>2 DEF Current
  <2>3. CASE i # at[p]
    <3>1. i < at[p] /\ Reads(p)[i] # t
      BY <1>1, <1>3, <1>5, <2>3
    <3>2. Current(p, Reads(p)[i])
      BY <1>1, <3>1 DEF FreshInv
    <3> QED
      BY <1>1, <1>3, <1>4, <2>1, <3>1, <3>2 DEF Current
  <2> QED
    BY <2>2, <2>3
<1>6. \/ pc'[p] \in {"end", "done"}
      \/ pc'[p] = "read" /\ at'[p] = at[p] + 1
      \/ pc'[p] = "decide" /\ at[p] = Len(Reads(p))
  BY DEF Read, Fail, Break, Goto, TypeInv
<1>7. CASE pc'[p] \in {"end", "done"}
  BY <1>7 DEF FreshInv
<1>8. CASE pc'[p] = "read" /\ at'[p] = at[p] + 1
  <2>1. \A i \in 1..Len(Reads(p)) : i < at'[p] => i <= at[p]
    BY <1>1, <1>8
  <2> QED
    BY <1>3, <1>5, <1>8, <2>1 DEF FreshInv
<1>9. CASE pc'[p] = "decide" /\ at[p] = Len(Reads(p))
  <2>1. \A i \in 1..Len(Reads(p)) : i <= at[p]
    BY <1>9
  <2> QED
    BY <1>3, <1>5, <1>9, <2>1 DEF FreshInv
<1> QED
  BY <1>6, <1>7, <1>8, <1>9

\* What the plan names has been read.
LEMMA PlanCurrent ==
  ASSUME TypeInv, NEW p \in Proc, JobInv(p), FreshInv(p), pc[p] \in {"decide", "gate", "remove"}
  PROVE  \A i \in 1..Len(Plan(p)) : Current(p, Plan(p)[i])
<1>1. Job(p) \in AnyJob /\ req[p].hook \in Hooks
  BY JobType, RequestType DEF JobInv, StepPC
<1>2. Job(p) # "wrap.install" =>
        \A i \in 1..Len(Plan(p)) : \E k \in 1..Len(Reads(p)) : Reads(p)[k] = Plan(p)[i]
  BY <1>1, PlanType
<1>3. CASE Job(p) = "wrap.install"
  BY <1>3 DEF Current
<1>4. CASE Job(p) # "wrap.install"
  BY <1>2, <1>4 DEF FreshInv
<1> QED
  BY <1>3, <1>4

LEMMA FreshDecide ==
  ASSUME TypeInv, NEW p \in Proc, JobInv(p), FreshInv(p), DecideAny(p)
  PROVE  FreshInv(p)'
<1>1. pc[p] = "decide" /\ StillHere /\ Decided(p)
  BY DecideShape
<1>2. UNCHANGED <<file, req, todo, at, saw>>
  BY <1>1 DEF StillHere
<1>3. Job(p)' = Job(p) /\ Reads(p)' = Reads(p) /\ Plan(p)' = Plan(p)
  BY <1>2, PlanKept
<1>4. /\ pc'[p] \in {"gate", "remove", "exec", "event", "step", "end", "done"}
      /\ pc'[p] = "event" => Plan(p) = <<>>
  BY <1>1 DEF Decided, Conclude, Proceed, Fail, Break, Goto, TypeInv
<1>5. \A i \in 1..Len(Reads(p)) : Current(p, Reads(p)[i])
  BY <1>1 DEF FreshInv
<1>6. CASE pc'[p] \in {"gate", "remove"}
  BY <1>2, <1>3, <1>5, <1>6 DEF FreshInv, Current
<1>7. CASE pc'[p] = "event"
  <2>1. Len(Plan(p)) = 0
    BY <1>4, <1>7, EmptySeq
  <2> QED
    BY <1>3, <1>7, <2>1 DEF FreshInv
<1>8. CASE pc'[p] \notin {"gate", "remove", "event"}
  BY <1>4, <1>8 DEF FreshInv
<1> QED
  BY <1>6, <1>7, <1>8

LEMMA FreshGate ==
  ASSUME TypeInv, NEW p \in Proc, JobInv(p), FreshInv(p), Gate(p)
  PROVE  FreshInv(p)'
<1>1. pc[p] = "gate" /\ UNCHANGED <<file, req, todo, at, saw>> /\ at[p] = 1
  BY DEF Gate, StillHere, JobInv
<1>2. Job(p)' = Job(p) /\ Plan(p)' = Plan(p)
  BY <1>1, PlanKept
<1>3. pc'[p] \in {"truncate", "step", "end", "done"}
  BY DEF Gate, Conclude, Proceed, Goto, TypeInv
<1>4. CASE pc'[p] = "truncate"
  <2>1. \A i \in 1..Len(Plan(p)) : ~(i < at'[p])
    BY <1>1
  <2>2. \A i \in 1..Len(Plan(p)) : Current(p, Plan(p)[i])'
    BY <1>1, <1>2, PlanCurrent DEF Current
  <2> QED
    BY <1>2, <1>4, <2>1, <2>2 DEF FreshInv
<1>5. CASE pc'[p] # "truncate"
  BY <1>3, <1>5 DEF FreshInv
<1> QED
  BY <1>4, <1>5

LEMMA FreshTruncate ==
  ASSUME TypeInv, NEW p \in Proc, JobInv(p), FreshInv(p), Truncate(p)
  PROVE  FreshInv(p)'
<1> DEFINE t == Plan(p)[at[p]]
<1>1. /\ pc[p] = "truncate" /\ pc'[p] = "write" /\ UNCHANGED <<req, todo, at, saw>>
      /\ file' = [file EXCEPT ![t] = "empty"]
  BY DEF Truncate, Proceed, Goto, TypeInv
<1>2. Job(p)' = Job(p) /\ Plan(p)' = Plan(p)
  BY <1>1, PlanKept
<1>3. /\ t \in Targets /\ at[p] \in 1..Len(Plan(p))
      /\ \A i \in 1..Len(Plan(p)) : Plan(p)[i] \in Targets /\ (Plan(p)[i] = t => i = at[p])
  <2>1. Job(p) \in AnyJob /\ req[p].hook \in Hooks
    BY <1>1, JobType, RequestType DEF JobInv, StepPC
  <2> QED
    BY <1>1, <2>1, PlanType, WritesTarget
<1>4. /\ file'[t] = "empty"
      /\ \A u \in Targets : u # t => file'[u] = file[u]
  BY <1>1, <1>3 DEF TypeInv
<1>5. \A i \in 1..Len(Plan(p)) : IF i < at[p] THEN Done(Plan(p)[i]) ELSE Current(p, Plan(p)[i])
  BY <1>1 DEF FreshInv
<1>6. ASSUME NEW i \in 1..Len(Plan(p)), i # at[p]
      PROVE  IF i < at[p] THEN Done(Plan(p)[i])' ELSE Current(p, Plan(p)[i])'
  <2>1. file'[Plan(p)[i]] = file[Plan(p)[i]]
    BY <1>3, <1>4, <1>6
  <2> QED
    BY <1>1, <1>2, <1>5, <1>6, <2>1 DEF Done, Current
<1>7. file'[Plan(p)[at[p]]] = "empty" /\ ~(at[p] < at[p])
  BY <1>3, <1>4
<1> QED
  BY <1>1, <1>2, <1>6, <1>7 DEF FreshInv

\* Nobody has put anything there since: what is written is what was meant.
LEMMA WrittenIs ==
  ASSUME TypeInv, NEW p \in Proc, JobInv(p), FreshInv(p), WriteFile(p)
  PROVE  LET t == Plan(p)[at[p]]
         IN  /\ file[t] = "empty"
             /\ file' = [file EXCEPT ![t] = Desired(t, saw[p][t])]
<1> DEFINE t == Plan(p)[at[p]]
<1>1. pc[p] = "write" /\ at[p] \in 1..Len(Plan(p)) /\ at[p] \in Nat
  BY DEF WriteFile, JobInv, TypeInv
<1>2. file[t] = "empty"
  BY <1>1 DEF FreshInv
<1>3. Overlay(t, file[t], Desired(t, saw[p][t])) = {Desired(t, saw[p][t])}
  BY <1>2 DEF Overlay
<1> QED
  BY <1>2, <1>3 DEF WriteFile

LEMMA DesiredDone ==
  ASSUME NEW t, NEW c
  PROVE  Desired(t, c) \in IF t = "tasks" THEN {"ours", "both", "kept"} ELSE {"ours", "both"}
BY DEF Desired, Held

LEMMA FreshWrite ==
  ASSUME TypeInv, NEW p \in Proc, JobInv(p), FreshInv(p), WriteFile(p)
  PROVE  FreshInv(p)'
<1> DEFINE t == Plan(p)[at[p]]
<1>1. /\ pc[p] = "write" /\ UNCHANGED <<req, todo, saw>>
      /\ file' = [file EXCEPT ![t] = Desired(t, saw[p][t])]
  BY WrittenIs DEF WriteFile
<1>2. Job(p)' = Job(p) /\ Plan(p)' = Plan(p)
  BY <1>1, PlanKept
<1>3. /\ t \in Targets /\ at[p] \in 1..Len(Plan(p)) /\ at[p] \in Nat /\ Len(Plan(p)) \in 0..2
      /\ \A i \in 1..Len(Plan(p)) : Plan(p)[i] \in Targets /\ (Plan(p)[i] = t => i = at[p])
  <2>1. Job(p) \in AnyJob /\ req[p].hook \in Hooks
    BY <1>1, JobType, RequestType DEF JobInv, StepPC
  <2> QED
    BY <1>1, <2>1, PlanType, WritesTarget DEF TypeInv
<1>4. /\ file'[t] \in IF t = "tasks" THEN {"ours", "both", "kept"} ELSE {"ours", "both"}
      /\ \A u \in Targets : u # t => file'[u] = file[u]
  BY <1>1, <1>3, DesiredDone DEF TypeInv
<1>5. \A i \in 1..Len(Plan(p)) :
        IF i < at[p] THEN Done(Plan(p)[i])
        ELSE IF i = at[p] THEN file[Plan(p)[i]] = "empty" ELSE Current(p, Plan(p)[i])
  BY <1>1 DEF FreshInv
<1>6. ASSUME NEW i \in 1..Len(Plan(p))
      PROVE  IF i <= at[p] THEN Done(Plan(p)[i])' ELSE Current(p, Plan(p)[i])'
  <2>1. CASE i = at[p]
    BY <1>2, <1>3, <1>4, <2>1 DEF Done
  <2>2. CASE i # at[p]
    <3>1. file'[Plan(p)[i]] = file[Plan(p)[i]]
      BY <1>3, <1>4, <2>2
    <3>2. i <= at[p] <=> i < at[p]
      BY <1>3, <2>2
    <3> QED
      BY <1>1, <1>2, <1>5, <1>6, <2>2, <3>1, <3>2 DEF Done, Current
  <2> QED
    BY <2>1, <2>2
<1>7. \/ pc'[p] = "truncate" /\ at'[p] = at[p] + 1
      \/ pc'[p] = "event" /\ at[p] = Len(Plan(p))
  BY DEF WriteFile, Proceed, Goto, TypeInv
<1>8. CASE pc'[p] = "truncate" /\ at'[p] = at[p] + 1
  <2>1. \A i \in 1..Len(Plan(p)) : i < at'[p] <=> i <= at[p]
    BY <1>3, <1>8
  <2> QED
    BY <1>2, <1>6, <1>8, <2>1 DEF FreshInv
<1>9. CASE pc'[p] = "event" /\ at[p] = Len(Plan(p))
  <2>1. Job(p) \notin RemoveJob
    BY <1>1 DEF JobInv, WriteJob, RemoveJob, SetupSteps
  <2>2. \A i \in 1..Len(Plan(p)) : Done(Plan(p)[i])'
    BY <1>3, <1>6, <1>9
  <2> QED
    BY <1>2, <1>9, <2>1, <2>2 DEF FreshInv
<1> QED
  BY <1>7, <1>8, <1>9

LEMMA FreshRemove ==
  ASSUME TypeInv, NEW p \in Proc, JobInv(p), Remove(p)
  PROVE  FreshInv(p)'
<1>1. pc[p] = "remove" /\ UNCHANGED <<req, todo, saw>>
  BY DEF Remove
<1>2. Job(p)' = Job(p) /\ Plan(p)' = Plan(p)
  BY <1>1, PlanKept
<1>3. /\ Len(Plan(p)) = 1 /\ Plan(p)[1] \in Targets /\ Job(p) \in RemoveJob
  BY <1>1, RemovesTarget DEF JobInv
<1>4. \/ pc'[p] \in {"end", "done"}
      \/ pc'[p] = "event" /\ file' = [file EXCEPT ![Plan(p)[1]] = "absent"]
  BY DEF Remove, Proceed, Fail, Break, Goto, TypeInv
<1>5. CASE pc'[p] \in {"end", "done"}
  BY <1>5 DEF FreshInv
<1>6. CASE pc'[p] = "event" /\ file' = [file EXCEPT ![Plan(p)[1]] = "absent"]
  <2>1. \A i \in 1..Len(Plan(p)) : file'[Plan(p)[i]] = "absent"
    BY <1>3, <1>6 DEF TypeInv
  <2> QED
    BY <1>2, <1>3, <1>6, <2>1 DEF FreshInv
<1> QED
  BY <1>4, <1>5, <1>6

LEMMA FreshEntered ==
  ASSUME NEW p, pc'[p] = Enter(todo'[p]), at'[p] = 1
  PROVE  FreshInv(p)'
<1>1. pc'[p] \in {"start", "decide", "read"}
  BY EnterType
<1>2. CASE pc'[p] = "start"
  BY <1>2 DEF FreshInv
<1>3. CASE pc'[p] = "decide"
  <2>1. Job(p)' = "wrap.install"
    BY <1>3 DEF Enter, Job
  <2> QED
    BY <1>3, <2>1 DEF FreshInv, Current
<1>4. CASE pc'[p] = "read"
  <2>1. \A i \in 1..Len(Reads(p)') : ~(i < at'[p])
    OBVIOUS
  <2> QED
    BY <1>4, <2>1 DEF FreshInv
<1> QED
  BY <1>1, <1>2, <1>3, <1>4

LEMMA FreshOthers ==
  ASSUME TypeInv, NEW p \in Proc, JobInv(p),
         \/ Begin(p) \/ InitBegin(p) \/ Breakdown(p) \/ Exec(p) \/ RecordEvent(p) \/ InitStep(p)
         \/ Start(p) \/ InitEnd(p) \/ Kill(p)
  PROVE  FreshInv(p)'
<1>1. CASE Begin(p) \/ InitBegin(p)
  <2>1. at' = at /\ todo' = todo /\ at[p] = 1 /\ pc'[p] \in {Enter(todo[p]), "done"}
    BY <1>1 DEF Begin, InitBegin, Goto, TypeInv, JobInv
  <2>2. CASE pc'[p] = "done"
    BY <2>2 DEF FreshInv
  <2> QED
    BY <2>1, <2>2, FreshEntered
<1>2. CASE Exec(p)
  <2>1. pc'[p] = "event" /\ Job(p) = "wrap.run" /\ UNCHANGED <<req, todo, saw>>
    BY <1>2 DEF Exec, StillHere, Goto, TypeInv, JobInv
  <2>2. Plan(p)' = <<>>
    BY <2>1, PlanIs, PlanKept
  <2>3. Len(Plan(p)') = 0
    BY <2>2, EmptySeq
  <2> QED
    BY <2>1, <2>3 DEF FreshInv
<1>3. CASE Breakdown(p) \/ RecordEvent(p) \/ Start(p) \/ InitEnd(p) \/ Kill(p)
  <2>1. pc'[p] \in {"end", "done", "step", "killed"}
    BY <1>3 DEF Breakdown, RecordEvent, Start, InitEnd, Kill, Conclude, Fail, Break, Goto, TypeInv
  <2> QED
    BY <2>1 DEF FreshInv
<1>4. CASE InitStep(p)
  <2>1. at' = at /\ at[p] = 1
    BY <1>4, InitStepShape DEF JobInv
  <2>2. CASE Advance(p)
    <3>1. pc'[p] = Enter(todo'[p])
      BY <2>2 DEF Advance, Goto, TypeInv
    <3> QED
      BY <2>1, <3>1, FreshEntered
  <2>3. CASE Proceed(p, "end") \/ Fail(p)
    <3>1. pc'[p] \in {"end", "done"}
      BY <2>3 DEF Proceed, Fail, Break, Goto, TypeInv
    <3> QED
      BY <3>1 DEF FreshInv
  <2> QED
    BY <1>4, <2>2, <2>3, InitStepShape
<1> QED
  BY <1>1, <1>2, <1>3, <1>4

LEMMA FreshStep ==
  ASSUME TypeInv, NEW p \in Proc, JobInv(p), FreshInv(p), Step(p) \/ Kill(p)
  PROVE  FreshInv(p)'
BY FreshRead, FreshDecide, FreshGate, FreshTruncate, FreshWrite, FreshRemove, FreshOthers
   DEF Step, DecideAny

\* A command that does not run claims nothing of what is there.
LEMMA FreshIdle ==
  ASSUME NEW q, ~Running(q)
  PROVE  FreshInv(q)
BY DEF Running, FreshInv

-----------------------------------------------------------------------------
(* The user's settings, when commands and edits overlap *)

\* Of the files, a step changes the one of its plan.
LEMMA WriteStep ==
  ASSUME TypeInv, NEW p \in Proc, JobInv(p), Truncate(p) \/ WriteFile(p)
  PROVE  LET t == Plan(p)[at[p]]
         IN  /\ t \in Targets /\ at[p] \in 1..Len(Plan(p)) /\ Plan(p)' = Plan(p)
             /\ \E c : file' = [file EXCEPT ![t] = c]
             /\ \A u \in Targets : u # t => file'[u] = file[u]
<1>1. Plan(p)[at[p]] \in Targets /\ at[p] \in 1..Len(Plan(p))
  BY WritesTarget DEF Truncate, WriteFile
<1>2. Plan(p)' = Plan(p)
  BY PlanKept DEF Truncate, WriteFile
<1>3. \E c : file' = [file EXCEPT ![Plan(p)[at[p]]] = c]
  BY DEF Truncate, WriteFile
<1> QED
  BY <1>1, <1>2, <1>3 DEF TypeInv

\* What a rendering keeps of a document is what was kept of it before.
LEMMA HeldDesired ==
  ASSUME NEW t \in Docs, NEW c
  PROVE  /\ Held(t, Desired(t, c)) = Held(t, c)
         /\ Held(t, c) \subseteq Part
BY DEF Held, Desired, Part, Docs

LEMMA MineEdit ==
  ASSUME TypeInv, NEW u, NEW c,
         mine' = {m \in mine : m[1] # u} \cup {u} \X Held(u, c)
  PROVE  Mine(u)' = Held(u, c) /\ \A t : t # u => Mine(t)' = Mine(t)
<1>1. \A t, x : x \in Mine(t)' <=> \E m \in mine' : m[1] = t /\ m[2] = x
  BY DEF Mine
<1>2. \A t, x : x \in Mine(t) <=> \E m \in mine : m[1] = t /\ m[2] = x
  BY DEF Mine
<1>3. \A x \in Held(u, c) : \E m \in mine' : m[1] = u /\ m[2] = x
  <2> TAKE x \in Held(u, c)
  <2>1. <<u, x>> \in mine' /\ <<u, x>>[1] = u /\ <<u, x>>[2] = x
    OBVIOUS
  <2> QED
    BY <2>1
<1>4. \A m \in mine' : m[1] = u => m[2] \in Held(u, c)
  OBVIOUS
<1>5. \A m : m[1] # u => (m \in mine' <=> m \in mine)
  OBVIOUS
<1>6. Mine(u)' = Held(u, c)
  <2>1. \A x : x \in Mine(u)' <=> x \in Held(u, c)
    BY <1>1, <1>3, <1>4
  <2> QED
    BY <2>1
<1>7. ASSUME NEW t, t # u PROVE Mine(t)' = Mine(t)
  <2>1. \A x : x \in Mine(t)' <=> x \in Mine(t)
    BY <1>1, <1>2, <1>5, <1>7
  <2> QED
    BY <2>1
<1> QED
  BY <1>6, <1>7

\* The settings are those of some document; and the user changed the file last,
\* or a command changed it that had not seen them, or none changed it, or what
\* is there is what any rewrite now would make it, or a rewrite has stopped.
Fitting(t) == IF Mine(t) = {} THEN "ours" ELSE IF "under" \in Mine(t) THEN "kept" ELSE "both"
MineIs(t) == \E c \in DocContent : Mine(t) = Held(t, c)
Untouched(t) == (\A q \in Proc : t \notin changed[q]) /\ Mine(t) \subseteq Held(t, file[t])
Settled(t) == \/ file[t] = Fitting(t)
              \/ file[t] = "empty" /\ \E q \in Proc : Rewriting(q, t)
DocInv(t) ==
  /\ MineIs(t)
  /\ t \in edited \/ (\E q \in Proc : Blind(q, t)) \/ Untouched(t) \/ Settled(t)

LEMMA FittingIs ==
  ASSUME NEW t \in Docs, NEW c, Held(t, c) = Mine(t)
  PROVE  Desired(t, c) = Fitting(t) /\ Held(t, Fitting(t)) = Mine(t)
<1>1. Desired(t, c) = Fitting(t)
  BY DEF Desired, Fitting
<1> QED
  BY <1>1, HeldDesired

\* Only a read changes what a command saw, and it reads nothing it has changed.
LEMMA SawStep ==
  ASSUME TypeInv, NEW p \in Proc, JobInv(p), ReportInv(p), NewInv(p), Step(p) \/ Kill(p)
  PROVE  \A q \in Proc : /\ changed[q] \subseteq changed'[q]
                         /\ \A t \in changed[q] : saw'[q][t] = saw[q][t]
<1>1. Apart(p)
  BY OwnStep
<1>2. changed[p] \subseteq changed'[p]
  <2>1. CASE Truncate(p) \/ WriteFile(p) \/ Remove(p)
    BY <2>1 DEF Truncate, WriteFile, Remove, TypeInv
  <2> QED
    BY <2>1, FileStep
<1>3. CASE Read(p)
  <2> DEFINE u == Reads(p)[at[p]]
  <2>1. pc[p] = "read" /\ at[p] \in 1..Len(Reads(p)) /\ todo[p] # <<>>
    BY <1>3 DEF Read, JobInv, StepPC
  <2>2. changed[p] = Reported(p)
    BY <2>1 DEF ReportInv, Partial
  <2>3. u \notin Reported(p)
    <3>1. CASE ~IsInit(p)
      BY <2>1, <3>1 DEF NewInv
    <3>2. CASE IsInit(p)
      <4>1. Job(p) \in SetupSteps
        BY <2>1, <3>2, JobType
      <4>2. Plan(p) = Reads(p)
        BY <4>1, PlanIs DEF SetupSteps
      <4> QED
        BY <2>1, <4>2, Unreported DEF StepPC
    <3> QED
      BY <3>1, <3>2
  <2>4. saw' = [saw EXCEPT ![p][u] = file[u]]
    BY <1>3 DEF Read
  <2> HIDE DEF u
  <2>5. \A t \in changed[p] : t # u /\ t \in Targets
    BY <2>2, <2>3 DEF TypeInv
  <2>6. \A t \in changed[p] : saw'[p][t] = saw[p][t]
    BY <2>4, <2>5 DEF TypeInv
  <2> QED
    BY <1>1, <1>2, <2>6 DEF Apart
<1>4. CASE ~Read(p)
  <2>1. saw' = saw
    <3>1. CASE DecideAny(p)
      BY <3>1, DecideShape DEF StillHere
    <3>2. CASE InitStep(p)
      BY <3>2, InitStepShape DEF Advance
    <3> QED
      BY <1>4, <3>1, <3>2
         DEF Step, DecideAny, Begin, InitBegin, Gate, Truncate, WriteFile, Remove, Breakdown, Exec,
             RecordEvent, Start, InitEnd, Kill, StillHere
  <2> QED
    BY <1>1, <1>2, <2>1 DEF Apart
<1> QED
  BY <1>3, <1>4

\* A rewrite goes on until the write, and stays where it was stopped.
LEMMA RewritingStays ==
  ASSUME TypeInv, NEW p \in Proc, JobInv(p), BrokenInv(p), Step(p) \/ Kill(p),
         NEW q \in Proc, NEW t, Rewriting(q, t), ~(q = p /\ WriteFile(p))
  PROVE  Rewriting(q, t)'
<1>1. Apart(p)
  BY OwnStep
<1>2. CASE q # p
  <2>1. Plan(q)' = Plan(q)
    BY <1>1, <1>2, PlanKept DEF Apart
  <2> QED
    BY <1>1, <1>2, <2>1 DEF Apart, Rewriting
<1>3. CASE q = p
  <2>1. pc[p] # "killed"
    <3>1. CASE InitStep(p)
      BY <3>1 DEF InitStep
    <3>2. CASE ~InitStep(p)
      <4>1. CASE pc[p] = "killed"
        BY <3>2, <4>1, Leaving DEF InitEnd, Kill, Running
      <4> QED
        BY <4>1
    <3> QED
      BY <3>1, <3>2
  <2>2. Kill(p) \/ Breakdown(p) \/ InitEnd(p)
    <3>1. CASE pc[p] = "write"
      <4>1. ~DecideAny(p)
        BY <3>1, DecideShape
      <4> QED
        BY <1>3, <3>1, <4>1
           DEF Step, DecideAny, Begin, InitBegin, Read, Gate, Truncate, Remove, Exec, RecordEvent,
               InitStep, Start, InitEnd
    <3>2. CASE result[p] = "io_error"
      <4>1. pc[p] \in {"end", "done", "killed"}
        BY <3>2 DEF BrokenInv
      <4>2. ~InitStep(p)
        BY <4>1 DEF InitStep
      <4> QED
        BY <4>1, <4>2, Leaving
    <3> QED
      BY <1>3, <2>1, <3>1, <3>2 DEF Rewriting
  <2>3. /\ UNCHANGED <<req, todo, at, saw, changed>>
        /\ pc'[p] = "killed" \/ result'[p] = "io_error" \/ (result' = result /\ pc[p] = "end")
    BY <2>2 DEF Kill, Breakdown, InitEnd, StillHere, Break, Goto, TypeInv
  <2>4. Plan(p)' = Plan(p)
    BY <2>3, PlanKept
  <2> QED
    BY <1>3, <2>3, <2>4 DEF Rewriting
<1> QED
  BY <1>2, <1>3

\* A truncation and what is written to it are the rewriter's.
LEMMA TruncatedBy ==
  ASSUME TypeInv, NEW p \in Proc, JobInv(p), Truncate(p), NEW t, t = Plan(p)[at[p]]
  PROVE  file'[t] = "empty" /\ Rewriting(p, t)' /\ t \in changed'[p] /\ saw' = saw
<1>1. t \in Targets /\ at[p] \in 1..Len(Plan(p)) /\ Plan(p)' = Plan(p)
  BY WriteStep
<1>2. /\ pc[p] = "truncate" /\ pc'[p] = "write" /\ at' = at /\ todo' = todo /\ saw' = saw
      /\ todo[p] # <<>>
  BY DEF Truncate, Proceed, Goto, TypeInv, JobInv, StepPC
<1>3. file'[t] = "empty" /\ t \in changed'[p]
  BY <1>1 DEF Truncate, TypeInv
<1>4. Plan(p)'[at'[p]] = t /\ at'[p] \in 1..Len(Plan(p)')
  BY <1>1, <1>2
<1> QED
  BY <1>2, <1>3, <1>4 DEF Rewriting

LEMMA WrittenBy ==
  ASSUME TypeInv, NEW p \in Proc, JobInv(p), ReportInv(p), WriteFile(p)
  PROVE  LET t == Plan(p)[at[p]]
         IN  /\ t \in changed[p] /\ Rewriting(p, t)
             /\ file'[t] \in Overlay(t, file[t], Desired(t, saw[p][t]))
<1> DEFINE t == Plan(p)[at[p]]
<1>1. t \in Targets /\ at[p] \in 1..Len(Plan(p)) /\ at[p] \in Nat
  BY WriteStep DEF TypeInv
<1>2. pc[p] = "write" /\ todo[p] # <<>>
  BY DEF WriteFile, JobInv, StepPC
<1>3. at[p] \in 1..at[p]
  BY <1>1
<1>4. t \in Partial(p)
  BY <1>2, <1>3 DEF Partial
<1>5. t \in changed[p]
  BY <1>2, <1>4 DEF ReportInv
<1>6. Rewriting(p, t)
  BY <1>1, <1>2, <1>5 DEF Rewriting
<1>7. file'[t] \in Overlay(t, file[t], Desired(t, saw[p][t]))
  BY <1>1 DEF WriteFile, TypeInv
<1> QED
  BY <1>5, <1>6, <1>7

\* Of the IDE files a step changes at most the one it truncates or writes.
LEMMA DocApart ==
  ASSUME TypeInv, NEW p \in Proc, JobInv(p), Step(p) \/ Kill(p), NEW t \in Docs,
         Truncate(p) \/ WriteFile(p) => t # Plan(p)[at[p]]
  PROVE  /\ file'[t] = file[t]
         /\ t \in edited => t \in edited'
         /\ \A q \in Proc : t \in changed'[q] => t \in changed[q]
<1>1. t \in Targets /\ Apart(p)
  BY OwnStep DEF Targets
<1>2. CASE Truncate(p) \/ WriteFile(p)
  <2>1. t # Plan(p)[at[p]] /\ file'[t] = file[t]
    BY <1>1, <1>2, WriteStep
  <2>2. edited' = edited \/ edited' = edited \ {Plan(p)[at[p]]}
    BY <1>2 DEF Truncate, WriteFile
  <2>3. changed'[p] = changed[p] \/ changed'[p] = changed[p] \cup {Plan(p)[at[p]]}
    BY <1>2 DEF Truncate, WriteFile, TypeInv
  <2> QED
    BY <1>1, <2>1, <2>2, <2>3 DEF Apart
<1>3. CASE Remove(p)
  <2>1. t # Plan(p)[1]
    BY <1>3, RemovesTarget DEF Remove, Docs, Scripts, Hooks
  <2>2. file' = file \/ file' = [file EXCEPT ![Plan(p)[1]] = "absent"]
    BY <1>3 DEF Remove
  <2>3. edited' = edited \/ edited' = edited \ {Plan(p)[1]}
    BY <1>3 DEF Remove
  <2>4. changed'[p] = changed[p] \/ changed'[p] = changed[p] \cup {Plan(p)[1]}
    BY <1>3 DEF Remove, TypeInv
  <2> QED
    BY <1>1, <2>1, <2>2, <2>3, <2>4 DEF Apart, TypeInv
<1>4. CASE ~(Truncate(p) \/ WriteFile(p) \/ Remove(p))
  BY <1>4, FileStep
<1> QED
  BY <1>2, <1>3, <1>4

LEMMA DocInvStep ==
  ASSUME CoreInv, TracedInv, NEW p \in Proc, NewInv(p), Step(p) \/ Kill(p), NEW t \in Docs, DocInv(t)
  PROVE  DocInv(t)'
<1>1. TypeInv /\ JobInv(p) /\ ReportInv(p) /\ BrokenInv(p) /\ Apart(p)
  BY OwnStep DEF CoreInv, TracedInv, Traced
<1>2. Mine(t)' = Mine(t) /\ MineIs(t)' /\ Fitting(t)' = Fitting(t)
  <2>1. mine' = mine
    BY <1>1, FileStep
  <2>2. Mine(t)' = Mine(t)
    BY <2>1 DEF Mine
  <2> QED
    BY <2>2 DEF DocInv, MineIs, Fitting
<1>3. ASSUME NEW q \in Proc, Blind(q, t) PROVE Blind(q, t)'
  BY <1>1, <1>2, <1>3, SawStep DEF Blind
<1>4. CASE Truncate(p) /\ t = Plan(p)[at[p]]
  BY <1>1, <1>2, <1>4, TruncatedBy DEF DocInv, Settled
<1>5. CASE WriteFile(p) /\ t = Plan(p)[at[p]]
  <2>1. /\ t \in changed[p] /\ edited' = edited
        /\ file'[t] \in Overlay(t, file[t], Desired(t, saw[p][t]))
    BY <1>1, <1>5, WrittenBy DEF WriteFile
  <2>2. SUFFICES ASSUME t \notin edited, \A q \in Proc : ~Blind(q, t)
                 PROVE  file'[t] = Fitting(t)
    BY <1>2, <1>3, <2>1 DEF DocInv, Settled
  <2>3. file[t] \in {Fitting(t), "empty"}
    BY <2>1, <2>2 DEF DocInv, Untouched, Settled
  <2>4. Desired(t, saw[p][t]) = Fitting(t)
    BY <2>1, <2>2, FittingIs DEF Blind
  <2>5. Fitting(t) # "absent"
    BY DEF Fitting
  <2> QED
    BY <2>1, <2>3, <2>4, <2>5 DEF Overlay
<1>6. CASE ~((Truncate(p) \/ WriteFile(p)) /\ t = Plan(p)[at[p]])
  <2>1. /\ file'[t] = file[t] /\ (t \in edited => t \in edited')
        /\ \A q \in Proc : t \in changed'[q] => t \in changed[q]
    BY <1>1, <1>6, DocApart
  <2>2. Untouched(t) => Untouched(t)'
    BY <1>2, <2>1 DEF Untouched
  <2>3. ASSUME NEW q \in Proc, Rewriting(q, t) PROVE Rewriting(q, t)'
    <3>1. q = p /\ WriteFile(p) => t = Plan(p)[at[p]]
      BY <2>3 DEF Rewriting, WriteFile
    <3> QED
      BY <1>1, <1>6, <2>3, <3>1, RewritingStays
  <2>4. Settled(t) => Settled(t)'
    BY <1>2, <2>1, <2>3 DEF Settled
  <2> QED
    BY <1>2, <1>3, <2>1, <2>2, <2>4 DEF DocInv
<1> QED
  BY <1>4, <1>5, <1>6

LEMMA DocInvEdit ==
  ASSUME CoreInv, NEW u \in Editable, NEW c \in UserContent(u), Edit(u, c), NEW t \in Docs, DocInv(t)
  PROVE  DocInv(t)'
<1>1. /\ TypeInv /\ UNCHANGED <<log, pc, req, todo, at, saw, result, changed>>
      /\ file' = [file EXCEPT ![u] = c] /\ edited' = edited \cup {u}
      /\ mine' = {m \in mine : m[1] # u} \cup {u} \X Held(u, c)
  BY DEF CoreInv, Edit, auditVars
<1>2. Mine(u)' = Held(u, c) /\ (t # u => Mine(t)' = Mine(t))
  BY <1>1, MineEdit
<1>3. CASE t = u
  <2>1. c \in DocContent
    BY <1>3 DEF UserContent, DocContent
  <2> QED
    BY <1>1, <1>2, <1>3, <2>1 DEF DocInv, MineIs
<1>4. CASE t # u
  <2>1. /\ Mine(t)' = Mine(t) /\ file'[t] = file[t] /\ Fitting(t)' = Fitting(t)
        /\ \A q : Plan(q)' = Plan(q)
    BY <1>1, <1>2, <1>4, PlanKept DEF TypeInv, Targets, Fitting
  <2>2. \A q \in Proc : (Blind(q, t) => Blind(q, t)') /\ (Rewriting(q, t) => Rewriting(q, t)')
    BY <1>1, <2>1 DEF Blind, Rewriting
  <2> QED
    BY <1>1, <2>1, <2>2 DEF DocInv, MineIs, Untouched, Settled
<1> QED
  BY <1>3, <1>4

LEMMA DocInvStutter ==
  ASSUME UNCHANGED vars, NEW t \in Docs, DocInv(t)
  PROVE  DocInv(t)'
<1>1. Mine(t)' = Mine(t) /\ Fitting(t)' = Fitting(t) /\ \A q : Plan(q)' = Plan(q)
  BY PlanKept DEF vars, Mine, Fitting
<1>2. \A q \in Proc : (Blind(q, t) => Blind(q, t)') /\ (Rewriting(q, t) => Rewriting(q, t)')
  BY <1>1 DEF Blind, Rewriting, vars
<1> QED
  BY <1>1, <1>2 DEF DocInv, MineIs, Untouched, Settled, vars

-----------------------------------------------------------------------------
(* One command at a time: the user's settings *)

\* The settings are there, or a command that saw them is about to write them
\* back, or was stopped before it could.
DocKept(t) ==
  \/ Mine(t) \subseteq Held(t, file[t])
  \/ \E p \in Proc : Rewriting(p, t) /\ pc[p] # "write"
  \/ \E p \in Proc : Rewriting(p, t) /\ Mine(t) \subseteq Held(t, saw[p][t])

LEMMA DocStep ==
  ASSUME CoreInv, TracedInv, NEW p \in Proc, NewInv(p), Step(p) \/ Kill(p), FreshInv(p),
         \A q \in Proc \ {p} : ~Running(q),
         NEW t \in Docs, DocKept(t)
  PROVE  DocKept(t)'
<1>1. TypeInv /\ JobInv(p) /\ ReportInv(p) /\ BrokenInv(p) /\ Apart(p)
  BY OwnStep DEF CoreInv, TracedInv, Traced
<1>2. Mine(t)' = Mine(t)
  BY <1>1, FileStep DEF Mine
<1>3. ASSUME NEW q \in Proc, Rewriting(q, t), ~(q = p /\ WriteFile(p)),
             pc[q] # "write" \/ Mine(t) \subseteq Held(t, saw[q][t])
      PROVE  DocKept(t)'
  <2>1. Rewriting(q, t)'
    BY <1>1, <1>3, RewritingStays
  <2>2. CASE Mine(t) \subseteq Held(t, saw[q][t])
    <3>1. saw'[q][t] = saw[q][t]
      BY <1>1, <1>3, SawStep DEF Rewriting
    <3> QED
      BY <1>2, <2>1, <2>2, <3>1 DEF DocKept
  <2>3. CASE pc[q] # "write"
    <3>1. pc'[q] # "write"
      <4>1. CASE q # p
        BY <1>1, <2>3, <4>1 DEF Apart
      <4>2. CASE q = p
        <5>1. pc[p] \in {"end", "done", "killed"}
          BY <1>1, <1>3, <2>3, <4>2 DEF Rewriting, BrokenInv
        <5>2. ~InitStep(p)
          BY <5>1 DEF InitStep
        <5> QED
          BY <1>1, <4>2, <5>1, <5>2, Leaving
      <4> QED
        BY <4>1, <4>2
    <3> QED
      BY <2>1, <3>1 DEF DocKept
  <2> QED
    BY <1>3, <2>2, <2>3
<1>4. CASE Truncate(p) /\ t = Plan(p)[at[p]]
  <2>1. CASE Mine(t) \subseteq Held(t, file[t])
    <3>1. Job(p) # "wrap.install"
      <4>1. Job(p) = "wrap.install" => Plan(p)[1] = "wrap" /\ Len(Plan(p)) = 1
        BY PlanIs
      <4> QED
        BY <1>1, <1>4, <4>1, WriteStep DEF Docs
    <3>2. saw[p][t] = file[t]
      <4>1. pc[p] = "truncate" /\ at[p] \in 1..Len(Plan(p)) /\ at[p] \in Nat
        BY <1>1, <1>4, WriteStep DEF Truncate, TypeInv
      <4>2. Current(p, Plan(p)[at[p]])
        BY <4>1 DEF FreshInv
      <4> QED
        BY <1>4, <3>1, <4>2 DEF Current
    <3>3. Rewriting(p, t)' /\ saw' = saw
      BY <1>1, <1>4, TruncatedBy
    <3> QED
      BY <1>2, <2>1, <3>2, <3>3 DEF DocKept
  <2>2. CASE ~(Mine(t) \subseteq Held(t, file[t]))
    <3>1. ~WriteFile(p)
      BY <1>4 DEF Truncate, WriteFile
    <3> QED
      BY <1>3, <2>2, <3>1 DEF DocKept
  <2> QED
    BY <2>1, <2>2
<1>5. CASE WriteFile(p) /\ t = Plan(p)[at[p]]
  <2>1. file'[t] = Desired(t, saw[p][t])
    <3>1. t \in Targets
      BY DEF Targets
    <3> QED
      BY <1>1, <1>5, <3>1, WrittenIs DEF TypeInv
  <2>2. CASE Mine(t) \subseteq Held(t, saw[p][t])
    BY <1>2, <2>1, <2>2, HeldDesired DEF DocKept
  <2>3. CASE \E q \in Proc : Rewriting(q, t) /\ q # p /\ pc[q] # "write"
    BY <1>3, <2>3
  <2>4. CASE Mine(t) \subseteq Held(t, file[t])
    <3>1. file[t] = "empty"
      BY <1>1, <1>5, WrittenIs
    <3>2. Mine(t) = {}
      BY <2>4, <3>1 DEF Held
    <3> QED
      BY <1>2, <3>2 DEF DocKept
  <2>5. pc[p] = "write" /\ \A q \in Proc : q # p => pc[q] # "write"
    BY <1>5 DEF WriteFile, Running
  <2> QED
    BY <2>2, <2>3, <2>4, <2>5 DEF DocKept
<1>6. CASE ~((Truncate(p) \/ WriteFile(p)) /\ t = Plan(p)[at[p]])
  <2>1. file'[t] = file[t]
    BY <1>1, <1>6, DocApart
  <2>2. ASSUME NEW q \in Proc, Rewriting(q, t) PROVE ~(q = p /\ WriteFile(p))
    BY <1>6, <2>2 DEF Rewriting, WriteFile
  <2> QED
    BY <1>2, <1>3, <2>1, <2>2 DEF DocKept
<1> QED
  BY <1>4, <1>5, <1>6

-----------------------------------------------------------------------------
(* One command at a time: the user's hooks and wrapper *)

\* Who may replace a script of the user's: the plan of a hook install was made
\* where there was none, and an uninstall takes away only what is managed.
LEMMA ScriptStep ==
  ASSUME CoreInv, NEW p \in Proc, Step(p) \/ Kill(p), FreshInv(p),
         NEW t \in Scripts, file[t] = "user", file'[t] # "user"
  PROVE  /\ Job(p) \in req[p].approves
         /\ \/ req[p].command \in {"hook.repair", "wrap.install"}
            \/ IsInit(p) /\ ~req[p].keeps
<1>1. TypeInv /\ JobInv(p) /\ DecidedInv(p) /\ t \in Targets /\ t \notin Docs
  BY DEF CoreInv, Targets, Docs, Scripts, Hooks
<1>2. ~WriteFile(p)
  <2>1. SUFFICES ASSUME WriteFile(p) PROVE FALSE
    OBVIOUS
  <2>2. file[Plan(p)[at[p]]] = "empty"
    BY <1>1, <2>1, WrittenIs
  <2> QED
    BY <1>1, <2>1, <2>2, WriteStep
<1>3. ~Remove(p)
  <2>1. SUFFICES ASSUME Remove(p) PROVE FALSE
    OBVIOUS
  <2>2. /\ pc[p] = "remove" /\ Plan(p) = Reads(p) /\ Len(Plan(p)) = 1 /\ Plan(p)[1] \in Targets
        /\ Job(p) \in RemoveJob
    BY <1>1, <2>1, RemovesTarget DEF Remove, JobInv
  <2>3. Managed(saw[p][Plan(p)[1]])
    BY <1>1, <2>2 DEF DecidedInv
  <2>4. Current(p, Plan(p)[1])
    BY <2>2 DEF FreshInv
  <2>5. Plan(p)[1] = t
    <3>1. file' = file \/ file' = [file EXCEPT ![Plan(p)[1]] = "absent"]
      BY <2>1 DEF Remove
    <3> QED
      BY <1>1, <2>2, <3>1 DEF TypeInv
  <2> QED
    BY <2>2, <2>3, <2>4, <2>5 DEF Current, Managed, RemoveJob
<1>4. Truncate(p)
  BY <1>1, <1>2, <1>3, FileStep
<1>5. /\ pc[p] = "truncate" /\ t = Plan(p)[at[p]] /\ at[p] \in 1..Len(Plan(p)) /\ at[p] \in Nat
      /\ Job(p) \in WriteJob /\ Job(p) \in req[p].approves /\ todo[p] # <<>>
  BY <1>1, <1>4, WriteStep DEF Truncate, JobInv, DecidedInv, StepPC, TypeInv
<1>6. Job(p) # "wrap.install" => saw[p][t] = "user"
  BY <1>5 DEF FreshInv, Current
<1>7. CASE ~IsInit(p)
  <2>1. Job(p) = req[p].command /\ Job(p) \in Command \ {"init"}
    <3>1. todo[p] = <<req[p].command>>
      BY <1>1, <1>7 DEF JobInv
    <3>2. Head(todo[p]) = req[p].command
      BY <3>1
    <3> QED
      BY <1>1, <1>5, <1>7, <3>2, JobType DEF Job
  <2>2. Job(p) # "hook.install"
    <3>1. SUFFICES ASSUME Job(p) = "hook.install" PROVE FALSE
      OBVIOUS
    <3>2. Plan(p) = <<req[p].hook>>
      BY <3>1, PlanIs, ReadsIs
    <3>3. t = req[p].hook
      BY <1>5, <3>2
    <3>4. saw[p][req[p].hook] = "absent"
      BY <1>1, <1>5, <3>1 DEF DecidedInv
    <3> QED
      BY <1>6, <3>1, <3>3, <3>4
  <2>3. Job(p) # "ide-autostart"
    <3>1. SUFFICES ASSUME Job(p) = "ide-autostart" PROVE FALSE
      OBVIOUS
    <3>2. Plan(p) = <<"tasks", "cursor">>
      BY <3>1, PlanIs, ReadsIs
    <3>3. t \in Docs
      BY <1>5, <3>2 DEF Docs
    <3> QED
      BY <1>1, <3>3
  <2> QED
    BY <1>5, <2>1, <2>2, <2>3 DEF WriteJob, SetupSteps, Command
<1>8. CASE IsInit(p)
  <2>1. Job(p) \in SetupSteps /\ Job(p) # "wrap.install"
    BY <1>1, <1>5, <1>8, JobType DEF SetupSteps
  <2>2. req[p].keeps => ~Exists(t, saw[p][t])
    BY <1>1, <1>5, <2>1 DEF DecidedInv
  <2>3. Exists(t, "user")
    BY <1>1 DEF Exists
  <2> QED
    BY <1>5, <1>6, <1>8, <2>1, <2>2, <2>3
<1> QED
  BY <1>7, <1>8

-----------------------------------------------------------------------------
(* One command at a time: what the record says is what is there *)

\* The last event on a file, if any, tells what is there, unless the user has
\* edited it or a change is not on record.
Explained(t) ==
  Naming(t) # {} =>
    \E i \in Naming(t) : /\ \A j \in Naming(t) : j <= i
                         /\ t \notin edited /\ ~Unrecorded(t) => Says(i, t)

\* Nothing new about a file, which stays: what was said of it still holds.
LEMMA ExplainedKept ==
  ASSUME NEW t, NamingKept(t), t \in edited' \/ Unrecorded(t)' \/ file'[t] = file[t],
         t \in edited => t \in edited' \/ Unrecorded(t)', Unrecorded(t) => Unrecorded(t)',
         Explained(t)
  PROVE  Explained(t)'
<1>1. SUFFICES ASSUME Naming(t)' # {} PROVE Explained(t)'
  BY DEF Explained
<1>2. Naming(t)' = Naming(t) /\ \A i \in Naming(t) : log'[i] = log[i]
  BY DEF NamingKept
<1>3. PICK i \in Naming(t) : /\ \A j \in Naming(t) : j <= i
                             /\ t \notin edited /\ ~Unrecorded(t) => Says(i, t)
  BY <1>1, <1>2 DEF Explained
<1>4. t \notin edited' /\ ~Unrecorded(t)' => Says(i, t)'
  BY <1>2, <1>3 DEF Says
<1> QED
  BY <1>2, <1>3, <1>4 DEF Explained

LEMMA UnrecordedKept ==
  ASSUME NEW t, \A q \in Proc : Reported(q)' = Reported(q) /\ changed[q] \subseteq changed'[q]
  PROVE  Unrecorded(t) => Unrecorded(t)'
BY DEF Unrecorded

\* An event on a file is the last one on it, and tells what it is now.
LEMMA ExplainedRecord ==
  ASSUME CoreInv, NEW p \in Proc, FreshInv(p), RecordEvent(p), NEW t \in Targets, Explained(t)
  PROVE  Explained(t)'
<1> DEFINE e == Entry(p, Event(p)[1], OnEvent(p), Event(p)[2])
<1>1. TypeInv /\ JobInv(p) /\ pc[p] = "event" /\ UNCHANGED <<file, changed, edited>>
  BY DEF CoreInv, RecordEvent
<1>2. /\ e \in LogEntry /\ e.by = p /\ e.event \in Events /\ e.on = OnEvent(p)
      /\ e.status = Event(p)[2] /\ log \in Seq(LogEntry)
  BY <1>1, EventType, EntryType DEF Entry, TypeInv
<1>3. log' = log \/ log' = Append(log, e)
  BY DEF RecordEvent, Recorded, Refused
<1>4. t \in OnEvent(p) => (Event(p)[2] = "uninstalled" => file[t] = "absent") /\
                          (Event(p)[2] # "uninstalled" => Done(t))
  <2>1. Job(p) \in AnyJob
    BY <1>1, JobType DEF JobInv, StepPC
  <2>2. Event(p)[2] = "uninstalled" <=> Job(p) \in RemoveJob
    <3>1. Job(p) = "wrap.run" => result[p] # "uninstalled"
      BY <1>1 DEF JobInv
    <3> QED
      BY <2>1, <3>1, AnyJobIs DEF Event, RemoveJob
  <2>3. \A i \in 1..Len(Plan(p)) :
          IF Job(p) \in RemoveJob THEN file[Plan(p)[i]] = "absent" ELSE Done(Plan(p)[i])
    BY <1>1 DEF FreshInv
  <2> QED
    BY <2>2, <2>3 DEF OnEvent
<1> HIDE DEF e
<1>5. CASE log' = log
  <2>1. \A q : Reported(q)' = Reported(q)
    BY <1>5, OthersRecord DEF RecordKept
  <2>2. NamingKept(t)
    BY <1>5 DEF NamingKept, Naming
  <2> QED
    BY <1>1, <2>1, <2>2, UnrecordedKept, ExplainedKept
<1>6. CASE log' = Append(log, e)
  <2> PICK n : n = Len(log) + 1
    OBVIOUS
  <2>1. /\ Len(log) \in Nat /\ Len(log') = n
        /\ \A i \in 1..Len(log) : log'[i] = log[i]
        /\ log'[n] = e
    BY <1>2, <1>6, Appended
  <2>2. 1..Len(log') = 1..Len(log) \cup {n}
    BY <2>1
  <2>3. CASE t \in OnEvent(p)
    <3>1. n \in Naming(t)'
      BY <1>2, <2>1, <2>2, <2>3 DEF Naming
    <3>2. \A j \in Naming(t)' : j <= n
      BY <2>1, <2>2 DEF Naming
    <3>3. Says(n, t)'
      BY <1>1, <1>2, <1>4, <2>1, <2>3 DEF Says, Done
    <3> QED
      BY <3>1, <3>2, <3>3 DEF Explained
  <2>4. CASE t \notin OnEvent(p)
    <3>1. NamingKept(t)
      BY <1>2, <2>1, <2>2, <2>4 DEF Naming, NamingKept
    <3>2. \A q \in Proc : t \in Reported(q)' <=> t \in Reported(q)
      BY <1>2, <1>6, <2>4, ReportedAppended
    <3>3. Unrecorded(t) => Unrecorded(t)'
      BY <1>1, <3>2 DEF Unrecorded
    <3> QED
      BY <1>1, <3>1, <3>3, ExplainedKept
  <2> QED
    BY <2>3, <2>4
<1> QED
  BY <1>3, <1>5, <1>6

\* A file under change is not on record, so that nothing is claimed of it.
LEMMA ExplainedStep ==
  ASSUME CoreInv, NEW p \in Proc, Step(p) \/ Kill(p), FreshInv(p), ReportInv(p), NewInv(p),
         NEW t \in Targets, Explained(t)
  PROVE  Explained(t)'
<1>1. TypeInv /\ JobInv(p)
  BY DEF CoreInv
<1>2. CASE RecordEvent(p)
  BY <1>2, ExplainedRecord
<1>3. CASE ~RecordEvent(p)
  <2>1. NamingKept(t) /\ \A q : Reported(q)' = Reported(q)
    BY <1>1, <1>3, LogStep, QuietNaming, QuietReported
  <2>2. CASE ~(Truncate(p) \/ WriteFile(p) \/ Remove(p))
    <3>1. UNCHANGED <<file, changed, edited>>
      BY <1>1, <2>2, FileStep
    <3>2. Unrecorded(t) => Unrecorded(t)'
      BY <2>1, <3>1, UnrecordedKept
    <3> QED
      BY <2>1, <3>1, <3>2, ExplainedKept
  <2>3. CASE Truncate(p) \/ WriteFile(p) \/ Remove(p)
    <3> DEFINE u == IF pc[p] = "remove" THEN Plan(p)[1] ELSE Plan(p)[at[p]]
    <3>1. /\ u \in Targets /\ u \notin Reported(p)
          /\ \A v \in Targets : v # u => file'[v] = file[v] /\ (v \in edited => v \in edited')
      <4>1. CASE Truncate(p) \/ WriteFile(p)
        <5>1. /\ pc[p] \in {"truncate", "write"} /\ at[p] \in 1..Len(Plan(p)) /\ u = Plan(p)[at[p]]
              /\ (edited' = edited \/ edited' = edited \ {u})
          BY <1>1, <4>1, WriteStep DEF Truncate, WriteFile
        <5> QED
          BY <1>1, <4>1, <5>1, Unreported, WriteStep DEF StepPC
      <4>2. CASE Remove(p)
        <5>1. /\ pc[p] = "remove" /\ 1 \in 1..Len(Plan(p)) /\ u = Plan(p)[1] /\ u \in Targets
              /\ (edited' = edited \/ edited' = edited \ {u})
              /\ (file' = file \/ file' = [file EXCEPT ![u] = "absent"])
          BY <1>1, <4>2, RemovesTarget DEF Remove
        <5> QED
          BY <1>1, <5>1, Unreported DEF StepPC, TypeInv
      <4> QED
        BY <2>3, <4>1, <4>2
    <3>2. \/ UNCHANGED <<file, changed, edited>>
          \/ u \in changed'[p] /\ \A q \in Proc : changed[q] \subseteq changed'[q]
      <4>1. CASE Truncate(p)
        BY <1>1, <4>1 DEF Truncate, TypeInv
      <4>2. CASE WriteFile(p)
        <5>1. pc[p] = "write" /\ changed' = changed /\ at[p] \in 1..Len(Plan(p)) /\ at[p] \in Nat
          BY <1>1, <4>2 DEF WriteFile, JobInv, TypeInv
        <5>2. at[p] \in 1..at[p]
          BY <5>1
        <5>3. u \in Partial(p)
          BY <5>1, <5>2 DEF Partial
        <5> QED
          BY <5>1, <5>3 DEF ReportInv
      <4>3. CASE Remove(p)
        <5>1. \/ UNCHANGED <<file, changed, edited>>
              \/ changed' = [changed EXCEPT ![p] = @ \cup {u}]
          BY <4>3 DEF Remove
        <5>2. CASE changed' = [changed EXCEPT ![p] = @ \cup {u}]
          <6> HIDE DEF u
          <6>1. changed'[p] = changed[p] \cup {u} /\ \A q \in Proc \ {p} : changed'[q] = changed[q]
            BY <1>1, <5>2 DEF TypeInv
          <6> QED
            BY <6>1
        <5> QED
          BY <5>1, <5>2
      <4> QED
        BY <2>3, <4>1, <4>2, <4>3
    <3> HIDE DEF u
    <3>3. Unrecorded(t) => Unrecorded(t)'
      BY <2>1, <3>2, UnrecordedKept
    <3>4. CASE UNCHANGED <<file, changed, edited>>
      BY <2>1, <3>3, <3>4, ExplainedKept
    <3>5. CASE t = u /\ u \in changed'[p]
      <4>1. Unrecorded(t)'
        BY <2>1, <3>1, <3>5 DEF Unrecorded
      <4> QED
        BY <2>1, <4>1, ExplainedKept
    <3>6. CASE t # u
      BY <2>1, <3>1, <3>3, <3>6, ExplainedKept
    <3> QED
      BY <3>2, <3>4, <3>5, <3>6
  <2> QED
    BY <2>2, <2>3
<1> QED
  BY <1>2, <1>3

-----------------------------------------------------------------------------
(* One command at a time: together *)

OneInv ==
  /\ \A p \in Proc : NewInv(p)
  /\ \A t \in Docs : DocInv(t)
  /\ ~raced => /\ SerialInv
               /\ \A p \in Proc : FreshInv(p)
               /\ \A t \in Docs : DocKept(t)
               /\ \A t \in Targets : Explained(t)

LEMMA OneInit ==
  ASSUME Init
  PROVE  OneInv
<1>1. ASSUME NEW p \in Proc PROVE ~Running(p) /\ Reported(p) = {}
  <2>1. pc[p] = "idle" /\ Len(log) = 0
    BY <1>1, EmptySeq DEF Init
  <2> QED
    BY <2>1 DEF Running, Reported, EventsOf
<1>2. \A p \in Proc : NewInv(p)
  BY <1>1 DEF NewInv
<1>3. \A p \in Proc : FreshInv(p)
  BY <1>1, FreshIdle
<1>4. ASSUME NEW t \in Docs PROVE DocKept(t) /\ DocInv(t)
  <2>1. file[t] \in DocContent /\ \A q \in Proc : changed[q] = {}
    BY InstallersAssumption DEF Init
  <2>2. \A x : x \in Mine(t) <=> \E m \in mine : m[1] = t /\ m[2] = x
    BY DEF Mine
  <2>3. \A m \in mine : m[2] \in Held(m[1], file[m[1]])
    BY DEF Init
  <2>4. ASSUME NEW x \in Held(t, file[t]) PROVE \E m \in mine : m[1] = t /\ m[2] = x
    <3>1. /\ <<t, x>> \in Docs \X Part /\ <<t, x>>[1] = t /\ <<t, x>>[2] = x
      BY HeldDesired
    <3>2. mine = {m \in Docs \X Part : m[2] \in Held(m[1], file[m[1]])}
      BY DEF Init
    <3>3. <<t, x>> \in mine
      BY <3>1, <3>2
    <3> QED
      BY <3>1, <3>3
  <2>5. Mine(t) = Held(t, file[t])
    <3>1. \A x : x \in Mine(t) <=> x \in Held(t, file[t])
      BY <2>2, <2>3, <2>4
    <3> QED
      BY <3>1
  <2> QED
    BY <2>1, <2>5 DEF DocKept, DocInv, MineIs, Untouched
<1>5. \A t \in Targets : Explained(t)
  <2>1. Len(log) = 0
    BY EmptySeq DEF Init
  <2> QED
    BY <2>1 DEF Explained, Naming
<1> QED
  BY <1>1, <1>2, <1>3, <1>4, <1>5 DEF OneInv, SerialInv

\* Without an overlap only the command that moves runs, and the user edits while
\* none does.
LEMMA OneStep ==
  ASSUME CoreInv, TracedInv, OneInv,
         NEW p \in Proc, Step(p) \/ Kill(p), Note(\E q \in Proc \ {p} : Running(q))
  PROVE  OneInv'
<1>1. TypeInv /\ JobInv(p) /\ Apart(p)
  BY OwnStep DEF CoreInv
<1>2. ReportInv(p) /\ NewInv(p) /\ \A t \in Docs : DocInv(t)'
  BY DocInvStep DEF TracedInv, Traced, OneInv
<1>3. ASSUME NEW q \in Proc PROVE NewInv(q)'
  <2>1. CASE q = p
    BY <1>1, <1>2, <2>1, NewStep
  <2>2. CASE q # p
    <3>1. log' = log \/ \E e \in LogEntry : e.by # q /\ log' = Append(log, e)
      BY <1>1, <2>2, LogStep
    <3>2. Reported(q)' = Reported(q)
      BY <1>1, <3>1, OthersRecord DEF TypeInv, RecordKept
    <3> QED
      BY <1>1, <2>2, <3>2, NewKept DEF Apart, OneInv
  <2> QED
    BY <2>1, <2>2
<1>4. ASSUME ~raced'
      PROVE  /\ SerialInv'
             /\ \A q \in Proc : FreshInv(q)'
             /\ \A t \in Docs : DocKept(t)'
             /\ \A t \in Targets : Explained(t)'
  <2>1. ~raced /\ \A q \in Proc \ {p} : ~Running(q)
    BY <1>4 DEF Note
  <2>2. \A q \in Proc \ {p} : ~Running(q)'
    BY <1>1, <2>1 DEF Apart, Running
  <2>3. /\ FreshInv(p) /\ (\A t \in Docs : DocKept(t)) /\ (\A t \in Targets : Explained(t))
    BY <2>1 DEF OneInv
  <2>4. ASSUME NEW q \in Proc PROVE FreshInv(q)'
    <3>1. CASE q = p
      BY <1>1, <2>3, <3>1, FreshStep
    <3>2. CASE q # p
      BY <2>2, <3>2 DEF FreshInv, Running
    <3> QED
      BY <3>1, <3>2
  <2>5. ASSUME NEW t \in Docs PROVE DocKept(t)'
    BY <1>2, <2>1, <2>3, DocStep
  <2>6. ASSUME NEW t \in Targets PROVE Explained(t)'
    BY <1>2, <2>3, ExplainedStep
  <2> QED
    BY <2>2, <2>4, <2>5, <2>6 DEF SerialInv
<1> QED
  BY <1>2, <1>3, <1>4 DEF OneInv

LEMMA OneEdit ==
  ASSUME CoreInv, OneInv, NEW u \in Editable, NEW c \in UserContent(u), Edit(u, c),
         Note(\E q \in Proc : Running(q))
  PROVE  OneInv'
<1>1. /\ TypeInv /\ u \in Targets
      /\ UNCHANGED <<log, pc, req, todo, at, saw, result, changed>>
      /\ file' = [file EXCEPT ![u] = c] /\ edited' = edited \cup {u}
      /\ mine' = {m \in mine : m[1] # u} \cup {u} \X Held(u, c)
  BY InstallersAssumption DEF CoreInv, Edit, auditVars
<1>2. file'[u] = c /\ \A t \in Targets : t # u => file'[t] = file[t]
  BY <1>1 DEF TypeInv
<1>3. \A q : Reported(q)' = Reported(q)
  BY <1>1, OthersRecord DEF RecordKept
<1>4. \A q \in Proc : NewInv(q)'
  BY <1>1, <1>3, NewKept DEF OneInv
<1>5. ASSUME ~raced'
      PROVE  /\ SerialInv'
             /\ \A q \in Proc : FreshInv(q)'
             /\ \A t \in Docs : DocKept(t)'
             /\ \A t \in Targets : Explained(t)'
  <2>1. ~raced /\ \A q \in Proc : ~Running(q)
    BY <1>5 DEF Note
  <2>2. \A q \in Proc : ~Running(q)'
    BY <1>1, <2>1 DEF Running
  <2>3. /\ (\A t \in Docs : DocKept(t)) /\ (\A t \in Targets : Explained(t))
    BY <2>1 DEF OneInv
  <2>4. \A q \in Proc : FreshInv(q)'
    BY <2>2 DEF FreshInv, Running
  <2>5. ASSUME NEW t \in Docs PROVE DocKept(t)'
    <3>1. Mine(u)' = Held(u, c) /\ (t # u => Mine(t)' = Mine(t))
      BY <1>1, MineEdit
    <3>2. CASE t = u
      BY <1>2, <3>1, <3>2 DEF DocKept
    <3>3. CASE t # u
      <4>1. file'[t] = file[t] /\ \A q : Plan(q)' = Plan(q)
        BY <1>1, <1>2, <3>3, PlanKept DEF Targets
      <4>2. \A q \in Proc : Rewriting(q, t) => Rewriting(q, t)'
        BY <1>1, <4>1 DEF Rewriting
      <4> QED
        BY <1>1, <2>3, <3>1, <3>3, <4>1, <4>2 DEF DocKept
    <3> QED
      BY <3>2, <3>3
  <2>6. ASSUME NEW t \in Targets PROVE Explained(t)'
    <3>1. NamingKept(t)
      BY <1>1 DEF NamingKept, Naming
    <3>2. Unrecorded(t) => Unrecorded(t)'
      BY <1>1, <1>3, UnrecordedKept
    <3> QED
      BY <1>1, <1>2, <2>3, <3>1, <3>2, ExplainedKept
  <2> QED
    BY <2>2, <2>4, <2>5, <2>6 DEF SerialInv
<1>6. \A t \in Docs : DocInv(t)'
  BY DocInvEdit DEF OneInv
<1> QED
  BY <1>4, <1>5, <1>6 DEF OneInv

LEMMA OneStutter ==
  ASSUME CoreInv, OneInv, UNCHANGED vars
  PROVE  OneInv'
<1>1. \A q : Reported(q)' = Reported(q)
  BY OthersRecord DEF RecordKept, vars
<1>2. \A q \in Proc : NewInv(q)'
  BY <1>1, NewKept DEF OneInv, vars
<1>3. ASSUME ~raced PROVE SerialInv' /\ \A q \in Proc : FreshInv(q)'
  <2>1. SerialInv'
    BY <1>3 DEF OneInv, SerialInv, Running, vars
  <2>2. ASSUME NEW q \in Proc PROVE FreshInv(q)'
    <3>1. Job(q)' = Job(q) /\ Reads(q)' = Reads(q) /\ Plan(q)' = Plan(q)
      BY PlanKept DEF vars
    <3>2. FreshInv(q)
      BY <1>3 DEF OneInv
    <3> QED
      BY <3>1, <3>2 DEF FreshInv, Current, Done, vars
  <2> QED
    BY <2>1, <2>2
<1>4. ASSUME ~raced, NEW t \in Docs PROVE DocKept(t)'
  <2>1. Mine(t)' = Mine(t) /\ \A q : Plan(q)' = Plan(q)
    BY PlanKept DEF vars, Mine
  <2>2. \A q \in Proc : Rewriting(q, t) => Rewriting(q, t)'
    BY <2>1 DEF Rewriting, vars
  <2>3. DocKept(t)
    BY <1>4 DEF OneInv
  <2> QED
    BY <2>1, <2>2, <2>3 DEF DocKept, vars
<1>5. ASSUME ~raced, NEW t \in Targets PROVE Explained(t)'
  <2>1. NamingKept(t)
    BY DEF NamingKept, Naming, vars
  <2>2. Unrecorded(t) => Unrecorded(t)'
    BY <1>1, UnrecordedKept DEF vars
  <2> QED
    BY <1>5, <2>1, <2>2, ExplainedKept DEF OneInv, vars
<1>6. \A t \in Docs : DocInv(t)'
  BY DocInvStutter DEF OneInv
<1> QED
  BY <1>2, <1>3, <1>4, <1>5, <1>6 DEF OneInv, vars

LEMMA OneNext ==
  ASSUME CoreInv, TracedInv, OneInv, [Next]_vars
  PROVE  OneInv'
BY OneStep, OneEdit, OneStutter, NextCases

LEMMA OneAlways == Spec => [](CoreInv /\ TracedInv /\ OneInv)
<1>1. Init => CoreInv /\ TracedInv /\ OneInv
  BY CoreInit, TracedInit, OneInit
<1>2. CoreInv /\ TracedInv /\ OneInv /\ [Next]_vars => (CoreInv /\ TracedInv /\ OneInv)'
  BY CoreNext, TracedNext, OneNext
<1> QED
  BY <1>1, <1>2, PTL DEF Spec

LEMMA OneImpliesDocs ==
  ASSUME CoreInv, OneInv
  PROVE  UserDocKept
<1>1. SUFFICES ASSUME NEW t \in Docs, ~(Mine(t) \subseteq Held(t, file[t])),
                      \A p \in Proc : ~Rewriting(p, t)
               PROVE  raced /\ (t \in edited \/ \E p \in Proc : Blind(p, t))
  BY DEF UserDocKept
<1>2. raced
  BY <1>1 DEF OneInv, DocKept, CoreInv, TypeInv
<1>3. DocInv(t)
  BY DEF OneInv
<1>4. file[t] # Fitting(t)
  BY <1>1, <1>3, FittingIs DEF DocInv, MineIs
<1>5. t \in edited \/ \E p \in Proc : Blind(p, t)
  BY <1>1, <1>3, <1>4 DEF DocInv, Untouched, Settled
<1> QED
  BY <1>2, <1>5

LEMMA OneImpliesLog ==
  ASSUME OneInv
  PROVE  LogExplainsFiles
<1>1. SUFFICES ASSUME ~raced, NEW t \in Targets \ edited, Naming(t) # {}, ~Unrecorded(t)
               PROVE  Says(CHOOSE i \in Naming(t) : \A j \in Naming(t) : j <= i, t)
  BY DEF LogExplainsFiles
<1>2. PICK i \in Naming(t) : (\A j \in Naming(t) : j <= i) /\ Says(i, t)
  BY <1>1 DEF OneInv, Explained
<1>3. Naming(t) \subseteq Int
  BY DEF Naming
<1>4. \A k \in Naming(t) : (\A j \in Naming(t) : j <= k) => k = i
  BY <1>2, <1>3
<1>5. (CHOOSE k \in Naming(t) : \A j \in Naming(t) : j <= k) = i
  BY <1>2, <1>4
<1> QED
  BY <1>2, <1>5

\* Settings of the user in an IDE file, but for the four keys of autostart.json,
\* survive every command, but for one that is between truncating the file and
\* writing it or was stopped there; where commands and edits overlap, they are
\* lost only to one that did not see them, or that had the file open while the
\* user edited it.
THEOREM UserDocsKept == Spec => []UserDocKept
BY OneAlways, OneImpliesDocs, PTL

\* One command at a time, the last event on a file says what is there, unless
\* the user has edited it since or a change of it was never recorded.
THEOREM LogExplains == Spec => []LogExplainsFiles
BY OneAlways, OneImpliesLog, PTL

\* A step that changes where a command is is that command's own.
LEMMA ScriptNext ==
  ASSUME CoreInv, OneInv, [Next]_vars,
         NEW p \in Proc, NEW t \in Scripts,
         file[t] = "user", file'[t] # "user", pc'[p] # pc[p], ~raced'
  PROVE  /\ Job(p) \in req[p].approves
         /\ \/ req[p].command \in {"hook.repair", "wrap.install"}
            \/ IsInit(p) /\ ~req[p].keeps
<1>1. ~(UNCHANGED vars) /\ ~\E u \in Editable : \E c \in UserContent(u) : Edit(u, c)
  BY DEF vars, Edit
<1>2. PICK q \in Proc : (Step(q) \/ Kill(q)) /\ Note(\E r \in Proc \ {q} : Running(r))
  BY <1>1, NextCases
<1>3. q = p
  BY <1>2, OwnStep DEF CoreInv, Apart
<1>4. ~raced
  BY <1>2 DEF Note
<1> QED
  BY <1>2, <1>3, <1>4, ScriptStep DEF OneInv

\* One command at a time, a hook or wrapper of the user's own is replaced only
\* with approval, and never by hook install, an uninstall or init --no-overwrite.
THEOREM UserScriptsKept == Spec => UserScriptKept
<1> DEFINE A == \A p \in Proc, t \in Scripts :
                  file[t] = "user" /\ file'[t] # "user" /\ pc'[p] # pc[p] /\ ~raced' =>
                    /\ Job(p) \in req[p].approves
                    /\ \/ req[p].command \in {"hook.repair", "wrap.install"}
                       \/ IsInit(p) /\ ~req[p].keeps
<1>1. CoreInv /\ OneInv /\ [Next]_vars => [A]_vars
  BY ScriptNext
<1> QED
  BY <1>1, OneAlways, PTL DEF Spec, UserScriptKept
=============================================================================
