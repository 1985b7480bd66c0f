----------------------------- MODULE Installers -----------------------------
(***************************************************************************)
(* The commands that put atrakta into a project: the git hooks             *)
(* (internal/hook, cmd_hook.go), the wrapper script of a tool              *)
(* (internal/wrap, cmd_wrap.go), the IDE files (internal/ideautostart,     *)
(* cmd_ide_autostart.go), and init, which does all three and then starts   *)
(* (cmd_init.go, cmd_init_steps.go).                                       *)
(*                                                                         *)
(* Every command reads what is there, makes a plan, asks for approval,     *)
(* writes file by file and records an event; the user, and other commands, *)
(* may act between any two of these, the prompt being the longest of the   *)
(* pauses.  A write is a truncation and a write, and a command may be      *)
(* killed anywhere.  The run stream is what AuditLedger promises, as in    *)
(* Onboarding; the start at the end of init is Onboarding's and            *)
(* RunSession's, and only its outcome is seen here.                        *)
(***************************************************************************)
EXTENDS Naturals, Sequences, FiniteSets

CONSTANTS
  Proc,        \* the commands
  Requests,    \* what they may ask for, together
  Files0,      \* what the files may be to begin with
  Faulty,      \* an append may fail, or reading or writing a file, or a prompt
  Edits,       \* bound on the user's own edits of the files
  Editable,    \* the files the user edits
  Racers       \* bound on the commands of a behaviour in which two overlap

HookTypes == <<"pre-commit", "post-checkout">>
Hooks   == {"pre-commit", "post-checkout"}
Scripts == Hooks \cup {"wrap"}
Docs    == {"tasks", "cursor"}
Targets == Scripts \cup Docs

\* "stale" carries the marker but is not the script of this project.  Of the IDE
\* files, "user" has settings of the user's beside the keys that atrakta writes,
\* "custom" has values of the user's own under these keys too; "both" and "kept"
\* are what atrakta makes of them; "garbled" does not parse.
ScriptContent == {"absent", "empty", "ours", "stale", "user"}
DocContent    == {"absent", "empty", "ours", "both", "kept", "user", "custom", "garbled"}

Command == {"hook.install", "hook.uninstall", "hook.status", "hook.repair",
            "wrap.install", "wrap.uninstall", "wrap.run", "ide-autostart", "init"}

SetupSteps == {"wrap", "hook", "ide"}
Prompts == {"hook.install", "hook.repair", "wrap.install", "ide-autostart"} \cup SetupSteps

\* approves: the prompts that get a yes, each step of init having its own, or all
\* of them with --approve.  Of init: keeps is --no-overwrite, skips the --no-...
\* flags, resolves and onboards what entry.Resolve answers.
Request == [command : Command, hook : Hooks, approves : SUBSET Prompts, dry : BOOLEAN,
            keeps : BOOLEAN, skips : SUBSET SetupSteps,
            resolves : BOOLEAN, onboards : BOOLEAN]

ASSUME InstallersAssumption ==
  /\ Requests \subseteq [Proc -> Request]
  /\ Files0 \subseteq [Targets -> ScriptContent \cup DocContent]
  /\ \A f \in Files0 : /\ \A t \in Scripts : f[t] \in ScriptContent
                       /\ \A t \in Docs : f[t] \in DocContent
  /\ Faulty \in BOOLEAN
  /\ Edits \in Nat
  /\ Editable \subseteq Targets
  /\ Racers \in Nat

VARIABLES
  file,      \* the content of each target
  log,       \* the events a reader of the run stream accepts
  frozen,    \* the stream no longer verifies
  pc,        \* where each command is
  req,       \* its arguments
  todo,      \* the steps before it: one, or those of init
  at,        \* the file of the step it is reading or writing
  saw,       \* what it read
  result,    \* the status it reports, or the one of the step
  steps,     \* CompletedSteps of init's setup
  changed,   \* history: the files it changed
  edited,    \* history: the files the user changed last
  mine,      \* history: the settings of the user in the IDE files
  spent,     \* the user's edits so far
  raced      \* history: two commands overlapped, or the user and a command

vars == <<file, log, frozen, pc, req, todo, at, saw, result, steps, changed,
          edited, mine, spent, raced>>
auditVars == <<log, frozen>>
userVars == <<mine, spent>>

-----------------------------------------------------------------------------
(* The files *)

Managed(c) == c \in {"ours", "stale"}
Drift(c)   == c \notin {"absent", "ours"}

\* Mutant: the document is rendered from nothing.
DesiredFresh(t, c) == "ours"

\* The settings of the user in an IDE file that a rewrite keeps: in tasks.json
\* all, where a version and a task of atrakta's name stay as they are; in
\* autostart.json those beside the four keys, which are always overwritten.
Part == {"beside", "under"}
Held(t, c) ==
  IF t \notin Docs \/ c \notin {"user", "both", "custom", "kept"} THEN {}
  ELSE IF t = "tasks" /\ c \in {"custom", "kept"} THEN Part ELSE {"beside"}

\* The script of the project; the user's document with atrakta's part in it.
Desired(t, c) ==
  IF Held(t, c) = {} THEN "ours" ELSE IF "under" \in Held(t, c) THEN "kept" ELSE "both"

\* Writing to a file opened earlier: what others have put there since shows
\* behind a shorter text, and a file removed since is written to no avail.
Overlay(t, now, c) ==
  IF now = "absent" THEN {"absent"}
  ELSE IF now \in {"empty", c} THEN {c}
  ELSE {c, IF t \in Docs THEN "garbled" ELSE "stale"}

-----------------------------------------------------------------------------
(* The steps of a command *)

IsInit(p) == req[p].command = "init"
Job(p) == Head(todo[p])

\* The setup of init is three steps, less the ones skipped.
Wanted(r, j) == IF j \in r.skips THEN <<>> ELSE <<j>>
Jobs(r) == IF r.command # "init" THEN <<r.command>>
           ELSE IF r.onboards THEN Wanted(r, "wrap") \o Wanted(r, "hook") \o Wanted(r, "ide")
           ELSE <<>>

\* What the plan of a step reads, and what it would write or remove.
Reads(p) ==
  CASE Job(p) \in {"hook.install", "hook.uninstall"} -> <<req[p].hook>>
    [] Job(p) = "hook" -> <<"pre-commit">>
    [] Job(p) \in {"hook.status", "hook.repair"} -> HookTypes
    [] Job(p) = "wrap.install" -> <<>>
    [] Job(p) \in {"wrap.uninstall", "wrap.run", "wrap"} -> <<"wrap">>
    [] Job(p) \in {"ide-autostart", "ide"} -> <<"tasks", "cursor">>

Drifted(p, h) == IF Drift(saw[p][h]) THEN <<h>> ELSE <<>>

Plan(p) ==
  CASE Job(p) = "hook.repair" -> Drifted(p, "pre-commit") \o Drifted(p, "post-checkout")
    [] Job(p) = "wrap.install" -> <<"wrap">>
    [] Job(p) \in {"hook.status", "wrap.run"} -> <<>>
    [] OTHER -> Reads(p)

Unread == [t \in Targets |-> "absent"]
Enter(jobs) == IF jobs = <<>> THEN "start"
               ELSE IF Head(jobs) = "wrap.install" THEN "decide" ELSE "read"

PC == {"idle", "read", "decide", "gate", "truncate", "write", "remove", "exec",
       "event", "step", "start", "end", "done", "killed"}
Result == {"none", "ok", "skipped", "skipped_existing", "up_to_date", "installed",
           "uninstalled", "repaired", "completed", "failed",
           "needs_input", "needs_approval", "error", "io_error"}
Running(p) == pc[p] \notin {"idle", "done", "killed"}
Goto(p, l) == pc' = [pc EXCEPT ![p] = l]

\* The step ends: init records it, another command reports it and exits.
Conclude(p, r) ==
  /\ result' = [result EXCEPT ![p] = r]
  /\ Goto(p, IF IsInit(p) THEN "step" ELSE "done")
  /\ UNCHANGED steps

\* A runtime error; init.end of a setup that failed counts no steps.
Break(p, r) ==
  /\ result' = [result EXCEPT ![p] = r]
  /\ steps' = [steps EXCEPT ![p] = 0]
  /\ Goto(p, IF IsInit(p) THEN "end" ELSE "done")
Fail(p) == Break(p, "error")

Entry(p, event, on, status) ==
  [by |-> p, event |-> event, on |-> on, status |-> status, count |-> steps[p]]
Recorded(e) == ~frozen /\ log' = Append(log, e) /\ UNCHANGED frozen
Refused(e)  == (Faulty \/ frozen) /\ log' \in {log, Append(log, e)} /\ frozen' = TRUE

Init ==
  /\ file \in Files0
  /\ log = <<>>
  /\ frozen = FALSE
  /\ pc = [p \in Proc |-> "idle"]
  /\ req \in Requests
  /\ todo = [p \in Proc |-> Jobs(req[p])]
  /\ at = [p \in Proc |-> 1]
  /\ saw = [p \in Proc |-> Unread]
  /\ result = [p \in Proc |-> "none"]
  /\ steps = [p \in Proc |-> 0]
  /\ changed = [p \in Proc |-> {}]
  /\ edited = {}
  /\ mine = {m \in Docs \X Part : m[2] \in Held(m[1], file[m[1]])}
  /\ spent = 0
  /\ raced = FALSE

-----------------------------------------------------------------------------
(* Begin, read, decide *)

Begin(p) ==
  /\ pc[p] = "idle" /\ ~IsInit(p)
  /\ Goto(p, Enter(todo[p]))
  /\ UNCHANGED <<file, auditVars, req, todo, at, saw, result, steps, changed, edited, userVars>>

\* init.begin is recorded before any approval; init.end is deferred after it.
InitBegin(p) ==
  /\ pc[p] = "idle" /\ IsInit(p)
  /\ IF req[p].resolves
       THEN \/ /\ Recorded(Entry(p, "init.begin", {}, "ok"))
               /\ Goto(p, Enter(todo[p]))
               /\ UNCHANGED result
            \/ /\ Refused(Entry(p, "init.begin", {}, "ok"))
               /\ Goto(p, "done")
               /\ result' = [result EXCEPT ![p] = "error"]
       ELSE /\ Goto(p, "done")
            /\ result' = [result EXCEPT ![p] = "needs_input"]
            /\ UNCHANGED auditVars
  /\ UNCHANGED <<file, req, todo, at, saw, steps, changed, edited, userVars>>

\* Files are read one after the other; an IDE file must parse.
Read(p) ==
  /\ pc[p] = "read"
  /\ LET t == Reads(p)[at[p]]
         last == at[p] = Len(Reads(p))
     IN /\ saw' = [saw EXCEPT ![p][t] = file[t]]
        /\ IF file[t] = "garbled" THEN Fail(p) /\ UNCHANGED at
           ELSE /\ at' = [at EXCEPT ![p] = IF last THEN 1 ELSE @ + 1]
                /\ Goto(p, IF last THEN "decide" ELSE "read")
                /\ UNCHANGED <<result, steps>>
  /\ UNCHANGED <<file, auditVars, req, todo, changed, edited, userVars>>

Proceed(p, l) == Goto(p, l) /\ UNCHANGED <<result, steps>>
Deciding(p, jobs) == pc[p] = "decide" /\ Job(p) \in jobs
StillHere == UNCHANGED <<file, auditVars, req, todo, at, saw, changed, edited, userVars>>

\* An existing hook is never replaced, approved or not.
DecideHookInstall(p) ==
  /\ Deciding(p, {"hook.install"})
  /\ IF saw[p][req[p].hook] # "absent" THEN Conclude(p, "needs_approval")
     ELSE IF req[p].dry THEN Conclude(p, "ok")
     ELSE Proceed(p, "gate")
  /\ StillHere

\* No approval is asked for.
DecideHookUninstall(p) ==
  /\ Deciding(p, {"hook.uninstall"})
  /\ IF ~Managed(saw[p][req[p].hook]) THEN Conclude(p, "skipped")
     ELSE IF req[p].dry THEN Conclude(p, "ok")
     ELSE Proceed(p, "remove")
  /\ StillHere

\* hook status reports and records that it did.
DecideHookStatus(p) ==
  /\ Deciding(p, {"hook.status"})
  /\ Proceed(p, "event")
  /\ StillHere

\* All that has drifted is repaired, atrakta's or not.
DecideHookRepair(p) ==
  /\ Deciding(p, {"hook.repair"})
  /\ Proceed(p, IF Plan(p) = <<>> THEN "event" ELSE "gate")
  /\ StillHere

\* Nothing of an existing wrapper is looked at before it is replaced.
DecideWrapInstall(p) ==
  /\ Deciding(p, {"wrap.install"})
  /\ IF req[p].dry THEN Conclude(p, "ok") ELSE Proceed(p, "gate")
  /\ StillHere

DecideWrapUninstall(p) ==
  /\ Deciding(p, {"wrap.uninstall"})
  /\ IF ~Managed(saw[p]["wrap"]) THEN Fail(p)
     ELSE IF req[p].dry THEN Conclude(p, "ok")
     ELSE Proceed(p, "remove")
  /\ StillHere

DecideWrapRun(p) ==
  /\ Deciding(p, {"wrap.run"})
  /\ IF Managed(saw[p]["wrap"]) THEN Proceed(p, "exec")
     ELSE Goto(p, "event") /\ result' = [result EXCEPT ![p] = "failed"] /\ UNCHANGED steps
  /\ StillHere

DecideIDE(p) ==
  /\ Deciding(p, {"ide-autostart"})
  /\ IF req[p].dry THEN Conclude(p, "ok") ELSE Proceed(p, "gate")
  /\ StillHere

\* The step of init: an asset that is as it should be stays, an existing one
\* stays under --no-overwrite; an empty IDE file does not count as existing.
Exists(t, c) == c # "absent" /\ ~(t \in Docs /\ c = "empty")

\* Mutant: --no-overwrite is forgotten.
DecideStepOverwrites(p) ==
  /\ Deciding(p, {"wrap", "hook", "ide"})
  /\ LET S == {Reads(p)[i] : i \in 1..Len(Reads(p))}
     IN IF \A t \in S : saw[p][t] = Desired(t, saw[p][t]) THEN Conclude(p, "up_to_date")
        ELSE Proceed(p, "gate")
  /\ StillHere

DecideStep(p) ==
  /\ Deciding(p, {"wrap", "hook", "ide"})
  /\ LET S == {Reads(p)[i] : i \in 1..Len(Reads(p))}
     IN IF \A t \in S : saw[p][t] = Desired(t, saw[p][t]) THEN Conclude(p, "up_to_date")
        ELSE IF req[p].keeps /\ \E t \in S : Exists(t, saw[p][t])
          THEN Conclude(p, "skipped_existing")
        ELSE Proceed(p, "gate")
  /\ StillHere

-----------------------------------------------------------------------------
(* Gate, write, record *)

Gate(p) ==
  /\ pc[p] = "gate"
  /\ IF Job(p) \in req[p].approves THEN Proceed(p, "truncate")
     ELSE Conclude(p, "needs_approval")
  /\ StillHere

Truncate(p) ==
  /\ pc[p] = "truncate"
  /\ LET t == Plan(p)[at[p]]
     IN /\ file' = [file EXCEPT ![t] = "empty"]
        /\ changed' = [changed EXCEPT ![p] = @ \cup {t}]
        /\ edited' = edited \ {t}
  /\ Proceed(p, "write")
  /\ UNCHANGED <<auditVars, req, todo, at, saw, userVars>>

WriteFile(p) ==
  /\ pc[p] = "write"
  /\ LET t == Plan(p)[at[p]]
         last == at[p] = Len(Plan(p))
     IN /\ \E c \in Overlay(t, file[t], Desired(t, saw[p][t])) :
             file' = [file EXCEPT ![t] = c]
        /\ at' = [at EXCEPT ![p] = IF last THEN 1 ELSE @ + 1]
        /\ Proceed(p, IF last THEN "event" ELSE "truncate")
  /\ UNCHANGED <<auditVars, req, todo, saw, changed, edited, userVars>>

Remove(p) ==
  /\ pc[p] = "remove"
  /\ LET t == Plan(p)[1]
     IN IF file[t] = "absent" THEN Fail(p) /\ UNCHANGED <<file, changed, edited>>
        ELSE /\ file' = [file EXCEPT ![t] = "absent"]
             /\ changed' = [changed EXCEPT ![p] = @ \cup {t}]
             /\ edited' = edited \ {t}
             /\ Proceed(p, "event")
  /\ UNCHANGED <<auditVars, req, todo, at, saw, userVars>>

\* A file cannot be read, made or removed, or a truncated one not be filled, or
\* the prompt not be read: whatever the plan has got to, the command ends there
\* and records no event.  wrap run takes an unreadable wrapper for a missing one.
Breakdown(p) ==
  /\ Faulty
  /\ \/ pc[p] = "read" /\ Job(p) # "wrap.run"
     \/ pc[p] \in {"gate", "truncate", "write", "remove"}
  /\ Break(p, "io_error")
  /\ StillHere

\* The wrapper is started from its path; how it ends is its own affair.
Exec(p) ==
  /\ pc[p] = "exec"
  /\ \E r \in {"completed", "failed"} :
       /\ file["wrap"] \in {"absent", "empty"} => r = "failed"
       /\ result' = [result EXCEPT ![p] = r]
  /\ Goto(p, "event")
  /\ UNCHANGED steps
  /\ StillHere

Events == {"hook_install", "hook_uninstall", "hook_status_check", "hook_repair",
           "wrap_install", "wrap_uninstall", "wrap_run", "ide_autostart_install"}
Event(p) ==
  CASE Job(p) \in {"hook.install", "hook"}  -> <<"hook_install", "installed">>
    [] Job(p) = "hook.uninstall"            -> <<"hook_uninstall", "uninstalled">>
    [] Job(p) = "hook.status"               -> <<"hook_status_check", "ok">>
    [] Job(p) = "hook.repair"               ->
         <<"hook_repair", IF Plan(p) = <<>> THEN "ok" ELSE "repaired">>
    [] Job(p) \in {"wrap.install", "wrap"}  -> <<"wrap_install", "installed">>
    [] Job(p) = "wrap.uninstall"            -> <<"wrap_uninstall", "uninstalled">>
    [] Job(p) = "wrap.run"                  -> <<"wrap_run", result[p]>>
    [] Job(p) \in {"ide-autostart", "ide"}  -> <<"ide_autostart_install", "installed">>

\* Mutant: the event of a repair names the hooks that were looked at.
OnEventAll(p) ==
  IF Job(p) = "hook.repair" THEN Hooks ELSE {Plan(p)[i] : i \in 1..Len(Plan(p))}

OnEvent(p) == {Plan(p)[i] : i \in 1..Len(Plan(p))}

\* Mutant: the command ends without its event.
RecordEventNever(p) ==
  /\ pc[p] = "event"
  /\ Conclude(p, Event(p)[2])
  /\ StillHere

RecordEvent(p) ==
  /\ pc[p] = "event"
  /\ LET e == Entry(p, Event(p)[1], OnEvent(p), Event(p)[2])
     IN \/ Recorded(e) /\ Conclude(p, Event(p)[2])
        \/ Refused(e) /\ Fail(p)
  /\ UNCHANGED <<file, req, todo, at, saw, changed, edited, userVars>>

-----------------------------------------------------------------------------
(* The rest of init *)

\* Mutant: the setup goes on after a step that was not approved.
InitStepOn(p) ==
  /\ pc[p] = "step"
  /\ LET e == Entry(p, "init.step", {Job(p)}, result[p])
     IN \/ /\ Recorded(e)
           /\ todo' = [todo EXCEPT ![p] = Tail(@)]
           /\ steps' = [steps EXCEPT ![p] = @ + IF result[p] = "installed" THEN 1 ELSE 0]
           /\ Goto(p, Enter(Tail(todo[p])))
           /\ UNCHANGED result
        \/ Refused(e) /\ Fail(p) /\ UNCHANGED todo
  /\ UNCHANGED <<file, req, at, saw, changed, edited, userVars>>

\* appendInitStepEvent, with the name of the step; a step without approval
\* ends the setup.
InitStep(p) ==
  /\ pc[p] = "step"
  /\ LET e == Entry(p, "init.step", {Job(p)}, result[p])
     IN \/ /\ Recorded(e)
           /\ IF result[p] = "needs_approval"
                THEN Goto(p, "end") /\ UNCHANGED <<todo, steps>>
                ELSE /\ todo' = [todo EXCEPT ![p] = Tail(@)]
                     /\ steps' = [steps EXCEPT ![p] =
                                    @ + IF result[p] = "installed" THEN 1 ELSE 0]
                     /\ Goto(p, Enter(Tail(todo[p])))
           /\ UNCHANGED result
        \/ Refused(e) /\ Fail(p) /\ UNCHANGED todo
  /\ UNCHANGED <<file, req, at, saw, changed, edited, userVars>>

\* startCommand; it appends to the same stream.
Start(p) ==
  /\ pc[p] = "start"
  /\ frozen' \in {frozen, frozen \/ Faulty}
  /\ \E r \in {"ok", "needs_input", "needs_approval", "error"} :
       /\ r = "ok" => ~frozen'
       /\ result' = [result EXCEPT ![p] = r]
  /\ Goto(p, "end")
  /\ UNCHANGED <<file, log, req, todo, at, saw, steps, changed, edited, userVars>>

EndStatus(p) ==
  IF result[p] = "ok" THEN "ok"
  ELSE IF result[p] \in {"error", "io_error"} THEN "error"
  ELSE IF todo[p] # <<>> THEN "needs_approval" ELSE "non_ok"

\* The deferred init.end; an append that fails is ignored.
InitEnd(p) ==
  /\ pc[p] = "end"
  /\ LET e == Entry(p, "init.end", {}, EndStatus(p)) IN Recorded(e) \/ Refused(e)
  /\ Goto(p, "done")
  /\ UNCHANGED <<file, req, todo, at, saw, result, steps, changed, edited, userVars>>

-----------------------------------------------------------------------------
(* Faults and the user *)

Kill(p) ==
  /\ Running(p)
  /\ Goto(p, "killed")
  /\ UNCHANGED <<result, steps>> /\ StillHere

UserContent(t) == IF t \in Docs THEN {"absent", "user", "custom", "garbled"}
                  ELSE {"absent", "user", "stale"}

Edit(t, c) ==
  /\ spent < Edits /\ file[t] # c
  /\ file' = [file EXCEPT ![t] = c]
  /\ edited' = edited \cup {t}
  /\ mine' = {m \in mine : m[1] # t} \cup {t} \X Held(t, c)
  /\ spent' = spent + 1
  /\ UNCHANGED <<auditVars, pc, req, todo, at, saw, result, steps, changed>>

Step(p) ==
  \/ Begin(p) \/ InitBegin(p) \/ Read(p)
  \/ DecideHookInstall(p) \/ DecideHookUninstall(p)
  \/ DecideHookStatus(p) \/ DecideHookRepair(p)
  \/ DecideWrapInstall(p) \/ DecideWrapUninstall(p) \/ DecideWrapRun(p)
  \/ DecideIDE(p) \/ DecideStep(p)
  \/ Gate(p) \/ Truncate(p) \/ WriteFile(p) \/ Remove(p) \/ Breakdown(p)
  \/ Exec(p) \/ RecordEvent(p) \/ InitStep(p) \/ Start(p) \/ InitEnd(p)

User == \E t \in Editable : \E c \in UserContent(t) : Edit(t, c)

Note(overlap) ==
  /\ raced' = (raced \/ overlap)
  /\ raced' => Cardinality({p \in Proc : pc'[p] # "idle"}) <= Racers

Next ==
  \/ \E p \in Proc : (Step(p) \/ Kill(p)) /\ Note(\E q \in Proc \ {p} : Running(q))
  \/ User /\ Note(\E p \in Proc : Running(p))

Spec == Init /\ [][Next]_vars

-----------------------------------------------------------------------------
(* Properties *)

\* The types of the variables.
TypeOK ==
  /\ file \in [Targets -> ScriptContent \cup DocContent]
  /\ \A t \in Scripts : file[t] \in ScriptContent
  /\ \A t \in Docs : file[t] \in DocContent
  /\ \A i \in 1..Len(log) : log[i].by \in Proc /\ log[i].count \in 0..3
  /\ frozen \in BOOLEAN
  /\ pc \in [Proc -> PC]
  /\ req \in Requests
  /\ \A p \in Proc : pc[p] \in {"read", "truncate", "write"} =>
        at[p] \in 1..Len(IF pc[p] = "read" THEN Reads(p) ELSE Plan(p))
  /\ result \in [Proc -> Result]
  /\ steps \in [Proc -> 0..3]
  /\ changed \in [Proc -> SUBSET Targets]
  /\ edited \subseteq Targets /\ mine \subseteq Docs \X Part
  /\ spent \in 0..Edits
  /\ raced \in BOOLEAN

EventsOf(p, E) == {i \in 1..Len(log) : log[i].by = p /\ log[i].event \in E}
Reported(p) == UNION {log[i].on : i \in EventsOf(p, Events)}

\* What a command has changed is what its events say it has, however commands
\* and edits interleave, unless the stream broke or a file could not be written;
\* and then what is missing from its events are the first files of the one step
\* it ended in, the earlier steps of an init being on record
\* (autostart.go:70-80, cmd_hook.go:327-330).
Halted(p) == IF todo[p] = <<>> THEN <<>> ELSE Plan(p)
ChangesReported ==
  \A p \in Proc : pc[p] = "done" =>
    /\ \/ result[p] = "io_error"
       \/ result[p] = "error" /\ frozen
       \/ changed[p] = Reported(p)
    /\ \E k \in 0..Len(Halted(p)) :
         changed[p] = Reported(p) \cup {Halted(p)[i] : i \in 1..k}

\* Every init that got past its first event ends with one that tells how it
\* went, unless it was killed or the stream broke: a setup goes through all its
\* steps or stops at the first that is refused, and what it has changed by then
\* is what the steps it says are installed change, as many as it counts.
SetupTargets(j) == CASE j = "wrap" -> {"wrap"} [] j = "hook" -> {"pre-commit"} [] OTHER -> Docs
InstalledSteps(p) ==
  {i \in EventsOf(p, {"init.step"}) : log[i].status = "installed"}
RefusedSteps(p) ==
  {i \in EventsOf(p, {"init.step"}) : log[i].status = "needs_approval"}
InitTraced ==
  \A p \in Proc : pc[p] = "done" /\ IsInit(p) /\ result[p] # "needs_input" /\ ~frozen =>
    \E i \in EventsOf(p, {"init.end"}) :
      /\ log[i].status = "needs_approval" =>
           \E j \in RefusedSteps(p) :
             /\ log[j].on \cap req[p].approves = {}
             /\ \A k \in EventsOf(p, {"init.step"}) : k = j \/ (k < j /\ k \notin RefusedSteps(p))
      /\ log[i].status \in {"ok", "non_ok"} =>
           /\ Cardinality(EventsOf(p, {"init.step"})) = Len(Jobs(req[p]))
           /\ RefusedSteps(p) = {}
      /\ log[i].status # "error" =>
           /\ log[i].count = Cardinality(InstalledSteps(p))
           /\ changed[p] = UNION {UNION {SetupTargets(s) : s \in log[j].on} :
                                    j \in InstalledSteps(p)}

\* One command at a time: a hook or wrapper of the user's own is replaced only
\* with approval, and never by hook install, an uninstall or init --no-overwrite.
UserScriptKept ==
  [][\A p \in Proc, t \in Scripts :
       file[t] = "user" /\ file'[t] # "user" /\ pc'[p] # pc[p] /\ ~raced' =>
         /\ Job(p) \in req[p].approves
         /\ \/ req[p].command \in {"hook.repair", "wrap.install"}
            \/ IsInit(p) /\ ~req[p].keeps]_vars

\* Settings of the user in the IDE files survive every command, but for the four
\* keys of autostart.json.  They are lost only by a command that is between
\* truncating the file and writing it, or was stopped there; and, where commands
\* and edits overlap, by one that did not see just these settings when it read
\* the file, or that had the file open while the user edited it.
Rewriting(p, t) ==
  /\ pc[p] \in {"write", "killed"} \/ result[p] = "io_error"
  /\ t \in changed[p] /\ todo[p] # <<>>
  /\ \E i \in 1..Len(Plan(p)) : i = at[p] /\ Plan(p)[i] = t
Mine(t) == {m[2] : m \in {n \in mine : n[1] = t}}
Blind(p, t) == t \in changed[p] /\ Held(t, saw[p][t]) # Mine(t)
UserDocKept ==
  \A t \in Docs :
    \/ Mine(t) \subseteq Held(t, file[t])
    \/ \E p \in Proc : Rewriting(p, t)
    \/ raced /\ (t \in edited \/ \E p \in Proc : Blind(p, t))

\* One command at a time: the last event on a file says what is there, unless
\* the user has edited it since, or a command changed it and was killed or
\* failed before it could record so.
Naming(t) == {i \in 1..Len(log) : log[i].event \in Events /\ t \in log[i].on}
Says(i, t) == IF log[i].status = "uninstalled" THEN file[t] = "absent"
              ELSE file[t] \in IF t = "tasks" THEN {"ours", "both", "kept"} ELSE {"ours", "both"}
Unrecorded(t) == \E p \in Proc : t \in changed[p] /\ t \notin Reported(p)
LogExplainsFiles ==
  ~raced => \A t \in Targets \ edited : Naming(t) # {} /\ ~Unrecorded(t) =>
    Says(CHOOSE i \in Naming(t) : \A j \in Naming(t) : j <= i, t)

=============================================================================
