----------------------------- MODULE RunSession -----------------------------
(***************************************************************************)
(* run, start and resume on an onboarded store, from the interface they    *)
(* resolve to the files they save: the fast path (internal/startfast), the *)
(* managed apply with its gates (cmd_run_lifecycle.go, internal/mutation)  *)
(* and what a session leaves for the next one (internal/run).              *)
(*                                                                         *)
(* A process is one command.  Once it has chosen a route it takes the      *)
(* steps of that route in order, and commands interleave at each of them:  *)
(* an append to an audit stream, or a file, truncated and then written.  A *)
(* command may be killed anywhere.                                         *)
(*                                                                         *)
(* "Inputs" stands for everything ComputeKey hashes besides the interface: *)
(* the contract, the policy index and the names of the detected assets.    *)
(* Left out: files that no command reads back for a decision (state.json,  *)
(* progress.json, saved with the task graph), and the handoff's actions    *)
(* "apply" and "deny", which no command writes.  The audit streams are     *)
(* what AuditLedger promises, as in Onboarding.                            *)
(***************************************************************************)
EXTENDS Naturals, Sequences, FiniteSets

CONSTANTS
  Proc,        \* the commands
  Requests,    \* what they may ask for
  Interfaces,  \* the interface ids
  Detected,    \* the one detection finds when none is given or saved
  Inputs,      \* the states the workspace may be in
  Portable,    \* those whose surfaces the interface supports
  Targets,     \* the generated targets, in the order in which they are applied
  Faults,      \* bound on the kills, and on the streams in which an append
               \* meets a racing append or a torn write
  Edits,       \* bound on the user's changes of the inputs
  Racers       \* bound on the commands of a behaviour in which two overlap

Request == [command : {"run", "start", "resume"}, apply : BOOLEAN,
            approves : BOOLEAN, interface : Interfaces \cup {"unset"}]

T == {Targets[i] : i \in 1..Len(Targets)}
Files == T \cup {"run-state", "snapshot", "auto", "graph", "handoff"}
Streams == {"install", "run"}
Events == {"run_execute", "begin", "end", "detect.performed", "plan.created", "apply.begin",
           "gate.result", "apply.performed"}

ASSUME SessionAssumption ==
  /\ "none" \notin Proc
  /\ Requests \subseteq Request
  /\ Detected \in Interfaces
  /\ Portable \subseteq Inputs
  /\ Targets \in Seq(STRING)
  /\ T \cap {"run-state", "snapshot", "auto", "graph", "handoff"} = {}
  /\ Faults \in Nat
  /\ Edits \in Nat
  /\ Racers \in Nat

VARIABLES
  inputs,     \* the workspace
  disk,       \* what each file holds, if it is not torn
  torn,       \* the files truncated and not yet written
  recorded,   \* the events a reader of each stream accepts
  frozen,     \* the streams that no longer verify
  pc,         \* where each command is
  req,        \* its arguments
  iface,      \* the interface it has resolved
  seen,       \* the inputs it detected and planned for
  key,        \* the fast-path key it computed last
  merged,     \* the task graph it is about to write
  route,      \* the route it takes
  n,          \* the step of that route it is at
  inspected,  \* history: the inputs and interfaces some command planned for
  last,       \* history: the interface of the last session that finished
  edits,      \* the user's changes so far
  raced       \* history: two commands overlapped, or the user and a command

fileVars  == <<disk, torn>>
auditVars == <<recorded, frozen>>
procVars  == <<req, iface, seen, key, merged, route>>
opVars    == <<inputs, inspected, last, edits>>
vars == <<inputs, disk, torn, recorded, frozen, pc, req, iface, seen, key, merged,
          route, n, inspected, last, edits, raced>>

-----------------------------------------------------------------------------
(* What the files hold *)

Key == [inputs : Inputs \cup {"none"}, interface : Interfaces \cup {"none"}, apply : BOOLEAN]
NoKey == [inputs |-> "none", interface |-> "none", apply |-> FALSE]
Status == {"none", "planned", "applied"}
Graph == [T -> Status]
NoGraph == [t \in T |-> "none"]

ContentOf(f) == CASE f = "snapshot" -> Key
                  [] f = "graph" -> Graph
                  [] f \in {"auto", "handoff"} -> Interfaces \cup {"none"}
                  [] OTHER -> Proc \cup {"none"}

Session(p) == req[p].command # "run"

\* Mutant: the inputs are not part of the key.
KeyOfInterface(p) ==
  [inputs |-> CHOOSE i \in Inputs : TRUE, interface |-> iface[p], apply |-> req[p].apply]
KeyNow(p) == [inputs |-> inputs, interface |-> iface[p], apply |-> req[p].apply]

\* IsMatch, with the conditions that surround its call.  The legacy key is the
\* one of a snapshot saved without apply.
Matches(snap, k) == snap # NoKey /\ ~snap.apply /\ snap = k

\* Mutant: a replay writes what it planned.
Overwrite(existing, next) == next

\* mergeSessionTaskGraph: every plan lists every target.
Merge(existing, next) ==
  [t \in T |-> IF existing[t] = "applied" THEN "applied" ELSE next[t]]

\* buildSessionTaskNodes.
Nodes(p) == [t \in T |-> IF route[p] = "apply" THEN "applied" ELSE "planned"]

\* What p writes into f; a target and the run state carry their writer.
Content(p, f) == CASE f = "snapshot" -> key[p]
                   [] f = "graph" -> merged[p]
                   [] f \in {"auto", "handoff"} -> iface[p]
                   [] OTHER -> p

-----------------------------------------------------------------------------
(* The routes, each a sequence of steps *)

File(f) == <<"file", f>>
Event(s, e) == <<s, e>>
Only(condition, steps) == IF condition THEN steps ELSE <<>>

\* saveStartFastSnapshot, saveStartAutoState, saveSessionRuntimeArtifacts and
\* saveStartHandoff, of which run saves nothing.
Saves == <<File("snapshot"), File("auto"), <<"merge", "graph">>, File("graph"),
           File("handoff")>>

Fast == <<Event("install", "run_execute"), File("auto"), File("handoff"),
          Event("run", "end")>>

Look(p) ==
  Only(Session(p), <<Event("run", "detect.performed"), Event("run", "plan.created")>>)
  \o Only(req[p].apply, <<Event("install", "run_execute"), Event("run", "apply.begin")>>)

Unsupported(p) ==
  Only(Session(p), <<Event("run", "gate.result")>>)
  \o <<Event("install", "run_execute")>>
  \o Only(Session(p), <<Event("run", "end")>> \o Saves)

\* Mutant: a refusal is closed like a success.
RefusedEnds(p) ==
  <<Event("install", "run_execute"), Event("run", "gate.result"), Event("run", "end")>>

Refused(p) ==
  Only(Session(p), <<Event("run", "gate.result")>>)
  \o <<Event("install", "run_execute"), Event("run", "gate.result")>>

\* Mutant: all files first.
WritesThenAudits ==
  [i \in 1..2 * Len(Targets) |->
     IF i <= Len(Targets) THEN File(Targets[i])
     ELSE Event("install", Targets[i - Len(Targets)])]

\* mutation.Apply for each target: the file, then its apply_mutation event,
\* which carries the target's name here.
Mutations ==
  [i \in 1..2 * Len(Targets) |->
     IF i % 2 = 1 THEN File(Targets[(i + 1) \div 2])
     ELSE Event("install", Targets[i \div 2])]

\* Mutant: the run state is written before the targets.
StateFirst(p) ==
  <<File("run-state")>> \o Mutations
  \o <<Event("install", "run_execute"), Event("run", "apply.performed")>>
  \o Only(Session(p), Saves)

Apply(p) ==
  Mutations
  \o <<File("run-state"), Event("install", "run_execute"), Event("run", "apply.performed")>>
  \o Only(Session(p), Saves)

Inspect(p) ==
  <<Event("install", "run_execute")>>
  \o Only(Session(p), <<Event("run", "end"), Event("run", "gate.result")>> \o Saves)

Steps(p) == CASE route[p] = "begin"       -> Only(Session(p), <<Event("run", "begin")>>)
              [] route[p] = "fast"        -> Fast
              [] route[p] = "look"        -> Look(p)
              [] route[p] = "unsupported" -> Unsupported(p)
              [] route[p] = "refused"     -> Refused(p)
              [] route[p] = "apply"       -> Apply(p)
              [] route[p] = "inspect"     -> Inspect(p)

Final == {"fast", "unsupported", "refused", "apply", "inspect"}
PC == {"idle", "handoff", "enter", "go", "write", "preflightInstall", "preflightRun",
       "key", "match", "look", "ok", "needs_approval", "error", "killed"}
Stopped == {"ok", "needs_approval", "error", "killed"}
Running(p) == pc[p] \notin Stopped \cup {"idle"}
Faultable == Cardinality(frozen) + Cardinality({p \in Proc : pc[p] = "killed"}) < Faults
Goto(p, l) == pc' = [pc EXCEPT ![p] = l]
At(p, steps) == pc[p] = "go" /\ n[p] <= Len(Steps(p)) /\ Steps(p)[n[p]][1] \in steps
Item(p) == Steps(p)[n[p]][2]
Done(p, r) == pc[p] = "go" /\ route[p] = r /\ n[p] > Len(Steps(p))
Take(p, r) == route' = [route EXCEPT ![p] = r] /\ n' = [n EXCEPT ![p] = 1]
Advance(p) == n' = [n EXCEPT ![p] = @ + 1] /\ Goto(p, "go")

Init ==
  /\ inputs \in Inputs
  /\ disk = [f \in Files |-> CASE f = "snapshot" -> NoKey
                               [] f = "graph" -> NoGraph
                               [] OTHER -> "none"]
  /\ torn = {}
  /\ recorded = [s \in Streams |-> {}]
  /\ frozen = {}
  /\ pc = [p \in Proc |-> "idle"]
  /\ req \in [Proc -> Requests]
  /\ iface = [p \in Proc |-> req[p].interface]
  /\ seen = [p \in Proc |-> "none"]
  /\ key = [p \in Proc |-> NoKey]
  /\ merged = [p \in Proc |-> NoGraph]
  /\ route = [p \in Proc |-> "begin"]
  /\ n = [p \in Proc |-> 1]
  /\ inspected = {}
  /\ last = "none"
  /\ edits = 0
  /\ raced = FALSE

-----------------------------------------------------------------------------
(* From the command line to the preflight *)

Readable(f) == f \notin torn /\ disk[f] # "none"
Adopt(p, f) == iface' = [iface EXCEPT ![p] = disk[f]]

\* resume looks for an interface in the auto state first ...
ResumeAuto(p) ==
  /\ pc[p] = "idle" /\ req[p].command = "resume"
  /\ IF iface[p] = "unset" /\ Readable("auto") THEN Adopt(p, "auto") ELSE UNCHANGED iface
  /\ Goto(p, "handoff")
  /\ UNCHANGED <<fileVars, auditVars, req, seen, key, merged, route, n, opVars>>

\* Mutant: the handoff is read only for want of an auto state.
ResumeAutoOnly(p) ==
  /\ pc[p] = "handoff"
  /\ IF iface[p] = "unset" /\ Readable("handoff") THEN Adopt(p, "handoff") ELSE UNCHANGED iface
  /\ Goto(p, "enter")
  /\ UNCHANGED <<fileVars, auditVars, req, seen, key, merged, route, n, opVars>>

\* ... and prefers the handoff's, whatever the auto state said.
ResumeHandoff(p) ==
  /\ pc[p] = "handoff"
  /\ IF req[p].interface = "unset" /\ Readable("handoff")
       THEN Adopt(p, "handoff") ELSE UNCHANGED iface
  /\ Goto(p, "enter")
  /\ UNCHANGED <<fileVars, auditVars, req, seen, key, merged, route, n, opVars>>

\* Mutant: an auto state that does not exist is an error as well.
EnterStrict(p) ==
  /\ pc[p] = "enter" \/ (pc[p] = "idle" /\ req[p].command # "resume")
  /\ IF iface[p] = "unset" /\ ~Readable("auto") THEN Goto(p, "error") /\ UNCHANGED iface
     ELSE /\ Goto(p, "go")
          /\ iface' = [iface EXCEPT ![p] = IF @ = "unset" THEN disk["auto"] ELSE @]
  /\ UNCHANGED <<fileVars, auditVars, req, seen, key, merged, route, n, opVars>>

\* entry.resolveInterface: an auto state that cannot be read is an error, one
\* that does not exist leaves it to detection.
Enter(p) ==
  /\ pc[p] = "enter" \/ (pc[p] = "idle" /\ req[p].command # "resume")
  /\ IF iface[p] # "unset" THEN Goto(p, "go") /\ UNCHANGED iface
     ELSE IF "auto" \in torn THEN Goto(p, "error") /\ UNCHANGED iface
     ELSE /\ Goto(p, "go")
          /\ iface' = [iface EXCEPT ![p] = IF disk["auto"] # "none" THEN disk["auto"]
                                           ELSE Detected]
  /\ UNCHANGED <<fileVars, auditVars, req, seen, key, merged, route, n, opVars>>

Begun(p) ==
  /\ Done(p, "begin")
  /\ Goto(p, "preflightInstall")
  /\ UNCHANGED <<fileVars, auditVars, procVars, n, opVars>>

Preflight(p, label, s, next) ==
  /\ pc[p] = label
  /\ Goto(p, IF s \in frozen THEN "error" ELSE next)
  /\ UNCHANGED <<fileVars, auditVars, procVars, n, opVars>>

PreflightInstall(p) == Preflight(p, "preflightInstall", "install", "preflightRun")
PreflightRun(p) == Preflight(p, "preflightRun", "run",
                             IF Session(p) /\ ~req[p].apply THEN "key" ELSE "look")

-----------------------------------------------------------------------------
(* The choice of a route *)

ComputeKey(p) ==
  /\ pc[p] = "key"
  /\ key' = [key EXCEPT ![p] = KeyNow(p)]
  /\ Goto(p, "match")
  /\ UNCHANGED <<fileVars, auditVars, req, iface, seen, merged, route, n, opVars>>

Match(p) ==
  /\ pc[p] = "match"
  /\ IF "snapshot" \in torn THEN Goto(p, "error") /\ UNCHANGED <<route, n>>
     ELSE IF Matches(disk["snapshot"], key[p]) THEN Goto(p, "go") /\ Take(p, "fast")
     ELSE Goto(p, "look") /\ UNCHANGED <<route, n>>
  /\ UNCHANGED <<fileVars, auditVars, req, iface, seen, key, merged, opVars>>

\* buildRunInspectInput and the pipeline; detection and plan are of this moment.
Detect(p) ==
  /\ pc[p] = "look"
  /\ seen' = [seen EXCEPT ![p] = inputs]
  /\ inspected' = inspected \cup {<<inputs, iface[p]>>}
  /\ Goto(p, "go")
  /\ Take(p, "look")
  /\ UNCHANGED <<fileVars, auditVars, req, iface, key, merged, inputs, last, edits>>

\* Portability, then evaluateApproval.
Gate(p) ==
  IF ~req[p].apply THEN "inspect"
  ELSE IF seen[p] \notin Portable THEN "unsupported"
  ELSE IF ~req[p].approves THEN "refused"
  ELSE "apply"

Decide(p) ==
  /\ Done(p, "look")
  /\ Take(p, Gate(p))
  /\ UNCHANGED <<fileVars, auditVars, pc, req, iface, seen, key, merged, opVars>>

-----------------------------------------------------------------------------
(* The steps of a route *)

\* AppendAndVerify and AppendRunEventAndVerify as AuditLedger has them; a
\* command whose append fails exits with a runtime error.
Record(p) ==
  /\ At(p, Streams)
  /\ LET s == Steps(p)[n[p]][1]
         with == [recorded EXCEPT ![s] = @ \cup {<<p, Item(p)>>}]
     IN \/ /\ s \notin frozen
           /\ recorded' = with
           /\ Advance(p)
           /\ UNCHANGED frozen
        \/ /\ Faultable \/ s \in frozen
           /\ recorded' \in {recorded, with}
           /\ frozen' = frozen \cup {s}
           /\ Goto(p, "error")
           /\ UNCHANGED n
  /\ UNCHANGED <<fileVars, procVars, opVars>>

\* SaveSessionTaskGraph: a graph that is missing or cannot be read is ignored.
ReadGraph(p) ==
  /\ At(p, {"merge"})
  /\ merged' = [merged EXCEPT ![p] = IF "graph" \in torn THEN Nodes(p)
                                     ELSE Merge(disk["graph"], Nodes(p))]
  /\ Advance(p)
  /\ UNCHANGED <<fileVars, auditVars, req, iface, seen, key, route, opVars>>

\* os.WriteFile is an O_TRUNC open and a write.  The key of the snapshot is
\* computed anew, just before.
Truncate(p) ==
  /\ At(p, {"file"})
  /\ torn' = torn \cup {Item(p)}
  /\ key' = IF Item(p) = "snapshot" THEN [key EXCEPT ![p] = KeyNow(p)] ELSE key
  /\ Goto(p, "write")
  /\ UNCHANGED <<disk, auditVars, req, iface, seen, merged, route, n, opVars>>

Write(p) ==
  /\ pc[p] = "write"
  /\ disk' = [disk EXCEPT ![Item(p)] = Content(p, Item(p))]
  /\ torn' = torn \ {Item(p)}
  /\ Advance(p)
  /\ UNCHANGED <<auditVars, procVars, opVars>>

Exit(p) ==
  /\ \E r \in Final : Done(p, r)
  /\ Goto(p, IF route[p] = "refused" THEN "needs_approval" ELSE "ok")
  /\ last' = IF Session(p) /\ route[p] # "refused" THEN iface[p] ELSE last
  /\ UNCHANGED <<fileVars, auditVars, procVars, n, inputs, inspected, edits>>

-----------------------------------------------------------------------------
(* Faults and the user *)

Kill(p) ==
  /\ Running(p)
  /\ Faultable
  /\ Goto(p, "killed")
  /\ UNCHANGED <<fileVars, auditVars, procVars, n, opVars>>

Edit ==
  /\ edits < Edits
  /\ edits' = edits + 1
  /\ inputs' \in Inputs \ {inputs}
  /\ UNCHANGED <<fileVars, auditVars, pc, procVars, n, inspected, last>>

Step(p) ==
  \/ ResumeAuto(p) \/ ResumeHandoff(p) \/ Enter(p)
  \/ Begun(p) \/ PreflightInstall(p) \/ PreflightRun(p)
  \/ ComputeKey(p) \/ Match(p) \/ Detect(p) \/ Decide(p)
  \/ Record(p) \/ ReadGraph(p) \/ Truncate(p) \/ Write(p) \/ Exit(p)

Note(overlap) ==
  /\ raced' = (raced \/ overlap)
  /\ raced' => Cardinality({p \in Proc : pc'[p] # "idle"}) <= Racers

Next ==
  \/ \E p \in Proc : (Step(p) \/ Kill(p)) /\ Note(\E q \in Proc \ {p} : Running(q))
  \/ Edit /\ Note(\E p \in Proc : Running(p))

Spec == Init /\ [][Next]_vars

-----------------------------------------------------------------------------
(* Properties *)

\* The types of the variables.
TypeOK ==
  /\ inputs \in Inputs
  /\ DOMAIN disk = Files /\ \A f \in Files : disk[f] \in ContentOf(f)
  /\ torn \subseteq Files
  /\ DOMAIN recorded = Streams /\ \A s \in Streams : recorded[s] \subseteq Proc \X (Events \cup T)
  /\ frozen \subseteq Streams
  /\ pc \in [Proc -> PC]
  /\ req \in [Proc -> Requests]
  /\ iface \in [Proc -> Interfaces \cup {"unset"}]
  /\ seen \in [Proc -> Inputs \cup {"none"}]
  /\ key \in [Proc -> Key]
  /\ merged \in [Proc -> Graph]
  /\ route \in [Proc -> Final \cup {"begin", "look"}]
  /\ n \in [Proc -> Nat]
  /\ \A p \in Proc : n[p] \in 1..Len(Steps(p)) + 1
  /\ inspected \subseteq Inputs \X Interfaces
  /\ last \in Interfaces \cup {"none"}
  /\ edits \in 0..Edits
  /\ raced \in BOOLEAN

Recorded(p, s, e) == <<p, e>> \in recorded[s]
Writing(p, f) == pc[p] = "write" /\ Item(p) = f

\* Intent before effect, effect before evidence: a generated target holds what
\* an approved command on a portable workspace wrote, after it recorded
\* apply.begin; of the targets a command wrote, all but the last have their
\* apply_mutation event, also when the command was killed or its append failed.
WriteAhead ==
  /\ \A f \in T : disk[f] # "none" =>
       LET p == disk[f]
       IN Recorded(p, "run", "apply.begin") /\ req[p].approves /\ seen[p] \in Portable
  /\ \A f, g \in T : \A p \in Proc :
       f # g /\ disk[f] = p /\ (disk[g] = p \/ Writing(p, g)) =>
         Recorded(p, "install", f) \/ Recorded(p, "install", g)

\* The exit code and the streams agree: a session that exited with success has
\* the event that closes it, and an apply the evidence of every target; one
\* that exited for want of approval has its gate.result, no closing event, and
\* no target in its name.
Closed(p) == Recorded(p, "run", "end") \/ Recorded(p, "run", "apply.performed")
ExitTruthful ==
  \A p \in Proc :
    /\ pc[p] = "ok" /\ Session(p) => Recorded(p, "run", "begin") /\ Closed(p)
    /\ pc[p] = "ok" /\ Recorded(p, "run", "apply.performed") =>
         \A f \in T : Recorded(p, "install", f)
    /\ pc[p] = "needs_approval" =>
         /\ Recorded(p, "run", "gate.result")
         /\ ~Closed(p)
         /\ \A f \in T : disk[f] # p

KilledAt(f) == \E q \in Proc :
  pc[q] = "killed" /\ n[q] <= Len(Steps(q)) /\ Steps(q)[n[q]] = File(f)

\* One command at a time: a target whose application a session has reported
\* stays applied in the task graph, whatever later sessions plan, unless one
\* was killed while it wrote the graph.
LifecycleKept ==
  (\E p \in Proc : pc[p] = "ok" /\ Session(p) /\ route[p] = "apply")
    /\ ~raced /\ "graph" \notin torn /\ ~KilledAt("graph")
  => \A f \in T : disk["graph"][f] = "applied"

\* One command at a time: the fast path is taken only for a workspace and an
\* interface that some session has detected and planned for as they are now.
FastPathInspected ==
  ~raced => \A p \in Proc : route[p] = "fast" => <<key[p].inputs, iface[p]>> \in inspected

\* One command at a time: a run state says that its command applied the
\* targets, and they hold what that command wrote, except where a later apply
\* has not come to its own run state.
Applying(q) == /\ route[q] = "apply" /\ pc[q] \in {"go", "write", "killed", "error"}
               /\ n[q] <= 2 * Len(Targets) + 1
RunStateTruthful ==
  ~raced /\ disk["run-state"] # "none" => \A f \in T :
    disk[f] = disk["run-state"] \/ \E q \in Proc : disk[f] = q /\ Applying(q)

\* One command at a time: a resume that names no interface continues with the
\* one of the session that finished last, and not with that of a later one that
\* was killed, or failed, before it came to its handoff.
CameTo(q, f) == \E i \in 1..Len(Steps(q)) : i <= n[q] /\ Steps(q)[i] = File(f)
ResumesLast ==
  [][\A p \in Proc : /\ pc[p] = "handoff" /\ pc'[p] = "enter" /\ ~raced'
                     /\ req[p].interface = "unset" /\ last # "none"
                     /\ \A q \in Proc : pc[q] \in {"killed", "error"} => ~CameTo(q, "handoff")
                     => iface'[p] = last]_vars

\* One command at a time, no append failing: a command fails only over a file
\* that a killed session left half written, the fast-path snapshot or the auto
\* state; no other kill makes a later command fail.
ErrorsExplained ==
  ~raced /\ frozen = {} =>
    \A p \in Proc : pc[p] = "error" => KilledAt("snapshot") \/ KilledAt("auto")
=============================================================================
