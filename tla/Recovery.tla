------------------------------- MODULE Recovery -------------------------------
(***************************************************************************)
(* What it takes to mend a store: the diagnosis of atrakta doctor and of   *)
(* migrate check, the advice they and the failing commands print, and the  *)
(* commands that the advice names - start, resume, projection repair and   *)
(* gc --scope tmp - over everything on disk that decides what they do.     *)
(*                                                                         *)
(* An operator runs doctor and migrate check, follows what they print, in  *)
(* the order in which they print it, and starts over until nothing is left *)
(* to follow.  One command runs at a time; how commands interleave is the  *)
(* subject of Onboarding, RunSession and Projection.  A command is a       *)
(* sequence of steps computed from the disk it finds; it takes them all,   *)
(* or is killed between two of them, or inside one: a file is truncated    *)
(* and not yet written, a line of an audit stream has no end.              *)
(*                                                                         *)
(* Of a file we keep what some command or check tells apart.  Consecutive  *)
(* events of one stream are one step, and the files under generated/, the  *)
(* capability registry and run-state.json, which nothing here reads, none. *)
(***************************************************************************)
EXTENDS Naturals, Sequences

CONSTANTS
  Works,       \* the assets the project may have besides AGENTS.md
  Detectable,  \* those in which an interface is detected without AGENTS.md
  Losable,     \* the files the user may delete
  Kills,       \* bound on the commands killed
  Edits        \* bound on what the user does besides following advice

ASSUME RecoveryAssumption ==
  /\ Detectable \subseteq Works
  /\ Losable \subseteq {"index", "marker", "contract", "state", "graph", "run"}
  /\ Kills \in Nat
  /\ Edits \in Nat

VARIABLES
  disk,    \* the project
  policy,  \* whether the operator clears the runtime files first, after doctor
  todo,    \* the advice still to be followed
  kills,   \* the commands killed so far
  edits    \* what the user has done besides

vars == <<disk, policy, todo, kills, edits>>

-----------------------------------------------------------------------------
(* The disk *)

\* state.json, progress.json and task-graph.json: the schema version, and what
\* of the rest doctor compares.
Session(kind, command, canon) == [kind |-> kind, command |-> command, canon |-> canon]
Absent == Session("none", "none", "none")
Torn == Session("torn", "none", "none")
Unreadable(f) == f.kind \in {"none", "torn"}

\* What the fast-path key is computed from.
Key(contract, work, agents, interface, apply) ==
  [contract |-> contract, work |-> work, agents |-> agents, interface |-> interface,
   apply |-> apply]
Snapshot(kind, key) == [kind |-> kind, key |-> key]
NoSnapshot == Snapshot("none", Key("none", "none", FALSE, "none", FALSE))

\* What AGENTS.md is rendered from, and AGENTS.md.
Origin(contract, canon, work, source) ==
  [contract |-> contract, canon |-> canon, work |-> work, source |-> source]
Document(kind, origin) == [kind |-> kind, from |-> origin]
Plain(kind) == Document(kind, Origin("none", "none", "none", "none"))

TornOf(file) ==
  CASE file \in {"state", "progress", "graph"} -> Torn
    [] file = "snapshot"                       -> [NoSnapshot EXCEPT !.kind = "torn"]
    [] file = "doc"                            -> Plain("torn")
    [] file \in {"install", "run"}             -> "broken"
    [] OTHER                                   -> "torn"

\* DetectCanonicalState: a file counts as soon as it exists.
Canon(d) ==
  CASE d.index # "none" /\ d.marker # "none" -> "onboarding_complete"
    [] d.index # "none" /\ d.marker = "none" -> "canonical_present"
    [] d.index = "none" /\ d.marker # "none" -> "partial_state"
    [] d.index = "none" /\ d.marker = "none" -> IF d.dirs # {} THEN "corrupt_state" ELSE "none"
Blocking == {"partial_state", "corrupt_state"}

\* LoadMachineContract: a contract may be valid and still fall short of what
\* doctor wants of it.
Valid(contract) == contract \in {"ok", "short"}

HasAgents(d) == d.doc.kind # "none"

\* ResolveInterface without a flag or a trigger.
Detected(d) == IF d.work \in Detectable THEN "ide" ELSE IF HasAgents(d) THEN "cli" ELSE "unset"

KeyNow(d, interface, apply) == Key(d.contract, d.work, HasAgents(d), interface, apply)

-----------------------------------------------------------------------------
(* Steps *)

Write(file, value) == <<[op |-> "write", file |-> file, to |-> value]>>
Unlink(file, value) == <<[op |-> "remove", file |-> file, to |-> value]>>
Mkdir(dirs) == <<[op |-> "mkdir", file |-> "dirs", to |-> dirs]>>
Record(stream) == <<[op |-> "append", file |-> stream, to |-> "ok"]>>

Put(d, step) == [d EXCEPT ![step.file] = step.to]
After(d, steps) ==
  LET past[i \in 0..Len(steps)] == IF i = 0 THEN d ELSE Put(past[i - 1], steps[i])
  IN  past[Len(steps)]

\* A write or an append that is cut short; a removal or a mkdir happens or not.
Cut(d, step) ==
  IF step.op \in {"write", "append"} THEN [d EXCEPT ![step.file] = TornOf(step.file)] ELSE d

\* An append to a stream that does not verify ends the command.
Possible(d, steps) ==
  LET failing == {i \in 1..Len(steps) : steps[i].op = "append" /\ d[steps[i].file] = "broken"}
  IN  IF failing = {} THEN steps
      ELSE SubSeq(steps, 1, (CHOOSE i \in failing : \A j \in failing : i <= j) - 1)

-----------------------------------------------------------------------------
(* start and resume: runLikeCommand, runOnboardingPath, runNormalPath *)

SessionCommand == [name : {"start", "resume"}, interface : {"cli", "unset"}, apply : BOOLEAN]
Start == [name |-> "start", interface |-> "unset", apply |-> FALSE]

Readable(saved) == saved \notin {"none", "torn"}

\* The flag; resume makes one of the handoff, or else of the auto state.
Given(d, c) ==
  CASE c.interface # "unset"                     -> c.interface
    [] c.interface = "unset" /\ c.name = "start" -> "unset"
    [] c.interface = "unset" /\ c.name # "start" ->
         IF Readable(d.handoff) THEN d.handoff ELSE IF Readable(d.auto) THEN d.auto ELSE "unset"

\* entry.resolveInterface.
Interface(d, c) ==
  IF Given(d, c) # "unset" THEN Given(d, c)
  ELSE IF Canon(d) # "none" /\ d.auto = "torn" THEN "error"
  ELSE IF Canon(d) # "none" /\ Readable(d.auto) THEN d.auto
  ELSE IF Canon(d) = "none" /\ Detected(d) = "unset" THEN "cli"
  ELSE Detected(d)

\* startfast.IsMatch, with the interface compared once more.
Matches(d, interface) == d.snapshot.kind = "ok" /\ d.snapshot.key = KeyNow(d, interface, FALSE)

\* What becomes of a session.
Route(d, c) ==
  LET interface == Interface(d, c)
  IN  IF c.name = "resume" /\ Canon(d) = "none"             THEN "no session"
      ELSE IF Canon(d) \in Blocking                         THEN "blocked"
      ELSE IF interface = "error"                           THEN "error"
      ELSE IF interface = "unset"                           THEN "interface wanted"
      ELSE IF d.run = "broken"                              THEN "error"
      ELSE IF Canon(d) = "none"                             THEN "onboarding"
      ELSE IF ~Valid(d.contract)                            THEN "contract wanted"
      ELSE IF "torn" \in {d.index, d.marker} \/ d.install = "broken" THEN "unread"
      ELSE IF c.apply                                       THEN "apply"
      ELSE IF d.snapshot.kind = "torn"                      THEN "unread"
      ELSE IF Matches(d, interface)                         THEN "fast"
      ELSE "full"

\* Mutant: the task graph keeps the command it was made by.
SavesOldGraph(d, c, canon, contract, agents) ==
  LET interface == Interface(d, c)
  IN  Write("snapshot", Snapshot("ok", Key(contract, d.work, agents, interface, c.apply)))
      \o Write("auto", interface)
      \o Write("state", Session("v1", c.name, canon))
      \o Write("progress", Session("v1", c.name, "none"))
      \o Write("graph", Session("v1", IF Unreadable(d.graph) THEN c.name ELSE d.graph.command,
                                "none"))
      \o Write("handoff", interface)

\* saveStartFastSnapshot, saveStartAutoState, saveSessionRuntimeArtifacts and
\* saveStartHandoff; a task graph is merged with the one there in its nodes.
Saves(d, c, canon, contract, agents) ==
  LET interface == Interface(d, c)
  IN  Write("snapshot", Snapshot("ok", Key(contract, d.work, agents, interface, c.apply)))
      \o Write("auto", interface)
      \o Write("state", Session("v1", c.name, canon))
      \o Write("progress", Session("v1", c.name, "none"))
      \o Write("graph", Session("v1", c.name, "none"))
      \o Write("handoff", interface)

\* AcceptOnboarding, approved, between the first and the last event.
Onboarding(d, c) ==
  Record("run")
  \o Mkdir({"canonical"}) \o Write("index", "ok") \o Write("contract", "ok")
  \o Mkdir({"canonical", "state"}) \o Write("marker", "ok")
  \o Record("install") \o Record("run")
  \o Saves(d, c, "none", "ok", HasAgents(d))

SessionSteps(d, c) ==
  LET interface == Interface(d, c)
      full == Record("run") \o Record("install") \o Record("run")
  IN  CASE Route(d, c) = "onboarding"      -> Onboarding(d, c)
        [] Route(d, c) = "contract wanted" -> full
        [] Route(d, c) = "unread"          -> Record("run")
        [] Route(d, c) = "fast" ->
             Record("run") \o Record("install") \o Write("auto", interface)
             \o Write("handoff", interface) \o Record("run")
        [] Route(d, c) = "full"  -> full \o Saves(d, c, Canon(d), d.contract, HasAgents(d))
        [] Route(d, c) = "apply" ->
             full \o Mkdir(d.dirs \cup {"state"}) \o Record("install") \o Record("run")
             \o Saves(d, c, Canon(d), d.contract, HasAgents(d))
        [] OTHER -> <<>>

\* What a session that failed prints as the action allowed next.
SessionAdvice(d, c) ==
  CASE Route(d, c) = "blocked"          -> <<"repair canonical state", "start">>
    [] Route(d, c) = "interface wanted" -> <<"start --interface">>
    [] Route(d, c) = "contract wanted"  -> <<"restore contract", "start">>
    [] Route(d, c) = "no session"       -> <<"start">>
    [] OTHER                            -> <<>>

-----------------------------------------------------------------------------
(* projection repair, gc --scope tmp --apply and what is mended by hand *)

\* Render: the source of the interface is part of what is rendered.
Rendering(d) ==
  Document("rendered",
           Origin(IF Valid(d.contract) THEN d.contract ELSE "none", Canon(d), d.work,
                  IF Detected(d) = "unset" THEN "default" ELSE "detect"))

\* runProjectionAction, approved: Repair writes and then Write renders anew, now
\* that there is a document; what others have written is left alone.
RepairSteps(d) ==
  IF d.doc \in {Rendering(d), Plain("user"), Plain("torn")} THEN Record("run")
  ELSE LET again == [d EXCEPT !.doc = Rendering(d)]
       IN  Write("doc", Rendering(d)) \o Write("doc", Rendering(again)) \o Record("run")

\* Mutant: gc keeps the snapshot.
CollectsAllButSnapshot(d) ==
  IF "broken" \in {d.install, d.run} THEN <<>>
  ELSE Unlink("auto", "none") \o Unlink("handoff", "none") \o Record("run")

\* gcApplyTmp: the files of runtime/, in the order of their names.
CollectSteps(d) ==
  IF "broken" \in {d.install, d.run} THEN <<>>
  ELSE Unlink("auto", "none") \o Unlink("handoff", "none") \o Unlink("snapshot", NoSnapshot)
       \o Record("run")

\* What the operator does to the store without a command; for a lost index there
\* are two ways.
ByHand(d, advice) ==
  CASE advice = "restore contract" -> {Write("contract", "ok")}
    [] advice = "repair canonical state" ->
         IF Canon(d) = "partial_state" THEN {Write("index", "ok"), Unlink("marker", "none")}
         ELSE IF Canon(d) = "corrupt_state" THEN {Unlink("dirs", {})}
         ELSE {<<>>}
    [] OTHER -> {}

Sessions(advice) ==
  CASE advice = "start"             -> {Start}
    [] advice = "start or resume"   -> {Start, [Start EXCEPT !.name = "resume"]}
    [] advice = "start --interface" -> {[Start EXCEPT !.interface = "cli"]}
    [] OTHER                        -> {}

\* What following a piece of advice may amount to: the steps taken, and the
\* advice printed in the end.
Job(steps, advice) == [steps |-> steps, advice |-> advice]
SessionJob(d, c) == Job(SessionSteps(d, c), SessionAdvice(d, c))
CommandJobs(d, advice) ==
  {SessionJob(d, c) : c \in Sessions(advice)}
  \cup (IF advice = "projection repair" THEN {Job(RepairSteps(d), <<>>)} ELSE {})
  \cup (IF advice = "gc" THEN {Job(CollectSteps(d), <<>>)} ELSE {})
HandJobs(d, advice) == {Job(s, <<>>) : s \in ByHand(d, advice)}

-----------------------------------------------------------------------------
(* doctor and migrate check *)

\* checkDoctorStateIntegrity.
StateRemedy(d) ==
  IF Unreadable(d.state) \/ Unreadable(d.graph) THEN "start"
  ELSE IF "v0" \in {d.state.kind, d.graph.kind} THEN "start"
  ELSE IF d.state.command # d.graph.command THEN "start or resume"
  ELSE IF Canon(d) \in Blocking THEN "repair canonical state"
  ELSE IF d.state.canon # Canon(d) THEN "start"
  ELSE "none"

\* checkDoctorProjectionParity: Status.
ParityRemedy(d) == IF d.doc = Rendering(d) THEN "none" ELSE "projection repair"

\* checkDoctorEventChain.
ChainRemedy(d) ==
  CASE d.run = "none"   -> "start"
    [] d.run = "broken" -> "start or resume"
    [] d.run = "ok"     -> "none"

\* Mutant: a contract that is not there passes.
PassesMissingContract(d) ==
  IF d.contract \in {"none", "ok"} THEN "none" ELSE "restore contract"

\* checkDoctorSecurityModel.
SecurityRemedy(d) == IF d.contract = "ok" THEN "none" ELSE "restore contract"

\* buildDoctorReport: all four checks, whatever the first ones say.
DoctorRemedies(d) == <<StateRemedy(d), ParityRemedy(d), ChainRemedy(d), SecurityRemedy(d)>>

\* runMigrateCheck: advice is given of an older version only.
MigrateRemedies(d) ==
  <<IF d.state.kind = "v0" THEN "start" ELSE "none",
    IF d.progress.kind = "v0" THEN "start or resume" ELSE "none",
    IF d.graph.kind = "v0" THEN "start or resume" ELSE "none">>

Remedies(d) == SelectSeq(DoctorRemedies(d) \o MigrateRemedies(d), LAMBDA r : r # "none")

\* Both have nothing to advise: the list is empty.
Clean(remedies) == \A i \in 1..Len(remedies) : remedies[i] = "none"
Healthy(d) == Clean(DoctorRemedies(d)) /\ Clean(MigrateRemedies(d))

-----------------------------------------------------------------------------
(* The operator, the kills and the user *)

\* Before the first command.
Fresh(work, doc) ==
  [index |-> "none", marker |-> "none", contract |-> "none", dirs |-> {},
   install |-> "none", run |-> "none",
   snapshot |-> NoSnapshot, auto |-> "none", handoff |-> "none",
   state |-> Absent, progress |-> Absent, graph |-> Absent,
   doc |-> doc, work |-> work]

\* What version 0 leaves: no run events, sessions of an older schema, and the
\* snapshot of a start, whose key still counts.
Legacy(work, doc, interface, snapshot) ==
  [Fresh(work, doc) EXCEPT
     !.index = "ok", !.marker = "ok", !.contract = "ok", !.dirs = {"canonical", "state"},
     !.install = "ok",
     !.snapshot = IF snapshot
                    THEN Snapshot("ok", Key("ok", work, doc.kind # "none", interface, FALSE))
                    ELSE NoSnapshot,
     !.auto = interface,
     !.state = Session("v0", "start", "onboarding_complete"),
     !.progress = Session("v0", "start", "none"),
     !.graph = Session("v0", "start", "none")]

Init ==
  /\ \E work \in Works, doc \in {Plain("none"), Plain("user")} :
       \/ disk = Fresh(work, doc)
       \/ \E snapshot \in BOOLEAN : disk = Legacy(work, doc, "cli", snapshot)
  /\ policy \in {"advice", "reset"}
  /\ todo = <<>>
  /\ kills = 0
  /\ edits = 0

\* The operator asks doctor and migrate check what to do.
Diagnose ==
  /\ todo = <<>>
  /\ ~Healthy(disk)
  /\ todo' = (IF policy = "reset" THEN <<"gc">> ELSE <<>>) \o Remedies(disk)
  /\ UNCHANGED <<disk, policy, kills, edits>>

\* ... and does the first thing on the list; what a command that fails prints
\* comes before the rest.
Follow ==
  /\ todo # <<>>
  /\ \E job \in CommandJobs(disk, Head(todo)) \cup HandJobs(disk, Head(todo)) :
       LET steps == Possible(disk, job.steps)
       IN  /\ disk' = After(disk, steps)
           /\ todo' = job.advice \o Tail(todo)
  /\ UNCHANGED <<policy, kills, edits>>

\* A command is killed between two steps or inside one; the operator starts over.
Interrupted(job) ==
  LET steps == Possible(disk, job.steps)
  IN  /\ kills < Kills
      /\ \E k \in 0..Len(steps) :
           LET sofar == After(disk, SubSeq(steps, 1, k))
           IN  \/ disk' = sofar
               \/ k < Len(steps) /\ disk' = Cut(sofar, steps[k + 1])
      /\ todo' = <<>>
      /\ kills' = kills + 1
      /\ UNCHANGED <<policy, edits>>

KillFollowed ==
  /\ todo # <<>>
  /\ \E job \in CommandJobs(disk, Head(todo)) : Interrupted(job)

\* The user starts or resumes a session for his own reasons.
Use ==
  /\ edits < Edits
  /\ \E c \in SessionCommand :
       disk' = After(disk, Possible(disk, SessionSteps(disk, c)))
  /\ todo' = <<>>
  /\ edits' = edits + 1
  /\ UNCHANGED <<policy, kills>>

KillUsed ==
  /\ edits < Edits
  /\ \E c \in SessionCommand : Interrupted(SessionJob(disk, c))

\* The user deletes a file, edits the contract or AGENTS.md, or gives the project
\* other assets.
Lost(d, file) ==
  [d EXCEPT ![file] = IF file \in {"state", "graph"} THEN Absent ELSE "none"]
Edit ==
  /\ edits < Edits
  /\ \/ \E file \in Losable : disk' = Lost(disk, file)
     \/ disk' = [disk EXCEPT !.contract = "short"]
     \/ \E kind \in {"none", "user"} : disk' = [disk EXCEPT !.doc = Plain(kind)]
     \/ \E work \in Works : disk' = [disk EXCEPT !.work = work]
  /\ disk' # disk
  /\ edits' = edits + 1
  /\ UNCHANGED <<policy, todo, kills>>

Operator == Diagnose \/ Follow
Next == Operator \/ KillFollowed \/ Use \/ KillUsed \/ Edit

\* The operator goes on for as long as there is something to do; nobody else
\* need do anything.
Spec == Init /\ [][Next]_vars /\ WF_vars(Operator)

-----------------------------------------------------------------------------
(* Properties *)

\* The damage that no check of doctor sees or that no advice of it mends: a file
\* that a command reads on its way and cannot, a stream that does not verify.
Jammed(d) ==
  \/ "broken" \in {d.install, d.run}
  \/ "torn" \in {d.index, d.marker, d.auto}
  \/ d.snapshot.kind = "torn"

\* The next start takes the fast path, which writes no session state.
Fast(d) == Route(d, Start) = "fast"

ByUser(doc) == doc.kind \in {"user", "torn"}

\* The advice works, and ends: an operator who does what doctor, migrate check
\* and the failing commands print comes, whatever was killed or edited before, to
\* a store that every check passes for good, unless the fast path of start keeps
\* the session state from being written, the damage is of the kind that is not
\* mended, or AGENTS.md is the user's own (cmd_doctor.go:140-343,
\* cmd_migrate.go:67-80, entry.go:111-134).
\* With gc --scope tmp before the advice the fast path is no exception, and a torn
\* snapshot or auto-state file is mended: the session state passes for good unless
\* a stream does not verify or the index or the marker is torn.
StateHealed(d) ==
  \/ StateRemedy(d) = "none"
  \/ "broken" \in {d.install, d.run}
  \/ "torn" \in {d.index, d.marker}
  \/ policy = "advice" /\ (Fast(d) \/ Jammed(d))

AdviceHeals ==
  /\ <>[]StateHealed(disk)
  /\ <>[](ParityRemedy(disk) = "none" \/ ByUser(disk.doc))
  /\ <>[](ChainRemedy(disk) = "none" \/ "broken" \in {disk.install, disk.run}
            \/ (policy = "advice" /\ Jammed(disk)))
  /\ <>[](SecurityRemedy(disk) = "none")

\* A clean bill of doctor and migrate check means that start works: it is not
\* blocked, asks for nothing and does not fail, once there is a canonical store
\* and but for the damage that doctor does not see, whatever was killed, lost or
\* edited on the way (cmd_doctor.go:105-138, cmd_run.go:126-183).
DoctorForesees ==
  Healthy(disk) /\ ~Jammed(disk) /\ Canon(disk) # "none" => Route(disk, Start) \in {"fast", "full"}

\* No command that runs to its end makes a store unhealthy that was healthy: what
\* a session saves of itself in six files agrees with what doctor compares
\* (cmd_run.go:640-753, session_state.go:95-103, cmd_doctor.go:140-212).
HealthyKept ==
  [][Healthy(disk) /\ Canon(disk) # "none" /\ (Follow \/ Use) => Healthy(disk')]_vars

=============================================================================
