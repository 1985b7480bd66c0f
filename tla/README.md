# Verification of atrakta

TLA+ models of atrakta, the command-line harness in `src/`, the TLC runs that
check them on small instances, and theorems about them that TLAPS checks for
every value of the constants. `PROJECT.json` is the index: components, runs,
mutants of the code that each property catches, the source lines behind every
definition, findings, hazards and theorems.

    tlc -config AuditLog.cfg MCAuditLog           a run
    tlapm AuditLogProofs.tla                      a proof

## 1. The system

atrakta keeps a per-project store, `.atrakta/`, of JSON files. **Every command
is a short-lived operating-system process**; nothing stays in memory between
two commands. Several can run at once on one store: the user's own commands,
git hooks, tasks an IDE starts when it opens the folder, and the wrapper script
of a tool. **Nothing locks the store.** A file is replaced by
`os.WriteFile` (truncate, then write), the audit streams grow by an append
opened with `O_APPEND`, and a command may be killed between any two system
calls. So the behaviours that are hard here are interleavings of system calls,
files that are half written, decisions taken from something read earlier (often
before an approval prompt), and sequences of legal commands that lead somewhere
nobody meant to go. There are no messages, threads, timers or network calls of
the program's own.

### Inventory

| Component | State it keeps | Operations | Talks to | What is hard | What makes it correct |
|---|---|---|---|---|---|
| Audit streams (`internal/audit`) | `install-events.jsonl`, `run-events.jsonl`, a checkpoint | append, verify at A0..A3, append-and-verify | every other command appends here | number and previous hash are computed from an earlier read; torn lines; levels mixed in one chain | a reported append is on disk, verified and alone under its number; damage is never hidden |
| Onboarding and state detection (`internal/persist`, `internal/run/state.go`, `internal/entry`) | the canonical, state and generated files, the machine contract | detect, accept, load | audit, sessions | four stat calls, a dozen files written one by one, a prompt in between | the marker of completion comes last; what was acknowledged is there; nobody writes without approval |
| Onboarding proposal (`internal/onboarding`) | none; reads the user's project | detect assets and risks, infer mode, conflicts, routing, policy | accept, inspect, run, mutate | rules that exist twice; files read long after they were listed | a danger is routed to strict, an announced routing is the one that happens |
| Interfaces and bindings (`internal/bindings`, `internal/run/interface.go`) | `auto-state.json`; binding files of the repository | resolve, detect, load, portability | sessions | ties of scores, a working directory that decides, a memory that goes stale | no apply goes over what the binding cannot write |
| Run sessions (`cmd_run*.go`, `internal/startfast`, `internal/run`) | snapshot, auto state, task graph, handoff, run state | run, start, resume | all of the above, mutation | nine files saved one after the other, a fast path keyed by hashes | every managed write has its gate, its intent and its evidence; a session leaves the truth for the next one |
| Mutation engine (`internal/mutation`) | managed targets, their audit entries | inspect, propose, apply | sessions, `mutate` | write and append are two steps | only gated writes |
| Garbage collection (`cmd_gc.go`) | rewrites `run-events.jsonl`; deletes `runtime/` | gc events, gc tmp | audit | renumbers and rehashes a file others append to | the chain still verifies, nothing fresh is lost |
| Resolvers (`src/resolvers`) | none | eleven pure decisions | pipeline, mutate | overlapping rules, tables with missing rows | fail closed |
| Resolver pipeline (`internal/pipeline`) | the caller's lifecycle state | inspect, preview, simulate | onboarding, sessions | order of the steps, the fold of eleven answers | no restraint is lost on the way to the answer; strict is left by an approved release only |
| Adapter loop (`internal/adapters`) | the attempts so far | execute run, collect, retry | run | retries that ask again | bounded retries, approval only from consent |
| Installers (`internal/hook`, `wrap`, `ideautostart`, `cmd_init*.go`) | git hooks, wrapper, IDE files | install, uninstall, status, repair, init | run events | files the user edits too, a prompt in between, three steps of which one fails | what was changed is what was approved and recorded |
| Projections (`internal/projection`) | generated documents | render, status, repair | store, contract | rendered twice, compared before the write | the user's document is spared, reports fit the document |
| Doctor, migrate check (`cmd_doctor.go`, `cmd_migrate.go`) | none | read, report, advise | everything above, by its files | the advice is followed command by command, kills in between; what doctor compares is not what start reads | the advice mends the store and ends; a clean bill means that start works |
| Orchestration policy, harness profile, extensions, aliases | none or generated listings | list, generate | - | - | not modelled |
| Evaluator, performance, fixtures, coverage | reports | run, measure | - | - | not modelled |
| Validation, errors | none | check documents | every command | - | not modelled, but for a document that does not load |
| Schemas, canonical documents, scripts | data | - | - | - | not modelled |

The findings in section 6 and the observations in section 7 come out of this
table; the hazards, each at its line, are in `PROJECT.json`.

## 2. The modules

    AuditLedger         what a stream promises
      ^ refined by
    AuditLog            one stream, system call by system call
      ^ extended by
    AuditGC             collectors beside the appends          <- AuditLogProofs (all three)

    Onboarding   <- OnboardingProofs       commands; each takes a stream to be what
    RunSession   <- RunSessionProofs       AuditLedger promises
    Projection   <- ProjectionProofs
    Installers   <- InstallersProofs

    Resolvers           the eleven pure functions
      ^ extended by
    Pipeline            the ordered evaluation and its caller  <- ResolutionProofs
    Inference           what is inferred from the assets
      ^ extended by
    Proposal            detection against an editing user      <- ProposalProofs
    Surfaces            interfaces and bindings                <- ResolutionProofs

    Recovery            doctor, migrate check and the advice of all commands, over
                        everything on disk                     <- CallerProofs
    AdapterLoop         run called again with what it asked for <- CallerProofs

`ResolutionProofs` and `CallerProofs` are each about two components; the
specifications of `Surfaces` and `AdapterLoop` are therefore called `SurfacesSpec` and
`LoopSpec`, so that one module can extend both.

`MC<Module>.tla` defines the larger constants of a module, `<Module>.cfg` is its run
(with `_<run>` where a module has two).

### Conventions

* A **process is one command** (`Proc`); `pc[p]` is where it is. Its arguments
  are chosen once and it runs at most once. A step is one system call that
  another process could see, with all the computation up to the next one.
* **`os.WriteFile` is two steps**, truncate and write; the file between them is
  `torn` (or `empty`). A command killed there leaves it so.
* `Kill` may hit any command at any step. Processes that never move again are
  the same as killed ones.
* `Spec` interleaves the steps of all commands. Some properties hold only for
  **one command at a time**: what they show is owed to the logic of a command
  and to kills, not to races. Where such a property belongs to `AuditLog` or
  `AuditGC` there is a second specification, `SerialSpec`, that starts a command
  only when no other is under way. In the modules with more state one run does
  for both: the history variable `raced` says that two commands have overlapped
  (or a command and an action of the user), the properties in question are
  stated under `~raced`, and `Racers` bounds the commands of a behaviour once it
  has raced, so that three commands in a row and two at once fit one run.
* **An append to a stream, seen from another component**, either is recorded or
  fails, and once one has failed after damage the stream is `frozen`: that is
  `AuditLedger`, and `LogImplementsLedger` proves that `AuditLog`
  behaves so. `Faulty = FALSE` leaves damage out; `Faults` (RunSession) bounds the
  kills and the frozen streams of a behaviour together.
* The user and the operator are actions of their own, bounded by `Edits` or
  `Operations`. In `Recovery` the operator who follows advice is not bounded.
* Variables marked *history* are never read by an action's guard; properties
  relate a state to an earlier one by them.
* A definition under a comment "Mutant:" is a plausible bug in the definition
  after it. No specification uses one. `PROJECT.json` "mutants" names the
  property that catches each.

### AuditLog, AuditLedger

`log`, `open` and `checkpoint` are the two files; `open` says the last line
lacks its newline. The actions are the steps of `AppendEvent`
(`ReadLog` reads and builds the event, then the line is written, whole or
torn, then the checkpoint is truncated and written at A3) and of
`VerifyIntegrity`. A hash is what it commits to, the sequence of links chained
so far, which makes it injective; nothing else about SHA-256 is used. A line
longer than the 64 KiB buffer of `bufio.Scanner` is a datum in `Oversize`: it
is written and cannot be read back. `AuditLedger` is the abstract
specification (numbered entries, receipts, frozen); the refinement mapping is
at `Ledger` in `AuditLog`.

### AuditGC

`gc --scope events --apply` beside the appends of `AuditLog`: verify, plan,
`os.Create`, one write per kept line, verify, and an append of its own, which
is that of `AuditLog`.

### Onboarding

The store is a map from files to absent, torn, default or edited, with the two
directories the classification looks at. Detection is four stat calls that
collect `saw` and give `report`; `AcceptOnboarding` is one truncate and one
write per file in the order of the code (`Writes`); then the two audit
appends; the normal path loads contract, policy index and streams. The operator
may delete, edit or follow the advice a blocked command prints.

### RunSession

What run, start and resume do on an onboarded store. A command takes the steps
of its route in order: begin event, fast path or pipeline, plan event, apply
gates, then per target the write, its audit entry and its event, then run state
and the session's own files. `Inputs` stands for everything the fast-path key
hashes besides the interface. The interface that detection finds and the inputs
over which a binding is portable are constants here; `Surfaces` says what they
are.

### Resolvers, Pipeline

`Resolvers` has one operator per resolver, from a normalised input to a record
whose `next` is the `next_allowed_action`. `Pipeline` runs them as one action
each, in the order of `ExecuteOrdered`, folds their answers and clamps them to
the mode. A `bundle` is chosen when an evaluation begins and has one input per
resolver. The program keeps nothing of an evaluation (`Forget` is the end of the
process), so `lifecycle` belongs to the caller, who hands back the state it was
told.

### Inference, Proposal

`Inference` has the pure part of `internal/onboarding`: score, mode, conflicts,
risks, triggers, failure class, routing (through `Resolvers!FailureTier`),
policy. A text is the set of the signals in it. `Proposal` runs it the
way commands do: one step per stat call, one per surface whose text is read,
while the user edits. `kept` and `met` remember which facts held all through a
detection and which held at some moment of it; no snapshot of the project need
ever have existed that has what the detection saw. `inspect` stands for preview,
simulate and an alias that is executed as well: what they decide about the failure is the
same. `asked` is the tier that the bundle of `--input` asks for, which
`applyOnboardingFailure` leaves in place when it puts the proposal's class and triggers
into that bundle; an alias and a command without `--input` ask for none.

### Surfaces

Which interface a command gets (named, remembered, detected by the scores of the
bindings, by the assets, or the default of the onboarding path), the
portability it is answered (`Resolvers!SurfacePortability`) and whether an apply
goes ahead. `Listed` is the search for `go.mod` above the working directory.

### AdapterLoop

`Invoke` and the two collectors of `ExecuteRunLoop`; run is external and may
exit with any code. The limit is chosen with the configuration from `Limits`,
where 0 stands for the default.

### Installers

Every command that changes a hook, the wrapper or an IDE file, and init, which
does all three. A command reads its targets, plans, asks, and writes file by
file; the user may edit what is `Editable` between any two steps. `approves` is the set
of the prompts that are answered yes: each step of init has one of its own, so a yes may be
followed by a no. `Files0` are the projects a behaviour may start in. A file is what
atrakta's own tests tell apart: its marker, its current text, a text that does not parse,
and the settings of the user, beside the keys that atrakta writes (`user`) or under them too
(`custom`). A rewrite keeps all of them in `tasks.json`, where a version or a task of
atrakta's name stays as it is (`kept`), and only those beside the four keys in
`autostart.json` (`both`): `Held` and `Desired`.

`Breakdown` is a file that cannot be read, made, filled or removed, or a prompt that
cannot be read: the command returns the error from wherever in its plan it has got to,
with no event (init still appends its `init.end`). The file being written stays as it was,
or empty if it had been truncated.

### Projection

One document and its sources, the store and the contract, each at a version; a
rendering is the pair of versions it was made from. repair writes first and asks
afterwards, as the code does.

### Recovery

The composition of what start and resume (onboarding and normal path), projection
repair, `gc --scope tmp`, doctor and migrate check read and write, over one
`disk`: the store's files, the two streams, the snapshot, auto state and handoff,
the three session files, `AGENTS.md` and the project's assets. Commands run one
at a time here. A command is the sequence of steps it takes on the disk it finds
(`SessionSteps`, `RepairSteps`, `CollectSteps`), which depends on its `Route`; an
append to a damaged stream ends it (`Possible`), a kill ends it between two steps
or inside one (`Interrupted`). `DoctorRemedies` and `MigrateRemedies` are the advice
in the order in which it is printed, `SessionAdvice` what a failed session prints.
The operator runs both checks (`Diagnose`), follows the advice from its head
(`Follow`), and starts over when the list is done. Under the `policy` "reset" he
runs `gc --scope tmp --apply` first. A project begins empty or as version 0 left it.

## 3. The runs

Most properties are safety: invariants or action properties `[][A]_vars`. A
command may be killed anywhere, no command waits for another, and nothing is
retried but by `AdapterLoop`, whose bound is a safety property; so only `Recovery`
states fairness: `WF_vars(Operator)`, that an operator who has advice to follow, or
a store that doctor complains of, goes on. It is the assumption under which
advice can be said to help at all. Nothing is fair about kills, edits and the
user's own commands: they may never happen, and are bounded, so that the operator
has the last word. `CHECK_DEADLOCK FALSE` is said where commands run out, that is
where every process has run once or, in `Recovery`, where the store is healthy;
`Pipeline`, `Proposal` and `Surfaces` go on for ever and are checked for deadlock.

| Run | Shows | Bounds |
|---|---|---|
| `audit` | reported appends keep line, number and verified prefix; a checkpoint names an event; damage is permanent; the stream refines `AuditLedger` | 3 commands that append or verify at A0..A3, two data, one of them oversize, kills, torn writes |
| `gc_serial` | commands one at a time, with kills: the chain verifies in every state, gc keeps every fresh event in order | 3 appends, 2 collectors, `SerialGCSpec` |
| `onboarding` | a contract the user edited survives all but an accept; the marker comes last; an acceptance is complete; detection tells a state the store was in; what every refusal goes back to | 3 commands of any kind in a row, 2 that overlap, kills, failing appends, 1 action of the operator |
| `session` | intent before effect before evidence; exit codes and streams agree; what a session leaves for the next is true and enough; which kills make later commands fail | 3 commands in a row, 2 that overlap, 2 targets, 1 fault, 1 change of the workspace |
| `pipeline` | no restraint is lost; fail-closed classes cannot be overridden; strict is left by an approved release only | unbounded sequences of bundles: every combination of resolver answers that can deny, restrain or degrade; every class, override and event; every target and legacy asset |
| `adapter` | consent; three attempts at most | limits 0 (the default), 1, 2, 3, 6; any exit codes |
| `installers` | what changed is what was recorded, and what is not recorded is the beginning of the step a command failed in; init says how it went, a refused step included; hooks and settings of the user survive; events explain files | 2 commands, in a row or overlapping, of which at most one is an init, approved altogether or for the wrapper only; a project with one IDE file of the user's, and one with every file; kills, failing reads, writes, prompts and appends, 1 edit of a hook or of `tasks.json` |
| `projection` | events tell whether their command wrote; the user's document is spared, and written without approval only by a repair; a blocked repair has a reason | 2 commands, in a row or overlapping, 2 versions of each source, failing appends, 2 changes by others |
| `proposal` | the routing announced is the routing made, by rules written twice, up to the tier that an input asks for; a danger that stays is routed to strict, an alarm had a ground | every project over 5 assets and 3 texts, commands without end, 2 edits at any moment |
| `surfaces` | an editor is detected only where the project shows it; no apply over what the binding cannot write | every project over 7 files, 3 interfaces, 3 places, commands without end, 1 edit |
| `recovery` | the advice of doctor, migrate check and failing commands mends the store and comes to an end; a clean bill means that start works; no completed command makes a healthy store unhealthy | empty and version 0 projects with and without `AGENTS.md`, with two sets of assets; advice followed for ever, with or without clearing the runtime files first; 1 kill at any step of any command, 1 edit, loss of a file or session of the user's own |

The run expected to end in a violation, `gc_race`, is in section 6.

Properties for one command at a time are `RefusalsExplained`, `LifecycleKept`,
`FastPathInspected`, `RunStateTruthful`, `ErrorsExplained`, `ResumesLast`,
`LogExplainsFiles`, `UserScriptKept`, `BlockedExplained`,
`UserDocSpared`, `EditSurvives`, and those of `gc_serial` and `recovery`. Section 7
says which of them racing commands break. `UserDocKept` is about races too, and says
what a command must have done in one to lose a setting. The `TypeOK` of a module gives the types
of its variables and belongs to no run of the list; add `INVARIANT TypeOK` to a configuration
to check it. All are proved as `TypeSafe`, but for `SurfacesTypeOK` (`SurfacesTypeSafe`),
`DiskOK` of `Recovery`, the types of the files (`DiskInvariant`), and `AdapterLoop`, whose
types are part of `TypesInvariant`.

**Why these bounds are enough.** Two commands exhaust what a race between a
read and a write can do; a third matters where a command must find what two
others left behind, and is there in `audit`, `gc_serial`, `onboarding` and
`session`. One target more than one is needed to be killed between two; two
versions of a source or two data are needed to be stale. One fault is enough in
`session`, whose properties name the kill that explains an error: a second one
only adds a second reason. One edit lets a decision go stale; a second lets the
file come back or another go, which `proposal` and `projection` have. In `recovery` one
kill and one edit, in either order and anywhere among the commands, reach every
damage of a single file beside every state of the others; the safety properties
also hold with two edits.
`Pipeline`, `Proposal` and `Surfaces` run command after command without a bound,
since nothing but the named variables is carried over. The assets, texts, files
and bundles are one of each kind a rule tells apart; the MC modules say which.
Processes are interchangeable and every set of requests is closed under their
permutation, so symmetry is sound for the invariants and action properties
checked. Where section 4 has a theorem the bounds do not matter.

Every property is broken by a mutant of the code in its own run.

## 4. What is proved

`AuditLogProofs`, for every set of commands, data, requests and every level:

* `TypeSafe`. `TypeOK` is not inductive: `TypeInv` adds that an open line is
  the last one, what a command has at each `pc`, and the types of the events it
  carries.
* `AppendDurable`, `AppendUnique` (`AckedDurable`, `AckedUnique`). The inductive
  invariant is `WriteInv`: a command that has written knows the line its event
  landed on, that line is complete and no later append touches it (an append can
  only join a line that was left *open*), and two commands never hold the same
  line. A verification that passes after the write has read every line's number
  as its position, so the number a command reports is the place of its own
  line; racing commands share a number but not a place. `LandProperties` and
  `PrefixStable` say what an append leaves alone.
* `DamageIsPermanent`, an action property: a line that fails keeps failing
  because it keeps its place and its predecessor (`LandNeverMends`).
* `SerialStreamVerifies`, `SerialAppendsAreAccepted`, `SerialCheckpoint`, of
  `SerialSpec` when no request is below A2 or oversize: `SerialInv` adds that the
  log verifies at A2, that a command about to write holds the event that
  extends the log as it is (`NewEventExtends`), and where the checkpoint may lag.
  No run checks the last two, that no append is refused and that a finished A3
  append leaves the checkpoint at the head of the log.
* `CheckpointHasItsEvent` (`CheckpointNamesEvent`): a command that has truncated the
  checkpoint holds the event of its own complete line, and lines only grow.

* `LogImplementsLedger`, that `AuditLog` implements `AuditLedger` (`LedgerSpec`), for
  every interleaving, kill and torn write. Under the mapping an entry is an accepted
  line, and the ledger is frozen when something follows the accepted prefix. `ExtentInv`
  says that this prefix has a greatest length, so that the `CHOOSE` of the mapping has a
  value. A line that lands is then `Record` when it extends the prefix and `Damage` when
  it does not; the step that reports an append is `Acknowledge`, once per number by
  `AckedUnique`; every other step is a stutter.
* `CollectionKeepsChain`, `FreshAreRetained` (`SerialChainOK`, `FreshRetained`), of
  `SerialGCSpec`: any number of collectors and appends, one at a time, killed wherever
  they are. `GCInv` adds to the types `GCPlaced` (an appender holds an event built from
  the stream as it is, a collector that rewrites has put exactly the first lines of its
  plan), `GCRetained` (until a collector is killed the fresh data of the stream, or of the plan
  once its rewriting has begun, are those ever landed, in order) and `GCVerifies` (stream and plan verify).
  What `Fresh` and `Rebuild` compute is shown by induction over the rounds of the loop.

`OnboardingProofs`, for any number of commands and operations:

* `TypeSafe`.
* `MarkerIsLast` (`MarkerLast`): `MarkerInv` says that an accept comes to a file over all
  those before it in `Writes`, and that every torn file has a command that is rewriting
  it or was killed there.
* `AcceptedIsComplete` (`AcceptedComplete`): only an approved command writes, and it
  passes the two appends in order (`AcceptedInv`).
* `ReportIsTruthful` (`ReportTruthful`), racing commands included: `ReportInv` relates
  what the stat calls of a detection have seen so far (`saw`) to the classes the store
  went through meanwhile (`during`).
* `RefusalsAreExplained` and `EditIsKept` (`RefusalsExplained`, `EditSurvives`), for commands
  one after the other: `SerialInv` says that, as long as nothing has raced, one command
  runs at most, and every missing file and every refusal on its way has a killed accept
  that explains it.

`RunSessionProofs`, for any sets of commands, targets, inputs and interfaces:

* `TypeSafe`, `TargetsAreWrittenAhead`, `ExitsAreTruthful` (`WriteAhead`, `ExitTruthful`),
  races and failing appends included. The inductive invariant is `SessionInv`: with the
  types, `Ctl` (what a command has by where it is), `Passed` (every event before its place
  on the route is recorded), `Evidence` (no event without a route that writes it),
  `Approved` (an apply was announced, approved and portable) and `Wrote` (a target that
  names a command was written in a step of that command's apply).
* `FastPathIsInspected`: `FastInv`, that a matching key is that of a snapshot, and the
  snapshot that of a session that had planned.
* `ErrorsAreExplained`: `TornExplained`, every torn file has its writer or its killed one.
* `RunStateIsTruthful`: `StateInv`, an apply under way holds the targets it has passed.
* `LifecycleIsKept`: `GraphInv`, with `MergedFirst`: on every route the write of the graph
  comes right after the merge with the graph on disk.
* `ResumeFollowsLast` (`ResumesLast`, an action property): `HandoffInv`. The first attempt
  failed for a good reason: a session on the fast path writes its handoff before its
  closing event, whose append may fail, so a session that ended in an error may have
  changed what a resume continues. `ResumesLast` now excepts every session that was killed
  or failed at or after its handoff.

`ProjectionProofs`, for any commands, versions and edits:

* `TypeSafe`, `EventsAreTruthful` (`EventTruthful`), races included: `CommandInv` is `Ctl`, what a
  command has decided by where it is, and `Traced`, that it has no event before the append
  and exactly one, with the right `written`, after it.
* `BlocksAreExplained`, `UserDocIsSpared` (`BlockedExplained`, `UserDocSpared`): `DocInv` relates
  the document to the two history variables whatever races; `AloneInv` says that, as long as
  nothing has raced, what a command found (`Fresh`) is still so when it acts on it.

`ProposalProofs`, for any candidate assets and texts and any number of edits:

* `TypeSafe`, `DangerIsRouted`, `AlarmsAreGrounded`, `RoutingsDoAgree` (`DangerRouted`,
  `AlarmGrounded`, `RoutingsAgree`). The invariant brackets what was found between what
  held all along (`Thorough`: no asset behind the stat calls made, no risk behind the
  surfaces read is missing; it needs that no risk outlives its surface, in `History`) and
  what held at some moment (`Grounded`). `Exact` says that without an edit it is the project
  itself, and `Derived` which function of it each proposal and answer is. The rest are
  lemmas about `Inference` and `Resolvers`: conflicts grow with the assets
  (`ConflictsGrow`), every danger names a strict trigger (`DangerIsStrict`), the two
  ways to compute `diagnosticsOnly` differ only where no rule reads it
  (`DiagnosticsAlike`, `PipelineAgrees`), and whatever override an input asks for, it
  moves the decision no further than the property allows (`OverrideIsBounded`).

`InstallersProofs`, for any commands, requests, projects and edits:

* `TypeSafe`. `CoreInv` places every command: which job of it is under way, which file of
  its plan, what the decision behind it saw, and that nothing is written unapproved.
* `ChangesAreReported`, `InitIsTraced` (`ChangesReported`, `InitTraced`), races, kills,
  failing writes and failing appends included. `Traced` has four parts: what a command has
  changed is what its events name and, between its first write and its event or where it
  has failed, the part of the plan it has got to (`ReportInv`); only a command that has
  ended has met a file that fails (`BrokenInv`); the steps an init has on record and those ahead are all of its setup, the
  installed ones are counted right and name what was changed, and a refused one is the
  last (`InitInv`); and what the `init.end` of one that is done says (`DoneInv`). They
  need that the log is only appended to and that an event belongs to one command
  (`OthersRecord`).
* `UserDocsKept` (`UserDocKept`). `DocInv` holds whatever races: the settings of the user
  in a file are those of his last edit, and unless he has edited the file since or a
  command rewrote it that had read something else, either no command has touched it, or it
  is what a rewrite of just these settings makes, or it is truncated and the command that
  did so is still at it or stopped there. `DocKept` says without the exemptions what
  commands one after the other keep.
* `LogExplains`, `UserScriptsKept` (`LogExplainsFiles`, `UserScriptKept`), for commands one
  after the other. `OneInv` says that, as long as nothing has raced, one command runs at
  most and what it has read is what is there, but for the files it has written already
  (`FreshInv`), and that the last event on a file tells what is there (`Explained`). That an
  init never comes twice to one file (`NewInv`) holds whatever races.

`ResolutionProofs`, of `Pipeline`, for every set of modes and bundles and every sequence
of them:

* `StrictIsKept`. The invariant is `Evaluated`: the steps taken are the first ones
  of the order, and the fifth, once taken, is the transition from the state that
  the caller still holds. So the state an answer hands back is what the
  transition table makes of the caller's own (`TransitionFields`), whatever the
  bundles, the failure tiers and the other ten resolvers say.
* `TypeSafe`, `FinalIsRestrained`, `FailsClosed` (`FinalRestrained`, `FailClosed`). They rest on
  what the fold returns, whatever the number of answers: `FoldProperties`, that it is
  apply or one of the answers and no less restrained than any. `FoldRounds` shows that
  there is a function of that recursion. `AnswerInv` carries what the failure and the
  operation resolver said until the answer is forgotten; the rest are facts about their
  tables.

and of `Surfaces`, for every project, command and number of edits:

* `SurfacesTypeSafe`: every name that a command ends up with is that of a binding or the
  one it was given, or says that there is none (`DetectIsKnown`).
* `AppliesServe` (`NoSilentDegrade`): a plan that passes the gate serves every file it was
  made from (`SupportedIsServed`), those there all along among them (`SurfacesInv`).
* `EditorIsShown` (`EditorShown`). One binding has the best score, and the first of its
  name (`BestExists`); what an editor scores without a file of its own copilot scores
  as well, and is sorted before it (`CopilotScores`).

`CallerProofs`, of `AdapterLoop`, for every limit:

* `ThreeAttemptsAtMost`: `Counted` ties the number of attempts to the flags added
  so far; there are two flags, each is added once.
* `ConsentOnly`: `LastAttempt` keeps, through the collector's phase, what the
  last attempt asked for.

and of `Recovery`, for every project and any number of kills, edits and losses:

* `HealthyStarts` (`DoctorForesees`) needs no more of the store than the types of its
  files (`DiskInvariant`, that every step of every command, cut short or not, keeps
  them): an `AGENTS.md` that passes the parity check is there, so an interface is detected.
* `HealthIsKept` (`HealthyKept`, an action property): on the files that doctor compares
  each step of a command says of the session what the last one said, or leaves them
  alone (`Quiet`); such steps can all be taken on a healthy store (`QuietPossible`); the
  session state and the task graph are written both or neither (`Together`). What a
  sequence of steps leaves in a file on which they agree is told by `AfterField`, by
  induction over the sequence.

Assumptions: the named `ASSUME`s of the modules, which say no more than that
constants have their types and that the marker values (`None`, `Garbled`,
`Torn`, the `"none"` of RunSession) are not events, checkpoints or commands. SHA-256 is
taken to be injective on what it is given, through the definition of `Hash`.

**Induction.** A recursive function (`Fresh`, `Rebuild`, the fold of `Pipeline`, `After`) is a
`CHOOSE`. Each proof about one first builds, by induction over the rounds, a function
that satisfies the recursion, and then shows by a second induction what every such function
returns. Both take the induction as a *set* of naturals that contains 0 and with each
number the next (`SetInduction`, from the well-foundedness of `<` on `Nat`), because the
library's induction theorems take an operator. `LeastNat` and `SetInduction` stand in
three modules, which share nothing else.

**Model-checked only**: `AdviceHeals`, the one liveness property, which rests on fairness and
thus on `ENABLED`; and the run `gc_race`, which ends in a violation. Every other property of the
runs is stated by a theorem above. What an operator that takes an operator computes (`SelectSeq`, in
`Recovery!Remedies`: the order of the advice) cannot be proved for every input either; the
theorems do not depend on it. No module uses a `RECURSIVE` operator.

## 5. What is not modelled, and why

* doctor and migrate check beside racing writers, and migrate check's look at the
  version of the run events, which advises only for a version 2 that nothing writes.
* Orchestration policy, harness profile, extensions and aliases print tables or
  listings; no command decides by them.
* Evaluator, performance, fixtures and coverage run or measure other commands
  and write reports nobody reads back.
* Validation against schemas is field by field and pure. A document that does
  not load, for whatever reason, is `torn`, `garbled` or absent in the models.
* Of run events only order, author and kind are kept; of plans, proposals and
  generated files only who wrote them from what.
* Loss of power that reorders writes: the code never calls fsync, and the models
  take a write that returned to be there. A torn *line* is modelled.
* A write, a removal or a read that fails has a path of its own in `Installers`, where a
  loop over files returns without the event that a caller expects. In the other
  components it is to the files what a kill at that system call is, since no command but
  init records anything once an error has been returned; it differs by its exit code,
  which is not modelled there. A failing `os.WriteFile` leaves the file as it was or empty:
  the text goes out in one system call, and one that writes a part of it only is left out.
* Within modelled components: capability lists, guidance strengths and
  suggested actions of a proposal; `mutate`'s own gates; `gc --scope tmp` beside a
  running session; `projection render` in `Recovery`, which no advice names; and
  Detect and Portability in RunSession are constants rather than `Surfaces`'
  operators.

## 6. Findings

A finding is a run with `expect: violation` and one property, quoting the text of the
repository it contradicts; the details are in `PROJECT.json`.

| Run | The text says | The code does |
|---|---|---|
| `gc_race` | the stream "must remain append-only" (ADR-004) | a collection overwrites what was appended while it planned, and the stream still verifies |

## 7. Observations

### Where a text of the repository says otherwise

These came up while modelling. The models contain the behaviour; no run is kept
for them.

| Source | The text | The code |
|---|---|---|
| `src/internal/audit/chain.go:68` | `seq` is "1-based monotonically increasing" (ADR-004:41) | two appends at once write one number twice; the second is refused after its line is on disk |
| `src/internal/run/state.go:23` | `partial_state`: a state exists but the index is missing (run-contract.md:83) | a detection beside an accept can see that where it never was, since it looks at the two in the order in which they are created |
| `src/internal/run/state.go:47` | "delete .atrakta/state/onboarding-state.json, then re-run" (`internal/entry/entry.go:119`) | the directories are still there, the re-run is blocked by `corrupt_state` |
| `src/cmd/atrakta/cmd_run.go:121` | "no canonical/state/audit write before explicit approval" (run-contract.md:102) | `start.begin` is appended first |
| `src/internal/run/state.go:43` | a canonical store has its contract (run-contract.md:76) | not after a kill between the two writes |
| `src/internal/run/session_state.go:99` | saves "preserve existing node lifecycle status" (implementation-status.md:78) | two sessions at once lose an update |
| `src/cmd/atrakta/cmd_run.go:644` | the fast path is for "when nothing relevant changed" (phase1-start-command-issues.md:132) | the key is computed when the session ends: a change during it is taken as inspected |
| `src/cmd/atrakta/cmd_run_lifecycle.go:209` | `error.raised` for failures that abort the run (ADR-004:100) | only a missing contract is recorded so |
| `src/resolvers/failure/strict-state-machine/resolver.go:65` | the failure tier drives the state (strict-lifecycle.md:36) | nothing leads out of released but a reset |
| `src/resolvers/legacy/resolve-legacy-status/resolver.go:65` | a strict escalation path is required (legacy-governance.md:28) | the escalation is read by nothing |
| `src/resolvers/mutation/check-mutation-scope/resolver.go:125` | docs/generated is a managed include (sample-onboarding-proposal.json:19) | the rule for `/generated/` takes the path first |
| `src/cmd/atrakta/cmd_init_steps.go:179` | "do not overwrite existing integration assets" (`cmd_init.go:37`) | decided before the prompt, written after it |
| `src/cmd/atrakta/cmd_init.go:108` | `steps_completed` | 0 when a later step fails |
| `src/cmd/atrakta/cmd_projection.go:90` | "projection repair requires approval before writing files" (`cmd_projection.go:163`) | a missing or stale document is written, then the approval is asked for |
| `src/cmd/atrakta/cmd_run_lifecycle.go:142` | "rerun `atrakta start` to refresh session state" (`cmd_doctor.go:203`) | start takes the fast path and writes no session state: so after an ordinary onboarding of a project with an `AGENTS.md`, which saves the state it found, "none", beside a snapshot that matches; so with a `state.json` that is lost or of version 0 |
| `src/cmd/atrakta/cmd_run.go:749` | "rerun `atrakta start` or `atrakta resume` to realign session state" (`cmd_doctor.go:177`) | not after a kill between `state.json` and `task-graph.json`, for the same reason |
| `src/internal/audit/append_verify.go:8` | "rerun `atrakta start` or `atrakta resume` to rebuild the event chain" (`cmd_doctor.go:266`) | a stream that does not verify is rebuilt by no command |
| `src/cmd/atrakta/cmd_projection.go:198` | repair is "blocked by externally modified target" (`cmd_projection.go:178`) | not by one modified after the comparison, or during the prompt |
| `src/internal/bindings/registry.go:107` | run "falls back to generic-cli" (run-contract.md:103) | an error outside a Go module |
| `src/resolvers/portability/resolve-surface-portability/resolver.go:95` | unsupported "does not silently succeed" (surface-portability.md:57) | an empty request is supported by every binding, the unsupported one included |

### Where no text speaks against it

* accept records a proposal whatever its routing says, a refusal included.
* run's own routing looks at neither manifests nor risks, so a project that
  onboarding routes to strict for those is inspected as usual (the second part of
  `RoutingsAgree` is about duplicate guidance only).
* A project with nothing but `docs` is detected as copilot, the first name among
  equal scores. One with `.github/workflows` and `AGENTS.md` is detected as
  github-actions, whose binding cannot write `AGENTS.md`, so no apply goes ahead.
* The branch for `CLAUDE.md` in the choice by assets is dead: it is no
  candidate of the asset detection. So are the points for it and for
  `.agents/skills`.
* An error in the second file of ide-autostart, of hook repair or of init's last step leaves
  the first one changed, with no event and a stream that verifies
  (`autostart.go:72-77`, `cmd_hook.go:327-330`): `ChangesReported` says that this is all
  that can be missing.
* init asks three times. After a yes and a no it exits with `needs_approval`, and what the
  yes installed stays; its events say so.
* ide-autostart overwrites `version`, `source`, `command` and `workspace_root` of an
  `autostart.json` of the user's own without looking at them (`autostart.go:192-195`),
  where it leaves a version and a task of its name alone in `tasks.json`. A prompt that is
  answered late writes the document that was read before it: edits in between are lost.
* The bundle of `inspect --input` may ask for a tier. With `--onboard-root` the class and
  the triggers come from the proposal, but the tier asked for stays (`cmd_mode.go:98-104`), so
  `WARN_ONLY` lifts the ban on execution that the proposal announced for duplicate guidance
  or an unresolved capability, and `BLOCK` forbids the projection it allowed. The transition
  stays strict, and a policy failure stays blocked: `RoutingsAgree`.
* preview and simulate keep propose in the clamp, but the layer resolver never
  says more than inspect, so no bundle is answered more.
* doctor calls a store healthy that start fails on: a torn snapshot or auto state, a
  torn index or marker, a damaged install stream. These are `Jammed` in `Recovery`,
  and the exceptions that `AdviceHeals` and `DoctorForesees` make.
* doctor also calls a project healthy that has session files and no canonical store
  any more (index lost, marker and directories deleted as advised); the next start
  onboards it, and doctor then complains.
* A document rendered into a project without `AGENTS.md` is stale at once, since the
  source of the interface turns from default to detect and is part of the text;
  repair renders twice and so converges.
* `gc --scope tmp --apply` before the advice of doctor makes all of the advice about
  the session state work; no text says so.
* A path under `src/` that contains `/generated/` is a generated projection to the
  scope resolver, though the proposal leaves `src/**` to the user.
* One `audit append --level A0` makes every later A2 verification, and so every
  later command, fail.

## 8. Plan

Done, in this order: AuditLog with AuditLedger and its proofs, Onboarding,
RunSession, AuditGC, Resolvers and Pipeline, AdapterLoop with its proofs,
Installers, Projection, Inference with Proposal, Surfaces, Recovery; the proofs of
Pipeline, Onboarding, RunSession, Projection and Proposal, and that AuditLog implements
AuditLedger; the proofs of Installers, of AuditGC, of the fold of Pipeline, of Surfaces
and of Recovery. No safety property of a passing run is left without a theorem.

Next, to prove: what the ledger promises when collectors run one at a time, which
needs an abstract step that drops old entries.

Next, to model: the mutation engine behind `mutate`, with
`Resolvers!MutationScope` against the scope a proposal announces (to be added to
`Inference`), and `Surfaces!Detect` and `Surfaces!PlanPortability` in place of
RunSession's constants.
