------------------------------- MODULE Surfaces -------------------------------
(***************************************************************************)
(* Which interface a command works for, and which of the project's         *)
(* surfaces that interface can serve: entry.resolveInterface, the          *)
(* detection of internal/run/interface.go, the binding definitions that    *)
(* internal/bindings reads, the portability input of cmd_run.go, and the   *)
(* portability gate of an apply.                                           *)
(*                                                                         *)
(* RunSession takes the interface that is detected and the interfaces that *)
(* are portable as given; this module says what they are.  It follows one  *)
(* command after another through an interface, with the user editing the   *)
(* project in between, and leaves files, audit streams and crashes to      *)
(* RunSession.  Approval is given to every apply.                          *)
(***************************************************************************)
EXTENDS Inference, Sequences

CONSTANTS
  Varying,     \* the files and directories the project may have
  Givens,      \* the interfaces --interface or the trigger may name, "" for none
  Places,      \* where commands are started
  Edits        \* bound on the user's edits

Ids == <<"claude-code", "copilot", "cursor", "generic-cli", "github-actions", "mcp", "vscode">>

Place == {"repository", "other module", "outside"}
Command == [name : {"run", "start"}, given : Givens, place : Places, apply : BOOLEAN]

ASSUME SurfacesAssumption ==
  /\ Places \subseteq Place
  /\ "" \in Givens
  /\ Edits \in Nat

-----------------------------------------------------------------------------
(* The bindings: adapters/bindings/<id>/binding.json *)

Unsupported == [targets |-> {}, sources |-> {}, mode |-> "unsupported", surfaces |-> {},
                install |-> "", autostart |-> ""]

IdeBinding(install, autostart) ==
  [targets |-> {"ide_rules", "repo_docs"},
   sources |-> {"canonical_policy", "repo_docs", "agents_md", "ide_rules", "skill_asset"},
   mode |-> "semantic_best_effort",
   surfaces |-> {"tool_hint", "diagnostics"} \cup IF autostart # "" THEN {"autostart"} ELSE {},
   install |-> install, autostart |-> autostart]

Binding(id) ==
  CASE id = "copilot" -> IdeBinding("", "")
    [] id = "cursor"  -> IdeBinding(".atrakta/wrap/cursor.sh", ".cursor/autostart.json")
    [] id = "vscode"  -> IdeBinding(".atrakta/wrap/vscode.sh", ".vscode/tasks.json")
    [] id = "claude-code" ->
         [Unsupported EXCEPT
            !.targets = {"agents_md", "repo_docs", "skill_bundle"},
            !.sources = {"canonical_policy", "repo_docs", "agents_md", "skill_asset"},
            !.mode = "semantic_best_effort"]
    [] id = "generic-cli" ->
         [Unsupported EXCEPT
            !.targets = {"agents_md", "repo_docs"},
            !.sources = {"canonical_policy", "repo_docs", "agents_md", "skill_asset"},
            !.mode = "semantic_required",
            !.install = ".atrakta/wrap/generic-cli.sh"]
    [] id = "github-actions" ->
         [Unsupported EXCEPT
            !.targets = {"repo_docs"},
            !.sources = {"canonical_policy", "repo_docs", "workflow_binding"},
            !.mode = "semantic_best_effort",
            !.surfaces = {"diagnostics"}]
    [] id = "mcp" -> [Unsupported EXCEPT !.sources = {"canonical_policy"}]
    [] OTHER -> Unsupported

\* The definitions are looked for under the go.mod above the working directory
\* of the command, not in the project: there are some in this repository only,
\* and without a go.mod listing and loading both fail.
Listed(place) == IF place = "repository" THEN {Ids[i] : i \in 1..Len(Ids)} ELSE {}
Load(id, place) == IF id \in Listed(place) THEN Binding(id) ELSE Unsupported

-----------------------------------------------------------------------------
(* Detection: internal/run/interface.go *)

Assets(files) == files \cap {Candidates[i] : i \in 1..Len(Candidates)}

\* The files an interface is known by.
Anchor(id) ==
  CASE id = "cursor"         -> RuleDirs
    [] id = "vscode"         -> {".vscode"}
    [] id = "github-actions" -> {".github/workflows"}
    [] id = "claude-code"    -> {"CLAUDE.md"}
    [] id = "generic-cli"    -> {"AGENTS.md"}
    [] OTHER                 -> {}

AnchorPoints(id) ==
  CASE id = "claude-code" -> 85
    [] id = "generic-cli" -> 80
    [] OTHER              -> 90

\* What each source of a binding is worth when the project has it.
SourcePoints(b, a) ==
  LET Worth(source, names, points) ==
        IF source \in b.sources THEN Weight(a, names, points) ELSE 0
  IN  Worth("workflow_binding", {".github/workflows"}, 40)
      + Worth("agents_md", {"AGENTS.md"}, 35)
      + Worth("ide_rules", RuleDirs \cup {".vscode"}, 30)
      + Worth("repo_docs", {"docs"}, 20)
      + Worth("skill_asset", {"skills"}, 15)

SurfacePoints(b, files) ==
  (IF "autostart" \in b.surfaces THEN Weight(files, {b.autostart}, 25) ELSE 0)
  + (IF "tool_hint" \in b.surfaces
     THEN Weight(Assets(files), {".cursor", ".vscode", "AGENTS.md"}, 10) ELSE 0)
  + (IF "diagnostics" \in b.surfaces THEN Weight(Assets(files), {"docs", "AGENTS.md"}, 5) ELSE 0)

Points(id, files) ==
  LET b == Binding(id)
  IN  Weight(files, {b.install}, 100) + Weight(files, {b.autostart}, 95)
      + Weight(files, Anchor(id), AnchorPoints(id))
      + SourcePoints(b, Assets(files)) + SurfacePoints(b, files)

Index(id) == CHOOSE i \in 1..Len(Ids) : Ids[i] = id

\* Mutant: of two bindings with the same score the later name wins.
BetterLastName(x, y, files) ==
  \/ Points(x, files) > Points(y, files)
  \/ Points(x, files) = Points(y, files) /\ Index(x) > Index(y)

\* The order of the candidates: by score, then by name.
Better(x, y, files) ==
  \/ Points(x, files) > Points(y, files)
  \/ Points(x, files) = Points(y, files) /\ Index(x) < Index(y)

\* Without a binding that scores, the assets decide; CLAUDE.md is none.
ByAsset(a) ==
  IF Has(a, RuleDirs) THEN "cursor"
  ELSE IF Has(a, {".vscode"}) THEN "vscode"
  ELSE IF Has(a, {".mcp.json", "mcp.json"}) THEN "mcp"
  ELSE IF Has(a, {"AGENTS.md"}) THEN "generic-cli"
  ELSE IF Has(a, {".github/workflows"}) THEN "github-actions"
  ELSE "unresolved"

Detect(files, place) ==
  LET scoring == {id \in Listed(place) : Points(id, files) > 0}
  IN  IF scoring = {} THEN ByAsset(Assets(files))
      ELSE CHOOSE x \in scoring : \A y \in scoring \ {x} : Better(x, y, files)

-----------------------------------------------------------------------------
(* The portability input: cmd_run.go *)

\* What to ask of an interface when the project has no surface of its own.
DefaultTargets(id, b) ==
  b.targets \cap
    CASE id \in {"generic-cli", "claude-code"}      -> {"agents_md"}
      [] id \in {"cursor", "vscode", "copilot"}     -> {"ide_rules"}
      [] OTHER                                      -> {"repo_docs"}

\* The targets the project's own surfaces stand for.
ProjectTargets(a, b) ==
  {t \in {"agents_md", "ide_rules", "repo_docs", "skill_bundle"} :
     CASE t = "agents_md" -> Has(a, {"AGENTS.md"})
       [] t = "ide_rules" -> Has(a, RuleDirs \cup {".vscode"})
       [] t = "repo_docs" -> Has(a, {"docs"})
       [] OTHER           -> t \in b.targets /\ Has(a, {"skills", ".codex/skills"})}

RequestedTargets(id, a, b) ==
  IF ProjectTargets(a, b) # {} THEN ProjectTargets(a, b) ELSE DefaultTargets(id, b)

AvailableSources(a, canonicalPresent) ==
  {s \in {"canonical_policy", "workflow_binding", "repo_docs", "agents_md", "ide_rules",
          "skill_asset"} :
     CASE s = "canonical_policy" -> canonicalPresent
       [] s = "workflow_binding" -> Has(a, {".github/workflows"})
       [] s = "repo_docs"        -> Has(a, {"docs"})
       [] s = "agents_md"        -> Has(a, {"AGENTS.md"})
       [] s = "ide_rules"        -> Has(a, RuleDirs \cup {".vscode"})
       [] OTHER                  -> Has(a, {"skills", ".codex/skills"})}

PlanPortability(id, place, a, canonicalPresent) ==
  LET b == Load(id, place)
  IN  SurfacePortability([requested |-> RequestedTargets(id, a, b),
                          available |-> AvailableSources(a, canonicalPresent),
                          sources   |-> b.sources,
                          targets   |-> b.targets,
                          mode      |-> b.mode])

-----------------------------------------------------------------------------
(* Commands *)

VARIABLES
  files,       \* the files and directories of the project
  edits,       \* the user's edits so far
  onboarded,   \* the store holds accepted canonical state
  auto,        \* the interface of the auto state, "" without one
  pc,          \* of the command: idle, resolve, plan, gate or stopped
  cmd,         \* its arguments
  path,        \* the path the state of the store sends it on
  iface,       \* the interface it resolved, "" before
  source,      \* and where that came from
  plan,        \* its portability decision, as a set of at most one
  outcome,     \* how it ended
  kept         \* history: the files there ever since it resolved its interface

surfacesVars == <<files, edits, onboarded, auto, pc, cmd, path, iface, source, plan, outcome, kept>>
project == <<files, edits>>
store == <<onboarded, auto>>

DirOf(f) ==
  CASE f \in {".cursor/rules", ".cursor/autostart.json"} -> {".cursor"}
    [] f = ".vscode/tasks.json" -> {".vscode"}
    [] OTHER -> {}

Possible(fs) == \A f \in fs : DirOf(f) \subseteq fs

NoCommand == [name |-> "run", given |-> "", place |-> "repository", apply |-> FALSE]

SurfacesInit ==
  /\ files \in {fs \in SUBSET Varying : Possible(fs)}
  /\ edits = 0
  /\ onboarded = FALSE
  /\ auto = ""
  /\ pc = "idle"
  /\ cmd = NoCommand
  /\ path = "none"
  /\ iface = ""
  /\ source = "none"
  /\ plan = {}
  /\ outcome = "none"
  /\ kept = {}

Edit ==
  /\ edits < Edits
  /\ \E f \in Varying : files' = IF f \in files THEN files \ {f} ELSE files \cup {f}
  /\ Possible(files')
  /\ edits' = edits + 1
  /\ kept' = kept \cap files'
  /\ UNCHANGED <<store, pc, cmd, path, iface, source, plan, outcome>>

\* DetectCanonicalState picks the path.
BeginCommand(c) ==
  /\ pc \in {"idle", "stopped"}
  /\ cmd' = c
  /\ path' = IF onboarded THEN "normal" ELSE "onboarding"
  /\ pc' = "resolve"
  /\ iface' = ""
  /\ source' = "none"
  /\ plan' = {}
  /\ outcome' = "none"
  /\ kept' = files
  /\ UNCHANGED <<project, store>>

Resolve(id, from) ==
  /\ pc = "resolve"
  /\ iface' = id
  /\ source' = from
  /\ kept' = files
  /\ UNCHANGED <<project, store, cmd, path, plan>>

Stop(result) ==
  /\ pc' = "stopped"
  /\ outcome' = result

\* The flag or the trigger.
ResolveGiven ==
  /\ cmd.given # ""
  /\ Resolve(cmd.given, "given")
  /\ pc' = "plan"
  /\ UNCHANGED outcome

UsesAuto == cmd.given = "" /\ path = "normal" /\ auto # ""

ResolveAuto ==
  /\ UsesAuto
  /\ Resolve(auto, "auto")
  /\ pc' = "plan"
  /\ UNCHANGED outcome

\* Neither given nor remembered: detect, or take the default while onboarding.
ResolveDetected ==
  LET found == Detect(files, cmd.place)
  IN  /\ cmd.given = "" /\ ~UsesAuto
      /\ \/ /\ cmd.place = "outside"
            /\ Resolve("", "none")
            /\ Stop("error")
         \/ /\ cmd.place # "outside" /\ found # "unresolved"
            /\ Resolve(found, "detect")
            /\ pc' = "plan"
            /\ UNCHANGED outcome
         \/ /\ cmd.place # "outside" /\ found = "unresolved" /\ path = "onboarding"
            /\ Resolve("generic-cli", "default")
            /\ pc' = "plan"
            /\ UNCHANGED outcome
         \/ /\ cmd.place # "outside" /\ found = "unresolved" /\ path = "normal"
            /\ Resolve("", "none")
            /\ Stop("needs_input")

\* The portability decision; the assets are detected once more for it, and
\* the bindings are loaded.
Plan ==
  /\ pc = "plan"
  /\ IF cmd.place = "outside"
     THEN /\ Stop("error")
          /\ UNCHANGED plan
     ELSE /\ plan' = {PlanPortability(iface, cmd.place, Assets(files), path = "normal")}
          /\ pc' = "gate"
          /\ UNCHANGED outcome
  /\ UNCHANGED <<project, store, cmd, path, iface, source, kept>>

\* start remembers the interface of every command that comes to its end.
Remember == auto' = IF cmd.name = "start" THEN iface ELSE auto

\* Onboarding is approved and accepted whatever the portability.
AcceptOnboarding ==
  /\ pc = "gate" /\ path = "onboarding"
  /\ onboarded' = TRUE
  /\ Remember
  /\ Stop("onboarded")
  /\ UNCHANGED <<project, cmd, path, iface, source, plan, kept>>

Inspect ==
  /\ pc = "gate" /\ path = "normal" /\ ~cmd.apply
  /\ Remember
  /\ Stop("inspected")
  /\ UNCHANGED <<project, onboarded, cmd, path, iface, source, plan, kept>>

\* Mutant: only unsupported portability holds an apply back.
GateDegraded(p) == p.status # "unsupported"

Gate(p) == p.status = "supported"

Apply ==
  /\ pc = "gate" /\ path = "normal" /\ cmd.apply
  /\ Remember
  /\ \E p \in plan : Stop(IF Gate(p) THEN "applied" ELSE "proposal_only")
  /\ UNCHANGED <<project, onboarded, cmd, path, iface, source, plan, kept>>

SurfacesNext ==
  \/ Edit
  \/ \E c \in Command : BeginCommand(c)
  \/ ResolveGiven
  \/ ResolveAuto
  \/ ResolveDetected
  \/ Plan
  \/ AcceptOnboarding
  \/ Inspect
  \/ Apply

SurfacesSpec == SurfacesInit /\ [][SurfacesNext]_surfacesVars

-----------------------------------------------------------------------------
(* Properties *)

Known == {Ids[i] : i \in 1..Len(Ids)}

\* The types of the variables.
SurfacesTypeOK ==
  /\ files \subseteq Varying /\ Possible(files) /\ kept \subseteq files
  /\ edits \in 0..Edits
  /\ onboarded \in BOOLEAN
  /\ auto \in Known \cup Givens \cup {""}
  /\ pc \in {"idle", "resolve", "plan", "gate", "stopped"}
  /\ cmd \in Command \cup {NoCommand}
  /\ path \in {"none", "onboarding", "normal"}
  /\ iface \in Known \cup Givens \cup {""}
  /\ source \in {"none", "given", "auto", "detect", "default"}
  /\ \A p \in plan : p.status \in {"supported", "degraded", "unsupported"}
  /\ outcome \in {"none", "error", "needs_input", "onboarded", "inspected",
                  "proposal_only", "applied"}

\* An apply never goes ahead over a surface it cannot serve: what the project
\* had all along since the interface was resolved, the binding can write
\* itself, with no fallback (cmd_run.go:317-370, cmd_run_lifecycle.go:301).
NoSilentDegrade ==
  outcome = "applied" =>
    LET b == Load(iface, cmd.place)
        Written(t, names) == Has(kept, names) => t \in b.targets
    IN  /\ Written("agents_md", {"AGENTS.md"})
        /\ Written("ide_rules", RuleDirs \cup {".vscode"})
        /\ Written("repo_docs", {"docs"})

\* An editor is detected only in a project that shows a sign of it: what the
\* scores give the editors alike goes to the binding that comes first, and
\* that is neither of these (interface.go:68-95, 98-155).
EditorShown ==
  [][ pc = "resolve" /\ source' = "detect" =>
        /\ iface' = "vscode" => Has(files, {".vscode", ".atrakta/wrap/vscode.sh"})
        /\ iface' = "cursor" => Has(files, RuleDirs \cup {".atrakta/wrap/cursor.sh"}) ]_surfacesVars

=============================================================================
