---------------------------- MODULE MCInstallers ----------------------------
(* Instances of Installers for TLC. *)
EXTENDS Installers, TLC

Sym == Permutations(Proc)

\* A command with its prompt answered yes or no.
Ask(command, hooks, answers, dries) ==
  [command : {command}, hook : hooks,
   approves : {IF yes THEN {command} \cap Prompts ELSE {} : yes \in answers}, dry : dries,
   keeps : {FALSE}, skips : {{}}, resolves : {TRUE}, onboards : {TRUE}]
AskInit(approvals, keeps, skips, resolves, onboards) ==
  [command : {"init"}, hook : {"pre-commit"}, approves : approvals, dry : {FALSE},
   keeps : keeps, skips : skips, resolves : resolves, onboards : onboards]

One == {"pre-commit"}
HookRequest == Ask("hook.install", One, {TRUE}, BOOLEAN) \cup
               Ask("hook.uninstall", One, {FALSE}, {FALSE}) \cup
               Ask("hook.status", One, {FALSE}, {FALSE}) \cup
               Ask("hook.repair", One, {TRUE}, {FALSE})
WrapRequest == Ask("wrap.install", One, BOOLEAN, {FALSE}) \cup
               Ask("wrap.uninstall", One, {FALSE}, BOOLEAN) \cup
               Ask("wrap.run", One, {FALSE}, {FALSE})
IdeRequest  == Ask("ide-autostart", One, {TRUE}, {FALSE})

\* An init that is approved altogether, and those that get a yes for the wrapper
\* and a no for what comes next: for the hook, with --no-overwrite, or, with
\* --no-hook, for the IDE files.
InitRequest == AskInit({SetupSteps}, {FALSE}, {{}}, {TRUE}, {TRUE}) \cup
               AskInit({{"wrap"}}, {TRUE}, {{}}, {TRUE}, {TRUE}) \cup
               AskInit({{"wrap"}}, {FALSE}, {{"hook"}}, {TRUE}, {TRUE}) \cup
               AskInit({SetupSteps}, {FALSE}, {{}}, {FALSE}, {TRUE}) \cup
               AskInit({SetupSteps}, {FALSE}, {{}}, {TRUE}, {FALSE})
AnyRequest  == HookRequest \cup WrapRequest \cup IdeRequest \cup InitRequest

\* What writes in the end.
Bold(r) == ~r.dry /\ r.command \in r.approves \cup {"hook.uninstall", "wrap.uninstall"}

\* A project with a task of the user's that has the name of atrakta's, and one
\* with hooks, a wrapper and settings in both IDE files.
Projects == {[t \in Targets |-> IF t = "tasks" THEN "custom" ELSE "absent"],
             [t \in Targets |-> IF t = "cursor" THEN "custom" ELSE "user"]}

\* Two single commands of which one writes, or an init and one that writes.
Mixed == {f \in [Proc -> AnyRequest] : \E p \in Proc : Bold(f[p])}
=============================================================================
