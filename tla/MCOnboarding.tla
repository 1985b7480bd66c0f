---------------------------- MODULE MCOnboarding ----------------------------
(* Instances of Onboarding for TLC. *)
EXTENDS Onboarding, TLC

Sym == Permutations(Proc)

Ask(commands, approvals, resolutions) ==
  [command : commands, approves : approvals, resolves : resolutions]

\* Every command, approved and not; the session that is not approved does not
\* resolve conflicts either.
AnyRequest == Ask({"accept"}, {TRUE}, {TRUE}) \cup
              Ask({"run"}, BOOLEAN, {TRUE}) \cup Ask({"start"}, {TRUE}, {TRUE}) \cup
              Ask({"start"}, {FALSE}, {FALSE})
=============================================================================
