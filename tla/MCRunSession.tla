---------------------------- MODULE MCRunSession ----------------------------
(* Instances of RunSession for TLC. *)
EXTENDS RunSession, TLC

Sym == Permutations(Proc)
TwoTargets == <<"repo-map", "guidance">>

Ask(commands, applies, approvals, interfaces) ==
  [command : commands, apply : applies, approves : approvals, interface : interfaces]

\* An apply approved or not, and sessions that take their interface from what
\* is saved, or detect it.
AnyRequest == Ask({"run"}, {TRUE}, {FALSE}, {"cli"}) \cup
              Ask({"start"}, {TRUE}, {TRUE}, {"cli"}) \cup
              Ask({"start", "resume"}, {FALSE}, {FALSE}, {"unset"})
=============================================================================
