----------------------------- MODULE MCAuditLog -----------------------------
(* Instances of AuditLog for TLC. *)
EXTENDS AuditLog, TLC

CONSTANTS d1, d2

Sym == Permutations(Proc)

Appends(levels, data) == [append : {TRUE}, level : levels, data : data]
Verifies(levels)      == [append : {FALSE}, level : levels, data : {d1}]

\* "audit append --level" and "audit verify --level" accept all four levels; a
\* command appends at A2, here also data that is too long to be read back.
AllRequests == Appends(0..3, {d1}) \cup Verifies(0..3) \cup Appends({2}, {d2})
=============================================================================
