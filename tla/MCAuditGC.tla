----------------------------- MODULE MCAuditGC -----------------------------
(* Instances of AuditGC for TLC. *)
EXTENDS AuditGC, TLC

CONSTANTS old, new, gcRun

Sym == Permutations(Proc \ Collectors) \cup Permutations(Collectors)

\* Appends of old and of fresh events; a collector's own event is fresh.
GCRequests == [append : {TRUE}, level : {2}, data : Data]
GCData == {old, new, gcRun}
=============================================================================
