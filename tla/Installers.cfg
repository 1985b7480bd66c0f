SPECIFICATION Spec
CONSTANTS
  Proc = {p1, p2}
  Requests <- Mixed
  Files0 <- Projects
  Faulty = TRUE
  Edits = 1
  Editable = {"pre-commit", "tasks"}
  Racers = 2
SYMMETRY Sym
CHECK_DEADLOCK FALSE
INVARIANT ChangesReported
INVARIANT InitTraced
INVARIANT UserDocKept
INVARIANT LogExplainsFiles
PROPERTY UserScriptKept
