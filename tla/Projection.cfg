SPECIFICATION Spec
CONSTANTS
  Proc = {p1, p2}
  Requests <- AnyRequest
  Versions = 1
  Faulty = TRUE
  Edits = 2
SYMMETRY Sym
CHECK_DEADLOCK FALSE
INVARIANT EventTruthful
INVARIANT BlockedExplained
PROPERTY UserDocSpared
