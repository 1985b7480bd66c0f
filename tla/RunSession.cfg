SPECIFICATION Spec
CONSTANTS
  Proc = {p1, p2, p3}
  Requests <- AnyRequest
  Interfaces = {"cli", "ide"}
  Detected = "ide"
  Inputs = {"old", "new"}
  Portable = {"old"}
  Targets <- TwoTargets
  Faults = 1
  Edits = 1
  Racers = 2
SYMMETRY Sym
CHECK_DEADLOCK FALSE
INVARIANT WriteAhead
INVARIANT ExitTruthful
INVARIANT LifecycleKept
INVARIANT FastPathInspected
INVARIANT RunStateTruthful
INVARIANT ErrorsExplained
PROPERTY ResumesLast
