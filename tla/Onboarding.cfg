SPECIFICATION Spec
CONSTANTS
  Proc = {p1, p2, p3}
  Requests <- AnyRequest
  Faulty = TRUE
  Losable = {"policy", "state"}
  Operations = 1
  Racers = 2
SYMMETRY Sym
CHECK_DEADLOCK FALSE
INVARIANT MarkerLast
INVARIANT AcceptedComplete
INVARIANT ReportTruthful
INVARIANT RefusalsExplained
PROPERTY EditSurvives
