SPECIFICATION Spec
CONSTANTS
  d1 = d1
  d2 = d2
  None = None
  Garbled = Garbled
  Torn = Torn
  Proc = {p1, p2, p3}
  Data = {d1, d2}
  Oversize = {d2}
  Requests <- AllRequests
SYMMETRY Sym
CHECK_DEADLOCK FALSE
INVARIANT AckedDurable
INVARIANT AckedUnique
INVARIANT CheckpointNamesEvent
PROPERTY DamagePermanent
PROPERTY LedgerSpec
