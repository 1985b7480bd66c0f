SPECIFICATION GCSpec
CONSTANTS
  old = old
  new = new
  gcRun = gcRun
  None = None
  Garbled = Garbled
  Torn = Torn
  Proc = {p1, p2, c1}
  Collectors = {c1}
  Data <- GCData
  Old = {old}
  Oversize = {}
  Requests <- GCRequests
SYMMETRY Sym
CHECK_DEADLOCK FALSE
INVARIANT FreshNotLost
