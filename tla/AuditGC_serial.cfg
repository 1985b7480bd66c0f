SPECIFICATION SerialGCSpec
CONSTANTS
  old = old
  new = new
  gcRun = gcRun
  None = None
  Garbled = Garbled
  Torn = Torn
  Proc = {p1, p2, p3, c1, c2}
  Collectors = {c1, c2}
  Data <- GCData
  Old = {old}
  Oversize = {}
  Requests <- GCRequests
SYMMETRY Sym
CHECK_DEADLOCK FALSE
INVARIANT SerialChainOK
INVARIANT FreshRetained
