SPECIFICATION LiveSpec
CONSTANTS
  t1 = t1
  t2 = t2
  k1 = k1
  c1 = c1
  x1 = x1
  x2 = x2
  p1 = p1
  p2 = p2
  None = None
  Turns = {t1}
  Kids = {k1}
  Cards = {c1}
  Cmds = {}
  Panics = {}
  Transport = "acp"
  Callers <- EndAndQuit
  MaxEpoch = 0
CHECK_DEADLOCK FALSE
PROPERTIES
  EndSettles
  QuiesceEnds
