SPECIFICATION Spec
CONSTANTS
  t1 = t1
  t2 = t2
  k1 = k1
  c1 = c1
  x1 = x1
  x2 = x2
  p1 = p1
  p2 = p2
  None = None
  Turns = {t1, t2}
  Kids = {k1}
  Cards = {c1}
  Cmds = {x1}
  Panics = {}
  Transport = "inproc"
  Callers <- EndAndQuit
  MaxEpoch = 0
SYMMETRY TurnSymmetry
CHECK_DEADLOCK FALSE
INVARIANTS
  SettledMeansOver
  ParentsExact
  QuiescedIsQuiet
PROPERTIES
  ImplementsMembership
