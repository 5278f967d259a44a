SPECIFICATION Spec
CONSTANTS
  t1 = t1
  t2 = t2
  k1 = k1
  c1 = c1
  x1 = x1
  x2 = x2
  p1 = p1
  p2 = p2
  None = None
  Turns = {t1, t2}
  Kids = {}
  Cards = {c1}
  Cmds = {x1, x2}
  Panics = {c1}
  Transport = "acp"
  Callers <- EndAndAnalysis
  MaxEpoch = 2
SYMMETRY TurnSymmetry
CHECK_DEADLOCK FALSE
INVARIANTS
  HookReachesTurn
  AnalysisJoined
