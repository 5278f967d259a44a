SPECIFICATION Spec
CONSTANTS
  e1 = e1
  e2 = e2
  k1 = k1
  Execs = {e1, e2}
  Joiners = {k1}
  None = None
  LoadMayFail = TRUE
INVARIANT AcceptedSurvives
CHECK_DEADLOCK FALSE
