SPECIFICATION Spec
CONSTANTS
  j1 = j1
  j2 = j2
  o1 = o1
  o2 = o2
  t1 = t1
  Jobs = {j1, j2}
  Ops = {o1}
  Turns = {t1}
  OpOf <- OneOp
  TurnOf <- OneTurn
  MaxJobs = 2
  MaxStopped = 1
CHECK_DEADLOCK FALSE
INVARIANT
  OutcomeDelivered
