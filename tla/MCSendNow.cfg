SPECIFICATION FairSpec
CONSTANTS
  x1 = x1
  s1 = s1
  f1 = f1
  o1 = o1
  o2 = o2
  None = None
  Texts = {x1}
  Sends = {}
  Flushes = {f1}
  Ops = {o1, o2}
  MaxTurns = 2
CHECK_DEADLOCK FALSE
INVARIANTS
  OwedIsReachable
  FinalAnswerOwesNothing
  ClaimsSafeBoundary
  NoteStaysInTurn
PROPERTIES
  ImplementsFeedback
  ClosedTurnHasLastWord
  AcceptedSettles
