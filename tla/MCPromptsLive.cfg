SPECIFICATION FairSpec
CONSTANTS
  p1 = p1
  p2 = p2
  c1 = c1
  o1 = o1
  Requests = {p1}
  Clients = {c1}
  Ops = {o1}
  Consent = Consent
  Raised = {"approval", "access", "skill", "question", "tool", "sudo"}
  None = None
CHECK_DEADLOCK FALSE
INVARIANTS
  NoFabricatedAnswer
  
PROPERTIES
  WaiterReturns
