SPECIFICATION Spec
CONSTANTS
  p1 = p1
  p2 = p2
  c1 = c1
  o1 = o1
  Requests = {p1, p2}
  Clients = {c1}
  Ops = {o1}
  Consent = Consent
  Raised = {"approval", "access", "tool"}
  None = None
SYMMETRY PromptSymmetry
CHECK_DEADLOCK FALSE
INVARIANTS
  Answerable
PROPERTIES
  ImplementsDecisions
