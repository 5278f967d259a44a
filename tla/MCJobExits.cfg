SPECIFICATION FairSpec
CONSTANTS
  e1 = e1
  e2 = e2
  k1 = k1
  Execs = {e1, e2}
  Joiners = {k1}
  None = None
  LoadMayFail = FALSE
INVARIANTS AcceptedSurvives JoinFinalizes AnnouncementOwed
PROPERTIES ImplementsExitSink AddReturns
CHECK_DEADLOCK FALSE
