SPECIFICATION FairSpec
CONSTANTS
  s1 = s1
  s2 = s2
  h1 = h1
  MaxGens = 2
  Native = {s1, s2}
  Legacy = {h1}
  MaxFaults = 2
  None = None
CHECK_DEADLOCK FALSE
INVARIANTS
  KeptOrGivenUp
  ArchiveKept
  TargetStands
  AdmittedClean
PROPERTIES
  StoreRecovers
