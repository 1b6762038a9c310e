CONSTANTS
  e1 = e1
  e2 = e2
  e3 = e3
  None = None
  LBCs <- Hyphens
  ELBIDs <- ThreeELBs
  MaxParts = 3
  FaultPoints <- NoFaults
  Budget <- TwoCreated

SPECIFICATION FairSpec
PROPERTY
  RecordedELBKept

\* The system may rest: users are not obliged to act.
CHECK_DEADLOCK FALSE
