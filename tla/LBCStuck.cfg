CONSTANTS
  e1 = e1
  e2 = e2
  e3 = e3
  None = None
  LBCs <- OneLBC
  ELBIDs <- ThreeELBs
  MaxParts = 3
  FaultPoints <- NoFaults
  Budget <- Calm

SPECIFICATION FairSpec
PROPERTY
  DeletedLBCReleased

\* The system may rest: users are not obliged to act.
CHECK_DEADLOCK FALSE
