CONSTANTS
  e1 = e1
  e2 = e2
  e3 = e3
  None = None
  LBCs <- Namesakes
  ELBIDs <- ThreeELBs
  MaxParts = 3
  FaultPoints <- EveryCall
  Budget <- Rough

SPECIFICATION FairSpec
INVARIANTS
  TypeOK
  UniqueELBName
PROPERTIES
  OnlyNamesakeTakes
  ReleasedReclaimed
  AbandonedOnlyByUsers
  ELBProvided

\* The system may rest: users are not obliged to act.
CHECK_DEADLOCK FALSE
