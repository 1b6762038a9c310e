CONSTANTS
  u1 = u1
  u2 = u2
  e1 = e1
  e2 = e2
  n1 = n1
  n2 = n2
  None = None
  UIDs <- OneUID
  ELBIDs <- TwoELBs
  Names <- OneName
  FaultPoints <- EveryCall
  Budget <- Rough
  Starts <- WithBinding
  Holds <- Unheld
  Changes <- TypeChanges

SPECIFICATION FairSpec
PROPERTIES
  LiveServiceServed

\* The system may rest: users are not obliged to act.
CHECK_DEADLOCK FALSE
