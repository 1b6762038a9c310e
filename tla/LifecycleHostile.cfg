CONSTANTS
  u1 = u1
  u2 = u2
  e1 = e1
  e2 = e2
  n1 = n1
  n2 = n2
  None = None
  UIDs <- TwoUIDs
  ELBIDs <- TwoELBs
  Names <- OneName
  FaultPoints <- EveryCall
  Budget <- Hostile
  Starts <- WithAnnotation
  Holds <- Held
  Changes <- NoChange

SPECIFICATION Spec
SYMMETRY Symmetry
INVARIANTS
  TypeOK
  UniqueELBName
  FinalizerHoldsELB
  RecordedReclaimed
PROPERTIES
  LiveELBKept
  OwnershipKept

\* The system may rest: users are not obliged to act.
CHECK_DEADLOCK FALSE
