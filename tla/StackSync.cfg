CONSTANTS
  p1 = p1
  p2 = p2
  a = a
  b = b
  None = None
  Ports <- TwoPorts
  Nodes <- TwoNodes
  NodePorts <- AnyNodePort
  FixedPorts <- StablePort
  FixedNodes <- StableNode
  FaultPoints <- RetriedCalls
  Budget <- SomeChanges

SPECIFICATION FairSpec
INVARIANTS
  TypeOK
  EIPReclaimed
  SyncedExactly
PROPERTIES
  FixedMembersKept
  StackConverges
  TornDown
  OrderKept
  CompleteLeftAlone

\* The system may rest once the load balancer is gone.
CHECK_DEADLOCK FALSE
