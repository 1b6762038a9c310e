CONSTANTS
  p1 = p1
  p2 = p2
  a = a
  b = b
  None = None
  Ports <- TwoPorts
  Nodes <- TwoNodes
  NodePorts <- AnyNodePort
  FixedPorts <- StablePort
  FixedNodes <- StableNode
  FaultPoints <- PoolOnly
  Budget <- OneFault

SPECIFICATION FairSpec
PROPERTY
  StackConverges

\* The system may rest once the load balancer is gone.
CHECK_DEADLOCK FALSE
