CONSTANTS
    p1 = p1
    p2 = p2
    c1 = c1
    c2 = c2
    bad = bad
    none = none
    g1 = g1
    g2 = g2
    None = none
    Ports <- MCPorts
    CIDRs <- MCCIDRs
    ValidCIDRs <- MCValid
    Groups <- MCGroups
    Sizes <- MCSizes
    Wishes <- MCWishes
    Edits = 1
    Faults = 0
    DefaultSize = 1
    MaxSize = 20
SPECIFICATION Spec
INVARIANT
    NeverBoth
CHECK_DEADLOCK FALSE
