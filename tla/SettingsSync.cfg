CONSTANTS
    p1 = p1
    p2 = p2
    c1 = c1
    c2 = c2
    bad = bad
    none = none
    g1 = g1
    g2 = g2
    None = none
    Ports <- MCPorts
    CIDRs <- MCCIDRs
    ValidCIDRs <- MCValid
    Groups <- MCGroups
    Sizes <- MCSizes
    Wishes <- MCWishes
    Edits = 2
    Faults = 1
    DefaultSize = 1
    MaxSize = 20
SPECIFICATION FairSpec
INVARIANTS
    TypeOK
    OperatorAccepted
    OneGroup
    BoundGroupExists
    EnforcedWhenRecorded
    RecordedSizeApplied
PROPERTIES
    
    NoGroupLeftBehind
    RangesEnforced
    RangesLifted
    SizeApplied
    GroupReclaimed
CHECK_DEADLOCK FALSE
