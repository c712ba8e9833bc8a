CONSTANTS
    a = a
    p = p
    q = q
    m = m
    Up = Up
    Router <- Routers
    Root <- Roots
    Leader = {a}
    Neighbor <- TriangleWithTail
    MaxFaults = 1
SPECIFICATION FairSpec
INVARIANTS TypeOK NoneTwice Reached OneAnswer
PROPERTIES Spreads
CHECK_DEADLOCK FALSE
