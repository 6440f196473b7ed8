SPECIFICATION Spec
CONSTANTS
    User = {u1, u2, u3}
    Node = {n1, n2}
    Inbound = {i1, i2, i3}
    Preferred = {p1}
    Fallback = {p2}
    Foreign <- OnePanel
    Control <- NoControl
    MaxPasses <- OnePass
    n2 = n2
    p2 = p2
    Capacity <- Seats
    FailThreshold = 3
    BurnThreshold = 2
    None = None
SYMMETRY Symmetry
INVARIANT TypeOK
INVARIANT PortsBindable
PROPERTY StrandedMoveIsWhole
PROPERTY KillersAreDistinct
