SPECIFICATION FairSpec
CONSTANTS
    User = {u1}
    Node = {n1}
    Uuid = {i1, i2}
    Worker = {w1}
    Capacity = 1
    GraceCapacity = 1
    Faults = {"crash", "late"}
    None = None
PROPERTY LapsedIsReleased
