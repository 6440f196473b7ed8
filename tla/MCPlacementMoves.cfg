SPECIFICATION Spec
CONSTANTS
    User = {u1, u2}
    Node = {n1, n2}
    Uuid = {i1, i2}
    Worker = {w1}
    Capacity = 1
    GraceCapacity = 1
    Faults = {"crash", "late"}
    None = None
SYMMETRY Symmetry
INVARIANT TypeOK
INVARIANT OneActivePerUser
INVARIANT WithinCapacity
PROPERTY CommittedLinkWorks
PROPERTY SweepReleasesOnlyRemoved
PROPERTY EntitledKeepsPlace
PROPERTY UnaskedMoveIsQueued
