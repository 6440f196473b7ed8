SPECIFICATION Spec
CONSTANTS
    User = {u1, u2}
    Node = {n1}
    Uuid = {i1}
    Worker = {w1, w2}
    Capacity = 2
    GraceCapacity = 2
    Faults = {}
    None = None
SYMMETRY Symmetry
PROPERTY CommittedLinkWorks
