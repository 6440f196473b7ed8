SPECIFICATION Spec
CONSTANTS
    Node = {n1, n2, n3}
    Id = {a, b}
    MaxVersion = 1
    MaxCuts = 1
    Checker = {c1}
    Decider = {d1}
    Unreadable = {n3}
    None = None
INVARIANT TypeOK
INVARIANT OneRestartEach
INVARIANT AskedIsTrue
PROPERTY NoNagging
PROPERTY ConsentIsKept
PROPERTY ApprovedEnds
