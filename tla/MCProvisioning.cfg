SPECIFICATION Spec
CONSTANTS
    MaxGen = 3
    RowId = {r1, r2}
    Host = {name, address}
    Reported = address
    Control = {1, 2}
    Reality = {1, 2}
    None = None
SYMMETRY Symmetry
INVARIANT TypeOK
INVARIANT ActiveAnswers
INVARIANT WayIn
CHECK_DEADLOCK FALSE
