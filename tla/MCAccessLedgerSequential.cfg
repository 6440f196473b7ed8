SPECIFICATION Spec
CONSTANTS
    User = {u1, u2}
    Token = {k1, k2}
    Worker = {w1}
    Package = {"double"}
    MinutesPerView <- Lengths
    Views <- Counts
    MaxAhead = 2
    Ttl = 1
    GraceMinutes = 1
    GraceInterval = 2
    Manual = {2}
    SsvRequired = FALSE
    Horizon = 3
    MaxUnserved = 3
    None = None
SYMMETRY Symmetry
INVARIANT TypeOK
INVARIANT CappedAhead
INVARIANT OneLiveToken
INVARIANT NoExtraView
INVARIANT ServedIsRecorded
PROPERTY TimeIsNeverTaken
PROPERTY GraceIsSpaced
