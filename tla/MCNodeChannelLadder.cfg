SPECIFICATION FairSpec
CONSTANTS
    Worker = {w1}
    PrimaryLimit = 3
    FallbackLimit = 3
    MaxCrashes = 2
INVARIANT TypeOK
INVARIANT IsolatedForCause
PROPERTY IsolationEnds
PROPERTY DirectReturns
