SPECIFICATION Spec
CONSTANTS
    Worker = {w1}
    PrimaryLimit = 3
    FallbackLimit = 3
    MaxCrashes = 0
PROPERTY FailureIsCounted
