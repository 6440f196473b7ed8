SPECIFICATION Spec
CONSTANTS
    Inbound = {i1, i2, i3}
    ProbeFailures = 3
    MaxFaults = 4
    None = None
INVARIANT TypeOK
PROPERTY WayOutHeals
