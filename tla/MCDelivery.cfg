SPECIFICATION Spec
CONSTANTS
    Account = {a1, a2}
    Chat = {c1}
    Device = {d1}
    Push = {p1, p2}
    MaxFaults = 1
    None = None
INVARIANT TypeOK
INVARIANT BanSticks
INVARIANT MovedIsTold
PROPERTY NobodySignedOut
PROPERTY QueueDrains
