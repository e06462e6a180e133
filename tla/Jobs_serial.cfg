SPECIFICATION Spec
INVARIANT FsMutationsSerial
CONSTANTS
    f = f
    g = g
    None = None
    Ops = {f, g}
    Kinds <- TwoFs
    MaxJobs = 3
    MaxMisses = 2
    ReadRetries = 1
    MaxRestarts = 0
CHECK_DEADLOCK FALSE
