SPECIFICATION Spec
INVARIANT PlainResultIsRaw
CONSTANTS
    f = f
    g = g
    None = None
    Ops = {f}
    Kinds <- OnePlain
    MaxJobs = 2
    MaxMisses = 2
    ReadRetries = 1
    MaxRestarts = 0
CHECK_DEADLOCK FALSE
