SPECIFICATION FairSpec
INVARIANTS TypeOK KnownJobOutcomeIsTrue MutationSentOnce FsHeldUntilOver FetchedOnce
PROPERTY EveryJobCallReturns
CONSTANTS
    f = f
    g = g
    None = None
    Ops = {f, g}
    Kinds <- FsAndPlain
    MaxJobs = 3
    MaxMisses = 2
    ReadRetries = 1
    MaxRestarts = 1
CHECK_DEADLOCK FALSE
