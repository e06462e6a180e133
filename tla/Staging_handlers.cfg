SPECIFICATION Spec
CONSTANTS
    x = x
    y = y
    Ops = {x, y}
    None = None
    MaxLate = 2
CHECK_DEADLOCK FALSE
INVARIANTS TypeOK StagedApart FailureIsUndone SuccessIsKept
