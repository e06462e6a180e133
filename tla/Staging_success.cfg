SPECIFICATION Spec
CONSTANTS
    x = x
    y = y
    Ops = {x, y}
    None = None
    MaxLate = 0
CHECK_DEADLOCK FALSE
INVARIANT SuccessIsFinal
