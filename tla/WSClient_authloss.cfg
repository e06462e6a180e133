SPECIFICATION Spec
CONSTANTS
    a = a
    b = b
    Callers = {a}
    Cfg = Cfg
    KA = KA
    None = None
    Cancellable = {}
    Replies = {"ok"}
    MaxInFlight = 1
    DialRetries = 1
    ReconnectRetries = 0
    MaxConns = 1
    MaxPings = 0
    MaxCloses = 0
INVARIANT AuthLossRecognised
CHECK_DEADLOCK FALSE
