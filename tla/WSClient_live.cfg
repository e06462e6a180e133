SPECIFICATION FairSpec
CONSTANTS
    a = a
    b = b
    Callers = {a, b}
    Cfg = Cfg
    KA = KA
    None = None
    Cancellable = {a}
    Replies = {"ok", "big"}
    MaxInFlight = 1
    DialRetries = 0
    ReconnectRetries = 1
    MaxConns = 2
    MaxPings = 0
    MaxCloses = 0
PROPERTY EveryCallReturns
CHECK_DEADLOCK FALSE
