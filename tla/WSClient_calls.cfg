SPECIFICATION Spec
CONSTANTS
    a = a
    b = b
    Callers = {a, b}
    Cfg = Cfg
    KA = KA
    None = None
    Cancellable = {}
    Replies = {"ok"}
    MaxInFlight = 2
    DialRetries = 0
    ReconnectRetries = 0
    MaxConns = 3
    MaxPings = 0
    MaxCloses = 0
SYMMETRY Interchangeable
INVARIANTS
    NoLostWaiter
    OneSession
    LossIsMarked
PROPERTY CallKeepsPromise
CHECK_DEADLOCK FALSE
