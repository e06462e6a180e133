SPECIFICATION Spec
CONSTANTS
    a = a
    b = b
    Callers = {a}
    Cfg = Cfg
    KA = KA
    None = None
    Cancellable = {Cfg}
    Replies = {"ok", "err", "bad"}
    MaxInFlight = 1
    DialRetries = 1
    ReconnectRetries = 0
    MaxConns = 2
    MaxPings = 1
    MaxCloses = 1
INVARIANTS
    TypeOK
    PublishedIsUsable
    ReaderNeverBlocks
    OutstandingBounded
CHECK_DEADLOCK FALSE
