CONSTANTS
    m1 = m1 m2 = m2
    c1 = c1 c2 = c2 c3 = c3
    NoMessage = NoMessage
    Messages = {m1}
    Calls = {c1, c2, c3}
    Unroutable = {}
    MaxAttempts = 2
    Budget <- FaultyPath
SPECIFICATION Spec
SYMMETRY Slots
INVARIANT NoPhantomConfirmation
PROPERTY ImplementsLifecycle
\* The budget runs out and every message is settled: the system may stop.
CHECK_DEADLOCK FALSE
