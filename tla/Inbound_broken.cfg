CONSTANTS
    m1 = m1 m2 = m2 k1 = k1 k2 = k2 r1 = r1 r2 = r2
    NoMessage = NoMessage
    Messages = {m1, m2}
    Contacts = {k1, k2}
    Requests = {r1, r2}
    MaxAttempts = 3
    From <- TwoSenders
    Budget <- Broken
SPECIFICATION Spec
SYMMETRY Renamings
INVARIANTS ThreadedOnce
PROPERTIES FilingIsFinal ImplementsIntake
\* Every message has been delivered and filed: the system may stop.
CHECK_DEADLOCK FALSE
