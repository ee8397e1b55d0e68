CONSTANTS
    m1 = m1 m2 = m2 k1 = k1 k2 = k2 r1 = r1 r2 = r2
    NoMessage = NoMessage
    Messages = {m1, m2}
    Contacts = {k1}
    Requests = {r1, r2}
    MaxAttempts = 3
    From <- SameSender
    Budget <- Calm
SPECIFICATION FairSpec
INVARIANTS NothingLost 
PROPERTY EventuallyFiled
\* Every message has been delivered and filed: the system may stop.
CHECK_DEADLOCK FALSE
