CONSTANTS
    u1 = u1 u2 = u2 t1 = t1
    c1 = c1 c2 = c2 c3 = c3 d1 = d1
    Nobody = Nobody
    Users = {u1}
    Tags = {}
    Calls = {c1, c2, c3}
    Starting = {"NEW", "OPEN", "IN_PROGRESS", "AWAITING_CUSTOMER", "QUOTATION_SENT", "FOLLOW_UP", "STALE", "CONVERTED", "CLOSED_LOST"}
    Budget <- Automatic
SPECIFICATION DaysSpec
SYMMETRY Interchangeable
INVARIANTS TimelineFollowsTable TimelineTellsAll
PROPERTIES FollowsTable 
\* The requests run out and every handler has finished: the system may stop.
CHECK_DEADLOCK FALSE
