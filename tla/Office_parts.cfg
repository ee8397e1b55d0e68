SPECIFICATION OfficeSpec
CONSTANTS
    None = None
    Nothing = Nothing
    Blank = Blank
    Leads = {e1, e2}
    Limits <- MCLimits
    DraftIds = {"d1", "d2"}
    Files = {"f1", "f2"}
    Calls = {1, 2}
    Plans <- MCPlans
    ContactIds = {"c1", "c2", "c3"}
    Addresses = {"a1", "a2", "a3"}
    Handlers = {1, 2}
    Books <- MCBooks
    Slots = {1, 2, 3}
    Editors = {1, 2}
    Shelves <- MCShelves
    PermissionIds = {1, 2, 3, 4}
    Staff = {"u1", "u2"}
    Admins = {1, 2}
    Roles = {"ADMIN", "SALES", "OPS"}
    Words = {"read", "update", "manage", "contact", "all"}
    Offices <- MCOffices
    Page = 2
    Before = 1
    Known = {0, 4}
    Requests <- MCRequests
    Owner <- MCOwner
    Author = "u1"
    Chores <- MCChores
    Users = {"u1", "u2"}
    LastTick = 3
    Evenings <- MCEvenings
    HeldContacts = {"k1"}
    HeldChats = {"g1"}
    Holds <- MCHolds
    Chances <- MCChances
    ChannelIds = {1, 2, 3, 4, 5}
    Accounts <- MCAccounts
    Weeks <- MCWeeks
    Enquiries = {1, 2, 3}
    Texts = {"", "a"}
    Filters = {"all", "new"}
    Hits <- MCHits
    Limit = 1
    Visits <- MCVisits
    People = {1, 2, 3}
    Sieves = {"all", "a"}
    Found <- MCFound
    SheetSize = 2
    Engaged = {3}
    Browses <- MCBrowses
    LastId = 5
    Names = {"a", "b"}
    Mornings <- MCMornings
INVARIANTS
    TypesOK
    AiRepliesOnce
    WindowIsWhole
    GoneStaysGone
    TicksAreEarned
    
    FilesKept
    KeepsAChannel
    PlaceholdersFilled
    ReportsHold
    PageMatchesTable
    ListMatchesFilters
    PageIsCurrent
    ListIsTheTable
\* Every part that was asked to do something has done it: the system may stop.
CHECK_DEADLOCK FALSE
