CONSTANTS
    Contacts = {"k1"}
    Rooms = {}
    Holds <- MCHolds
    Chances <- MCChances
SPECIFICATION FairSpec
PROPERTY ConnectionComesBack
\* A tab whose page is left alone does nothing: the system may stop.
CHECK_DEADLOCK FALSE
