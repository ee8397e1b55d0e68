SPECIFICATION Spec
CONSTANTS
    Browsers = {b1, b2}
    Contacts = {c1}
    Channels = {"WHATSAPP", "EMAIL"}
    Chat = "WHATSAPP"
    Calls = {1, 2}
    Scenarios <- MCScenarios
INVARIANTS
    ThreadIsGapless
    RowsFollow
PROPERTIES
    ReadOnlyAdvances
    OpenChatIsRead
\* The scenario is over and every handler has finished: the system may stop.
CHECK_DEADLOCK FALSE
