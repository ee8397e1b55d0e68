SPECIFICATION Spec
CONSTANTS
    Ann = Ann
    Ben = Ben
    Cleo = Cleo
    Sales = Sales
    Launch = Launch
    General = General
    Users = {Ann, Ben, Cleo}
    Organisers = {}
    Channels = {Sales, Launch}
    Roster <- MCRoster
    Common = General
    Calls = {1, 2}
    Scenarios <- MCScenarios
CHECK_DEADLOCK FALSE
INVARIANT
    KickIsFinal
