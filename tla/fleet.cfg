SPECIFICATION MCSpec
CONSTANTS
    NumDrivers = 3
    CardsPerPage = 2
    MaxTurns = 5
    MaxOthers = 1
    MaxAsked = 2
    None = None
    NumSockets = 3
    MaxRetries = 2
    HubLimit = 2
    MaxSwitches = 3
    MaxMoves = 1
    Nil = Nil
    Asked = Asked
INVARIANTS
    SettledGridIsWanted
    PolledDetailIsOfDialog
    OneSocketIfPatient
PROPERTIES
    OverwritesOnlyUnseen
    MapDialogRecovers
    PageConnects
    MapSettles
CHECK_DEADLOCK FALSE
