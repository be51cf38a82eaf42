SPECIFICATION MCSpec
CONSTANTS
    Tabs = {t1, t2}
    Slots = {s1, s2}
    LoginLimit = 1
    MaxPairs = 3
    MaxSeconds = 2
    MaxActs = 3
    NumDays = 2
    Hours = {8}
    MaxPicks = 3
    MaxEdits = 1
    NumRequests = 3
    Missing = Missing
    NumAccounts = 3
    Phones = {f1, f2}
    FirstPhone = f1
    Freed = Freed
    MaxInputs = 5
    MaxForeign = 1
    MaxPending = 2
    LeafSize = 1
    Nobody = Nobody
INVARIANTS
    SignOutEndsSession
    ShownUserHasSession
    NoFalseAlarm
    AttemptsBounded
    PanelsAgree
    SettledReportIsAsked
    OneAccountPerPhone
PROPERTIES
    RevocationIsComplete
CHECK_DEADLOCK FALSE
