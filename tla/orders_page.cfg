SPECIFICATION MCSpec
CONSTANTS
    Filters = {"all", "waiting"}
    d1 = d1
    Drivers = {d1}
    InitialStatus = {"scheduled"}
    InitialCount = 2
    MaxOrders = 3
    PageSize = 1
    Limit = 2
    MaxElsewhere = 1
    MaxClicks = 4
    MaxLoads = 1
    None = None
    Persons = {a, b}
    a = a
    b = b
    Partial = Partial
    Short = Short
    Nothing = Nothing
    Capacity = 2
    MaxSearches = 2
    MaxInputs = 5
    Places = {p1, p2}
    p1 = p1
    p2 = p2
    NoPlace = NoPlace
    MaxLookups = 2
    MaxMoves = 4
SYMMETRY Alike
INVARIANTS
    SettledPageIsCurrent
    OwnWritesShown
    NoTripTwice
    SettledPointsAgree
    ClicksPlacedInOrder
PROPERTIES
    TypedFormKept
    UntouchedTimeKept
    OrderIsForTypedPhone
CHECK_DEADLOCK FALSE
