SPECIFICATION MCSpec
CONSTANTS
    Days = {d1, d2}
    d1 = d1
    d2 = d2
    Tomorrow = d1
    o1 = o1
    o2 = o2
    Orders = {o1, o2}
    MaxEvents = 4
    None = None
    Crew = {w1, w2}
    w1 = w1
    w2 = w2
    NumLegs = 3
    Batch = 2
    MaxPicks = 2
    MaxDrawings = 2
    MaxViews = 2
    Nobody = Nobody
INVARIANTS
    SettledPageIsOfDate
    FreshAfterEvent
    MapsShowTheChosen
PROPERTIES
    PlanNeverGoesBack
    DeafPageRecovers
    ChosenIsDrawn
CHECK_DEADLOCK FALSE
