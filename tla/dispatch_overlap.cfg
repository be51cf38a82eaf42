SPECIFICATION DispatchSpec
CONSTANTS
    d1 = d1
    j1 = j1
    o1 = o1
    o2 = o2
    r1 = r1
    r2 = r2
    s1 = s1
    s2 = s2
    NoScope = NoScope
    NoDriver = NoDriver
    NoPlan = NoPlan
    NoJob = NoJob
    NoSnap = NoSnap
    Jobs = {j1}
    Scopes = {s1}
    Orders = {o1, o2}
    Drivers = {d1}
    Requests = {r1, r2}
    ManualTargets = {}
    MaxKills = 0
    MaxOpen = 2
    MaxPlans = 2
    PlanIds <- MCPlanIds
    Region <- MCRegion
SYMMETRY MCSymmetry
INVARIANTS
    OpenTransactionsSound
PROPERTIES
    PublishedPlansAreStable
CHECK_DEADLOCK FALSE
