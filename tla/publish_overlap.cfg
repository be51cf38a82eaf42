SPECIFICATION DispatchSpec
CONSTANTS
    d1 = d1
    j1 = j1
    j2 = j2
    o1 = o1
    r1 = r1
    r2 = r2
    s1 = s1
    s2 = s2
    NoScope = NoScope
    NoDriver = NoDriver
    NoPlan = NoPlan
    NoJob = NoJob
    NoSnap = NoSnap
    Jobs = {j1, j2}
    Scopes = {s1}
    Orders = {o1}
    Drivers = {d1}
    Requests = {r1, r2}
    ManualTargets = {}
    MaxKills = 0
    MaxOpen = 2
    MaxPlans = 2
    PlanIds <- MCPlanIds
    Region <- MCRegion
SYMMETRY MCSymmetry
INVARIANTS
    OnePlanInForce
CHECK_DEADLOCK FALSE
