SPECIFICATION DispatchSpec
CONSTANTS
    d1 = d1
    d2 = d2
    o1 = o1
    o2 = o2
    o3 = o3
    r1 = r1
    r2 = r2
    s1 = s1
    s2 = s2
    NoScope = NoScope
    NoDriver = NoDriver
    NoPlan = NoPlan
    NoJob = NoJob
    NoSnap = NoSnap
    Jobs = {}
    Scopes = {s1, s2}
    Orders = {o1, o2}
    Drivers = {d1, d2}
    Requests = {r1, r2}
    ManualTargets = {}
    MaxKills = 0
    MaxOpen = 2
    MaxPlans = 3
    PlanIds <- MCPlanIds
    Region <- MCRegion
INVARIANTS
    AssignedOnce
CHECK_DEADLOCK FALSE
