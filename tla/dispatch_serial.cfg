SPECIFICATION DispatchSpec
CONSTANTS
    d1 = d1
    d2 = d2
    j1 = j1
    j2 = j2
    o1 = o1
    r1 = r1
    s1 = s1
    s2 = s2
    NoScope = NoScope
    NoDriver = NoDriver
    NoPlan = NoPlan
    NoJob = NoJob
    NoSnap = NoSnap
    Jobs = {j1, j2}
    Scopes = {s1, s2}
    Orders = {o1}
    Drivers = {d1, d2}
    Requests = {r1}
    ManualTargets = {"exception"}
    MaxKills = 1
    MaxOpen = 1
    MaxPlans = 2
    PlanIds <- MCPlanIds
    Region <- MCRegion
SYMMETRY MCSymmetry
INVARIANTS
    PlansDoNotCollide
PROPERTIES
    ImplementsLifecycle
    PublishLeavesNothingPending
CHECK_DEADLOCK FALSE
