SPECIFICATION JobsFairSpec
CONSTANTS
    j1 = j1
    j2 = j2
    j3 = j3
    s1 = s1
    s2 = s2
    NoScope = NoScope
    Jobs = {j1, j2, j3}
    Scopes = {s1, s2}
    MaxKills = 2
INVARIANTS
    AtMostOneRunning
    OneWriterPerJob
PROPERTIES
    OutcomeIsFinal
    PostedJobsAreTaken
    RunningJobsEndOrAreLost
CHECK_DEADLOCK FALSE
