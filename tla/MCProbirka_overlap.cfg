SPECIFICATION ProbirkaSpec
CONSTANTS
    None = None
    p1 = p1
    p2 = p2
    g1 = g1
    Probes <- MCOneProbe
    Groups = {g1}
    Runs = {r1, r2}
    Calls <- MCOneTask
    Configs <- MCMaybeCaching
    RunTimeouts = {1, None}
    RunGroups <- MCNoGroup
    ProbeLists <- MCOneList
    GroupLists <- MCNoGroup
    DefaultTtls <- MCDefaults
    MaxTasks = 1
    MaxRegistered = 1
    MaxTime = 2
    LastCall = 1
INVARIANTS OnlyOverdueTasksCancelled
PROPERTIES ProbeSpec ImplementsHealthCheck
CHECK_DEADLOCK FALSE
