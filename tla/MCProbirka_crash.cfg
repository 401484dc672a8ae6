SPECIFICATION ProbirkaSpec
CONSTANTS
    None = None
    p1 = p1
    p2 = p2
    g1 = g1
    Probes <- MCOneProbe
    Groups = {g1}
    Runs = {r1}
    Calls <- MCOneTask
    Configs <- MCPlain
    RunTimeouts = {1}
    RunGroups <- MCNoGroup
    ProbeLists <- MCOneList
    GroupLists <- MCNoGroup
    DefaultTtls <- MCNoDefaults
    MaxTasks = 1
    MaxRegistered = 1
    MaxTime = 2
    LastCall = 1
CHECK_DEADLOCK FALSE
INVARIANTS ProbeNeverCrashesTheRun
