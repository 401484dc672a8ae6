SPECIFICATION ProbirkaSpec
CONSTANTS
    None = None
    p1 = p1
    p2 = p2
    g1 = g1
    Probes <- MCTwoProbes
    Groups = {g1}
    Runs = {r1}
    Calls <- MCTwoTasks
    Configs <- MCTimedOrLenient
    RunTimeouts = {1, None}
    RunGroups <- MCMaybeGroup
    ProbeLists <- MCLists
    GroupLists <- MCMaybeGroup
    DefaultTtls <- MCNoDefaults
    MaxTasks = 2
    MaxRegistered = 1
    MaxTime = 2
    LastCall = 1
INVARIANTS ProbirkaTypeOK StrictSourceWins PartialResultsSurvive NoTaskOutlivesRun
PROPERTIES RunEnds
CHECK_DEADLOCK FALSE
