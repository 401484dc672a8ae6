SPECIFICATION LogSpec
CONSTANTS
    None = None
    p1 = p1
    p2 = p2
    Probes <- MCProbes
    Groups = {g1, g2}
    Runs = {}
    Calls <- MCCalls
    Configs <- MCConfigs
    RunTimeouts = {}
    RunGroups <- MCGroupLists
    ProbeLists <- MCProbeLists
    GroupLists <- MCGroupLists
    DefaultTtls <- MCDefaults
    MaxTasks = 0
    MaxRegistered = 12
    MaxAdds = 3
    MaxTime = 0
    LastCall = 0
SYMMETRY MCSymmetry
INVARIANTS CollectMatchesLog OrderMatchesLog
CHECK_DEADLOCK FALSE
