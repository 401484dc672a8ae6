SPECIFICATION Spec
CONSTANTS
    None = None
    Probes = {p1}
    Calls = {c1, c2}
    Configs <- MCTimedConfigs
    MaxTime = 2
    LastCall = 1
INVARIANTS TimeoutMeansExpired
CHECK_DEADLOCK FALSE
