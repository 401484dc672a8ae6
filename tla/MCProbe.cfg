SPECIFICATION Spec
CONSTANTS
    None = None
    Probes = {p1}
    Calls = {c1, c2, c3}
    Configs <- MCConfigs
    MaxTime = 3
    LastCall = 2
SYMMETRY MCSymmetry
INVARIANTS TypeOK CacheCoherent ServedWithinTtl NewestResultCached CacheHoldsAnAnswer
CHECK_DEADLOCK FALSE
