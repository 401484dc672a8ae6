SPECIFICATION SharedSpec
CONSTANTS
    None = None
    Threads = {t1, t2, t3}
    Configs <- MCConfigs
    MaxTurn = 1
    MaxTime = 5
SYMMETRY MCSymmetry
INVARIANTS NothingVanishes ServedIsRecent OneTtlNeverMixes
CHECK_DEADLOCK FALSE
