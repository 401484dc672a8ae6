SPECIFICATION ClientSpec
CONSTANTS
    None = None
    p1 = p1
    p2 = p2
    Probes <- MCProbes
    Offered <- MCOffered
    c1 = c1
    c2 = c2
    Calls <- MCCalls
    UsedFor <- MCUsedFor
    Configs <- MCConfigs
    Workers = 1
    MaxTime = 1
    LastCall = 0
INVARIANTS ClientTypeOK NoClientLeftOpen CancellationPrevails QueueHoldsAwaitedWork
CHECK_DEADLOCK FALSE
PROPERTIES ClientProbeEnds ImplementsContract
