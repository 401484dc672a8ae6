SPECIFICATION AsgiSpec
CONSTANTS
    None = None
    Connections = {k1, k2}
    Apps <- MCApps
    Lengths = {7, 9}
    MaxReceived = 4
SYMMETRY MCSymmetry
INVARIANTS ResponsesAreWhole StatusTellsTheOutcome LifespanAcknowledged AdaptersAgree
CHECK_DEADLOCK FALSE
