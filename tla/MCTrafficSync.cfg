\* One node, two interchangeable callers of SyncTraffic, two attempts.
CONSTANTS
    Nodes = {n1}
    Passes = {worker, manual}
    NoPass = NoPass
    Hashes = {h1}
    Removable = {n1}
    HistoryErrors = TRUE
    MaxBytes = 2
    MaxRuns = 2
    MaxTries = 2
SYMMETRY Symmetry
SPECIFICATION Spec
INVARIANTS
    TypeOK
    NoOvercharge
    UsedMatchesCharges
    HistoryWithinCharges
PROPERTY BaselineHolds
