\* One node, two interchangeable callers of SyncTraffic, three attempts.
CONSTANTS
    Nodes = {n1}
    Passes = {worker, manual}
    NoPass = NoPass
    Hashes = {h1, h2}
    Removable = {n1}
    HistoryErrors = TRUE
    MaxBytes = 2
    MaxRuns = 2
    MaxTries = 3
SPECIFICATION Spec
PROPERTY ResetForgives
