\* Two nodes that answer in part, one of them removable; one caller, fairness.
CONSTANTS
    Nodes = {n1, n2}
    Passes = {worker}
    NoPass = NoPass
    Hashes = {h1}
    Removable = {n1}
    HistoryErrors = FALSE
    MaxBytes = 1
    MaxRuns = 1
    MaxTries = 2
SPECIFICATION FairSpec
PROPERTIES ImplementsMeter CatchesUp
