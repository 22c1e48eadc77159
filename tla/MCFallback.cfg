\* One request and one restore.
CONSTANTS
    Clients = {request}
    Tracked = {request}
    MaxWrites = 1
    MaxRestores = 1
    KeepCopies = 10
SPECIFICATION Spec
INVARIANT FallbackComplete
