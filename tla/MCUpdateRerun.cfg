\* An in-tree DATA_DIR, an update that is killed, and the panel started before
\* the update runs again.
SPECIFICATION HostSpec
CONSTANTS
    Releases = {1, 2}
    SchemaOf <- MCSchemaOf
    MaxUpdates = 2
    MaxUpdWrites = 2
    Tags <- MCTags
    Running <- MCRunning
    MaxTags = 2
    Environments <- MCEnvironments
    Legacy <- MCLegacy
    MaxUserId = 4
    Pairs = {p1, p2}
    MaxDay = 3
    AutoKeep = 2
    HandKeep = 1
INVARIANT InTreeDataKept
\* Nothing is left to do at the bounds.
CHECK_DEADLOCK FALSE
