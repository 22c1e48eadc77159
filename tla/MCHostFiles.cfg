\* What the host does around the panel: update, release offer, migration, TLS
\* pair and daily backup.
SPECIFICATION HostSpec
CONSTANTS
    Releases = {1, 2}
    SchemaOf <- MCSchemaOf
    MaxUpdates = 2
    MaxUpdWrites = 2
    Tags <- MCTags
    Running <- MCRunning
    MaxTags = 2
    Environments <- MCEnvironments
    Legacy <- MCLegacy
    MaxUserId = 4
    Pairs = {p1, p2}
    MaxDay = 3
    AutoKeep = 2
    HandKeep = 1
INVARIANTS
    HostTypeOK
    UpdateKeepsAll
    MigratedWhole
    BackupsAsRecorded
PROPERTIES
    UpdateEndsAsReported
    OfferIsUpgrade
    UserIdsNotReissued
    MigrationEnds
    TlsServesAsTold
    BackupDayEnds
\* Nothing is left to do at the bounds.
CHECK_DEADLOCK FALSE
