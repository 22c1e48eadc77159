\* A tracked request and an untracked worker, three restores, two copies kept.
CONSTANTS
    Clients = {request, worker}
    Tracked = {request}
    MaxWrites = 2
    MaxRestores = 3
    KeepCopies = 2
SPECIFICATION FairSpec
INVARIANTS TypeOK NoForeignLog AcknowledgedKept PanelServes
PROPERTY RestoreEnds
