\* Node 1 is flaky, node 2 removable; a pass takes more jobs than node 1 has.
CONSTANTS
    Nodes = {1, 2}
    Accounts = {ann, bob}
    Limit = 3
    MaxId = 2
    MaxSecond = 1
    Flaky = {1}
    Removable = {2}
    MaxPushes = 1
SPECIFICATION FairSpec
INVARIANTS TypeOK LiveUsersSafe DeletedAreOwed
PROPERTIES JobsEndDelivered ReachableDelivered
