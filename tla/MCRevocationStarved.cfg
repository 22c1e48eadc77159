\* A pass takes as many jobs as the flaky node has.
CONSTANTS
    Nodes = {1, 2}
    Accounts = {ann, bob}
    Limit = 2
    MaxId = 2
    MaxSecond = 1
    Flaky = {1}
    Removable = {}
    MaxPushes = 1
SPECIFICATION FairSpec
PROPERTY ReachableDelivered
