\* Two callers, one node that is deleted, restored and rebuilt; fairness.
CONSTANTS
    Nodes = {n1}
    Passes = {worker, handler}
    NoPass = NoPass
    NoNode = NoNode
    Removable = {n1}
SPECIFICATION FairSpec
INVARIANTS TypeOK HashTrusted RevocationOwed
PROPERTIES PolicyConverges DeletionConverges
