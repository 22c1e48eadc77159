\* What runs side by side in the panel: accounts, access, calls, alerts, view.
SPECIFICATION PanelSpec
CONSTANTS
    u1 = u1
    u2 = u2
    u3 = u3
    Accounts = {u1, u2, u3}
    NameOf <- MCNameOf
    Edited = {u1}
    Removed = {u2, u3}
    Unread = {u3}
    Requests = {q1, q2}
    MaxCharges <- MCMaxCharges
    Names = {"admin", "boss"}
    Secrets = {s1}
    NoSecret = none
    Callers = {c1, c2}
    Tokens = {t1}
    MaxKeys = 1
    MaxRecoveries = 2
    MaxAttempts = 1
    MaxLost = 1
    Ids = {1}
    Places = {p1, p2}
    Certs = {k1, k2}
    Vouched = {k2}
    NoPin = nopin
    Fallback = TRUE
    NodeCallers = {c1, c2}
    MaxEdits = 2
    Worker = w
    Collectors = {w, o}
    Conditions = {hot}
    Clear = clear
    AlertBatch = 1
    MaxEvents = 2
    MaxAsked = 1
    MaxRestarts = 1
    NodeNames = {1, 2}
    Browsers = {b}
    Writers = {h}
    QueueCap = 1
    SnapshotCap = 1
    IdleTicks = 1
    MaxChanges = 1
INVARIANTS
    PanelTypeOK
    DeletionKeepsAccounts
    ActiveIsEntitled
    RecoveryEndsSessions
    LockoutHolds
    AnswersArePinned
PROPERTIES
    OwnerIsTold
    NodesShownTruly
\* Nothing is left to do at the bounds.
CHECK_DEADLOCK FALSE
