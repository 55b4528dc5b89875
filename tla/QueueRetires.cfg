SPECIFICATION FairSpec
CONSTANTS
    Messages = 2
    Kind <- OneGarbled
    Worker = {w1}
    Reclaimer = reclaimer
    BatchSize = 2
    MaxAttempts = 2
    MaxLen = 1
    MaxRestarts = 1
    MaxLosses = 1
    w1 = w1
INVARIANTS
    TypeOK
    RecentCreditsKept
    GivenUpLast
PROPERTIES
    InboxSpec
    EveryMessageRetires
