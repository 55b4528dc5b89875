SPECIFICATION Spec
CONSTANTS
    Messages = 2
    Kind <- AllGood
    Worker = {w1}
    Reclaimer = reclaimer
    BatchSize = 1
    MaxAttempts = 2
    MaxLen = 1
    MaxRestarts = 0
    MaxLosses = 0
    w1 = w1
INVARIANT NoCreditLost
