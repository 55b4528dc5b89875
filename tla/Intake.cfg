SPECIFICATION Spec
CONSTANTS
    MaxIntegerDigits = 4
    ColumnDigits = 4
    ColumnScale = 3
    Environment <- MCEnvironment
    Notification <- MCNotification
    Registration <- MCRegistration
    Length <- MCLength
    MaxLen = 1
    MaxQueued = 1
    MaxAside = 1
    MaxDeployments = 2
    None = None
INVARIANTS
    TypeOK
    AcceptsTheContract
    LedgerIsMeant
    SpellingsAgree
    PromisedIsKept
    PrintedReadsBack
    OnlyUncheckedFails
    StandardTermsRegister
