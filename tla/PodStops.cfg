SPECIFICATION FairSpec
CONSTANTS
    Payer = {p1, p2, p3}
    Other = {o1}
    Worker = {w1, w2}
    Ceiling = 2
\* A process that has exited takes no further step.
CHECK_DEADLOCK FALSE
INVARIANTS
    TypeOK
    SlotsMatchHolders
    UsersLeaveFirst
PROPERTIES
    CapacityReturns
    StopEnds
