\* 1 over 3 weeks rounds to an instalment of 0; 10 over 3 and 4 weeks leave a
\* remainder; 12 divides evenly.  The days go past the longest term.
SPECIFICATION Spec
CONSTANTS
    Principals = {1, 10, 12}
    Terms = {1, 3, 4}
    Amount = {1, 3, 7}
    Unit = 1
    FirstDay <- EarlyDay
    LastDay = 30
    MaxPayments = 6
INVARIANTS
    PositionRepeatsLedger
    StatusFitsFigures
    ProjectionClears
PROPERTIES
    DueGrowsToPrincipal
    PayingNeverHurts
CHECK_DEADLOCK FALSE
