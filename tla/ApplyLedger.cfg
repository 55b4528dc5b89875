\* Three references race on two connections for the room left under a principal
\* of 3; amounts of 1 and 2 leave an overpayment to split, two dates arrive in
\* either order.
SPECIFICATION Spec
CONSTANTS
    Ref = {r1, r2, r3}
    Dep = {d1}
    Session = {s1, s2}
    Amount = {1, 2}
    Date = {1, 2}
    MCPrincipal = 3
    Principal <- MCPrincipals
    NoRow = NoRow
    NoDep = NoDep
SYMMETRY Symmetry
INVARIANTS
    TypeOK
    PositionIsDerivable
    DebtIsPaidOnce
    LedgerTiles
