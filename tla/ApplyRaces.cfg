\* Two connections, two references and two deployments: racing statements may
\* route one reference to different deployments.  No symmetry, for liveness.
SPECIFICATION FairSpec
CONSTANTS
    Ref = {r1, r2}
    Dep = {d1, d2}
    Session = {s1, s2}
    Amount = {1}
    Date = {1}
    MCPrincipal = 1
    Principal <- MCPrincipals
    NoRow = NoRow
    NoDep = NoDep
INVARIANTS
    LocksProtect
    ReplayFindsRow
PROPERTIES
    AppendOnly
    LedgerSpec
    StatementsEnd
