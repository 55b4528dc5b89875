SPECIFICATION Spec
CONSTANTS
    r1 = r1
    r2 = r2
    k1 = k1
    k2 = k2
    d1 = d1
    d2 = d2
    NGN = NGN
    USD = USD
    None = None
    Call = {c1, c2}
    Dep = {d1}
    Customer = {k1}
    Ref = {r1}
    Currency = {NGN, USD}
    Notification <- Foreign
    Principal = 1
    DepCurrency <- AllNGN
    MaxLen = 1
    QueueEnabled = FALSE
INVARIANT IdenticalIsNoConflict
