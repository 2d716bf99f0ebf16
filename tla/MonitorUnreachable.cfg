\* One caller; the book of MCReconciliation.
CONSTANTS
    n1 = n1
    n2 = n2
    a1 = a1
    a2 = a2
    v1 = v1
    v2 = v2
    gone = gone
    u1 = u1
    u2 = u2
    p1 = p1
    p2 = p2
    Null = Null
    None = None
    Scale = 600
    Network = {n1, n2}
    Asset = {a1, a2}
    Vault = {v1, v2}
    VaultAsset <- MCVaultAsset
    Positions <- MCPositions
    Events <- MCEvents
    Partner = p1
    Caller = {c1}
    Holding <- MCHolding
    Tvl = {0, 100}
    Opening = 100
    Query = {Null, a1}
    ToleranceBps = 1000
    Ttl = 2
    Timeout = 1
    PageLimit = 2
    PagedIn = {"none"}
    MaxTime = 2
    MaxMoves = 0
SPECIFICATION Spec
INVARIANTS UnreachableIsTold
