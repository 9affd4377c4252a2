SPECIFICATION FairSpec
CONSTANTS
    a = a
    b = b
    c = c
    h1 = h1
    h2 = h2
    h3 = h3
    ua = ua
    ub = ub
    uc = uc
    Req = {a, b}
    Gpu = {g1, g2, g3}
    NumCpu = 4
    Worker = {w1, w2}
    Content = {h1, h2, ua, ub, uc}
    Hashed = {h1, h2}
    Junk = Junk
    NoHash = NoHash
    Blocks <- TwoSharing
    PrefixCaching = TRUE
    MaxPreempt = 2
    MaxInFlight = 2
PROPERTIES
    BecomesRestorable
    AbortedIsFreed
INVARIANTS
    TypeOK
    RestorableIsStored
    KVIntact
    LoadTargetsPinned
