SPECIFICATION Spec
CONSTANTS
    a = a
    b = b
    c = c
    h1 = h1
    h2 = h2
    h3 = h3
    ua = ua
    ub = ub
    uc = uc
    Req = {a, b, c}
    Gpu = {g1, g2, g3}
    NumCpu = 4
    Worker = {w1}
    Content = {h1, h2, ua, ub, uc}
    Hashed = {h1, h2}
    Junk = Junk
    NoHash = NoHash
    Blocks <- OneShort
    PrefixCaching = TRUE
    MaxPreempt = 2
    MaxInFlight = 1
SYMMETRY GpuSymmetry
INVARIANTS
    
    StoreUnderWay
