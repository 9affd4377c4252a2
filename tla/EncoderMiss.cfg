SPECIFICATION Spec
CONSTANTS
    h1 = h1
    h2 = h2
    h3 = h3
    Hash = {h1, h2, h3}
    Size <- SizeThree
    Req = {r1, r2}
    Features <- FeaturesThree
    CacheSize = 2
    CpuCacheSize = 2
    Watermark = 0
    Policies = {"fcfs"}
    FineGrainedTP = FALSE
    PrefixCaching = FALSE
    Lag = 0
    NoReq = NoReq
SYMMETRY Symmetry
INVARIANT
    HitServed
