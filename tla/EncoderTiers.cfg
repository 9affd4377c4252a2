SPECIFICATION Spec
CONSTANTS
    h1 = h1
    h2 = h2
    h3 = h3
    Hash = {h1, h2}
    Size <- SizeTwo
    Req = {r1, r2}
    Features <- FeaturesTwo
    CacheSize = 2
    CpuCacheSize = 2
    Watermark = 1
    Policies = {"fcfs"}
    FineGrainedTP = FALSE
    PrefixCaching = TRUE
    Lag = 0
    NoReq = NoReq
SYMMETRY Symmetry
INVARIANTS
    CheckInvariant  AllocatesNew AllocateFits  
