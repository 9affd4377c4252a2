SPECIFICATION FairSpec
CONSTANTS
    Req = {r1, r2}
    PBlock = {p1}
    DBlock = {d1}
    Worker = {w1, w2}
    Junk = Junk
    NoBlock = NoBlock
    Timeout = 1
PROPERTIES
    
    LoadEnds
