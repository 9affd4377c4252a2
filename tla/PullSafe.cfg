SPECIFICATION Spec
CONSTANTS
    Req = {r1, r2}
    PBlock = {p1, p2}
    DBlock = {d1, d2}
    Worker = {w1, w2}
    Junk = Junk
    NoBlock = NoBlock
    Timeout = 1
SYMMETRY Symmetry
INVARIANTS
    TypeOK
    DelayedOnce
    OneDone
    LoadOnce
    RunsOnItsOwnKV
    NoneHidden
PROPERTIES
    ImplementsLease
