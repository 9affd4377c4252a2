SPECIFICATION Spec
CONSTANTS
    r1 = r1
    r2 = r2
    a = a
    b = b
    c = c
    Worker = {w0, w1}
    Rank0 = w0
    Req = {r1, r2}
    Key = {a, b, c}
    Prompt <- PromptTwo
    Block = {b1, b2}
    Null = Null
    Nothing = Nothing
    AlignState = {FALSE}
    MaxSaves = 3
    MaxResets = 1
    MaxFaults = 0
SYMMETRY Symmetry
INVARIANTS
    StoreFresh
