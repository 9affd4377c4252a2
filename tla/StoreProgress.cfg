SPECIFICATION FairSpec
CONSTANTS
    r1 = r1
    r2 = r2
    a = a
    b = b
    c = c
    Worker = {w0, w1}
    Rank0 = w0
    Req = {r1, r2}
    Key = {a, c}
    Prompt <- PromptShort
    Block = {b1}
    Null = Null
    Nothing = Nothing
    AlignState = {TRUE}
    MaxSaves = 3
    MaxResets = 0
    MaxFaults = 1
PROPERTIES
    FenceOpens PinsReleased
