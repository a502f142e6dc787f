CONSTANTS
    w1 = w1
    w2 = w2
    b1 = b1
    Symbols = {w1, w2}
    Configured = {}
    TrendSymbols = {}
    WildcardSymbols = {w1, w2}
    WildcardSlots = 2
    Slots <- PerSleeve
    MaxCandidates = 2
    Cap = 1
    Day = 1
    Faults = {"blankRead"}
SPECIFICATION Spec
INVARIANTS OneEntryPerScan
