CONSTANTS
    w1 = w1
    w2 = w2
    b1 = b1
    Symbols = {w1, w2, b1}
    Configured = {b1}
    TrendSymbols = {b1}
    WildcardSymbols = {w1, w2}
    WildcardSlots = 1
    Slots <- PerSleeve
    MaxCandidates = 2
    Cap = 1
    Day = 1
    Faults = {"unanswered", "blankRead", "closeUnfilled", "crash"}
SPECIFICATION FairSpec
INVARIANTS RestartKeepsTheBook KnownOrTold
PROPERTIES EntryWithinSlots OrphanRecovered
