SPECIFICATION Spec
CONSTANTS
    NoStop = NoStop
    Prices <- LowTierPrices
    Size = 4
    Share <- HalfOf
    Rung <- RungLevels
    Trigger = 1
    LockAt <- LowTierLock
    Stop <- MinusTwo
    Breakeven = 1
    Target = 5
    AdoptedStops = {}
    Protect = TRUE
    Faults = {"orderRefused"}
INVARIANTS LockUnchangedByBank
