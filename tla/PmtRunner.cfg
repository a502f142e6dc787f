SPECIFICATION Spec
CONSTANTS
    NoStop = NoStop
    Prices <- LowTierPrices
    Size = 3
    Share <- ThirdOf
    Rung <- RungLevels
    Trigger = 1
    LockAt <- LowTierLock
    Stop <- MinusTwo
    Breakeven = 1
    Target = 5
    AdoptedStops = {1}
    Protect = TRUE
    Faults <- AllFaults
INVARIANTS TypeOK BooksAddUp 
PROPERTIES PeakOutlivesRestarts RungIsBanked
