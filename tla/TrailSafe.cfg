CONSTANTS
    Best = 8
    ArmAt = 2
    Retain = 50
    RatchetAt = 6
    RatchetRetain = 75
    CostFloor = 45
    BreakevenAt = 2
    BreakevenCost = 30
    Fx90On = TRUE
    Fx90At = 4
    Fx90Frac = 90
    EarlyWindow = 1
    ClockTicks = 3
    Givebacks = {40, 60, 80}
    MinGap = 10
    BookLag = 1
    Worst <- AtStop
    EarlyAt <- AtEarly
    OneR = 2
SPECIFICATION FairSpec
INVARIANTS TypeOK RetentionHolds QuotedFloorFires
PROPERTIES FloorNeverFalls ClockCloses
