CONSTANTS
    MaxUpdates = 3
    Limit = 1
    MaxBatches = 2
    ResumeOnBoot = FALSE
    Faults = {"crash", "readFails", "saveFails", "newIds"}
SPECIFICATION Spec
INVARIANTS PauseStands
PROPERTIES CommandsSpec PassedIsHandled QueueDrains
