SPECIFICATION LiveSpec
CONSTANTS
    Config <- ReloadConfigs
    Midnight <- MCMidnight
    SlotAt <- MCSlotAt
    Tolerance = 0
    FaultKinds = {"storage", "channel", "log", "save", "spawn", "probe", "crash", "clock"}
    MaxFaults = 1
    MaxEdits = 2
    MaxTime = 3
INVARIANTS
    ReportedOnce
    ProbeMatchesConfig
PROPERTIES
    DueReportDelivered
    ReloadTakesEffect
