SPECIFICATION StoreSpec
CONSTANTS
    Finding <- MCFinding
    KeepLatest = 2
    Situations <- MCSituations
    Legacy <- MCLegacy
    None = "none"
    MinSeverity <- MCMinSeverity
    BypassSeverity = 4
    DedupWindow = 1
    ReminderInterval = 2
    Hour = 2
    Retention = 2
    MaxAlertsPerHour = 1
    MaxMaintenance = 1
    MaxDisturbances = 2
INVARIANTS
    AlertsBounded
PROPERTIES
    NoRepeatWithinWindow
    RemindersContinue
