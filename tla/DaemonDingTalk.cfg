SPECIFICATION LiveSpec
CONSTANTS
    Config <- DingTalkOnly
    Midnight <- MCMidnight
    SlotAt <- MCSlotAt
    Tolerance = 1
    FaultKinds = {}
    MaxFaults = 0
    MaxEdits = 0
    MaxTime = 3
PROPERTIES
    DueReportDelivered
