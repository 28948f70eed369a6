SPECIFICATION FairSpec
CONSTANTS
    Agent = {"daemon"}
    Daemon = {"daemon"}
    MaxRetryPerScan = 1
    OutboxMaxItems = 2
    Unsendable = {1}
    FaultKinds <- EveryFault
    MaxFaults = 5
    MaxMsg = 4
INVARIANTS
    OutboxOrdered
    FailedUploadsQueued
PROPERTIES
    ImplementsUploadQueue
    OutboxDrains
