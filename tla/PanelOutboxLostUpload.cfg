SPECIFICATION Spec
CONSTANTS
    Agent = {"daemon", "cli"}
    Daemon = {"daemon"}
    MaxRetryPerScan = 1
    OutboxMaxItems = 2
    Unsendable = {}
    FaultKinds = {"refused"}
    MaxFaults = 1
    MaxMsg = 2
INVARIANTS FailedUploadsQueued

