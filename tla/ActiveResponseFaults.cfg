SPECIFICATION FairSpec
CONSTANTS
    IP = {1, 2}
    Scanner = {1}
    Operator = {1}
    Candidate <- PlainCandidates
    ConfiguredBackends = {"iptables"}
    Installed = {"iptables"}
    PermanentBlockEnabled = TRUE
    PermanentBlockWindow = 1
    MaxBlocksPerScan = 1
    FaultKinds = {"timeout", "crash", "reboot"}
    MaxFaults = 2
    MaxEvidenceScans = 2
    MaxTime = 2
INVARIANTS
    PermanentJustified
PROPERTIES
    NoSilentRelease
    ExpiredBlocksLifted
