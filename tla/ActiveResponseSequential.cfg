SPECIFICATION Spec
CONSTANTS
    IP = {1, 2}
    Scanner = {1}
    Operator = {1}
    Candidate <- AllCandidates
    ConfiguredBackends = {"auto"}
    Installed = {"nftables", "iptables"}
    PermanentBlockEnabled = TRUE
    PermanentBlockWindow = 1
    MaxBlocksPerScan = 1
    FaultKinds = {}
    MaxFaults = 0
    MaxEvidenceScans = 2
    MaxTime = 3
INVARIANTS FirewallMatchesState UnblockEffective
PROPERTIES BlockHolds ScanWriteBudget
