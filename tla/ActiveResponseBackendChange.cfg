SPECIFICATION Spec
CONSTANTS
    IP = {1}
    Scanner = {1}
    Operator = {1}
    Candidate <- PlainCandidates
    ConfiguredBackends = {"nftables", "iptables"}
    Installed = {"nftables", "iptables"}
    PermanentBlockEnabled = TRUE
    PermanentBlockWindow = 1
    MaxBlocksPerScan = 1
    FaultKinds = {}
    MaxFaults = 0
    MaxEvidenceScans = 1
    MaxTime = 1
INVARIANTS UnblockEffective
