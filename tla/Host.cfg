SPECIFICATION HostSpec
CONSTANTS
    Inputs <- MCInputs
    MaxEvents = 3
    Fact <- MCFact
    Values <- MCValues
    FirstFacts <- MCFirstFacts
    Absent = Absent
    Terminal = {p1, p2}
    Enricher = {p1, p2}
    Pruner = {p1, p2}
    Scanner = {p1, p2}
    RawEventLimit = 3
    MaxCommands = 2
    MaxHostDisturbances = 2
    AttackFindings <- MCAttacks
    Normal <- MCNormal
    SimilarityEnabled = TRUE
    SimilarityDistance = 2
    MaxMatchCandidates = 2
    MaxFingerprintObservations = 1
    MinScore = 75
    MinObservations = 3
    MinDistinctIps = 2
    FingerprintRetention = 1
    KeepFingerprints = 1
    KeepObservations = 2
    MaxSeen = 3
    MaxInterventions = 2
    FirstCounts <- MCFirstCounts
    KeepRows <- MCKeepRows
    RowBytes <- MCRowBytes
    FixedBytes = 2
    LimitBytes = 4
    MinBatch = 1
    MaxPasses = 4
    MaxGrowth = 1
    Grace = 2
    MaxPortSamples = 2
    IgnoredUdpNames = {"tor"}
    SuspiciousNames = {"nc"}
    Hosts <- MCHosts
    FirstHost <- Calm
    Configs <- MCConfigs
    MinDropBytes = 10
    DropPercent = 50
    MinBehaviorObservations = 1
    MaxRemotePorts = 2
    MaxIdentities = 1
    MaxBehaviorAge = 2
    FanoutMultiplier = 3
    FanoutMinDelta = 2
    MaxScans = 2
    MaxMemoryDisturbances = 2
INVARIANTS
    FindingsSound
    SensitiveChangeReported
    IncrementalLossless
    ProtectedSourcesSpared
    MoreEvidenceNeverQuieter
    RefreshSound
    DriftJudged
    PrintsSound
    HintEarned
    PruningSound
    ProfilesVouched
PROPERTIES
    BenignNeverHinted
    LogLossFlagged
SYMMETRY HostSymmetry
CHECK_DEADLOCK FALSE
