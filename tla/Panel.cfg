SPECIFICATION PanelSpec
CONSTANTS
    Handler = {h1, h2}
    Reviewer = {}
    Attempt = {"r1"}
    Message = {"m1"}
    Payload <- SmallEnvelope
    Key = {"probe"}
    Skews <- ClockSkews
    Window = 1
    NonceInOneLock = FALSE
    MaxFaults = 1
    MaxTime = 4
    Item <- MCItem
    LegacyItems = {"f1"}
    NodeRows <- MCNodeRows
    LegacyNodes = {"old"}
    Placeholders = {"local"}
    Verdicts = {"false_positive", "confirmed"}
    Delays <- MCDelays
    Confs <- MCConfs
    Reader = {g1, g2}
    Socket = {s1}
    Ticket = {t1}
    CacheTtl = 1
    TicketTtl = 1
    Freshness = 1
    OfflineAfter = 2
    RetiredAfter = 2
    ChannelCapacity = 1
    MaxWrites = 4
    MaxAnnouncements = 3
    MaxClock = 3
    MaxFailedWrites = 1
SYMMETRY PanelSymmetry
INVARIANTS
    SummaryCurrent
    RowsShownRightly
    StreamSound
    SilentNodesNoticed
PROPERTIES
    NonceSpacing
CHECK_DEADLOCK FALSE
