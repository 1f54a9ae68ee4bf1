SPECIFICATION JobsSpec
CONSTANTS
    Analyses = {n1, n2}
    Operations <- AllOperations
    Asks <- AnalysisEndpoint
    TicketText <- TicketOperations
    Requests = {r1}
    Workers = {w1, w2}
    HardLimit = 1
    AbandonedAfter = 2
    Faults = TRUE
    Keys = {k1, k2}
    Limit = 2
    Window = 3
    MaxHits = 4
    Tix = {1, 2}
    Priorities = {"high"}
    Policies <- PatientOnly
    FirstPolicy <- PatientForAll
    Staff = {d1}
    Sweeps = {s1}
    Batch = 1
    Deaths = 1
    Horizon = 1
    Occasions = {o1}
    Readers = {u1, u2}
    Managers = {u2}
    NoReader = NoReader
    Postmen = {w1, w2}
    MaxTries = 1
    MailFaults = 1
    Items = {i1, i2}
    Clicks = {c1, c2}
    Moments = 4
    Docs = {d1}
    Editors = {e1, e2}
    Ingesters = {w1, w2}
    IngestLimit = 1
    IngestPatience = 2
    IngestFaults = 1
    Sockets = {k1}
    Envelopes <- Messages
    Contexts <- Identities
    NoOne = "nobody"
    Depth = 1
    MaxEvents = 3
    Breaks = 1
    Urls = {u1, u2, u3}
    Parsable = {u1, u2}
    MaxRedirects = 2
    MaxBytes = 3
    Pieces = {1, 2}
CHECK_DEADLOCK FALSE
INVARIANTS
    LimitInv
    MailInv
    KnowledgeInv
    HubInv
    EveryHopIsChecked
PROPERTIES
    ClaimsEnd
    LateIsRecorded
    QueuedIsSettled
    ReadTimeMovesOnlyInARace
    IngestionEnds
    SlowOneLeaves
