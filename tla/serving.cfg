SPECIFICATION ServingSpec
CONSTANTS
    Messages = {m1, m2, m3}
    Summaries = {s1, s2}
    Requests = {r1, r2}
    MaxClock = 5
    AiWorkers = {w1}
    AiServers = {a1}
    Vendors = {"anthropic", "groq"}
    MaxAttempts = 2
    Sizes = {26}
    MaxErrands = 2
    Viewers = {v1, v2}
    Scopes = {org}
    Everything = org
    Writers = {w1}
    MaxCommits = 2
    MayFail = {"version", "entry", "incr"}
    MaxFailures = 1
    Tix = {1, 2}
    Priorities = {"high", "low"}
    Policies <- EditableForHigh
    FirstPolicy <- StrictForHigh
    Staff = {d1}
    Sweeps = {}
    Batch = 1
    Deaths = 0
    Horizon = 2
    RiskLimit = 1
    DefaultDays = 2
    MaxDays = 2
    Texts <- SmallTexts
    Pages <- SmallPages
    CharsPerToken = 4
    ChunkTarget = 8
    ChunkOverlap = 2
    Cuts = {0, 10, 24}
    MaxChunks = 3
CHECK_DEADLOCK FALSE
SYMMETRY Interchangeable
INVARIANTS
    AiInv
    CacheInv
    FiguresAgree
    FiguresAddUp
    TextInv
PROPERTIES
    ServedMissesOnlyOpen
