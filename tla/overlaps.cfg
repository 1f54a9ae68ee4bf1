SPECIFICATION OverlapsSpec
CONSTANTS
    Analyses = {n1, n2, n3}
    Operations <- AllOperations
    Asks <- Endpoints
    TicketText <- TicketOperations
    Requests = {r1}
    Workers = {w1, w2}
    HardLimit = 1
    AbandonedAfter = 2
    Faults = TRUE
    Tix = {1}
    Priorities = {"high", "low"}
    Policies <- PromptOnly
    FirstPolicy <- PromptForHigh
    Staff = {d1}
    Sweeps = {s1, s2}
    Batch = 1
    Deaths = 1
    Horizon = 1
SYMMETRY Interchangeable
INVARIANTS
    ClaimsAreExclusive
    TimelineNamesCompleted
    SlaInv
PROPERTIES
    AskedOnce
    OutcomeStands
