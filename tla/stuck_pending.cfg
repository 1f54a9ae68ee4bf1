SPECIFICATION FairSpec
CONSTANTS
    Analyses = {n1}
    Operations <- AllOperations
    Asks <- SuggestEndpoint
    TicketText <- TicketOperations
    Requests = {r1}
    Workers = {w1}
    HardLimit = 1
    AbandonedAfter = 2
    Faults = TRUE
PROPERTIES PendingIsPickedUp
