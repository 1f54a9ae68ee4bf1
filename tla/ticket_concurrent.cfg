SPECIFICATION Spec
CONSTANTS
    Requests = {r1, r2}
    Managers = {m1}
    Agents = {a1}
    Portal = {c1}
    NoUser = NoUser
    Keep = Keep
    Priorities = {low}
    Kinds = {"assign", "status", "close", "reopen"}
    Faults = FALSE
    MaxTime = 2
SYMMETRY Interchangeable
INVARIANTS
    AssigneeWasTold
    CustomerToldOfResolution
    QuietMeansAnnounced
    TicketInv
PROPERTIES
    ClosingKeepsResolution
    MovesFollowTheTable
    ImplementsContract
