SPECIFICATION Spec
CONSTANTS
    Requests = {r1, r2}
    Managers = {m1}
    Agents = {a1, a2}
    Portal = {c1}
    NoUser = NoUser
    Keep = Keep
    Priorities = {low}
    Kinds = {"assign", "status", "close", "reopen"}
    Faults = FALSE
    MaxTime = 1
SYMMETRY Interchangeable
INVARIANTS
    AssignedHasAgent
