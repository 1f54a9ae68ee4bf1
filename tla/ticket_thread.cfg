SPECIFICATION Spec
CONSTANTS
    Requests = {r1, r2}
    Managers = {m1}
    Agents = {}
    Portal = {c1}
    NoUser = NoUser
    Keep = Keep
    Priorities = {low, high}
    Kinds = {"assign", "priority", "reply", "note"}
    Faults = TRUE
    MaxTime = 2
SYMMETRY Interchangeable
INVARIANTS
    FirstResponseRecorded
    TimelineTellsTheRow
    AudienceIsCurrent
PROPERTIES
    NoLostUpdate
