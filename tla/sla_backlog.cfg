SPECIFICATION SlaFairSpec
CONSTANTS
    Tix = {1, 2}
    Priorities = {"high"}
    Policies <- PatientOnly
    FirstPolicy <- PatientForAll
    Staff = {d1}
    Sweeps = {s1}
    Batch = 1
    Deaths = 0
    Horizon = 1
PROPERTIES BacklogIsWorkedThrough
