SPECIFICATION Spec
CONSTANTS
    People = {ann, bob, cyd}
    Founder = ann
    Requests = {r1}
CHECK_DEADLOCK FALSE
SYMMETRY Interchangeable
INVARIANT AnActiveAdminRemains
