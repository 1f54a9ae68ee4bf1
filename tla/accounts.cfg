SPECIFICATION AccountsSpec
CONSTANTS
    People = {ann, bob, cyd}
    Founder = ann
    Requests = {r1, r2}
    Holders = {dan}
    Tokens = {t1, t2, t3}
    NoToken = NoToken
    Sessions = {s1, s2}
    Orgs = {"left", "right"}
    CustomerIds = {c1}
    UserIds = {"u1", "u2", "u3"}
    TicketIds = {k1, k2}
    Founders <- FirstAdmins
    NoOne = "none"
    Clients = {"agent", "customer"}
    RoleOf <- FileRoles
    Nobody = "nobody"
    Files = {f1}
    MediaTypes = {"png", "text"}
    Signed = {"png"}
    FileFaults = 1
CHECK_DEADLOCK FALSE
SYMMETRY Interchangeable
INVARIANTS
    AuthInv
    TenancyInv
    AttachmentInv
PROPERTIES
    LastAdminGoesInARace
    OnlyDemotionLocksOut
    RevocationIsThorough
