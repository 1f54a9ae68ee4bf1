------------------------------ MODULE Tenancy ------------------------------
(***************************************************************************)
(* Organizations side by side in one database (core/tenancy.py,            *)
(* repositories/base.py, repositories/scoping.py, services/                *)
(* customer_service.py, create_ticket): every row carries its              *)
(* organization, every query begins with the caller's, references to other *)
(* rows come from requests and are looked up first, tickets are numbered   *)
(* per organization under a lock, and a ticket is assigned by whoever sees *)
(* it.                                                                     *)
(***************************************************************************)
EXTENDS Naturals, FiniteSets

CONSTANTS
    Orgs,
    CustomerIds, \* bound: customer records
    UserIds,     \* bound: accounts
    TicketIds,   \* bound: tickets
    Founders,    \* the administrator each organization was registered with
    NoOne        \* a nullable column that is NULL

ASSUME TenancyAssumption ==
    /\ NoOne \notin Orgs \cup CustomerIds \cup UserIds
    /\ Founders \in [Orgs -> UserIds]
    /\ \A o, p \in Orgs : o # p => Founders[o] # Founders[p]

VARIABLES
    directory, \* the organization of each customer record; NoOne when there is none
    members,   \* the users
    desk,      \* the tickets
    creating,  \* create_ticket, of each user
    locked     \* who holds the advisory lock of each organization

tenancyVars == <<directory, members, desk, creating, locked>>

Account == [org : Orgs \cup {NoOne}, role : {"admin", "manager", "agent", "customer"},
            customer : CustomerIds \cup {NoOne}]

DeskTicket == [org : Orgs \cup {NoOne}, number : Nat, customer : CustomerIds \cup {NoOne},
               agent : UserIds \cup {NoOne}]

Creating == [pc : {"idle", "checked", "numbered"}, customer : CustomerIds \cup {NoOne},
             number : Nat]

Idle == [pc |-> "idle", customer |-> NoOne, number |-> 0]
NoTicket == [org |-> NoOne, number |-> 0, customer |-> NoOne, agent |-> NoOne]

TenancyTypeOK ==
    /\ directory \in [CustomerIds -> Orgs \cup {NoOne}]
    /\ members \in [UserIds -> Account]
    /\ desk \in [TicketIds -> DeskTicket]
    /\ creating \in [UserIds -> Creating]
    /\ locked \in [Orgs -> UserIds \cup {NoOne}]

-----------------------------------------------------------------------------
\* ROLE_PERMISSIONS, as far as these operations ask.
Grants(role) ==
    CASE role = "admin" -> {"user:create", "customer:create", "ticket:create",
                            "ticket:assign"}
      [] role = "manager" -> {"customer:create", "ticket:create", "ticket:assign"}
      [] role = "agent" -> {"customer:create", "ticket:create"}
      [] OTHER -> {"ticket:create"}

\* A caller with a token: an account of some organization, and the permission.
May(u, permission) ==
    members[u].org # NoOne /\ permission \in Grants(members[u].role)

\* TenantScopedRepository._select: of the caller's organization.
InTenant(u, org) == org # NoOne /\ org = members[u].org

\* row_scope_predicate over TICKET_SCOPE_BY_ROLE; a NULL link reaches nothing.
Reaches(u, t) ==
    CASE members[u].role \in {"admin", "manager"} -> TRUE
      [] members[u].role = "agent" -> desk[t].agent = u
      [] OTHER -> members[u].customer # NoOne /\ desk[t].customer = members[u].customer

\* require_visible_ticket
InSight(u, t) == InTenant(u, desk[t].org) /\ Reaches(u, t)

NumbersOf(o) == {desk[t].number : t \in {s \in TicketIds : desk[s].org = o}}

-----------------------------------------------------------------------------
\* create_customer; the record is a new row of the caller's organization.
CreateCustomer(u, c) ==
    /\ May(u, "customer:create") /\ directory[c] = NoOne
    /\ directory' = [directory EXCEPT ![c] = members[u].org]
    /\ UNCHANGED <<members, desk, creating, locked>>

\* create_user: a portal account names a customer record the caller can see, a
\* member of staff none.
CreateAccount(u, new, role, c) ==
    /\ May(u, "user:create") /\ members[new].org = NoOne
    /\ IF role = "customer" THEN c # NoOne /\ InTenant(u, directory[c]) ELSE c = NoOne
    /\ members' = [members EXCEPT ![new] = [org |-> members[u].org, role |-> role,
                                              customer |-> c]]
    /\ UNCHANGED <<directory, desk, creating, locked>>

\* create_ticket, up to the number: whose ticket it will be.
CheckCustomer(u, c) ==
    /\ creating[u].pc = "idle" /\ May(u, "ticket:create")
    /\ IF members[u].role = "customer" THEN c # NoOne /\ c = members[u].customer
       ELSE c # NoOne /\ InTenant(u, directory[c])
    /\ creating' = [creating EXCEPT ![u] = [pc |-> "checked", customer |-> c, number |-> 0]]
    /\ UNCHANGED <<directory, members, desk, locked>>

NextNumber(o) ==
    1 + (IF NumbersOf(o) = {} THEN 0
         ELSE CHOOSE n \in NumbersOf(o) : \A m \in NumbersOf(o) : m <= n)

\* A slip: the number is computed without the lock.
SlipAllocateNumber(u) ==
    /\ creating[u].pc = "checked"
    /\ creating' = [creating EXCEPT ![u] =
          [@ EXCEPT !.pc = "numbered", !.number = NextNumber(members[u].org)]]
    /\ UNCHANGED <<directory, members, desk, locked>>

\* allocate_number: the lock, kept until the transaction ends, then the highest
\* number that is committed.
AllocateNumber(u) ==
    /\ creating[u].pc = "checked" /\ locked[members[u].org] = NoOne
    /\ locked' = [locked EXCEPT ![members[u].org] = u]
    /\ creating' = [creating EXCEPT ![u] =
          [@ EXCEPT !.pc = "numbered", !.number = NextNumber(members[u].org)]]
    /\ UNCHANGED <<directory, members, desk>>

Unlocked(u) == [o \in Orgs |-> IF locked[o] = u THEN NoOne ELSE locked[o]]

\* The commit of create_ticket.
CommitTicket(u, t) ==
    /\ creating[u].pc = "numbered" /\ desk[t].org = NoOne
    /\ desk' = [desk EXCEPT ![t] = [org |-> members[u].org, number |-> creating[u].number,
                                    customer |-> creating[u].customer, agent |-> NoOne]]
    /\ creating' = [creating EXCEPT ![u] = Idle]
    /\ locked' = Unlocked(u)
    /\ UNCHANGED <<directory, members>>

\* ... or its rollback.
GiveUpTicket(u) ==
    /\ creating[u].pc # "idle"
    /\ creating' = [creating EXCEPT ![u] = Idle]
    /\ locked' = Unlocked(u)
    /\ UNCHANGED <<directory, members, desk>>

\* assign_ticket: the assignee is any account _agent_is_visible finds.
AssignTo(u, t, a) ==
    /\ May(u, "ticket:assign") /\ InSight(u, t)
    /\ a # NoOne => InTenant(u, members[a].org)
    /\ desk' = [desk EXCEPT ![t].agent = a]
    /\ UNCHANGED <<directory, members, creating, locked>>

-----------------------------------------------------------------------------
Admin(o) == [org |-> o, role |-> "admin", customer |-> NoOne]

TenancyInit ==
    /\ directory = [c \in CustomerIds |-> NoOne]
    /\ members = [u \in UserIds |->
          IF \E o \in Orgs : Founders[o] = u THEN Admin(CHOOSE o \in Orgs : Founders[o] = u)
          ELSE Admin(NoOne)]
    /\ desk = [t \in TicketIds |-> NoTicket]
    /\ creating = [u \in UserIds |-> Idle]
    /\ locked = [o \in Orgs |-> NoOne]

TenancyNext ==
    \E u \in UserIds :
       \/ \E c \in CustomerIds : CreateCustomer(u, c)
       \/ \E new \in UserIds, role \in {"admin", "manager", "agent", "customer"},
             c \in CustomerIds \cup {NoOne} : CreateAccount(u, new, role, c)
       \/ \E c \in CustomerIds : CheckCustomer(u, c)
       \/ AllocateNumber(u) \/ GiveUpTicket(u)
       \/ \E t \in TicketIds :
             \/ CommitTicket(u, t)
             \/ \E a \in UserIds \cup {NoOne} : AssignTo(u, t, a)

TenancySpec == TenancyInit /\ [][TenancyNext]_tenancyVars

-----------------------------------------------------------------------------
\* No row refers to a row of another organization, though most references are
\* identifiers a request brought along: a portal account's customer, a ticket's
\* customer and its assignee.
ReferencesStayInside ==
    /\ \A u \in UserIds : members[u].customer # NoOne =>
          directory[members[u].customer] = members[u].org
    /\ \A t \in TicketIds : desk[t].org # NoOne =>
          /\ directory[desk[t].customer] = desk[t].org
          /\ desk[t].agent # NoOne => members[desk[t].agent].org = desk[t].org

\* The tickets of an organization are numbered 1, 2, 3 ..., whoever creates them
\* at the same time and whoever gives up.
NumbersCountUp ==
    \A o \in Orgs :
       /\ NumbersOf(o) = 1 .. Cardinality(NumbersOf(o))
       /\ \A s, t \in TicketIds :
             desk[s].org = o /\ desk[t].org = o /\ desk[s].number = desk[t].number => s = t

\* Whoever has a number has the lock, and the number is still the next one.
TenancyInv ==
    /\ TenancyTypeOK
    /\ ReferencesStayInside /\ NumbersCountUp
    /\ \A u \in UserIds : creating[u].pc # "idle" =>
          /\ members[u].org # NoOne /\ creating[u].customer # NoOne
          /\ directory[creating[u].customer] = members[u].org
    /\ \A u \in UserIds : creating[u].pc = "numbered" =>
          /\ locked[members[u].org] = u
          /\ creating[u].number = NextNumber(members[u].org)
=============================================================================
