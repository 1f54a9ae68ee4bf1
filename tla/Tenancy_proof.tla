--------------------------- MODULE Tenancy_proof ---------------------------
(***************************************************************************)
(* Proofs about Tenancy: for any number of organizations, accounts,        *)
(* customer records and tickets, references stay inside their organization *)
(* and the tickets of each are numbered without gaps or repetitions,       *)
(* however the requests that create them overlap and whichever give up.    *)
(***************************************************************************)
EXTENDS Tenancy, FiniteSetTheorems, TLAPS

\* A request that creates a ticket looked its customer up in its own
\* organization.
DraftsStayInside ==
    \A u \in UserIds : creating[u].pc # "idle" =>
       /\ members[u].org # NoOne /\ creating[u].customer # NoOne
       /\ directory[creating[u].customer] = members[u].org

\* Whoever has a number holds the lock, and the number is still the next one.
HoldersAreNext ==
    \A u \in UserIds : creating[u].pc = "numbered" =>
       /\ locked[members[u].org] = u
       /\ creating[u].number = NextNumber(members[u].org)

\* The numbers in use count up from one ...
Counted == \A o \in Orgs : \E k \in Nat : NumbersOf(o) = 1 .. k

\* ... and each is used once.
UsedOnce ==
    \A o \in Orgs : \A s, t \in TicketIds :
       desk[s].org = o /\ desk[t].org = o /\ desk[s].number = desk[t].number => s = t

\* An account there is not refers to nothing, a ticket there is to a customer.
Rooted ==
    /\ \A u \in UserIds : members[u].org = NoOne => members[u].customer = NoOne
    /\ \A t \in TicketIds : desk[t].org # NoOne => desk[t].customer # NoOne

TInv ==
    /\ TenancyTypeOK /\ ReferencesStayInside /\ DraftsStayInside /\ HoldersAreNext
    /\ Counted /\ UsedOnce /\ Rooted

-----------------------------------------------------------------------------
\* The number after a gapless run is the one that prolongs it.
LEMMA NextProlongs ==
    ASSUME NEW o, NEW k \in Nat, NumbersOf(o) = 1 .. k
    PROVE  NextNumber(o) = k + 1
<1>1. CASE k = 0
  <2>1. NumbersOf(o) = {}  BY <1>1
  <2> QED  BY <1>1, <2>1 DEF NextNumber
<1>2. CASE k # 0
  <2>1. k \in NumbersOf(o) /\ \A m \in NumbersOf(o) : m <= k  BY <1>2
  <2>2. NumbersOf(o) # {}  BY <2>1
  <2> DEFINE top == CHOOSE n \in NumbersOf(o) : \A m \in NumbersOf(o) : m <= n
  <2>3. top \in NumbersOf(o) /\ \A m \in NumbersOf(o) : m <= top  BY <2>1
  <2>4. top \in Nat /\ top = k  BY <2>1, <2>3
  <2> QED  BY <2>2, <2>4 DEF NextNumber
<1> QED  BY <1>1, <1>2

\* What leaves the organization and the number of every ticket alone leaves
\* the numbering alone.
LEMMA SameNumbers ==
    ASSUME \A t \in TicketIds : desk'[t].org = desk[t].org /\ desk'[t].number = desk[t].number,
           NEW o
    PROVE  NumbersOf(o)' = NumbersOf(o) /\ NextNumber(o)' = NextNumber(o)
<1>1. NumbersOf(o)' = NumbersOf(o)  BY DEF NumbersOf
<1> QED  BY <1>1 DEF NextNumber

\* The administrators organizations are registered with.
LEMMA InitHolds == TenancyInit => TInv
<1> SUFFICES ASSUME TenancyInit PROVE TInv  OBVIOUS
<1> USE TenancyAssumption DEF TenancyInit
<1>1. NoTicket \in DeskTicket /\ Idle \in Creating  BY DEF NoTicket, DeskTicket, Idle, Creating
<1>2. \A o \in Orgs : Admin(o) \in Account /\ Admin(NoOne) \in Account  BY DEF Admin, Account
<1>3. members \in [UserIds -> Account]
  <2>1. Admin(NoOne) \in Account  BY DEF Admin, Account
  <2> QED  BY <1>2, <2>1
<1>4. TenancyTypeOK  BY <1>1, <1>3 DEF TenancyTypeOK
<1>5. \A u \in UserIds : members[u].customer = NoOne  BY DEF Admin
<1>6. \A t \in TicketIds : desk[t].org = NoOne  BY DEF NoTicket
<1>7. \A u \in UserIds : creating[u].pc = "idle"  BY DEF Idle
<1>8. ReferencesStayInside  BY <1>5, <1>6 DEF ReferencesStayInside
<1>9. \A o \in Orgs : NumbersOf(o) = 1 .. 0  BY <1>6 DEF NumbersOf
<1>10. Counted  BY <1>9 DEF Counted
<1>11. UsedOnce  BY <1>6 DEF UsedOnce
<1>12. Rooted  BY <1>5, <1>6 DEF Rooted
<1> QED
  BY <1>4, <1>7, <1>8, <1>10, <1>11, <1>12 DEF TInv, DraftsStayInside, HoldersAreNext

-----------------------------------------------------------------------------
\* A new customer record: nothing referred to it before.
LEMMA NewCustomer ==
    ASSUME TInv, NEW u \in UserIds, NEW c \in CustomerIds, CreateCustomer(u, c)
    PROVE  TInv'
<1> USE TenancyAssumption
<1>1. /\ TenancyTypeOK /\ ReferencesStayInside /\ DraftsStayInside /\ HoldersAreNext
      /\ Counted /\ UsedOnce /\ Rooted
  BY DEF TInv
<1>2. /\ directory' = [directory EXCEPT ![c] = members[u].org] /\ directory[c] = NoOne
      /\ members' = members /\ desk' = desk /\ creating' = creating /\ locked' = locked
      /\ members[u].org # NoOne
  BY DEF CreateCustomer, May
<1>3. \A o : NumbersOf(o)' = NumbersOf(o) /\ NextNumber(o)' = NextNumber(o)
  BY <1>2 DEF NumbersOf, NextNumber
<1>4. \A d \in CustomerIds : directory[d] # NoOne => directory'[d] = directory[d]
  BY <1>1, <1>2 DEF TenancyTypeOK
<1>5. TenancyTypeOK'
  <2>1. members[u] \in Account  BY <1>1 DEF TenancyTypeOK
  <2>2. members[u].org \in Orgs  BY <2>1, <1>2 DEF Account
  <2> QED  BY <1>1, <1>2, <2>2 DEF TenancyTypeOK
<1>6. ASSUME NEW v \in UserIds, members[v].customer # NoOne
      PROVE  directory'[members[v].customer] = members[v].org
  <2>1. members[v] \in Account  BY <1>1 DEF TenancyTypeOK
  <2>2. members[v].customer \in CustomerIds  BY <1>6, <2>1 DEF Account
  <2>3. directory[members[v].customer] = members[v].org /\ members[v].org # NoOne
    BY <1>1, <1>6 DEF ReferencesStayInside, Rooted
  <2> QED  BY <2>2, <2>3, <1>4
<1>7. ASSUME NEW t \in TicketIds, desk[t].org # NoOne
      PROVE  directory'[desk[t].customer] = desk[t].org
  <2>1. desk[t] \in DeskTicket  BY <1>1 DEF TenancyTypeOK
  <2>2. desk[t].customer \in CustomerIds  BY <1>1, <1>7, <2>1 DEF DeskTicket, Rooted
  <2>3. directory[desk[t].customer] = desk[t].org  BY <1>1, <1>7 DEF ReferencesStayInside
  <2> QED  BY <2>2, <2>3, <1>7, <1>4
<1>8. ASSUME NEW v \in UserIds, creating[v].pc # "idle"
      PROVE  directory'[creating[v].customer] = members[v].org
  <2>1. creating[v] \in Creating  BY <1>1 DEF TenancyTypeOK
  <2>2. creating[v].customer \in CustomerIds  BY <1>1, <1>8, <2>1 DEF Creating, DraftsStayInside
  <2>3. directory[creating[v].customer] = members[v].org /\ members[v].org # NoOne
    BY <1>1, <1>8 DEF DraftsStayInside
  <2> QED  BY <2>2, <2>3, <1>4
<1>9. ReferencesStayInside'  BY <1>1, <1>2, <1>6, <1>7 DEF ReferencesStayInside
<1>10. DraftsStayInside'  BY <1>1, <1>2, <1>8 DEF DraftsStayInside
<1>11. HoldersAreNext' /\ Counted' /\ UsedOnce' /\ Rooted'
  BY <1>1, <1>2, <1>3 DEF HoldersAreNext, Counted, UsedOnce, Rooted
<1> QED  BY <1>5, <1>9, <1>10, <1>11 DEF TInv

\* A new account: nobody was assigned anything under its identifier, and its
\* customer was looked up in the organization of whoever creates it.
LEMMA NewAccount ==
    ASSUME TInv, NEW u \in UserIds, NEW new \in UserIds,
           NEW role \in {"admin", "manager", "agent", "customer"},
           NEW c \in CustomerIds \cup {NoOne}, CreateAccount(u, new, role, c)
    PROVE  TInv'
<1> USE TenancyAssumption
<1> DEFINE account == [org |-> members[u].org, role |-> role, customer |-> c]
<1>1. /\ TenancyTypeOK /\ ReferencesStayInside /\ DraftsStayInside /\ HoldersAreNext
      /\ Counted /\ UsedOnce /\ Rooted
  BY DEF TInv
<1>2. /\ members' = [members EXCEPT ![new] = account] /\ members[new].org = NoOne
      /\ directory' = directory /\ desk' = desk /\ creating' = creating /\ locked' = locked
      /\ members[u].org # NoOne
      /\ c # NoOne => directory[c] = members[u].org
  BY DEF CreateAccount, May, InTenant
<1>3. \A o : NumbersOf(o)' = NumbersOf(o) /\ NextNumber(o)' = NextNumber(o)
  BY <1>2 DEF NumbersOf, NextNumber
<1>4. account \in Account
  <2>1. members[u] \in Account  BY <1>1 DEF TenancyTypeOK
  <2> QED  BY <2>1, <1>2 DEF Account
<1>5. account.org # NoOne /\ (account.customer # NoOne => directory[account.customer] = account.org)
  BY <1>2
<1> HIDE DEF account
<1>6. /\ members' \in [UserIds -> Account] /\ members'[new] = account
      /\ \A v \in UserIds : v # new => members'[v] = members[v]
  BY <1>1, <1>2, <1>4 DEF TenancyTypeOK
<1>7. TenancyTypeOK'  BY <1>1, <1>2, <1>6 DEF TenancyTypeOK
<1>8. \A v \in UserIds : members'[v].customer # NoOne =>
         directory[members'[v].customer] = members'[v].org
  BY <1>1, <1>5, <1>6 DEF ReferencesStayInside
<1>9. ASSUME NEW t \in TicketIds, desk[t].org # NoOne, desk[t].agent # NoOne
      PROVE  members'[desk[t].agent].org = desk[t].org
  <2>1. desk[t] \in DeskTicket  BY <1>1 DEF TenancyTypeOK
  <2>2. desk[t].agent \in UserIds  BY <1>9, <2>1 DEF DeskTicket
  <2>3. members[desk[t].agent].org = desk[t].org  BY <1>1, <1>9 DEF ReferencesStayInside
  <2> QED  BY <2>2, <2>3, <1>2, <1>6, <1>9
<1>10. ReferencesStayInside'  BY <1>1, <1>2, <1>8, <1>9 DEF ReferencesStayInside
<1>11. \A v \in UserIds : creating[v].pc # "idle" => members'[v] = members[v]
  BY <1>1, <1>2, <1>6 DEF DraftsStayInside
<1>12. DraftsStayInside'  BY <1>1, <1>2, <1>11 DEF DraftsStayInside
<1>13. HoldersAreNext'
  BY <1>1, <1>2, <1>3, <1>11 DEF HoldersAreNext
<1>14. Counted' /\ UsedOnce' /\ Rooted'
  BY <1>1, <1>2, <1>3, <1>5, <1>6 DEF Counted, UsedOnce, Rooted
<1> QED  BY <1>7, <1>10, <1>12, <1>13, <1>14 DEF TInv

-----------------------------------------------------------------------------
\* One user's request moves; the rows stay, and locks change hands at most
\* between that user and nobody.
LEMMA RequestStep ==
    ASSUME TInv, NEW u \in UserIds, NEW new \in Creating,
           creating' = [creating EXCEPT ![u] = new],
           directory' = directory, members' = members, desk' = desk,
           locked' \in [Orgs -> UserIds \cup {NoOne}],
           \A o \in Orgs, v \in UserIds : v # u /\ locked[o] = v => locked'[o] = v,
           new.pc # "idle" =>
              /\ members[u].org # NoOne /\ new.customer # NoOne
              /\ directory[new.customer] = members[u].org,
           new.pc = "numbered" =>
              locked'[members[u].org] = u /\ new.number = NextNumber(members[u].org)
    PROVE  TInv'
<1>1. /\ TenancyTypeOK /\ ReferencesStayInside /\ DraftsStayInside /\ HoldersAreNext
      /\ Counted /\ UsedOnce /\ Rooted
  BY DEF TInv
<1>2. /\ creating' \in [UserIds -> Creating] /\ creating'[u] = new
      /\ \A v \in UserIds : v # u => creating'[v] = creating[v]
  BY <1>1 DEF TenancyTypeOK
<1>3. \A o : NumbersOf(o)' = NumbersOf(o) /\ NextNumber(o)' = NextNumber(o)
  BY DEF NumbersOf, NextNumber
<1>4. TenancyTypeOK'  BY <1>1, <1>2 DEF TenancyTypeOK
<1>5. ReferencesStayInside' /\ Counted' /\ UsedOnce' /\ Rooted'
  BY <1>1, <1>3 DEF ReferencesStayInside, Counted, UsedOnce, Rooted
<1>6. DraftsStayInside'  BY <1>1, <1>2 DEF DraftsStayInside
<1>7. ASSUME NEW v \in UserIds, creating'[v].pc = "numbered", v # u
      PROVE  locked'[members[v].org] = v /\ creating'[v].number = NextNumber(members[v].org)
  <2>1. creating[v].pc = "numbered" /\ creating'[v] = creating[v]  BY <1>2, <1>7
  <2>2. locked[members[v].org] = v /\ creating[v].number = NextNumber(members[v].org)
    BY <1>1, <2>1 DEF HoldersAreNext
  <2>3. members[v].org # NoOne  BY <1>1, <2>1 DEF DraftsStayInside
  <2>4. members[v].org \in Orgs
    <3>1. members[v] \in Account  BY <1>1 DEF TenancyTypeOK
    <3> QED  BY <3>1, <2>3 DEF Account
  <2> QED  BY <2>1, <2>2, <2>4, <1>7
<1>8. HoldersAreNext'  BY <1>2, <1>3, <1>7 DEF HoldersAreNext
<1> QED  BY <1>4, <1>5, <1>6, <1>8 DEF TInv

\* The ticket begins, gets its number, or is given up.
LEMMA RequestLemma ==
    ASSUME TInv, NEW u \in UserIds,
           (\E c \in CustomerIds : CheckCustomer(u, c)) \/ AllocateNumber(u) \/ GiveUpTicket(u)
    PROVE  TInv'
<1> USE TenancyAssumption
<1>1. /\ TenancyTypeOK /\ DraftsStayInside /\ Counted /\ Rooted /\ ReferencesStayInside
  BY DEF TInv
<1>2. members[u] \in Account /\ creating[u] \in Creating  BY <1>1 DEF TenancyTypeOK
<1>3. ASSUME NEW c \in CustomerIds, CheckCustomer(u, c) PROVE TInv'
  <2> DEFINE new == [pc |-> "checked", customer |-> c, number |-> 0]
  <2>1. /\ creating' = [creating EXCEPT ![u] = new] /\ locked' = locked
        /\ directory' = directory /\ members' = members /\ desk' = desk
        /\ members[u].org # NoOne
    BY <1>3 DEF CheckCustomer, May
  <2>2. new \in Creating /\ new.customer # NoOne /\ new.pc = "checked"  BY DEF Creating
  <2>3. directory[c] = members[u].org
    BY <1>1, <1>3, <2>1 DEF CheckCustomer, InTenant, ReferencesStayInside
  <2>4. locked' \in [Orgs -> UserIds \cup {NoOne}]  BY <1>1, <2>1 DEF TenancyTypeOK
  <2>5. new.customer = c  OBVIOUS
  <2> HIDE DEF new
  <2> QED  BY <2>1, <2>2, <2>3, <2>4, <2>5, RequestStep
<1>4. CASE AllocateNumber(u)
  <2> DEFINE o == members[u].org
             new == [creating[u] EXCEPT !.pc = "numbered", !.number = NextNumber(o)]
  <2>1. /\ directory' = directory /\ members' = members /\ desk' = desk
        /\ locked' = [locked EXCEPT ![o] = u] /\ locked[o] = NoOne
        /\ creating[u].pc = "checked"
    BY <1>4 DEF AllocateNumber
  <2>2. creating' = [creating EXCEPT ![u] = new]  BY <1>4 DEF AllocateNumber
  <2>3. /\ o # NoOne /\ creating[u].customer # NoOne
        /\ directory[creating[u].customer] = o
    BY <1>1, <2>1 DEF DraftsStayInside
  <2>4. o \in Orgs  BY <1>2, <2>3 DEF Account
  <2>5. NextNumber(o) \in Nat
    <3>1. PICK k \in Nat : NumbersOf(o) = 1 .. k  BY <1>1, <2>4 DEF Counted
    <3> QED  BY <3>1, NextProlongs
  <2>6. /\ new \in Creating /\ new.pc = "numbered" /\ new.customer = creating[u].customer
        /\ new.number = NextNumber(o)
    <3> HIDE DEF o
    <3> QED  BY <1>2, <2>5 DEF Creating
  <2>7. /\ locked' \in [Orgs -> UserIds \cup {NoOne}] /\ locked'[o] = u
        /\ \A p \in Orgs, v \in UserIds : v # u /\ locked[p] = v => locked'[p] = v
    BY <1>1, <2>1, <2>4 DEF TenancyTypeOK
  <2> HIDE DEF new, o
  <2> QED  BY <2>1, <2>2, <2>3, <2>6, <2>7, RequestStep DEF o
<1>5. CASE GiveUpTicket(u)
  <2>1. /\ directory' = directory /\ members' = members /\ desk' = desk
        /\ creating' = [creating EXCEPT ![u] = Idle] /\ locked' = Unlocked(u)
    BY <1>5 DEF GiveUpTicket
  <2>2. Idle \in Creating /\ Idle.pc = "idle"  BY DEF Idle, Creating
  <2>3. /\ locked' \in [Orgs -> UserIds \cup {NoOne}]
        /\ \A p \in Orgs, v \in UserIds : v # u /\ locked[p] = v => locked'[p] = v
    BY <1>1, <2>1 DEF TenancyTypeOK, Unlocked
  <2> QED  BY <2>1, <2>2, <2>3, RequestStep
<1> QED  BY <1>3, <1>4, <1>5

\* One ticket changes its agent or its words.
LEMMA TicketStep ==
    ASSUME TInv, NEW t \in TicketIds, NEW new \in DeskTicket,
           desk' = [desk EXCEPT ![t] = new], desk[t].org # NoOne,
           new.org = desk[t].org, new.number = desk[t].number, new.customer = desk[t].customer,
           new.agent # NoOne => members[new.agent].org = new.org,
           directory' = directory, members' = members, creating' = creating, locked' = locked
    PROVE  TInv'
<1>1. /\ TenancyTypeOK /\ ReferencesStayInside /\ DraftsStayInside /\ HoldersAreNext
      /\ Counted /\ UsedOnce /\ Rooted
  BY DEF TInv
<1>2. /\ desk' \in [TicketIds -> DeskTicket] /\ desk'[t] = new
      /\ \A s \in TicketIds : s # t => desk'[s] = desk[s]
  BY <1>1 DEF TenancyTypeOK
<1>3. \A s \in TicketIds : desk'[s].org = desk[s].org /\ desk'[s].number = desk[s].number
                             /\ desk'[s].customer = desk[s].customer
  BY <1>2
<1>4. \A o : NumbersOf(o)' = NumbersOf(o) /\ NextNumber(o)' = NextNumber(o)
  BY <1>3, SameNumbers
<1>5. TenancyTypeOK'  BY <1>1, <1>2 DEF TenancyTypeOK
<1>6. ReferencesStayInside'  BY <1>1, <1>2, <1>3 DEF ReferencesStayInside
<1>7. DraftsStayInside'  BY <1>1 DEF DraftsStayInside
<1>8. HoldersAreNext' /\ Counted'  BY <1>1, <1>4 DEF HoldersAreNext, Counted
<1>9. UsedOnce' /\ Rooted'  BY <1>1, <1>3 DEF UsedOnce, Rooted
<1> QED  BY <1>5, <1>6, <1>7, <1>8, <1>9 DEF TInv

LEMMA TicketLemma ==
    ASSUME TInv, NEW u \in UserIds, NEW t \in TicketIds, NEW a \in UserIds \cup {NoOne},
           AssignTo(u, t, a)
    PROVE  TInv'
<1>1. TenancyTypeOK /\ ReferencesStayInside  BY DEF TInv
<1>2. desk[t] \in DeskTicket  BY <1>1 DEF TenancyTypeOK
<1>3. desk[t].org # NoOne /\ desk[t].org = members[u].org
  BY DEF AssignTo, InSight, InTenant
<1> DEFINE new == [desk[t] EXCEPT !.agent = a]
<1>4. /\ directory' = directory /\ members' = members /\ creating' = creating
      /\ locked' = locked
      /\ a # NoOne => members[a].org = members[u].org
  BY DEF AssignTo, InTenant
<1>5. desk' = [desk EXCEPT ![t] = new]  BY <1>1 DEF AssignTo, TenancyTypeOK
<1>6. /\ new \in DeskTicket /\ new.org = desk[t].org /\ new.number = desk[t].number
      /\ new.customer = desk[t].customer /\ new.agent = a
  BY <1>2 DEF DeskTicket
<1> HIDE DEF new
<1> QED  BY <1>3, <1>4, <1>5, <1>6, TicketStep

\* The commit of a new ticket: its number prolongs the run of its organization,
\* and nobody else holds a number of that organization.
LEMMA CommitLemma ==
    ASSUME TInv, NEW u \in UserIds, NEW t \in TicketIds, CommitTicket(u, t)
    PROVE  TInv'
<1> USE TenancyAssumption
<1>1. /\ TenancyTypeOK /\ ReferencesStayInside /\ DraftsStayInside /\ HoldersAreNext
      /\ Counted /\ UsedOnce /\ Rooted
  BY DEF TInv
<1>2. creating[u].pc = "numbered" /\ desk[t].org = NoOne  BY DEF CommitTicket
<1>3. members[u].org # NoOne  BY <1>1, <1>2 DEF DraftsStayInside
<1>4. members[u] \in Account /\ creating[u] \in Creating  BY <1>1 DEF TenancyTypeOK
<1> PICK o \in Orgs : o = members[u].org  BY <1>3, <1>4 DEF Account
<1>5. /\ creating[u].customer # NoOne /\ directory[creating[u].customer] = o
      /\ locked[o] = u /\ creating[u].number = NextNumber(o)
  BY <1>1, <1>2 DEF DraftsStayInside, HoldersAreNext
<1> DEFINE new == [org |-> o, number |-> creating[u].number, customer |-> creating[u].customer,
                   agent |-> NoOne]
<1>6. /\ desk' = [desk EXCEPT ![t] = new]
      /\ creating' = [creating EXCEPT ![u] = Idle] /\ locked' = Unlocked(u)
      /\ directory' = directory /\ members' = members
  BY DEF CommitTicket
<1>7. /\ new \in DeskTicket
      /\ new.org = o /\ new.number = NextNumber(o) /\ new.customer = creating[u].customer
      /\ new.agent = NoOne
  BY <1>4, <1>5 DEF DeskTicket, Creating
<1>8. PICK k \in Nat : NumbersOf(o) = 1 .. k  BY <1>1 DEF Counted
<1>9. NextNumber(o) = k + 1  BY <1>8, NextProlongs
<1> HIDE DEF new
<1>10. /\ desk' \in [TicketIds -> DeskTicket] /\ desk'[t] = new
       /\ \A s \in TicketIds : s # t => desk'[s] = desk[s]
  BY <1>1, <1>6, <1>7 DEF TenancyTypeOK
<1>11. NumbersOf(o)' = 1 .. k + 1
  <2>1. NumbersOf(o)' = NumbersOf(o) \cup {k + 1}
    BY <1>2, <1>7, <1>9, <1>10 DEF NumbersOf
  <2> QED  BY <2>1, <1>8
<1>12. ASSUME NEW p \in Orgs, p # o
       PROVE  NumbersOf(p)' = NumbersOf(p) /\ NextNumber(p)' = NextNumber(p)
  <2>1. p # NoOne  OBVIOUS
  <2>2. NumbersOf(p)' = NumbersOf(p)  BY <1>2, <1>7, <1>10, <1>12, <2>1 DEF NumbersOf
  <2> QED  BY <2>2 DEF NextNumber
<1>13. Counted'
  <2>1. k + 1 \in Nat  OBVIOUS
  <2> QED  BY <2>1, <1>1, <1>11, <1>12 DEF Counted
<1>14. UsedOnce'
  <2>1. \A s \in TicketIds : desk[s].org = o => desk[s].number \in NumbersOf(o)
    BY DEF NumbersOf
  <2>2. \A s \in TicketIds : desk[s].org = o => desk[s].number # k + 1
    BY <2>1, <1>8
  <2>3. ASSUME NEW p \in Orgs, NEW r \in TicketIds, NEW s \in TicketIds,
               desk'[r].org = p, desk'[s].org = p, desk'[r].number = desk'[s].number
        PROVE  r = s
    <3>1. CASE r # t /\ s # t  BY <3>1, <2>3, <1>1, <1>10 DEF UsedOnce
    <3>2. CASE r = t /\ s # t  BY <3>2, <2>2, <2>3, <1>7, <1>9, <1>10
    <3>3. CASE r # t /\ s = t  BY <3>3, <2>2, <2>3, <1>7, <1>9, <1>10
    <3> QED  BY <3>1, <3>2, <3>3
  <2> QED  BY <2>3 DEF UsedOnce
<1>15. Idle \in Creating /\ Idle.pc = "idle"  BY DEF Idle, Creating
<1>16. /\ creating' \in [UserIds -> Creating] /\ creating'[u] = Idle
       /\ \A v \in UserIds : v # u => creating'[v] = creating[v]
  BY <1>1, <1>6, <1>15 DEF TenancyTypeOK
<1>17. TenancyTypeOK'
  <2>1. locked' \in [Orgs -> UserIds \cup {NoOne}]  BY <1>1, <1>6 DEF TenancyTypeOK, Unlocked
  <2> QED  BY <2>1, <1>1, <1>6, <1>10, <1>16 DEF TenancyTypeOK
<1>18. ReferencesStayInside' /\ Rooted'
  BY <1>1, <1>2, <1>5, <1>6, <1>7, <1>10 DEF ReferencesStayInside, Rooted
<1>19. DraftsStayInside'  BY <1>1, <1>6, <1>15, <1>16 DEF DraftsStayInside
<1>20. ASSUME NEW v \in UserIds, creating'[v].pc = "numbered"
       PROVE  locked'[members[v].org] = v /\ creating'[v].number = NextNumber(members[v].org)'
  <2>1. v # u /\ creating'[v] = creating[v] /\ creating[v].pc = "numbered"
    BY <1>15, <1>16, <1>20
  <2>2. /\ locked[members[v].org] = v /\ creating[v].number = NextNumber(members[v].org)
        /\ members[v].org # NoOne
    BY <1>1, <2>1 DEF HoldersAreNext, DraftsStayInside
  <2>3. members[v].org \in Orgs
    <3>1. members[v] \in Account  BY <1>1 DEF TenancyTypeOK
    <3> QED  BY <3>1, <2>2 DEF Account
  <2>4. members[v].org # o  BY <1>5, <2>1, <2>2
  <2>5. NextNumber(members[v].org)' = NextNumber(members[v].org)
    <3> PICK p \in Orgs : p = members[v].org  BY <2>3
    <3>1. members'[v].org = p /\ p # o  BY <1>6, <2>4
    <3>2. NextNumber(p)' = NextNumber(p)  BY <1>12, <3>1
    <3>3. NextNumber(members[v].org)' = NextNumber(p)'  BY <3>1 DEF NextNumber, NumbersOf
    <3> QED  BY <3>2, <3>3
  <2>6. locked'[members[v].org] = v  BY <1>6, <2>1, <2>2, <2>3 DEF Unlocked
  <2> QED  BY <2>1, <2>2, <2>5, <2>6
<1>21. HoldersAreNext'  BY <1>6, <1>20 DEF HoldersAreNext
<1> QED  BY <1>13, <1>14, <1>17, <1>18, <1>19, <1>21 DEF TInv

-----------------------------------------------------------------------------
LEMMA NextHolds == TInv /\ [TenancyNext]_tenancyVars => TInv'
<1> SUFFICES ASSUME TInv, [TenancyNext]_tenancyVars PROVE TInv'  OBVIOUS
<1>1. CASE UNCHANGED tenancyVars
  <2>1. /\ directory' = directory /\ members' = members /\ desk' = desk
        /\ creating' = creating /\ locked' = locked
    BY <1>1 DEF tenancyVars
  <2>2. \A o : NumbersOf(o)' = NumbersOf(o) /\ NextNumber(o)' = NextNumber(o)
    BY <2>1 DEF NumbersOf, NextNumber
  <2>3. HoldersAreNext' /\ Counted'  BY <2>1, <2>2 DEF TInv, HoldersAreNext, Counted
  <2>4. TenancyTypeOK' /\ ReferencesStayInside'
    BY <2>1 DEF TInv, TenancyTypeOK, ReferencesStayInside
  <2>5. DraftsStayInside' /\ UsedOnce' /\ Rooted'
    BY <2>1 DEF TInv, DraftsStayInside, UsedOnce, Rooted
  <2> QED  BY <2>3, <2>4, <2>5 DEF TInv
<1>2. CASE TenancyNext
  <2> PICK u \in UserIds :
       \/ \E c \in CustomerIds : CreateCustomer(u, c)
       \/ \E new \in UserIds, role \in {"admin", "manager", "agent", "customer"},
             c \in CustomerIds \cup {NoOne} : CreateAccount(u, new, role, c)
       \/ \E c \in CustomerIds : CheckCustomer(u, c)
       \/ AllocateNumber(u) \/ GiveUpTicket(u)
       \/ \E t \in TicketIds :
             \/ CommitTicket(u, t)
             \/ \E a \in UserIds \cup {NoOne} : AssignTo(u, t, a)
    BY <1>2 DEF TenancyNext
  <2>1. CASE \E c \in CustomerIds : CreateCustomer(u, c)  BY <2>1, NewCustomer
  <2>2. CASE \E new \in UserIds, role \in {"admin", "manager", "agent", "customer"},
                c \in CustomerIds \cup {NoOne} : CreateAccount(u, new, role, c)
    BY <2>2, NewAccount
  <2>3. CASE (\E c \in CustomerIds : CheckCustomer(u, c)) \/ AllocateNumber(u) \/ GiveUpTicket(u)
    BY <2>3, RequestLemma
  <2>4. CASE \E t \in TicketIds : CommitTicket(u, t)
    BY <2>4, CommitLemma
  <2>5. ASSUME NEW t \in TicketIds, NEW a \in UserIds \cup {NoOne}, AssignTo(u, t, a) PROVE TInv'
    BY <2>5, TicketLemma
  <2> QED  BY <2>1, <2>2, <2>3, <2>4, <2>5
<1> QED  BY <1>1, <1>2

THEOREM Inductive == TenancySpec => []TInv
  BY InitHolds, NextHolds, PTL DEF TenancySpec

\* No account, ticket or assignment refers to a row of another organization,
\* though the identifiers come with the requests (customer lookups of create_user
\* and create_ticket, _agent_is_visible).
THEOREM Inside == TenancySpec => []ReferencesStayInside
<1>1. TInv => ReferencesStayInside  BY DEF TInv
<1> QED  BY <1>1, Inductive, PTL

\* Each organization's tickets are numbered 1, 2, 3 ... without a gap or a
\* repetition, however create_ticket overlaps and whoever rolls back.
THEOREM Numbering == TenancySpec => []NumbersCountUp
<1>1. ASSUME TInv PROVE NumbersCountUp
  <2>1. ASSUME NEW o \in Orgs PROVE NumbersOf(o) = 1 .. Cardinality(NumbersOf(o))
    <3>1. PICK k \in Nat : NumbersOf(o) = 1 .. k  BY <1>1 DEF TInv, Counted
    <3>2. Cardinality(1 .. k) = k  BY FS_Interval
    <3> QED  BY <3>1, <3>2
  <2> QED  BY <1>1, <2>1 DEF TInv, UsedOnce, NumbersCountUp
<1> QED  BY <1>1, Inductive, PTL

\* Rows, requests and locks keep their shapes, whoever has a number holds the lock
\* of its organization and the next number (allocate_number), and with it all that
\* keeps organizations apart.
THEOREM Locking == TenancySpec => []TenancyInv
<1>1. TInv /\ NumbersCountUp => TenancyInv
  BY DEF TInv, TenancyInv, DraftsStayInside, HoldersAreNext
<1> QED  BY <1>1, Inductive, Numbering, PTL
=============================================================================
