------------------------------ MODULE UserAdmin ------------------------------
(***************************************************************************)
(* The accounts of one organization and its administrators' three          *)
(* operations on them: create_user, update_role and deactivate_user        *)
(* (services/user_service.py).  A request is authenticated, reads its      *)
(* target, counts the other administrators when it is about to lose one,   *)
(* and commits the column it changed; each statement sees what is          *)
(* committed by then, and nothing locks a row.  Only administrators hold   *)
(* the three permissions, so one role, "member", stands for the others,    *)
(* and what customer_id links a portal account to is left out.             *)
(***************************************************************************)
EXTENDS FiniteSets

CONSTANTS
    People,   \* e-mail addresses; bound: how many accounts there can be
    Founder,  \* who registered the organization
    Requests  \* requests in flight together

ASSUME FounderAssumption == Founder \in People

VARIABLES
    users,  \* the rows of users
    calls   \* the requests

vars == <<users, calls>>

Roles == {"admin", "member"}

\* role "none": no such row.
User == [role : Roles \cup {"none"}, active : BOOLEAN]

\* role is the target's, as this session read it; others: the administrators that
\* were counted (the code has their number).
Call == [pc : {"idle", "admitted", "loaded", "checked"}, by : People,
         op : {"create", "role", "deactivate"}, who : People, to : Roles,
         role : Roles \cup {"none"}, others : SUBSET People]

NoCall == [pc |-> "idle", by |-> Founder, op |-> "create", who |-> Founder,
           to |-> "admin", role |-> "none", others |-> {}]

Admins == {u \in People : users[u].role = "admin"}

ActiveAdmins == {u \in Admins : users[u].active}

TypeOK ==
    /\ users \in [People -> User]
    /\ calls \in [Requests -> Call]
    /\ \A r \in Requests :
          calls[r].pc = "loaded" => calls[r].op # "create" /\ calls[r].role = "admin"

-----------------------------------------------------------------------------
Resting(r) == calls' = [calls EXCEPT ![r] = NoCall] /\ UNCHANGED users

Proceed(r, pc, role, others) ==
    /\ calls' = [calls EXCEPT ![r].pc = pc, ![r].role = role, ![r].others = others]
    /\ UNCHANGED users

\* get_current_user and require_permission: an active administrator calls; a
\* deactivation names no role.
Admit(r, by, op, who, to) ==
    /\ calls[r].pc = "idle" /\ by \in ActiveAdmins
    /\ op = "deactivate" => to = NoCall.to
    /\ calls' = [calls EXCEPT ![r] = [pc |-> "admitted", by |-> by, op |-> op,
                                      who |-> who, to |-> to, role |-> "none",
                                      others |-> {}]]
    /\ UNCHANGED users

\* create_user: the address must be free.
LoadNew(r) ==
    /\ calls[r].pc = "admitted" /\ calls[r].op = "create"
    /\ IF users[calls[r].who].role = "none"
         THEN Proceed(r, "checked", "none", {})
         ELSE Resting(r)

\* The caller's own row is in the session since authentication, and reading it
\* again does not refresh it: the caller read there was an administrator.
Seen(r) ==
    IF calls[r].who = calls[r].by THEN "admin" ELSE users[calls[r].who].role

SlipLoad(r) ==
    /\ calls[r].pc = "admitted" /\ calls[r].op # "create"
    /\ IF Seen(r) = "none" \/ (calls[r].op = "role" /\ Seen(r) = calls[r].to)
         THEN Resting(r)
         ELSE Proceed(r, IF Seen(r) = "admin" THEN "loaded" ELSE "checked", Seen(r), {})

\* update_role and deactivate_user: no such user, a caller deactivating
\* themselves, and a role that stays what it is end the request; losing an
\* administrator takes the count below first.
Load(r) ==
    /\ calls[r].pc = "admitted" /\ calls[r].op # "create"
    /\ IF \/ Seen(r) = "none"
          \/ calls[r].op = "deactivate" /\ calls[r].who = calls[r].by
          \/ calls[r].op = "role" /\ Seen(r) = calls[r].to
         THEN Resting(r)
         ELSE Proceed(r, IF Seen(r) = "admin" THEN "loaded" ELSE "checked", Seen(r), {})

SlipCount(r) ==
    /\ calls[r].pc = "loaded"
    /\ IF Admins # {}
         THEN Proceed(r, "checked", "admin", Admins \ {calls[r].who})
         ELSE Resting(r)

\* _require_another_admin: administrators other than the target, active or not.
Count(r) ==
    /\ calls[r].pc = "loaded"
    /\ IF Admins \ {calls[r].who} # {}
         THEN Proceed(r, "checked", "admin", Admins \ {calls[r].who})
         ELSE Resting(r)

\* create_user commits; the unique constraint (organization_id, email) refuses
\* an address taken meanwhile.
Insert(r) ==
    LET who == calls[r].who  to == calls[r].to IN
    /\ calls[r].pc = "checked" /\ calls[r].op = "create"
    /\ users' = IF users[who].role = "none"
                  THEN [users EXCEPT ![who] = [role |-> to, active |-> TRUE]]
                  ELSE users
    /\ calls' = [calls EXCEPT ![r] = NoCall]

\* update_role commits: the role and no other column.
Appoint(r) ==
    /\ calls[r].pc = "checked" /\ calls[r].op = "role"
    /\ users' = [users EXCEPT ![calls[r].who].role = calls[r].to]
    /\ calls' = [calls EXCEPT ![r] = NoCall]

\* deactivate_user commits.
Deactivate(r) ==
    /\ calls[r].pc = "checked" /\ calls[r].op = "deactivate"
    /\ users' = [users EXCEPT ![calls[r].who].active = FALSE]
    /\ calls' = [calls EXCEPT ![r] = NoCall]

\* The process may stop before its commit.
Crash(r) == calls[r].pc # "idle" /\ Resting(r)

-----------------------------------------------------------------------------
\* register: the organization and its first administrator, in one commit.
Init ==
    /\ users = [u \in People |-> [role |-> IF u = Founder THEN "admin" ELSE "none",
                                  active |-> u = Founder]]
    /\ calls = [r \in Requests |-> NoCall]

Next ==
    \E r \in Requests :
       \/ \E by, who \in People, op \in {"create", "role", "deactivate"}, to \in Roles :
             Admit(r, by, op, who, to)
       \/ LoadNew(r) \/ Load(r) \/ Count(r)
       \/ Insert(r) \/ Appoint(r) \/ Deactivate(r) \/ Crash(r)

Spec == Init /\ [][Next]_vars

-----------------------------------------------------------------------------
\* The reason given for counting the administrators: somebody can always sign in
\* and grant a role.
AnActiveAdminRemains == ActiveAdmins # {}

\* A request's commit.
Commits(r) == calls[r].pc = "checked" /\ users' # users /\ calls'[r].pc = "idle"

\* What the request decided on is still so: the role its target had, and that
\* everybody it counted is an administrator.
Stands(r) ==
    /\ users[calls[r].who].role = calls[r].role
    /\ calls[r].others \subseteq Admins

\* What _require_another_admin is for, whatever overlaps: an organization loses its
\* last administrator only to a request that another one overtook, by changing the
\* role of its target or of somebody it had counted.
LastAdminGoesInARace ==
    [][Admins # {} /\ Admins' = {} => \E r \in Requests : Commits(r) /\ ~ Stands(r)]_vars

\* It loses its last active administrator, who alone can sign in, only when that
\* one gives up or loses the role, or is deactivated by a caller who was deactivated
\* or demoted while the request was on its way: deactivate_user by somebody who may
\* still call it never does that.
OnlyDemotionLocksOut ==
    [][ActiveAdmins # {} /\ ActiveAdmins' = {} =>
          \/ \E u \in ActiveAdmins : users'[u].role # "admin"
          \/ \E r \in Requests : /\ Commits(r) /\ calls[r].op = "deactivate"
                                 /\ calls[r].by \notin ActiveAdmins]_vars

-----------------------------------------------------------------------------
\* How the requests in flight got where they are.
AdminInv ==
    \A r \in Requests :
       calls[r].pc \in {"loaded", "checked"} =>
          /\ (calls[r].op = "create") = (calls[r].role = "none")
          /\ calls[r].op = "deactivate" => calls[r].who # calls[r].by
          /\ calls[r].pc = "checked" /\ calls[r].role = "admin" =>
                calls[r].others # {} /\ calls[r].who \notin calls[r].others
=============================================================================
