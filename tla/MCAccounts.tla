------------------------------ MODULE MCAccounts ------------------------------
(***************************************************************************)
(* An instance for TLC of who may do what: the administrators of an        *)
(* organization, their sessions, the organizations side by side and the    *)
(* files of a ticket.  They share no state, so a behaviour is one of a     *)
(* single part, the others at rest.                                        *)
(***************************************************************************)
EXTENDS UserAdmin, AuthSessions, Tenancy, Attachments, TLC

VARIABLE part

Parts == {"admin", "auth", "tenancy", "files"}

AccountsInit == part \in Parts /\ Init /\ AuthInit /\ TenancyInit /\ AttachmentInit

AccountsNext ==
    \/ part = "admin" /\ Next /\ UNCHANGED <<part, authVars, tenancyVars, attachmentVars>>
    \/ part = "auth" /\ AuthNext /\ UNCHANGED <<part, vars, tenancyVars, attachmentVars>>
    \/ part = "tenancy" /\ TenancyNext /\ UNCHANGED <<part, vars, authVars, attachmentVars>>
    \/ part = "files" /\ AttachmentNext /\ UNCHANGED <<part, vars, authVars, tenancyVars>>

AccountsSpec ==
    AccountsInit /\ [][AccountsNext]_<<part, vars, authVars, tenancyVars, attachmentVars>>

-----------------------------------------------------------------------------
\* Two organizations, of u1 and u2; whoever else there is joins one of them.
FirstAdmins == [o \in Orgs |-> IF o = "left" THEN "u1" ELSE "u2"]

\* An agent and the customer whose ticket it is.
FileRoles == [p \in Clients |-> IF p = "agent" THEN "agent" ELSE "customer"]

\* Everybody but the founder, the requests and the tickets are interchangeable.
Interchangeable ==
    Permutations(People \ {Founder}) \cup Permutations(Requests) \cup Permutations(TicketIds)
=============================================================================
