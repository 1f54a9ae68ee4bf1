--------------------------- MODULE TicketContract ----------------------------
(***************************************************************************)
(* What the ticket endpoints promise to whoever reads the desk: a ticket   *)
(* moves along the lifecycle one edge at a time, is assigned exactly when  *)
(* somebody has it, shows a resolution time exactly while it is resolved   *)
(* or closed, and is answered at most once for the first time.  Every      *)
(* operation is one atomic step here.                                      *)
(***************************************************************************)
CONSTANTS Assignable, Nobody

VARIABLES status, agent, resolved, answered

contractVars == <<status, agent, resolved, answered>>

Begin ==
    /\ status = "open" /\ agent = Nobody
    /\ resolved = FALSE /\ answered = FALSE

\* Taking an open ticket from the queue is what makes it assigned.
Take(a) ==
    /\ status = "open" /\ agent' = a /\ status' = "assigned"
    /\ UNCHANGED <<resolved, answered>>

\* A ticket that left the queue changes hands without moving.
HandOver(a) ==
    /\ status # "open" /\ agent' = a
    /\ UNCHANGED <<status, resolved, answered>>

\* Nobody takes an assigned ticket back to the queue.
Release ==
    /\ status # "assigned" /\ agent' = Nobody
    /\ UNCHANGED <<status, resolved, answered>>

Work ==
    /\ <<status, status'>> \in
          {<<"assigned", "in_progress">>,
           <<"in_progress", "waiting_for_customer">>,
           <<"waiting_for_customer", "in_progress">>}
    /\ UNCHANGED <<agent, resolved, answered>>

Resolve ==
    /\ status = "in_progress" /\ status' = "resolved" /\ resolved' = TRUE
    /\ UNCHANGED <<agent, answered>>

Close ==
    /\ status = "resolved" /\ status' = "closed"
    /\ UNCHANGED <<agent, resolved, answered>>

Reopen ==
    /\ status = "closed" /\ status' = "open"
    /\ agent' = Nobody /\ resolved' = FALSE
    /\ UNCHANGED answered

Answer ==
    /\ status # "closed" /\ answered = FALSE /\ answered' = TRUE
    /\ UNCHANGED <<status, agent, resolved>>

Advance ==
    \/ \E a \in Assignable : Take(a) \/ HandOver(a)
    \/ Release \/ Work \/ Resolve \/ Close \/ Reopen \/ Answer

Contract == Begin /\ [][Advance]_contractVars
==============================================================================
