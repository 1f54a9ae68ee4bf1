------------------------------ MODULE SlaClock ------------------------------
(***************************************************************************)
(* The arithmetic of SLA timers (services/sla_service.py): where a         *)
(* ticket's two timers stand at a given moment under a policy, which       *)
(* alerts that calls for, and the age below which a sweep does not look at *)
(* a ticket.  Instants are whole ticks.                                    *)
(***************************************************************************)
EXTENDS Integers

\* A timestamp column that is NULL.
Never == -1

Timers == {"response", "resolution"}
AlertKinds == {"warning", "breached"}

\* The targets, in ticks, warning_threshold_percent and is_active.
IsPolicy(p) ==
    /\ p.active \in BOOLEAN
    /\ p.response \in Nat \ {0} /\ p.resolution \in Nat \ {0} /\ p.percent \in 1 .. 99
    /\ p.resolution >= p.response

Target(timer, policy) == IF timer = "response" THEN policy.response ELSE policy.resolution

StoppedAt(timer, ticket) == IF timer = "response" THEN ticket.responded ELSE ticket.resolved

DueAt(timer, ticket, policy) == ticket.created + Target(timer, policy)

\* now >= started_at + target * percent / 100, without the division.
WarningReached(age, target, percent) == 100 * age >= target * percent

SlipTimerState(timer, ticket, policy, now) ==
    LET due == DueAt(timer, ticket, policy) IN
    IF now >= due THEN "breached"
    ELSE IF StoppedAt(timer, ticket) # Never THEN "met"
    ELSE IF WarningReached(now - ticket.created, Target(timer, policy), policy.percent)
    THEN "warning" ELSE "on_track"

\* resolve_timer: a stopped timer is judged by when it stopped, to the instant
\* it was due; a running one is breached from that instant on.
TimerState(timer, ticket, policy, now) ==
    LET due == DueAt(timer, ticket, policy)  stop == StoppedAt(timer, ticket) IN
    IF stop # Never THEN IF stop <= due THEN "met" ELSE "breached"
    ELSE IF now >= due THEN "breached"
    ELSE IF WarningReached(now - ticket.created, Target(timer, policy), policy.percent)
    THEN "warning" ELSE "on_track"

\* due_alerts before it looks at what is recorded: the timers' states that call
\* for an event.
Warranted(ticket, policy, now) ==
    {a \in Timers \X AlertKinds : TimerState(a[1], ticket, policy, now) = a[2]}

SlipOldEnough(ticket, policy, now) ==
    WarningReached(now - ticket.created, policy.resolution, policy.percent)

\* earliest_alert_offset, as find_pending uses it: created_at <= now - offset.
OldEnough(ticket, policy, now) ==
    WarningReached(now - ticket.created, policy.response, policy.percent)

\* update_policy: the columns given replace the policy's, and the merged targets
\* are compared.
Merged(policy, changes) ==
    [f \in DOMAIN policy |-> IF f \in DOMAIN changes THEN changes[f] ELSE policy[f]]

MayUpdate(policy, changes) ==
    Merged(policy, changes).resolution >= Merged(policy, changes).response
=============================================================================
