----------------------------- MODULE SlaFigures -----------------------------
(***************************************************************************)
(* The SLA figures of the dashboard (services/analytics_service.py,        *)
(* repositories/analytics_repository.py).  They are computed in SQL from   *)
(* the columns of the tickets and the active policies, while the countdown *)
(* beside each ticket and the sweep use resolve_timer: the two must say    *)
(* the same of every ticket at every instant.                              *)
(***************************************************************************)
EXTENDS SlaSweep

CONSTANTS
    RiskLimit,   \* the endpoint's limit
    DefaultDays, \* DEFAULT_WINDOW_DAYS, in ticks
    MaxDays      \* MAX_WINDOW_DAYS, in ticks

ASSUME FiguresAssumption ==
    RiskLimit \in Nat \ {0} /\ DefaultDays \in Nat /\ MaxDays \in Nat

\* A query parameter that was not sent.
Unset == -1

\* resolve_window: the bounds of a request, or nothing when it is refused.
Window(start, end, now) ==
    LET from == IF start = Unset THEN now - DefaultDays ELSE start
        to == IF end = Unset THEN now ELSE end
    IN {w \in {<<from, to>>} : w[1] <= w[2] /\ w[2] - w[1] <= MaxDays}

\* _in_window, of tickets that exist.
InWindow(t, window) == tix[t].created >= window[1] /\ tix[t].created < window[2]

Existing == {t \in Tix : tix[t].created # Never}

\* _POLICY_JOIN: a ticket whose priority is switched off has no clock, and is in
\* none of the figures.
PolicyOf(t) == policies[tix[t].priority]
Clocked == {t \in Existing : PolicyOf(t).active}

\* _unstopped_due_at: NULL once the timer has stopped.
UnstoppedDue(t, timer) ==
    IF StoppedAt(timer, tix[t]) = Never THEN DueAt(timer, tix[t], PolicyOf(t)) ELSE Never

\* _outstanding_predicate: LEAST passes over NULLs.
Outstanding(t) ==
    LET dues == {UnstoppedDue(t, timer) : timer \in Timers} \ {Never} IN
    IF dues = {} THEN Never ELSE CHOOSE d \in dues : \A e \in dues : d <= e

\* The four counts of sla_compliance, as the sets they count.
Met(timer, window) ==
    {t \in Clocked : /\ InWindow(t, window) /\ StoppedAt(timer, tix[t]) # Never
                     /\ StoppedAt(timer, tix[t]) <= DueAt(timer, tix[t], PolicyOf(t))}
Missed(timer, window) ==
    {t \in Clocked : /\ InWindow(t, window) /\ StoppedAt(timer, tix[t]) # Never
                     /\ StoppedAt(timer, tix[t]) > DueAt(timer, tix[t], PolicyOf(t))}

OpenTickets == {t \in Clocked : IsOpen(tix[t])}

\* A slip: at the instant it is due a ticket still has time.
SlipOverdue(now) == {t \in OpenTickets : Outstanding(t) # Never /\ Outstanding(t) < now}

\* overdue_count; NULL is not overdue.
Overdue(now) == {t \in OpenTickets : Outstanding(t) # Never /\ Outstanding(t) <= now}

\* A slip: the deadline of the first response decides, answered or not.
SlipSooner(t, u) ==
    LET a == DueAt("response", tix[t], PolicyOf(t))
        b == DueAt("response", tix[u], PolicyOf(u))
    IN a < b \/ (a = b /\ t < u)

\* The order of risk_candidates: ascending, NULLs last, then the id.
Sooner(t, u) ==
    LET a == Outstanding(t)  b == Outstanding(u) IN
    \/ a # Never /\ (b = Never \/ a < b)
    \/ a = b /\ t < u

RiskCandidates == {t \in OpenTickets : Cardinality({u \in OpenTickets : Sooner(u, t)}) < RiskLimit}

\* _binding_timer: of the timers still running, the one with the least left.
Running(t) == {timer \in Timers : StoppedAt(timer, tix[t]) = Never}
Binding(t, now) ==
    CHOOSE timer \in Running(t) :
       \A other \in Running(t) :
          DueAt(timer, tix[t], PolicyOf(t)) - now <= DueAt(other, tix[t], PolicyOf(t)) - now

\* risk_list: a candidate without a running timer is left out.
RiskList == {t \in RiskCandidates : Running(t) # {}}

-----------------------------------------------------------------------------
\* What resolve_timer says of the ticket.
Clock(t, timer, now) == TimerState(timer, tix[t], PolicyOf(t), now)

\* The count of overdue tickets is the number of open tickets with a running
\* timer their countdown calls breached.
OverdueIsBreached ==
    Overdue(time) =
       {t \in OpenTickets : \E timer \in Running(t) : Clock(t, timer, time) = "breached"}

\* The windows that requests of now resolve to.
Windows == UNION {Window(start, end, time) : start, end \in Unset .. Horizon + 1}

\* Met and missed are what the countdown of the stopped timers says, and a
\* window cut in two counts every ticket of it once.
ComplianceAddsUp ==
    Existing # {} =>
       \A timer \in Timers, window \in Windows : \A cut \in window[1] .. window[2] :
          LET early == <<window[1], cut>>  late == <<cut, window[2]>> IN
          /\ \A t \in Met(timer, window) : Clock(t, timer, time) = "met"
          /\ \A t \in Missed(timer, window) : Clock(t, timer, time) = "breached"
          /\ Cardinality(Met(timer, window))
                = Cardinality(Met(timer, early)) + Cardinality(Met(timer, late))
          /\ Cardinality(Missed(timer, window))
                = Cardinality(Missed(timer, early)) + Cardinality(Missed(timer, late))

\* Nothing that is left off the risk list has less time than what is on it, and
\* as long as there is room everything overdue is on it.
NothingMoreUrgentIsHidden ==
    /\ \A t \in RiskList, u \in OpenTickets \ RiskList :
          \A timer \in Running(u) :
             DueAt(Binding(t, time), tix[t], PolicyOf(t)) <= DueAt(timer, tix[u], PolicyOf(u))
    /\ Cardinality(Overdue(time)) <= RiskLimit => Overdue(time) \subseteq RiskList

\* The ticket that an alert is warranted for is one a sweep looks at: neither the
\* bound that find_pending puts on the age nor the policies load_policies leaves
\* out hide one that the dashboard has a clock for.
PrefilterHidesNothing ==
    \A t \in OpenTickets :
       Warranted(tix[t], PolicyOf(t), time) # {} =>
          /\ tix[t].priority \in Active
          /\ t \in Pending(tix[t].priority, PolicyOf(t), time)

\* The dashboard and the sweep mean by late what the countdown says.
FiguresAgree == OverdueIsBreached /\ PrefilterHidesNothing

\* What the dashboard counts and lists leaves nothing out and counts nothing twice.
FiguresAddUp == ComplianceAddsUp /\ NothingMoreUrgentIsHidden
=============================================================================
