------------------------------ MODULE SlaSweep ------------------------------
(***************************************************************************)
(* The SLA sweep (workers/sla_tasks.py, repositories/sla_repository.py)    *)
(* over the tickets of one organization.  A sweep takes the policies and   *)
(* the time once, then, priority by priority, reads the oldest tickets     *)
(* that may need an alert and the alerts they already have, and commits    *)
(* what is missing in one transaction.  Tickets are answered, resolved,    *)
(* closed, reopened and reprioritised by requests that overlap, and        *)
(* policies edited or switched off, between any two of its statements; a   *)
(* worker may die, and its message is delivered again.                     *)
(* Notifications of the alerts are EmailDelivery's.                        *)
(***************************************************************************)
EXTENDS SlaClock, FiniteSets

CONSTANTS
    Tix,           \* bound: how many tickets; numbers, a lower one is a lower id
    Priorities,
    Policies,      \* bound: the policies an organization may have, for each priority
    FirstPolicy,   \* ... and the one it begins with
    Staff,         \* requests that change tickets and may overlap
    Sweeps,        \* sweeps of this organization that may overlap
    Batch,         \* SLA_SWEEP_BATCH_SIZE
    Deaths,        \* bound: how often a sweep is killed or fails
    Horizon        \* bound: the last instant

ASSUME SlaAssumption ==
    /\ Tix \subseteq Nat /\ Tix # {} /\ IsFiniteSet(Tix) /\ IsFiniteSet(Sweeps)
    /\ Horizon \in Nat /\ Deaths \in Nat /\ Batch \in Nat \ {0}
    /\ Priorities # {} /\ FirstPolicy \in [Priorities -> UNION {Policies[p] : p \in Priorities}]
    /\ \A p \in Priorities : FirstPolicy[p] \in Policies[p] /\ \A q \in Policies[p] : IsPolicy(q)

VARIABLES
    time,      \* the clock
    policies,  \* the policy of each priority, active or switched off
    tix,       \* the tickets
    writes,    \* what the requests under way are to write
    landed,    \* history: when what stopped a timer was committed
    alerts,    \* per ticket, timer and kind: how many events, and the first one's due_at
    sweeps,    \* the sweeps under way
    deaths     \* sweeps that ended before their commit

slaVars == <<time, policies, tix, writes, landed, alerts, sweeps, deaths>>

Instants == -1 .. Horizon

AlertKeys == Tix \X (Timers \X AlertKinds)

\* created: Never when there is no such ticket yet.  open: any status a sweep
\* looks at.
SlaStatuses == {"open", "resolved", "closed"}

SlaTicket == [created : Instants, priority : Priorities, status : SlaStatuses,
              responded : Instants, resolved : Instants]

IsOpen(row) == row.status = "open"

\* A request between the load of its ticket and its commit.  dated: whether the
\* row that closing or reopening loaded had a resolution time.
Writes == [act : {"none", "answer", "resolve", "close", "reopen", "priority"}, ticket : Tix,
           to : Priorities, dated : BOOLEAN, since : Instants]

\* What the policies may be.
Choices == {f \in [Priorities -> UNION {Policies[p] : p \in Priorities}] :
               \A p \in Priorities : f[p] \in Policies[p]}

\* under: the policies it loaded.  left: priorities still to be looked at.
\* held: the tickets of the page before, which the session does not load again.
\* page: what the rows call for, with their due_at.  due: the alerts staged.
Sweep == [pc : {"idle", "running", "paged"}, at : Instants, under : Choices,
          left : SUBSET Priorities, held : [Tix -> SlaTicket],
          page : SUBSET (AlertKeys \X Nat), due : SUBSET (AlertKeys \X Nat)]

NoTix == [created |-> Never, priority |-> CHOOSE p \in Priorities : TRUE,
          status |-> "closed", responded |-> Never, resolved |-> Never]

NoWrite == [act |-> "none", ticket |-> CHOOSE t \in Tix : TRUE,
            to |-> CHOOSE p \in Priorities : TRUE, dated |-> FALSE, since |-> Never]

Asleep == [pc |-> "idle", at |-> Never, under |-> FirstPolicy, left |-> {},
           held |-> [t \in Tix |-> NoTix], page |-> {}, due |-> {}]

SlaTypeOK ==
    /\ time \in 0 .. Horizon
    /\ policies \in Choices
    /\ tix \in [Tix -> SlaTicket]
    /\ writes \in [Staff -> Writes]
    /\ landed \in [Tix -> [Timers -> Instants]]
    /\ alerts \in [AlertKeys -> [count : Nat, due : Nat]]
    /\ sweeps \in [Sweeps -> Sweep]
    /\ deaths \in 0 .. Deaths

-----------------------------------------------------------------------------
\* create_ticket: created_at is when its transaction began.
Arrive(t, p, born) ==
    /\ tix[t].created = Never
    /\ tix' = [tix EXCEPT ![t] = [created |-> born, priority |-> p, status |-> "open",
                                  responded |-> Never, resolved |-> Never]]
    /\ UNCHANGED <<time, policies, writes, landed, alerts, sweeps, deaths>>

\* A request has loaded its ticket and decided on the row it read.
Decide(r, t, act, p) ==
    /\ writes[r].act = "none" /\ tix[t].created # Never
    /\ writes' = [writes EXCEPT ![r] = [act |-> act, ticket |-> t, to |-> p, since |-> time,
                                        dated |-> act \in {"close", "reopen"}
                                                  /\ tix[t].resolved # Never]]
    /\ UNCHANGED <<time, policies, tix, landed, alerts, sweeps, deaths>>

\* post_reply of staff: a resolved ticket may be answered, a closed one not.
FirstAnswer(r, t) ==
    /\ tix[t].status # "closed" /\ tix[t].responded = Never
    /\ Decide(r, t, "answer", tix[t].priority)

\* change_status to RESOLVED, close_ticket, reopen_ticket.
Resolve(r, t) == IsOpen(tix[t]) /\ Decide(r, t, "resolve", tix[t].priority)
CloseTicket(r, t) == tix[t].status = "resolved" /\ Decide(r, t, "close", tix[t].priority)
ReopenTicket(r, t) == tix[t].status = "closed" /\ Decide(r, t, "reopen", tix[t].priority)

Reprioritise(r, t, p) == tix[t].priority # p /\ Decide(r, t, "priority", p)

\* The columns of a decision, dated between its load and its commit, in the row
\* as it is then.  Closing dates a resolution that had no date; reopening
\* writes NULL where it loaded a date.
Written(row, w, at) ==
    CASE w.act = "answer" -> [row EXCEPT !.responded = at]
      [] w.act = "resolve" -> [row EXCEPT !.status = "resolved", !.resolved = at]
      [] w.act = "close" -> [row EXCEPT !.status = "closed",
                                        !.resolved = IF w.dated THEN @ ELSE at]
      [] w.act = "reopen" -> [row EXCEPT !.status = "open",
                                         !.resolved = IF w.dated THEN Never ELSE @]
      [] OTHER -> [row EXCEPT !.priority = w.to]

\* The timers a decision stops.
Stops(w) ==
    {timer \in Timers : \/ timer = "response" /\ w.act = "answer"
                        \/ timer = "resolution" /\ w.act = "resolve"
                        \/ timer = "resolution" /\ w.act = "close" /\ ~ w.dated}

\* The commit.  Notices and queries are awaited between the date and the commit,
\* so what is dated now may be read by others only later.
CommitRow(r, at) ==
    LET w == writes[r] IN
    /\ w.act # "none" /\ w.since <= at /\ at <= time
    /\ tix' = [tix EXCEPT ![w.ticket] = Written(@, w, at)]
    /\ landed' = [landed EXCEPT ![w.ticket] =
                     [timer \in Timers |->
                        CASE timer \in Stops(w) -> time
                          [] StoppedAt(timer, tix'[w.ticket]) = Never -> Never
                          [] OTHER -> landed[w.ticket][timer]]]
    /\ writes' = [writes EXCEPT ![r] = NoWrite]
    /\ UNCHANGED <<time, policies, alerts, sweeps, deaths>>

\* The request fails before its commit.
Fail(r) ==
    /\ writes[r].act # "none" /\ writes' = [writes EXCEPT ![r] = NoWrite]
    /\ UNCHANGED <<time, policies, tix, landed, alerts, sweeps, deaths>>

\* update_policy, with the merged targets it accepts; it may switch a priority
\* off or on.
EditPolicy(p, new) ==
    /\ new # policies[p] /\ MayUpdate(policies[p], new)
    /\ policies' = [policies EXCEPT ![p] = new]
    /\ UNCHANGED <<time, tix, writes, landed, alerts, sweeps, deaths>>

\* load_policies: a priority that is switched off is not looked at.
Active == {p \in Priorities : policies[p].active}

\* _sweep begins: the active policies and the time.
BeginSweep(s) ==
    /\ sweeps[s].pc = "idle"
    /\ sweeps' = [sweeps EXCEPT ![s] = [Asleep EXCEPT !.pc = "running", !.at = time,
                                            !.under = policies, !.left = Active]]
    /\ UNCHANGED <<time, policies, tix, writes, landed, alerts, deaths>>

\* The rows find_pending may return at now, under a policy.
Pending(p, policy, now) ==
    {t \in Tix : /\ tix[t].created # Never /\ IsOpen(tix[t]) /\ tix[t].priority = p
                 /\ OldEnough(tix[t], policy, now)}

Older(t, u) ==
    tix[t].created < tix[u].created \/ (tix[t].created = tix[u].created /\ t < u)

\* ... and the ones it does: the oldest, up to the batch size.
OldestOf(set) == {t \in set : Cardinality({u \in set : Older(u, t)}) < Batch}

\* What a page's tickets are in the session: one of the page before keeps the
\* columns it was loaded with.
Loaded(s, set) ==
    [t \in Tix |-> CASE t \notin set -> NoTix
                     [] t \in set /\ sweeps[s].held[t].created # Never -> sweeps[s].held[t]
                     [] OTHER -> tix[t]]

\* What a page of tickets calls for.
CalledFor(rows, policy, now) ==
    {<<k, DueAt(k[2][1], rows[k[1]], policy)>> :
        k \in {j \in AlertKeys : /\ rows[j[1]].created # Never
                                 /\ j[2] \in Warranted(rows[j[1]], policy, now)}}

\* find_pending for one priority, each row at once held against the policy.
Page(s, p) ==
    LET policy == sweeps[s].under[p]
        rows == Loaded(s, OldestOf(Pending(p, policy, sweeps[s].at)))
    IN /\ sweeps[s].pc = "running" /\ p \in sweeps[s].left
       /\ sweeps' = [sweeps EXCEPT ![s] =
             [@ EXCEPT !.pc = "paged", !.left = sweeps[s].left \ {p}, !.held = rows,
                       !.page = CalledFor(rows, policy, sweeps[s].at)]]
       /\ UNCHANGED <<time, policies, tix, writes, landed, alerts, deaths>>

\* index_alerts: whether find_alerts returns an event of this timer and kind.
Recorded(key) == alerts[key].count > 0

\* find_alerts and due_alerts, of the page.
Unrecorded(s) ==
    {d \in sweeps[s].page : ~ Recorded(d[1]) /\ \A e \in sweeps[s].due : e[1] # d[1]}

\* ... what is neither recorded yet nor staged is to be;
\* the query flushes what is staged before it reads.
Match(s) ==
    /\ sweeps[s].pc = "paged"
    /\ sweeps' = [sweeps EXCEPT ![s] =
          [@ EXCEPT !.pc = "running", !.page = {},
                    !.held = IF sweeps[s].left = {} THEN Asleep.held ELSE sweeps[s].held,
                    !.due = sweeps[s].due \cup Unrecorded(s)]]
    /\ UNCHANGED <<time, policies, tix, writes, landed, alerts, deaths>>

\* What a sweep staged for a timer and kind: the due_at of each event.
DuesOf(s, k) == {d[2] : d \in {e \in sweeps[s].due : e[1] = k}}

\* The one commit of a sweep: every event with the due_at it carries.
Record(s) ==
    /\ sweeps[s].pc = "running" /\ sweeps[s].left = {}
    /\ alerts' = [k \in AlertKeys |->
          [count |-> alerts[k].count + Cardinality(DuesOf(s, k)),
           due |-> IF alerts[k].count = 0 /\ DuesOf(s, k) # {}
                   THEN CHOOSE d \in DuesOf(s, k) : TRUE ELSE alerts[k].due]]
    /\ sweeps' = [sweeps EXCEPT ![s] = Asleep]
    /\ UNCHANGED <<time, policies, tix, writes, landed, deaths>>

\* The worker dies, or the task fails, before the commit.
Perish(s) ==
    /\ sweeps[s].pc # "idle" /\ deaths < Deaths
    /\ deaths' = deaths + 1
    /\ sweeps' = [sweeps EXCEPT ![s] = Asleep]
    /\ UNCHANGED <<time, policies, tix, writes, landed, alerts>>

Pass ==
    /\ time < Horizon /\ time' = time + 1
    /\ UNCHANGED <<policies, tix, writes, landed, alerts, sweeps, deaths>>

-----------------------------------------------------------------------------
SlaInit ==
    /\ time = 0 /\ policies = FirstPolicy
    /\ tix = [t \in Tix |-> NoTix]
    /\ writes = [r \in Staff |-> NoWrite]
    /\ landed = [t \in Tix |-> [timer \in Timers |-> Never]]
    /\ alerts = [k \in AlertKeys |-> [count |-> 0, due |-> 0]]
    /\ sweeps = [s \in Sweeps |-> Asleep]
    /\ deaths = 0

SweepStep(s) ==
    BeginSweep(s) \/ Match(s) \/ Record(s) \/ \E p \in Priorities : Page(s, p)

SlaNext ==
    \/ Pass
    \/ \E t \in Tix, p \in Priorities, born \in 0 .. time : Arrive(t, p, born)
    \/ \E r \in Staff, t \in Tix :
          \/ FirstAnswer(r, t) \/ Resolve(r, t) \/ CloseTicket(r, t) \/ ReopenTicket(r, t)
          \/ \E p \in Priorities : Reprioritise(r, t, p)
    \/ \E r \in Staff : Fail(r) \/ \E at \in 0 .. time : CommitRow(r, at)
    \/ \E p \in Priorities : \E new \in Policies[p] : EditPolicy(p, new)
    \/ \E s \in Sweeps : SweepStep(s) \/ Perish(s)

SlaSpec == SlaInit /\ [][SlaNext]_slaVars

\* beat queues a sweep every few minutes and a worker runs it.
SlaFair == \A s \in Sweeps : WF_slaVars(SweepStep(s))

SlaFairSpec == SlaSpec /\ SlaFair

-----------------------------------------------------------------------------
\* The sweeps that have staged an event.
Staging(k) == {s \in Sweeps : \E d \in sweeps[s].due : d[1] = k}

\* "Nothing fires twice", however often a sweep dies and starts again, and at
\* most once for each of the sweeps that run at a time: only one that looked
\* before the first alert was committed can repeat it.
RepeatsNeedOverlap ==
    \A k \in AlertKeys : alerts[k].count + Cardinality(Staging(k)) <= Cardinality(Sweeps)

\* A breach on the record is one: the due_at it carries has passed, and what
\* stopped the timer since, if anything, was not committed before it, whatever
\* was answered, resolved, reprioritised or edited while the sweeps ran.  (It may
\* have been dated before it: a sweep does not see a reply that is not committed.)
BreachIsEarned ==
    \A t \in Tix, timer \in Timers :
       LET a == alerts[<<t, <<timer, "breached">>>>] IN
       a.count > 0 => /\ a.due <= time
                      /\ StoppedAt(timer, tix[t]) # Never => landed[t][timer] >= a.due

\* A response that is late.
Late(t) ==
    /\ tix[t].created # Never /\ IsOpen(tix[t]) /\ policies[tix[t].priority].active
    /\ TimerState("response", tix[t], policies[tix[t].priority], time) = "breached"

\* Fewer than a batch of older tickets of its priority are still open.
Reached(t) ==
    Cardinality({u \in Tix : /\ tix[u].created # Never /\ IsOpen(tix[u])
                             /\ tix[u].priority = tix[t].priority /\ Older(u, t)}) < Batch

Standing == <<policies, [t \in Tix |-> tix[t].priority]>>

\* A response that is late gets its breach recorded, unless the ticket ends first
\* or older ones fill the batch.  It takes policies and priorities that come to
\* rest: a ticket moved to the priority a sweep has passed already is not seen by
\* it.
LateIsRecorded ==
    <>[][UNCHANGED Standing]_slaVars =>
       \A t \in Tix : Late(t) ~> \/ Recorded(<<t, <<"response", "breached">>>>)
                                 \/ ~ Late(t) \/ ~ Reached(t)

\* find_pending: a tenant with more overdue tickets than the limit "should take
\* several sweep cycles to work through them".
BacklogIsWorkedThrough ==
    <>[][UNCHANGED Standing]_slaVars =>
       \A t \in Tix : Late(t) ~> Recorded(<<t, <<"response", "breached">>>>) \/ ~ Late(t)

-----------------------------------------------------------------------------
\* What holds of any sweeps and requests, however they overlap.
SlaInv == SlaTypeOK /\ RepeatsNeedOverlap /\ BreachIsEarned
=============================================================================
