--------------------------- MODULE AnalysisClaims ---------------------------
(***************************************************************************)
(* The AI analyses of one ticket: asked for by API requests, carried by a  *)
(* broker that delivers at least once, run by workers that may die, and    *)
(* swept by the reaper when a claim outlives every possible run            *)
(* (services/ai_analysis_service.py, repositories/ai_repository.py,        *)
(* workers/ai_tasks.py, workers/maintenance_tasks.py).                     *)
(*                                                                         *)
(* A row of ai_analyses goes pending -> processing -> completed | failed.  *)
(* The claim is one conditional UPDATE and commits on its own; each        *)
(* operation's outcome is a later commit; a worker may disappear between   *)
(* any two.  Time is kept as ages that stop counting once they exceed what *)
(* anybody compares them with, so the clock never has to stop.             *)
(***************************************************************************)
EXTENDS Naturals, FiniteSets

CONSTANTS
    Analyses,        \* rows of the table; bound: how many are ever written
    Operations,      \* AIOperation
    Asks,            \* the operations one endpoint asks for together
    TicketText,      \* ANALYSIS_OPERATIONS: those that fill ticket columns
    Requests,        \* API requests in flight together
    Workers,         \* worker processes
    HardLimit,       \* CELERY_TASK_TIME_LIMIT_SECONDS
    AbandonedAfter,  \* ABANDONED_CLAIM_AFTER_SECONDS
    Faults           \* whether broker, database and processes may fail here

ASSUME AskAssumption ==
    /\ Asks \subseteq SUBSET Operations
    /\ TicketText \subseteq Operations
    /\ Operations # {}
ASSUME FaultAssumption == Faults \in BOOLEAN
ASSUME LimitAssumption ==
    /\ HardLimit \in Nat \ {0}
    /\ AbandonedAfter \in Nat
    /\ HardLimit < AbandonedAfter

VARIABLES
    rows,     \* the table
    calls,    \* the API requests, one record each
    queue,    \* messages the broker holds until they are acknowledged
    workers,  \* the worker processes, one record each
    asked,    \* analyses whose question was put to the provider
    told      \* the AI_ANALYSIS_COMPLETED entries of the timeline

vars == <<rows, calls, queue, workers, asked, told>>

Statuses == {"none", "pending", "processing", "completed", "failed"}
Ages == 0 .. AbandonedAfter + 1

NoCall == [pc |-> "idle", ops |-> {}, ids |-> {}]
Resting == [pc |-> "idle", msg |-> {}, todo |-> {}, on |-> {},
            done |-> {}, age |-> 0]

Row == [status : Statuses, op : Operations, age : Ages]

Call == [pc : {"idle", "looked", "written"},
         ops : SUBSET Operations, ids : SUBSET Analyses]

\* A worker and its run: the message it holds, the rows it claimed and still
\* has to answer, the one it is asking about, the ones that completed, and the
\* seconds since the message was received.
Worker == [pc : {"idle", "received", "claimed", "calling", "announced"},
           msg : SUBSET Analyses, todo : SUBSET Analyses, on : SUBSET Analyses,
           done : SUBSET Analyses, age : 0 .. HardLimit]

TypeOK ==
    /\ rows \in [Analyses -> Row]
    /\ calls \in [Requests -> Call]
    /\ queue \subseteq SUBSET Analyses
    /\ workers \in [Workers -> Worker]
    /\ asked \subseteq Analyses
    /\ told \subseteq [ids : SUBSET Analyses, alert : BOOLEAN]

-----------------------------------------------------------------------------
(* Definitions named Slip... are not the code: each is a neighbouring      *)
(* definition with one plausible mistake, kept to show which property      *)
(* sees it.                                                                *)
(*                                                                         *)
(* The request: look, write, enqueue                                       *)

InFlight == {a \in Analyses : rows[a].status \in {"pending", "processing"}}

\* in_flight_analyses; a request that finds everything on its way returns.
Look(r, ops) ==
    LET missing == ops \ {rows[a].op : a \in InFlight} IN
    /\ calls[r].pc = "idle"
    /\ missing # {}
    /\ calls' = [calls EXCEPT ![r] =
                    [pc |-> "looked", ops |-> missing, ids |-> {}]]
    /\ UNCHANGED <<rows, queue, workers, asked, told>>

\* One new pending row for every operation that was missing, in one commit.
Write(r) ==
    /\ calls[r].pc = "looked"
    /\ \E ids \in SUBSET {a \in Analyses : rows[a].status = "none"} :
       \E op \in [ids -> calls[r].ops] :
         /\ {op[a] : a \in ids} = calls[r].ops
         /\ \A a, b \in ids : op[a] = op[b] => a = b
         /\ rows' = [a \in Analyses |->
                        IF a \in ids
                          THEN [status |-> "pending", op |-> op[a], age |-> 0]
                          ELSE rows[a]]
         /\ calls' = [calls EXCEPT ![r].pc = "written", ![r].ids = ids]
    /\ UNCHANGED <<queue, workers, asked, told>>

\* enqueue_analysis: one message with the ids of the rows just committed.  A
\* broker that is down is logged; the rows stay pending.
Enqueue(r) ==
    /\ calls[r].pc = "written"
    /\ \/ queue' = queue \cup {calls[r].ids}
       \/ Faults /\ queue' = queue
    /\ calls' = [calls EXCEPT ![r] = NoCall]
    /\ UNCHANGED <<rows, workers, asked, told>>

\* The API process dies: an open transaction rolls back, written rows stand.
Abort(r) ==
    /\ Faults
    /\ calls[r].pc # "idle"
    /\ calls' = [calls EXCEPT ![r] = NoCall]
    /\ UNCHANGED <<rows, queue, workers, asked, told>>

-----------------------------------------------------------------------------
(* The worker: receive, claim, one call and one commit per operation,      *)
(* announce, acknowledge                                                   *)

\* The broker hands an unacknowledged message to an idle worker.  One that
\* another worker still holds is handed over again only after a fault (a lost
\* connection restores what was unacknowledged).
Deliver(w, m) ==
    /\ workers[w].pc = "idle"
    /\ m \in queue
    /\ Faults \/ \A v \in Workers : workers[v].pc = "idle" \/ workers[v].msg # m
    /\ workers' = [workers EXCEPT ![w] =
                      [Resting EXCEPT !.pc = "received", !.msg = m]]
    /\ UNCHANGED <<rows, calls, queue, asked, told>>

SlipClaim(w) ==
    LET taken == {a \in workers[w].msg :
                    rows[a].status \in {"pending", "processing"}} IN
    /\ workers[w].pc = "received"
    /\ rows' = [a \in Analyses |->
                   IF a \in taken THEN [rows[a] EXCEPT !.status = "processing",
                                                       !.age = workers[w].age]
                                  ELSE rows[a]]
    /\ workers' = [workers EXCEPT
                      ![w].pc = IF taken = {} THEN "announced" ELSE "claimed",
                      ![w].todo = taken]
    /\ UNCHANGED <<calls, queue, asked, told>>

\* claim_pending_analyses and its commit: UPDATE ... WHERE status = 'pending'
\* RETURNING id.  updated_at is the start of the transaction, which the run
\* opened before the claim.  A run that took nothing goes straight to its end.
Claim(w) ==
    LET taken == {a \in workers[w].msg : rows[a].status = "pending"} IN
    /\ workers[w].pc = "received"
    /\ rows' = [a \in Analyses |->
                   IF a \in taken THEN [rows[a] EXCEPT !.status = "processing",
                                                       !.age = workers[w].age]
                                  ELSE rows[a]]
    /\ workers' = [workers EXCEPT
                      ![w].pc = IF taken = {} THEN "announced" ELSE "claimed",
                      ![w].todo = taken]
    /\ UNCHANGED <<calls, queue, asked, told>>

\* _execute puts the question of the next claimed analysis to the provider.
Ask(w, a) ==
    /\ workers[w].pc = "claimed"
    /\ a \in workers[w].todo
    /\ asked' = asked \cup {a}
    /\ workers' = [workers EXCEPT ![w].pc = "calling", ![w].on = {a}]
    /\ UNCHANGED <<rows, calls, queue, told>>

SlipFinish(w, outcome) ==
    /\ workers[w].pc = "calling"
    /\ rows' = [a \in Analyses |->
                   IF a \in workers[w].on
                     THEN [rows[a] EXCEPT !.status = outcome, !.age = 0]
                     ELSE rows[a]]
    /\ workers' = [workers EXCEPT ![w].pc = "claimed", ![w].on = {},
                                  ![w].todo = @ \ workers[w].on,
                                  ![w].done = @ \cup workers[w].on]
    /\ UNCHANGED <<calls, queue, asked, told>>

\* _complete or _fail, then the operation's own commit: an UPDATE by primary
\* key, whatever the row's status has become.
Finish(w, outcome) ==
    /\ workers[w].pc = "calling"
    /\ rows' = [a \in Analyses |->
                   IF a \in workers[w].on
                     THEN [rows[a] EXCEPT !.status = outcome, !.age = 0]
                     ELSE rows[a]]
    /\ workers' = [workers EXCEPT
                      ![w].pc = "claimed", ![w].on = {},
                      ![w].todo = @ \ workers[w].on,
                      ![w].done = IF outcome = "completed"
                                    THEN @ \cup workers[w].on ELSE @]
    /\ UNCHANGED <<calls, queue, asked, told>>

\* The closing commit: one timeline entry for what this run completed, with an
\* alert to the assignee when a ticket column changed.  Nothing is written
\* when nothing succeeded.
Announce(w) ==
    LET done == workers[w].done IN
    /\ workers[w].pc = "claimed"
    /\ workers[w].todo = {}
    /\ told' = IF done = {} THEN told
               ELSE told \cup {[ids |-> done,
                                alert |-> \E a \in done : rows[a].op \in TicketText]}
    /\ workers' = [workers EXCEPT ![w].pc = "announced"]
    /\ UNCHANGED <<rows, calls, queue, asked>>

\* acks_late: the message is acknowledged when the task returns.
Acknowledge(w) ==
    /\ workers[w].pc = "announced"
    /\ queue' = queue \ {workers[w].msg}
    /\ workers' = [workers EXCEPT ![w] = Resting]
    /\ UNCHANGED <<rows, calls, asked, told>>

\* The worker process is lost: its open transaction rolls back and the message
\* is requeued (task_reject_on_worker_lost).
Die(w) ==
    /\ Faults
    /\ workers[w].pc # "idle"
    /\ workers' = [workers EXCEPT ![w] = Resting]
    /\ UNCHANGED <<rows, calls, queue, asked, told>>

\* The task raises (the database refuses a statement): the message of a failed
\* task is acknowledged.
Raise(w) ==
    /\ Faults
    /\ workers[w].pc # "idle"
    /\ queue' = queue \ {workers[w].msg}
    /\ workers' = [workers EXCEPT ![w] = Resting]
    /\ UNCHANGED <<rows, calls, asked, told>>

\* The hard time limit kills the process; a task that timed out is acknowledged.
TimeOut(w) ==
    /\ workers[w].pc # "idle"
    /\ workers[w].age = HardLimit
    /\ queue' = queue \ {workers[w].msg}
    /\ workers' = [workers EXCEPT ![w] = Resting]
    /\ UNCHANGED <<rows, calls, asked, told>>

-----------------------------------------------------------------------------
(* The sweep and the clock *)

SlipAbandoned == {a \in Analyses : /\ rows[a].status = "processing"
                                   /\ rows[a].age >= HardLimit}

Abandoned == {a \in Analyses : /\ rows[a].status = "processing"
                               /\ rows[a].age > AbandonedAfter}

SlipReap ==
    /\ Abandoned # {}
    /\ rows' = [a \in Analyses |->
                   IF a \in Abandoned THEN [rows[a] EXCEPT !.status = "pending", !.age = 0]
                                      ELSE rows[a]]
    /\ UNCHANGED <<calls, queue, workers, asked, told>>

\* fail_abandoned_claims: every claim older than the threshold, in one UPDATE.
Reap ==
    /\ Abandoned # {}
    /\ rows' = [a \in Analyses |->
                   IF a \in Abandoned THEN [rows[a] EXCEPT !.status = "failed", !.age = 0]
                                      ELSE rows[a]]
    /\ UNCHANGED <<calls, queue, workers, asked, told>>

\* A second passes.  No task outlives the hard limit; when nothing is at fault,
\* only a provider's answer takes time.
Tick ==
    /\ \A w \in Workers : workers[w].pc # "idle" => workers[w].age < HardLimit
    /\ Faults \/ \A w \in Workers : workers[w].pc \in {"idle", "calling"}
    /\ rows' = [a \in Analyses |->
                   IF rows[a].status = "processing" /\ rows[a].age <= AbandonedAfter
                     THEN [rows[a] EXCEPT !.age = @ + 1] ELSE rows[a]]
    /\ workers' = [w \in Workers |->
                      IF workers[w].pc = "idle" THEN workers[w]
                      ELSE [workers[w] EXCEPT !.age = @ + 1]]
    /\ UNCHANGED <<calls, queue, asked, told>>

-----------------------------------------------------------------------------
Init ==
    /\ rows = [a \in Analyses |-> [status |-> "none", age |-> 0,
                                   op |-> CHOOSE o \in Operations : TRUE]]
    /\ calls = [r \in Requests |-> NoCall]
    /\ queue = {}
    /\ workers = [w \in Workers |-> Resting]
    /\ asked = {}
    /\ told = {}

Request(r) == (\E ops \in Asks : Look(r, ops)) \/ Write(r) \/ Enqueue(r)

Run(w) == \/ Claim(w)
          \/ \E a \in Analyses : Ask(w, a)
          \/ \E outcome \in {"completed", "failed"} : Finish(w, outcome)
          \/ Announce(w) \/ Acknowledge(w)

Next ==
    \/ \E r \in Requests : Request(r) \/ Abort(r)
    \/ \E w \in Workers :
          (\E m \in queue : Deliver(w, m)) \/ Run(w)
            \/ Die(w) \/ Raise(w) \/ TimeOut(w)
    \/ Reap \/ Tick

Spec == Init /\ [][Next]_vars

\* A request that began goes on, the broker hands out what it holds, a worker
\* that is alive makes progress or runs into its time limit, time passes and
\* beat runs the sweep.  Nothing makes anybody ask, and nothing makes a fault
\* happen or not happen.
Fair ==
    /\ \A r \in Requests : WF_vars(Write(r)) /\ WF_vars(Enqueue(r))
    /\ \A w \in Workers :
          /\ WF_vars(\E m \in queue : Deliver(w, m))
          /\ WF_vars(Run(w))
          /\ WF_vars(TimeOut(w))
    /\ WF_vars(Tick)
    /\ WF_vars(Reap)

FairSpec == Spec /\ Fair

-----------------------------------------------------------------------------
(* Safety, whatever fails and whatever is delivered again *)

\* No analysis is put to the provider a second time: a redelivery, another
\* worker on the same message or a restart never pays twice for one question
\* (the conditional UPDATE of the claim).
AskedOnce ==
    [][\A w \in Workers :
          workers'[w].on # workers[w].on => workers'[w].on \cap asked = {}]_vars

\* A worker works only on rows that are its own and still marked processing:
\* the sweep never fails a claim somebody is working on, and two workers
\* never hold the same row.
ClaimsAreExclusive ==
    /\ \A w \in Workers : \A a \in workers[w].todo :
          rows[a].status = "processing"
    /\ \A v, w \in Workers : v # w => workers[v].todo \cap workers[w].todo = {}

\* An outcome stands: a completed or failed row never changes again, although
\* outcomes are written by primary key without looking at the status.
OutcomeStands ==
    [][\A a \in Analyses :
          rows[a].status \in {"completed", "failed"} => rows'[a] = rows[a]]_vars

\* The timeline names an analysis at most once, and only one that completed:
\* a run that died after its last commit, a redelivery of its message or a
\* provider failure never leaves a false or a second entry.
TimelineNamesCompleted ==
    /\ \A e \in told : \A a \in e.ids : rows[a].status = "completed"
    /\ \A e, f \in told : e # f => e.ids \cap f.ids = {}

-----------------------------------------------------------------------------
(* Liveness *)

\* A claim ends: whatever happens to the worker, the row reaches an outcome,
\* so the in-flight guard cannot refuse the operation for ever.
ClaimsEnd ==
    \A a \in Analyses :
        rows[a].status = "processing" ~> rows[a].status \in {"completed", "failed"}

\* The work is only late: a row that is pending is picked up by a worker.
PendingIsPickedUp ==
    \A a \in Analyses : rows[a].status = "pending" ~> rows[a].status # "pending"

-----------------------------------------------------------------------------
(* The inductive invariant *)

\* A run: the claim is no older than the run that holds it, the only claimed
\* analysis already asked about is the one being asked about, and what it
\* completed is told by its own closing commit and by nobody else's.
RunInv(w) ==
    LET k == workers[w] IN
    /\ \A a \in k.todo : rows[a].age <= k.age
    /\ k.on \subseteq k.todo
    /\ k.pc # "calling" => k.on = {}
    /\ k.todo \cap asked \subseteq k.on
    /\ k.pc \notin {"claimed", "calling"} => k.todo = {}
    /\ k.pc \in {"idle", "received"} => k.done = {}
    /\ \A a \in k.done : rows[a].status = "completed"
    /\ k.pc # "announced" => \A e \in told : e.ids \cap k.done = {}

\* What the safety properties rest on: how long a claim and its run have
\* lasted, who already asked, and which run tells what.
ClaimInv ==
    /\ ClaimsAreExclusive
    /\ TimelineNamesCompleted
    /\ \A a \in asked : rows[a].status \notin {"none", "pending"}
    /\ \A w \in Workers : RunInv(w)
    /\ \A v, w \in Workers : v # w => workers[v].done \cap workers[w].done = {}
=============================================================================
