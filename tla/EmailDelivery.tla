--------------------------- MODULE EmailDelivery ---------------------------
(***************************************************************************)
(* From a committed notification to the mail server: who an SLA alert or a *)
(* finished analysis is for, the queueing after the commit                 *)
(* (services/notification_service.py), and the delivery task with its      *)
(* retries (workers/email_tasks.py, core/mail.py).  The broker hands a     *)
(* message out again when its worker is lost, and may do so while the      *)
(* worker is still at it.  A notification is the pair of the event it is   *)
(* about and its reader.  Who a ticket event is for is TicketLifecycle's.  *)
(***************************************************************************)
EXTENDS Naturals, FiniteSets

CONSTANTS
    Occasions,  \* bound: how many events are notified
    Readers,    \* the accounts of the organization
    Managers,   \* the ones an SLA alert goes to besides the assignee
    NoReader,   \* an unassigned ticket
    Postmen,    \* worker processes on the notifications queue
    MaxTries,   \* max_retries
    MailFaults      \* bound: lost workers, and messages handed out twice

ASSUME MailAssumption ==
    /\ Occasions # {} /\ Readers # {}
    /\ Managers \subseteq Readers /\ NoReader \notin Readers
    /\ MaxTries \in Nat /\ MailFaults \in Nat

VARIABLES
    onDuty,    \* is_active of each account
    announced, \* per event: nothing yet, committed and to be queued, or done
    notices,   \* the rows of notifications
    post,      \* messages in the queue, with the attempt they are
    postmen,   \* the workers
    faults

mailVars == <<onDuty, announced, notices, post, postmen, faults>>

Notices == Occasions \X Readers

\* sent: e-mails the server took.  end: how the delivery of the notice ended.
Notice == [there : BOOLEAN, emailed : BOOLEAN, sent : Nat,
           end : {"none", "delivered", "refused", "exhausted", "off", "raised"}]

Letter == [to : Notices, try : 0 .. MaxTries]

NoLetter == [to |-> <<CHOOSE o \in Occasions : TRUE, CHOOSE u \in Readers : TRUE>>,
             try |-> 0]

Postman == [pc : {"idle", "taken", "loaded", "sent"}, letter : Letter]

MailTypeOK ==
    /\ onDuty \in [Readers -> BOOLEAN]
    /\ announced \in [Occasions -> [pc : {"none", "committed", "done"}, for : SUBSET Readers]]
    /\ notices \in [Notices -> Notice]
    /\ post \subseteq Letter
    /\ postmen \in [Postmen -> Postman]
    /\ faults \in 0 .. MailFaults

-----------------------------------------------------------------------------
\* notify_sla_alert: the assignee, active or not, and the active managers, each
\* once; notify_analysis_completed: the assignee, if any; notify_for_event: whom
\* the ticket event is for.
Audiences(kind, agent) ==
    CASE kind = "sla" -> {({agent} \ {NoReader}) \cup {m \in Managers : onDuty[m]}}
      [] kind = "analysis" -> {{agent} \ {NoReader}}
      [] kind = "ticket" -> SUBSET Readers

\* The commit of the event with its notifications.
AnnounceAlert(o, kind, agent) ==
    \E for \in Audiences(kind, agent) :
       /\ announced[o].pc = "none"
       /\ announced' = [announced EXCEPT ![o] = [pc |-> "committed", for |-> for]]
       /\ notices' = [n \in Notices |->
             IF n[1] = o /\ n[2] \in for THEN [notices[n] EXCEPT !.there = TRUE]
             ELSE notices[n]]
       /\ UNCHANGED <<onDuty, post, postmen, faults>>

\* enqueue_delivery, one notification: a broker that refuses the message leaves
\* the row, and the next one's turn comes.
Mail(o, u) ==
    /\ announced[o].pc = "committed" /\ u \in announced[o].for
    /\ announced' = [announced EXCEPT ![o].for = @ \ {u}]
    /\ post' \in {post, post \cup {[to |-> <<o, u>>, try |-> 0]}}
    /\ UNCHANGED <<onDuty, notices, postmen, faults>>

\* ... all of them had their turn, or the process stopped half way.
Mailed(o) ==
    /\ announced[o].pc = "committed"
    /\ announced' = [announced EXCEPT ![o] = [pc |-> "done", for |-> {}]]
    /\ UNCHANGED <<onDuty, notices, post, postmen, faults>>

Rest(w) == postmen' = [postmen EXCEPT ![w] = [pc |-> "idle", letter |-> NoLetter]]

Goes(w, pc) == postmen' = [postmen EXCEPT ![w].pc = pc]

Take(w, m) ==
    /\ postmen[w].pc = "idle" /\ m \in post
    /\ post' = post \ {m}
    /\ postmen' = [postmen EXCEPT ![w] = [pc |-> "taken", letter |-> m]]
    /\ UNCHANGED <<onDuty, announced, notices, faults>>

End(n, how) == notices' = [notices EXCEPT ![n].end = how]

\* _deliver: the row and its user; no row, an e-mail already sent, or an
\* account that is not active end it.
LoadNotice(w) ==
    LET n == postmen[w].letter.to IN
    /\ postmen[w].pc = "taken"
    /\ IF ~ notices[n].there \/ notices[n].emailed THEN UNCHANGED notices /\ Rest(w)
       ELSE IF ~ onDuty[n[2]] THEN End(n, "off") /\ Rest(w)
       ELSE UNCHANGED notices /\ Goes(w, "loaded")
    /\ UNCHANGED <<onDuty, announced, post, faults>>

\* send_email: the server takes the message.
Sends(w) ==
    LET n == postmen[w].letter.to IN
    /\ postmen[w].pc = "loaded"
    /\ notices' = [notices EXCEPT ![n].sent = @ + 1]
    /\ Goes(w, "sent")
    /\ UNCHANGED <<onDuty, announced, post, faults>>

SlipIsTransient(fault) == TRUE

\* What send_email raises: only a connection that could not be made is worth
\* another attempt; every SMTPException is final.
IsTransient(fault) == fault = "unreachable"

\* A failure, by what had happened to the message: unreachable and refused ones
\* did not go out, while a server lost after its data, or failing the QUIT, may
\* have taken it.  A transient one is queued again as the next attempt.
Fails(w, fault) ==
    LET m == postmen[w].letter  n == m.to IN
    /\ postmen[w].pc = "loaded"
    /\ Rest(w)
    /\ post' = IF IsTransient(fault) /\ m.try < MaxTries
                 THEN post \cup {[m EXCEPT !.try = @ + 1]} ELSE post
    /\ notices' = [notices EXCEPT
          ![n].sent = IF fault = "lost" THEN @ + 1 ELSE @,
          ![n].end = IF ~ IsTransient(fault) THEN "refused"
                     ELSE IF m.try = MaxTries THEN "exhausted" ELSE @]
    /\ UNCHANGED <<onDuty, announced, faults>>

\* emailed_at is stamped and committed; the message is acknowledged.
Stamp(w) ==
    LET n == postmen[w].letter.to IN
    /\ postmen[w].pc = "sent"
    /\ notices' = [notices EXCEPT ![n].emailed = TRUE, ![n].end = "delivered"]
    /\ Rest(w)
    /\ UNCHANGED <<onDuty, announced, post, faults>>

\* The task raises outside send_email (the database fails at the load or at the
\* stamp, the broker refuses the retry) or meets a time limit, maybe while the
\* server takes the message.  It is acknowledged all the same, and not retried.
Raises(w) ==
    LET n == postmen[w].letter.to IN
    /\ postmen[w].pc # "idle"
    /\ \E out \in {FALSE, postmen[w].pc = "loaded"} :
          notices' = [notices EXCEPT ![n].sent = IF out THEN @ + 1 ELSE @,
                                     ![n].end = IF @ = "none" THEN "raised" ELSE @]
    /\ Rest(w)
    /\ UNCHANGED <<onDuty, announced, post, faults>>

SlipLost(w) ==
    /\ postmen[w].pc # "idle" /\ faults < MailFaults /\ faults' = faults + 1
    /\ UNCHANGED post
    /\ Rest(w)
    /\ UNCHANGED <<onDuty, announced, notices>>

\* task_acks_late, task_reject_on_worker_lost: the message of a lost worker goes
\* back to the queue.
Lost(w) ==
    /\ postmen[w].pc # "idle" /\ faults < MailFaults /\ faults' = faults + 1
    /\ post' = post \cup {postmen[w].letter}
    /\ Rest(w)
    /\ UNCHANGED <<onDuty, announced, notices>>

\* The broker gives up on a connection and hands the message out again, its
\* worker still at it.
HandOutAgain(w) ==
    /\ postmen[w].pc # "idle" /\ faults < MailFaults /\ faults' = faults + 1
    /\ post' = post \cup {postmen[w].letter}
    /\ UNCHANGED <<onDuty, announced, notices, postmen>>

\* deactivate_user.
GoOff(u) ==
    /\ onDuty[u] /\ onDuty' = [onDuty EXCEPT ![u] = FALSE]
    /\ UNCHANGED <<announced, notices, post, postmen, faults>>

-----------------------------------------------------------------------------
MailInit ==
    /\ onDuty = [u \in Readers |-> TRUE]
    /\ announced = [o \in Occasions |-> [pc |-> "none", for |-> {}]]
    /\ notices = [n \in Notices |-> [there |-> FALSE, emailed |-> FALSE, sent |-> 0,
                                     end |-> "none"]]
    /\ post = {}
    /\ postmen = [w \in Postmen |-> [pc |-> "idle", letter |-> NoLetter]]
    /\ faults = 0

PostmanStep(w) ==
    \/ \E m \in post : Take(w, m)
    \/ LoadNotice(w) \/ Sends(w) \/ Stamp(w)
    \/ \E f \in {"unreachable", "refused", "lost"} : Fails(w, f)

MailNext ==
    \/ \E u \in Readers : GoOff(u)
    \/ \E o \in Occasions :
          \/ Mailed(o) \/ \E u \in Readers : Mail(o, u)
          \/ \E kind \in {"sla", "analysis", "ticket"}, agent \in Readers \cup {NoReader} :
                AnnounceAlert(o, kind, agent)
    \/ \E w \in Postmen : PostmanStep(w) \/ Raises(w) \/ Lost(w) \/ HandOutAgain(w)

MailSpec == MailInit /\ [][MailNext]_mailVars

\* A worker process that is there works, and finishes what it has begun.
MailFair == \A w \in Postmen : WF_mailVars(PostmanStep(w))

MailFairSpec == MailSpec /\ MailFair

-----------------------------------------------------------------------------
\* "At least once", as far as it goes: a message that was queued is settled, whatever
\* workers are lost on the way: the e-mail went out, the server refused it, it could
\* not be reached MaxTries times, its reader has been deactivated, or the task
\* raised.  (The row of that one says "not sent", and nothing looks for such rows.)
QueuedIsSettled ==
    \A n \in Notices : (\E m \in post : m.to = n) ~> notices[n].end # "none"

\* A second e-mail takes a lost worker or a message handed out twice: attempts
\* that are retried have not reached the server.
NoDuplicateWithoutFault == \A n \in Notices : notices[n].sent <= 1 + faults

\* What may still reach the server about a notice: its messages in the queue,
\* the workers that have one and did not send it, and the queueing to come.
InPost(n) == {m \in post : m.to = n}
Carriers(n) ==
    {w \in Postmen : postmen[w].pc \in {"taken", "loaded"} /\ postmen[w].letter.to = n}
ToQueue(n) ==
    IF announced[n[1]].pc = "committed" /\ n[2] \in announced[n[1]].for THEN 1 ELSE 0

\* Each fault adds one attempt to the one a notice has, and nothing else does.
AttemptsAddUp ==
    \A n \in Notices :
       /\ IsFiniteSet(InPost(n)) /\ IsFiniteSet(Carriers(n))
       /\ notices[n].sent + Cardinality(InPost(n)) + Cardinality(Carriers(n)) + ToQueue(n)
             <= 1 + faults

\* Nothing is known of an event that is not announced, and nothing was sent of a
\* notice that is not there.
AnnouncedFirst ==
    \A n \in Notices :
       /\ announced[n[1]].pc = "none" => ~ notices[n].there
       /\ ToQueue(n) = 1 => notices[n].there
       /\ ~ notices[n].there => notices[n].sent = 0

\* What is queued is committed, and a notice that says e-mailed was.
MailInv ==
    /\ MailTypeOK /\ NoDuplicateWithoutFault /\ AttemptsAddUp /\ AnnouncedFirst
    /\ \A w \in Postmen : postmen[w].pc # "idle" => notices[postmen[w].letter.to].there
    /\ \A m \in post : notices[m.to].there
    /\ \A n \in Notices : notices[n].emailed => notices[n].sent > 0
    /\ \A w \in Postmen : postmen[w].pc = "sent" => notices[postmen[w].letter.to].sent > 0
=============================================================================
