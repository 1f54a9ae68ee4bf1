--------------------------- MODULE TicketLifecycle ---------------------------
(***************************************************************************)
(* One ticket, and the HTTP requests that work on it.                      *)
(*                                                                         *)
(* A handler of services/ticket_service.py and services/message_service.py *)
(* reads the ticket once, decides on that copy, and commits later.  The    *)
(* sessions run at READ COMMITTED with autoflush off and no row lock       *)
(* (core/database.py), and SQLAlchemy's UPDATE writes only the columns     *)
(* whose value differs from the loaded one.  So a request is two steps for *)
(* the database: the handler's decision (Assign, ChangeStatus, ...), taken *)
(* on `row' as it is then, and Commit, which writes the columns that       *)
(* changed into `row' as it is by then.  After the commit come the three   *)
(* best-effort steps every handler ends with: Enqueue, Publish,            *)
(* Invalidate.  A refused request (404, 409, no-op) changes nothing and is *)
(* no step.                                                                *)
(***************************************************************************)
EXTENDS Naturals, FiniteSets

CONSTANTS
    Requests,    \* requests that may be in flight together
    Managers,    \* users with the admin or the manager role
    Agents,      \* users with the agent role
    Portal,      \* active portal users of the ticket's customer
    NoUser,      \* assigned_agent_id IS NULL
    Keep,        \* a column the UPDATE does not name
    Priorities,
    Kinds,       \* the operations this instance exercises
    Faults,      \* whether a broker, Redis or a process may fail here
    MaxTime      \* bound: the clock stops here

AllKinds == {"assign", "priority", "status", "close", "reopen", "reply", "note"}
Staff == Managers \cup Agents
Users == Staff \cup Portal

ASSUME UserAssumption ==
    /\ NoUser \notin Users
    /\ Managers \cap Agents = {} /\ Staff \cap Portal = {}
ASSUME KindAssumption == Kinds \subseteq AllKinds
ASSUME FaultAssumption == Faults \in BOOLEAN
ASSUME TimeAssumption == MaxTime \in Nat \ {0}
ASSUME PriorityAssumption == Priorities # {}

VARIABLES
    row,     \* the ticket's row, as committed
    req,     \* the requests in flight
    clock,   \* the server's clock; 0 is NULL in a timestamp column
    replied, \* a public reply by staff is in the messages table
    story,   \* what folding the timeline's entries in commit order tells
    inbox,   \* the committed notification rows
    queued,  \* the notifications handed to the e-mail queue
    fresh,   \* no analytics answer older than the last commit is current
    stale,   \* history: requests still to commit, and whose loaded copy is out of date:
             \* another request has changed the row since
    torn,    \* history: a commit from such a copy wrote what its handler would not have
             \* decided by then
    outrun   \* history: requests that still have to publish, and whose ticket another
             \* request gave to somebody else since they loaded it

vars == <<row, req, clock, replied, story, inbox, queued, fresh, torn, stale, outrun>>

Statuses == {"open", "assigned", "in_progress", "waiting_for_customer",
             "resolved", "closed"}

Edges == { <<"open", "assigned">>,
           <<"assigned", "in_progress">>,
           <<"in_progress", "waiting_for_customer">>,
           <<"in_progress", "resolved">>,
           <<"waiting_for_customer", "in_progress">>,
           <<"resolved", "closed">>,
           <<"closed", "open">> }

SlipCanTransition(from, to) ==
    <<from, to>> \in Edges \cup {<<"resolved", "in_progress">>}

CanTransition(from, to) == <<from, to>> \in Edges

SlipActionEdges == {"closed", "open"}

\* The targets POST /status refuses: they have endpoints of their own.
ActionEdges == {"assigned", "closed", "open"}

-----------------------------------------------------------------------------
(* Shapes *)

Times == 0 .. MaxTime
Assignees == Users \cup {NoUser}

Row == [status : Statuses, agent : Assignees, priority : Priorities,
        resolvedAt : Times, closedAt : Times, firstResponseAt : Times]

\* What an UPDATE of the row sets: a value or Keep for every column.
Update == [status : Statuses \cup {Keep}, agent : Assignees \cup {Keep},
           priority : Priorities \cup {Keep},
           resolvedAt : Times \cup {Keep}, closedAt : Times \cup {Keep},
           firstResponseAt : Times \cup {Keep}]

ASSUME KeepAssumption ==
    /\ Keep \notin Statuses /\ Keep \notin Assignees
    /\ Keep \notin Priorities /\ Keep \notin Nat

Story == [status : Statuses, agent : Assignees, priority : Priorities]

Notice == [type : {"assigned", "reply", "resolved"}, user : Users]

\* A timeline entry, reduced to the fields a reader can learn from it.
Entry == [type : {"ASSIGNED", "UNASSIGNED"}, agent : Assignees]
           \cup [type : {"STATUS_CHANGED", "REOPENED"}, status : Statuses]
           \cup [type : {"PRIORITY_CHANGED"}, priority : Priorities]
           \cup [type : {"MESSAGE_ADDED", "INTERNAL_NOTE_ADDED"}]

Idle == [pc |-> "idle"]

SlipAfterCommit(kind) == IF kind = "reply" THEN "enqueue" ELSE "publish"

\* The tail of a handler after its commit, by operation.
AfterCommit(kind) == CASE kind = "priority" -> "publish"
                       [] kind = "note"     -> "publish"
                       [] OTHER             -> "enqueue"

Staged == [pc : {"staged"}, kind : AllKinds, by : Users, set : Update,
           agent : Assignees, entry : Entry, notes : SUBSET Notice]

Finishing == [pc : {"enqueue", "publish", "invalidate"}, kind : AllKinds,
         agent : Assignees, notes : SUBSET Notice]

TypeOK ==
    /\ row \in Row
    /\ req \in [Requests -> {Idle} \cup Staged \cup Finishing]
    /\ clock \in 1 .. MaxTime
    /\ replied \in BOOLEAN
    /\ story \in Story
    /\ inbox \subseteq Notice
    /\ queued \subseteq Notice
    /\ fresh \in BOOLEAN
    /\ torn \in BOOLEAN
    /\ stale \subseteq Requests
    /\ outrun \subseteq Requests

-----------------------------------------------------------------------------
(* Definitions named Slip... are not the code: each is a neighbouring          *)
(* definition with one plausible mistake, kept to show which property sees it. *)
(*                                                                             *)
(* Who may ask for what                                                        *)

Allowed(u, kind) ==
    CASE kind \in {"assign", "priority"} -> u \in Managers
      [] kind \in {"status", "note"}     -> u \in Staff
      [] OTHER                           -> u \in Users

\* Row scope: managers see the organization, a portal user her own customer's
\* tickets, an agent the tickets assigned to him.
Visible(u) == u \in Agents => row.agent = u

Received(r, u, kind) ==
    /\ req[r] = Idle
    /\ kind \in Kinds
    /\ Allowed(u, kind)
    /\ Visible(u)

\* notify_for_event: one notice for each recipient but the actor.
Notify(type, recipients, actor) ==
    {[type |-> type, user |-> u] : u \in recipients \ {actor, NoUser}}

SlipColumn(loaded, mine) == mine

\* The UPDATE names a column only when its value differs from the loaded one.
Column(loaded, mine) == IF mine = loaded THEN Keep ELSE mine

Changes(mine) ==
    [status |-> Column(row.status, mine.status),
     agent |-> Column(row.agent, mine.agent),
     priority |-> Column(row.priority, mine.priority),
     resolvedAt |-> Column(row.resolvedAt, mine.resolvedAt),
     closedAt |-> Column(row.closedAt, mine.closedAt),
     firstResponseAt |-> Column(row.firstResponseAt, mine.firstResponseAt)]

SlipStageEarlyAudience(r, u, kind, mine, entry, notes) ==
    /\ req' = [req EXCEPT ![r] =
                  [pc |-> "staged", kind |-> kind, by |-> u,
                   set |-> Changes(mine), agent |-> row.agent,
                   entry |-> entry, notes |-> notes]]
    /\ UNCHANGED <<row, clock, replied, story, inbox, queued, fresh, torn, stale, outrun>>

\* The handler ran on the row as it is now and left `mine': its changes, the
\* timeline entry and the notices wait for the commit.
Stage(r, u, kind, mine, entry, notes) ==
    /\ req' = [req EXCEPT ![r] =
                  [pc |-> "staged", kind |-> kind, by |-> u,
                   set |-> Changes(mine), agent |-> mine.agent,
                   entry |-> entry, notes |-> notes]]
    /\ UNCHANGED <<row, clock, replied, story, inbox, queued, fresh, torn, stale, outrun>>

-----------------------------------------------------------------------------
(* The handlers, up to their commit.  `now' is the clock a handler reads     *)
(* after loading the row: any time from then on.                                *)

SlipAssignUnguarded(r, u, a) ==
    /\ Received(r, u, "assign") /\ row.agent # a
    /\ Stage(r, u, "assign",
             [row EXCEPT !.agent = a,
                         !.status = IF a # NoUser /\ row.status = "open"
                                      THEN "assigned" ELSE row.status],
             [type |-> IF a = NoUser THEN "UNASSIGNED" ELSE "ASSIGNED",
              agent |-> a],
             Notify("assigned", {a}, u))

SlipAssignPrevious(r, u, a) ==
    /\ Received(r, u, "assign") /\ row.agent # a
    /\ ~ (a = NoUser /\ row.status = "assigned")
    /\ Stage(r, u, "assign",
             [row EXCEPT !.agent = a,
                         !.status = IF a # NoUser /\ row.status = "open"
                                      THEN "assigned" ELSE row.status],
             [type |-> IF a = NoUser THEN "UNASSIGNED" ELSE "ASSIGNED",
              agent |-> row.agent],
             Notify("assigned", {row.agent}, u))

\* assign_ticket.  Any user of the organization can be named.
Assign(r, u, a) ==
    /\ Received(r, u, "assign")
    /\ ~ (a = NoUser /\ row.status = "assigned")
    /\ row.agent # a
    /\ Stage(r, u, "assign",
             [row EXCEPT
                !.agent = a,
                !.status = IF a # NoUser /\ row.status = "open"
                             THEN "assigned" ELSE row.status],
             [type |-> IF a = NoUser THEN "UNASSIGNED" ELSE "ASSIGNED",
              agent |-> a],
             Notify("assigned", {a}, u))

\* change_priority
ChangePriority(r, u, p) ==
    /\ Received(r, u, "priority")
    /\ row.priority # p
    /\ Stage(r, u, "priority",
             [row EXCEPT !.priority = p],
             [type |-> "PRIORITY_CHANGED", priority |-> p],
             {})

SlipMoved(target, now) ==
    [row EXCEPT
       !.status = target,
       !.resolvedAt = IF target \in {"resolved", "closed"}
                        THEN now ELSE row.resolvedAt,
       !.closedAt = IF target = "closed" THEN now ELSE row.closedAt]

\* _transition on the loaded row: the status and the terminal timestamps.
\* `now' is read after the row, so it may be any later time.
Moved(target, now) ==
    [row EXCEPT
       !.status = target,
       !.resolvedAt = IF \/ target = "resolved"
                         \/ target = "closed" /\ row.resolvedAt = 0
                        THEN now ELSE row.resolvedAt,
       !.closedAt = IF target = "closed" THEN now ELSE row.closedAt]

SlipChangeStatusSilent(r, u, target, now) ==
    /\ Received(r, u, "status")
    /\ target \notin ActionEdges
    /\ CanTransition(row.status, target)
    /\ Stage(r, u, "status", Moved(target, now),
             [type |-> "STATUS_CHANGED", status |-> target], {})

\* change_status: the working edges.  A resolution notifies the customer.
ChangeStatus(r, u, target, now) ==
    /\ Received(r, u, "status")
    /\ target \notin ActionEdges
    /\ CanTransition(row.status, target)
    /\ Stage(r, u, "status", Moved(target, now),
             [type |-> "STATUS_CHANGED", status |-> target],
             IF target = "resolved" THEN Notify("resolved", Portal, u) ELSE {})

\* close_ticket
CloseTicket(r, u, now) ==
    /\ Received(r, u, "close")
    /\ CanTransition(row.status, "closed")
    /\ Stage(r, u, "close", Moved("closed", now),
             [type |-> "STATUS_CHANGED", status |-> "closed"], {})

\* reopen_ticket: the move, and the fields it clears.
ReopenTicket(r, u) ==
    /\ Received(r, u, "reopen")
    /\ CanTransition(row.status, "open")
    /\ Stage(r, u, "reopen",
             [row EXCEPT !.status = "open", !.resolvedAt = 0, !.closedAt = 0,
                         !.agent = NoUser],
             [type |-> "REOPENED", status |-> "open"], {})

\* post_reply: refused on a closed ticket; a member of staff answering first
\* stops the response timer; a customer's reply notifies the assignee.
PostReply(r, u, now) ==
    /\ Received(r, u, "reply")
    /\ row.status # "closed"
    /\ Stage(r, u, "reply",
             [row EXCEPT !.firstResponseAt =
                 IF u \in Staff /\ row.firstResponseAt = 0
                   THEN now ELSE row.firstResponseAt],
             [type |-> "MESSAGE_ADDED"],
             IF u \in Staff THEN {} ELSE Notify("reply", {row.agent}, u))

\* post_note: allowed on a closed ticket, touches no column of the row.
PostNote(r, u) ==
    /\ Received(r, u, "note")
    /\ Stage(r, u, "note", row, [type |-> "INTERNAL_NOTE_ADDED"], {})

-----------------------------------------------------------------------------
(* The commit *)

Written(new, current) == IF new = Keep THEN current ELSE new

WriteBack(set) ==
    [status |-> Written(set.status, row.status),
     agent |-> Written(set.agent, row.agent),
     priority |-> Written(set.priority, row.priority),
     resolvedAt |-> Written(set.resolvedAt, row.resolvedAt),
     closedAt |-> Written(set.closedAt, row.closedAt),
     firstResponseAt |-> Written(set.firstResponseAt, row.firstResponseAt)]

\* The handler read its clock before the commit.
Past(set) == {set.resolvedAt, set.closedAt, set.firstResponseAt} \ {Keep}
               \subseteq 0 .. clock

\* CHECK resolved_at_matches_status
ResolvedAtMatchesStatus(t) ==
    t.status \in {"resolved", "closed"} => t.resolvedAt # 0

\* A reader of the timeline applies one more entry.
Tell(s, e) ==
    CASE e.type = "ASSIGNED" ->
            [s EXCEPT !.agent = e.agent,
                      !.status = IF s.status = "open" THEN "assigned"
                                                      ELSE s.status]
      [] e.type = "UNASSIGNED" -> [s EXCEPT !.agent = NoUser]
      [] e.type = "STATUS_CHANGED" -> [s EXCEPT !.status = e.status]
      [] e.type = "REOPENED" -> [s EXCEPT !.status = "open", !.agent = NoUser]
      [] e.type = "PRIORITY_CHANGED" -> [s EXCEPT !.priority = e.priority]
      [] OTHER -> s

\* Whether a handler would decide the same on the row as it is by now: its own
\* conditions, asked again.  Nothing in the code asks them a second time.
Stands(q) ==
    CASE q.kind = "assign" ->
            IF q.set.agent = NoUser THEN row.status # "assigned"
                                    ELSE row.status = "open" <=> q.set.status = "assigned"
      [] q.kind = "status" -> CanTransition(row.status, q.set.status)
      [] q.kind = "close" ->
            /\ CanTransition(row.status, "closed")
            /\ q.set.closedAt # Keep => row.resolvedAt <= q.set.closedAt
      [] q.kind = "reopen" ->
            /\ CanTransition(row.status, "open")
            /\ q.set.agent = NoUser \/ row.agent = NoUser
      [] q.kind = "reply" ->
            /\ row.status # "closed"
            /\ q.set.firstResponseAt # Keep => row.firstResponseAt = 0
      [] OTHER -> TRUE

\* One transaction: the row's changed columns, the message, the timeline entry
\* and the notification rows.
Commit(r) ==
    LET q == req[r] IN
    /\ q.pc = "staged"
    /\ Past(q.set)
    /\ ResolvedAtMatchesStatus(WriteBack(q.set))
    /\ row' = WriteBack(q.set)
    /\ replied' = (replied \/ (q.kind = "reply" /\ q.by \in Staff))
    /\ story' = Tell(story, q.entry)
    /\ inbox' = inbox \cup q.notes
    /\ fresh' = (fresh /\ q.kind = "note")
    /\ req' = [req EXCEPT ![r] = [pc |-> AfterCommit(q.kind), kind |-> q.kind,
                                  agent |-> q.agent, notes |-> q.notes]]
    /\ torn' = (torn \/ (r \in stale /\ ~ Stands(q)))
    /\ stale' = (stale \ {r})
                    \cup {s \in Requests \ {r} : req[s].pc = "staged" /\ row' # row}
    /\ outrun' = (IF q.set.agent = Keep THEN outrun ELSE outrun \ {r})
                     \cup {s \in Requests \ {r} :
                              /\ req[s].pc \in {"staged", "enqueue", "publish"}
                              /\ row'.agent # row.agent}
    /\ UNCHANGED <<clock, queued>>

\* The check constraint refuses the UPDATE: the transaction rolls back and
\* the request answers 500.
Refused(r) ==
    /\ req[r].pc = "staged"
    /\ Past(req[r].set)
    /\ ~ ResolvedAtMatchesStatus(WriteBack(req[r].set))
    /\ req' = [req EXCEPT ![r] = Idle]
    /\ stale' = stale \ {r} /\ outrun' = outrun \ {r}
    /\ UNCHANGED <<row, clock, replied, story, inbox, queued, fresh, torn>>

-----------------------------------------------------------------------------
(* After the commit.  Each step fails open: a broker or a Redis that is down *)
(* is logged and the handler goes on.                                        *)

\* enqueue_delivery: each notice on its own; any of them may fail.
Enqueue(r) ==
    /\ req[r].pc = "enqueue"
    /\ \E sent \in SUBSET req[r].notes :
         /\ Faults \/ sent = req[r].notes
         /\ queued' = queued \cup sent
    /\ req' = [req EXCEPT ![r].pc = "publish"]
    /\ UNCHANGED <<row, clock, replied, story, inbox, fresh, torn, stale, outrun>>

\* realtime.publish: an envelope addressed by req[r].agent, the assignee on the
\* request's own copy.  A note's handler ends here.
Publish(r) ==
    /\ req[r].pc = "publish"
    /\ req' = IF req[r].kind = "note"
                THEN [req EXCEPT ![r] = Idle]
                ELSE [req EXCEPT ![r].pc = "invalidate"]
    /\ outrun' = outrun \ {r}
    /\ UNCHANGED <<row, clock, replied, story, inbox, queued, fresh, torn, stale>>

\* cache.invalidate: the organization's version is bumped.
Invalidate(r) ==
    /\ req[r].pc = "invalidate"
    /\ fresh' = TRUE \/ (Faults /\ fresh' = fresh)
    /\ req' = [req EXCEPT ![r] = Idle]
    /\ UNCHANGED <<row, clock, replied, story, inbox, queued, torn, stale, outrun>>

\* The process dies: an open transaction rolls back, a committed one stands.
Crash(r) ==
    /\ Faults
    /\ req[r] # Idle
    /\ req' = [req EXCEPT ![r] = Idle]
    /\ stale' = stale \ {r} /\ outrun' = outrun \ {r}
    /\ UNCHANGED <<row, clock, replied, story, inbox, queued, fresh, torn>>

Tick ==
    /\ clock < MaxTime
    /\ clock' = clock + 1
    /\ UNCHANGED <<row, req, replied, story, inbox, queued, fresh, torn, stale, outrun>>

Handle(r, u) ==
    \/ \E a \in Assignees : Assign(r, u, a)
    \/ \E p \in Priorities : ChangePriority(r, u, p)
    \/ \E s \in Statuses, now \in clock .. MaxTime : ChangeStatus(r, u, s, now)
    \/ \E now \in clock .. MaxTime : CloseTicket(r, u, now)
    \/ ReopenTicket(r, u)
    \/ \E now \in clock .. MaxTime : PostReply(r, u, now)
    \/ PostNote(r, u)

Step(r) ==
    \/ \E u \in Users : Handle(r, u)
    \/ Commit(r) \/ Refused(r)
    \/ Enqueue(r) \/ Publish(r) \/ Invalidate(r)
    \/ Crash(r)

\* The row create_ticket commits.
Init ==
    /\ row \in [status : {"open"}, agent : {NoUser}, priority : Priorities,
               resolvedAt : {0}, closedAt : {0}, firstResponseAt : {0}]
    /\ req = [r \in Requests |-> Idle]
    /\ clock = 1
    /\ replied = FALSE
    /\ story = [status |-> row.status, agent |-> row.agent,
                priority |-> row.priority]
    /\ inbox = {}
    /\ queued = {}
    /\ fresh = TRUE
    /\ torn = FALSE
    /\ stale = {}
    /\ outrun = {}

Next == Tick \/ \E r \in Requests : Step(r)

Spec == Init /\ [][Next]_vars

-----------------------------------------------------------------------------
(* What holds however many requests are in flight *)

\* A response time is recorded exactly when a member of staff has a public
\* reply in the thread, whatever else was committed between a reply's read
\* and its commit (post_reply's conditional write, WriteBack's columns).
FirstResponseRecorded == replied <=> row.firstResponseAt # 0

\* Nothing is handed to the e-mail queue that a rollback can still take back:
\* every queued notice names a committed row, through constraint failures and
\* crashes between the two (enqueue_delivery runs after the commit).
QueuedIsCommitted == queued \subseteq inbox

\* Whoever holds the ticket was told so: a racing assignment, reopen or status
\* change never leaves an assignee who has no notice of it.  A manager may
\* have assigned it to himself, and the actor is never notified.
AssigneeWasTold ==
    row.agent \in Users \ Managers =>
        [type |-> "assigned", user |-> row.agent] \in inbox

\* A ticket that shows a resolution time told every portal user of the
\* customer: no path, racing or not, resolves it silently.
CustomerToldOfResolution ==
    row.resolvedAt # 0 =>
        \A u \in Portal : [type |-> "resolved", user |-> u] \in inbox

\* Closing keeps the resolution time it found: SLA reporting needs the real
\* one, not the moment someone clicked close (_transition).
ClosingKeepsResolution ==
    [][row'.status = "closed" /\ row.status # "closed" =>
          row'.resolvedAt = row.resolvedAt]_vars

\* When nothing fails, a ticket no request is working on has every notice in
\* the e-mail queue and no stale analytics answer.
QuietMeansAnnounced ==
    ~ Faults /\ (\A r \in Requests : req[r] = Idle) =>
        queued = inbox /\ fresh

Committing(r) ==
    /\ req[r].pc = "staged"
    /\ req'[r].pc \in {"enqueue", "publish"}

\* A request overwrites no field it did not decide about: a slow reply or
\* status change committed after a new assignment or priority leaves both.
NoLostUpdate ==
    [][\A r \in Requests :
          Committing(r) =>
            /\ row'.priority # row.priority => req[r].kind = "priority"
            /\ row'.agent # row.agent => req[r].kind \in {"assign", "reopen"}
            /\ row'.firstResponseAt # row.firstResponseAt =>
                  req[r].kind = "reply"]_vars

-----------------------------------------------------------------------------
(* What the handlers mean, and which overlaps break it.  No lock is held     *)
(* from the read to the commit, so a commit from a stale copy may write what *)
(* its handler would no longer decide.  The following holds of every other   *)
(* commit, whatever overlaps: another request's change that leaves the       *)
(* decision standing is harmless.                                            *)

\* A commit of what its handler would not decide on the row as it is, from a copy
\* that another request's commit has made stale since.
Overtaken == \E r \in stale : Committing(r) /\ ~ Stands(req[r])

\* ASSIGNED means assigned (assign_ticket refuses to unassign it).
AssignedHasAgent == row.status = "assigned" => row.agent # NoUser

\* What the timeline should tell of a row.
Told(t) == [status |-> t.status, agent |-> t.agent, priority |-> t.priority]

\* The timeline is the ticket's history: a reader who applies its entries in the
\* order of their commits ends with the row's status, assignee and priority, unless
\* a commit wrote what its handler would no longer have decided (record_event).
TimelineTellsTheRow == ~ torn => story = Told(row)

\* The envelope about to be published is addressed by the row's assignee, unless
\* another request has given the ticket to somebody else since this one loaded
\* it: a reopen is not shown to the agent who just lost the ticket by it.
AudienceIsCurrent ==
    \A r \in Requests \ outrun : req[r].pc = "publish" => req[r].agent = row.agent

\* The status moves along an edge of TICKET_TRANSITIONS, but for a commit that was
\* overtaken.
MovesFollowTheTable ==
    [][row'.status # row.status => <<row.status, row'.status>> \in Edges \/ Overtaken]_vars

\* The detailed ticket implements TicketContract, column by column.
Desk == INSTANCE TicketContract WITH
            Assignable <- Users, Nobody <- NoUser,
            status <- row.status, agent <- row.agent,
            resolved <- row.resolvedAt # 0,
            answered <- row.firstResponseAt # 0

\* Whatever overlaps, a commit is an atomic step of the contract on the row as it
\* is then, or it was overtaken: neither the copy a handler decided on nor the
\* columns its UPDATE leaves out show otherwise.
ImplementsContract ==
    Desk!Begin /\ [][Desk!Advance \/ Overtaken]_(Desk!contractVars)

-----------------------------------------------------------------------------
(* Inductive invariants *)

\* What a request waiting to commit carries, whatever is committed before it: the
\* columns its operation decides about, and the notices they call for.
StagedInv(q) ==
    /\ q.set.priority # Keep => q.kind = "priority"
    /\ q.set.agent # Keep => q.kind \in {"assign", "reopen"}
    /\ q.set.status = "closed" => q.set.resolvedAt = Keep
    /\ q.kind \in {"priority", "note"} => q.notes = {}
    /\ q.set.firstResponseAt # 0
    /\ q.set.firstResponseAt # Keep => q.kind = "reply" /\ q.by \in Staff
    /\ q.kind = "reply" /\ q.by \in Staff =>
          q.set.firstResponseAt # Keep \/ row.firstResponseAt # 0
    /\ q.set.agent \in Users \ Managers =>
          [type |-> "assigned", user |-> q.set.agent] \in q.notes
    /\ q.set.resolvedAt \notin {Keep, 0} =>
          \A u \in Portal : [type |-> "resolved", user |-> u] \in q.notes

\* Unless something fails, what is committed and not announced yet is some
\* request's to announce: its notices, or the stale analytics.
Announcing ==
    ~ Faults =>
       /\ \A n \in inbox \ queued :
             \E r \in Requests : req[r].pc = "enqueue" /\ n \in req[r].notes
       /\ fresh \/ \E r \in Requests :
                      /\ req[r].pc \in {"enqueue", "publish", "invalidate"}
                      /\ req[r].kind # "note"

\* The invariants of any number of requests are inductive together with the
\* table's constraint and with what the requests in flight carry: the columns
\* a handler decided on stay justified by the notices of its own transaction,
\* and the notices a committed request still has to queue are in the table.
ConcurrentInv ==
    /\ ResolvedAtMatchesStatus(row)
    /\ FirstResponseRecorded
    /\ QueuedIsCommitted /\ Announcing
    /\ AssigneeWasTold
    /\ CustomerToldOfResolution
    /\ \A r \in Requests :
          /\ req[r].pc = "staged" => StagedInv(req[r])
          /\ req[r].pc = "enqueue" => req[r].notes \subseteq inbox

\* A row the lifecycle has a reading for.
Coherent(t) ==
    /\ t.status = "assigned" => t.agent # NoUser
    /\ t.status = "open" => t.agent = NoUser
    /\ t.resolvedAt # 0 <=> t.status \in {"resolved", "closed"}
    /\ t.closedAt # 0 <=> t.status = "closed"
    /\ t.closedAt # 0 => t.resolvedAt <= t.closedAt

\* What a request waiting to commit is about to write, as far as its operation
\* tells, and the entry that says so.
Shape(q) ==
    CASE q.kind = "assign" ->
            /\ q.set.agent \in Assignees /\ q.entry.agent = q.set.agent
            /\ q.entry.type = IF q.set.agent = NoUser THEN "UNASSIGNED" ELSE "ASSIGNED"
            /\ q.set.status \in {Keep, "assigned"}
            /\ q.set.agent = NoUser => q.set.status = Keep
            /\ q.set.resolvedAt = Keep /\ q.set.closedAt = Keep
      [] q.kind = "status" ->
            /\ q.set.status \in {"in_progress", "waiting_for_customer", "resolved"}
            /\ q.entry = [type |-> "STATUS_CHANGED", status |-> q.set.status]
            /\ q.set.status # "resolved" => q.set.resolvedAt = Keep
            /\ q.set.resolvedAt # 0 /\ q.set.closedAt = Keep
      [] q.kind = "close" ->
            /\ q.set.status = "closed" /\ q.set.resolvedAt = Keep
            /\ q.entry = [type |-> "STATUS_CHANGED", status |-> "closed"]
            /\ torn \/ q.set.closedAt \notin {Keep, 0}
      [] q.kind = "reopen" ->
            /\ q.set.status = "open" /\ q.set.resolvedAt = 0 /\ q.set.agent \in {Keep, NoUser}
            /\ q.entry = [type |-> "REOPENED", status |-> "open"]
            /\ torn \/ q.set.closedAt = 0
      [] OTHER ->
            /\ q.set.status = Keep /\ q.set.resolvedAt = Keep /\ q.set.closedAt = Keep
            /\ IF q.kind = "priority"
                 THEN q.entry = [type |-> "PRIORITY_CHANGED", priority |-> q.set.priority]
                 ELSE q.entry.type \in {"MESSAGE_ADDED", "INTERNAL_NOTE_ADDED"}

\* As long as no commit was overtaken, the row is coherent and the timeline tells
\* it.  What a request is to write keeps the shape its operation gave it; its
\* handler would decide it again, or its copy is stale; and whom it addresses is
\* who will have the ticket, or it was outrun.
OverlapInv ==
    /\ ~ torn => Coherent(row) /\ story = Told(row)
    /\ \A t \in {row.resolvedAt, row.closedAt, row.firstResponseAt} : t <= clock
    /\ \A r \in Requests :
          /\ req[r].pc = "staged" =>
                /\ Shape(req[r]) /\ req[r].set.agent \in {Keep, req[r].agent}
                /\ r \in stale \/ Stands(req[r])
          /\ r \notin outrun =>
                /\ req[r].pc = "staged" => req[r].agent = Written(req[r].set.agent, row.agent)
                /\ req[r].pc \in {"enqueue", "publish"} => req[r].agent = row.agent

\* What holds of a ticket, however many requests overlap on it.
TicketInv == TypeOK /\ ConcurrentInv /\ OverlapInv
=============================================================================
