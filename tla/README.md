# SupportFlow in TLA+

SupportFlow is a multi-tenant support desk: a FastAPI application over PostgreSQL, with Redis
for caching, rate limits and realtime fan-out, and Celery workers for e-mail, AI analyses,
knowledge ingestion, SLA alerts and clean-up. This directory models its core logic in TLA+,
checks the models with TLC on small instances, and proves the properties that matter most with
TLAPS for every value of the constants. Paths below are relative to `backend/app/` unless they
say otherwise.

## 1. The system

### 1.1 How requests and workers run

Facts of the code that every module rests on:

- An API request has one SQLAlchemy session (`core/database.py:21-62`): READ COMMITTED,
  `autoflush=False`, `expire_on_commit=False`. A handler reads, decides in memory, and commits
  once. The UPDATE names only the columns whose value differs from the loaded one. No handler
  locks a ticket or a user, and there is no version column, so two overlapping requests merge
  column by column.
- The timeline entry (`ticket_events`), the audit row and the notification rows are written in
  the commit of the change they record. E-mail queueing, realtime publication and cache
  invalidation come after that commit, in that order, and each fails open: an error is logged
  and the handler goes on.
- `now()` in PostgreSQL is the start of the transaction. `created_at` and `updated_at` are
  therefore older than the commit that makes them visible.
- Celery acknowledges late, requeues the message of a lost worker, acknowledges the message of a
  task that raised or timed out, and redelivers after the visibility timeout
  (`workers/celery_app.py:114-160`).

### 1.2 Components

| Component | State it keeps | Operations | Talks to | Hard part |
|---|---|---|---|---|
| Ticket lifecycle (`services/ticket_service.py`) | `tickets`, `ticket_events` | create, assign, change_priority, change_status, close, reopen | notifications, realtime, cache, audit, AI (on create) | stale decisions, column-wise merging, timestamps, the timeline as history |
| Conversation thread (`services/message_service.py`) | `messages`, `tickets.first_response_at` | post_reply, post_note | ticket, notifications, realtime | reply racing close; first response |
| Notifications (`services/notification_service.py`) | `notifications` | notify_for_event, enqueue_delivery, mark_read, mark_all_read | e-mail queue, realtime | recipients from a stale copy; loss between commit and queue |
| E-mail delivery (`workers/email_tasks.py`) | `notifications.emailed_at` | deliver | SMTP | at least once; retries |
| AI analyses (`services/ai_analysis_service.py`, `repositories/ai_repository.py`) | `ai_analyses`, AI columns of `tickets` | request_analysis, request_summary, request_suggested_response, run_analysis | broker, providers, timeline | redelivery, death between commits, stale summaries |
| Abandoned-claim sweep (`workers/maintenance_tasks.py`) | claims of analyses and documents | reap_abandoned_claims | both tables | failing a live claim |
| AI calls (`services/ai_service.py`) | `ai_usage` | _run with retries, one ledger row per attempt | providers | partial failure, exact accounting |
| Users (`services/user_service.py`) | `users` | create_user, update_role, deactivate_user | audit | last administrator |
| Sessions (`services/auth_service.py`, `repositories/refresh_token_repository.py`) | `refresh_tokens` | register, login, refresh (the row `FOR UPDATE SKIP LOCKED`), logout | rate limiter | rotation, reuse, races with logout |
| SLA (`services/sla_service.py`, `workers/sla_tasks.py`) | `sla_policies`, SLA events | resolve_timer, due_alerts, sweep, update_policy | notifications, realtime | boundaries, overlapping sweeps, batch limit |
| Knowledge base (`services/knowledge_service.py`, `workers/knowledge_tasks.py`) | `knowledge_documents`, `knowledge_chunks`, objects | create, delete, ingest, retrieve, answer | object store, embeddings | object and row in two steps, deletion during ingestion |
| Attachments (`services/attachment_service.py`, `core/storage.py`) | `attachments`, objects | create, list, download | object store | object stored before the row commits |
| Realtime hub (`websocket/manager.py`, `websocket/events.py`) | sockets, their queues | publish, broadcast, offer, writer | Redis pub/sub | slow consumers, captured context |
| Analytics cache (`core/cache.py`, `services/analytics_service.py`) | Redis keys with a version per organization | read_through, invalidate | Redis | fill racing invalidation |
| Analytics figures (`services/analytics_service.py`, `repositories/analytics_repository.py`) | none | SLA figures, risk list, usage totals | every table | SQL and Python saying the same of a ticket |
| Rate limiter (`core/rate_limit.py`) | Redis counters | enforce | Redis | fixed window, fail open |
| Permissions and tenancy (`core/permissions.py`, `core/tenancy.py`, `repositories/base.py`, `repositories/scoping.py`) | every row's organization; the ticket numbers | has_permission, row_scope_predicate, next_ticket_number | every repository | references from requests, numbers under an advisory lock |
| Customers (`services/customer_service.py`) | `customers` | create, update | - | unique address |
| Audit (`services/audit_service.py`) | `audit_logs` | record | every service | none of its own: it shares the commit of what it records |
| Document text (`services/document_text.py`) | none | parse a page, split, pack into passages | knowledge | nothing lost, nothing over the target |
| URL fetching (`services/url_fetch.py`) | none | check, ask, follow, read | network | a name that resolves differently at the next hop |
| Frontend (`frontend/src`) | two client stores | toasts, theme | - | none yet: the ticket screens do not exist |

What makes each correct, in a line:

- *Ticket*: the status moves along the documented edges; ASSIGNED means somebody has it and OPEN
  nobody; the terminal timestamps agree with the status; the timeline retells the row; whoever
  is given the ticket is told, and so is the customer of a resolution.
- *Thread*: a response time exists exactly when staff have answered; a closed ticket is not replied to.
- *Notifications and e-mail*: nothing is e-mailed that was rolled back; nothing is sent twice
  without a fault; what is committed is eventually queued when nothing fails.
- *Analyses*: no question is paid for twice, no live claim is failed, outcomes are final, claims
  end, the timeline is honest; a served summary has seen the messages it is served for.
- *Users*: somebody can always administer the organization; a portal account has a customer.
- *Sessions*: one live token per family; a used token never works again and its use ends the family.
- *SLA*: each alert once per timer; a breach on the record is one; a late ticket gets its alert.
- *Knowledge*: what may be retrieved is completely indexed; one worker ingests a document; outcomes are final.
- *Cache*: an answer computed before a change is not served after it, while Redis works.
- *Realtime*: an event reaches nobody outside its audience; a slow consumer never blocks the rest.
- *AI calls*: what was billed is in the ledger, and is not asked for again.
- *Tenancy*: no row refers into another organization; numbers are unique and without gaps.
- *Attachments*: every row has its object; a note's file is for staff; a download was allowed.
- *Figures*: a dashboard, a countdown and a sweep agree on every ticket.

`PROJECT.json` lists the hazards behind these at their lines, with the properties that cover
each or the reason why none does.

## 2. What is modelled

### 2.1 `TicketLifecycle` (and `TicketContract`)

One ticket and the requests that work on it. `row` is the committed row; `req[r]` a request in
flight; `story` the fold of the timeline in commit order; `inbox` the committed notification
rows; `queued` those handed to the e-mail queue; `replied` whether a public staff reply exists;
`fresh` whether an analytics invalidation is still owed; `clock` the server's clock.

| Action | Code |
|---|---|
| `Assign`, `ChangePriority`, `ChangeStatus`, `CloseTicket`, `ReopenTicket` | the handlers of `ticket_service.py`, up to their commit |
| `PostReply`, `PostNote` | the handlers of `message_service.py`, up to their commit |
| `Commit` | the one transaction: changed columns, message, timeline entry, notifications |
| `Refused` | the check constraint `resolved_at_matches_status` rolls the transaction back |
| `Enqueue`, `Publish`, `Invalidate` | the steps after the commit, each of which may fail |
| `Crash` | the process dies at any point |
| `Tick` | time |

`Stage` computes what SQLAlchemy will write (`Column`: a value or `Keep`), `WriteBack` applies it
to the row as it is by then. That split is where overlapping requests meet. A request that is
refused (404, 409, no-op) changes nothing and is no step. The audit row stands and falls with the
timeline entry, so it has no variable. The row's SLA and AI columns are not in this module; its creation is in
`Tenancy`, its timers in `SlaSweep`.

`TicketContract` is the abstract specification: what a reader of the desk sees when every
operation is atomic. `ImplementsContract` is the refinement `Desk!Contract`, with `resolved` and
`answered` mapped to "the timestamp is set".

No handler locks the ticket it decides on, so a commit may write what its handler would no longer
decide. `Stands(q)` asks a handler's own conditions again, of the row as it is at the commit;
nothing in the code asks them twice. Three history variables say when that mattered: `stale` of the
requests still to commit whose copy of the row another request's commit has changed since, `torn`
once such a request went through with a decision that no longer stood, `outrun` of the requests that
still have to publish while another one gave the ticket to somebody else. A handler that decides
wrongly on a current copy has no escape. The lifecycle promises are stated of
any number of overlapping requests, with exactly these escapes: until `torn`, the row is coherent
and the timeline tells it; a commit that is not `Overtaken` moves the status along the table
and is a step of the contract; an envelope of a request that was not outrun is addressed by the
row's assignee. So they say more than that serial requests are right: most overlaps are harmless,
and which ones are not is the code's own conditions. What holds without any escape (who was told,
the response time, columns that survive) is stated without one. `race_assigned` shows an escape
taken.

### 2.2 `AnalysisClaims`

The analyses of one ticket from the API request to the closing timeline entry. `rows` is the
table, `calls` the API requests (look, write, enqueue), `queue` what the broker holds until it is
acknowledged, `workers` the processes with the message, the claims and the age of their run,
`asked` the questions already put to the provider, `told` the timeline entries. Workers die
(`Die`), raise (`Raise`) and hit the hard limit (`TimeOut`); the broker delivers again; `Reap` is
the sweep. Ages count up to one more than the largest value anything compares them with, so time
never has to stop. The draft message of a suggested reply and the AI columns of the ticket commit
with the outcome (`Finish`) and have no variable of their own.

### 2.3 `SummaryFreshness`

Whether a stored summary is still the answer. Every transaction takes its `created_at` at its
start (`Begin`, `Ask`) and becomes visible later (`Land`, `Write`). `covers` and `missed` record
what the worker found committed and what it could not see because its transaction was open.

### 2.4 `UserAdmin`

The accounts of one organization and the three operations of its administrators, statement by
statement: `Admit` (authentication and permission), `LoadNew`/`Load` (the target; the caller's own
row is the session's copy), `Count` (`_require_another_admin`), then one of the commits `Insert`,
`Appoint`, `Deactivate`. The other roles hold none of the three permissions,
so `member` stands for every one of them. The customer link of a
portal account is `Tenancy`'s. `others` remembers whom `Count` counted: `LastAdminGoesInARace` says that the last
administrator is lost only to a commit whose target, or somebody it had counted, was changed by
another request after it had decided.

### 2.5 `AuthSessions`

The rows of `refresh_tokens` and the requests on them, statement by statement. `Register` starts a
session with the account, `SignIn` and `Enter` are a login and its commit. Refresh is `Find` (the row,
locked; one that somebody else has locked is not found), then `Accept` and `Rotate` (revoke, link,
issue, in one commit), `RefuseExpired`, or, for a token used before or an account that is not active,
`RevokeFamily`. That UPDATE aims at the rows live as it starts, reaches each (`Grab`: it waits for
whoever holds it, and leaves alone what was revoked meanwhile) and commits (`RevokeAll`). Logout is
`Look`, an unlocked read, and `Leave`, an UPDATE by key. `SwitchOff` deactivates the account, `Expire`
passes `expires_at`, `Rollback` is a transaction that does not commit. `login` and `missed` are
history: which login a token descends from, and what was issued while an UPDATE could not see it.

### 2.6 `RateLimit`, `UrlFetch`, `Attachments`: the borders of the API

`RateLimit`: one key's counter and what its callers were told. `Attempt` is the Redis transaction
(create with expiry, increment, read the rest), `FailOpen` a Redis that cannot be asked or whose
answer is lost after the counter moved, `Second` time.

`UrlFetch`: one fetch. Each hop is parsed, resolved and checked, and then asked for; a redirect
goes back to parsing with one hop less; the body is read piece by piece under the cap.
`NamesChange` lets every name resolve to something else between any two steps.

`Attachments`: the files of one ticket. An upload inspects, finds the message it belongs to, stores
the object and commits the row and the timeline entry, and may fail after each; a download looks
up the file, then its ticket again, then streams. `HandOver` gives the ticket to somebody else
at any moment.

### 2.7 `SlaClock`, `SlaSweep`, `SlaFigures`

`SlaClock` is `resolve_timer`, `due_alerts` and the age prefilter as operators over instants.
`SlaSweep` is the sweep of an organization: the active policies and the time once, then for each
priority the oldest tickets up to the batch, their recorded alerts, and one commit. Sweeps overlap
(beat starts one every few minutes, and a message may come twice), and a worker may die (`Perish`). Between
any two statements requests work on the tickets in two steps each. `FirstAnswer`, `Resolve`,
`CloseTicket`, `ReopenTicket` and `Reprioritise` load the ticket and decide (`Decide`), and
`CommitRow` makes the row visible with a date that lies anywhere between the two: the handlers
stamp `first_response_at` and `resolved_at` and then await the notices and the commit
(`message_service.py:159-170`), so a sweep can find running a timer that was stopped in time.
`landed` is when the stop was committed, and what `BreachIsEarned` can promise is about that.
Policies are edited and switched off and on (`EditPolicy`); `load_policies` leaves the ones that
are off out, and so does `Active`. `SlaFigures` translates the SQL of the dashboard (counts,
compliance, the risk list; `Clocked` is the join with active policies) and states it against the
operators of `SlaClock` in every state `SlaSweep` can reach.

### 2.8 `EmailDelivery` and `Inbox`

`EmailDelivery`: `AnnounceAlert` commits the notification rows of an alert or of a finished
analysis, for the readers the code picks; `Mail` and `Mailed` queue them after the commit; the steps
of a worker are loading the row, the send, the stamp, the retry; `Raises` is a task that fails outside
the send (the database at the load or the stamp, the time limit): its message is acknowledged
like any other, and the notice stays unsent or unstamped; `Lost` and `HandOutAgain` are a
worker process lost and a message delivered while its worker is still at it. `Inbox`: reading
one (`OpenOne`, `MarkRead`, which decides on the loaded row) against reading all (`MarkAllRead`, one
conditional UPDATE).

### 2.9 `KnowledgeBase`, `DocumentText`

`KnowledgeBase`: a document is its row, its chunks and its object. An upload stores the object and
then the row, a deletion removes the object and then the row, and each can stop half way (`GiveUp`,
`broken`). The ingester claims, extracts and embeds without a transaction, and commits
chunks, text and outcome together; it may be lost, redelivered or stopped by its time limit, and
`ReapDocuments` fails claims that are too old.

`DocumentText`: a page as a sequence of events (`HandleEvent`), a text as paragraphs of sentence
lengths, split into segments (`SplitParagraph`, `SplitSentence`, `HardSplit`) and packed into
overlapping passages (`Pack`, `LastChunk`). Sizes are characters and tokens as the code counts them;
the words themselves play no part.

### 2.10 `AiCall`

The processes that call a model, each at one errand: a list of calls, each with its attempts. An
attempt leaves on the cached client of the process (`AskVendor`), hears one of the answers the
vendors' clients distinguish (`Hear`), and sleeps before the next (`Wake`). Every attempt leaves a
row in the session, and the errand's caller commits (`CommitErrand`), answers without a commit
(`Respond`: the question put to the knowledge base) or is cut off (`AbandonErrand`). `ledger` is the
sums of the committed rows, prices rounded as the column rounds them. What adds up a list, `SumOf`,
is a recursive function in `Sums`, which `DocumentText` uses as well.

### 2.11 `AnalyticsCache`

One organization's version counter and the entries keyed by version and scope. A viewer reads the
version, then the entry, computes with two queries on a miss and stores under the version it read;
a writer commits and then moves the version. Every Redis call may fail on its own.

### 2.12 `RealtimeHub`

The sockets of one instance with their bounded queues. `Authenticate` fixes the context the socket
keeps; `Dispatch` offers an envelope to every socket that may see it and marks one whose queue is
full for closing; `TakeNext`, `Send`, `SendFails` are its writer; `SubscriptionBreaks` and
`Resubscribe` the Redis side. Events published meanwhile are lost, as in the code.

### 2.13 `Tenancy`

Two organizations in one database: customers, accounts, tickets, and the creation of a ticket in
its statements (`CheckCustomer`, `AllocateNumber` under the advisory lock of the organization,
`CommitTicket` or `GiveUpTicket`), and assignment by an id that comes from the request.

### 2.14 Composition: `MCJobs`, `MCOverlaps`, `MCServing`, `MCAccounts`

These components share no state: each has its own tables or keys. So an instance of several of them
is one behaviour of one part, chosen in the initial state by the variable `part`, while the others
rest; what is checked is the sum of their states, and nothing is lost by it because no part's guards
read another's variables. `MCJobs` holds what must come to an end (claims, limit, sla, mail,
inbox, knowledge, hub, fetch), `MCOverlaps` the tasks that overlap themselves (claims, sla), `MCServing` what readers are served (summary, ai, cache, figures,
text), `MCAccounts` who may do what (admin, auth, tenancy, files). Where components do share state
they share a module: the ticket, its thread and its notifications are `TicketLifecycle`; the
sweep of abandoned claims is in both of the modules whose claims it ends. Initial choices of a part
at rest (the keys of `AiCall`, the page of `DocumentText`) are pinned.

### 2.15 `Slip...` definitions

A definition named `Slip...` is not the code. It is the neighbouring definition with one plausible
mistake (a missing guard, a value taken from the wrong copy, a wrong order) and shows which
property would notice. `PROJECT.json` pairs each property of each passing run with one.

## 3. What the runs check

| Run | Instance | Shows |
|---|---|---|
| `ticket_concurrent` | 2 requests, 1 manager, 1 agent, 1 portal user, lifecycle operations, clock to 2, no faults | `TicketInv`: types, what holds of any overlap (`ConcurrentInv`), coherence of the row and the timeline until a commit is overtaken (`OverlapInv`); assignee and customer told, resolution time kept by closing, everything queued once quiet; the table of edges and the refinement of `TicketContract` |
| `ticket_thread` | 2 requests, 1 manager, 1 portal user, assign, priority, reply and note, clock to 2, faults | response time recorded exactly when staff answered, no column overwritten by an unrelated request, the timeline as history, current audience |
| `overlaps` | see below | analyses under redelivery, SLA sweeps that overlap each other and the requests |
| `jobs` | see below | the safety of limiter, mail, inbox, ingestion, hub and fetch, and that each of them, and the sweeps, finish |
| `serving` | see below | summaries, calls and their ledger, cached figures, SLA figures, the text of documents |
| `accounts` | see below | administrators, sessions, organizations, files |
| `race_assigned` | 2 requests | *violated*: a slow assignment and an unassignment overlap and leave ASSIGNED without an agent |
| `stuck_pending` | 1 row, 1 request, 1 worker, faults, fair | *violated*: a pending row whose message was lost stays pending for ever |
| `sla_backlog` | 2 tickets, 1 priority, 1 sweep, batch 1, horizon 1, fair | *violated*: the older late ticket, alerted and still open, fills the batch of every sweep, and the younger one never gets its alert |
| `lone_admin` | 3 accounts, 1 request | *violated*: the last active administrator gives up the role while a deactivated one is counted |
| `question_unledgered` | 1 server, 1 errand | *violated*: a question to the knowledge base is billed and answered, and its ledger rows are rolled back |
| `chunk_overflow` | 1 text | *violated*: a segment of the largest size behind a full overlap exceeds the target by the blank line between them |

The parts of the composed runs:

| Run, part | Instance | Properties |
|---|---|---|
| `overlaps` claims | 3 analyses, 1 request, 2 workers, faults, hard limit 1, threshold 2 | `ClaimsAreExclusive`, `TimelineNamesCompleted`, `AskedOnce`, `OutcomeStands` |
| sla | 1 ticket, 2 priorities with a policy each, 1 request at a time, 2 sweeps, batch 1, horizon 1, 1 death | `SlaInv` |
| `jobs` claims | 2 analyses, 1 request, 2 workers, faults | `ClaimsEnd` |
| limit | 2 keys, limit 2, window 3, counters to 4 | `LimitInv` |
| sla | 2 tickets, 1 priority, 1 request at a time, 1 sweep, batch 1, horizon 1, 1 death | `LateIsRecorded` |
| mail | 1 occasion, 2 readers, 2 postmen, 1 retry, 1 fault | `MailInv`, `QueuedIsSettled` |
| inbox | 2 items, 2 clicks | `ReadTimeMovesOnlyInARace` |
| knowledge | 1 document, 2 editors, 2 ingesters, 1 fault | `KnowledgeInv`, `IngestionEnds` |
| hub | 1 socket, depth 1, 3 events of 3 kinds, 3 identities, 1 break | `HubInv`, `SlowOneLeaves` |
| fetch | 3 URLs, one of them not parsable, 2 redirects, 3 bytes | `EveryHopIsChecked` |
| `serving` summary | 3 messages, 2 summaries, 2 requests, clock to 5 | `ServedMissesOnlyOpen` |
| ai | 1 worker, 1 server, 2 vendors, 2 attempts, 2 errands | `AiInv` |
| cache | 2 viewers, 1 scope, 1 writer, 2 commits, 1 failure of any Redis call | `CacheInv` |
| figures | 2 tickets, 2 priorities, one of whose policies may be exchanged and switched off, no sweep, horizon 2, risk limit 1 | `FiguresAgree`, `FiguresAddUp` |
| text | texts up to 4 paragraphs, target 8, overlap 2; pages up to 5 events | `TextInv` |
| `accounts` admin | 3 accounts, 2 requests | `LastAdminGoesInARace`, `OnlyDemotionLocksOut` |
| auth | 1 holder, 3 tokens, 2 requests | `AuthInv`, `RevocationIsThorough` |
| tenancy | 2 organizations, 1 customer id, 3 accounts, 2 tickets | `TenancyInv` |
| files | an agent and a customer, 1 file, 2 media types, 1 fault | `AttachmentInv` |

A property that ends in `Inv`, and `FiguresAgree`, `FiguresAddUp` and `RevocationIsThorough`, is the
conjunction of named parts, each stated on its own in the module and most of them a theorem of
their own:

| Property | Its parts |
|---|---|
| `TicketInv` | `TypeOK`, `ConcurrentInv` (with `QueuedIsCommitted`: no e-mail before its commit), `OverlapInv` |
| `LimitInv` | types, `WindowIsHonoured`, `RetryAfterIsEnough` |
| `SlaInv` | types, `RepeatsNeedOverlap` (an alert at most as often as sweeps run at a time), `BreachIsEarned` (the time of a recorded breach had passed, and nothing that stopped the timer was committed before it) |
| `MailInv` | types, `NoDuplicateWithoutFault`, `AttemptsAddUp`, `AnnouncedFirst` |
| `KnowledgeInv` | types, `RetrievedIsWhole`, `ClaimedByOne`, `ObjectsFollowRows` |
| `AiInv` | types, `RowsAddUp` (the ledger row of every attempt), `AtItsCall`, `ClientOnItsLoop`, `NothingBilledIsAskedAgain`, and how far the rounded prices stray |
| `CacheInv` | types, `ServedIsSettled`, `CurrentEntriesAreTrue`, `CommitsAddUp`, `FloorsAgree`, `RequestKeeps` |
| `AuthInv` | types, `OneLivePerLogin`, and of every request that it agrees with the rows (`Fits`) |
| `HubInv` | types, `NoGaps`, `OnlyTheMarker` |
| `TenancyInv` | types and the lock, `ReferencesStayInside`, `NumbersCountUp` |
| `AttachmentInv` | types, every row has its object, `NoteFilesStayInternal`, `DownloadsWereAllowed` |
| `TextInv` | types, `PageTextKeepsTheRest`, `SkippingIsTheDepth`, `NothingIsLost`, `OnlySeparatorsOverflow`, `RestFollows` |
| `FiguresAgree` | `OverdueIsBreached`, `PrefilterHidesNothing` |
| `FiguresAddUp` | `ComplianceAddsUp`, `NothingMoreUrgentIsHidden` |
| `RevocationIsThorough` | `ReuseEndsTheFamily`, `LogoutEndsTheSession` |

### Where the code and its documents disagree

The violated runs are such disagreements; `PROJECT.json` quotes the lines. Others were met while
modelling and are not runs of their own:

- *Decisions on an unlocked row*, the cause of `race_assigned`, let a slow assignment put a ticket
  at work back to ASSIGNED, a reply commit after a close, two first replies each set the response
  time, and an overtaken commit leave a timeline that does not add up to the row; two
  administrators may demote each other at once. These are the escapes (`torn`, `Overtaken`,
  `outrun`, a request that does not stand) of the properties of `TicketLifecycle` and `UserAdmin`,
  which say that nothing else does it.
- *The in-flight guard* of the analyses (`ai_analysis_service.py:221`) is a read before an insert: two
  requesters both look before either writes, and one operation is queued twice. Each row is still
  claimed once and asked once.
- *A summary can miss a message* that was open while the worker read (`ai_repository.py:450`):
  the message's `created_at` is older than the summary's row although the worker could not see
  it. `ServedMissesOnlyOpen` bounds what can be missed.
- *A member of staff made a customer* has no customer record (`user_service.py:159`, against what
  `create_user` says at `:66-69`).
- *Answers withheld by the vendor* are billed and their rows say zero tokens (`ai/groq.py:420`,
  `:428-432`, `ai/claude.py:308`, `:315-321`). `AiInv` excepts exactly these.
- *A version that cannot be read* is taken as 0 (`core/cache.py:150-171`), so entries of version 0
  may be served and stored while Redis fails in part; `ServedIsSettled` is about requests that could
  read the version (`Certain`) and about invalidations that went through.
- *A socket is acknowledged before it is registered* (`api/websocket.py:159-163`): an event
  published in between does not reach it.
- *Two overlapping sweeps* both find an alert unrecorded and both record it (`sla_tasks.py:215`,
  `:240-267`); `RepeatsNeedOverlap` bounds the copies by the sweeps that run at a time.
- *A reply in time may get a breach recorded*: `first_response_at` is dated before its transaction
  commits (`message_service.py:160`, `:170`), and a sweep in between finds the timer running. The
  alert then carries a due time after the date of the reply. `BreachIsEarned` compares with the commit.
- *A delivery that raises* at the load of its row, at the stamp or at the time limit is acknowledged
  (`email_tasks.py:118-209`, `celery_app.py:137-160`) and nothing looks for the unsent notice;
  `QueuedIsSettled` counts it as settled under a name of its own (`raised`).
- *A deletion that stops half way* leaves a document whose object is gone; `ObjectsFollowRows`
  excepts exactly the documents on which a request stopped (`broken`) or is under way.

### Bounds, and why they are enough

- *Two requests* are every pairwise overlap; three add no new kind of merge, because a commit is
  decided by what the request loaded and by the row at that moment, and one other request can
  bring the row to any reachable value in between (requests are reused after they end). The
  invariants of any overlap are proved for any number.
- *One manager, one or two agents, one portal user* are the roles the guards tell apart; the second
  agent is what a reassignment needs. `Priorities` has one value where no priority changes.
- *Priorities in `ticket_concurrent`, agents and status changes in `ticket_thread`* are left out because
  each run takes the operations whose overlaps it asks about; `TimelineTold`, `Audience`,
  `NothingLost` and the other theorems are of all seven operations and any users.
- *Clock to 2*: the properties compare timestamps only with zero and with each other.
- *Hard limit 1, threshold 2* keep the order `HardLimit < AbandonedAfter` that the settings keep
  (`core/config.py:62-90`; the defaults are further apart) and let a claim be exactly as old as
  either; the theorems need no more than that order. `IngestLimit` and `IngestPatience` likewise.
- *Three analyses* are two batches of one endpoint pair and the other endpoint; *two workers* are a
  run and its redelivery, and so are two postmen and two ingesters.
- *Three messages, two summaries, two requests, clock to 5*: one message before, during and
  after a worker's read, and a summary to replace.
- *Three accounts, two requests*: an administrator acting, one acted on and one that is deactivated,
  and two administrators who act on each other.
- *Limit 2, window 3*: one admission less than, at and over the limit, and time within a window.
- *Horizon 2* in `figures` reaches every boundary of the strict policy (response 1, resolution 2,
  warning at half), which may be exchanged for one that is switched off, and back. *Horizon 1* in
  `overlaps` and `jobs` is enough for policies whose response is due at 1: a ticket of 0 is
  late at 1, and an answer to it may be dated and committed before that or at it, or dated before
  and committed at it. `SlaInv` is checked with policies at rest,
  because edits double its states; that it survives edits and switching off is `SweepsAgree`.
- *Two tickets, batch 1* in `jobs` and `sla_backlog`: the batch can be full, so that `LateIsRecorded`
  is about the ticket a sweep reaches, and its converse for the other is the violated run.
- *Three tokens* are a login, its replacement, and a second login or a second replacement; *two
  requests* are a refresh against another refresh, a logout or the answer to a reuse.
- *Two organizations, each with a first administrator, and one more account*: every reference can
  point inside or outside. Two tickets are two numbers of one organization or one of each.
- *Two attempts, two errands*: a failure and a retry, and an errand on a client left by another.
- *Two commits, one failure, one scope*: an invalidation that goes through around one that fails.
- *Depth 1, three events*: one queued, one that overflows, one after.
- *Faults, deaths, breaks* are one each: what follows a fault is the state it leaves, and each kind of
  state it can leave is reached. Where a proof exists the bound is gone.
- *Texts up to four paragraphs* of sentence lengths around the segment limit: an overlap of more than
  one segment, a paragraph that is split, a sentence that is cut.

Symmetry is used for requests, workers, rows, messages, tokens and accounts where no action names
one of them, and never with liveness; in `serving` for messages only, because the other parts pay
for every permutation. `CHECK_DEADLOCK FALSE` is set where the system may stop: when
the clock, the rows, the tokens or the errands of the instance are used up, nobody may call any
more, or the one fetch, document or page is done.

### Fairness

`FairSpec` of `AnalysisClaims` assumes that a request which wrote or looked goes on (it is a
coroutine with no further wait), that the broker hands out what it holds to an idle worker, that a
living worker makes progress or runs into its hard limit (Celery kills it there), that time passes
and that beat runs the sweep. Nothing makes anybody ask, nothing prevents or forces a fault, and
weak fairness is enough everywhere. Processes that die are restarted by their supervisor, which is
what makes an idle worker available again. The other parts assume as little:

- `SlaFair`: beat queues a sweep and a worker takes its next statement (`SweepStep`).
- `MailFair`: a postman that exists takes its next step; losing it is bounded by the faults.
- `KnowledgeFair`: an ingester goes on or is stopped by its time limit, minutes pass, and the sweep
  runs. No editor is assumed to do anything.
- `HubFairness`: the writer is a task of the loop, a send ends or times out, and the disconnect of a
  closed socket is reported. No client is assumed to read.

## 4. What is proved

All proofs are checked by `tlapm`; each proof module extends its model and holds for every value
of the constants that satisfies the model's assumptions. The theorems are about each component's
own specification; the composed runs run these specifications one at a time.

| Module | Theorem | Says |
|---|---|---|
| `TicketLifecycle_proof` | `TypeCorrect`, `Concurrent` | types and `ConcurrentInv`, any number of overlapping requests, faults included |
| | `ResponseTime`, `AssigneeTold`, `CustomerTold`, `NoEmailBeforeCommit` | the four safety properties of any overlap |
| | `Overlapping`, `WholeTicket` | `OverlapInv`; and with types and `ConcurrentInv`, `TicketInv` as `ticket_concurrent` checks it: any overlap |
| | `TimelineTold`, `Audience`, `Moves`, `OnlyTornUnassigns` | the timeline, the audience, the table of edges and ASSIGNED: any overlap, up to the commits that were overtaken |
| | `QuietAnnounced`, `ClosingKeeps`, `NothingLost` | once quiet everything is announced; closing keeps the resolution time; a commit overwrites no column its operation does not set: any overlap |
| | `ImplementsTheContract` | the refinement of `TicketContract`: every commit that still stands is one of its atomic steps, any overlap |
| `AnalysisClaims_proof` | `Claims` | types and `ClaimInv` |
| | `ExclusiveClaims`, `HonestTimeline`, `NeverAskedAgain`, `FinalOutcome` | the four safety properties |
| `Accounts_proof` | `TypeCorrect` | types of `UserAdmin`, any overlap |
| | `LastAdmin`, `Demotion` | how the last administrator, and the last active one, can be lost, any overlap |
| | `AuthInvHolds` | one live token per login, any overlap of refresh, reuse, logout and deactivation |
| | `RevocationIsThoroughHolds` | reuse ends the account's sessions and logout its own, but for what was issued while the UPDATE could not see it |
| `Tenancy_proof` | `Inside` | no row ever refers into another organization |
| | `Locking`, `Numbering` | one transaction per organization numbers; numbers are unique and without gaps |
| `Files_proof` | `Knowledge` | types and `KnowledgeInv` |
| | `WholeRetrieval`, `ExclusiveIngestion`, `ObjectsNamed`, `OutcomesStand` | the four safety properties, any number of documents, editors and ingesters |
| | `RowsHaveObjects`, `NotesStayInternal`, `AllowedDownloads` | the attachments |
| `Borders_proof` | `Limited`, `Honoured`, `WaitIsEnough` | the limiter: nobody over the limit in a window, and nobody told to wait too briefly |
| | `HopsChecked` | every hop of a fetch was found routable at that hop |
| | `MailHolds`, `NoDuplicates` | no notice is sent more often than once and once more for each fault; what is queued is committed, tasks that raise included |
| | `ReadTimesStand` | a read time moves only when both ways of reading race |
| | `HubHolds` | a socket gets what its caller could read, in order and without gaps, and one that fell behind a beginning of it |
| `Serving_proof` | `Timestamps`, `ServedSummary` | `FreshInv` and what a served summary can miss |
| | `CacheInvHolds` | nothing served is older than the last invalidation that went through |
| | `LedgerAddsUp` | every attempt has its row, the rows carry every token charged but those of withheld answers, a billed answer is not asked for again, and a client stays on its loop |
| | `NoTextIsLost` | what is kept of a page, and that the passages hold every segment and are over the target by separators at most |
| `SlaFigures_proof` | `EarnedBreach` | every recorded breach is one, as far as a sweep could see, any number of overlapping sweeps, requests, edits and deaths |
| | `NothingTwice`, `SweepsAgree` | an alert is on record at most as often as sweeps run at a time; `SlaInv`: any overlap |
| | `SameLateness`, `CountsAgree`, `PrefilterHolds` | the dashboard's SQL and the prefilter agree with the timers |
| | `AddsUp` | compliance counts every ticket once, and the risk list hides nothing more urgent than what it shows |

The inductive invariants, and why the properties alone are not inductive:

- **`ConcurrentInv`**: "the assignee was told" can only survive another request's commit if what is
  *staged* already carries its notice. So each staged update says: an agent it names is among its own
  notices (or is a manager), a resolution time it sets comes with notices for every portal user, a
  first response it sets belongs to a staff reply, and a staff reply that sets none saw one already
  in the row. Writing a column and its justification in one transaction is what makes these survive
  any interleaving; a `Keep` inherits the justification of whoever wrote the column. What is
  committed and not announced is some request's to announce (`Announcing`): that, with nobody left
  in flight, is `QuietMeansAnnounced`.
- **`OverlapInv`**: that the row is coherent survives another request's commit because of what is
  staged, not because of who is serialized. A staged update keeps the `Shape` its operation gave it
  whatever is committed meanwhile, and its decision stands until another commit changes the row
  (`stale`); if it still stands on the row as it is at the commit, the shape and `Stands` together
  make it a step of `TicketContract` from that row, however far back its read lies. If it does not
  stand, the commit sets `torn`, and coherence is claimed no more. The addressee of an envelope is
  the agent the row will have, unless the request is in `outrun`.
- **`ClaimInv`**: a claim is never older than the run that holds it, and a run never older than the
  hard limit, which is below the threshold; so what the sweep fails is held by nobody. Claims of two
  workers are disjoint because the UPDATE that claims is conditional on pending. The only claimed
  analysis already asked about is the one being asked about, which gives `AskedOnce`; no row in an
  outcome is anybody's claim, which gives `OutcomeStands` although outcomes are written by key.
- **`FreshInv`**: a message that is neither covered nor missed began after the row was stamped, so the
  comparison with `created_at` finds it.
- **`AdminInv`** says of a request how it came to commit: it counted somebody other than its target,
  and a deactivation is not of its caller. Then, if target and counted are as they were, a commit
  that takes the last administrator would have to take one who was counted.
- **`AuthInv`**: `OneLivePerLogin` survives a rotation only because the row it replaces is live and
  held by the request (`Fits`) and a row is held by one transaction. A revocation keeps that every
  live row of the account is aimed at or was issued since (`missed`): at its commit, that is the
  action property.
- **`CacheInv`**: a request served under a version must not be given what was computed before it, so
  each request carries a `floor`, the settled figure when it read the version, and what it read and
  the entry it will find are no older (`RequestKeeps`). Two requests of one key share their floor
  (`FloorsAgree`), or one could store what is too old for the other. Commits, invalidations and lost
  invalidations are counted against each other (`CommitsAddUp`): a version that stands still while
  nobody is about to move it means that no write went by.
- **`MailInv`**: "at most once and once per fault" is a count of what may *still* reach the server:
  sends done, messages queued, workers that hold one and the queueing to come are at most one more
  than the faults (`AttemptsAddUp`); a fault adds one, every other step moves one from a place to
  the next.
- **`HubInv`**: what a socket has got, is being sent and has queued is what it is owed; once it fell
  behind only a prefix is, and its queue holds the marker alone (`OnlyTheMarker`), so nothing later
  follows the gap. A socket outside the registry is blank.
- **`AiInv`**: the rows of an errand add up at every moment (`RowsAddUp`), and how many attempts it can
  have made follows from how many calls are behind it and the attempt it is at (`AtItsCall`). Prices
  are rounded per row: each priced row strays by at most half a unit, and so the sums by half a unit
  for each (`Stray`).
- **`TextInv`**: the depth the parser counts is the most that any stretch of the page ending here
  opens (`SkippingIsTheDepth`), which is what being inside a skipped element means. Passages
  continue each other segment by segment, and what is still to be packed goes on where the last one
  ends (`RestFollows`). A passage that starts with an overlap holds, in tokens, no more than the
  overlap and one segment, which is the target; only the separators are not counted.
- **`TenancyInv`**, strengthened: a request that has a number holds its organization's lock, its
  number is one above all committed ones and no other request has one there; a customer it has
  looked up is of its organization and stays so, because no operation moves a record. Numbers in use
  are `1 .. k`, so the next one keeps them so.
- **`KnowledgeInv`**, strengthened: a claim is as old as the run that made it at most, and a run stops
  before the sweep's patience, so a swept claim is nobody's; an upload between object and row is of a
  document no other request registers; a deletion between them has removed the object.
- **The limiter's**: a counter and its expiry come and go together, those admitted are among those
  counted, and what a refused caller has left to wait is what the counter has left to live.
- **The fetch's**: a fetch on its way to a URL has parsed it and has a redirect left for it, and the
  hops of earlier rounds had more left, so the chain is no longer than the limit.
- **The files'**: uploads in flight have distinct files without rows, whose objects exist once stored;
  a found file was one its finder may read; a ticket checked was theirs during the request.
- **The sweep's**: a timer of a ticket that a session holds runs as it does now, or was stopped by a
  commit since the sweep took its time (`landed`), even though its date may lie before; so a staged
  breach was earned although the answer was not seen. A sweep stages one alert of a key, and only
  one that is unrecorded: copies recorded and sweeps that still stage one are together no more than
  the sweeps.
- **The risk list**: its order is total, and a list cut off at the limit is the beginning of it: a
  ticket outside comes after all that are inside.

Sums of lists of any length are needed for `AiInv` and `TextInv`. What the recursive function
`SumOf` returns is proved with a least counterexample (`LeastNumber`, from the well-foundedness of
`<`): the running sums exist, agree as far as two lists do, and grow by the number that is added
(`SumOfMore`). The library's induction theorems, which take an operator, are not used.

Assumptions: those of the modules (`UserAssumption`: roles are disjoint and nobody is `NoUser`;
`KeepAssumption`: `Keep` is no value of a column; `HoldersAssumption`, `MailAssumption`: there is
an account, an occasion and a reader; `HubAssumption`: there is a caller, and no caller is `NoOne`;
`LimitAssumption`, `RateAssumption`, `IngestAssumption`, `TextAssumption` and so on), which TLC
evaluates on every run. `SlaAssumption` says that the tickets and the sweeps are finitely many, because
the figures and the bound on repeats count them. No theorem assumes that requests or sweeps take
turns.

Only model-checked: liveness (`ClaimsEnd`, `LateIsRecorded`, `QueuedIsSettled`, `IngestionEnds`,
`SlowOneLeaves`), which rests on fairness and so on `ENABLED`, beyond the prover. Every other property
of the passing runs is stated by a theorem.

Only proved, and part of no run: the types of `AnalysisClaims`, `SummaryFreshness` and `UserAdmin`, the
inductive invariants `ClaimInv`, `FreshInv` and `AdminInv`, and `IngestionOutcomeStands`.

## 5. What is not modelled

- *Audit trail*: append-only rows in the transaction of what they record; they stand and fall with
  it and no modelled code reads them.
- *HTTP shell and configuration, schemas*: wiring, declarative validation and rendering. The settings
  that matter are constants of the modules, the validations that matter are guards.
- *Database schema and migrations*: generated DDL; the constraints that bear on behaviour (unique
  numbers, `resolved_at_matches_status`) are guards.
- *Frontend*: a shell without the ticket screens; its stores hold presentation.
- *Scripts*: demo data and walkthroughs that call the API.
- *Inside modelled components*: prompts and the text of answers, similarity search, PDF and DOCX
  extraction, password hashing and token signing, ping and pong, key syntax and streaming of the
  object store, search, ranking and paging of lists, and the SQL of the aggregates other than the SLA figures,
  which are one figure each in `AnalyticsCache`.

Of the hazards three have no property. An account whose role changes keeps or lacks its customer link
(`PROJECT.json` says why), the in-flight guard of the analyses does not exclude a second row when
two requesters overlap, and what a search matches for whom is one permission check in one function,
which a property could only restate. Two are covered only in part, on purpose: an e-mail whose enqueue fails
after the commit is given up by design (`QueuedIsSettled` is about those that were queued), and the
timeline does not mention what a worker completed before it died short of its closing commit. The race of two creations of one address ends in a refused insert and
changes nothing, so it has no property.
