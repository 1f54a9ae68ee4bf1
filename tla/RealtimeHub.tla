---------------------------- MODULE RealtimeHub ----------------------------
(***************************************************************************)
(* One instance's sockets (websocket/manager.py, websocket/events.py,      *)
(* api/websocket.py): the frame that opens one, the bounded queue and the  *)
(* writer of each, the fan-out to those who may see an envelope, and the   *)
(* Redis subscription that feeds it, which breaks and is taken up again.   *)
(***************************************************************************)
EXTENDS Naturals, Sequences

SeqExt == INSTANCE SequencesExt

CONSTANTS
    Sockets,   \* client connections, one after the other in each
    Envelopes, \* the envelopes the organizations' changes publish
    Contexts,  \* the callers a token resolves to
    NoOne,     \* a nullable column or field that is NULL
    Depth,     \* WS_QUEUE_MAX_DEPTH
    MaxEvents, \* bound: envelopes published
    Breaks     \* bound: times the subscription breaks

ASSUME HubAssumption ==
    /\ Depth \in Nat \ {0} /\ MaxEvents \in Nat /\ Breaks \in Nat
    /\ \A e \in Envelopes :
          /\ DOMAIN e = {"org", "kind", "agent", "customer", "user"}
          /\ e.kind \in {"ticket", "note", "notification"}
    /\ \A c \in Contexts :
          /\ DOMAIN c = {"org", "role", "user", "customer"}
          /\ c.role \in {"admin", "manager", "agent", "customer"}
          /\ c.user # NoOne
    /\ Contexts # {}

VARIABLES
    sockets,
    published, \* envelopes published so far, whoever heard them
    wire,      \* what the subscription has brought and nobody dispatched
    subscribed,
    breaks

hubVars == <<sockets, published, wire, subscribed, breaks>>

Event == [n : 1 .. MaxEvents, e : Envelopes]

\* The marker that tells the writer to close.
Close == [n |-> 0]

\* code: close_code.  sending: what the writer holds.  got: what the client
\* received; owed: what the caller may read over HTTP of everything dispatched
\* since the socket was registered.
Socket == [pc : {"none", "accepted", "acked", "open", "closed"},
           who : Contexts, code : {"none", "slow"},
           queue : Seq(Event \cup {Close}), sending : Seq(Event),
           got : Seq(Event), owed : Seq(Event)]

HubTypeOK ==
    /\ sockets \in [Sockets -> Socket]
    /\ \A s \in Sockets :
          Len(sockets[s].queue) <= Depth /\ Len(sockets[s].sending) <= 1
    /\ published \in 0 .. MaxEvents /\ wire \in Seq(Event)
    /\ subscribed \in BOOLEAN /\ breaks \in 0 .. Breaks

-----------------------------------------------------------------------------
\* TICKET_SCOPE_BY_ROLE, and its fallback.
ScopeFor(role) ==
    CASE role \in {"admin", "manager"} -> "organization"
      [] role = "agent" -> "assigned"
      [] OTHER -> "own"

\* A slip: the owner of a ticket sees whatever is written about it.
SlipVisibleTo(e, c) ==
    /\ e.org = c.org
    /\ IF e.kind = "notification" THEN e.user = c.user
       ELSE CASE ScopeFor(c.role) = "organization" -> TRUE
              [] ScopeFor(c.role) = "assigned" -> e.agent = c.user
              [] OTHER -> e.customer = c.customer

\* envelope_visible_to
VisibleTo(e, c) ==
    /\ e.org = c.org
    /\ IF e.kind = "notification" THEN e.user = c.user
       ELSE /\ e.kind = "note" => c.role # "customer"
            /\ CASE ScopeFor(c.role) = "organization" -> TRUE
                 [] ScopeFor(c.role) = "assigned" -> e.agent # NoOne /\ e.agent = c.user
                 [] OTHER -> e.customer # NoOne /\ e.customer = c.customer

\* What the same caller may read over HTTP: the tenant's rows, then
\* row_scope_predicate (a NULL column equals nothing), then the thread without
\* its internal notes; of notifications, the caller's own.
SqlEquals(a, b) == a # NoOne /\ b # NoOne /\ a = b
Readable(e, c) ==
    /\ e.org = c.org
    /\ \/ e.kind = "notification" /\ SqlEquals(e.user, c.user)
       \/ /\ e.kind \in {"ticket", "note"}
          /\ \/ c.role \in {"admin", "manager"}
             \/ c.role = "agent" /\ SqlEquals(e.agent, c.user)
             \/ c.role = "customer" /\ e.kind # "note" /\ SqlEquals(e.customer, c.customer)

-----------------------------------------------------------------------------
NoSocket(who) ==
    [pc |-> "none", who |-> who, code |-> "none", queue |-> <<>>, sending |-> <<>>,
     got |-> <<>>, owed |-> <<>>]

\* realtime_socket accepts, and waits for the frame.
Accept(s) ==
    /\ sockets[s].pc = "none"
    /\ sockets' = [sockets EXCEPT ![s].pc = "accepted"]
    /\ UNCHANGED <<published, wire, subscribed, breaks>>

\* The frame does not come in time, cannot be read, or its token does not pass.
Refuse(s) ==
    /\ sockets[s].pc = "accepted"
    /\ sockets' = [sockets EXCEPT ![s].pc = "none"]
    /\ UNCHANGED <<published, wire, subscribed, breaks>>

\* The token passes, and the client is told so.
Authenticate(s, who) ==
    /\ sockets[s].pc = "accepted"
    /\ sockets' = [sockets EXCEPT ![s].pc = "acked", ![s].who = who]
    /\ UNCHANGED <<published, wire, subscribed, breaks>>

\* serve: registered, and its writer started.
Serving(s) ==
    /\ sockets[s].pc = "acked"
    /\ sockets' = [sockets EXCEPT ![s].pc = "open"]
    /\ UNCHANGED <<published, wire, subscribed, breaks>>

\* publish, after a commit: heard by whoever is subscribed.
PublishEvent(e) ==
    /\ published < MaxEvents
    /\ published' = published + 1
    /\ wire' = IF subscribed THEN Append(wire, [n |-> published + 1, e |-> e]) ELSE wire
    /\ UNCHANGED <<sockets, subscribed, breaks>>

\* Redis cannot be reached to publish, or what it brings cannot be read.
PublishFails ==
    /\ published < MaxEvents
    /\ published' = published + 1
    /\ UNCHANGED <<sockets, wire, subscribed, breaks>>

\* A slip: the marker does not fit behind the backlog, and is passed over.
SlipOffered(c, event) ==
    IF c.code # "none" THEN c
    ELSE IF Len(c.queue) < Depth THEN [c EXCEPT !.queue = Append(@, event)]
    ELSE [c EXCEPT !.code = "slow"]

\* offer: nothing after a close; a full queue drops its backlog for the marker.
Offered(c, event) ==
    IF c.code # "none" THEN c
    ELSE IF Len(c.queue) < Depth THEN [c EXCEPT !.queue = Append(@, event)]
    ELSE [c EXCEPT !.code = "slow", !.queue = <<Close>>]

\* _dispatch and broadcast, in one turn of the loop.
Dispatch ==
    /\ wire # <<>>
    /\ wire' = Tail(wire)
    /\ LET event == Head(wire) IN
       sockets' = [s \in Sockets |->
          IF sockets[s].pc # "open" THEN sockets[s]
          ELSE LET owed == IF Readable(event.e, sockets[s].who)
                           THEN [sockets[s] EXCEPT !.owed = Append(@, event)]
                           ELSE sockets[s]
               IN IF VisibleTo(event.e, sockets[s].who) THEN Offered(owed, event) ELSE owed]
    /\ UNCHANGED <<published, subscribed, breaks>>

\* The writer takes the next of its queue; the marker makes it close.
Taken(c) ==
    IF Head(c.queue) = Close THEN [c EXCEPT !.pc = "closed", !.queue = Tail(c.queue)]
    ELSE [c EXCEPT !.sending = <<Head(c.queue)>>, !.queue = Tail(c.queue)]

TakeNext(s) ==
    /\ sockets[s].pc = "open" /\ sockets[s].sending = <<>> /\ sockets[s].queue # <<>>
    /\ sockets' = [sockets EXCEPT ![s] = Taken(sockets[s])]
    /\ UNCHANGED <<published, wire, subscribed, breaks>>

Send(s) ==
    /\ sockets[s].pc = "open" /\ sockets[s].sending # <<>>
    /\ sockets' = [sockets EXCEPT ![s].got = @ \o sockets[s].sending, ![s].sending = <<>>]
    /\ UNCHANGED <<published, wire, subscribed, breaks>>

\* The client has stopped reading for WS_SEND_TIMEOUT_SECONDS, or is gone.
SendFails(s) ==
    /\ sockets[s].pc = "open" /\ sockets[s].sending # <<>>
    /\ sockets' = [sockets EXCEPT ![s].pc = "closed", ![s].code = "slow", ![s].sending = <<>>]
    /\ UNCHANGED <<published, wire, subscribed, breaks>>

\* The reader sees the disconnect: the writer is cancelled, and the socket
\* leaves the registry.  What was queued is gone with it.
Disconnect(s) ==
    /\ sockets[s].pc \in {"open", "closed"}
    /\ sockets' = [sockets EXCEPT ![s] = NoSocket(sockets[s].who)]
    /\ UNCHANGED <<published, wire, subscribed, breaks>>

\* _listen ends with an error; subscribe_forever takes the pattern up again.
SubscriptionBreaks ==
    /\ subscribed /\ breaks < Breaks
    /\ subscribed' = FALSE /\ wire' = <<>> /\ breaks' = breaks + 1
    /\ UNCHANGED <<sockets, published>>

Resubscribe ==
    /\ ~subscribed
    /\ subscribed' = TRUE
    /\ UNCHANGED <<sockets, published, wire, breaks>>

HubInit ==
    /\ sockets = [s \in Sockets |-> NoSocket(CHOOSE c \in Contexts : TRUE)]
    /\ published = 0 /\ wire = <<>> /\ subscribed = TRUE /\ breaks = 0

HubNext ==
    \/ \E s \in Sockets :
          \/ Accept(s) \/ Refuse(s) \/ Serving(s)
          \/ \E who \in Contexts : Authenticate(s, who)
          \/ TakeNext(s) \/ Send(s) \/ SendFails(s) \/ Disconnect(s)
    \/ \E e \in Envelopes : PublishEvent(e)
    \/ PublishFails \/ Dispatch \/ SubscriptionBreaks \/ Resubscribe

HubSpec == HubInit /\ [][HubNext]_hubVars

\* The writer is a task of the loop, and a send ends or times out; a closed
\* socket's disconnect is reported.
HubFairness ==
    \A s \in Sockets :
       /\ WF_hubVars(TakeNext(s))
       /\ WF_hubVars(Send(s) \/ SendFails(s))
       /\ WF_hubVars(sockets[s].pc = "closed" /\ Disconnect(s))

HubFairSpec == HubSpec /\ HubFairness

-----------------------------------------------------------------------------
\* Nobody has dispatched anything to it.
Blank(c) ==
    /\ c.code = "none" /\ c.queue = <<>> /\ c.sending = <<>> /\ c.got = <<>> /\ c.owed = <<>>

\* A socket nobody has given up on has got, or will get, everything its caller
\* could read over HTTP of what was dispatched since it was registered, in
\* order and nothing else; one that fell behind got a beginning of it and never
\* a later part.  No socket outside the registry is owed or sent anything.
NoGaps ==
    \A s \in Sockets :
       LET c == sockets[s] IN
       /\ c.code = "none" => c.got \o c.sending \o c.queue = c.owed
       /\ SeqExt!IsPrefix(c.got \o c.sending, c.owed)
       /\ c.pc \in {"none", "accepted", "acked"} => Blank(c)

\* A socket that fell behind waits for nothing but the marker.
OnlyTheMarker ==
    \A s \in Sockets :
       sockets[s].pc = "open" /\ sockets[s].code = "slow" => sockets[s].queue = <<Close>>

\* What every socket was given, is being given and still has to come.
HubInv == HubTypeOK /\ NoGaps /\ OnlyTheMarker

\* A client that stopped reading does not stay in the registry.
SlowOneLeaves ==
    \A s \in Sockets : (sockets[s].code = "slow") ~> (sockets[s].pc = "none")
=============================================================================
