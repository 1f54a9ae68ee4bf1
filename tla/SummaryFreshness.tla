-------------------------- MODULE SummaryFreshness --------------------------
(***************************************************************************)
(* Whether a stored summary is still the answer (request_summary,          *)
(* services/ai_analysis_service.py).  A message and a summary row carry    *)
(* created_at = now(), which in PostgreSQL is the start of the transaction *)
(* and not its commit.  request_summary serves the newest completed        *)
(* summary when no visible message is younger than its row; the worker     *)
(* that filled the row read the conversation later than the row was        *)
(* written.  Messages are posted, summaries asked for and made             *)
(* concurrently, each statement seeing what is committed by then.          *)
(***************************************************************************)
EXTENDS Naturals, FiniteSets

CONSTANTS
    Messages,   \* customer and agent messages; bound: how many are posted
    Summaries,  \* summary rows; bound: how many are written
    Requests,   \* requests for a summary in flight together
    MaxClock    \* bound: how many transactions begin

ASSUME ClockAssumption == MaxClock \in Nat

VARIABLES
    clock,  \* the last now() handed out; every transaction gets its own
    posts,  \* the messages
    sums,   \* the SUMMARIZE rows of ai_analyses
    calls   \* the requests

vars == <<clock, posts, sums, calls>>

Post == [pc : {"none", "open", "committed"}, at : Nat]

\* covers and missed are what the worker's load_conversation found committed
\* and what it could not see because its transaction was open.
Summary == [status : {"none", "pending", "loaded", "completed", "failed"},
            at : Nat, covers : SUBSET Messages, missed : SUBSET Messages]

Call == [pc : {"idle", "began", "looked", "marked"}, at : Nat,
         seen : SUBSET Messages]

NoCall == [pc |-> "idle", at |-> 0, seen |-> {}]

TypeOK ==
    /\ clock \in Nat
    /\ posts \in [Messages -> Post]
    /\ sums \in [Summaries -> Summary]
    /\ calls \in [Requests -> Call]

Committed == {m \in Messages : posts[m].pc = "committed"}

-----------------------------------------------------------------------------
(* A message: its transaction starts, and commits some time later *)

Begin(m) ==
    /\ posts[m].pc = "none"
    /\ clock < MaxClock
    /\ clock' = clock + 1
    /\ posts' = [posts EXCEPT ![m] = [pc |-> "open", at |-> clock + 1]]
    /\ UNCHANGED <<sums, calls>>

Land(m) ==
    /\ posts[m].pc = "open"
    /\ posts' = [posts EXCEPT ![m].pc = "committed"]
    /\ UNCHANGED <<clock, sums, calls>>

-----------------------------------------------------------------------------
(* A request for a summary, statement by statement *)

Ask(r) ==
    /\ calls[r].pc = "idle"
    /\ clock < MaxClock
    /\ clock' = clock + 1
    /\ calls' = [calls EXCEPT ![r] = [pc |-> "began", at |-> clock + 1,
                                      seen |-> {}]]
    /\ UNCHANGED <<posts, sums>>

\* in_flight_analyses: a summary on its way is the answer.
Look(r) ==
    /\ calls[r].pc = "began"
    /\ calls' = IF \E s \in Summaries : sums[s].status \in {"pending", "loaded"}
                  THEN [calls EXCEPT ![r] = NoCall]
                  ELSE [calls EXCEPT ![r].pc = "looked"]
    /\ UNCHANGED <<clock, posts, sums>>

\* conversation_watermark; an empty conversation is refused.
Mark(r) ==
    /\ calls[r].pc = "looked"
    /\ calls' = IF Committed = {}
                  THEN [calls EXCEPT ![r] = NoCall]
                  ELSE [calls EXCEPT ![r].pc = "marked", ![r].seen = Committed]
    /\ UNCHANGED <<clock, posts, sums>>

\* latest_completed_summary: the completed row with the greatest created_at.
Stored(s) ==
    /\ sums[s].status = "completed"
    /\ \A t \in Summaries : sums[t].status = "completed" => sums[t].at <= sums[s].at

SlipCurrent(seen, s) == \E m \in seen : posts[m].at <= sums[s].at

\* watermark.newest <= stored.created_at
Current(seen, s) == \A m \in seen : posts[m].at <= sums[s].at

\* The stored summary is served ...
Serve(r, s) ==
    /\ calls[r].pc = "marked"
    /\ Stored(s) /\ Current(calls[r].seen, s)
    /\ calls' = [calls EXCEPT ![r] = NoCall]
    /\ UNCHANGED <<clock, posts, sums>>

\* ... or a new row is written and queued.
Write(r, new) ==
    /\ calls[r].pc = "marked"
    /\ ~ \E s \in Summaries : Stored(s) /\ Current(calls[r].seen, s)
    /\ sums[new].status = "none"
    /\ sums' = [sums EXCEPT ![new] = [status |-> "pending", at |-> calls[r].at,
                                      covers |-> {}, missed |-> {}]]
    /\ calls' = [calls EXCEPT ![r] = NoCall]
    /\ UNCHANGED <<clock, posts>>

-----------------------------------------------------------------------------
(* The worker *)

\* load_conversation, long after the row was written.
Load(s) ==
    /\ sums[s].status = "pending"
    /\ sums' = [sums EXCEPT ![s].status = "loaded", ![s].covers = Committed,
                            ![s].missed = {m \in Messages : posts[m].pc = "open"}]
    /\ UNCHANGED <<clock, posts, calls>>

\* The outcome, and the row's created_at stays what it was.
Finish(s, outcome) ==
    /\ sums[s].status = "loaded"
    /\ sums' = [sums EXCEPT ![s].status = outcome]
    /\ UNCHANGED <<clock, posts, calls>>

-----------------------------------------------------------------------------
Init ==
    /\ clock = 0
    /\ posts = [m \in Messages |-> [pc |-> "none", at |-> 0]]
    /\ sums = [s \in Summaries |-> [status |-> "none", at |-> 0,
                                    covers |-> {}, missed |-> {}]]
    /\ calls = [r \in Requests |-> NoCall]

Next ==
    \/ \E m \in Messages : Begin(m) \/ Land(m)
    \/ \E r \in Requests :
          \/ Ask(r) \/ Look(r) \/ Mark(r)
          \/ \E s \in Summaries : Serve(r, s) \/ Write(r, s)
    \/ \E s \in Summaries :
          Load(s) \/ \E outcome \in {"completed", "failed"} : Finish(s, outcome)

Spec == Init /\ [][Next]_vars

-----------------------------------------------------------------------------
\* A stored summary is served although it misses a visible message only when
\* that message's transaction was open while the worker read the conversation:
\* comparing with the row's created_at catches every later one.
ServedMissesOnlyOpen ==
    [][\A r \in Requests, s \in Summaries :
          Serve(r, s) => calls[r].seen \ sums[s].covers \subseteq sums[s].missed]_vars

-----------------------------------------------------------------------------
\* Timestamps come from the past, and a message that a worker could neither
\* read nor wait for began after the row it was filling.
FreshInv ==
    /\ \A r \in Requests : calls[r].at <= clock /\ calls[r].seen \subseteq Committed
    /\ \A s \in Summaries : sums[s].at <= clock
    /\ \A s \in Summaries, m \in Messages :
          /\ sums[s].status \in {"loaded", "completed", "failed"}
          /\ m \notin sums[s].covers \cup sums[s].missed
          => posts[m].pc = "none" \/ posts[m].at > sums[s].at
=============================================================================
