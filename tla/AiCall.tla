------------------------------- MODULE AiCall -------------------------------
(***************************************************************************)
(* The one call path to a model (services/ai_service.py): the attempts and  *)
(* their retries, what each vendor's client makes of an answer (app/ai/),   *)
(* the ledger row of every attempt and its price, and the transaction of    *)
(* the caller, which alone commits the rows.  A worker runs every errand on *)
(* an event loop of its own, the API on one for its lifetime; the vendors'  *)
(* clients are cached per process and belong to a loop.                     *)
(***************************************************************************)
EXTENDS Integers, Sequences, FiniteSets, Sums

LOCAL INSTANCE FiniteSetsExt

CONSTANTS
    AiWorkers,   \* Celery processes
    AiServers,   \* API processes
    Vendors,     \* what AI_PROVIDER may name: "anthropic", "groq"
    MaxAttempts, \* AI_MAX_ATTEMPTS
    Sizes,       \* the token counts of a prompt
    MaxErrands   \* bound: errands of all processes

ASSUME AiAssumption ==
    /\ AiWorkers \cap AiServers = {}
    /\ Vendors \subseteq {"anthropic", "groq"}
    /\ MaxAttempts \in Nat \ {0} /\ Sizes \subseteq Nat /\ MaxErrands \in Nat

VARIABLES
    vendor,  \* AI_PROVIDER
    keyed,   \* the services an API key is configured for
    errands, \* per process: the errand it is at
    client,  \* per process: the loop its cached clients belong to, 0: no client
    ledger,  \* the sums of the committed rows of ai_usage
    broken   \* errands killed or rolled back

aiVars == <<vendor, keyed, errands, client, ledger, broken>>

Callers == AiWorkers \cup AiServers

Services == {"chat", "embed"}

\* The calls of an errand, in their order: run_analysis, the draft of
\* _execute, run_ingestion with two batches, and the question of the API.
Flows == [analysis  |-> <<"classify", "sentiment">>,
          summary   |-> <<"summarize">>,
          draft     |-> <<"embed", "suggest_response">>,
          ingestion |-> <<"embed", "embed">>,
          question  |-> <<"embed", "knowledge_answer">>]

Service(op) == IF op = "embed" THEN "embed" ELSE "chat"

AiOperations == UNION {{Flows[f][i] : i \in DOMAIN Flows[f]} : f \in DOMAIN Flows}

AiRow == [operation : AiOperations, ok : BOOLEAN, cached : BOOLEAN,
          prompt : Nat, completion : Nat, cost : Nat]

\* nr: the errands begun.  attempt: of the call at the head of todo.  Of the
\* answers heard: the tokens charged for the last one and for all of them, and
\* the tokens of the answers the vendor withheld.
Errand == [pc : {"idle", "ready", "asking", "asleep", "closing"},
           flow : DOMAIN Flows, todo : Seq(AiOperations), nr : Nat,
           attempt : 1 .. MaxAttempts, staged : Seq(AiRow),
           heard : Nat, last : Nat, billed : Nat, withheld : Nat]

\* The loop a process runs on now.
LoopOf(c) == IF c \in AiServers THEN 1 ELSE errands[c].nr

AiTypeOK ==
    /\ vendor \in Vendors /\ keyed \subseteq Services
    /\ errands \in [Callers -> Errand]
    /\ client \in [Callers -> [Services -> Nat]]
    /\ ledger \in [calls : Nat, failed : Nat, cached : Nat, micros : Nat, exact : Nat]
    /\ broken \in Nat

-----------------------------------------------------------------------------
\* What the wire brings: nothing, an HTTP status with the hint the vendor gives
\* beside it, or a body.
Answer(how, status, hint) == [how |-> how, status |-> status, hint |-> hint]

Hints(v) ==
    CASE v = "anthropic" -> {"none", "x-should-retry: true", "x-should-retry: false"}
      [] v = "groq" -> {"none", "tool_use_failed"}
      [] v = "openai" -> {"none", "insufficient_quota"}

Bodies(v) ==
    CASE v = "anthropic" -> {"good", "truncated", "refusal", "context_window",
                             "no_call", "wrong_tool", "malformed"}
      [] v = "groq" -> {"good", "truncated", "content_filter", "no_call",
                        "wrong_tool", "malformed", "not_json"}
      [] v = "openai" -> {"good", "malformed", "miscounted", "not_json"}

Answers(v) ==
    {Answer(how, 0, "none") : how \in {"timeout", "unreachable", "other"}}
      \cup {Answer("status", s, h) :
              s \in {400, 401, 403, 404, 408, 409, 413, 422, 429, 500}, h \in Hints(v)}
      \cup {Answer(b, 200, "none") : b \in Bodies(v)}

RetryableStatus(s) == s \in {408, 409, 429} \/ s >= 500

\* _from_status of each client: the vendor's hint outranks the status.
StatusKind(a) ==
    CASE a.hint = "x-should-retry: false" -> "permanent"
      [] a.hint = "x-should-retry: true" -> "transient"
      [] a.hint = "tool_use_failed" -> "output"
      [] a.hint = "insufficient_quota" -> "permanent"
      [] OTHER -> IF RetryableStatus(a.status) THEN "transient" ELSE "permanent"

Withheld == {"refusal", "context_window", "content_filter"}

\* _translate and _structured (generate_embedding): the type of the error, or
\* the result.
Classify(a) ==
    CASE a.how \in {"timeout", "unreachable"} -> "transient"
      [] a.how = "other" -> "permanent"
      [] a.how = "status" -> StatusKind(a)
      [] a.how \in Withheld -> "permanent"
      [] a.how = "good" -> "result"
      [] OTHER -> "output"

\* The tokens a client reports of an answer: none of a withheld one, and none of
\* one that is not JSON.
Reported(a, size) ==
    IF a.status = 200 /\ a.how \notin Withheld \cup {"not_json"} THEN size ELSE 0

Charged(a, size) == IF a.status = 200 /\ a.how # "not_json" THEN size ELSE 0

-----------------------------------------------------------------------------
\* RATES, in hundredths of a micro-dollar per token.
Rate == [anthropic |-> [input |-> 200, output |-> 1000],
         groq      |-> [input |-> 15, output |-> 60],
         openai    |-> [input |-> 2, output |-> 0]]

Exact(v, prompt, completion) == prompt * Rate[v].input + completion * Rate[v].output

\* cost_usd: six decimals of a dollar, half up.
CostUsd(v, prompt, completion) == (Exact(v, prompt, completion) + 50) \div 100

VendorOf(op) == IF op = "embed" THEN "openai" ELSE vendor

\* _stage_usage; a generation is taken to be as long as its prompt.
StageUsage(op, ok, cached, size) ==
    LET completion == IF op = "embed" THEN 0 ELSE size
    IN [operation |-> op, ok |-> ok, cached |-> cached, prompt |-> size,
        completion |-> completion, cost |-> CostUsd(VendorOf(op), size, completion)]

-----------------------------------------------------------------------------
Begun == MapThenSumSet(LAMBDA c : errands[c].nr, Callers)

\* A worker takes an errand, on a new loop; the API takes a question.
BeginErrand(c, flow) ==
    /\ errands[c].pc = "idle" /\ Begun < MaxErrands
    /\ (flow = "question") <=> (c \in AiServers)
    /\ errands' = [errands EXCEPT ![c] =
          [pc |-> "ready", flow |-> flow, todo |-> Flows[flow], nr |-> @.nr + 1,
           attempt |-> 1, staged |-> <<>>, heard |-> 0, last |-> 0, billed |-> 0,
           withheld |-> 0]]
    /\ UNCHANGED <<vendor, keyed, client, ledger, broken>>

\* request_summary when the stored summary is current: a row, and no call.
RecordCacheHit(c) ==
    /\ errands[c].pc = "idle" /\ Begun < MaxErrands /\ c \in AiServers
    /\ errands' = [errands EXCEPT ![c] =
          [pc |-> "closing", flow |-> "summary", todo |-> <<>>, nr |-> @.nr + 1,
           attempt |-> 1, staged |-> <<StageUsage("summarize", TRUE, TRUE, 0)>>,
           heard |-> 0, last |-> 0, billed |-> 0, withheld |-> 0]]
    /\ UNCHANGED <<vendor, keyed, client, ledger, broken>>

\* Whether an errand goes on after a call that failed: run_analysis fails the
\* one analysis, the draft does without its passages.
GoesOn(flow, op) == flow = "analysis" \/ (flow = "draft" /\ op = "embed")

\* Only the transient is asked again, and not after the last attempt.
Retried(kind, attempt) == kind = "transient" /\ attempt < MaxAttempts

\* One attempt of _run is over: its row, and what comes next.
Attempted(c, kind, charged, reported) ==
    LET e == errands[c]
        op == Head(e.todo)
        over == IF kind = "result" \/ GoesOn(e.flow, op) THEN Tail(e.todo) ELSE <<>>
        heard == [e EXCEPT !.staged = Append(@, StageUsage(op, kind = "result", FALSE, reported)),
                           !.heard = @ + 1, !.last = charged, !.billed = @ + charged,
                           !.withheld = @ + (charged - reported)]
    IN errands' = [errands EXCEPT ![c] =
          IF Retried(kind, e.attempt) THEN [heard EXCEPT !.pc = "asleep"]
          ELSE [heard EXCEPT !.todo = over, !.attempt = 1,
                             !.pc = IF over = <<>> \/ e.flow = "analysis" THEN "closing"
                                    ELSE "ready"]]

\* A slip: a client is kept whatever the loop.
SlipKept(c, s) == client[c][s]

\* _shared_client: the cached client, unless it belongs to another loop.
Kept(c, s) == IF client[c][s] \notin {0, LoopOf(c)} THEN 0 ELSE client[c][s]

\* The call leaves; without a key it fails before it does.
AskVendor(c) ==
    LET s == Service(Head(errands[c].todo))
    IN /\ errands[c].pc = "ready"
       /\ IF Kept(c, s) = 0 /\ s \notin keyed
          THEN /\ Attempted(c, "permanent", 0, 0)
               /\ client' = [client EXCEPT ![c][s] = 0]
          ELSE /\ errands' = [errands EXCEPT ![c].pc = "asking"]
               /\ client' = [client EXCEPT ![c][s] =
                                IF Kept(c, s) = 0 THEN LoopOf(c) ELSE Kept(c, s)]
       /\ UNCHANGED <<vendor, keyed, ledger, broken>>

Hear(c) ==
    /\ errands[c].pc = "asking"
    /\ \E a \in Answers(VendorOf(Head(errands[c].todo))), size \in Sizes :
          Attempted(c, Classify(a), Charged(a, size), Reported(a, size))
    /\ UNCHANGED <<vendor, keyed, client, ledger, broken>>

\* The backoff is over.
Wake(c) ==
    /\ errands[c].pc = "asleep"
    /\ errands' = [errands EXCEPT ![c].pc = "ready", ![c].attempt = @ + 1]
    /\ UNCHANGED <<vendor, keyed, client, ledger, broken>>

\* retrieve: no passage is near enough, and no model is asked.
NothingNear(c) ==
    /\ errands[c].pc = "ready" /\ errands[c].flow = "question"
    /\ Len(errands[c].todo) = 1 /\ errands[c].attempt = 1
    /\ errands' = [errands EXCEPT ![c].todo = <<>>, ![c].pc = "closing"]
    /\ UNCHANGED <<vendor, keyed, client, ledger, broken>>

\* The errand, or the operation of an analysis, is through: the next one begins.
Through(e) ==
    [e EXCEPT !.pc = IF e.todo = <<>> THEN "idle" ELSE "ready", !.staged = <<>>,
              !.heard = 0, !.last = 0, !.billed = 0, !.withheld = 0]

ExactOf(row) == Exact(VendorOf(row.operation), row.prompt, row.completion)

\* The sums ai_usage takes over rows; it takes those of the caller's tickets.
TotalOf(rows) ==
    [calls  |-> Len(rows),
     failed |-> Cardinality({i \in DOMAIN rows : ~ rows[i].ok}),
     cached |-> Cardinality({i \in DOMAIN rows : rows[i].cached}),
     micros |-> SumOf([i \in DOMAIN rows |-> rows[i].cost]),
     exact  |-> SumOf([i \in DOMAIN rows |-> ExactOf(rows[i])])]

Plus(a, b) ==
    [calls |-> a.calls + b.calls, failed |-> a.failed + b.failed,
     cached |-> a.cached + b.cached, micros |-> a.micros + b.micros,
     exact |-> a.exact + b.exact]

\* The commit of run_analysis after every operation, of run_ingestion and its
\* _fail, and of request_summary: whatever was staged, failures included.
CommitErrand(c) ==
    /\ errands[c].pc = "closing" /\ errands[c].flow # "question"
    /\ ledger' = Plus(ledger, TotalOf(errands[c].staged))
    /\ errands' = [errands EXCEPT ![c] = Through(@)]
    /\ UNCHANGED <<vendor, keyed, client, broken>>

\* The question is answered or refused: answer commits nothing, nor does the
\* route, and get_db closes the session.
Respond(c) ==
    /\ errands[c].pc = "closing" /\ errands[c].flow = "question"
    /\ errands' = [errands EXCEPT ![c] = Through(@)]
    /\ UNCHANGED <<vendor, keyed, client, ledger, broken>>

\* A worker is killed, or an exception nobody expected rolls its errand back.
AbandonErrand(c) ==
    /\ errands[c].pc # "idle" /\ c \in AiWorkers
    /\ errands' = [errands EXCEPT ![c] = Through([@ EXCEPT !.todo = <<>>])]
    /\ broken' = broken + 1
    /\ UNCHANGED <<vendor, keyed, client, ledger>>

AiInit ==
    /\ vendor \in Vendors /\ keyed \in SUBSET Services
    /\ errands = [c \in Callers |->
          [pc |-> "idle", flow |-> "question", todo |-> <<>>, nr |-> 0, attempt |-> 1,
           staged |-> <<>>, heard |-> 0, last |-> 0, billed |-> 0, withheld |-> 0]]
    /\ client = [c \in Callers |-> [s \in Services |-> 0]]
    /\ ledger = [calls |-> 0, failed |-> 0, cached |-> 0, micros |-> 0, exact |-> 0]
    /\ broken = 0

AiNext ==
    \E c \in Callers :
       \/ \E flow \in DOMAIN Flows : BeginErrand(c, flow)
       \/ RecordCacheHit(c)
       \/ AskVendor(c) \/ Hear(c) \/ Wake(c) \/ NothingNear(c)
       \/ CommitErrand(c) \/ Respond(c) \/ AbandonErrand(c)

AiSpec == AiInit /\ [][AiNext]_aiVars

-----------------------------------------------------------------------------
\* A call that leaves does so on a client of the loop it runs on, whatever errand
\* of the process created the client and whichever vendor it is for.
ClientOnItsLoop ==
    \A c \in Callers : errands[c].pc = "asking" =>
        client[c][Service(Head(errands[c].todo))] = LoopOf(c)

\* What a retry repeats was never charged for: an answer that came and was no
\* use is not asked for again.
NothingBilledIsAskedAgain == \A c \in Callers : errands[c].pc = "asleep" => errands[c].last = 0

\* The rows of attempts, and the tokens of all rows.
AttemptsIn(rows) == {i \in DOMAIN rows : ~ rows[i].cached}
TokensOf(rows) == SumOf([i \in DOMAIN rows |-> rows[i].prompt])

\* Every attempt has its row, a success is asked for once per call, and the rows
\* carry every token charged but those of the answers withheld.
RowsAddUp(e) ==
    LET calls == Len(Flows[e.flow]) IN
    /\ Cardinality(AttemptsIn(e.staged)) = e.heard
    /\ e.heard <= MaxAttempts * calls
    /\ Cardinality({i \in AttemptsIn(e.staged) : e.staged[i].ok}) + Len(e.todo) <= calls
    /\ TokensOf(e.staged) + e.withheld = e.billed

\* How far it can be at the call it is at.
AtItsCall(e) ==
    /\ e.pc \in {"ready", "asking", "asleep"} => e.todo # <<>>
    /\ e.pc = "asleep" => e.attempt < MaxAttempts
    /\ Len(e.todo) <= Len(Flows[e.flow])
    /\ e.heard <= MaxAttempts * (Len(Flows[e.flow]) - Len(e.todo)) + e.attempt
                     - IF e.pc = "asleep" THEN 0 ELSE 1

\* The priced sum of so many calls strays from the exact one by at most half a
\* unit for each.
Stray(micros, exact, calls) ==
    2 * (100 * micros - exact) <= 100 * calls /\ 2 * (exact - 100 * micros) <= 100 * calls

AiInv ==
    /\ AiTypeOK /\ ClientOnItsLoop /\ NothingBilledIsAskedAgain
    /\ \A c \in Callers :
          LET e == errands[c]  total == TotalOf(e.staged) IN
          /\ RowsAddUp(e) /\ AtItsCall(e)
          /\ Stray(total.micros, total.exact, e.heard)
    /\ Stray(ledger.micros, ledger.exact, ledger.calls - ledger.cached)

\* Every row staged is in the sums.
LedgerTakes(rows) ==
    /\ ledger'.calls = ledger.calls + Len(rows)
    /\ ledger'.failed = ledger.failed + Cardinality({i \in DOMAIN rows : ~rows[i].ok})
    /\ ledger'.cached = ledger.cached + Cardinality({i \in DOMAIN rows : rows[i].cached})

EndsUnbroken(c) ==
    errands[c].pc = "closing" /\ errands'[c].pc # "closing" /\ broken' = broken

\* An errand that was neither killed nor rolled back, a question asked over the API
\* included, leaves a row in the ledger for every attempt it made: "the route's
\* session commits them at the end of the request".
QuestionSpendIsKept ==
    [][\A c \in Callers : EndsUnbroken(c) => LedgerTakes(errands[c].staged)]_aiVars
=============================================================================
