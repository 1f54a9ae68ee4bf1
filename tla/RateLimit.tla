----------------------------- MODULE RateLimit -----------------------------
(***************************************************************************)
(* The fixed-window counters in front of login, registration, uploads and  *)
(* AI requests (core/rate_limit.py, api/rate_limits.py).  A key's counter  *)
(* lives in Redis and expires there; one transaction creates it with its   *)
(* expiry, increments it and reads what is left of it.  When Redis cannot  *)
(* be asked the request is let in; the answer may also be lost after the   *)
(* counter moved.                                                          *)
(***************************************************************************)
EXTENDS Naturals

CONSTANTS
    Keys,    \* one per guarded operation and caller: an address or a user
    Limit,   \* RATE_LIMIT_..., how many a window admits
    Window,  \* seconds from the first request to the end of the window
    MaxHits  \* bound: counts from here on are not told apart

ASSUME RateAssumption ==
    Limit \in Nat \ {0} /\ Window \in Nat \ {0} /\ MaxHits \in Nat /\ MaxHits > Limit

VARIABLES
    counters,  \* the keys in Redis: count, and ttl, 0 when there is no such key
    answers    \* per key: admitted in this window, and the last retry_after

limitVars == <<counters, answers>>

\* wait: seconds the last refused caller has still to wait by what it was told.
LimitTypeOK ==
    /\ counters \in [Keys -> [count : 0 .. MaxHits, ttl : 0 .. Window]]
    /\ answers \in [Keys -> [admitted : 0 .. MaxHits, wait : 0 .. Window,
                             last : {"none", "admitted", "refused", "unknown"}]]

OneMore(n) == IF n < MaxHits THEN n + 1 ELSE n

\* _hit: SET k 0 EX window NX; INCR k; TTL k, in one MULTI.
Hit(k) ==
    IF counters[k].ttl = 0 THEN [count |-> 1, ttl |-> Window]
    ELSE [count |-> OneMore(counters[k].count), ttl |-> counters[k].ttl]

SlipRetryAfter(k) == IF Hit(k).ttl > 1 THEN Hit(k).ttl - 1 ELSE 1

\* The retry_after of a refusal: what is left of the window.
RetryAfter(k) == Hit(k).ttl

\* enforce: the request that reaches the limit is still let in.
Exceeds(count) == count > Limit

Refusal(k) == [answers[k] EXCEPT !.last = "refused", !.wait = RetryAfter(k)]

Admission(k) ==
    [answers[k] EXCEPT !.last = "admitted",
                       !.admitted = IF Hit(k).count = 1 THEN 1 ELSE OneMore(@)]

\* enforce with Redis answering.
Attempt(k) ==
    /\ counters' = [counters EXCEPT ![k] = Hit(k)]
    /\ answers' = [answers EXCEPT ![k] =
          IF Exceeds(Hit(k).count) THEN Refusal(k) ELSE Admission(k)]

\* enforce with Redis failing, before or after the counter moved: let in.
FailOpen(k) ==
    /\ \/ UNCHANGED counters
       \/ counters' = [counters EXCEPT ![k] = Hit(k)]
    /\ answers' = [answers EXCEPT ![k].last = "unknown",
          ![k].admitted = IF counters'[k].count = 1 THEN 0 ELSE @]

\* A second passes; Redis drops the keys whose time is over.
Second ==
    /\ \E k \in Keys : counters[k].ttl > 0
    /\ counters' = [k \in Keys |->
          IF counters[k].ttl <= 1 THEN [count |-> 0, ttl |-> 0]
          ELSE [counters[k] EXCEPT !.ttl = @ - 1]]
    /\ answers' = [k \in Keys |->
          [answers[k] EXCEPT !.admitted = IF counters'[k].ttl = 0 THEN 0 ELSE @,
                             !.wait = IF @ > 0 THEN @ - 1 ELSE 0]]

-----------------------------------------------------------------------------
LimitInit ==
    /\ counters = [k \in Keys |-> [count |-> 0, ttl |-> 0]]
    /\ answers = [k \in Keys |-> [admitted |-> 0, wait |-> 0, last |-> "none"]]

LimitNext == Second \/ \E k \in Keys : Attempt(k) \/ FailOpen(k)

LimitSpec == LimitInit /\ [][LimitNext]_limitVars

-----------------------------------------------------------------------------
\* Redis answering, a window lets in no more than its limit.
WindowIsHonoured ==
    \A k \in Keys : answers[k].admitted <= Limit

\* What a refused caller was told is enough: once retry_after has passed, no
\* counter of that window is left in the way.
RetryAfterIsEnough ==
    \A k \in Keys :
       answers[k].last = "refused" /\ answers[k].wait = 0 => ~ Exceeds(Hit(k).count)

\* A counter never outlives its window, or its caller would be locked out for
\* good; no window lets in more than its limit, and a refusal names a time after
\* which the caller is let in.
LimitInv ==
    /\ LimitTypeOK /\ WindowIsHonoured /\ RetryAfterIsEnough
    /\ \A k \in Keys : /\ counters[k].count = 0 <=> counters[k].ttl = 0
                       /\ answers[k].admitted <= counters[k].count
                       /\ answers[k].wait <= counters[k].ttl
=============================================================================
