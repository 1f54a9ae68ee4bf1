--------------------------- MODULE Borders_proof ----------------------------
(***************************************************************************)
(* Proofs about what stands at the borders of the system: the limits in    *)
(* front of its endpoints (RateLimit), the pages it fetches (UrlFetch), the *)
(* e-mail it sends (EmailDelivery), the notifications it shows (Inbox) and *)
(* the sockets it feeds (RealtimeHub), for any limits, any names that      *)
(* change under a fetch, and any number of readers, workers and sockets.   *)
(***************************************************************************)
EXTENDS RateLimit, UrlFetch, EmailDelivery, Inbox, RealtimeHub, FiniteSetTheorems,
        SequenceTheorems, TLAPS

-----------------------------------------------------------------------------
(* RateLimit *)

\* One counter of a key, and one answer.
CounterType == [count : 0 .. MaxHits, ttl : 0 .. Window]
AnswerType == [admitted : 0 .. MaxHits, wait : 0 .. Window,
               last : {"none", "admitted", "refused", "unknown"}]

\* A counter lives as long as its window; those let in are among those counted,
\* no more than the limit, and the last refusal named what is left.
WindowOf(c, a) ==
    /\ c \in CounterType /\ a \in AnswerType
    /\ c.count = 0 <=> c.ttl = 0
    /\ a.admitted <= c.count /\ a.admitted <= Limit /\ a.wait <= c.ttl
    /\ a.last = "refused" => a.wait = c.ttl

RateInv ==
    /\ counters \in [Keys -> CounterType] /\ answers \in [Keys -> AnswerType]
    /\ \A k \in Keys : WindowOf(counters[k], answers[k])

LEMMA HitLemma ==
    ASSUME RateInv, NEW k \in Keys
    PROVE  /\ Hit(k) \in CounterType /\ Hit(k).count # 0 /\ Hit(k).ttl # 0
           /\ counters[k].ttl = 0 => Hit(k).count = 1
           /\ counters[k].ttl # 0 => /\ Hit(k).ttl = counters[k].ttl
                                     /\ Hit(k).count = OneMore(counters[k].count)
  BY RateAssumption DEF RateInv, WindowOf, Hit, OneMore, CounterType

LEMMA RateInit == LimitInit => RateInv
  BY RateAssumption DEF LimitInit, RateInv, WindowOf, CounterType, AnswerType

\* One key's pair changes.
LEMMA PairChange ==
    ASSUME RateInv, NEW k \in Keys, NEW c \in CounterType, NEW a \in AnswerType, WindowOf(c, a),
           counters' = [counters EXCEPT ![k] = c], answers' = [answers EXCEPT ![k] = a]
    PROVE  RateInv'
  BY DEF RateInv

LEMMA AttemptHolds == ASSUME RateInv, NEW k \in Keys, Attempt(k) PROVE RateInv'
<1>1. /\ counters[k] \in CounterType /\ answers[k] \in AnswerType
      /\ WindowOf(counters[k], answers[k])
  BY DEF RateInv
<1> DEFINE hit == Hit(k)
<1>2. /\ hit \in CounterType /\ hit.count # 0 /\ hit.ttl # 0
      /\ counters[k].ttl = 0 => hit.count = 1
      /\ counters[k].ttl # 0 => /\ hit.ttl = counters[k].ttl
                                /\ hit.count = OneMore(counters[k].count)
  BY HitLemma
<1>3. CASE Exceeds(hit.count)
  <2> DEFINE a == Refusal(k)
  <2>1. counters' = [counters EXCEPT ![k] = hit] /\ answers' = [answers EXCEPT ![k] = a]
    BY <1>3 DEF Attempt
  <2>2. RetryAfter(k) = hit.ttl  BY DEF RetryAfter
  <2> HIDE DEF hit
  <2>3. /\ a \in AnswerType /\ a.last = "refused" /\ a.wait = hit.ttl
        /\ a.admitted = answers[k].admitted
    BY <1>1, <1>2, <2>2 DEF AnswerType, CounterType, Refusal
  <2> HIDE DEF a
  <2>4. WindowOf(hit, a)
    BY <1>1, <1>2, <2>3, RateAssumption DEF WindowOf, OneMore, CounterType, AnswerType
  <2> QED  BY <1>2, <2>1, <2>3, <2>4, PairChange
<1>4. CASE ~ Exceeds(hit.count)
  <2> DEFINE n == IF hit.count = 1 THEN 1 ELSE OneMore(answers[k].admitted)
             a == [answers[k] EXCEPT !.last = "admitted", !.admitted = n]
  <2>1. counters' = [counters EXCEPT ![k] = hit] /\ answers' = [answers EXCEPT ![k] = a]
    BY <1>4 DEF Attempt, Admission
  <2>2. hit.count <= Limit
    <3> HIDE DEF hit
    <3> QED  BY <1>2, <1>4, RateAssumption DEF Exceeds, CounterType
  <2> HIDE DEF hit
  <2>3. n \in 0 .. MaxHits /\ n <= hit.count /\ n <= Limit
    BY <1>1, <1>2, <2>2, RateAssumption DEF WindowOf, OneMore, CounterType, AnswerType
  <2> HIDE DEF n
  <2>4. /\ a \in AnswerType /\ a.last = "admitted" /\ a.wait = answers[k].wait
        /\ a.admitted = n
    BY <1>1, <2>3 DEF AnswerType
  <2> HIDE DEF a
  <2>5. WindowOf(hit, a)
    BY <1>1, <1>2, <2>3, <2>4, RateAssumption DEF WindowOf, CounterType, AnswerType
  <2> QED  BY <1>2, <2>1, <2>4, <2>5, PairChange
<1> QED  BY <1>3, <1>4

LEMMA FailOpenHolds == ASSUME RateInv, NEW k \in Keys, FailOpen(k) PROVE RateInv'
<1>1. /\ counters[k] \in CounterType /\ answers[k] \in AnswerType
      /\ WindowOf(counters[k], answers[k]) /\ counters \in [Keys -> CounterType]
  BY DEF RateInv
<1>2. PICK c \in CounterType :
         /\ counters' = [counters EXCEPT ![k] = c]
         /\ c = counters[k] \/ c = Hit(k)
  BY <1>1, HitLemma DEF FailOpen
<1> DEFINE n == IF c.count = 1 THEN 0 ELSE answers[k].admitted
           a == [answers[k] EXCEPT !.last = "unknown", !.admitted = n]
<1>3. counters'[k] = c  BY <1>1, <1>2
<1>4. answers' = [answers EXCEPT ![k] = a]
  BY <1>3 DEF FailOpen, RateInv, AnswerType
<1>5. n \in 0 .. MaxHits /\ n <= answers[k].admitted /\ (c.count = 1 => n = 0)
  BY <1>1, RateAssumption DEF AnswerType
<1> HIDE DEF n
<1>6. /\ a \in AnswerType /\ a.last = "unknown" /\ a.wait = answers[k].wait /\ a.admitted = n
  BY <1>1, <1>5 DEF AnswerType
<1> HIDE DEF a
<1>7. WindowOf(c, a)
  BY <1>1, <1>2, <1>5, <1>6, HitLemma, RateAssumption
     DEF WindowOf, OneMore, CounterType, AnswerType
<1> QED  BY <1>2, <1>4, <1>6, <1>7, PairChange

LEMMA SecondHolds == ASSUME RateInv, Second PROVE RateInv'
<1> DEFINE Less(k) == IF counters[k].ttl <= 1 THEN [count |-> 0, ttl |-> 0]
                      ELSE [counters[k] EXCEPT !.ttl = @ - 1]
           In(k) == IF Less(k).ttl = 0 THEN 0 ELSE answers[k].admitted
           Left(k) == IF answers[k].wait > 0 THEN answers[k].wait - 1 ELSE 0
           After(k) == [answers[k] EXCEPT !.admitted = In(k), !.wait = Left(k)]
<1>1. counters' = [k \in Keys |-> Less(k)]  BY DEF Second
<1>2. answers' = [k \in Keys |-> After(k)]  BY <1>1 DEF Second
<1>3. ASSUME NEW k \in Keys
      PROVE  Less(k) \in CounterType /\ After(k) \in AnswerType /\ WindowOf(Less(k), After(k))
  <2>1. /\ counters[k] \in CounterType /\ answers[k] \in AnswerType
        /\ WindowOf(counters[k], answers[k])
    BY DEF RateInv
  <2>2. /\ Less(k) \in CounterType
        /\ counters[k].ttl <= 1 => Less(k).count = 0 /\ Less(k).ttl = 0
        /\ counters[k].ttl > 1 => /\ Less(k).count = counters[k].count
                                  /\ Less(k).ttl = counters[k].ttl - 1
    BY <2>1, RateAssumption DEF CounterType
  <2> HIDE DEF Less
  <2>3. In(k) \in 0 .. MaxHits /\ Left(k) \in 0 .. Window
    BY <2>1, RateAssumption DEF AnswerType
  <2>4. /\ Less(k).ttl = 0 => In(k) = 0
        /\ Less(k).ttl # 0 => In(k) = answers[k].admitted
        /\ answers[k].wait > 0 => Left(k) = answers[k].wait - 1
        /\ ~ (answers[k].wait > 0) => Left(k) = 0
    OBVIOUS
  <2> HIDE DEF In, Left
  <2>5. /\ After(k) \in AnswerType /\ After(k).last = answers[k].last
        /\ After(k).admitted = In(k) /\ After(k).wait = Left(k)
    BY <2>1, <2>3 DEF AnswerType
  <2> HIDE DEF After
  <2>6. WindowOf(Less(k), After(k))
    BY <2>1, <2>2, <2>4, <2>5, RateAssumption DEF WindowOf, CounterType, AnswerType
  <2> QED  BY <2>2, <2>5, <2>6
<1> HIDE DEF Less, In, Left, After
<1> QED  BY <1>1, <1>2, <1>3 DEF RateInv

LEMMA RateNext == RateInv /\ [LimitNext]_limitVars => RateInv'
<1>1. RateInv /\ UNCHANGED limitVars => RateInv'  BY DEF RateInv, limitVars
<1> QED  BY <1>1, AttemptHolds, FailOpenHolds, SecondHolds DEF LimitNext

THEOREM Rates == LimitSpec => []RateInv
  BY RateInit, RateNext, PTL DEF LimitSpec

\* While Redis answers, a window admits no more than its limit (enforce).
THEOREM Honoured == LimitSpec => []WindowIsHonoured
<1>1. RateInv => WindowIsHonoured  BY DEF RateInv, WindowOf, WindowIsHonoured
<1> QED  BY <1>1, Rates, PTL

\* A caller that waits for as long as its refusal said finds no counter of that
\* window in its way (enforce's retry_after).
THEOREM WaitIsEnough == LimitSpec => []RetryAfterIsEnough
<1>1. ASSUME RateInv PROVE RetryAfterIsEnough
  <2> SUFFICES ASSUME NEW k \in Keys, answers[k].last = "refused", answers[k].wait = 0
               PROVE  ~ Exceeds(Hit(k).count)
    BY DEF RetryAfterIsEnough
  <2>1. counters[k].ttl = 0  BY <1>1 DEF RateInv, WindowOf
  <2> QED  BY <2>1, RateAssumption DEF Hit, Exceeds
<1> QED  BY <1>1, Rates, PTL

\* All of it: counters end with their windows, admit no more than the limit, and
\* a refusal's wait is enough (enforce).
THEOREM Limited == LimitSpec => []LimitInv
<1>1. RateInv /\ WindowIsHonoured /\ RetryAfterIsEnough => LimitInv
  BY DEF RateInv, WindowOf, CounterType, AnswerType, LimitInv, LimitTypeOK
<1> QED  BY <1>1, Rates, Honoured, WaitIsEnough, PTL

-----------------------------------------------------------------------------
(* UrlFetch *)

\* What was asked for was checked, at the hop it was asked for at; rounds and
\* bytes are within their bounds.
FetchInv ==
    /\ EveryHopIsChecked /\ fetching.bytes <= MaxBytes
    /\ fetching.pc \in {"check", "ask"} => fetching.left # 0 /\ fetching.at \in Parsable
    /\ fetching.pc = "idle" => hops = {}
    /\ fetching.pc \in {"parse", "check"} => \A h \in hops : h.left > fetching.left
    /\ fetching.pc \in {"ask", "read"} => \A h \in hops : h.left >= fetching.left

LEMMA FetchBegins == FetchInit => FetchInv
  BY FetchAssumption
  DEF FetchInit, FetchInv, EveryHopIsChecked, FetchTypeOK, Fetching

\* The fetch moves to another step, and to nothing that was not asked for.
LEMMA FetchMove ==
    ASSUME FetchInv, NEW pc \in {"idle", "parse", "check", "ask", "read", "fetched", "refused"},
           To(pc)
    PROVE  /\ fetching' \in Fetching /\ fetching'.pc = pc /\ fetching'.at = fetching.at
           /\ fetching'.left = fetching.left /\ fetching'.bytes = fetching.bytes
  BY DEF FetchInv, EveryHopIsChecked, FetchTypeOK, Fetching, To

LEMMA AskedFor == ASSUME FetchInv, AssertRoutable PROVE FetchInv'
<1>1. fetching \in Fetching /\ fetching.pc = "check" /\ routable \subseteq Parsable
  BY DEF FetchInv, EveryHopIsChecked, FetchTypeOK, AssertRoutable
<1>2. CASE fetching.at \notin routable
  <2>1. fetching' \in Fetching /\ fetching'.pc = "refused" /\ fetching'.bytes = fetching.bytes
    BY <1>2, FetchMove DEF AssertRoutable
  <2> QED  BY <1>2, <2>1 DEF AssertRoutable, FetchInv, EveryHopIsChecked, FetchTypeOK
<1>3. CASE fetching.at \in routable
  <2> DEFINE hop == [left |-> fetching.left, at |-> fetching.at, checked |-> TRUE]
  <2>1. /\ fetching' \in Fetching /\ fetching'.pc = "ask" /\ fetching'.bytes = fetching.bytes
        /\ fetching'.left = fetching.left /\ fetching'.at = fetching.at
    BY <1>3, FetchMove DEF AssertRoutable
  <2>2. hops' = hops \cup {hop} /\ routable' = routable  BY <1>3 DEF AssertRoutable
  <2>3. /\ hop \in [left : 0 .. MaxRedirects + 1, at : Urls, checked : BOOLEAN]
        /\ hop.left = fetching.left /\ hop.at = fetching.at /\ hop.checked
    BY <1>1 DEF Fetching
  <2>4. /\ fetching.left \in 1 .. MaxRedirects + 1
        /\ \A h \in hops : h.left \in 1 .. MaxRedirects + 1 /\ h.left > fetching.left
    BY <1>1, FetchAssumption DEF FetchInv, EveryHopIsChecked, Fetching
  <2> HIDE DEF hop
  <2>5. \A g, h \in hops' : g.left = h.left => g = h
    BY <2>2, <2>3, <2>4 DEF FetchInv, EveryHopIsChecked
  <2>6. \A h \in hops' : h.left \in 1 .. MaxRedirects + 1 /\ h.left >= fetching'.left
    BY <2>1, <2>2, <2>3, <2>4
  <2>7. FetchTypeOK' /\ \A h \in hops' : h.checked /\ h.at \in Parsable
    BY <1>1, <1>3, <2>1, <2>2, <2>3 DEF FetchInv, EveryHopIsChecked, FetchTypeOK
  <2>8. \E h \in hops' : h.left = fetching'.left /\ h.at = fetching'.at
    BY <2>1, <2>2, <2>3
  <2>9. fetching.left # 0 /\ fetching.at \in Parsable /\ fetching.bytes <= MaxBytes
    BY <1>1 DEF FetchInv
  <2> QED
    BY <2>1, <2>5, <2>6, <2>7, <2>8, <2>9 DEF FetchInv, EveryHopIsChecked
<1> QED  BY <1>2, <1>3

LEMMA FetchGoesOn ==
    ASSUME FetchInv, Parse \/ Unusable \/ BodyBegins \/ BodyEnds PROVE FetchInv'
<1>1. routable' = routable /\ hops' = hops  BY DEF Parse, Unusable, BodyBegins, BodyEnds
<1>2. CASE Parse
  <2>1. \/ To("refused")
        \/ To("check") /\ fetching.left # 0 /\ fetching.at \in Parsable
    BY <1>2 DEF Parse
  <2>2. fetching.pc = "parse"  BY <1>2 DEF Parse
  <2>3. CASE To("refused")
    BY <1>1, <2>3, FetchMove DEF FetchInv, EveryHopIsChecked, FetchTypeOK
  <2>4. CASE To("check") /\ fetching.left # 0 /\ fetching.at \in Parsable
    <3>1. /\ fetching' \in Fetching /\ fetching'.pc = "check" /\ fetching'.at = fetching.at
          /\ fetching'.left = fetching.left /\ fetching'.bytes = fetching.bytes
      BY <2>4, FetchMove
    <3> QED  BY <1>1, <2>2, <2>4, <3>1 DEF FetchInv, EveryHopIsChecked, FetchTypeOK
  <2> QED  BY <2>1, <2>3, <2>4
<1>3. CASE Unusable
  BY <1>1, <1>3, FetchMove DEF Unusable, FetchInv, EveryHopIsChecked, FetchTypeOK
<1>4. CASE BodyBegins
  BY <1>1, <1>4, FetchMove DEF BodyBegins, FetchInv, EveryHopIsChecked, FetchTypeOK
<1>5. CASE BodyEnds
  BY <1>1, <1>5, FetchMove DEF BodyEnds, FetchInv, EveryHopIsChecked, FetchTypeOK
<1> QED  BY <1>2, <1>3, <1>4, <1>5

\* A URL is named or redirected to: its round begins.
LEMMA FetchRound ==
    ASSUME FetchInv, NEW url \in Urls, FetchUrl(url) \/ Redirect(url) PROVE FetchInv'
<1>1. routable' = routable /\ hops' = hops  BY DEF FetchUrl, Redirect
<1>2. fetching \in Fetching  BY DEF FetchInv, EveryHopIsChecked, FetchTypeOK
<1>3. fetching' \in Fetching /\ fetching'.pc = "parse" /\ fetching'.bytes = 0
  BY <1>2, FetchAssumption DEF FetchUrl, Redirect, Redirected, Fetching, FetchInv
<1>4. \A h \in hops : h.left \in 1 .. MaxRedirects + 1  BY DEF FetchInv, EveryHopIsChecked
<1>5. \A h \in hops : h.left > fetching'.left
  <2>1. CASE FetchUrl(url)  BY <2>1 DEF FetchUrl, FetchInv
  <2>2. CASE Redirect(url)
    <3>1. fetching.pc = "ask" /\ fetching'.left = fetching.left - 1
      BY <2>2 DEF Redirect, Redirected
    <3>2. \A h \in hops : h.left >= fetching.left  BY <3>1 DEF FetchInv
    <3>3. fetching.left \in Nat  BY <1>2, FetchAssumption DEF Fetching
    <3> QED  BY <1>4, <3>1, <3>2, <3>3, FetchAssumption
  <2> QED  BY <2>1, <2>2
<1> QED  BY <1>1, <1>3, <1>5, FetchAssumption DEF FetchInv, EveryHopIsChecked, FetchTypeOK

LEMMA FetchPiece == ASSUME FetchInv, NEW n \in Pieces, ReadPiece(n) PROVE FetchInv'
<1>1. routable' = routable /\ hops' = hops /\ fetching.pc = "read"  BY DEF ReadPiece
<1>2. fetching \in Fetching  BY DEF FetchInv, EveryHopIsChecked, FetchTypeOK
<1>3. CASE fetching.bytes + n > MaxBytes
  <2>1. To("refused")  BY <1>3 DEF ReadPiece, To
  <2> QED  BY <1>1, <2>1, FetchMove DEF FetchInv, EveryHopIsChecked, FetchTypeOK
<1>4. CASE ~ (fetching.bytes + n > MaxBytes)
  <2>1. fetching' = [fetching EXCEPT !.bytes = @ + n]  BY <1>4 DEF ReadPiece
  <2>2. fetching.bytes + n \in Nat /\ fetching.bytes + n <= MaxBytes
    BY <1>2, <1>4, FetchAssumption DEF Fetching
  <2>3. /\ fetching' \in Fetching /\ fetching'.pc = fetching.pc /\ fetching'.at = fetching.at
        /\ fetching'.left = fetching.left /\ fetching'.bytes <= MaxBytes
    BY <1>2, <2>1, <2>2 DEF Fetching
  <2> QED  BY <1>1, <2>3 DEF FetchInv, EveryHopIsChecked, FetchTypeOK
<1> QED  BY <1>3, <1>4

LEMMA FetchKeeps == FetchInv /\ [FetchNext]_fetchVars => FetchInv'
<1> SUFFICES ASSUME FetchInv, [FetchNext]_fetchVars PROVE FetchInv'  OBVIOUS
<1>1. CASE UNCHANGED fetchVars
  BY <1>1 DEF fetchVars, FetchInv, EveryHopIsChecked, FetchTypeOK
<1>2. ASSUME NEW set \in SUBSET Parsable, NamesChange(set) PROVE FetchInv'
  BY <1>2 DEF NamesChange, FetchInv, EveryHopIsChecked, FetchTypeOK
<1> QED
  BY <1>1, <1>2, AskedFor, FetchGoesOn, FetchRound, FetchPiece DEF FetchNext, FetchStep

\* Whatever is asked for, at every hop of a redirect chain, was found routable at
\* that hop, and a page that is returned is within the cap, however names and
\* hosts change meanwhile (fetch, _assert_routable, _read_capped).
THEOREM HopsChecked == FetchSpec => []EveryHopIsChecked
<1>1. FetchInv => EveryHopIsChecked  BY DEF FetchInv
<1> QED  BY <1>1, FetchBegins, FetchKeeps, PTL DEF FetchSpec

-----------------------------------------------------------------------------
(* EmailDelivery *)

\* Whether a worker in this state may still send about a notice.
Carries(x, n) == x.pc \in {"taken", "loaded"} /\ x.letter.to = n

One(fact) == IF fact THEN 1 ELSE 0

LEMMA NoLetterIsOne == NoLetter \in Letter
  BY MailAssumption DEF NoLetter, Letter, Notices

LEMMA MailBegins == MailInit => MailInv
<1> SUFFICES ASSUME MailInit PROVE MailInv  OBVIOUS
<1>1. MailTypeOK
  BY NoLetterIsOne, MailAssumption DEF MailInit, MailTypeOK, Notice, Postman
<1>2. \A n \in Notices : notices[n].sent = 0 /\ ~ notices[n].emailed /\ ~ notices[n].there
  BY DEF MailInit
<1>3. \A n \in Notices : InPost(n) = {} /\ Carriers(n) = {} /\ ToQueue(n) = 0
  BY DEF MailInit, InPost, Carriers, ToQueue, Notices
<1>4. AttemptsAddUp
  <2> SUFFICES ASSUME NEW n \in Notices
               PROVE  /\ IsFiniteSet(InPost(n)) /\ IsFiniteSet(Carriers(n))
                      /\ notices[n].sent + Cardinality(InPost(n)) + Cardinality(Carriers(n))
                            + ToQueue(n) <= 1 + faults
    BY DEF AttemptsAddUp
  <2>1. /\ IsFiniteSet(InPost(n)) /\ IsFiniteSet(Carriers(n))
        /\ Cardinality(InPost(n)) = 0 /\ Cardinality(Carriers(n)) = 0
    BY <1>3, FS_EmptySet
  <2>2. notices[n].sent = 0 /\ ToQueue(n) = 0 /\ faults = 0  BY <1>2, <1>3 DEF MailInit
  <2> QED  BY <2>1, <2>2
<1>5. NoDuplicateWithoutFault /\ AnnouncedFirst
  BY <1>2, <1>3 DEF NoDuplicateWithoutFault, AnnouncedFirst, MailInit
<1> QED  BY <1>1, <1>2, <1>4, <1>5 DEF MailInv, MailInit

\* A worker turns to something else.
LEMMA CarrierMoves ==
    ASSUME MailInv, NEW w \in Postmen, NEW x, postmen' = [postmen EXCEPT ![w] = x],
           NEW n \in Notices
    PROVE  /\ IsFiniteSet(Carriers(n)')
           /\ Cardinality(Carriers(n)) \in Nat /\ Cardinality(Carriers(n)') \in Nat
           /\ Cardinality(Carriers(n)') = Cardinality(Carriers(n)) + One(Carries(x, n))
                                             - One(Carries(postmen[w], n))
<1>1. DOMAIN postmen = Postmen  BY DEF MailInv, MailTypeOK
<1>2. postmen'[w] = x /\ \A v \in Postmen \ {w} : postmen'[v] = postmen[v]  BY <1>1
<1>3. \A v \in Postmen : v \in Carriers(n) <=> Carries(postmen[v], n)
  BY DEF Carriers, Carries
<1>4. \A v \in Postmen : v \in Carriers(n)' <=> Carries(postmen'[v], n)
  BY DEF Carriers, Carries
<1>5. Carriers(n) \subseteq Postmen /\ Carriers(n)' \subseteq Postmen  BY DEF Carriers
<1> DEFINE rest == Carriers(n) \ {w}
<1>6. IsFiniteSet(Carriers(n))  BY DEF MailInv, AttemptsAddUp
<1>7. /\ IsFiniteSet(rest) /\ w \notin rest
      /\ Cardinality(rest) = Cardinality(Carriers(n)) - One(Carries(postmen[w], n))
  <2>1. /\ IsFiniteSet(rest)
        /\ Cardinality(rest) = IF w \in Carriers(n) THEN Cardinality(Carriers(n)) - 1
                               ELSE Cardinality(Carriers(n))
    BY <1>6, FS_RemoveElement
  <2>2. Cardinality(Carriers(n)) \in Nat  BY <1>6, FS_CardinalityType
  <2> QED  BY <1>3, <2>1, <2>2 DEF One
<1>8. Carriers(n)' = IF Carries(x, n) THEN rest \cup {w} ELSE rest
  BY <1>2, <1>3, <1>4, <1>5
<1> HIDE DEF rest
<1>9. /\ IsFiniteSet(Carriers(n)')
      /\ Cardinality(Carriers(n)') = Cardinality(rest) + One(Carries(x, n))
  <2>1. Cardinality(rest) \in Nat  BY <1>7, FS_CardinalityType
  <2>2. CASE Carries(x, n)
    <3>1. /\ IsFiniteSet(rest \cup {w})
          /\ Cardinality(rest \cup {w}) = Cardinality(rest) + 1
      BY <1>7, FS_AddElement
    <3> QED  BY <1>8, <2>2, <3>1 DEF One
  <2>3. CASE ~ Carries(x, n)  BY <1>7, <1>8, <2>1, <2>3 DEF One
  <2> QED  BY <2>2, <2>3
<1>10. Cardinality(Carriers(n)) \in Nat /\ Cardinality(Carriers(n)') \in Nat
  BY <1>6, <1>9, FS_CardinalityType
<1> QED  BY <1>7, <1>9, <1>10 DEF One

\* A message is queued, unless the broker refuses it or has it already.
LEMMA PostGrows ==
    ASSUME MailInv, NEW m, post' \in {post, post \cup {m}}, NEW n \in Notices
    PROVE  /\ IsFiniteSet(InPost(n)')
           /\ Cardinality(InPost(n)) \in Nat /\ Cardinality(InPost(n)') \in Nat
           /\ Cardinality(InPost(n)') <= Cardinality(InPost(n)) + One(m.to = n)
<1>1. IsFiniteSet(InPost(n)) /\ Cardinality(InPost(n)) \in Nat
  BY FS_CardinalityType DEF MailInv, AttemptsAddUp
<1>2. CASE InPost(n)' = InPost(n)  BY <1>1, <1>2 DEF One
<1>3. CASE InPost(n)' = InPost(n) \cup {m} /\ m.to = n
  <2>1. /\ IsFiniteSet(InPost(n)')
        /\ Cardinality(InPost(n)') \in {Cardinality(InPost(n)), Cardinality(InPost(n)) + 1}
    BY <1>1, <1>3, FS_AddElement
  <2> QED  BY <1>1, <1>3, <2>1 DEF One
<1>4. InPost(n)' = InPost(n) \/ (InPost(n)' = InPost(n) \cup {m} /\ m.to = n)
  <2> DEFINE about(set) == {k \in set : k.to = n}
  <2>1. InPost(n) = about(post) /\ InPost(n)' = about(post')  BY DEF InPost
  <2>2. about(post \cup {m}) = IF m.to = n THEN about(post) \cup {m} ELSE about(post)
    OBVIOUS
  <2> HIDE DEF about
  <2> QED  BY <2>1, <2>2
<1> QED  BY <1>2, <1>3, <1>4

\* A message is taken from the queue.
LEMMA PostShrinks ==
    ASSUME MailInv, NEW m \in post, post' = post \ {m}, NEW n \in Notices
    PROVE  /\ IsFiniteSet(InPost(n)')
           /\ Cardinality(InPost(n)) \in Nat /\ Cardinality(InPost(n)') \in Nat
           /\ Cardinality(InPost(n)') = Cardinality(InPost(n)) - One(m.to = n)
<1>1. IsFiniteSet(InPost(n)) /\ Cardinality(InPost(n)) \in Nat
  BY FS_CardinalityType DEF MailInv, AttemptsAddUp
<1>2. InPost(n)' = InPost(n) \ {m} /\ (m \in InPost(n) <=> m.to = n)
  <2>1. InPost(n)' = {k \in post' : k.to = n}  BY DEF InPost
  <2> QED  BY <2>1 DEF InPost
<1>3. /\ IsFiniteSet(InPost(n)')
      /\ Cardinality(InPost(n)') = IF m.to = n THEN Cardinality(InPost(n)) - 1
                                   ELSE Cardinality(InPost(n))
  BY <1>1, <1>2, FS_RemoveElement
<1>4. Cardinality(InPost(n)') \in Nat  BY <1>3, FS_CardinalityType
<1> QED  BY <1>1, <1>3, <1>4 DEF One

\* The accounts of a notice: what the invariant says of it alone.
Account(n, sent, waiting, carried, toqueue, f) ==
    /\ sent \in Nat /\ waiting \in Nat /\ carried \in Nat /\ toqueue \in {0, 1} /\ f \in Nat
    /\ sent + waiting + carried + toqueue <= 1 + f

LEMMA AccountOf ==
    ASSUME MailInv, NEW n \in Notices
    PROVE  Account(n, notices[n].sent, Cardinality(InPost(n)), Cardinality(Carriers(n)),
                   ToQueue(n), faults)
<1>1. notices[n].sent \in Nat /\ faults \in Nat
  BY MailAssumption DEF MailInv, MailTypeOK, Notice
<1>2. Cardinality(InPost(n)) \in Nat /\ Cardinality(Carriers(n)) \in Nat
  BY FS_CardinalityType DEF MailInv, AttemptsAddUp
<1> QED  BY <1>1, <1>2 DEF MailInv, AttemptsAddUp, ToQueue, Account

\* What the queue and the workers hold is of notices that are there, and what
\* was sent is on record.
Holding ==
    /\ \A w \in Postmen : postmen[w].pc # "idle" => notices[postmen[w].letter.to].there
    /\ \A m \in post : notices[m.to].there
    /\ \A n \in Notices : notices[n].emailed => notices[n].sent > 0
    /\ \A w \in Postmen : postmen[w].pc = "sent" => notices[postmen[w].letter.to].sent > 0

LEMMA MailParts ==
    ASSUME MailTypeOK, AttemptsAddUp, AnnouncedFirst, Holding
    PROVE  MailInv
<1>1. ASSUME NEW n \in Notices PROVE notices[n].sent <= 1 + faults
  <2>1. notices[n].sent \in Nat /\ faults \in Nat
    BY MailAssumption DEF MailTypeOK, Notice
  <2>2. Cardinality(InPost(n)) \in Nat /\ Cardinality(Carriers(n)) \in Nat
    BY FS_CardinalityType DEF AttemptsAddUp
  <2>3. ToQueue(n) \in Nat  BY DEF ToQueue
  <2>4. notices[n].sent + Cardinality(InPost(n)) + Cardinality(Carriers(n)) + ToQueue(n)
           <= 1 + faults
    BY DEF AttemptsAddUp
  <2> QED  BY <2>1, <2>2, <2>3, <2>4
<1> QED  BY <1>1 DEF MailInv, NoDuplicateWithoutFault, Holding

\* The parts of the invariant that steps of the accounts have to keep.
LEMMA AddsUpAgain ==
    ASSUME \A n \in Notices :
              /\ IsFiniteSet(InPost(n)') /\ IsFiniteSet(Carriers(n)')
              /\ Account(n, notices'[n].sent, Cardinality(InPost(n)'),
                         Cardinality(Carriers(n)'), ToQueue(n)', faults')
    PROVE  AttemptsAddUp'
  BY DEF AttemptsAddUp, Account

LEMMA AccountHeld ==
    ASSUME MailInv, NEW n \in Notices
    PROVE  /\ IsFiniteSet(InPost(n)) /\ IsFiniteSet(Carriers(n))
           /\ notices[n] \in Notice /\ announced[n[1]] \in
                 [pc : {"none", "committed", "done"}, for : SUBSET Readers]
           /\ n[1] \in Occasions /\ n[2] \in Readers /\ n = <<n[1], n[2]>>
  BY DEF MailInv, AttemptsAddUp, MailTypeOK, Notices

LEMMA GoOffHolds == ASSUME MailInv, NEW u \in Readers, GoOff(u) PROVE MailInv'
<1>1. MailTypeOK'  BY DEF GoOff, MailInv, MailTypeOK
<1>2. UNCHANGED <<announced, notices, post, postmen, faults>>  BY DEF GoOff
<1>3. AttemptsAddUp' /\ AnnouncedFirst' /\ NoDuplicateWithoutFault'
  BY <1>2 DEF MailInv, AttemptsAddUp, AnnouncedFirst, InPost, Carriers, ToQueue,
              NoDuplicateWithoutFault
<1> QED  BY <1>1, <1>2, <1>3 DEF MailInv

\* An event is announced: its notices are there, and nothing was sent of them or
\* is under way.
LEMMA AnnounceHolds ==
    ASSUME MailInv, NEW o \in Occasions, NEW kind \in {"sla", "analysis", "ticket"},
           NEW agent \in Readers \cup {NoReader}, AnnounceAlert(o, kind, agent)
    PROVE  MailInv'
<1>1. PICK for \in Audiences(kind, agent) :
         /\ announced[o].pc = "none"
         /\ announced' = [announced EXCEPT ![o] = [pc |-> "committed", for |-> for]]
         /\ notices' = [n \in Notices |->
               IF n[1] = o /\ n[2] \in for THEN [notices[n] EXCEPT !.there = TRUE]
               ELSE notices[n]]
         /\ UNCHANGED <<onDuty, post, postmen, faults>>
  BY DEF AnnounceAlert
<1>2. for \in SUBSET Readers
  BY MailAssumption DEF Audiences
<1>3. \A n \in Notices :
         /\ notices'[n] \in Notice /\ notices'[n].sent = notices[n].sent
         /\ notices'[n].emailed = notices[n].emailed
         /\ notices'[n].there = (notices[n].there \/ (n[1] = o /\ n[2] \in for))
  <2> SUFFICES ASSUME NEW n \in Notices
               PROVE  /\ notices'[n] \in Notice /\ notices'[n].sent = notices[n].sent
                      /\ notices'[n].emailed = notices[n].emailed
                      /\ notices'[n].there = (notices[n].there \/ (n[1] = o /\ n[2] \in for))
    OBVIOUS
  <2>1. notices[n] \in Notice  BY DEF MailInv, MailTypeOK
  <2>2. CASE n[1] = o /\ n[2] \in for  BY <1>1, <2>1, <2>2 DEF Notice
  <2>3. CASE ~ (n[1] = o /\ n[2] \in for)  BY <1>1, <2>1, <2>3 DEF Notice
  <2> QED  BY <2>2, <2>3
<1>4. MailTypeOK'
  <2>1. announced' \in [Occasions -> [pc : {"none", "committed", "done"}, for : SUBSET Readers]]
    BY <1>1, <1>2 DEF MailInv, MailTypeOK
  <2>2. notices' \in [Notices -> Notice]
    <3>1. DOMAIN notices' = Notices /\ notices' = [n \in Notices |-> notices'[n]]  BY <1>1
    <3> QED  BY <1>3, <3>1
  <2> QED  BY <1>1, <2>1, <2>2 DEF MailInv, MailTypeOK
<1>5. AttemptsAddUp'
  <2>1. ASSUME NEW n \in Notices
        PROVE  /\ IsFiniteSet(InPost(n)') /\ IsFiniteSet(Carriers(n)')
               /\ Account(n, notices'[n].sent, Cardinality(InPost(n)'),
                          Cardinality(Carriers(n)'), ToQueue(n)', faults')
    <3>1. InPost(n)' = InPost(n) /\ Carriers(n)' = Carriers(n) /\ faults' = faults
      BY <1>1 DEF InPost, Carriers
    <3>2. IsFiniteSet(InPost(n)) /\ IsFiniteSet(Carriers(n))  BY AccountHeld
    <3>3. Account(n, notices[n].sent, Cardinality(InPost(n)), Cardinality(Carriers(n)),
                  ToQueue(n), faults)
      BY AccountOf
    <3>4. notices'[n].sent = notices[n].sent  BY <1>3
    <3>5. CASE n[1] = o
      <4>1. ~ notices[n].there  BY <1>1, <3>5 DEF MailInv, AnnouncedFirst
      <4>2. InPost(n) = {} /\ Carriers(n) = {} /\ notices[n].sent = 0
        BY <4>1 DEF MailInv, AnnouncedFirst, InPost, Carriers
      <4>3. Cardinality(InPost(n)) = 0 /\ Cardinality(Carriers(n)) = 0  BY <4>2, FS_EmptySet
      <4>4. ToQueue(n)' \in {0, 1}  BY DEF ToQueue
      <4> QED  BY <3>1, <3>2, <3>3, <3>4, <4>2, <4>3, <4>4 DEF Account
    <3>6. CASE n[1] # o
      <4>1. ToQueue(n)' = ToQueue(n)
        BY <1>1, <3>6, AccountHeld DEF ToQueue, MailInv, MailTypeOK
      <4> QED  BY <3>1, <3>2, <3>3, <3>4, <4>1
    <3> QED  BY <3>5, <3>6
  <2> QED  BY <2>1, AddsUpAgain
<1>6. AnnouncedFirst'
  <2> SUFFICES ASSUME NEW n \in Notices
               PROVE  /\ announced'[n[1]].pc = "none" => ~ notices'[n].there
                      /\ ToQueue(n)' = 1 => notices'[n].there
                      /\ ~ notices'[n].there => notices'[n].sent = 0
    BY DEF AnnouncedFirst
  <2>1. /\ announced[n[1]].pc = "none" => ~ notices[n].there
        /\ ToQueue(n) = 1 => notices[n].there
        /\ ~ notices[n].there => notices[n].sent = 0
    BY DEF MailInv, AnnouncedFirst
  <2>2. CASE n[1] = o
    <3>1. announced'[n[1]] = [pc |-> "committed", for |-> for]
      BY <1>1, <2>2 DEF MailInv, MailTypeOK
    <3>2. ToQueue(n)' = 1 => n[2] \in for  BY <3>1 DEF ToQueue
    <3>3. announced'[n[1]].pc # "none"  BY <3>1
    <3>4. notices'[n].there <=> notices[n].there \/ n[2] \in for  BY <1>3, <2>2
    <3>5. notices'[n].sent = notices[n].sent  BY <1>3
    <3> QED  BY <2>1, <3>2, <3>3, <3>4, <3>5
  <2>3. CASE n[1] # o
    <3>1. announced'[n[1]] = announced[n[1]]
      BY <1>1, <2>3, AccountHeld DEF MailInv, MailTypeOK
    <3>2. ToQueue(n)' = ToQueue(n)  BY <3>1 DEF ToQueue
    <3>3. notices[n] \in Notice  BY DEF MailInv, MailTypeOK
    <3>4. (notices'[n].there <=> notices[n].there) /\ notices'[n].sent = notices[n].sent
      BY <1>3, <2>3, <3>3 DEF Notice
    <3> QED  BY <2>1, <3>1, <3>2, <3>4
  <2> QED  BY <2>2, <2>3
<1>7. Holding'
  <2>1. /\ \A w \in Postmen : postmen[w].letter.to \in Notices
        /\ \A m \in post : m.to \in Notices
    BY DEF MailInv, MailTypeOK, Postman, Letter
  <2> QED  BY <1>1, <1>3, <2>1 DEF MailInv, Holding
<1>8. (MailTypeOK /\ AttemptsAddUp /\ AnnouncedFirst /\ Holding => MailInv)'
  BY <1>1, MailParts, PTL
<1> QED  BY <1>4, <1>5, <1>6, <1>7, <1>8

\* A worker at its notice: what it turns to, what becomes of the row, and the
\* message it may put back.  It sends or queues no more than it gives up, or
\* there is a fault for it.
Works(w, x, row, m) ==
    LET n == postmen[w].letter.to IN
    /\ x \in Postman /\ row \in Notice /\ m \in Letter /\ m.to = n
    /\ postmen[w].pc # "idle" /\ (x.pc # "idle" => x.letter = postmen[w].letter)
    /\ row.there = notices[n].there /\ row.sent >= notices[n].sent
    /\ (row.emailed \/ x.pc = "sent") => row.sent > 0
    /\ faults' \in {faults, faults + 1} /\ faults' <= MailFaults
    /\ post' \in {post, post \cup {m}}
    /\ row.sent + One(Carries(x, n)) + One(post' # post) + faults
          <= notices[n].sent + One(Carries(postmen[w], n)) + faults'
    /\ postmen' = [postmen EXCEPT ![w] = x]
    /\ notices' = [notices EXCEPT ![n] = row]
    /\ UNCHANGED <<onDuty, announced>>

LEMMA WorkHolds ==
    ASSUME MailInv, NEW w \in Postmen, NEW x, NEW row, NEW m, Works(w, x, row, m)
    PROVE  MailInv'
<1> DEFINE n == postmen[w].letter.to
<1>1. /\ n \in Notices /\ postmen[w] \in Postman /\ notices[n].there /\ notices[n] \in Notice
      /\ DOMAIN notices = Notices /\ DOMAIN postmen = Postmen
      /\ faults \in Nat /\ MailFaults \in Nat
  BY MailAssumption DEF MailInv, MailTypeOK, Postman, Letter, Works
<1>2. /\ x \in Postman /\ row \in Notice /\ m \in Letter /\ m.to = n
      /\ (x.pc # "idle" => x.letter = postmen[w].letter)
      /\ row.there /\ row.sent >= notices[n].sent
      /\ (row.emailed \/ x.pc = "sent") => row.sent > 0
      /\ faults' \in {faults, faults + 1} /\ faults' <= MailFaults
      /\ post' \in {post, post \cup {m}}
      /\ postmen' = [postmen EXCEPT ![w] = x]
      /\ notices' = [notices EXCEPT ![n] = row]
      /\ onDuty' = onDuty /\ announced' = announced
  BY <1>1 DEF Works
<1>3. row.sent + One(Carries(x, n)) + One(post' # post) + faults
         <= notices[n].sent + One(Carries(postmen[w], n)) + faults'
  BY DEF Works
<1>4. /\ notices'[n] = row /\ \A k \in Notices \ {n} : notices'[k] = notices[k]
      /\ postmen'[w] = x /\ \A v \in Postmen \ {w} : postmen'[v] = postmen[v]
  BY <1>1, <1>2
<1> HIDE DEF n
<1>5. MailTypeOK'
  <2>1. notices' \in [Notices -> Notice] /\ postmen' \in [Postmen -> Postman]
    BY <1>1, <1>2 DEF MailInv, MailTypeOK
  <2>2. post' \subseteq Letter  BY <1>2 DEF MailInv, MailTypeOK
  <2>3. faults' \in 0 .. MailFaults  BY <1>1, <1>2
  <2> QED  BY <1>2, <2>1, <2>2, <2>3 DEF MailInv, MailTypeOK
<1>6. AttemptsAddUp'
  <2>1. ASSUME NEW k \in Notices
        PROVE  /\ IsFiniteSet(InPost(k)') /\ IsFiniteSet(Carriers(k)')
               /\ Account(k, notices'[k].sent, Cardinality(InPost(k)'),
                          Cardinality(Carriers(k)'), ToQueue(k)', faults')
    <3>1. /\ IsFiniteSet(Carriers(k)')
          /\ Cardinality(Carriers(k)) \in Nat /\ Cardinality(Carriers(k)') \in Nat
          /\ Cardinality(Carriers(k)') = Cardinality(Carriers(k)) + One(Carries(x, k))
                                            - One(Carries(postmen[w], k))
      BY <1>2, CarrierMoves
    <3>2. /\ IsFiniteSet(InPost(k)') /\ Cardinality(InPost(k)') \in Nat
          /\ Cardinality(InPost(k)) \in Nat
          /\ Cardinality(InPost(k)') <= Cardinality(InPost(k)) + One(k = n /\ post' # post)
      <4>1. /\ IsFiniteSet(InPost(k)')
            /\ Cardinality(InPost(k)) \in Nat /\ Cardinality(InPost(k)') \in Nat
            /\ Cardinality(InPost(k)') <= Cardinality(InPost(k)) + One(m.to = k)
        BY <1>2, PostGrows
      <4>2. post' = post => InPost(k)' = InPost(k)  BY DEF InPost
      <4> QED  BY <1>2, <4>1, <4>2 DEF One
    <3>3. Account(k, notices[k].sent, Cardinality(InPost(k)), Cardinality(Carriers(k)),
                  ToQueue(k), faults)
      BY AccountOf
    <3>4. ToQueue(k)' = ToQueue(k)  BY <1>2 DEF ToQueue
    <3>5. notices[k].sent \in Nat /\ row.sent \in Nat /\ faults' \in Nat
      BY <1>1, <1>2 DEF MailInv, MailTypeOK, Notice
    <3>6. CASE k = n
      <4>1. notices'[k] = row  BY <1>4, <3>6
      <4>2. row.sent + One(Carries(x, k)) + One(post' # post) + faults
               <= notices[k].sent + One(Carries(postmen[w], k)) + faults'
        BY <1>3, <3>6
      <4>3. /\ One(Carries(x, k)) \in Nat /\ One(Carries(postmen[w], k)) \in Nat
            /\ One(post' # post) \in Nat /\ One(k = n /\ post' # post) = One(post' # post)
        BY <3>6 DEF One
      <4> HIDE DEF One
      <4> QED  BY <1>1, <3>1, <3>2, <3>3, <3>4, <3>5, <4>1, <4>2, <4>3 DEF Account
    <3>7. CASE k # n
      <4>1. notices'[k] = notices[k]  BY <1>4, <3>7
      <4>2. One(Carries(x, k)) = 0 /\ One(Carries(postmen[w], k)) = 0
        BY <1>2, <3>7 DEF One, Carries, n
      <4>3. One(k = n /\ post' # post) = 0  BY <3>7 DEF One
      <4>4. Cardinality(Carriers(k)') = Cardinality(Carriers(k))  BY <3>1, <4>2
      <4>5. Cardinality(InPost(k)') <= Cardinality(InPost(k))  BY <3>2, <4>3
      <4>6. faults <= faults'  BY <1>1, <1>2
      <4> QED
        BY <1>1, <3>1, <3>2, <3>3, <3>4, <3>5, <4>1, <4>4, <4>5, <4>6 DEF Account
    <3> QED  BY <3>6, <3>7
  <2> QED  BY <2>1, AddsUpAgain
<1>7. AnnouncedFirst'
  <2> SUFFICES ASSUME NEW k \in Notices
               PROVE  /\ announced'[k[1]].pc = "none" => ~ notices'[k].there
                      /\ ToQueue(k)' = 1 => notices'[k].there
                      /\ ~ notices'[k].there => notices'[k].sent = 0
    BY DEF AnnouncedFirst
  <2>1. /\ announced[k[1]].pc = "none" => ~ notices[k].there
        /\ ToQueue(k) = 1 => notices[k].there
        /\ ~ notices[k].there => notices[k].sent = 0
    BY DEF MailInv, AnnouncedFirst
  <2>2. ToQueue(k)' = ToQueue(k)  BY <1>2 DEF ToQueue
  <2>3. CASE k = n  BY <1>1, <1>2, <1>4, <2>1, <2>3
  <2>4. CASE k # n  BY <1>2, <1>4, <2>1, <2>2, <2>4
  <2> QED  BY <2>3, <2>4
<1>8. Holding'
  <2>1. \A k \in Notices : /\ notices[k].there => notices'[k].there
                           /\ notices[k].sent > 0 => notices'[k].sent > 0
                           /\ notices'[k].emailed => notices'[k].sent > 0
    <3> SUFFICES ASSUME NEW k \in Notices
                 PROVE  /\ notices[k].there => notices'[k].there
                        /\ notices[k].sent > 0 => notices'[k].sent > 0
                        /\ notices'[k].emailed => notices'[k].sent > 0
      OBVIOUS
    <3>1. notices[k].emailed => notices[k].sent > 0  BY DEF MailInv
    <3>2. notices[k].sent \in Nat /\ row.sent \in Nat
      BY <1>2 DEF MailInv, MailTypeOK, Notice
    <3>3. CASE k = n  BY <1>1, <1>2, <1>4, <3>2, <3>3
    <3>4. CASE k # n  BY <1>4, <3>1, <3>4
    <3> QED  BY <3>3, <3>4
  <2>2. /\ \A v \in Postmen : postmen[v].letter.to \in Notices
        /\ \A l \in post : l.to \in Notices
    BY DEF MailInv, MailTypeOK, Postman, Letter
  <2>3. ASSUME NEW v \in Postmen
        PROVE  /\ postmen'[v].pc # "idle" => notices'[postmen'[v].letter.to].there
               /\ postmen'[v].pc = "sent" => notices'[postmen'[v].letter.to].sent > 0
    <3>1. /\ postmen[v].pc # "idle" => notices[postmen[v].letter.to].there
          /\ postmen[v].pc = "sent" => notices[postmen[v].letter.to].sent > 0
      BY DEF MailInv
    <3>2. CASE v = w
      <4>1. postmen'[v] = x  BY <1>4, <3>2
      <4>2. x.pc # "idle" => x.letter.to = n  BY <1>2 DEF n
      <4>3. notices'[n].there  BY <1>2, <1>4
      <4>4. x.pc = "sent" => x.pc # "idle" /\ notices'[n].sent > 0  BY <1>2, <1>4
      <4> QED  BY <4>1, <4>2, <4>3, <4>4
    <3>3. CASE v # w
      <4>1. postmen'[v] = postmen[v]  BY <1>4, <3>3
      <4> QED  BY <2>1, <2>2, <3>1, <4>1
    <3> QED  BY <3>2, <3>3
  <2>4. ASSUME NEW l \in post' PROVE notices'[l.to].there
    <3>1. CASE l = m  BY <1>2, <1>4, <3>1
    <3>2. CASE l # m
      <4>1. l \in post  BY <1>2, <3>2
      <4> QED  BY <2>1, <2>2, <4>1 DEF MailInv
    <3> QED  BY <3>1, <3>2
  <2> QED  BY <2>1, <2>3, <2>4 DEF Holding
<1>9. (MailTypeOK /\ AttemptsAddUp /\ AnnouncedFirst /\ Holding => MailInv)'
  BY MailParts, PTL
<1> QED  BY <1>5, <1>6, <1>7, <1>8, <1>9

LEMMA WorkerIs ==
    ASSUME MailInv, NEW w \in Postmen
    PROVE  /\ postmen[w] \in Postman /\ postmen[w].letter \in Letter
           /\ postmen[w].letter.to \in Notices /\ notices[postmen[w].letter.to] \in Notice
           /\ [pc |-> "idle", letter |-> NoLetter] \in Postman
           /\ faults \in Nat /\ faults <= MailFaults /\ postmen[w].letter.try \in 0 .. MaxTries
           /\ notices \in [Notices -> Notice] /\ postmen \in [Postmen -> Postman]
           /\ DOMAIN notices = Notices /\ DOMAIN postmen = Postmen
<1>1. postmen[w] \in Postman  BY DEF MailInv, MailTypeOK
<1>2. postmen[w].letter \in Letter  BY <1>1 DEF Postman
<1>3. postmen[w].letter.to \in Notices /\ postmen[w].letter.try \in 0 .. MaxTries
  BY <1>2 DEF Letter
<1>4. notices[postmen[w].letter.to] \in Notice  BY <1>3 DEF MailInv, MailTypeOK
<1>5. [pc |-> "idle", letter |-> NoLetter] \in Postman  BY NoLetterIsOne DEF Postman
<1>6. faults \in Nat /\ faults <= MailFaults  BY MailAssumption DEF MailInv, MailTypeOK
<1> QED  BY <1>1, <1>2, <1>3, <1>4, <1>5, <1>6 DEF MailInv, MailTypeOK

LEMMA LoadHolds == ASSUME MailInv, NEW w \in Postmen, LoadNotice(w) PROVE MailInv'
<1> DEFINE n == postmen[w].letter.to  m == postmen[w].letter
           idle == [pc |-> "idle", letter |-> NoLetter]
           off == [notices[n] EXCEPT !.end = "off"]
           loaded == [postmen[w] EXCEPT !.pc = "loaded"]
<1>1. /\ postmen[w] \in Postman /\ m \in Letter /\ n \in Notices /\ notices[n] \in Notice
      /\ idle \in Postman /\ faults \in Nat /\ faults <= MailFaults
      /\ notices \in [Notices -> Notice] /\ postmen \in [Postmen -> Postman]
      /\ DOMAIN notices = Notices /\ DOMAIN postmen = Postmen
  BY WorkerIs
<1>2. /\ postmen[w].pc = "taken" /\ UNCHANGED <<onDuty, announced, post, faults>>
  BY DEF LoadNotice
<1>3. notices[n].emailed => notices[n].sent > 0  BY <1>1 DEF MailInv
<1>4. /\ One(Carries(postmen[w], n)) = 1 /\ One(post' # post) = 0
      /\ One(Carries(idle, n)) = 0
  BY <1>2 DEF One, Carries
<1>5. /\ off \in Notice /\ off.there = notices[n].there /\ off.sent = notices[n].sent
      /\ off.emailed = notices[n].emailed
  BY <1>1 DEF Notice
<1>6. /\ loaded \in Postman /\ loaded.letter = m /\ loaded.pc = "loaded"
      /\ One(Carries(loaded, n)) = 1
  BY <1>1 DEF Postman, One, Carries
<1>7. notices[n].sent \in Nat  BY <1>1 DEF Notice
<1>8. \/ UNCHANGED notices /\ Rest(w)
      \/ End(n, "off") /\ Rest(w)
      \/ UNCHANGED notices /\ Goes(w, "loaded")
  BY DEF LoadNotice
<1>9. notices = [notices EXCEPT ![n] = notices[n]]  BY <1>1
<1> HIDE DEF idle, off, loaded, n, m
<1>10. CASE UNCHANGED notices /\ Rest(w)
  <2>1. postmen' = [postmen EXCEPT ![w] = idle]  BY <1>10 DEF Rest, idle
  <2>2. idle.pc = "idle"  BY DEF idle
  <2>3. Works(w, idle, notices[n], m)
    BY <1>1, <1>2, <1>3, <1>4, <1>7, <1>9, <1>10, <2>1, <2>2 DEF Works, n, m
  <2> QED  BY <2>3, WorkHolds
<1>11. CASE End(n, "off") /\ Rest(w)
  <2>1. postmen' = [postmen EXCEPT ![w] = idle]  BY <1>11 DEF Rest, idle
  <2>2. idle.pc = "idle"  BY DEF idle
  <2>3. notices' = [notices EXCEPT ![n] = off]  BY <1>1, <1>11 DEF End, off
  <2>4. Works(w, idle, off, m)
    BY <1>1, <1>2, <1>3, <1>4, <1>5, <1>7, <2>1, <2>2, <2>3 DEF Works, n, m
  <2> QED  BY <2>4, WorkHolds
<1>12. CASE UNCHANGED notices /\ Goes(w, "loaded")
  <2>1. postmen' = [postmen EXCEPT ![w] = loaded]  BY <1>1, <1>12 DEF Goes, loaded
  <2>2. Works(w, loaded, notices[n], m)
    BY <1>1, <1>2, <1>3, <1>4, <1>6, <1>7, <1>9, <1>12, <2>1 DEF Works, n, m
  <2> QED  BY <2>2, WorkHolds
<1> QED  BY <1>8, <1>10, <1>11, <1>12

LEMMA SendsHolds == ASSUME MailInv, NEW w \in Postmen, Sends(w) PROVE MailInv'
<1> DEFINE n == postmen[w].letter.to  m == postmen[w].letter
           row == [notices[n] EXCEPT !.sent = @ + 1]
           gone == [postmen[w] EXCEPT !.pc = "sent"]
<1>1. /\ postmen[w] \in Postman /\ m \in Letter /\ n \in Notices /\ notices[n] \in Notice
      /\ faults \in Nat /\ faults <= MailFaults
      /\ notices \in [Notices -> Notice] /\ postmen \in [Postmen -> Postman]
      /\ DOMAIN notices = Notices /\ DOMAIN postmen = Postmen
  BY WorkerIs
<1>2. /\ postmen[w].pc = "loaded" /\ UNCHANGED <<onDuty, announced, post, faults>>
      /\ notices' = [notices EXCEPT ![n] = row] /\ postmen' = [postmen EXCEPT ![w] = gone]
  BY <1>1 DEF Sends, Goes
<1>3. /\ row \in Notice /\ row.there = notices[n].there /\ row.sent = notices[n].sent + 1
      /\ notices[n].sent \in Nat
  BY <1>1 DEF Notice
<1>4. gone \in Postman /\ gone.letter = m /\ gone.pc = "sent"  BY <1>1 DEF Postman
<1>5. /\ One(Carries(postmen[w], n)) = 1 /\ One(post' # post) = 0
      /\ One(Carries(gone, n)) = 0
  BY <1>2, <1>4 DEF One, Carries
<1> HIDE DEF n, m, row, gone
<1>6. Works(w, gone, row, m)
  BY <1>1, <1>2, <1>3, <1>4, <1>5 DEF Works, n, m
<1> QED  BY <1>6, WorkHolds

LEMMA StampHolds == ASSUME MailInv, NEW w \in Postmen, Stamp(w) PROVE MailInv'
<1> DEFINE n == postmen[w].letter.to  m == postmen[w].letter
           row == [notices[n] EXCEPT !.emailed = TRUE, !.end = "delivered"]
           idle == [pc |-> "idle", letter |-> NoLetter]
<1>1. /\ postmen[w] \in Postman /\ m \in Letter /\ n \in Notices /\ notices[n] \in Notice
      /\ idle \in Postman /\ faults \in Nat /\ faults <= MailFaults
      /\ notices \in [Notices -> Notice] /\ postmen \in [Postmen -> Postman]
      /\ DOMAIN notices = Notices /\ DOMAIN postmen = Postmen
  BY WorkerIs
<1>2. /\ postmen[w].pc = "sent" /\ UNCHANGED <<onDuty, announced, post, faults>>
      /\ postmen' = [postmen EXCEPT ![w] = idle] /\ idle.pc = "idle"
  BY DEF Stamp, Rest
<1>3. notices' = [notices EXCEPT ![n] = row]
  BY <1>1 DEF Stamp, Notice
<1>4. row \in Notice /\ row.there = notices[n].there /\ row.sent = notices[n].sent
  BY <1>1 DEF Notice
<1>5. notices[n].sent > 0 /\ notices[n].sent \in Nat  BY <1>1, <1>2 DEF MailInv, Notice
<1>6. /\ One(Carries(postmen[w], n)) = 0 /\ One(post' # post) = 0
      /\ One(Carries(idle, n)) = 0
  BY <1>2 DEF One, Carries
<1> HIDE DEF n, m, row, idle
<1>7. Works(w, idle, row, m)
  BY <1>1, <1>2, <1>3, <1>4, <1>5, <1>6 DEF Works, n, m
<1> QED  BY <1>7, WorkHolds

\* A failure: only an unreachable server has the message queued again, and then
\* it was not sent.
LEMMA FailsHolds ==
    ASSUME MailInv, NEW w \in Postmen, NEW fault \in {"unreachable", "refused", "lost"},
           Fails(w, fault)
    PROVE  MailInv'
<1> DEFINE n == postmen[w].letter.to  m == postmen[w].letter
           again == IF m.try < MaxTries THEN [m EXCEPT !.try = @ + 1] ELSE m
           idle == [pc |-> "idle", letter |-> NoLetter]
           sent == IF fault = "lost" THEN notices[n].sent + 1 ELSE notices[n].sent
           end == IF ~ IsTransient(fault) THEN "refused"
                  ELSE IF m.try = MaxTries THEN "exhausted" ELSE notices[n].end
           row == [notices[n] EXCEPT !.sent = sent, !.end = end]
<1>1. /\ postmen[w] \in Postman /\ m \in Letter /\ n \in Notices /\ notices[n] \in Notice
      /\ idle \in Postman /\ faults \in Nat /\ faults <= MailFaults
      /\ notices \in [Notices -> Notice] /\ postmen \in [Postmen -> Postman]
      /\ DOMAIN notices = Notices /\ DOMAIN postmen = Postmen /\ m.try \in 0 .. MaxTries
  BY WorkerIs
<1>2. /\ postmen[w].pc = "loaded" /\ UNCHANGED <<onDuty, announced, faults>>
      /\ postmen' = [postmen EXCEPT ![w] = idle] /\ idle.pc = "idle"
  BY DEF Fails, Rest
<1>3. notices' = [notices EXCEPT ![n] = row]
  BY <1>1 DEF Fails, Notice
<1>4. /\ notices[n].sent \in Nat
      /\ notices[n].end \in {"none", "delivered", "refused", "exhausted", "off", "raised"}
  BY <1>1 DEF Notice
<1>5. /\ sent \in Nat /\ end \in {"none", "delivered", "refused", "exhausted", "off", "raised"}
      /\ sent = notices[n].sent + One(fault = "lost")
  BY <1>4 DEF One
<1> HIDE DEF sent, end
<1>6. /\ row \in Notice /\ row.there = notices[n].there /\ row.sent = sent
      /\ row.emailed = notices[n].emailed
  BY <1>1, <1>5 DEF Notice
<1>7. again \in Letter /\ again.to = n
  <2>1. CASE m.try < MaxTries
    <3>1. m.try + 1 \in 0 .. MaxTries  BY <1>1, <2>1, MailAssumption
    <3> QED  BY <1>1, <2>1, <3>1 DEF Letter
  <2>2. CASE ~ (m.try < MaxTries)  BY <1>1, <2>2
  <2> QED  BY <2>1, <2>2
<1>8. /\ post' \in {post, post \cup {again}}
      /\ post' # post => fault = "unreachable"
  BY DEF Fails, IsTransient
<1>9. One(post' # post) + One(fault = "lost") <= 1 /\ One(post' # post) \in Nat
  BY <1>8 DEF One
<1>10. One(Carries(postmen[w], n)) = 1 /\ One(Carries(idle, n)) = 0
  BY <1>2 DEF One, Carries
<1>11. notices[n].emailed => notices[n].sent > 0  BY <1>1 DEF MailInv
<1>12. One(fault = "lost") \in {0, 1}  BY DEF One
<1>13. row.sent >= notices[n].sent /\ (row.emailed => row.sent > 0)
  BY <1>4, <1>5, <1>6, <1>11, <1>12
<1>14. row.sent + One(Carries(idle, n)) + One(post' # post) + faults
          <= notices[n].sent + One(Carries(postmen[w], n)) + faults'
  BY <1>1, <1>2, <1>4, <1>5, <1>6, <1>9, <1>10, <1>12
<1> HIDE DEF n, m, row, idle, again
<1>15. Works(w, idle, row, again)
  BY <1>1, <1>2, <1>3, <1>6, <1>7, <1>8, <1>13, <1>14 DEF Works, n
<1> QED  BY <1>15, WorkHolds

\* A task that raises gives its attempt up: what it may have sent is that one.
LEMMA RaisesHolds == ASSUME MailInv, NEW w \in Postmen, Raises(w) PROVE MailInv'
<1> DEFINE n == postmen[w].letter.to  m == postmen[w].letter
           idle == [pc |-> "idle", letter |-> NoLetter]
<1>1. /\ postmen[w] \in Postman /\ m \in Letter /\ n \in Notices /\ notices[n] \in Notice
      /\ idle \in Postman /\ faults \in Nat /\ faults <= MailFaults
      /\ notices \in [Notices -> Notice] /\ postmen \in [Postmen -> Postman]
      /\ DOMAIN notices = Notices /\ DOMAIN postmen = Postmen
  BY WorkerIs
<1>2. /\ postmen[w].pc # "idle" /\ UNCHANGED <<onDuty, announced, post, faults>>
      /\ postmen' = [postmen EXCEPT ![w] = idle] /\ idle.pc = "idle"
  BY DEF Raises, Rest
<1>3. PICK out \in {FALSE, postmen[w].pc = "loaded"} :
         notices' = [notices EXCEPT ![n].sent = IF out THEN @ + 1 ELSE @,
                                    ![n].end = IF @ = "none" THEN "raised" ELSE @]
  BY DEF Raises
<1> DEFINE sent == IF out THEN notices[n].sent + 1 ELSE notices[n].sent
           end == IF notices[n].end = "none" THEN "raised" ELSE notices[n].end
           row == [notices[n] EXCEPT !.sent = sent, !.end = end]
<1>4. notices' = [notices EXCEPT ![n] = row]
  BY <1>1, <1>3 DEF Notice
<1>5. /\ notices[n].sent \in Nat
      /\ notices[n].end \in {"none", "delivered", "refused", "exhausted", "off", "raised"}
      /\ notices[n].emailed => notices[n].sent > 0
  BY <1>1 DEF Notice, MailInv
<1>6. /\ sent \in Nat /\ end \in {"none", "delivered", "refused", "exhausted", "off", "raised"}
      /\ sent = notices[n].sent + One(out)
      /\ out => postmen[w].pc = "loaded"
  <2>1. out => postmen[w].pc = "loaded"
    <3>1. out = FALSE \/ out = (postmen[w].pc = "loaded")  BY <1>3
    <3> QED  BY <3>1
  <2>2. end \in {"none", "delivered", "refused", "exhausted", "off", "raised"}  BY <1>5
  <2>3. CASE out  BY <1>5, <2>1, <2>2, <2>3 DEF One
  <2>4. CASE ~ out  BY <1>5, <2>1, <2>2, <2>4 DEF One
  <2> QED  BY <2>3, <2>4
<1> HIDE DEF sent, end
<1>7. /\ row \in Notice /\ row.there = notices[n].there /\ row.sent = sent
      /\ row.emailed = notices[n].emailed
  BY <1>1, <1>6 DEF Notice
<1>8. /\ One(Carries(idle, n)) = 0 /\ One(post' # post) = 0
      /\ One(out) <= One(Carries(postmen[w], n))
      /\ One(out) \in {0, 1} /\ One(Carries(postmen[w], n)) \in {0, 1}
  BY <1>2, <1>6 DEF One, Carries
<1>9. /\ row.sent >= notices[n].sent /\ (row.emailed => row.sent > 0)
      /\ row.sent + One(Carries(idle, n)) + One(post' # post) + faults
            <= notices[n].sent + One(Carries(postmen[w], n)) + faults'
  BY <1>1, <1>2, <1>5, <1>6, <1>7, <1>8
<1> HIDE DEF n, m, row, idle
<1>10. Works(w, idle, row, m)
  BY <1>1, <1>2, <1>4, <1>7, <1>9 DEF Works, n, m
<1> QED  BY <1>10, WorkHolds

\* A lost worker or a message handed out again is one fault more.
LEMMA LostHolds ==
    ASSUME MailInv, NEW w \in Postmen, Lost(w) \/ HandOutAgain(w)
    PROVE  MailInv'
<1> DEFINE n == postmen[w].letter.to  m == postmen[w].letter
           x == IF Lost(w) THEN [pc |-> "idle", letter |-> NoLetter] ELSE postmen[w]
<1>1. /\ postmen[w] \in Postman /\ m \in Letter /\ n \in Notices /\ notices[n] \in Notice
      /\ [pc |-> "idle", letter |-> NoLetter] \in Postman /\ faults \in Nat
      /\ notices \in [Notices -> Notice] /\ postmen \in [Postmen -> Postman]
      /\ DOMAIN notices = Notices /\ DOMAIN postmen = Postmen
  BY WorkerIs
<1>2. /\ postmen[w].pc # "idle" /\ faults < MailFaults /\ faults' = faults + 1
      /\ post' = post \cup {m} /\ UNCHANGED <<onDuty, announced, notices>>
  BY DEF Lost, HandOutAgain
<1>3. x \in Postman /\ (x.pc # "idle" => x = postmen[w])  BY <1>1
<1>4. postmen' = [postmen EXCEPT ![w] = x]
  <2>1. CASE Lost(w)  BY <2>1 DEF Lost, Rest
  <2>2. CASE ~ Lost(w)  BY <1>1, <2>2 DEF HandOutAgain
  <2> QED  BY <2>1, <2>2
<1>5. notices' = [notices EXCEPT ![n] = notices[n]]  BY <1>1, <1>2
<1>6. /\ notices[n].emailed => notices[n].sent > 0
      /\ postmen[w].pc = "sent" => notices[n].sent > 0
      /\ notices[n].sent \in Nat
  BY <1>1 DEF MailInv, Notice
<1>7. /\ One(Carries(x, n)) <= One(Carries(postmen[w], n)) /\ One(post' # post) <= 1
      /\ One(Carries(x, n)) \in Nat /\ One(Carries(postmen[w], n)) \in Nat
      /\ One(post' # post) \in Nat
  <2>1. Carries(x, n) => Carries(postmen[w], n)  BY <1>3 DEF Carries
  <2> QED  BY <2>1 DEF One
<1> HIDE DEF x, n, m
<1>8. Works(w, x, notices[n], m)
  <2>1. faults' \in {faults, faults + 1} /\ faults' <= MailFaults
    BY <1>1, <1>2, MailAssumption
  <2>2. notices[n].sent + One(Carries(x, n)) + One(post' # post) + faults
           <= notices[n].sent + One(Carries(postmen[w], n)) + faults'
    BY <1>1, <1>2, <1>6, <1>7
  <2>3. (notices[n].emailed \/ x.pc = "sent") => notices[n].sent > 0  BY <1>3, <1>6
  <2>4. m.to = n /\ (x.pc # "idle" => x.letter = m)  BY <1>3 DEF m, n
  <2>5. notices[n].sent >= notices[n].sent  BY <1>6
  <2> QED
    BY <1>1, <1>2, <1>3, <1>4, <1>5, <2>1, <2>2, <2>3, <2>4, <2>5 DEF Works, n, m
<1> QED  BY <1>8, WorkHolds

\* One notice is queued: what was to be queued is in the queue, or was refused.
LEMMA QueueHolds ==
    ASSUME MailInv, NEW o \in Occasions, NEW u \in Readers, Mail(o, u) PROVE MailInv'
<1> DEFINE n == <<o, u>>  m == [to |-> n, try |-> 0]
           event == [announced[o] EXCEPT !.for = @ \ {u}]
<1>1. /\ announced[o].pc = "committed" /\ u \in announced[o].for
      /\ announced' = [announced EXCEPT ![o] = event]
      /\ post' \in {post, post \cup {m}} /\ UNCHANGED <<onDuty, notices, postmen, faults>>
  <2>1. announced[o] \in [pc : {"none", "committed", "done"}, for : SUBSET Readers]
    BY DEF MailInv, MailTypeOK
  <2> QED  BY <2>1 DEF Mail
<1>2. n \in Notices /\ n[1] = o /\ n[2] = u /\ m \in Letter /\ m.to = n
  BY MailAssumption DEF Notices, Letter
<1>3. /\ event \in [pc : {"none", "committed", "done"}, for : SUBSET Readers]
      /\ event.pc = "committed" /\ event.for = announced[o].for \ {u}
      /\ DOMAIN announced = Occasions
  BY <1>1 DEF MailInv, MailTypeOK
<1> HIDE DEF event
<1>4. announced'[o] = event /\ \A p \in Occasions \ {o} : announced'[p] = announced[p]
  BY <1>1, <1>3
<1>5. ToQueue(n) = 1 /\ ToQueue(n)' = 0
  BY <1>1, <1>2, <1>3, <1>4 DEF ToQueue
<1>6. ASSUME NEW k \in Notices, k # n PROVE ToQueue(k)' = ToQueue(k)
  <2>1. k[1] \in Occasions /\ k = <<k[1], k[2]>>  BY AccountHeld
  <2>2. CASE k[1] = o
    <3>1. k[2] # u  BY <1>6, <2>1, <2>2
    <3> QED  BY <1>1, <1>3, <1>4, <2>2, <3>1 DEF ToQueue
  <2>3. CASE k[1] # o  BY <1>4, <2>1, <2>3 DEF ToQueue
  <2> QED  BY <2>2, <2>3
<1>7. MailTypeOK'
  <2>1. announced' \in [Occasions -> [pc : {"none", "committed", "done"}, for : SUBSET Readers]]
    BY <1>1, <1>3 DEF MailInv, MailTypeOK
  <2> QED  BY <1>1, <1>2, <2>1 DEF MailInv, MailTypeOK
<1> HIDE DEF n, m
<1>8. AttemptsAddUp'
  <2>1. ASSUME NEW k \in Notices
        PROVE  /\ IsFiniteSet(InPost(k)') /\ IsFiniteSet(Carriers(k)')
               /\ Account(k, notices'[k].sent, Cardinality(InPost(k)'),
                          Cardinality(Carriers(k)'), ToQueue(k)', faults')
    <3>1. Carriers(k)' = Carriers(k) /\ IsFiniteSet(Carriers(k))
      BY <1>1, AccountHeld DEF Carriers
    <3>2. /\ IsFiniteSet(InPost(k)')
          /\ Cardinality(InPost(k)) \in Nat /\ Cardinality(InPost(k)') \in Nat
          /\ Cardinality(InPost(k)') <= Cardinality(InPost(k)) + One(k = n)
      BY <1>1, <1>2, PostGrows
    <3>3. Account(k, notices[k].sent, Cardinality(InPost(k)), Cardinality(Carriers(k)),
                  ToQueue(k), faults)
      BY AccountOf
    <3>4. /\ One(k = n) + ToQueue(k)' <= ToQueue(k)
          /\ One(k = n) \in Nat /\ ToQueue(k)' \in {0, 1}
      <4>1. ToQueue(k) \in {0, 1} /\ ToQueue(k)' \in {0, 1}  BY DEF ToQueue
      <4> QED  BY <1>5, <1>6, <4>1 DEF One
    <3> QED  BY <1>1, <3>1, <3>2, <3>3, <3>4 DEF Account
  <2> QED  BY <2>1, AddsUpAgain
<1>9. AnnouncedFirst'
  <2> SUFFICES ASSUME NEW k \in Notices
               PROVE  /\ announced'[k[1]].pc = "none" => ~ notices'[k].there
                      /\ ToQueue(k)' = 1 => notices'[k].there
                      /\ ~ notices'[k].there => notices'[k].sent = 0
    BY DEF AnnouncedFirst
  <2>1. /\ announced[k[1]].pc = "none" => ~ notices[k].there
        /\ ToQueue(k) = 1 => notices[k].there
        /\ ~ notices[k].there => notices[k].sent = 0
    BY DEF MailInv, AnnouncedFirst
  <2>2. announced'[k[1]].pc = announced[k[1]].pc  BY <1>1, <1>3, <1>4, AccountHeld
  <2>3. ToQueue(k)' = 1 => ToQueue(k) = 1  BY <1>5, <1>6
  <2> QED  BY <1>1, <2>1, <2>2, <2>3
<1>10. Holding'
  <2>1. notices[n].there  BY <1>2, <1>5 DEF MailInv, AnnouncedFirst
  <2> QED  BY <1>1, <1>2, <2>1 DEF MailInv, Holding
<1>11. (MailTypeOK /\ AttemptsAddUp /\ AnnouncedFirst /\ Holding => MailInv)'
  BY MailParts, PTL
<1> QED  BY <1>7, <1>8, <1>9, <1>10, <1>11

LEMMA MailedHolds == ASSUME MailInv, NEW o \in Occasions, Mailed(o) PROVE MailInv'
<1> DEFINE done == [pc |-> "done", for |-> {}]
<1>1. /\ announced' = [announced EXCEPT ![o] = done]
      /\ UNCHANGED <<onDuty, notices, post, postmen, faults>>
  BY DEF Mailed
<1>2. announced'[o] = done /\ \A p \in Occasions \ {o} : announced'[p] = announced[p]
  BY <1>1 DEF MailInv, MailTypeOK
<1>3. ASSUME NEW k \in Notices
      PROVE  /\ ToQueue(k)' <= ToQueue(k) /\ ToQueue(k)' \in {0, 1}
             /\ announced'[k[1]].pc = "none" => announced[k[1]].pc = "none"
  <2>1. k[1] \in Occasions  BY AccountHeld
  <2>2. CASE k[1] = o
    <3>1. ToQueue(k)' = 0 /\ announced'[k[1]].pc = "done"  BY <1>2, <2>2 DEF ToQueue
    <3> QED  BY <3>1 DEF ToQueue
  <2>3. CASE k[1] # o
    <3>1. announced'[k[1]] = announced[k[1]]  BY <1>2, <2>1, <2>3
    <3> QED  BY <3>1 DEF ToQueue
  <2> QED  BY <2>2, <2>3
<1>4. MailTypeOK'
  <2>1. announced' \in [Occasions -> [pc : {"none", "committed", "done"}, for : SUBSET Readers]]
    BY <1>1 DEF MailInv, MailTypeOK
  <2> QED  BY <1>1, <2>1 DEF MailInv, MailTypeOK
<1>5. AttemptsAddUp'
  <2>1. ASSUME NEW k \in Notices
        PROVE  /\ IsFiniteSet(InPost(k)') /\ IsFiniteSet(Carriers(k)')
               /\ Account(k, notices'[k].sent, Cardinality(InPost(k)'),
                          Cardinality(Carriers(k)'), ToQueue(k)', faults')
    <3>1. /\ Carriers(k)' = Carriers(k) /\ InPost(k)' = InPost(k)
          /\ IsFiniteSet(Carriers(k)) /\ IsFiniteSet(InPost(k))
      BY <1>1, AccountHeld DEF Carriers, InPost
    <3>2. Account(k, notices[k].sent, Cardinality(InPost(k)), Cardinality(Carriers(k)),
                  ToQueue(k), faults)
      BY AccountOf
    <3>3. ToQueue(k)' <= ToQueue(k) /\ ToQueue(k)' \in {0, 1}  BY <1>3
    <3> QED  BY <1>1, <3>1, <3>2, <3>3 DEF Account
  <2> QED  BY <2>1, AddsUpAgain
<1>6. AnnouncedFirst'
  <2> SUFFICES ASSUME NEW k \in Notices
               PROVE  /\ announced'[k[1]].pc = "none" => ~ notices'[k].there
                      /\ ToQueue(k)' = 1 => notices'[k].there
                      /\ ~ notices'[k].there => notices'[k].sent = 0
    BY DEF AnnouncedFirst
  <2>1. /\ announced[k[1]].pc = "none" => ~ notices[k].there
        /\ ToQueue(k) = 1 => notices[k].there
        /\ ~ notices[k].there => notices[k].sent = 0
    BY DEF MailInv, AnnouncedFirst
  <2>2. ToQueue(k)' = 1 => ToQueue(k) = 1
    <3>1. ToQueue(k) \in {0, 1}  BY DEF ToQueue
    <3> QED  BY <1>3, <3>1
  <2>3. announced'[k[1]].pc = "none" => announced[k[1]].pc = "none"  BY <1>3
  <2> QED  BY <1>1, <2>1, <2>2, <2>3
<1>7. Holding'  BY <1>1 DEF MailInv, Holding
<1>8. (MailTypeOK /\ AttemptsAddUp /\ AnnouncedFirst /\ Holding => MailInv)'
  BY MailParts, PTL
<1> QED  BY <1>4, <1>5, <1>6, <1>7, <1>8

\* A message leaves the queue with its worker.
LEMMA TakeHolds ==
    ASSUME MailInv, NEW w \in Postmen, NEW m \in post, Take(w, m) PROVE MailInv'
<1> DEFINE x == [pc |-> "taken", letter |-> m]
<1>1. /\ postmen[w].pc = "idle" /\ post' = post \ {m}
      /\ postmen' = [postmen EXCEPT ![w] = x]
      /\ UNCHANGED <<onDuty, announced, notices, faults>>
  BY DEF Take
<1>2. m \in Letter /\ m.to \in Notices /\ x \in Postman /\ x.pc = "taken" /\ x.letter = m
  BY DEF MailInv, MailTypeOK, Letter, Postman
<1>3. MailTypeOK'  BY <1>1, <1>2 DEF MailInv, MailTypeOK
<1>4. postmen'[w] = x /\ \A v \in Postmen \ {w} : postmen'[v] = postmen[v]
  BY <1>1 DEF MailInv, MailTypeOK
<1> HIDE DEF x
<1>5. AttemptsAddUp'
  <2>1. ASSUME NEW k \in Notices
        PROVE  /\ IsFiniteSet(InPost(k)') /\ IsFiniteSet(Carriers(k)')
               /\ Account(k, notices'[k].sent, Cardinality(InPost(k)'),
                          Cardinality(Carriers(k)'), ToQueue(k)', faults')
    <3>1. /\ IsFiniteSet(Carriers(k)')
          /\ Cardinality(Carriers(k)) \in Nat /\ Cardinality(Carriers(k)') \in Nat
          /\ Cardinality(Carriers(k)') = Cardinality(Carriers(k)) + One(Carries(x, k))
                                            - One(Carries(postmen[w], k))
      BY <1>1, CarrierMoves
    <3>2. /\ IsFiniteSet(InPost(k)')
          /\ Cardinality(InPost(k)) \in Nat /\ Cardinality(InPost(k)') \in Nat
          /\ Cardinality(InPost(k)') = Cardinality(InPost(k)) - One(m.to = k)
      BY <1>1, PostShrinks
    <3>3. Account(k, notices[k].sent, Cardinality(InPost(k)), Cardinality(Carriers(k)),
                  ToQueue(k), faults)
      BY AccountOf
    <3>4. One(Carries(x, k)) = One(m.to = k) /\ One(Carries(postmen[w], k)) = 0
      BY <1>1, <1>2 DEF One, Carries
    <3>5. ToQueue(k)' = ToQueue(k) /\ One(m.to = k) \in Nat  BY <1>1 DEF ToQueue, One
    <3> QED  BY <1>1, <3>1, <3>2, <3>3, <3>4, <3>5 DEF Account
  <2> QED  BY <2>1, AddsUpAgain
<1>6. AnnouncedFirst'
  <2>1. \A k \in Notices : ToQueue(k)' = ToQueue(k)  BY <1>1 DEF ToQueue
  <2> QED  BY <1>1, <2>1 DEF MailInv, AnnouncedFirst
<1>7. Holding'
  <2>1. \A v \in Postmen : /\ postmen'[v].pc # "idle" => notices[postmen'[v].letter.to].there
                           /\ postmen'[v].pc = "sent" =>
                                 notices[postmen'[v].letter.to].sent > 0
    BY <1>2, <1>4 DEF MailInv
  <2> QED  BY <1>1, <2>1 DEF MailInv, Holding
<1>8. (MailTypeOK /\ AttemptsAddUp /\ AnnouncedFirst /\ Holding => MailInv)'
  BY MailParts, PTL
<1> QED  BY <1>3, <1>5, <1>6, <1>7, <1>8

LEMMA MailNextHolds == MailInv /\ [MailNext]_mailVars => MailInv'
<1> SUFFICES ASSUME MailInv, [MailNext]_mailVars PROVE MailInv'
  OBVIOUS
<1>1. CASE \E u \in Readers : GoOff(u)  BY <1>1, GoOffHolds
<1>2. CASE \E o \in Occasions : Mailed(o)  BY <1>2, MailedHolds
<1>3. CASE \E o \in Occasions, u \in Readers : Mail(o, u)  BY <1>3, QueueHolds
<1>4. CASE \E o \in Occasions, kind \in {"sla", "analysis", "ticket"},
              agent \in Readers \cup {NoReader} : AnnounceAlert(o, kind, agent)
  BY <1>4, AnnounceHolds
<1>5. CASE \E w \in Postmen : PostmanStep(w)
  <2> SUFFICES ASSUME NEW w \in Postmen, PostmanStep(w) PROVE MailInv'
    BY <1>5
  <2>1. CASE \E m \in post : Take(w, m)  BY <2>1, TakeHolds
  <2>2. CASE \E fault \in {"unreachable", "refused", "lost"} : Fails(w, fault)
    BY <2>2, FailsHolds
  <2> QED  BY <2>1, <2>2, LoadHolds, SendsHolds, StampHolds DEF PostmanStep
<1>6. CASE \E w \in Postmen : Raises(w) \/ Lost(w) \/ HandOutAgain(w)
  BY <1>6, RaisesHolds, LostHolds
<1>7. CASE UNCHANGED mailVars
  <2>1. UNCHANGED <<onDuty, announced, notices, post, postmen, faults>>
    BY <1>7 DEF mailVars
  <2>2. \A n \in Notices : /\ InPost(n)' = InPost(n) /\ Carriers(n)' = Carriers(n)
                           /\ ToQueue(n)' = ToQueue(n)
    BY <2>1 DEF InPost, Carriers, ToQueue
  <2>3. AttemptsAddUp' /\ AnnouncedFirst'
    BY <2>1, <2>2 DEF MailInv, AttemptsAddUp, AnnouncedFirst
  <2>4. MailTypeOK' /\ NoDuplicateWithoutFault'
    BY <2>1 DEF MailInv, MailTypeOK, NoDuplicateWithoutFault
  <2> QED  BY <2>1, <2>3, <2>4 DEF MailInv
<1> QED  BY <1>1, <1>2, <1>3, <1>4, <1>5, <1>6, <1>7 DEF MailNext

\* However workers are lost and messages handed out again, every e-mail beyond
\* the first one of a notice has a fault of its own, and attempts that are
\* retried have not reached the server (_deliver, send_email, deliver_email).
THEOREM MailHolds == MailSpec => []MailInv
<1> QED  BY MailBegins, MailNextHolds, PTL DEF MailSpec

\* No reader gets a second e-mail about a notice unless something failed.
THEOREM NoDuplicates == MailSpec => []NoDuplicateWithoutFault
<1>1. MailInv => NoDuplicateWithoutFault  BY DEF MailInv
<1> QED  BY <1>1, MailHolds, PTL

-----------------------------------------------------------------------------
(* Inbox *)

\* Every notification has a read time, if only the empty one.
LEMMA ReadTimesAre == InboxSpec => [](DOMAIN readAt = Items)
<1>1. InboxInit => DOMAIN readAt = Items  BY DEF InboxInit
<1>2. DOMAIN readAt = Items /\ [InboxNext]_inboxVars => (DOMAIN readAt = Items)'
  BY DEF InboxNext, MarkAllRead, MarkRead, OpenOne, inboxVars
<1> QED  BY <1>1, <1>2, PTL DEF InboxSpec

\* A read time that is there moves only when an overlapping request had loaded
\* the row unread; marking all of them read never moves one (mark_read,
\* mark_all_read).
THEOREM ReadTimesStand == InboxSpec => ReadTimeMovesOnlyInARace
<1> DEFINE Races ==
        \A i \in Items :
           readAt[i] # 0 /\ readAt'[i] # readAt[i] =>
              \E c \in Clicks : clicks[c].pc = "loaded" /\ clicks[c].on = i /\ clicks[c].unread
<1>1. DOMAIN readAt = Items /\ [InboxNext]_inboxVars => [Races]_inboxVars
  <2> SUFFICES ASSUME DOMAIN readAt = Items, InboxNext, NEW i \in Items,
                      readAt[i] # 0, readAt'[i] # readAt[i]
               PROVE  \E c \in Clicks : /\ clicks[c].pc = "loaded" /\ clicks[c].on = i
                                        /\ clicks[c].unread
    OBVIOUS
  <2>1. CASE MarkAllRead
    <3>1. i \notin Unread  BY DEF Unread
    <3> QED  BY <2>1, <3>1 DEF MarkAllRead
  <2>2. ASSUME NEW c \in Clicks, MarkRead(c)
        PROVE  clicks[c].pc = "loaded" /\ clicks[c].on = i /\ clicks[c].unread
    BY <2>2 DEF MarkRead
  <2>3. ASSUME NEW c \in Clicks, NEW j \in Items, OpenOne(c, j) PROVE FALSE
    BY <2>3 DEF OpenOne
  <2> QED  BY <2>1, <2>2, <2>3 DEF InboxNext
<1> HIDE DEF Races
<1>2. InboxSpec => [][Races]_inboxVars  BY <1>1, ReadTimesAre, PTL DEF InboxSpec
<1> QED  BY <1>2 DEF ReadTimeMovesOnlyInARace, Races

-----------------------------------------------------------------------------
(* RealtimeHub *)

\* What a socket's queue holds.
Frame == Event \cup {Close}

\* One sequence is the other's beginning.
Begins(s, t) == \E rest \in Seq(Frame) : t = s \o rest

LEMMA EventsAreFrames ==
    /\ Seq(Event) \subseteq Seq(Frame) /\ Close \notin Event /\ <<Close>> \in Seq(Frame)
<1>1. Seq(Event) \subseteq Seq(Frame)
  <2>1. \A s \in Seq(Event) : s \in Seq(Frame)  BY SeqMonotonic DEF Frame
  <2> QED  BY <2>1
<1>2. Close \notin Event
  <2>1. \A x \in Event : x.n \in 1 .. MaxEvents  BY DEF Event
  <2>2. Close.n = 0  BY DEF Close
  <2> QED  BY <2>1, <2>2, HubAssumption
<1>3. <<Close>> \in Seq(Frame)  BY DEF Frame
<1> QED  BY <1>1, <1>2, <1>3

LEMMA FramesJoin == \A x, y, z \in Seq(Frame) : (x \o y) \o z = x \o (y \o z)
  BY ConcatAssociative

LEMMA FramesLast ==
    \A x, y \in Seq(Frame) :
       /\ x \o y \in Seq(Frame) /\ Len(x) \in Nat /\ Len(y) \in Nat
       /\ Len(x \o y) = Len(x) + Len(y)
       /\ y # <<>> => (x \o y)[Len(x) + 1] = Head(y) /\ Len(x) + 1 <= Len(x \o y)
<1> SUFFICES ASSUME NEW x \in Seq(Frame), NEW y \in Seq(Frame)
             PROVE  /\ x \o y \in Seq(Frame) /\ Len(x) \in Nat /\ Len(y) \in Nat
                    /\ Len(x \o y) = Len(x) + Len(y)
                    /\ y # <<>> => (x \o y)[Len(x) + 1] = Head(y) /\ Len(x) + 1 <= Len(x \o y)
  OBVIOUS
<1>1. /\ x \o y \in Seq(Frame) /\ Len(x) \in Nat /\ Len(y) \in Nat
      /\ Len(x \o y) = Len(x) + Len(y)
      /\ \A i \in 1 .. Len(x) + Len(y) :
            (x \o y)[i] = IF i <= Len(x) THEN x[i] ELSE y[i - Len(x)]
  BY ConcatProperties, LenProperties
<1>2. ASSUME y # <<>> PROVE (x \o y)[Len(x) + 1] = Head(y) /\ Len(x) + 1 <= Len(x \o y)
  <2>1. Len(y) # 0  BY <1>2, EmptySeq
  <2>2. PICK n \in Nat : n = Len(x)  BY <1>1
  <2>3. PICK k \in Nat : k = Len(y)  BY <1>1
  <2>4. n + 1 \in 1 .. n + k /\ ~ (n + 1 <= n) /\ n + 1 - n = 1 /\ n + 1 <= n + k
    BY <2>1, <2>3
  <2>5. (x \o y)[n + 1] = y[1]
    <3>1. \A i \in 1 .. n + k : (x \o y)[i] = IF i <= n THEN x[i] ELSE y[i - n]
      BY <1>1, <2>2, <2>3
    <3>2. PICK i \in 1 .. n + k : i = n + 1  BY <2>4
    <3>3. (x \o y)[i] = IF i <= n THEN x[i] ELSE y[i - n]  BY <3>1
    <3>4. ~ (i <= n) /\ i - n = 1  BY <2>4, <3>2
    <3> QED  BY <3>2, <3>3, <3>4
  <2>6. Head(y) = y[1]  BY <1>2
  <2> QED  BY <1>1, <2>2, <2>3, <2>4, <2>5, <2>6
<1> QED  BY <1>1, <1>2

LEMMA OneFrame ==
    \A x \in Event : <<x>> \in Seq(Event) /\ <<x>> \in Seq(Frame) /\ Len(<<x>>) = 1
<1>1. \A x \in Event : <<x>> \in Seq(Event) /\ Len(<<x>>) = 1  OBVIOUS
<1> QED  BY <1>1, EventsAreFrames

LEMMA BeginsIsPrefix ==
    ASSUME NEW s \in Seq(Frame), NEW t, Begins(s, t)
    PROVE  SeqExt!IsPrefix(s, t)
<1>1. PICK rest \in Seq(Frame) : t = s \o rest  BY DEF Begins
<1>2. /\ Len(s) \in Nat /\ Len(rest) \in Nat /\ Len(t) = Len(s) + Len(rest)
      /\ t \in Seq(Frame)
  BY <1>1, ConcatProperties, LenProperties
<1>3. SubSeq(t, 1, Len(s)) = SubSeq(s, 1, Len(s))
  <2>1. CASE Len(s) = 0
    <3>1. Len(s) \in Int /\ 1 \in Int /\ Len(s) < 1  BY <2>1
    <3> QED  BY <3>1, SubSeqEmpty
  <2>2. CASE Len(s) # 0
    <3>1. 1 \in 1 .. Len(s) /\ Len(s) \in 1 .. Len(s)  BY <1>2, <2>2
    <3> QED  BY <1>1, <3>1, SubSeqOfConcat1
  <2> QED  BY <2>1, <2>2
<1> QED  BY <1>2, <1>3 DEF SeqExt!IsPrefix

\* More is owed: what was a beginning still is one.
LEMMA BeginsGrows ==
    ASSUME NEW s \in Seq(Frame), NEW t \in Seq(Frame), Begins(s, t), NEW x \in Frame
    PROVE  Begins(s, Append(t, x))
<1>1. PICK rest \in Seq(Frame) : t = s \o rest  BY DEF Begins
<1>2. <<x>> \in Seq(Frame)  OBVIOUS
<1>3. Append(t, x) = t \o <<x>>  BY AppendIsConcat
<1>4. (s \o rest) \o <<x>> = s \o (rest \o <<x>>) /\ rest \o <<x>> \in Seq(Frame)
  BY <1>2, ConcatAssociative, ConcatProperties
<1> QED  BY <1>1, <1>3, <1>4 DEF Begins

\* A socket sees what may be read over HTTP, and nothing else
\* (envelope_visible_to, row_scope_predicate).
LEMMA SeesWhatItMayRead ==
    ASSUME NEW e \in Envelopes, NEW c \in Contexts
    PROVE  VisibleTo(e, c) <=> Readable(e, c)
<1>1. /\ e.kind \in {"ticket", "note", "notification"} /\ c.user # NoOne
      /\ c.role \in {"admin", "manager", "agent", "customer"}
  BY HubAssumption
<1>2. CASE e.kind = "notification"  BY <1>1, <1>2 DEF VisibleTo, Readable, SqlEquals
<1>3. CASE e.kind # "notification"
  <2>1. CASE c.role \in {"admin", "manager"}
    <3>1. ScopeFor(c.role) = "organization"  BY <2>1 DEF ScopeFor
    <3> QED  BY <1>1, <1>3, <2>1, <3>1 DEF VisibleTo, Readable
  <2>2. CASE c.role = "agent"
    <3>1. ScopeFor(c.role) = "assigned"  BY <2>2 DEF ScopeFor
    <3> QED  BY <1>1, <1>3, <2>2, <3>1 DEF VisibleTo, Readable, SqlEquals
  <2>3. CASE c.role = "customer"
    <3>1. ScopeFor(c.role) = "own"  BY <2>3 DEF ScopeFor
    <3> QED  BY <1>1, <1>3, <2>3, <3>1 DEF VisibleTo, Readable, SqlEquals
  <2> QED  BY <1>1, <2>1, <2>2, <2>3
<1> QED  BY <1>2, <1>3

\* What holds of each socket.
SocketType(c) ==
    /\ c \in Socket /\ Len(c.queue) <= Depth /\ Len(c.sending) <= 1

SocketKeeps(c) ==
    /\ c.code = "none" => c.got \o c.sending \o c.queue = c.owed
    /\ Begins(c.got \o c.sending, c.owed)
    /\ c.pc \in {"none", "accepted", "acked"} => Blank(c)
    /\ c.pc = "open" /\ c.code = "slow" => c.queue = <<Close>>

HubKeeps ==
    /\ sockets \in [Sockets -> Socket]
    /\ \A s \in Sockets : SocketType(sockets[s]) /\ SocketKeeps(sockets[s])
    /\ published \in 0 .. MaxEvents /\ wire \in Seq(Event)
    /\ subscribed \in BOOLEAN /\ breaks \in 0 .. Breaks

LEMMA KeepsImplies == HubKeeps => HubInv
<1> SUFFICES ASSUME HubKeeps PROVE HubInv  OBVIOUS
<1>1. HubTypeOK  BY DEF HubKeeps, HubTypeOK, SocketType
<1>2. OnlyTheMarker  BY DEF HubKeeps, SocketKeeps, OnlyTheMarker
<1>3. ASSUME NEW s \in Sockets
      PROVE  SeqExt!IsPrefix(sockets[s].got \o sockets[s].sending, sockets[s].owed)
  <2>1. sockets[s].got \in Seq(Frame) /\ sockets[s].sending \in Seq(Frame)
    BY EventsAreFrames DEF HubKeeps, Socket
  <2>2. sockets[s].got \o sockets[s].sending \in Seq(Frame)  BY <2>1, ConcatProperties
  <2> QED  BY <2>2, BeginsIsPrefix DEF HubKeeps, SocketKeeps
<1>4. NoGaps  BY <1>3 DEF HubKeeps, SocketKeeps, NoGaps
<1> QED  BY <1>1, <1>2, <1>4 DEF HubInv

LEMMA SocketsAre ==
    ASSUME HubKeeps, NEW s \in Sockets
    PROVE  LET c == sockets[s] IN
           /\ c \in Socket /\ SocketType(c) /\ SocketKeeps(c)
           /\ c.queue \in Seq(Frame) /\ c.sending \in Seq(Event) /\ c.got \in Seq(Event)
           /\ c.owed \in Seq(Event) /\ c.who \in Contexts
           /\ c.sending \in Seq(Frame) /\ c.got \in Seq(Frame) /\ c.owed \in Seq(Frame)
  BY EventsAreFrames DEF HubKeeps, Socket, Frame

\* A socket that serves nobody yet: nothing is owed and nothing held.
LEMMA BlankKeeps ==
    ASSUME NEW c \in Socket, Blank(c) PROVE SocketType(c) /\ SocketKeeps(c)
<1>1. /\ c.code = "none" /\ c.queue = <<>> /\ c.sending = <<>> /\ c.got = <<>>
      /\ c.owed = <<>>
  BY DEF Blank
<1>2. <<>> \o <<>> = <<>> /\ <<>> \in Seq(Frame) /\ Len(<<>>) = 0
  BY EmptySeq, ConcatEmptySeq
<1>3. Begins(c.got \o c.sending, c.owed)  BY <1>1, <1>2 DEF Begins
<1>4. SocketType(c)  BY <1>1, <1>2, HubAssumption DEF SocketType
<1>5. c.got \o c.sending \o c.queue = c.owed  BY <1>1, <1>2
<1>6. SocketKeeps(c)  BY <1>1, <1>3, <1>5 DEF SocketKeeps, Blank
<1> QED  BY <1>4, <1>6

LEMMA NoSocketIsBlank ==
    ASSUME NEW who \in Contexts PROVE NoSocket(who) \in Socket /\ Blank(NoSocket(who))
<1>1. <<>> \in Seq(Event) /\ <<>> \in Seq(Event \cup {Close})  OBVIOUS
<1> QED  BY <1>1 DEF NoSocket, Socket, Blank

LEMMA HubBegins == HubInit => HubKeeps
<1> SUFFICES ASSUME HubInit PROVE HubKeeps  OBVIOUS
<1> DEFINE who == CHOOSE c \in Contexts : TRUE
<1>1. who \in Contexts  BY HubAssumption
<1> HIDE DEF who
<1>2. SocketType(NoSocket(who)) /\ SocketKeeps(NoSocket(who))
  BY <1>1, NoSocketIsBlank, BlankKeeps
<1>3. sockets = [s \in Sockets |-> NoSocket(who)]  BY DEF HubInit, who
<1>4. published = 0 /\ wire = <<>> /\ subscribed = TRUE /\ breaks = 0  BY DEF HubInit
<1> QED  BY <1>2, <1>3, <1>4, HubAssumption DEF HubKeeps, SocketType

\* One socket moves.
LEMMA SocketMoves ==
    ASSUME HubKeeps, NEW s \in Sockets, NEW c, SocketType(c), SocketKeeps(c),
           sockets' = [sockets EXCEPT ![s] = c],
           UNCHANGED <<published, wire, subscribed, breaks>>
    PROVE  HubKeeps'
<1>1. sockets'[s] = c /\ \A r \in Sockets \ {s} : sockets'[r] = sockets[r]
  BY DEF HubKeeps
<1>2. sockets' \in [Sockets -> Socket]  BY DEF HubKeeps, SocketType
<1>3. \A r \in Sockets : SocketType(sockets'[r]) /\ SocketKeeps(sockets'[r])
  BY <1>1 DEF HubKeeps
<1> QED  BY <1>2, <1>3 DEF HubKeeps

\* The frame that opens a socket, and its registration.
LEMMA OpeningHolds ==
    ASSUME HubKeeps, NEW s \in Sockets,
           \/ Accept(s) \/ Refuse(s) \/ Serving(s) \/ Disconnect(s)
           \/ \E who \in Contexts : Authenticate(s, who)
    PROVE  HubKeeps'
<1> DEFINE c == sockets[s]
<1>1. c \in Socket /\ c.who \in Contexts /\ SocketKeeps(c) /\ DOMAIN sockets = Sockets
  BY SocketsAre DEF HubKeeps
<1>2. PICK d \in Socket :
         /\ Blank(d) /\ sockets' = [sockets EXCEPT ![s] = d]
         /\ UNCHANGED <<published, wire, subscribed, breaks>>
  <2>1. CASE Disconnect(s)
    BY <1>1, <2>1, NoSocketIsBlank DEF Disconnect
  <2>2. CASE ~ Disconnect(s)
    <3>1. c.pc \in {"none", "accepted", "acked"}
      BY <2>2 DEF Accept, Refuse, Serving, Authenticate
    <3>2. Blank(c)  BY <1>1, <3>1 DEF SocketKeeps
    <3>3. ASSUME NEW pc \in {"none", "accepted", "acked", "open"}, NEW who \in Contexts
          PROVE  /\ [c EXCEPT !.pc = pc] \in Socket /\ Blank([c EXCEPT !.pc = pc])
                 /\ [c EXCEPT !.pc = pc, !.who = who] \in Socket
                 /\ Blank([c EXCEPT !.pc = pc, !.who = who])
      BY <1>1, <3>2 DEF Socket, Blank
    <3>4. CASE Accept(s)  BY <1>1, <3>3, <3>4 DEF Accept
    <3>5. CASE Refuse(s)  BY <1>1, <3>3, <3>5 DEF Refuse
    <3>6. CASE Serving(s)  BY <1>1, <3>3, <3>6 DEF Serving
    <3>7. ASSUME NEW who \in Contexts, Authenticate(s, who)
          PROVE  /\ sockets' = [sockets EXCEPT ![s] = [c EXCEPT !.pc = "acked", !.who = who]]
                 /\ UNCHANGED <<published, wire, subscribed, breaks>>
      BY <1>1, <3>7 DEF Authenticate
    <3> QED  BY <2>2, <3>3, <3>4, <3>5, <3>6, <3>7
  <2> QED  BY <2>1, <2>2
<1>3. SocketType(d) /\ SocketKeeps(d)  BY <1>2, BlankKeeps
<1> QED  BY <1>2, <1>3, SocketMoves

\* The writer takes the next event, or the marker, which only a socket that fell
\* behind has.
LEMMA TakeNextHolds == ASSUME HubKeeps, NEW s \in Sockets, TakeNext(s) PROVE HubKeeps'
<1> DEFINE c == sockets[s]
           closed == [c EXCEPT !.pc = "closed", !.queue = Tail(c.queue)]
           taken == [c EXCEPT !.sending = <<Head(c.queue)>>, !.queue = Tail(c.queue)]
<1>1. /\ c \in Socket /\ SocketType(c) /\ SocketKeeps(c) /\ c.queue \in Seq(Frame)
      /\ c.got \in Seq(Frame) /\ c.owed \in Seq(Event) /\ c.got \in Seq(Event)
  BY SocketsAre
<1>2. /\ c.pc = "open" /\ c.sending = <<>> /\ c.queue # <<>>
      /\ UNCHANGED <<published, wire, subscribed, breaks>>
  BY DEF TakeNext
<1>3. /\ Head(c.queue) \in Frame /\ Tail(c.queue) \in Seq(Frame) /\ Len(Tail(c.queue)) <= Depth
      /\ c.queue = <<Head(c.queue)>> \o Tail(c.queue)
  <2>1. /\ Head(c.queue) \in Frame /\ Tail(c.queue) \in Seq(Frame)
        /\ Len(Tail(c.queue)) = Len(c.queue) - 1 /\ Len(c.queue) \in Nat
    BY <1>1, <1>2, HeadTailProperties, LenProperties
  <2>2. Len(c.queue) <= Depth  BY <1>1 DEF SocketType
  <2>3. c.queue = <<Head(c.queue)>> \o Tail(c.queue)
    <3> DEFINE q == c.queue
    <3>1. q \in Seq(Frame) /\ q # <<>>  BY <1>1, <1>2
    <3> HIDE DEF q
    <3>2. q = <<Head(q)>> \o Tail(q)  BY <3>1
    <3> QED  BY <3>2 DEF q
  <2> QED  BY <2>1, <2>2, <2>3, HubAssumption
<1>4. sockets' = [sockets EXCEPT ![s] = Taken(c)]  BY DEF TakeNext
<1>5. c.got \o <<>> = c.got /\ Begins(c.got, c.owed)
  BY <1>1, <1>2, ConcatEmptySeq DEF SocketKeeps
<1>6. CASE Head(c.queue) = Close
  <2>1. c.code = "slow"
    <3>1. SUFFICES ASSUME c.code = "none" PROVE FALSE  BY <1>1 DEF Socket
    <3>2. c.got \o c.queue = c.owed  BY <1>1, <1>2, <1>5, <3>1 DEF SocketKeeps
    <3>3. /\ c.owed[Len(c.got) + 1] = Close /\ Len(c.got) + 1 <= Len(c.owed)
          /\ Len(c.got) \in Nat /\ Len(c.owed) \in Nat
      BY <1>1, <1>2, <1>6, <3>2, FramesLast, LenProperties
    <3>4. Len(c.got) + 1 \in 1 .. Len(c.owed)  BY <3>3
    <3>5. c.owed[Len(c.got) + 1] \in Event  BY <1>1, <3>4, ElementOfSeq
    <3> QED  BY <3>3, <3>5, EventsAreFrames
  <2>2. sockets' = [sockets EXCEPT ![s] = closed]
    <3>1. Taken(c) = closed  BY <1>6 DEF Taken
    <3> QED  BY <1>4, <3>1
  <2>3. /\ closed \in Socket /\ closed.pc = "closed" /\ closed.code = c.code
        /\ closed.queue = Tail(c.queue) /\ closed.sending = c.sending
        /\ closed.got = c.got /\ closed.owed = c.owed
    BY <1>1, <1>3 DEF Socket, Frame
  <2> HIDE DEF closed
  <2>4. SocketType(closed)  BY <1>1, <1>3, <2>3 DEF SocketType
  <2>5. SocketKeeps(closed)  BY <1>1, <2>1, <2>3 DEF SocketKeeps
  <2> QED  BY <1>2, <2>2, <2>4, <2>5, SocketMoves
<1>7. CASE Head(c.queue) # Close
  <2>1. c.code = "none"
    <3>1. SUFFICES ASSUME c.code = "slow" PROVE FALSE  BY <1>1 DEF Socket
    <3>2. c.queue = <<Close>>  BY <1>1, <1>2, <3>1 DEF SocketKeeps
    <3> QED  BY <1>7, <3>2
  <2>2. sockets' = [sockets EXCEPT ![s] = taken]
    <3>1. Taken(c) = taken  BY <1>7 DEF Taken
    <3> QED  BY <1>4, <3>1
  <2>3. Head(c.queue) \in Event  BY <1>3, <1>7 DEF Frame
  <2>4. /\ <<Head(c.queue)>> \in Seq(Event) /\ Len(<<Head(c.queue)>>) = 1
        /\ <<Head(c.queue)>> \in Seq(Frame)
    BY <2>3, OneFrame
  <2>5. /\ taken \in Socket /\ taken.pc = "open" /\ taken.code = "none"
        /\ taken.queue = Tail(c.queue) /\ taken.sending = <<Head(c.queue)>>
        /\ taken.got = c.got /\ taken.owed = c.owed
    BY <1>1, <1>2, <1>3, <2>1, <2>4 DEF Socket, Frame
  <2> HIDE DEF taken
  <2>6. SocketType(taken)  BY <1>3, <2>4, <2>5 DEF SocketType
  <2>7. c.got \o c.queue = c.owed  BY <1>1, <1>2, <1>5, <2>1 DEF SocketKeeps
  <2>8. (c.got \o <<Head(c.queue)>>) \o Tail(c.queue) = c.owed
    <3>1. (c.got \o <<Head(c.queue)>>) \o Tail(c.queue)
             = c.got \o (<<Head(c.queue)>> \o Tail(c.queue))
      <4>1. PICK first \in Seq(Frame) : first = <<Head(c.queue)>>  BY <2>4
      <4>2. (c.got \o first) \o Tail(c.queue) = c.got \o (first \o Tail(c.queue))
        <5>1. PICK g, q \in Seq(Frame) : g = c.got /\ q = Tail(c.queue)  BY <1>1, <1>3
        <5> QED  BY <5>1, FramesJoin
      <4> QED  BY <4>1, <4>2
    <3> QED  BY <1>3, <2>7, <3>1
  <2>9. Begins(taken.got \o taken.sending, taken.owed)
    BY <1>3, <2>5, <2>8 DEF Begins
  <2>10. SocketKeeps(taken)  BY <2>5, <2>8, <2>9 DEF SocketKeeps
  <2> QED  BY <1>2, <2>2, <2>6, <2>10, SocketMoves
<1> QED  BY <1>6, <1>7

\* What is sent stays where it was in the order.
LEMMA SendHolds == ASSUME HubKeeps, NEW s \in Sockets, Send(s) PROVE HubKeeps'
<1> DEFINE c == sockets[s]
           sent == [c EXCEPT !.got = @ \o c.sending, !.sending = <<>>]
<1>1. /\ c \in Socket /\ SocketType(c) /\ SocketKeeps(c)
      /\ c.got \in Seq(Event) /\ c.sending \in Seq(Event)
  BY SocketsAre
<1>2. /\ c.pc = "open" /\ UNCHANGED <<published, wire, subscribed, breaks>>
  BY DEF Send
<1>3. sockets' = [sockets EXCEPT ![s] = sent]
  BY DEF Send, HubKeeps, Socket
<1>4. c.got \o c.sending \in Seq(Event) /\ (c.got \o c.sending) \o <<>> = c.got \o c.sending
  BY <1>1, ConcatProperties, ConcatEmptySeq
<1>5. /\ sent \in Socket /\ sent.pc = c.pc /\ sent.code = c.code /\ sent.queue = c.queue
      /\ sent.sending = <<>> /\ sent.got = c.got \o c.sending /\ sent.owed = c.owed
  <2>1. <<>> \in Seq(Event)  OBVIOUS
  <2> QED  BY <1>1, <1>4, <2>1 DEF Socket
<1> HIDE DEF sent
<1>6. SocketType(sent)
  <2>1. Len(<<>>) = 0  OBVIOUS
  <2> QED  BY <1>1, <1>5, <2>1 DEF SocketType
<1>7. SocketKeeps(sent)  BY <1>1, <1>2, <1>4, <1>5 DEF SocketKeeps
<1> QED  BY <1>2, <1>3, <1>6, <1>7, SocketMoves

\* A send that fails loses what was being sent: what was got is a beginning.
LEMMA SendFailsHolds == ASSUME HubKeeps, NEW s \in Sockets, SendFails(s) PROVE HubKeeps'
<1> DEFINE c == sockets[s]
           lost == [c EXCEPT !.pc = "closed", !.code = "slow", !.sending = <<>>]
<1>1. /\ c \in Socket /\ SocketType(c) /\ SocketKeeps(c)
      /\ c.got \in Seq(Frame) /\ c.sending \in Seq(Frame)
  BY SocketsAre
<1>2. UNCHANGED <<published, wire, subscribed, breaks>>  BY DEF SendFails
<1>3. sockets' = [sockets EXCEPT ![s] = lost]
  BY DEF SendFails, HubKeeps, Socket
<1>4. /\ lost \in Socket /\ lost.pc = "closed" /\ lost.code = "slow" /\ lost.queue = c.queue
      /\ lost.sending = <<>> /\ lost.got = c.got /\ lost.owed = c.owed
  <2>1. <<>> \in Seq(Event)  OBVIOUS
  <2> QED  BY <1>1, <2>1 DEF Socket
<1>5. Begins(c.got \o <<>>, c.owed)
  <2>1. PICK rest \in Seq(Frame) : c.owed = (c.got \o c.sending) \o rest
    BY <1>1 DEF SocketKeeps, Begins
  <2>2. c.owed = c.got \o (c.sending \o rest) /\ c.sending \o rest \in Seq(Frame)
    BY <1>1, <2>1, FramesJoin, FramesLast
  <2>3. c.got \o <<>> = c.got  BY <1>1, ConcatEmptySeq
  <2> QED  BY <2>2, <2>3 DEF Begins
<1> HIDE DEF lost
<1>6. SocketType(lost)
  <2>1. Len(<<>>) = 0  OBVIOUS
  <2> QED  BY <1>1, <1>4, <2>1 DEF SocketType
<1>7. SocketKeeps(lost)  BY <1>4, <1>5 DEF SocketKeeps
<1> QED  BY <1>2, <1>3, <1>6, <1>7, SocketMoves

\* What is published is heard while the subscription stands.
LEMMA WireHolds ==
    ASSUME HubKeeps,
           \/ \E e \in Envelopes : PublishEvent(e)
           \/ PublishFails \/ SubscriptionBreaks \/ Resubscribe
    PROVE  HubKeeps'
<1>1. sockets' = sockets
  BY DEF PublishEvent, PublishFails, SubscriptionBreaks, Resubscribe
<1>2. /\ published \in 0 .. MaxEvents /\ wire \in Seq(Event) /\ breaks \in 0 .. Breaks
      /\ subscribed \in BOOLEAN
  BY DEF HubKeeps
<1>3. /\ published' \in 0 .. MaxEvents /\ wire' \in Seq(Event) /\ breaks' \in 0 .. Breaks
      /\ subscribed' \in BOOLEAN
  <2>1. ASSUME NEW e \in Envelopes, PublishEvent(e)
        PROVE  published' \in 0 .. MaxEvents /\ wire' \in Seq(Event)
    <3>1. published' = published + 1 /\ published < MaxEvents  BY <2>1 DEF PublishEvent
    <3>2. published + 1 \in 1 .. MaxEvents  BY <1>2, <3>1, HubAssumption
    <3>3. [n |-> published + 1, e |-> e] \in Event  BY <3>2 DEF Event
    <3>4. Append(wire, [n |-> published + 1, e |-> e]) \in Seq(Event)
      BY <1>2, <3>3, AppendProperties
    <3>5. published' \in 0 .. MaxEvents  BY <3>1, <3>2, HubAssumption
    <3> QED  BY <1>2, <2>1, <3>4, <3>5 DEF PublishEvent
  <2>2. CASE \E e \in Envelopes : PublishEvent(e)
    BY <1>2, <2>1, <2>2 DEF PublishEvent
  <2>3. CASE PublishFails  BY <1>2, <2>3, HubAssumption DEF PublishFails
  <2>4. CASE SubscriptionBreaks
    <3>1. /\ breaks' = breaks + 1 /\ breaks < Breaks /\ wire' = <<>> /\ subscribed' = FALSE
          /\ published' = published
      BY <2>4 DEF SubscriptionBreaks
    <3>2. <<>> \in Seq(Event)  OBVIOUS
    <3>3. breaks + 1 \in 0 .. Breaks  BY <1>2, <3>1, HubAssumption
    <3> QED  BY <1>2, <3>1, <3>2, <3>3
  <2>5. CASE Resubscribe  BY <1>2, <2>5 DEF Resubscribe
  <2> QED  BY <2>2, <2>3, <2>4, <2>5
<1> QED  BY <1>1, <1>3 DEF HubKeeps

\* One socket of a fan-out: what its caller may read is owed, and what is owed
\* is queued, unless the socket falls behind.
LEMMA OfferKeeps ==
    ASSUME NEW c, SocketType(c), SocketKeeps(c), c.pc = "open", NEW event \in Event
    PROVE  LET owed == IF Readable(event.e, c.who) THEN [c EXCEPT !.owed = Append(@, event)]
                       ELSE c
               d == IF VisibleTo(event.e, c.who) THEN Offered(owed, event) ELSE owed
           IN SocketType(d) /\ SocketKeeps(d)
<1>1. /\ c \in Socket /\ c.who \in Contexts /\ event.e \in Envelopes /\ event \in Frame
      /\ c.queue \in Seq(Frame) /\ c.owed \in Seq(Event) /\ c.owed \in Seq(Frame)
      /\ c.got \in Seq(Frame) /\ c.sending \in Seq(Frame) /\ c.code \in {"none", "slow"}
      /\ Len(c.queue) <= Depth /\ Len(c.sending) <= 1
  BY EventsAreFrames DEF SocketType, Socket, Event, Frame
<1>2. VisibleTo(event.e, c.who) <=> Readable(event.e, c.who)  BY <1>1, SeesWhatItMayRead
<1>3. CASE ~ Readable(event.e, c.who)  BY <1>2, <1>3
<1>4. CASE Readable(event.e, c.who)
  <2> DEFINE more == Append(c.owed, event)
             owed == [c EXCEPT !.owed = more]
  <2>1. more \in Seq(Event) /\ more = c.owed \o <<event>>
    BY <1>1, AppendProperties, AppendIsConcat
  <2>2. Begins(c.got \o c.sending, more)
    <3>1. c.got \o c.sending \in Seq(Frame)  BY <1>1, ConcatProperties
    <3> QED  BY <1>1, <3>1, BeginsGrows DEF SocketKeeps
  <2> HIDE DEF more
  <2>3. /\ owed \in Socket /\ owed.code = c.code /\ owed.queue = c.queue /\ owed.got = c.got
        /\ owed.sending = c.sending /\ owed.owed = more /\ owed.pc = "open"
    BY <1>1, <2>1 DEF Socket
  <2>4. CASE c.code # "none"
    <3>1. Offered(owed, event) = owed  BY <2>3, <2>4 DEF Offered
    <3> HIDE DEF owed
    <3>2. SocketType(owed)  BY <1>1, <2>3 DEF SocketType
    <3>3. SocketKeeps(owed)  BY <2>2, <2>3, <2>4 DEF SocketKeeps
    <3> QED  BY <1>2, <1>4, <3>1, <3>2, <3>3 DEF owed, more
  <2>5. CASE c.code = "none" /\ Len(c.queue) < Depth
    <3> DEFINE d == [owed EXCEPT !.queue = Append(@, event)]
    <3>1. Offered(owed, event) = d  BY <2>3, <2>5 DEF Offered
    <3>2. /\ Append(c.queue, event) \in Seq(Frame)
          /\ Len(Append(c.queue, event)) = Len(c.queue) + 1 /\ Len(c.queue) \in Nat
          /\ Append(c.queue, event) = c.queue \o <<event>> /\ <<event>> \in Seq(Frame)
      BY <1>1, AppendProperties, AppendIsConcat, LenProperties
    <3> HIDE DEF owed
    <3>3. /\ d \in Socket /\ d.code = "none" /\ d.queue = Append(c.queue, event)
          /\ d.got = c.got /\ d.sending = c.sending /\ d.owed = more /\ d.pc = "open"
      BY <2>3, <2>5, <3>2 DEF Socket, Frame
    <3> HIDE DEF d
    <3>4. SocketType(d)  BY <1>1, <2>5, <3>2, <3>3, HubAssumption DEF SocketType
    <3>5. (c.got \o c.sending) \o (c.queue \o <<event>>) = more
      <4>1. c.got \o c.sending \in Seq(Frame)  BY <1>1, ConcatProperties
      <4>2. ((c.got \o c.sending) \o c.queue) \o <<event>>
               = (c.got \o c.sending) \o (c.queue \o <<event>>)
        <5>1. PICK last \in Seq(Frame) : last = <<event>>  BY <3>2
        <5>2. ((c.got \o c.sending) \o c.queue) \o last
                 = (c.got \o c.sending) \o (c.queue \o last)
          <6>1. PICK g, q \in Seq(Frame) : g = c.got \o c.sending /\ q = c.queue
            BY <1>1, <4>1
          <6> QED  BY <6>1, FramesJoin
        <5> QED  BY <5>1, <5>2
      <4>3. (c.got \o c.sending) \o c.queue = c.owed  BY <2>5 DEF SocketKeeps
      <4> QED  BY <2>1, <4>2, <4>3
    <3>6. SocketKeeps(d)  BY <2>2, <3>2, <3>3, <3>5 DEF SocketKeeps
    <3> QED  BY <1>2, <1>4, <3>1, <3>4, <3>6 DEF owed, more
  <2>6. CASE c.code = "none" /\ ~ (Len(c.queue) < Depth)
    <3> DEFINE d == [owed EXCEPT !.code = "slow", !.queue = <<Close>>]
    <3>1. Offered(owed, event) = d  BY <2>3, <2>6 DEF Offered
    <3>2. <<Close>> \in Seq(Frame) /\ Len(<<Close>>) = 1  BY EventsAreFrames
    <3> HIDE DEF owed
    <3>3. /\ d \in Socket /\ d.code = "slow" /\ d.queue = <<Close>>
          /\ d.got = c.got /\ d.sending = c.sending /\ d.owed = more /\ d.pc = "open"
      BY <2>3, <3>2 DEF Socket, Frame
    <3> HIDE DEF d
    <3>4. SocketType(d)  BY <1>1, <3>2, <3>3, HubAssumption DEF SocketType
    <3>5. SocketKeeps(d)  BY <2>2, <3>3 DEF SocketKeeps
    <3> QED  BY <1>2, <1>4, <3>1, <3>4, <3>5 DEF owed, more
  <2> QED  BY <1>1, <2>4, <2>5, <2>6
<1> QED  BY <1>3, <1>4

LEMMA DispatchHolds == ASSUME HubKeeps, Dispatch PROVE HubKeeps'
<1> DEFINE event == Head(wire)
           next(c) == LET owed == IF Readable(event.e, c.who)
                                  THEN [c EXCEPT !.owed = Append(@, event)] ELSE c
                      IN IF VisibleTo(event.e, c.who) THEN Offered(owed, event) ELSE owed
<1>1. /\ event \in Event /\ wire' \in Seq(Event)
      /\ UNCHANGED <<published, subscribed, breaks>>
  BY HeadTailProperties DEF Dispatch, HubKeeps
<1>2. ASSUME NEW s \in Sockets, sockets[s].pc = "open"
      PROVE  sockets'[s] = next(sockets[s]) /\ sockets[s] \in Socket
  BY <1>2 DEF Dispatch, HubKeeps, Socket
<1>3. ASSUME NEW s \in Sockets, sockets[s].pc # "open"
      PROVE  sockets'[s] = sockets[s]
  BY <1>3 DEF Dispatch
<1>4. ASSUME NEW s \in Sockets PROVE SocketType(sockets'[s]) /\ SocketKeeps(sockets'[s])
  <2>1. SocketType(sockets[s]) /\ SocketKeeps(sockets[s])  BY DEF HubKeeps
  <2>2. CASE sockets[s].pc = "open"
    <3>1. SocketType(next(sockets[s])) /\ SocketKeeps(next(sockets[s]))
      BY <1>1, <2>1, <2>2, OfferKeeps
    <3> HIDE DEF next
    <3> QED  BY <1>2, <2>2, <3>1
  <2>3. CASE sockets[s].pc # "open"  BY <1>3, <2>1, <2>3
  <2> QED  BY <2>2, <2>3
<1>5. sockets' \in [Sockets -> Socket]
  <2>1. DOMAIN sockets' = Sockets /\ sockets' = [s \in Sockets |-> sockets'[s]]
    BY DEF Dispatch
  <2>2. \A s \in Sockets : sockets'[s] \in Socket  BY <1>4 DEF SocketType
  <2> QED  BY <2>1, <2>2
<1> QED  BY <1>1, <1>4, <1>5 DEF HubKeeps

LEMMA HubNextHolds == HubKeeps /\ [HubNext]_hubVars => HubKeeps'
<1> SUFFICES ASSUME HubKeeps, [HubNext]_hubVars PROVE HubKeeps'
  OBVIOUS
<1>1. ASSUME NEW s \in Sockets,
             \/ Accept(s) \/ Refuse(s) \/ Serving(s) \/ Disconnect(s)
             \/ \E who \in Contexts : Authenticate(s, who)
      PROVE  HubKeeps'
  BY <1>1, OpeningHolds
<1>2. ASSUME NEW s \in Sockets, TakeNext(s) \/ Send(s) \/ SendFails(s) PROVE HubKeeps'
  BY <1>2, TakeNextHolds, SendHolds, SendFailsHolds
<1>3. ASSUME \/ \E e \in Envelopes : PublishEvent(e)
             \/ PublishFails \/ SubscriptionBreaks \/ Resubscribe
      PROVE  HubKeeps'
  BY <1>3, WireHolds
<1>4. CASE Dispatch  BY <1>4, DispatchHolds
<1>5. CASE UNCHANGED hubVars  BY <1>5 DEF hubVars, HubKeeps
<1> QED  BY <1>1, <1>2, <1>3, <1>4, <1>5 DEF HubNext

\* A socket gets what its caller could read over HTTP of what was dispatched
\* since it was registered, in order and nothing else, and one that fell behind
\* a beginning of it, with only the marker left to send (envelope_visible_to,
\* offer, broadcast, the writer).
THEOREM HubHolds == HubSpec => []HubInv
<1>1. HubSpec => []HubKeeps  BY HubBegins, HubNextHolds, PTL DEF HubSpec
<1> QED  BY <1>1, KeepsImplies, PTL
=============================================================================
