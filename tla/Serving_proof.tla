--------------------------- MODULE Serving_proof ---------------------------
(***************************************************************************)
(* Proofs about what is computed, stored and served: the calls to a model  *)
(* and their ledger (AiCall), the summaries (SummaryFreshness), the cached *)
(* aggregates (AnalyticsCache) and the passages of a document              *)
(* (DocumentText).                                                         *)
(*                                                                         *)
(* SumOf is a recursive function over lists of any length; what it returns *)
(* is proved from least counterexamples (LeastNumber).                     *)
(***************************************************************************)
EXTENDS AiCall, SummaryFreshness, AnalyticsCache, DocumentText, FiniteSetTheorems,
        SequenceTheorems, WellFoundedInduction, TLAPS

\* What is added up.

\* A set of numbers that is not empty has a least element.
LEMMA LeastNumber ==
    ASSUME NEW T, T \subseteq Nat, T # {}
    PROVE  \E x \in T : \A y \in T : x <= y
<1> DEFINE R == OpToRel(<, Nat)
<1>1. IsWellFoundedOn(R, Nat)
  BY NatLessThanWellFounded
<1>2. \E x \in T : \A y \in T : ~ (<<y, x>> \in R)
  <2> HIDE DEF R
  <2> QED  BY <1>1, WFMin
<1>3. \A x, y \in Nat : <<y, x>> \in R <=> y < x
  BY DEF OpToRel
<1> QED
  <2> HIDE DEF R
  <2>1. PICK x \in T : \A y \in T : ~ (<<y, x>> \in R)
    BY <1>2
  <2>2. \A y \in T : ~ (y < x) /\ x \in Nat /\ y \in Nat
    BY <2>1, <1>3
  <2>3. \A y \in T : x <= y
    BY <2>2
  <2> QED  BY <2>3

\* The running sums of the first n numbers of s, as a function.
Running(s, n, f) == f = [i \in 0 .. n |-> IF i = 0 THEN 0 ELSE f[i - 1] + s[i]]

\* There are running sums, of any length.
LEMMA RunningExist ==
    ASSUME NEW s, NEW n \in Nat
    PROVE  \E f : Running(s, n, f)
<1> DEFINE Lacking == {k \in Nat : ~ \E f : Running(s, k, f)}
<1> SUFFICES ASSUME Lacking # {} PROVE FALSE
  OBVIOUS
<1>1. PICK k \in Lacking : \A y \in Lacking : k <= y
  BY LeastNumber
<1>2. k \in Nat /\ ~ \E f : Running(s, k, f)
  BY <1>1
<1>3. CASE k = 0
  <2>1. Running(s, 0, [i \in 0 .. 0 |-> 0])
    BY DEF Running
  <2> QED  BY <1>2, <1>3, <2>1
<1>4. CASE k # 0
  <2>1. k - 1 \in Nat /\ ~ (k <= k - 1)
    BY <1>2, <1>4
  <2>2. PICK g : Running(s, k - 1, g)
    BY <2>1, <1>1
  <2> DEFINE f == [i \in 0 .. k |-> IF i = k THEN g[k - 1] + s[k] ELSE g[i]]
  <2>3. \A i \in 0 .. k : f[i] = IF i = 0 THEN 0 ELSE f[i - 1] + s[i]
    <3> TAKE i \in 0 .. k
    <3>1. CASE i = k
      BY <3>1, <1>2, <1>4
    <3>2. CASE i # k
      <4>1. i \in 0 .. (k - 1)
        BY <3>2, <1>2
      <4>2. g[i] = IF i = 0 THEN 0 ELSE g[i - 1] + s[i]
        BY <4>1, <2>2 DEF Running
      <4>3. f[i] = g[i]
        BY <3>2
      <4>4. i # 0 => f[i - 1] = g[i - 1]
        BY <4>1, <1>2
      <4> QED  BY <4>2, <4>3, <4>4
    <3> QED  BY <3>1, <3>2
  <2>4. Running(s, k, f)
    BY <2>3 DEF Running
  <2> QED  BY <1>2, <2>4
<1> QED  BY <1>3, <1>4

\* What a running sum is at every place.
LEMMA RunningSteps ==
    ASSUME NEW s, NEW n \in Nat, NEW f, Running(s, n, f)
    PROVE  f[0] = 0 /\ \A i \in 1 .. n : f[i] = f[i - 1] + s[i]
<1>1. \A i \in 0 .. n : f[i] = IF i = 0 THEN 0 ELSE f[i - 1] + s[i]
  BY DEF Running
<1> QED  BY <1>1

\* The running sums of two lists agree as far as the lists do.
LEMMA RunningAgree ==
    ASSUME NEW s, NEW t, NEW n \in Nat, NEW m \in Nat, n <= m,
           \A i \in 1 .. n : s[i] = t[i],
           NEW f, NEW g, Running(s, n, f), Running(t, m, g)
    PROVE  \A i \in 0 .. n : f[i] = g[i]
<1> DEFINE Apart == {k \in Nat : k <= n /\ f[k] # g[k]}
<1> SUFFICES ASSUME Apart # {} PROVE FALSE
  OBVIOUS
<1>1. PICK k \in Apart : \A y \in Apart : k <= y
  BY LeastNumber
<1>2. k \in Nat /\ k <= n /\ f[k] # g[k]
  BY <1>1
<1>3. k # 0
  BY <1>2, RunningSteps
<1>4. k - 1 \in Nat /\ k - 1 <= n /\ ~ (k <= k - 1) /\ k \in 1 .. n /\ k \in 1 .. m
  BY <1>2, <1>3
<1>5. f[k - 1] = g[k - 1]
  BY <1>1, <1>4
<1>6. f[k] = f[k - 1] + s[k] /\ g[k] = g[k - 1] + t[k] /\ s[k] = t[k]
  BY <1>4, RunningSteps
<1> QED  BY <1>2, <1>5, <1>6

\* The running sums of numbers are numbers.
LEMMA RunningCounts ==
    ASSUME NEW s, NEW n \in Nat, \A i \in 1 .. n : s[i] \in Nat,
           NEW f, Running(s, n, f)
    PROVE  \A i \in 0 .. n : f[i] \in Nat
<1> DEFINE Odd == {k \in Nat : k <= n /\ f[k] \notin Nat}
<1> SUFFICES ASSUME Odd # {} PROVE FALSE
  OBVIOUS
<1>1. PICK k \in Odd : \A y \in Odd : k <= y
  BY LeastNumber
<1>2. k \in Nat /\ k <= n /\ f[k] \notin Nat
  BY <1>1
<1>3. k # 0
  BY <1>2, RunningSteps
<1>4. k - 1 \in Nat /\ k - 1 <= n /\ ~ (k <= k - 1) /\ k \in 1 .. n
  BY <1>2, <1>3
<1>5. f[k - 1] \in Nat
  BY <1>1, <1>4
<1>6. f[k] = f[k - 1] + s[k] /\ s[k] \in Nat
  BY <1>4, RunningSteps
<1> QED  BY <1>2, <1>5, <1>6

\* SumOf is the last of the running sums, whichever function they are taken from.
LEMMA SumIsLast ==
    ASSUME NEW s, Len(s) \in Nat
    PROVE  \E f : Running(s, Len(s), f) /\ SumOf(s) = f[Len(s)]
<1> DEFINE n == Len(s)
           h == CHOOSE f : f = [i \in 0 .. n |-> IF i = 0 THEN 0 ELSE f[i - 1] + s[i]]
<1>1. SumOf(s) = h[n]
  BY DEF SumOf
<1>2. \E f : f = [i \in 0 .. n |-> IF i = 0 THEN 0 ELSE f[i - 1] + s[i]]
  BY RunningExist DEF Running
<1>3. h = [i \in 0 .. n |-> IF i = 0 THEN 0 ELSE h[i - 1] + s[i]]
  BY <1>2
<1> QED  BY <1>1, <1>3 DEF Running

\* The sum of nothing, and of one number more.
LEMMA SumOfNothing ==
    ASSUME NEW s, Len(s) = 0
    PROVE  SumOf(s) = 0
<1>1. Len(s) \in Nat
  OBVIOUS
<1>2. PICK f : Running(s, Len(s), f) /\ SumOf(s) = f[Len(s)]
  BY <1>1, SumIsLast
<1> QED  BY <1>1, <1>2, RunningSteps

LEMMA SumOfMore ==
    ASSUME NEW s, NEW t, Len(s) \in Nat, Len(t) = Len(s) + 1,
           \A i \in 1 .. Len(s) : s[i] = t[i] /\ s[i] \in Nat
    PROVE  SumOf(t) = SumOf(s) + t[Len(t)] /\ SumOf(s) \in Nat
<1> PICK n \in Nat : n = Len(s)
  OBVIOUS
<1>1. PICK f : Running(s, n, f) /\ SumOf(s) = f[n]
  BY SumIsLast
<1>2. PICK g : Running(t, n + 1, g) /\ SumOf(t) = g[n + 1]
  BY SumIsLast
<1>3. \A i \in 0 .. n : f[i] = g[i]
  <2>1. n + 1 \in Nat /\ n <= n + 1 /\ \A i \in 1 .. n : s[i] = t[i]
    OBVIOUS
  <2>2. PICK m \in Nat : m = n + 1
    BY <2>1
  <2>3. n <= m /\ Running(t, m, g)
    BY <1>2, <2>1, <2>2
  <2>4. \A i \in 1 .. n : s[i] = t[i]
    BY <2>1
  <2>5. Running(s, n, f)
    BY <1>1
  <2> QED  BY ONLY <2>3, <2>4, <2>5, RunningAgree
<1>4. g[n + 1] = g[n] + t[n + 1]
  BY <1>2, RunningSteps
<1>5. f[n] \in Nat
  BY <1>1, RunningCounts
<1> QED  BY <1>1, <1>2, <1>3, <1>4, <1>5

-----------------------------------------------------------------------------
\* The calls to a model.  An errand is one or two operations.
LEMMA FlowsAre ==
    \A f \in DOMAIN Flows : /\ Flows[f] \in Seq(AiOperations) /\ Flows[f] # <<>>
                            /\ Len(Flows[f]) \in {1, 2}
<1> DEFINE Names == {"classify", "sentiment", "summarize", "embed", "suggest_response",
                     "knowledge_answer"}
           Good(s) == Len(s) \in {1, 2} /\ s # <<>> /\ s \in Seq(Names)
<1>1. DOMAIN Flows = {"analysis", "summary", "draft", "ingestion", "question"}
  BY DEF Flows
<1>2. /\ Flows["analysis"] = <<"classify", "sentiment">>
      /\ Flows["summary"] = <<"summarize">>
      /\ Flows["draft"] = <<"embed", "suggest_response">>
      /\ Flows["ingestion"] = <<"embed", "embed">>
      /\ Flows["question"] = <<"embed", "knowledge_answer">>
  BY DEF Flows
<1>3. \A f \in DOMAIN Flows : \A i \in DOMAIN Flows[f] : Flows[f][i] \in AiOperations
  BY DEF AiOperations
<1>4. /\ \A x, y \in Names : Good(<<x, y>>)
      /\ \A x \in Names : Good(<<x>>)
  <2>1. ASSUME NEW x \in Names, NEW y \in Names PROVE <<x, y>> \in Seq(Names)
    OBVIOUS
  <2>2. ASSUME NEW x \in Names PROVE <<x>> \in Seq(Names)
    OBVIOUS
  <2>3. \A x, y : Len(<<x, y>>) = 2 /\ <<x, y>> # <<>>
    OBVIOUS
  <2>4. \A x : Len(<<x>>) = 1 /\ <<x>> # <<>>
    OBVIOUS
  <2> HIDE DEF Names
  <2> QED  BY <2>1, <2>2, <2>3, <2>4
<1>5. "classify" \in Names /\ "sentiment" \in Names /\ "summarize" \in Names
      /\ "embed" \in Names /\ "suggest_response" \in Names /\ "knowledge_answer" \in Names
  OBVIOUS
<1>6. \A f \in DOMAIN Flows : Good(Flows[f])
  <2> HIDE DEF Good, Names
  <2> QED  BY <1>1, <1>2, <1>4, <1>5
<1> SUFFICES ASSUME NEW f \in DOMAIN Flows PROVE Flows[f] \in Seq(AiOperations)
  BY <1>6
<1>7. Flows[f] \in Seq(Names) /\ \A i \in DOMAIN Flows[f] : Flows[f][i] \in AiOperations
  BY <1>3, <1>6
<1> HIDE DEF Good, Names
<1> QED
  BY <1>7, LenProperties, ElementOfSeq

\* What a row costs, and what it costs exactly.
LEMMA PricesAre ==
    ASSUME NEW v \in {"anthropic", "groq", "openai"}, NEW p \in Nat, NEW q \in Nat
    PROVE  /\ Exact(v, p, q) \in Nat /\ CostUsd(v, p, q) \in Nat
           /\ Stray(CostUsd(v, p, q), Exact(v, p, q), 1)
           /\ Exact(v, 0, 0) = 0 /\ CostUsd(v, 0, 0) = 0
<1>1. /\ Exact(v, p, q) \in Nat /\ Exact(v, 0, 0) = 0
  BY DEF Exact, Rate
<1>2. \A x \in Nat : /\ (x + 50) \div 100 \in Nat
                     /\ 100 * ((x + 50) \div 100) <= x + 50
                     /\ x + 50 < 100 * ((x + 50) \div 100) + 100
  OBVIOUS
<1> PICK x \in Nat : x = Exact(v, p, q)
  BY <1>1
<1> QED
  BY <1>1, <1>2 DEF CostUsd, Stray

\* The prices of rows, at a vendor: what AiInv says of a caller, with no state in it.
PriceAt(v, row) ==
    Exact(IF row.operation = "embed" THEN "openai" ELSE v, row.prompt, row.completion)
Prices(v, rows) == [i \in DOMAIN rows |-> PriceAt(v, rows[i])]
Costs(rows) == [i \in DOMAIN rows |-> rows[i].cost]
Prompts(rows) == [i \in DOMAIN rows |-> rows[i].prompt]

CallerKeeps(v, e) ==
    /\ RowsAddUp(e) /\ AtItsCall(e)
    /\ Stray(SumOf(Costs(e.staged)), SumOf(Prices(v, e.staged)), e.heard)

AiParts ==
    /\ AiTypeOK /\ ClientOnItsLoop /\ NothingBilledIsAskedAgain
    /\ \A c \in Callers : CallerKeeps(vendor, errands[c])
    /\ Stray(ledger.micros, ledger.exact, ledger.calls - ledger.cached)

LEMMA AiInvIs == AiInv <=> AiParts
<1>1. \A rows : TotalOf(rows).micros = SumOf(Costs(rows))
                /\ TotalOf(rows).exact = SumOf(Prices(vendor, rows))
  BY DEF TotalOf, Costs, Prices, PriceAt, ExactOf, VendorOf
<1> QED
  BY <1>1 DEF AiInv, AiParts, CallerKeeps

\* A list of rows is one.
LEMMA RowsAre ==
    ASSUME NEW rows \in Seq(AiRow)
    PROVE  /\ Len(rows) \in Nat /\ DOMAIN rows = 1 .. Len(rows)
           /\ \A i \in 1 .. Len(rows) : rows[i] \in AiRow
  BY LenProperties, ElementOfSeq

\* The sums over the rows when one more is staged.
LEMMA RowsGrow ==
    ASSUME NEW rows \in Seq(AiRow), NEW row \in AiRow, NEW v \in {"anthropic", "groq"},
           NEW more, more = Append(rows, row)
    PROVE  /\ SumOf(Costs(more)) = SumOf(Costs(rows)) + row.cost
           /\ SumOf(Costs(rows)) \in Nat
           /\ SumOf(Prices(v, more)) = SumOf(Prices(v, rows)) + PriceAt(v, row)
           /\ SumOf(Prices(v, rows)) \in Nat
           /\ TokensOf(more) = TokensOf(rows) + row.prompt
           /\ TokensOf(rows) \in Nat
<1> PICK n \in Nat : n = Len(rows)
  BY RowsAre
<1>1. /\ DOMAIN rows = 1 .. n /\ DOMAIN more = 1 .. n + 1
      /\ \A i \in 1 .. n : more[i] = rows[i] /\ rows[i] \in AiRow
      /\ more[n + 1] = row
  BY RowsAre, AppendProperties
<1>2. \A r \in AiRow : PriceAt(v, r) \in Nat /\ r.cost \in Nat /\ r.prompt \in Nat
  BY PricesAre DEF PriceAt, AiRow
<1>3. ASSUME NEW f, NEW g, DOMAIN f = 1 .. n, DOMAIN g = 1 .. n + 1,
             f \in [1 .. n -> Nat], g \in [1 .. n + 1 -> Nat],
             \A i \in 1 .. n : f[i] = g[i]
      PROVE  SumOf(g) = SumOf(f) + g[n + 1] /\ SumOf(f) \in Nat
  <2>1. Len(f) = n /\ Len(g) = n + 1
    BY <1>3
  <2>2. \A i \in 1 .. n : f[i] \in Nat
    BY <1>3
  <2> QED  BY <1>3, <2>1, <2>2, SumOfMore
<1>4. SumOf(Costs(more)) = SumOf(Costs(rows)) + row.cost /\ SumOf(Costs(rows)) \in Nat
  <2>1. PICK f : f = Costs(rows)
    OBVIOUS
  <2>2. PICK g : g = Costs(more)
    OBVIOUS
  <2>3. /\ f = [i \in 1 .. n |-> rows[i].cost]
        /\ g = [i \in 1 .. n + 1 |-> more[i].cost]
    BY <1>1, <2>1, <2>2 DEF Costs
  <2>4. \A i \in 1 .. n + 1 : more[i] \in AiRow
    BY <1>1
  <2>5. f \in [1 .. n -> Nat] /\ g \in [1 .. n + 1 -> Nat]
    BY <1>1, <1>2, <2>3, <2>4
  <2>6. (\A i \in 1 .. n : f[i] = g[i]) /\ g[n + 1] = row.cost
    BY <1>1, <2>3
  <2>7. SumOf(g) = SumOf(f) + g[n + 1] /\ SumOf(f) \in Nat
    BY <2>5, <2>6, <1>3
  <2> QED  BY <2>1, <2>2, <2>6, <2>7
<1>5. /\ SumOf(Prices(v, more)) = SumOf(Prices(v, rows)) + PriceAt(v, row)
      /\ SumOf(Prices(v, rows)) \in Nat
  <2>1. PICK f : f = Prices(v, rows)
    OBVIOUS
  <2>2. PICK g : g = Prices(v, more)
    OBVIOUS
  <2>3. /\ f = [i \in 1 .. n |-> PriceAt(v, rows[i])]
        /\ g = [i \in 1 .. n + 1 |-> PriceAt(v, more[i])]
    BY <1>1, <2>1, <2>2 DEF Prices
  <2>4. \A i \in 1 .. n + 1 : more[i] \in AiRow
    BY <1>1
  <2>5. f \in [1 .. n -> Nat] /\ g \in [1 .. n + 1 -> Nat]
    BY <1>1, <1>2, <2>3, <2>4
  <2>6. (\A i \in 1 .. n : f[i] = g[i]) /\ g[n + 1] = PriceAt(v, row)
    BY <1>1, <2>3
  <2>7. SumOf(g) = SumOf(f) + g[n + 1] /\ SumOf(f) \in Nat
    BY <2>5, <2>6, <1>3
  <2> QED  BY <2>1, <2>2, <2>6, <2>7
<1>6. /\ SumOf(Prompts(more)) = SumOf(Prompts(rows)) + row.prompt
      /\ SumOf(Prompts(rows)) \in Nat
  <2>1. PICK f : f = Prompts(rows)
    OBVIOUS
  <2>2. PICK g : g = Prompts(more)
    OBVIOUS
  <2>3. /\ f = [i \in 1 .. n |-> rows[i].prompt]
        /\ g = [i \in 1 .. n + 1 |-> more[i].prompt]
    BY <1>1, <2>1, <2>2 DEF Prompts
  <2>4. \A i \in 1 .. n + 1 : more[i] \in AiRow
    BY <1>1
  <2>5. f \in [1 .. n -> Nat] /\ g \in [1 .. n + 1 -> Nat]
    BY <1>1, <1>2, <2>3, <2>4
  <2>6. (\A i \in 1 .. n : f[i] = g[i]) /\ g[n + 1] = row.prompt
    BY <1>1, <2>3
  <2>7. SumOf(g) = SumOf(f) + g[n + 1] /\ SumOf(f) \in Nat
    BY <2>5, <2>6, <1>3
  <2> QED  BY <2>1, <2>2, <2>6, <2>7
<1> QED
  BY <1>4, <1>5, <1>6 DEF TokensOf, Prompts

\* The rows of the attempts that succeeded.
Successes(rows) == {i \in AttemptsIn(rows) : rows[i].ok}

\* The rows of attempts when one more is staged, and the successes among them.
LEMMA AttemptsGrow ==
    ASSUME NEW rows \in Seq(AiRow), NEW row \in AiRow, ~ row.cached,
           NEW more, more = Append(rows, row)
    PROVE  /\ Cardinality(AttemptsIn(more)) = Cardinality(AttemptsIn(rows)) + 1
           /\ Cardinality(AttemptsIn(rows)) \in Nat
           /\ Cardinality(Successes(more)) = Cardinality(Successes(rows)) + IF row.ok THEN 1 ELSE 0
           /\ Cardinality(Successes(rows)) \in Nat
<1> PICK n \in Nat : n = Len(rows)
  BY RowsAre
<1>1. /\ DOMAIN rows = 1 .. n /\ DOMAIN more = 1 .. n + 1
      /\ \A i \in 1 .. n : more[i] = rows[i]
      /\ more[n + 1] = row
  BY RowsAre, AppendProperties
<1>2. /\ AttemptsIn(more) = AttemptsIn(rows) \cup {n + 1}
      /\ n + 1 \notin AttemptsIn(rows) /\ AttemptsIn(rows) \subseteq 1 .. n
      /\ Successes(rows) \subseteq 1 .. n /\ n + 1 \notin Successes(rows)
      /\ row.ok => Successes(more) = Successes(rows) \cup {n + 1}
      /\ ~ row.ok => Successes(more) = Successes(rows)
  BY <1>1 DEF AttemptsIn, Successes
<1>3. \A T \in SUBSET (1 .. n) : IsFiniteSet(T) /\ Cardinality(T) \in Nat
  <2> PICK all : all = 1 .. n
    OBVIOUS
  <2>1. IsFiniteSet(all)
    BY FS_Interval
  <2>2. \A T \in SUBSET all : IsFiniteSet(T)
    BY <2>1, FS_Subset
  <2> QED  BY <2>2, FS_CardinalityType
<1>4. \A T \in SUBSET (1 .. n) : n + 1 \notin T =>
         Cardinality(T \cup {n + 1}) = Cardinality(T) + 1
  BY <1>3, FS_AddElement
<1>5. Cardinality(Successes(more)) = Cardinality(Successes(rows)) + IF row.ok THEN 1 ELSE 0
  BY <1>2, <1>3, <1>4
<1>6. Cardinality(AttemptsIn(more)) = Cardinality(AttemptsIn(rows)) + 1
  BY <1>2, <1>3, <1>4
<1> QED
  BY <1>2, <1>3, <1>5, <1>6

\* What f is of e once the attempt at the head of its calls is over: whether it
\* failed or not, whether it is to be repeated, passed over or the last.
Follows(v, e, f, row, charged) ==
    /\ row \in AiRow /\ ~ row.cached /\ Stray(row.cost, PriceAt(v, row), 1)
    /\ charged \in Nat /\ row.prompt <= charged
    /\ e.pc \in {"ready", "asking"}
    /\ f.flow = e.flow /\ f.staged = Append(e.staged, row)
    /\ f.heard = e.heard + 1 /\ f.billed = e.billed + charged
    /\ f.withheld = e.withheld + (charged - row.prompt)
    /\ \/ /\ f.pc = "asleep" /\ f.todo = e.todo /\ f.attempt = e.attempt
          /\ e.attempt < MaxAttempts /\ ~ row.ok
       \/ /\ f.pc \in {"ready", "closing"} /\ (f.pc = "ready" => f.todo # <<>>)
          /\ f.attempt = 1
          /\ f.todo = Tail(e.todo) \/ (f.todo = <<>> /\ ~ row.ok)

\* An attempt more keeps the rows in step with what was heard.
LEMMA FollowsKeeps ==
    ASSUME AiAssumption, NEW v \in {"anthropic", "groq"}, NEW e \in Errand,
           CallerKeeps(v, e), NEW f, NEW row, NEW charged, Follows(v, e, f, row, charged)
    PROVE  CallerKeeps(v, f)
<1>20. PICK length \in {1, 2} : length = Len(Flows[e.flow])
  BY FlowsAre DEF Errand
<1>1. /\ e.staged \in Seq(AiRow) /\ e.todo \in Seq(AiOperations)
      /\ e.heard \in Nat /\ e.billed \in Nat /\ e.withheld \in Nat
      /\ e.attempt \in 1 .. MaxAttempts /\ MaxAttempts \in Nat
  BY DEF Errand, AiAssumption
<1>2. /\ row \in AiRow /\ ~ row.cached /\ Stray(row.cost, PriceAt(v, row), 1)
      /\ charged \in Nat /\ row.prompt <= charged /\ row.prompt \in Nat /\ row.cost \in Nat
      /\ row.ok \in BOOLEAN
      /\ f.flow = e.flow /\ f.staged = Append(e.staged, row)
      /\ f.heard = e.heard + 1 /\ f.billed = e.billed + charged
      /\ f.withheld = e.withheld + (charged - row.prompt)
  BY DEF Follows, AiRow
<1>21. PICK left \in Nat : left = Len(e.todo)
  BY <1>1, LenProperties
<1>22. PICK m \in Nat, h \in Nat, a \in Nat : m = MaxAttempts /\ h = e.heard /\ a = e.attempt
  BY <1>1
<1>3. /\ left <= length /\ left \in {1, 2} /\ e.todo # <<>>
      /\ h <= m * (length - left) + a - 1
  <2>1. AtItsCall(e) /\ e.pc \in {"ready", "asking"}
    BY DEF CallerKeeps, Follows
  <2>2. e.todo # <<>> /\ left <= length
    BY <1>20, <1>21, <2>1 DEF AtItsCall
  <2>3. h <= m * (length - left) + a - 1
    BY <1>20, <1>21, <1>22, <2>1 DEF AtItsCall
  <2>4. left # 0
    BY <1>1, <1>21, <2>2, EmptySeq
  <2>5. left \in {1, 2}
    BY <2>2, <2>4
  <2> QED  BY <2>2, <2>3, <2>5
<1>24. /\ Len(Tail(e.todo)) = left - 1 /\ Len(<<>>) = 0
  BY <1>1, <1>3, <1>21, HeadTailProperties
<1>25. \/ /\ f.pc = "asleep" /\ f.todo = e.todo /\ f.attempt = e.attempt
           /\ e.attempt < MaxAttempts /\ ~ row.ok
        \/ /\ f.pc \in {"ready", "closing"} /\ (f.pc = "ready" => f.todo # <<>>)
           /\ f.attempt = 1
           /\ f.todo = Tail(e.todo) \/ (f.todo = <<>> /\ ~ row.ok)
  BY DEF Follows
<1>23. PICK after \in Nat : after = Len(f.todo)
  <2>1. Len(f.todo) \in {left, left - 1, 0}
    BY <1>21, <1>24, <1>25
  <2>2. left - 1 \in Nat
    BY <1>3
  <2> QED  BY <2>1, <2>2
<1>4. /\ after <= left
      /\ f.pc = "asleep" => after = left /\ f.todo # <<>> /\ f.attempt = a /\ a < m
      /\ f.pc # "asleep" => after < left /\ f.attempt = 1
      /\ row.ok => after = left - 1
      /\ f.pc = "ready" => f.todo # <<>>
      /\ f.pc # "asking"
  <2>1. left - 1 \in Nat /\ left - 1 < left /\ 0 < left /\ left <= left
    BY <1>3
  <2>2. CASE f.pc = "asleep"
    <3>1. after = left
      BY <1>21, <1>23, <1>25, <2>2
    <3>2. f.todo # <<>> /\ f.attempt = a /\ a < m /\ ~ row.ok
      BY <1>3, <1>22, <1>25, <2>2
    <3> QED  BY <2>1, <2>2, <3>1, <3>2
  <2>3. CASE f.pc # "asleep"
    <3>1. after = left - 1 \/ (after = 0 /\ ~ row.ok)
      BY <1>23, <1>24, <1>25, <2>3
    <3>2. f.attempt = 1 /\ (f.pc = "ready" => f.todo # <<>>) /\ f.pc # "asking"
      BY <1>25, <2>3
    <3> QED  BY <2>1, <2>3, <3>1, <3>2
  <2> QED  BY <2>2, <2>3
<1>5. /\ h + 1 <= m * (length - after) + (IF f.pc = "asleep" THEN a ELSE 0)
      /\ h + 1 <= m * length
  <2>1. /\ m * 0 = 0 /\ m * 1 = m /\ m * 2 = m + m
    OBVIOUS
  <2>2. a <= m
    BY <1>1, <1>22
  <2>3. PICK k \in Nat : k = length - left
    BY <1>3
  <2>4. PICK j \in Nat : j = length - after
    BY <1>3, <1>4
  <2>5. h <= m * k + a - 1
    BY <1>3, <2>3
  <2>6. k \in {0, 1} /\ j \in {0, 1, 2} /\ j <= length
    <3>1. left <= length /\ left \in {1, 2} /\ after <= left
      BY <1>3, <1>4
    <3> QED  BY <2>3, <2>4, <3>1
  <2>7. h + 1 <= m * j + (IF f.pc = "asleep" THEN a ELSE 0)
    <3>1. CASE f.pc = "asleep"
      <4>1. j = k
        BY <1>4, <2>3, <2>4, <3>1
      <4>2. h + 1 <= m * k + a
        BY <2>1, <2>5, <2>6
      <4> QED  BY <3>1, <4>1, <4>2
    <3>2. CASE f.pc # "asleep"
      <4>1. k < j
        BY <1>4, <2>3, <2>4, <3>2
      <4>2. h + 1 <= m * j
        BY <2>1, <2>2, <2>5, <2>6, <4>1
      <4>3. m * j + 0 = m * j
        OBVIOUS
      <4> QED  BY <3>2, <4>2, <4>3
    <3> QED  BY <3>1, <3>2
  <2>8. h + 1 <= m * length
    <3>1. k < length
      BY <1>3, <2>3
    <3> QED  BY <2>1, <2>2, <2>5, <2>6, <3>1
  <2> QED  BY <2>4, <2>7, <2>8
<1>6. AtItsCall(f)
  <2>1. /\ f.pc \in {"ready", "asking", "asleep"} => f.todo # <<>>
        /\ f.pc = "asleep" => f.attempt < MaxAttempts
    BY <1>1, <1>22, <1>4, <1>25
  <2>2. Len(f.todo) <= Len(Flows[f.flow])
    BY <1>2, <1>3, <1>4, <1>20, <1>23
  <2>3. f.heard = h + 1 /\ MaxAttempts = m /\ Len(Flows[f.flow]) = length
        /\ Len(f.todo) = after
        /\ f.attempt = IF f.pc = "asleep" THEN a ELSE 1
    BY <1>2, <1>4, <1>20, <1>22, <1>23
  <2>4. h + 1 <= m * (length - after)
                   + (IF f.pc = "asleep" THEN a ELSE 1) - (IF f.pc = "asleep" THEN 0 ELSE 1)
    <3> PICK x \in Int : x = m * (length - after)
      OBVIOUS
    <3> QED  BY <1>5
  <2> QED  BY <2>1, <2>2, <2>3, <2>4 DEF AtItsCall
<1>7. /\ Cardinality(AttemptsIn(e.staged)) = e.heard
      /\ Cardinality(Successes(e.staged)) + left <= length
      /\ TokensOf(e.staged) + e.withheld = e.billed
      /\ Stray(SumOf(Costs(e.staged)), SumOf(Prices(v, e.staged)), e.heard)
  BY <1>20, <1>21 DEF CallerKeeps, RowsAddUp, Successes
<1>8. /\ Cardinality(AttemptsIn(f.staged)) = Cardinality(AttemptsIn(e.staged)) + 1
      /\ Cardinality(Successes(f.staged))
           = Cardinality(Successes(e.staged)) + IF row.ok THEN 1 ELSE 0
      /\ Cardinality(Successes(e.staged)) \in Nat
  <2>0. PICK rows \in Seq(AiRow) : rows = e.staged
    BY <1>1
  <2>1. PICK more : more = f.staged /\ more = Append(rows, row)
    BY <1>2, <2>0
  <2>2. row \in AiRow /\ ~ row.cached
    BY <1>2
  <2>3. /\ Cardinality(AttemptsIn(more)) = Cardinality(AttemptsIn(rows)) + 1
        /\ Cardinality(Successes(more)) = Cardinality(Successes(rows)) + IF row.ok THEN 1 ELSE 0
        /\ Cardinality(Successes(rows)) \in Nat
    BY <2>1, <2>2, AttemptsGrow
  <2> QED  BY <2>0, <2>1, <2>3
<1>9. /\ SumOf(Costs(f.staged)) = SumOf(Costs(e.staged)) + row.cost
      /\ SumOf(Costs(e.staged)) \in Nat
      /\ SumOf(Prices(v, f.staged)) = SumOf(Prices(v, e.staged)) + PriceAt(v, row)
      /\ SumOf(Prices(v, e.staged)) \in Nat
      /\ TokensOf(f.staged) = TokensOf(e.staged) + row.prompt /\ TokensOf(e.staged) \in Nat
  <2>0. PICK rows \in Seq(AiRow) : rows = e.staged
    BY <1>1
  <2>1. PICK more : more = f.staged /\ more = Append(rows, row)
    BY <1>2, <2>0
  <2>2. row \in AiRow
    BY <1>2
  <2>3. /\ SumOf(Costs(more)) = SumOf(Costs(rows)) + row.cost
        /\ SumOf(Costs(rows)) \in Nat
        /\ SumOf(Prices(v, more)) = SumOf(Prices(v, rows)) + PriceAt(v, row)
        /\ SumOf(Prices(v, rows)) \in Nat
        /\ TokensOf(more) = TokensOf(rows) + row.prompt /\ TokensOf(rows) \in Nat
    BY <2>1, <2>2, RowsGrow
  <2> QED  BY <2>0, <2>1, <2>3
<1>10. PriceAt(v, row) \in Nat
  BY <1>2, PricesAre DEF PriceAt, AiRow
<1>11. Cardinality(Successes(f.staged)) + after <= length
  <2>1. PICK x \in Nat : x = Cardinality(Successes(e.staged))
    BY <1>8
  <2>2. x + left <= length
    BY <1>7, <2>1
  <2>3. Cardinality(Successes(f.staged)) = x + IF row.ok THEN 1 ELSE 0
    BY <1>8, <2>1
  <2>4. (x + IF row.ok THEN 1 ELSE 0) + after <= length
    BY <1>4, <2>2
  <2> QED  BY <2>3, <2>4
<1>12. TokensOf(f.staged) + f.withheld = f.billed
  <2>1. PICK x \in Nat, y \in Nat, z \in Nat, p \in Nat :
           /\ x = TokensOf(e.staged) /\ y = e.withheld /\ z = e.billed /\ p = row.prompt
    BY <1>1, <1>2, <1>9
  <2>2. x + y = z
    BY <1>7, <2>1
  <2>3. (x + p) + (y + (charged - p)) = z + charged
    BY <1>2, <2>2
  <2> QED  BY <1>2, <1>9, <2>1, <2>3
<1>13. RowsAddUp(f)
  <2>1. Cardinality(AttemptsIn(f.staged)) = f.heard
    BY <1>2, <1>7, <1>8
  <2>2. f.heard <= MaxAttempts * Len(Flows[f.flow])
    <3>1. f.heard = h + 1 /\ MaxAttempts = m /\ Len(Flows[f.flow]) = length
      BY <1>2, <1>20, <1>22
    <3> QED  BY <1>5, <3>1
  <2>3. Cardinality(Successes(f.staged)) + Len(f.todo) <= Len(Flows[f.flow])
    BY <1>2, <1>11, <1>20, <1>23
  <2> QED  BY <1>12, <2>1, <2>2, <2>3 DEF RowsAddUp, Successes
<1>14. Stray(SumOf(Costs(f.staged)), SumOf(Prices(v, f.staged)), f.heard)
  <2>3. PICK s \in Nat, b \in Nat : s = SumOf(Costs(e.staged)) /\ b = SumOf(Prices(v, e.staged))
    BY <1>9
  <2>4. PICK x \in Nat, y \in Nat : x = row.cost /\ y = PriceAt(v, row)
    BY <1>2, <1>10
  <2>1. Stray(s, b, h) /\ Stray(x, y, 1)
    BY <1>2, <1>7, <1>22, <2>3, <2>4
  <2>2. Stray(s + x, b + y, h + 1)
    BY <2>1 DEF Stray
  <2> QED  BY <1>2, <1>9, <1>22, <2>2, <2>3, <2>4
<1> QED
  BY <1>6, <1>13, <1>14 DEF CallerKeeps

\* An errand with no rows keeps them in step with nothing.
LEMMA FreshKeeps ==
    ASSUME AiAssumption, NEW v, NEW e, e.flow \in DOMAIN Flows, e.todo \in Seq(AiOperations),
           e.staged = <<>>, e.heard = 0, e.billed = 0, e.withheld = 0,
           e.attempt \in 1 .. MaxAttempts, Len(e.todo) <= Len(Flows[e.flow]),
           e.pc \in {"idle", "ready", "closing"},
           e.pc = "ready" => e.todo # <<>>
    PROVE  CallerKeeps(v, e)
<1>1. PICK length \in {1, 2} : length = Len(Flows[e.flow])
  BY FlowsAre
<1>2. PICK left \in Nat : left = Len(e.todo)
  BY LenProperties
<1>3. left <= length
  BY <1>1, <1>2
<1>4. PICK m \in Nat : m = MaxAttempts
  BY DEF AiAssumption
<1>5. PICK none : none = <<>>
  OBVIOUS
<1>6. AttemptsIn(none) = {} /\ Successes(none) = {} /\ Len(none) = 0 /\ DOMAIN none = {}
  BY <1>5 DEF AttemptsIn, Successes
<1>7. Cardinality(AttemptsIn(none)) = 0 /\ Cardinality(Successes(none)) = 0
  BY <1>6, FS_EmptySet
<1>8. TokensOf(none) = 0 /\ SumOf(Costs(none)) = 0 /\ SumOf(Prices(v, none)) = 0
  <2>1. \A f : DOMAIN f = {} => Len(f) = 0 \/ f # [i \in {} |-> f[i]]
    OBVIOUS
  <2>2. \A f : f = [i \in {} |-> f[i]] => Len(f) = 0
    OBVIOUS
  <2>3. ASSUME NEW f, DOMAIN f = {}, f = [i \in {} |-> f[i]] PROVE SumOf(f) = 0
    BY <2>2, <2>3, SumOfNothing
  <2>4. SumOf(Costs(none)) = 0
    BY <1>6, <2>3 DEF Costs
  <2>5. SumOf(Prices(v, none)) = 0
    BY <1>6, <2>3 DEF Prices
  <2>6. SumOf(Prompts(none)) = 0
    BY <1>6, <2>3 DEF Prompts
  <2> QED  BY <2>4, <2>5, <2>6 DEF TokensOf, Prompts
<1>9. 0 <= m * length /\ 0 <= m * (length - left)
  <2>1. PICK k \in {0, 1, 2} : k = length - left
    BY <1>3
  <2>2. m * 0 = 0 /\ m * 1 = m /\ m * 2 = m + m
    OBVIOUS
  <2> QED  BY <2>1, <2>2
<1>10. RowsAddUp(e)
  BY <1>1, <1>2, <1>3, <1>4, <1>5, <1>7, <1>8, <1>9 DEF RowsAddUp, Successes
<1>11. AtItsCall(e)
  <2>1. e.heard <= MaxAttempts * (Len(Flows[e.flow]) - Len(e.todo)) + e.attempt
                     - IF e.pc = "asleep" THEN 0 ELSE 1
    <3>1. PICK a \in Nat : a = e.attempt /\ 1 <= a
      BY <1>4
    <3>2. PICK k \in Int : k = m * (length - left)
      OBVIOUS
    <3>3. 0 <= k + a - 1
      BY <1>9, <3>1, <3>2
    <3> QED  BY <1>1, <1>2, <1>4, <3>1, <3>2, <3>3
  <2> QED  BY <1>1, <1>2, <2>1 DEF AtItsCall
<1>12. Stray(SumOf(Costs(e.staged)), SumOf(Prices(v, e.staged)), e.heard)
  BY <1>5, <1>8 DEF Stray
<1> QED  BY <1>10, <1>11, <1>12 DEF CallerKeeps

\* One of no attempts but of a stored summary that was served.
LEMMA HitKeeps ==
    ASSUME AiAssumption, NEW v \in {"anthropic", "groq"}, NEW e, NEW row \in AiRow,
           row.cached, row.prompt = 0, row.cost = 0, PriceAt(v, row) = 0,
           e.flow = "summary", e.todo = <<>>, e.pc = "closing", e.staged = <<row>>,
           e.heard = 0, e.billed = 0, e.withheld = 0, e.attempt = 1
    PROVE  CallerKeeps(v, e)
<1> DEFINE rest == [pc |-> "closing", flow |-> "summary", todo |-> <<>>, staged |-> <<>>,
                    heard |-> 0, billed |-> 0, withheld |-> 0, attempt |-> 1]
<1>1. CallerKeeps(v, rest)
  <2>1. "summary" \in DOMAIN Flows /\ <<>> \in Seq(AiOperations) /\ Len(<<>>) = 0
    BY EmptySeq DEF Flows
  <2>2. 0 <= Len(Flows["summary"])
    BY <2>1, FlowsAre
  <2>3. /\ rest.flow = "summary" /\ rest.todo = <<>> /\ rest.staged = <<>>
        /\ rest.heard = 0 /\ rest.billed = 0 /\ rest.withheld = 0
        /\ rest.attempt \in 1 .. MaxAttempts /\ rest.pc = "closing"
    BY DEF AiAssumption
  <2>4. PICK r : r = rest
    OBVIOUS
  <2>5. CallerKeeps(v, r)
    <3> HIDE DEF rest
    <3> QED  BY <2>1, <2>2, <2>3, <2>4, FreshKeeps
  <2> QED  BY <2>4, <2>5
<1>2. PICK rows \in Seq(AiRow) : rows = <<>>
  BY EmptySeq
<1>3. PICK more : more = <<row>> /\ more = Append(rows, row)
  <2>1. <<row>> = Append(<<>>, row)
    OBVIOUS
  <2> QED  BY <1>2, <2>1
<1>4. /\ SumOf(Costs(more)) = SumOf(Costs(rows)) + row.cost
      /\ SumOf(Costs(rows)) \in Nat
      /\ SumOf(Prices(v, more)) = SumOf(Prices(v, rows)) + PriceAt(v, row)
      /\ SumOf(Prices(v, rows)) \in Nat
      /\ TokensOf(more) = TokensOf(rows) + row.prompt
      /\ TokensOf(rows) \in Nat
  BY <1>3, RowsGrow
<1>5. /\ SumOf(Costs(more)) = SumOf(Costs(rows))
      /\ SumOf(Prices(v, more)) = SumOf(Prices(v, rows))
      /\ TokensOf(more) = TokensOf(rows)
  BY <1>4
<1>6. /\ AttemptsIn(more) = {} /\ Successes(more) = {}
      /\ AttemptsIn(rows) = {} /\ Successes(rows) = {}
  BY <1>2, <1>3 DEF AttemptsIn, Successes
<1>7. e.staged = more /\ rest.staged = rows
  BY <1>2, <1>3
<1>8. RowsAddUp(e)
  <2>1. RowsAddUp(rest)
    BY <1>1 DEF CallerKeeps
  <2>2. /\ Cardinality(AttemptsIn(more)) = 0
        /\ 0 <= MaxAttempts * Len(Flows["summary"])
        /\ Cardinality(Successes(more)) + Len(<<>>) <= Len(Flows["summary"])
        /\ TokensOf(more) + 0 = 0
    BY <1>2, <1>5, <1>6, <2>1 DEF RowsAddUp, Successes
  <2> QED  BY <1>7, <2>2 DEF RowsAddUp, Successes
<1>9. AtItsCall(e)
  BY <1>1 DEF CallerKeeps, AtItsCall
<1>10. Stray(SumOf(Costs(e.staged)), SumOf(Prices(v, e.staged)), e.heard)
  <2>1. Stray(SumOf(Costs(rows)), SumOf(Prices(v, rows)), 0)
    BY <1>1, <1>2 DEF CallerKeeps
  <2> QED  BY <1>5, <1>7, <2>1
<1> QED  BY <1>8, <1>9, <1>10 DEF CallerKeeps

\* One that only moves on, without a row.
LEMMA PacedKeeps ==
    ASSUME NEW v, NEW e, CallerKeeps(v, e), NEW f,
           f.flow = e.flow, f.staged = e.staged, f.heard = e.heard, f.billed = e.billed,
           f.withheld = e.withheld, f.todo = e.todo, AtItsCall(f)
    PROVE  CallerKeeps(v, f)
  BY DEF CallerKeeps, RowsAddUp

\* What every action does: one process turns to f, the others are left alone.
Turns(c, f) ==
    /\ f \in Errand /\ errands' = [errands EXCEPT ![c] = f] /\ CallerKeeps(vendor, f)
    /\ f.pc = "asleep" => f.last = 0
    /\ f.pc = "asking" =>
          client'[c][Service(Head(f.todo))] = IF c \in AiServers THEN 1 ELSE f.nr
    /\ client' \in [Callers -> [Services -> Nat]]
    /\ \A d \in Callers \ {c} : client'[d] = client[d]
    /\ vendor' = vendor /\ keyed' = keyed /\ broken' \in Nat
    /\ ledger' \in [calls : Nat, failed : Nat, cached : Nat, micros : Nat, exact : Nat]
    /\ Stray(ledger'.micros, ledger'.exact, ledger'.calls - ledger'.cached)

LEMMA TurnKeeps ==
    ASSUME AiInv, NEW c \in Callers, NEW f, Turns(c, f)
    PROVE  AiInv'
<1>1. /\ errands \in [Callers -> Errand] /\ vendor \in Vendors /\ keyed \subseteq Services
      /\ \A d \in Callers : CallerKeeps(vendor, errands[d])
  BY AiInvIs DEF AiParts, AiTypeOK
<1>2. /\ errands'[c] = f /\ \A d \in Callers \ {c} : errands'[d] = errands[d]
      /\ errands' \in [Callers -> Errand]
  BY <1>1 DEF Turns
<1>3. AiTypeOK'
  BY <1>1, <1>2 DEF AiTypeOK, Turns
<1>4. \A d \in Callers : CallerKeeps(vendor', errands'[d])
  BY <1>1, <1>2 DEF Turns
<1>5. ClientOnItsLoop'
  <2>1. ClientOnItsLoop
    BY DEF AiInv
  <2> QED  BY <1>2, <2>1 DEF ClientOnItsLoop, LoopOf, Turns
<1>6. NothingBilledIsAskedAgain'
  <2>1. NothingBilledIsAskedAgain
    BY DEF AiInv
  <2> QED  BY <1>2, <2>1 DEF NothingBilledIsAskedAgain, Turns
<1>7. AiParts'
  BY <1>3, <1>4, <1>5, <1>6 DEF AiParts, Turns
<1>8. (AiParts => AiInv)'
  BY AiInvIs, PTL
<1> QED
  BY <1>7, <1>8

\* What a row is staged with.
LEMMA StagedRow ==
    ASSUME AiAssumption, vendor \in Vendors, NEW op \in AiOperations, NEW ok \in BOOLEAN,
           NEW cached \in BOOLEAN, NEW size \in Nat
    PROVE  LET row == StageUsage(op, ok, cached, size) IN
           /\ row \in AiRow /\ row.ok = ok /\ row.cached = cached /\ row.prompt = size
           /\ Stray(row.cost, PriceAt(vendor, row), 1)
           /\ size = 0 => row.cost = 0 /\ PriceAt(vendor, row) = 0
<1> PICK completion : completion = IF op = "embed" THEN 0 ELSE size
  OBVIOUS
<1>1. completion \in Nat
  OBVIOUS
<1> PICK v : v = IF op = "embed" THEN "openai" ELSE vendor
  OBVIOUS
<1>2. v \in {"anthropic", "groq", "openai"} /\ v = VendorOf(op)
  BY DEF AiAssumption, VendorOf
<1> PICK row : row = StageUsage(op, ok, cached, size)
  OBVIOUS
<1>3. row = [operation |-> op, ok |-> ok, cached |-> cached, prompt |-> size,
             completion |-> completion, cost |-> CostUsd(v, size, completion)]
  BY <1>2 DEF StageUsage
<1>4. /\ row.operation = op /\ row.ok = ok /\ row.cached = cached /\ row.prompt = size
      /\ row.completion = completion /\ row.cost = CostUsd(v, size, completion)
  BY <1>3
<1>5. /\ CostUsd(v, size, completion) \in Nat
      /\ Stray(CostUsd(v, size, completion), Exact(v, size, completion), 1)
      /\ Exact(v, 0, 0) = 0 /\ CostUsd(v, 0, 0) = 0
  BY <1>1, <1>2, PricesAre
<1>6. PriceAt(vendor, row) = Exact(v, size, completion)
  BY <1>4 DEF PriceAt
<1>7. row \in AiRow
  BY <1>1, <1>3, <1>5 DEF AiRow
<1>8. size = 0 => completion = 0
  OBVIOUS
<1> QED
  BY <1>4, <1>5, <1>6, <1>7, <1>8

\* What is known of a process before it takes a step.
LEMMA AiFacts ==
    ASSUME AiInv, NEW c \in Callers
    PROVE  /\ AiAssumption /\ vendor \in {"anthropic", "groq"} /\ vendor \in Vendors
           /\ errands[c] \in Errand /\ CallerKeeps(vendor, errands[c])
           /\ errands[c].pc \in {"ready", "asking", "asleep"} =>
                 /\ errands[c].todo # <<>> /\ Head(errands[c].todo) \in AiOperations
                 /\ Tail(errands[c].todo) \in Seq(AiOperations)
           /\ client \in [Callers -> [Services -> Nat]] /\ broken \in Nat
           /\ ledger \in [calls : Nat, failed : Nat, cached : Nat, micros : Nat, exact : Nat]
           /\ Stray(ledger.micros, ledger.exact, ledger.calls - ledger.cached)
           /\ LoopOf(c) \in Nat
<1>1. AiTypeOK /\ AiParts
  BY AiInvIs DEF AiParts
<1>2. errands[c] \in Errand /\ errands[c].nr \in Nat
  BY <1>1 DEF AiTypeOK, Errand
<1>3. CallerKeeps(vendor, errands[c])
  BY <1>1 DEF AiParts
<1>4. errands[c].pc \in {"ready", "asking", "asleep"} => errands[c].todo # <<>>
  BY <1>3 DEF CallerKeeps, AtItsCall
<1>5. errands[c].todo \in Seq(AiOperations)
  BY <1>2 DEF Errand
<1>6. errands[c].todo # <<>> => /\ Head(errands[c].todo) \in AiOperations
                                /\ Tail(errands[c].todo) \in Seq(AiOperations)
  BY <1>5, HeadTailProperties
<1>7. vendor \in {"anthropic", "groq"} /\ vendor \in Vendors
  BY <1>1, AiAssumption DEF AiTypeOK
<1> QED
  BY <1>1, <1>2, <1>3, <1>4, <1>6, <1>7, AiAssumption DEF AiTypeOK, AiParts, LoopOf

\* An attempt that is over leaves its row, and what it was charged.
LEMMA AttemptedIs ==
    ASSUME AiInv, NEW c \in Callers, errands[c].pc \in {"ready", "asking"},
           NEW kind, NEW charged \in Nat, NEW reported \in Nat, reported <= charged,
           kind = "transient" => charged = 0, Attempted(c, kind, charged, reported)
    PROVE  \E f \in Errand : /\ errands' = [errands EXCEPT ![c] = f]
                             /\ CallerKeeps(vendor, f) /\ f.pc # "asking"
                             /\ f.pc = "asleep" => f.last = 0
<1>1. PICK e \in Errand : e = errands[c]
  BY AiFacts
<1>2. PICK op \in AiOperations : op = Head(e.todo)
  BY <1>1, AiFacts
<1>3. PICK row : row = StageUsage(op, kind = "result", FALSE, reported)
  OBVIOUS
<1>4. /\ row \in AiRow /\ row.ok = (kind = "result") /\ ~ row.cached
      /\ row.prompt = reported /\ Stray(row.cost, PriceAt(vendor, row), 1)
  <2>1. PICK ok \in BOOLEAN, no \in BOOLEAN : ok = (kind = "result") /\ no = FALSE
    OBVIOUS
  <2>2. row = StageUsage(op, ok, no, reported)
    BY <1>3, <2>1
  <2>3. AiAssumption /\ vendor \in Vendors
    BY AiFacts
  <2>4. /\ row \in AiRow /\ row.ok = ok /\ row.cached = no
        /\ row.prompt = reported /\ Stray(row.cost, PriceAt(vendor, row), 1)
    BY <2>2, <2>3, StagedRow
  <2> QED  BY <2>1, <2>4
<1>5. PICK over : over = IF kind = "result" \/ GoesOn(e.flow, op) THEN Tail(e.todo) ELSE <<>>
  OBVIOUS
<1>6. over \in Seq(AiOperations)
  BY <1>1, <1>5, AiFacts, EmptySeq
<1>7. PICK heard : heard =
         [e EXCEPT !.staged = Append(@, row), !.heard = @ + 1, !.last = charged,
                   !.billed = @ + charged, !.withheld = @ + (charged - reported)]
  OBVIOUS
<1>8. /\ e.staged \in Seq(AiRow) /\ Append(e.staged, row) \in Seq(AiRow)
      /\ e.heard + 1 \in Nat /\ e.billed + charged \in Nat
      /\ e.withheld + (charged - reported) \in Nat /\ 1 \in 1 .. MaxAttempts
  <2>1. e.staged \in Seq(AiRow) /\ e.heard \in Nat /\ e.billed \in Nat /\ e.withheld \in Nat
    BY DEF Errand
  <2>2. 1 \in 1 .. MaxAttempts
    BY AiAssumption
  <2> QED  BY <1>4, <2>1, <2>2, AppendProperties
<1>9. /\ heard \in Errand
      /\ heard.flow = e.flow /\ heard.todo = e.todo /\ heard.attempt = e.attempt
      /\ heard.staged = Append(e.staged, row) /\ heard.heard = e.heard + 1
      /\ heard.last = charged /\ heard.billed = e.billed + charged
      /\ heard.withheld = e.withheld + (charged - reported)
  BY <1>7, <1>8 DEF Errand
<1> DEFINE pause == [heard EXCEPT !.pc = "asleep"]
           done == IF over = <<>> \/ e.flow = "analysis" THEN "closing" ELSE "ready"
           move == [heard EXCEPT !.todo = over, !.attempt = 1, !.pc = done]
<1>10. PICK f : f = IF Retried(kind, e.attempt) THEN pause ELSE move
  OBVIOUS
<1>11. errands' = [errands EXCEPT ![c] = f]
  BY <1>1, <1>2, <1>3, <1>5, <1>7, <1>10 DEF Attempted
<1>12. CASE Retried(kind, e.attempt)
  <2>1. f = pause /\ kind = "transient" /\ e.attempt < MaxAttempts
    BY <1>10, <1>12 DEF Retried
  <2>2. /\ f \in Errand /\ f.pc = "asleep" /\ f.todo = e.todo /\ f.attempt = e.attempt
        /\ f.flow = e.flow /\ f.staged = Append(e.staged, row) /\ f.heard = e.heard + 1
        /\ f.last = charged /\ f.billed = e.billed + charged
        /\ f.withheld = e.withheld + (charged - row.prompt)
    BY <1>4, <1>9, <2>1 DEF Errand
  <2>3. Follows(vendor, e, f, row, charged)
    BY <1>1, <1>4, <2>1, <2>2 DEF Follows
  <2>4. CallerKeeps(vendor, f)
    BY <1>1, <2>3, AiFacts, FollowsKeeps
  <2> QED  BY <1>11, <2>1, <2>2, <2>4
<1>13. CASE ~ Retried(kind, e.attempt)
  <2>1. f = move
    BY <1>10, <1>13
  <2>2. /\ f \in Errand /\ f.pc = done /\ f.todo = over /\ f.attempt = 1
        /\ f.flow = e.flow /\ f.staged = Append(e.staged, row) /\ f.heard = e.heard + 1
        /\ f.billed = e.billed + charged
        /\ f.withheld = e.withheld + (charged - row.prompt)
    BY <1>4, <1>6, <1>8, <1>9, <2>1 DEF Errand
  <2>3. f.pc \in {"ready", "closing"} /\ (f.pc = "ready" => f.todo # <<>>)
    BY <2>2
  <2>4. f.todo = Tail(e.todo) \/ (f.todo = <<>> /\ ~ row.ok)
    BY <1>4, <1>5, <2>2
  <2>5. Follows(vendor, e, f, row, charged)
    BY <1>1, <1>4, <2>2, <2>3, <2>4 DEF Follows
  <2>6. CallerKeeps(vendor, f)
    BY <1>1, <2>5, AiFacts, FollowsKeeps
  <2> QED  BY <1>11, <2>2, <2>3, <2>6
<1> QED  BY <1>12, <1>13

\* Nothing that is asked again was charged, and no client reports more than was.
LEMMA AnswersAre ==
    ASSUME NEW v \in {"anthropic", "groq", "openai"}, NEW a \in Answers(v), NEW size \in Nat
    PROVE  /\ Charged(a, size) \in Nat /\ Reported(a, size) \in Nat
           /\ Reported(a, size) <= Charged(a, size)
           /\ Classify(a) = "transient" => Charged(a, size) = 0
<1>1. \A h, s, t : /\ Answer(h, s, t).how = h /\ Answer(h, s, t).status = s
                   /\ Answer(h, s, t).hint = t
  BY DEF Answer
<1>2. /\ Charged(a, size) \in {0, size} /\ Reported(a, size) \in {0, size}
      /\ Reported(a, size) = size => Charged(a, size) = size \/ size = 0
  BY DEF Charged, Reported
<1>3. ASSUME Classify(a) = "transient" PROVE a.status # 200 \/ a.how = "not_json"
  <2>1. CASE a.how \in {"timeout", "unreachable", "other"}
    <3>1. a.status = 0
      BY <1>1, <2>1 DEF Answers, Bodies
    <3> QED  BY <3>1
  <2>2. CASE a.how = "status"
    <3>1. a.status \in {400, 401, 403, 404, 408, 409, 413, 422, 429, 500}
      BY <1>1, <2>2 DEF Answers, Bodies
    <3> QED  BY <3>1
  <2>3. CASE a.how \in Bodies(v)
    <3>1. a.how \in {"good", "truncated", "refusal", "context_window", "content_filter",
                     "no_call", "wrong_tool", "malformed", "miscounted", "not_json"}
      BY <2>3 DEF Bodies
    <3> QED  BY <1>3, <3>1 DEF Classify, Withheld
  <2>4. a.how \in {"timeout", "unreachable", "other", "status"} \cup Bodies(v)
    BY <1>1 DEF Answers
  <2> QED  BY <2>1, <2>2, <2>3, <2>4
<1> QED
  BY <1>2, <1>3 DEF Charged

\* Every action of a process turns it to something that keeps the invariant.
LEMMA BeginKeeps ==
    ASSUME AiInv, NEW c \in Callers, NEW flow \in DOMAIN Flows, BeginErrand(c, flow)
    PROVE  AiInv'
<1>1. PICK f : f =
         [pc |-> "ready", flow |-> flow, todo |-> Flows[flow], nr |-> errands[c].nr + 1,
          attempt |-> 1, staged |-> <<>>, heard |-> 0, last |-> 0, billed |-> 0,
          withheld |-> 0]
  OBVIOUS
<1>2. errands' = [errands EXCEPT ![c] = f]
  BY <1>1 DEF BeginErrand
<1>3. /\ Flows[flow] \in Seq(AiOperations) /\ Flows[flow] # <<>>
      /\ Len(Flows[flow]) <= Len(Flows[flow])
  BY FlowsAre
<1>4. f \in Errand
  <2>1. <<>> \in Seq(AiRow)
    BY EmptySeq
  <2>2. errands[c].nr + 1 \in Nat
    <3>1. PICK e \in Errand : e = errands[c]
      BY AiFacts
    <3>2. e.nr \in Nat
      BY DEF Errand
    <3> QED  BY <3>1, <3>2
  <2>3. 1 \in 1 .. MaxAttempts
    BY AiAssumption
  <2> QED  BY <1>1, <1>3, <2>1, <2>2, <2>3 DEF Errand
<1>5. CallerKeeps(vendor, f)
  <2>1. 1 \in 1 .. MaxAttempts
    BY AiAssumption
  <2> QED  BY <1>1, <1>3, <2>1, AiAssumption, FreshKeeps
<1>6. Turns(c, f)
  BY <1>1, <1>2, <1>4, <1>5, AiFacts DEF Turns, BeginErrand
<1> QED  BY <1>6, TurnKeeps

LEMMA HitStep ==
    ASSUME AiInv, NEW c \in Callers, RecordCacheHit(c)
    PROVE  AiInv'
<1>1. PICK row : row = StageUsage("summarize", TRUE, TRUE, 0)
  OBVIOUS
<1>2. PICK f : f =
         [pc |-> "closing", flow |-> "summary", todo |-> <<>>, nr |-> errands[c].nr + 1,
          attempt |-> 1, staged |-> <<row>>, heard |-> 0, last |-> 0, billed |-> 0,
          withheld |-> 0]
  OBVIOUS
<1>3. errands' = [errands EXCEPT ![c] = f]
  BY <1>1, <1>2 DEF RecordCacheHit
<1>4. "summarize" \in AiOperations
  <2>1. "summary" \in DOMAIN Flows /\ 1 \in DOMAIN Flows["summary"]
        /\ Flows["summary"][1] = "summarize"
    BY DEF Flows
  <2> QED  BY <2>1 DEF AiOperations
<1>5. /\ row \in AiRow /\ row.cached /\ row.prompt = 0 /\ row.cost = 0
      /\ PriceAt(vendor, row) = 0
  <2>1. PICK yes \in BOOLEAN : yes = TRUE
    OBVIOUS
  <2>2. PICK op \in AiOperations : op = "summarize"
    BY <1>4
  <2>3. row = StageUsage(op, yes, yes, 0)
    BY <1>1, <2>1, <2>2
  <2>4. AiAssumption /\ vendor \in Vendors
    BY AiFacts
  <2>5. /\ row \in AiRow /\ row.cached = yes /\ row.prompt = 0 /\ row.cost = 0
        /\ PriceAt(vendor, row) = 0
    BY <2>3, <2>4, StagedRow
  <2> QED  BY <2>1, <2>5
<1>6. f \in Errand
  <2>1. <<>> \in Seq(AiOperations) /\ <<row>> \in Seq(AiRow)
    BY <1>5, EmptySeq
  <2>2. errands[c].nr + 1 \in Nat
    <3>1. PICK e \in Errand : e = errands[c]
      BY AiFacts
    <3>2. e.nr \in Nat
      BY DEF Errand
    <3> QED  BY <3>1, <3>2
  <2>3. 1 \in 1 .. MaxAttempts /\ "summary" \in DOMAIN Flows
    BY AiAssumption DEF Flows
  <2> QED  BY <1>2, <2>1, <2>2, <2>3 DEF Errand
<1>7. CallerKeeps(vendor, f)
  <2>1. /\ f.flow = "summary" /\ f.todo = <<>> /\ f.pc = "closing" /\ f.staged = <<row>>
        /\ f.heard = 0 /\ f.billed = 0 /\ f.withheld = 0 /\ f.attempt = 1
    BY <1>2
  <2>2. AiAssumption /\ vendor \in {"anthropic", "groq"}
    BY AiFacts
  <2> QED  BY <1>5, <2>1, <2>2, HitKeeps
<1>8. Turns(c, f)
  BY <1>2, <1>3, <1>6, <1>7, AiFacts DEF Turns, RecordCacheHit
<1> QED  BY <1>8, TurnKeeps

LEMMA AskKeeps ==
    ASSUME AiInv, NEW c \in Callers, AskVendor(c)
    PROVE  AiInv'
<1> DEFINE s == Service(Head(errands[c].todo))
<1>1. s \in Services /\ errands[c].pc = "ready"
  BY DEF Service, Services, AskVendor
<1>2. CASE Kept(c, s) = 0 /\ s \notin keyed
  <2>1. Attempted(c, "permanent", 0, 0) /\ client' = [client EXCEPT ![c][s] = 0]
    BY <1>2 DEF AskVendor
  <2>2. PICK f \in Errand : /\ errands' = [errands EXCEPT ![c] = f]
                            /\ CallerKeeps(vendor, f) /\ f.pc # "asking"
                            /\ f.pc = "asleep" => f.last = 0
    BY <1>1, <2>1, AttemptedIs
  <2>3. client' \in [Callers -> [Services -> Nat]]
        /\ \A d \in Callers \ {c} : client'[d] = client[d]
    BY <1>1, <2>1, AiFacts
  <2>4. Turns(c, f)
    BY <2>2, <2>3, AiFacts DEF Turns, AskVendor
  <2> QED  BY <2>4, TurnKeeps
<1>3. CASE ~ (Kept(c, s) = 0 /\ s \notin keyed)
  <2>1. PICK e \in Errand : e = errands[c]
    BY AiFacts
  <2>2. PICK f : f = [e EXCEPT !.pc = "asking"]
    OBVIOUS
  <2>3. /\ f \in Errand /\ f.pc = "asking" /\ f.todo = e.todo /\ f.attempt = e.attempt
        /\ f.flow = e.flow /\ f.staged = e.staged /\ f.heard = e.heard /\ f.nr = e.nr
        /\ f.billed = e.billed /\ f.withheld = e.withheld
    BY <2>2 DEF Errand
  <2>4. PICK l \in Nat : l = LoopOf(c)
    BY AiFacts
  <2>5. errands' = [errands EXCEPT ![c] = f]
        /\ client' = [client EXCEPT ![c][s] = IF Kept(c, s) = 0 THEN l ELSE Kept(c, s)]
    BY <1>3, <2>1, <2>2, <2>4 DEF AskVendor
  <2>6. Kept(c, s) \in {0, l}
    BY <2>4 DEF Kept
  <2>7. client' = [client EXCEPT ![c][s] = l]
    BY <2>5, <2>6
  <2>8. /\ client' \in [Callers -> [Services -> Nat]]
        /\ \A d \in Callers \ {c} : client'[d] = client[d]
        /\ client'[c][s] = l
    BY <1>1, <2>7, AiFacts
  <2>9. CallerKeeps(vendor, f)
    <3>1. CallerKeeps(vendor, e) /\ AtItsCall(e)
      BY <2>1, AiFacts DEF CallerKeeps
    <3>2. AtItsCall(f)
      BY <1>1, <2>1, <2>3, <3>1, AiFacts DEF AtItsCall
    <3> QED  BY <2>3, <3>1, <3>2, PacedKeeps
  <2>10. client'[c][Service(Head(f.todo))] = IF c \in AiServers THEN 1 ELSE f.nr
    BY <2>1, <2>3, <2>4, <2>8 DEF LoopOf
  <2>11. Turns(c, f)
    BY <2>3, <2>5, <2>8, <2>9, <2>10, AiFacts DEF Turns, AskVendor
  <2> QED  BY <2>11, TurnKeeps
<1> QED  BY <1>2, <1>3

LEMMA HearKeeps ==
    ASSUME AiInv, NEW c \in Callers, Hear(c)
    PROVE  AiInv'
<1> DEFINE v == VendorOf(Head(errands[c].todo))
<1>1. errands[c].pc = "asking" /\ UNCHANGED <<vendor, keyed, client, ledger, broken>>
  BY DEF Hear
<1>2. v \in {"anthropic", "groq", "openai"}
  BY AiFacts DEF VendorOf
<1>3. PICK a \in Answers(v), size \in Sizes :
         Attempted(c, Classify(a), Charged(a, size), Reported(a, size))
  BY DEF Hear
<1>4. size \in Nat
  BY AiAssumption
<1>5. PICK kind : kind = Classify(a)
  OBVIOUS
<1>6. PICK charged \in Nat, reported \in Nat :
         /\ charged = Charged(a, size) /\ reported = Reported(a, size)
         /\ reported <= charged /\ (kind = "transient" => charged = 0)
  <2> HIDE DEF v
  <2> QED  BY <1>2, <1>4, <1>5, AnswersAre
<1>7. Attempted(c, kind, charged, reported)
  BY <1>3, <1>5, <1>6
<1>8. PICK f \in Errand : /\ errands' = [errands EXCEPT ![c] = f]
                          /\ CallerKeeps(vendor, f) /\ f.pc # "asking"
                          /\ f.pc = "asleep" => f.last = 0
  BY <1>1, <1>6, <1>7, AttemptedIs
<1>9. Turns(c, f)
  BY <1>1, <1>8, AiFacts DEF Turns
<1> QED  BY <1>9, TurnKeeps

LEMMA WakeKeeps ==
    ASSUME AiInv, NEW c \in Callers, Wake(c)
    PROVE  AiInv'
<1>1. PICK e \in Errand : e = errands[c]
  BY AiFacts
<1>2. e.pc = "asleep" /\ UNCHANGED <<vendor, keyed, client, ledger, broken>>
  BY <1>1 DEF Wake
<1>3. CallerKeeps(vendor, e) /\ AtItsCall(e)
  BY <1>1, AiFacts DEF CallerKeeps
<1>4. e.attempt \in Nat /\ e.attempt + 1 \in 1 .. MaxAttempts
  BY <1>2, <1>3, AiAssumption DEF AtItsCall, Errand
<1>5. PICK f : f = [e EXCEPT !.pc = "ready", !.attempt = e.attempt + 1]
  OBVIOUS
<1>6. errands' = [errands EXCEPT ![c] = f]
  BY <1>1, <1>5 DEF Wake
<1>7. /\ f \in Errand /\ f.pc = "ready" /\ f.todo = e.todo /\ f.attempt = e.attempt + 1
      /\ f.flow = e.flow /\ f.staged = e.staged /\ f.heard = e.heard
      /\ f.billed = e.billed /\ f.withheld = e.withheld
  BY <1>4, <1>5 DEF Errand
<1>8. AtItsCall(f)
  <2>1. PICK k : k = MaxAttempts * (Len(Flows[e.flow]) - Len(e.todo))
    OBVIOUS
  <2>2. k \in Int /\ e.heard \in Int
    <3>1. Len(Flows[e.flow]) \in Int /\ Len(e.todo) \in Int
      BY FlowsAre, LenProperties DEF Errand
    <3>2. MaxAttempts \in Int
      BY AiAssumption
    <3> QED  BY <2>1, <3>1, <3>2 DEF Errand
  <2>3. e.heard <= k + e.attempt - 0
    BY <1>2, <1>3, <2>1 DEF AtItsCall
  <2>4. e.heard <= k + (e.attempt + 1) - 1
    BY <1>4, <2>2, <2>3
  <2>5. f.todo # <<>> /\ Len(f.todo) <= Len(Flows[f.flow])
    BY <1>2, <1>3, <1>7 DEF AtItsCall
  <2> QED  BY <1>7, <2>1, <2>4, <2>5 DEF AtItsCall
<1>9. CallerKeeps(vendor, f)
  BY <1>3, <1>7, <1>8, PacedKeeps
<1>10. Turns(c, f)
  BY <1>2, <1>6, <1>7, <1>9, AiFacts DEF Turns
<1> QED  BY <1>10, TurnKeeps

LEMMA NothingNearKeeps ==
    ASSUME AiInv, NEW c \in Callers, NothingNear(c)
    PROVE  AiInv'
<1>1. PICK e \in Errand : e = errands[c]
  BY AiFacts
<1>2. /\ e.pc = "ready" /\ Len(e.todo) = 1 /\ e.attempt = 1
      /\ UNCHANGED <<vendor, keyed, client, ledger, broken>>
  BY <1>1 DEF NothingNear
<1>3. CallerKeeps(vendor, e) /\ AtItsCall(e) /\ RowsAddUp(e)
  BY <1>1, AiFacts DEF CallerKeeps
<1>4. PICK f : f = [e EXCEPT !.todo = <<>>, !.pc = "closing"]
  OBVIOUS
<1>5. errands' = [errands EXCEPT ![c] = f]
  BY <1>1, <1>4 DEF NothingNear
<1>6. <<>> \in Seq(AiOperations) /\ Len(<<>>) = 0
  BY EmptySeq
<1>7. /\ f \in Errand /\ f.pc = "closing" /\ f.todo = <<>> /\ f.attempt = 1
      /\ f.flow = e.flow /\ f.staged = e.staged /\ f.heard = e.heard
      /\ f.billed = e.billed /\ f.withheld = e.withheld
  BY <1>2, <1>4, <1>6 DEF Errand
<1>8. PICK length \in {1, 2} : length = Len(Flows[e.flow])
  BY FlowsAre DEF Errand
<1>9. PICK m \in Nat, h \in Nat : m = MaxAttempts /\ h = e.heard
  BY AiAssumption DEF Errand
<1>10. h <= m * (length - 1) + 1 - 1
  BY <1>2, <1>3, <1>8, <1>9 DEF AtItsCall
<1>11. h <= m * (length - 0) + 1 - 1 /\ h <= m * length
  <2>1. m * 0 = 0 /\ m * 1 = m /\ m * 2 = m + m
    OBVIOUS
  <2>2. PICK k \in {0, 1} : k = length - 1
    OBVIOUS
  <2>3. h <= m * k
    BY <1>10, <2>2
  <2>4. length = k + 1 /\ length - 0 = length
    BY <2>2
  <2>5. h <= m * length
    BY <2>1, <2>3, <2>4
  <2> QED  BY <2>4, <2>5
<1>12. AtItsCall(f)
  BY <1>6, <1>7, <1>8, <1>9, <1>11 DEF AtItsCall
<1>13. RowsAddUp(f)
  <2>1. PICK x \in Nat : x = Cardinality(Successes(e.staged))
    <3>1. e.staged \in Seq(AiRow)
      BY DEF Errand
    <3>2. PICK n \in Nat : n = Len(e.staged) /\ DOMAIN e.staged = 1 .. n
      BY <3>1, RowsAre
    <3>3. Successes(e.staged) \in SUBSET (1 .. n) /\ IsFiniteSet(1 .. n)
      BY <3>2, FS_Interval DEF Successes, AttemptsIn
    <3> QED  BY <3>3, FS_Subset, FS_CardinalityType
  <2>2. x + 1 <= length
    BY <1>2, <1>3, <1>8, <2>1 DEF RowsAddUp, Successes
  <2>3. x + 0 <= length
    BY <2>2
  <2> QED  BY <1>3, <1>6, <1>7, <1>8, <2>1, <2>3 DEF RowsAddUp, Successes
<1>14. CallerKeeps(vendor, f)
  BY <1>3, <1>7, <1>12, <1>13 DEF CallerKeeps
<1>15. Turns(c, f)
  BY <1>2, <1>5, <1>7, <1>14, AiFacts DEF Turns
<1> QED  BY <1>15, TurnKeeps

\* The errand, or an operation of it, is through and what it staged is let go.
LEMMA ThroughKeeps ==
    ASSUME AiInv, NEW c \in Callers, NEW e \in Errand, Len(e.todo) <= Len(Flows[e.flow]),
           errands' = [errands EXCEPT ![c] = Through(e)],
           client' = client, vendor' = vendor, keyed' = keyed, broken' \in Nat,
           ledger' \in [calls : Nat, failed : Nat, cached : Nat, micros : Nat, exact : Nat],
           Stray(ledger'.micros, ledger'.exact, ledger'.calls - ledger'.cached)
    PROVE  AiInv'
<1>1. PICK f : f = Through(e)
  OBVIOUS
<1>2. <<>> \in Seq(AiRow)
  BY EmptySeq
<1>3. /\ f \in Errand /\ f.flow = e.flow /\ f.todo = e.todo /\ f.staged = <<>>
      /\ f.heard = 0 /\ f.billed = 0 /\ f.withheld = 0 /\ f.attempt = e.attempt
      /\ f.pc = IF e.todo = <<>> THEN "idle" ELSE "ready"
  BY <1>1, <1>2 DEF Through, Errand
<1>4. /\ e.flow \in DOMAIN Flows /\ e.todo \in Seq(AiOperations)
      /\ e.attempt \in 1 .. MaxAttempts
  BY DEF Errand
<1>5. CallerKeeps(vendor, f)
  BY <1>3, <1>4, AiAssumption, FreshKeeps
<1>6. Turns(c, f)
  BY <1>1, <1>3, <1>5, AiFacts DEF Turns
<1> QED  BY <1>6, TurnKeeps

\* Its list of calls is no longer than its flow.
LEMMA TodoFits ==
    ASSUME AiInv, NEW c \in Callers
    PROVE  Len(errands[c].todo) <= Len(Flows[errands[c].flow])
  BY AiFacts DEF CallerKeeps, AtItsCall

\* The sums over rows are numbers, and the rows are those of attempts and those of
\* stored summaries.
LEMMA TotalsAre ==
    ASSUME AiInv, NEW rows \in Seq(AiRow)
    PROVE  /\ TotalOf(rows) \in [calls : Nat, failed : Nat, cached : Nat,
                                 micros : Nat, exact : Nat]
           /\ TotalOf(rows).calls = TotalOf(rows).cached + Cardinality(AttemptsIn(rows))
           /\ Cardinality(AttemptsIn(rows)) \in Nat
           /\ TotalOf(rows).micros = SumOf(Costs(rows))
           /\ TotalOf(rows).exact = SumOf(Prices(vendor, rows))
<1>1. PICK n \in Nat : n = Len(rows) /\ DOMAIN rows = 1 .. n
  BY RowsAre
<1>2. PICK all : all = 1 .. n
  OBVIOUS
<1>3. IsFiniteSet(all) /\ Cardinality(all) = n
  BY <1>2, FS_Interval
<1>4. \A T \in SUBSET all : IsFiniteSet(T)
  BY <1>3, FS_Subset
<1>5. \A T \in SUBSET all : Cardinality(T) \in Nat
  BY <1>4, FS_CardinalityType
<1>6. PICK bad, hits, tries : /\ bad = {i \in DOMAIN rows : ~ rows[i].ok}
                              /\ hits = {i \in DOMAIN rows : rows[i].cached}
                              /\ tries = AttemptsIn(rows)
  OBVIOUS
<1>7. /\ bad \in SUBSET all /\ hits \in SUBSET all /\ tries \in SUBSET all
      /\ hits \cup tries = all /\ hits \cap tries = {}
  BY <1>1, <1>2, <1>6 DEF AttemptsIn
<1>8. n = Cardinality(hits) + Cardinality(tries)
  <2>1. Cardinality(hits \cup tries)
          = Cardinality(hits) + Cardinality(tries) - Cardinality(hits \cap tries)
    BY <1>4, <1>7, FS_Union
  <2>2. Cardinality(hits \cap tries) = 0
    BY <1>7, FS_EmptySet
  <2>3. Cardinality(hits \cup tries) = n
    BY <1>3, <1>7
  <2>4. Cardinality(hits) \in Nat /\ Cardinality(tries) \in Nat
    BY <1>5, <1>7
  <2> QED  BY <2>1, <2>2, <2>3, <2>4
<1>9. PICK micros, exact : micros = SumOf(Costs(rows)) /\ exact = SumOf(Prices(vendor, rows))
  OBVIOUS
<1>10. micros \in Nat /\ exact \in Nat
  <2>1. "embed" \in AiOperations
    <3>1. "ingestion" \in DOMAIN Flows /\ 1 \in DOMAIN Flows["ingestion"]
          /\ Flows["ingestion"][1] = "embed"
      BY DEF Flows
    <3> QED  BY <3>1 DEF AiOperations
  <2>2. PICK row \in AiRow : TRUE
    <3>1. [operation |-> "embed", ok |-> TRUE, cached |-> FALSE, prompt |-> 0,
           completion |-> 0, cost |-> 0] \in AiRow
      BY <2>1 DEF AiRow
    <3> QED  BY <3>1
  <2>3. vendor \in {"anthropic", "groq"}
    BY AiInvIs, AiAssumption DEF AiParts, AiTypeOK
  <2>4. PICK more : more = Append(rows, row)
    OBVIOUS
  <2> QED  BY <1>9, <2>3, <2>4, RowsGrow
<1>11. TotalOf(rows) = [calls |-> n, failed |-> Cardinality(bad),
                        cached |-> Cardinality(hits), micros |-> micros, exact |-> exact]
  BY <1>1, <1>6, <1>9 DEF TotalOf, Costs, Prices, PriceAt, ExactOf, VendorOf
<1> QED
  BY <1>5, <1>6, <1>7, <1>8, <1>9, <1>10, <1>11

LEMMA LedgerKeeps ==
    ASSUME AiInv, NEW c \in Callers, CommitErrand(c)
    PROVE  AiInv'
<1>1. PICK e \in Errand : e = errands[c] /\ CallerKeeps(vendor, e)
  BY AiFacts
<1>2. PICK total : total = TotalOf(e.staged)
  OBVIOUS
<1>3. PICK tries \in Nat : tries = Cardinality(AttemptsIn(e.staged))
  BY TotalsAre DEF Errand
<1>4. /\ total \in [calls : Nat, failed : Nat, cached : Nat, micros : Nat, exact : Nat]
      /\ total.calls = total.cached + tries
      /\ total.micros = SumOf(Costs(e.staged))
      /\ total.exact = SumOf(Prices(vendor, e.staged))
  BY <1>2, <1>3, TotalsAre DEF Errand
<1>5. Stray(total.micros, total.exact, tries)
  BY <1>1, <1>3, <1>4 DEF CallerKeeps, RowsAddUp
<1>6. ledger' = Plus(ledger, total)
  BY <1>1, <1>2 DEF CommitErrand
<1>7. /\ ledger \in [calls : Nat, failed : Nat, cached : Nat, micros : Nat, exact : Nat]
      /\ Stray(ledger.micros, ledger.exact, ledger.calls - ledger.cached)
  BY AiFacts
<1>8. /\ ledger' \in [calls : Nat, failed : Nat, cached : Nat, micros : Nat, exact : Nat]
      /\ ledger'.micros = ledger.micros + total.micros
      /\ ledger'.exact = ledger.exact + total.exact
      /\ ledger'.calls = ledger.calls + total.calls
      /\ ledger'.cached = ledger.cached + total.cached
  BY <1>4, <1>6, <1>7 DEF Plus
<1>9. Stray(ledger'.micros, ledger'.exact, ledger'.calls - ledger'.cached)
  <2>1. PICK a \in Nat, b \in Nat, i \in Nat, j \in Nat :
           a = ledger.micros /\ b = ledger.exact /\ i = ledger.calls /\ j = ledger.cached
    BY <1>7
  <2>2. PICK x \in Nat, y \in Nat, h \in Nat :
           x = total.micros /\ y = total.exact /\ h = total.cached
    BY <1>4
  <2>3. Stray(a, b, i - j) /\ Stray(x, y, tries)
    BY <1>5, <1>7, <2>1, <2>2
  <2>4. Stray(a + x, b + y, (i + (h + tries)) - (j + h))
    BY <2>3 DEF Stray
  <2> QED  BY <1>4, <1>8, <2>1, <2>2, <2>4
<1>10. Len(e.todo) <= Len(Flows[e.flow])
  BY <1>1, TodoFits
<1>11. errands' = [errands EXCEPT ![c] = Through(e)]
       /\ UNCHANGED <<vendor, keyed, broken, client>>
  BY <1>1 DEF CommitErrand
<1>12. broken' \in Nat
  BY <1>11, AiFacts
<1> QED
  BY <1>8, <1>9, <1>10, <1>11, <1>12, ThroughKeeps

LEMMA RespondKeeps ==
    ASSUME AiInv, NEW c \in Callers, Respond(c)
    PROVE  AiInv'
<1>1. PICK e \in Errand : e = errands[c]
  BY AiFacts
<1>2. errands' = [errands EXCEPT ![c] = Through(e)]
      /\ UNCHANGED <<vendor, keyed, broken, client, ledger>>
  BY <1>1 DEF Respond
<1>3. Len(e.todo) <= Len(Flows[e.flow])
  BY <1>1, TodoFits
<1> QED
  BY <1>2, <1>3, AiFacts, ThroughKeeps

LEMMA AbandonKeeps ==
    ASSUME AiInv, NEW c \in Callers, AbandonErrand(c)
    PROVE  AiInv'
<1>1. errands[c] \in Errand /\ broken \in Nat
  BY AiFacts
<1>2. <<>> \in Seq(AiOperations) /\ Len(<<>>) = 0
  BY EmptySeq
<1>3. PICK e : e = [errands[c] EXCEPT !.todo = <<>>]
  OBVIOUS
<1>4. e \in Errand /\ e.todo = <<>> /\ e.flow \in DOMAIN Flows
  BY <1>1, <1>2, <1>3 DEF Errand
<1>5. errands' = [errands EXCEPT ![c] = Through(e)] /\ broken' \in Nat
      /\ UNCHANGED <<vendor, keyed, client, ledger>>
  BY <1>1, <1>3 DEF AbandonErrand
<1>6. Len(e.todo) <= Len(Flows[e.flow])
  BY <1>2, <1>4, FlowsAre
<1> QED
  BY <1>4, <1>5, <1>6, AiFacts, ThroughKeeps

LEMMA AiBegins == AiInit => AiInv
<1> SUFFICES ASSUME AiInit PROVE AiInv
  OBVIOUS
<1>1. PICK e : e = [pc |-> "idle", flow |-> "question", todo |-> <<>>, nr |-> 0,
                    attempt |-> 1, staged |-> <<>>, heard |-> 0, last |-> 0, billed |-> 0,
                    withheld |-> 0]
  OBVIOUS
<1>2. errands = [c \in Callers |-> e]
  BY <1>1 DEF AiInit
<1>3. <<>> \in Seq(AiOperations) /\ <<>> \in Seq(AiRow) /\ Len(<<>>) = 0
  BY EmptySeq
<1>4. 1 \in 1 .. MaxAttempts /\ "question" \in DOMAIN Flows
  BY AiAssumption DEF Flows
<1>5. e \in Errand /\ e.pc = "idle"
  BY <1>1, <1>3, <1>4 DEF Errand
<1>6. CallerKeeps(vendor, e)
  <2>1. Len(e.todo) <= Len(Flows[e.flow])
    BY <1>1, <1>3, <1>4, FlowsAre
  <2>2. /\ e.flow \in DOMAIN Flows /\ e.todo \in Seq(AiOperations) /\ e.staged = <<>>
        /\ e.heard = 0 /\ e.billed = 0 /\ e.withheld = 0 /\ e.attempt \in 1 .. MaxAttempts
    BY <1>1, <1>3, <1>4
  <2> QED  BY <1>5, <2>1, <2>2, AiAssumption, FreshKeeps
<1>7. AiTypeOK
  BY <1>2, <1>5 DEF AiTypeOK, AiInit
<1>8. ClientOnItsLoop /\ NothingBilledIsAskedAgain
  BY <1>2, <1>5 DEF ClientOnItsLoop, NothingBilledIsAskedAgain
<1>9. Stray(ledger.micros, ledger.exact, ledger.calls - ledger.cached)
  BY DEF AiInit, Stray
<1> QED
  BY <1>2, <1>6, <1>7, <1>8, <1>9, AiInvIs DEF AiParts

LEMMA AiStep == AiInv /\ [AiNext]_aiVars => AiInv'
<1> SUFFICES ASSUME AiInv, [AiNext]_aiVars PROVE AiInv'
  OBVIOUS
<1>1. CASE UNCHANGED aiVars
  <2>1. AiParts'
    BY <1>1, AiInvIs DEF AiParts, AiTypeOK, ClientOnItsLoop, NothingBilledIsAskedAgain,
       LoopOf, aiVars
  <2>2. (AiParts => AiInv)'
    BY AiInvIs, PTL
  <2> QED  BY <2>1, <2>2
<1>2. ASSUME NEW c \in Callers, NEW flow \in DOMAIN Flows, BeginErrand(c, flow)
      PROVE  AiInv'
  BY <1>2, BeginKeeps
<1>3. ASSUME NEW c \in Callers,
             \/ RecordCacheHit(c) \/ AskVendor(c) \/ Hear(c) \/ Wake(c) \/ NothingNear(c)
             \/ CommitErrand(c) \/ Respond(c) \/ AbandonErrand(c)
      PROVE  AiInv'
  BY <1>3, HitStep, AskKeeps, HearKeeps, WakeKeeps, NothingNearKeeps, LedgerKeeps,
     RespondKeeps, AbandonKeeps
<1> QED
  BY <1>1, <1>2, <1>3 DEF AiNext

\* The ledger and what is staged for it (AiInv): a row for every attempt that was
\* heard, every token charged in a row but those of withheld answers, the price
\* within half a unit per call of the exact one, no call on a client of another
\* loop, no repetition of what was charged, and no more attempts than AI_MAX_ATTEMPTS
\* allows per call.
THEOREM LedgerAddsUp == AiSpec => []AiInv
  BY AiBegins, AiStep, PTL DEF AiSpec

-----------------------------------------------------------------------------
\* The stored summaries.

\* The types are inductive.
LEMMA TypeStep == TypeOK /\ [Next]_vars => TypeOK'
<1> SUFFICES ASSUME TypeOK, [Next]_vars PROVE TypeOK'
  OBVIOUS
<1> USE DEF TypeOK
<1>1. ASSUME NEW m \in Messages, Begin(m) \/ Land(m) PROVE TypeOK'
  BY <1>1 DEF Begin, Land, Post
<1>2. ASSUME NEW r \in Requests, Ask(r) \/ Look(r) \/ Mark(r) PROVE TypeOK'
  <2>1. /\ calls[r] \in Call /\ NoCall \in Call /\ Committed \in SUBSET Messages
    BY DEF NoCall, Call, Committed
  <2>2. [pc |-> "began", at |-> clock + 1, seen |-> {}] \in Call
    BY DEF Call
  <2>3. /\ [calls[r] EXCEPT !.pc = "looked"] \in Call
        /\ [calls[r] EXCEPT !.pc = "marked", !.seen = Committed] \in Call
    BY <2>1 DEF Call
  <2>4. CASE Ask(r)
    BY <2>2, <2>4 DEF Ask
  <2>5. CASE Look(r)
    BY <2>1, <2>3, <2>5 DEF Look
  <2>6. CASE Mark(r)
    <3>1. CASE Committed = {}
      BY <2>1, <2>6, <3>1 DEF Mark
    <3>2. CASE Committed # {}
      <4>1. calls' = [calls EXCEPT ![r] = [calls[r] EXCEPT !.pc = "marked",
                                                           !.seen = Committed]]
        BY <2>6, <3>2 DEF Mark
      <4> QED
        BY <2>3, <2>6, <4>1 DEF Mark
    <3> QED
      BY <3>1, <3>2
  <2> QED
    BY <1>2, <2>4, <2>5, <2>6
<1>3. ASSUME NEW r \in Requests, NEW s \in Summaries, Serve(r, s) \/ Write(r, s)
      PROVE  TypeOK'
  <2>1. NoCall \in Call /\ calls[r].at \in Nat
    BY DEF NoCall, Call
  <2>2. [status |-> "pending", at |-> calls[r].at, covers |-> {}, missed |-> {}]
           \in Summary
    BY <2>1 DEF Summary
  <2> QED
    BY <1>3, <2>1, <2>2 DEF Serve, Write
<1>4. ASSUME NEW s \in Summaries, Load(s) PROVE TypeOK'
  <2> DEFINE open == {m \in Messages : posts[m].pc = "open"}
  <2>1. sums[s] \in Summary /\ Committed \in SUBSET Messages
        /\ open \in SUBSET Messages
    BY DEF Committed
  <2>2. [sums[s] EXCEPT !.status = "loaded", !.covers = Committed,
                        !.missed = open] \in Summary
    BY <2>1 DEF Summary
  <2>3. sums' = [sums EXCEPT ![s] =
           [sums[s] EXCEPT !.status = "loaded", !.covers = Committed,
                           !.missed = open]]
    BY <1>4 DEF Load
  <2> QED
    BY <1>4, <2>2, <2>3 DEF Load
<1>5. ASSUME NEW s \in Summaries, NEW o \in {"completed", "failed"}, Finish(s, o)
      PROVE  TypeOK'
  BY <1>5 DEF Finish, Summary
<1>6. CASE UNCHANGED vars
  BY <1>6 DEF vars
<1> QED
  BY <1>1, <1>2, <1>3, <1>4, <1>5, <1>6 DEF Next

\* A served summary's row is older than every message it could not have read.
LEMMA ServeLemma ==
    ASSUME TypeOK, FreshInv, NEW r \in Requests, NEW s \in Summaries, Serve(r, s)
    PROVE  calls[r].seen \ sums[s].covers \subseteq sums[s].missed
<1> SUFFICES ASSUME NEW m \in calls[r].seen,
                    m \notin sums[s].covers, m \notin sums[s].missed
             PROVE  FALSE
  OBVIOUS
<1>1. m \in Messages /\ posts[m].pc = "committed"
  BY DEF FreshInv, Committed
<1>2. posts[m].at > sums[s].at
  BY <1>1 DEF FreshInv, Serve, Stored
<1>3. posts[m].at <= sums[s].at
  BY DEF Serve, Current
<1>4. posts[m].at \in Nat /\ sums[s].at \in Nat
  BY <1>1 DEF TypeOK, Post, Summary
<1> QED
  BY <1>2, <1>3, <1>4

\* Timestamps only grow, and a worker sees every message that has committed
\* and knows of every one that is open.
LEMMA FreshStep ==
    ASSUME TypeOK, FreshInv, [Next]_vars
    PROVE  FreshInv'
<1> DEFINE Timely(s, m) ==
             /\ sums[s].status \in {"loaded", "completed", "failed"}
             /\ m \notin sums[s].covers \cup sums[s].missed
             => posts[m].pc = "none" \/ posts[m].at > sums[s].at
<1>0. /\ clock \in Nat
      /\ \A m \in Messages : posts[m].at \in Nat
                             /\ posts[m].pc \in {"none", "open", "committed"}
      /\ \A s \in Summaries : sums[s].at \in Nat /\ sums[s].at <= clock
      /\ \A r \in Requests : calls[r].at \in Nat /\ calls[r].at <= clock
                             /\ calls[r].seen \subseteq Committed
      /\ \A s \in Summaries, m \in Messages : Timely(s, m)
  BY DEF TypeOK, FreshInv, Post, Summary, Call
<1>1. ASSUME NEW m \in Messages, Begin(m) PROVE FreshInv'
  <2>1. /\ clock' = clock + 1 /\ posts'[m].at = clock + 1 /\ posts'[m].pc = "open"
        /\ \A n \in Messages \ {m} : posts'[n] = posts[n]
        /\ posts[m].pc = "none" /\ UNCHANGED <<sums, calls>>
    BY <1>1 DEF Begin, TypeOK
  <2>2. Committed' = Committed
    BY <2>1 DEF Committed
  <2> QED
    BY <1>0, <2>1, <2>2 DEF FreshInv
<1>2. ASSUME NEW m \in Messages, Land(m) PROVE FreshInv'
  <2>1. /\ posts[m].pc = "open" /\ posts'[m].pc = "committed"
        /\ \A n \in Messages : posts'[n].at = posts[n].at
        /\ \A n \in Messages \ {m} : posts'[n] = posts[n]
        /\ UNCHANGED <<clock, sums, calls>>
    BY <1>2 DEF Land, TypeOK, Post
  <2>2. Committed \subseteq Committed'
    BY <2>1 DEF Committed
  <2> QED
    BY <1>0, <2>1, <2>2 DEF FreshInv
<1>3. ASSUME NEW r \in Requests, Ask(r) PROVE FreshInv'
  <2>1. /\ clock' = clock + 1 /\ UNCHANGED <<posts, sums>>
        /\ calls'[r].at = clock + 1 /\ calls'[r].seen = {}
        /\ \A q \in Requests \ {r} : calls'[q] = calls[q]
    BY <1>3 DEF Ask, TypeOK
  <2>2. Committed' = Committed
    BY <2>1 DEF Committed
  <2> QED
    BY <1>0, <2>1, <2>2 DEF FreshInv
<1>4. ASSUME NEW r \in Requests, Look(r) \/ Mark(r) PROVE FreshInv'
  <2>1. /\ UNCHANGED <<clock, posts, sums>>
        /\ calls'[r].at \in {0, calls[r].at}
        /\ calls'[r].seen \in {{}, calls[r].seen, Committed}
        /\ \A q \in Requests \ {r} : calls'[q] = calls[q]
    BY <1>4 DEF Look, Mark, TypeOK, Call, NoCall
  <2>2. Committed' = Committed
    BY <2>1 DEF Committed
  <2> QED
    BY <1>0, <2>1, <2>2 DEF FreshInv
<1>5. ASSUME NEW r \in Requests, NEW s \in Summaries, Serve(r, s) \/ Write(r, s)
      PROVE  FreshInv'
  <2>1. /\ UNCHANGED <<clock, posts>>
        /\ calls'[r].at = 0 /\ calls'[r].seen = {}
        /\ \A q \in Requests \ {r} : calls'[q] = calls[q]
    BY <1>5 DEF Serve, Write, TypeOK, NoCall
  <2>2. /\ \A t \in Summaries \ {s} : sums'[t] = sums[t]
        /\ \/ sums'[s] = sums[s]
           \/ sums'[s].status = "pending" /\ sums'[s].at = calls[r].at
    BY <1>5 DEF Serve, Write, TypeOK
  <2>3. Committed' = Committed
    BY <2>1 DEF Committed
  <2> QED
    BY <1>0, <2>1, <2>2, <2>3 DEF FreshInv
<1>6. ASSUME NEW s \in Summaries, Load(s) PROVE FreshInv'
  <2>1. /\ UNCHANGED <<clock, posts, calls>>
        /\ sums'[s].at = sums[s].at /\ sums'[s].covers = Committed
        /\ sums'[s].missed = {m \in Messages : posts[m].pc = "open"}
        /\ \A t \in Summaries \ {s} : sums'[t] = sums[t]
    BY <1>6 DEF Load, TypeOK, Summary
  <2>2. Committed' = Committed
    BY <2>1 DEF Committed
  <2>3. \A m \in Messages : m \notin sums'[s].covers \cup sums'[s].missed
                              => posts'[m].pc = "none"
    BY <1>0, <2>1 DEF Committed
  <2> QED
    BY <1>0, <2>1, <2>2, <2>3 DEF FreshInv
<1>7. ASSUME NEW s \in Summaries, NEW o \in {"completed", "failed"}, Finish(s, o)
      PROVE  FreshInv'
  <2>1. /\ UNCHANGED <<clock, posts, calls>> /\ sums[s].status = "loaded"
        /\ sums'[s].at = sums[s].at /\ sums'[s].covers = sums[s].covers
        /\ sums'[s].missed = sums[s].missed
        /\ \A t \in Summaries \ {s} : sums'[t] = sums[t]
    BY <1>7 DEF Finish, TypeOK, Summary
  <2>2. Committed' = Committed
    BY <2>1 DEF Committed
  <2> QED
    BY <1>0, <2>1, <2>2 DEF FreshInv
<1>8. CASE UNCHANGED vars
  BY <1>8 DEF vars, FreshInv, Committed
<1> QED
  BY <1>1, <1>2, <1>3, <1>4, <1>5, <1>6, <1>7, <1>8 DEF Next

\* Types and timestamps, in every reachable state.
THEOREM Timestamps == Spec => [](TypeOK /\ FreshInv)
<1>1. Init => TypeOK /\ FreshInv
  <2> SUFFICES ASSUME Init PROVE TypeOK /\ FreshInv
    OBVIOUS
  <2>1. TypeOK
    BY DEF Init, TypeOK, Post, Summary, Call, NoCall
  <2>2. FreshInv
    BY DEF Init, FreshInv, NoCall, Committed
  <2> QED
    BY <2>1, <2>2
<1>2. TypeOK /\ FreshInv /\ [Next]_vars => (TypeOK /\ FreshInv)'
  BY TypeStep, FreshStep
<1> QED
  BY <1>1, <1>2, PTL DEF Spec

\* A served summary misses only messages that were being committed while the
\* worker read the conversation.
THEOREM ServedSummary == Spec => ServedMissesOnlyOpen
<1> DEFINE Step == \A r \in Requests, s \in Summaries :
              Serve(r, s) => calls[r].seen \ sums[s].covers \subseteq sums[s].missed
<1>1. TypeOK /\ FreshInv => Step
  BY ServeLemma
<1>2. [](TypeOK /\ FreshInv) => [][Step]_vars
  BY <1>1, PTL
<1> QED
  BY <1>2, Timestamps, PTL DEF ServedMissesOnlyOpen

-----------------------------------------------------------------------------
\* The cached aggregates.

\* What an aggregate and the mark of a missing one are.
LEMMA AggregateTypes ==
    /\ \A e \in Aggregate \cup {NoAggregate} :
          e.totals \in 0 .. MaxCommits + 1 /\ e.volume \in 0 .. MaxCommits + 1
    /\ NoAggregate \notin Aggregate
    /\ NoAggregate.totals = MaxCommits + 1 /\ NoAggregate.volume = MaxCommits + 1
  BY CacheAssumption DEF Aggregate, NoAggregate, Figure

\* The types of the parts of the state.
LEMMA CacheTypes ==
    ASSUME CacheInv
    PROVE  /\ MaxCommits \in Nat /\ MaxFailures \in Nat
           /\ figures \in [Scopes -> 0 .. MaxCommits]
           /\ settled \in [Scopes -> 0 .. MaxCommits]
           /\ version \in 0 .. MaxCommits /\ unmoved \in 0 .. MaxCommits
           /\ failures \in 0 .. MaxFailures
           /\ \A s \in Scopes, n \in Versions :
                 /\ entries[<<s, n>>] \in Aggregate \cup {NoAggregate}
                 /\ entries[<<s, n>>].totals \in 0 .. MaxCommits + 1
                 /\ entries[<<s, n>>].volume \in 0 .. MaxCommits + 1
           /\ \A r \in Viewers :
                 /\ viewers[r] \in Viewer /\ viewers[r].scope \in Scopes
                 /\ viewers[r].key \in 0 .. MaxCommits /\ viewers[r].floor \in 0 .. MaxCommits
                 /\ viewers[r].value \in Aggregate
                 /\ viewers[r].value.totals \in 0 .. MaxCommits
                 /\ viewers[r].value.volume \in 0 .. MaxCommits
  BY CacheAssumption, AggregateTypes
     DEF CacheInv, CacheTypeOK, Figure, Versions, Viewer, Aggregate

\* A failure of Redis is counted.
LEMMA FailsTypes ==
    ASSUME CacheInv, UNCHANGED failures \/ \E call \in MayFail : Fails(call)
    PROVE  failures' \in 0 .. MaxFailures
  BY CacheTypes DEF Fails

\* The initial state.
LEMMA CacheBegins == CacheInit => CacheInv
<1> SUFFICES ASSUME CacheInit PROVE CacheInv
  OBVIOUS
<1>1. NoViewer \in Viewer /\ NoWriter \in Writer /\ NoViewer.pc = "idle"
      /\ NoWriter.pc = "idle"
  BY CacheAssumption DEF NoViewer, Viewer, Versions, Aggregate, Figure, NoWriter, Writer
<1>2. CacheTypeOK
  BY <1>1, CacheAssumption DEF CacheInit, CacheTypeOK, Figure, Versions
<1>3. /\ \A r \in Viewers : viewers[r].pc = "idle"
      /\ \A w \in Writers : writers[w].pc = "idle"
      /\ \A s \in Scopes : entries[<<s, version>>] = NoAggregate
      /\ \A s \in Scopes : settled[s] = 0
      /\ \A s \in Scopes : figures[s] = 0
      /\ \A k \in Scopes \X Versions : entries[k] = NoAggregate
      /\ version = 0 /\ unmoved = 0 /\ figures[Everything] = 0
  BY <1>1, CacheAssumption DEF CacheInit, Versions
<1>4. CommitsAddUp
  <2>1. Committing = {}
    BY <1>3 DEF Committing
  <2>2. IsFiniteSet(Committing) /\ Cardinality(Committing) = 0
    BY <2>1, FS_EmptySet
  <2>3. version + unmoved + Cardinality(Committing) = figures[Everything]
    BY <1>3, <2>2
  <2>4. \A s \in Scopes : settled[s] <= figures[s] /\ figures[s] <= figures[Everything]
    BY <1>3
  <2>5. \A w \in Committing, s \in Scopes : writers[w].touched[s] <= figures[s]
    BY <2>1
  <2> QED
    BY <2>2, <2>3, <2>4, <2>5 DEF CommitsAddUp
<1>5. \A s \in Scopes : AtLeast(entries[<<s, version>>], settled[s])
  <2>1. AtLeast(NoAggregate, 0)
    BY AggregateTypes, CacheAssumption DEF AtLeast
  <2> QED
    BY <1>3, <2>1
<1>6. ServedIsSettled /\ CurrentEntriesAreTrue /\ FloorsAgree
  BY <1>3 DEF ServedIsSettled, CurrentEntriesAreTrue, FloorsAgree
<1> QED
  BY <1>2, <1>3, <1>4, <1>5, <1>6 DEF CacheInv

\* A step of one request that leaves the entries alone, to a request that keeps
\* what a request has to.
LEMMA ViewerMoves ==
    ASSUME CacheInv, NEW r \in Viewers, NEW new \in Viewer,
           viewers' = [viewers EXCEPT ![r] = new],
           UNCHANGED <<figures, settled, version, entries, writers, unmoved>>,
           failures' \in 0 .. MaxFailures,
           new.pc # "idle" => RequestKeeps(new),
           new.pc = "serve" /\ Certain(new.key) => AtLeast(new.value, new.floor),
           new.pc # "idle" /\ Certain(new.key) =>
              \A q \in Viewers \ {r} :
                 viewers[q].pc # "idle" /\ viewers[q].scope = new.scope
                 /\ viewers[q].key = new.key => viewers[q].floor = new.floor
    PROVE  CacheInv'
<1>1. /\ viewers' \in [Viewers -> Viewer] /\ viewers'[r] = new
      /\ \A q \in Viewers \ {r} : viewers'[q] = viewers[q]
  BY DEF CacheInv, CacheTypeOK
<1>2. CacheTypeOK'
  BY <1>1 DEF CacheInv, CacheTypeOK
<1>3. ServedIsSettled'
  BY <1>1 DEF CacheInv, ServedIsSettled
<1>4. CurrentEntriesAreTrue' /\ CommitsAddUp'
  BY DEF CacheInv, CurrentEntriesAreTrue, CommitsAddUp, Committing, Unsettled
<1>5. FloorsAgree'
  BY <1>1 DEF CacheInv, FloorsAgree
<1>6. \A q \in Viewers : viewers'[q].pc # "idle" => RequestKeeps(viewers[q])'
  BY <1>1 DEF CacheInv, RequestKeeps, Unsettled
<1> QED
  BY <1>2, <1>3, <1>4, <1>5, <1>6 DEF CacheInv

\* What an idle request begins with.
LEMMA KeyForKeeps ==
    ASSUME CacheInv, NEW r \in Viewers, NEW scope \in Scopes, KeyFor(r, scope)
    PROVE  CacheInv'
<1>1. PICK key \in Versions :
         /\ \/ key = version /\ UNCHANGED failures
            \/ key = 0 /\ Fails("version")
         /\ viewers' = [viewers EXCEPT ![r] =
               [@ EXCEPT !.pc = "keyed", !.scope = scope, !.key = key,
                         !.floor = settled[scope]]]
  BY DEF KeyFor
<1> DEFINE new == [viewers[r] EXCEPT !.pc = "keyed", !.scope = scope, !.key = key,
                                     !.floor = settled[scope]]
<1>2. /\ UNCHANGED <<figures, settled, version, entries, writers, unmoved>>
      /\ viewers' = [viewers EXCEPT ![r] = new]
  BY <1>1 DEF KeyFor
<1>3. /\ new \in Viewer /\ new.pc = "keyed" /\ new.scope = scope /\ new.key = key
      /\ new.floor = settled[scope]
  BY CacheTypes DEF Viewer, Figure
<1> HIDE DEF new
<1>4. failures' \in 0 .. MaxFailures
  BY <1>1, FailsTypes DEF Fails
<1>5. Certain(key) => key = version
  BY <1>1 DEF Certain, Fails
<1>6. RequestKeeps(new)
  <2>1. Certain(key) => AtLeast(entries[<<scope, key>>], settled[scope])
    BY <1>5 DEF CacheInv
  <2>2. key <= version /\ settled[scope] <= settled[scope]
    BY <1>1, CacheTypes
  <2> QED
    BY <1>3, <2>1, <2>2 DEF RequestKeeps
<1>7. Certain(key) =>
         \A q \in Viewers \ {r} : viewers[q].pc # "idle" /\ viewers[q].scope = scope
                                /\ viewers[q].key = key => viewers[q].floor = settled[scope]
  BY <1>5 DEF CacheInv, RequestKeeps
<1> QED
  BY <1>2, <1>3, <1>4, <1>6, <1>7, ViewerMoves

\* The floors of a request that keeps its scope, key and floor.
LEMMA FloorKept ==
    ASSUME CacheInv, NEW r \in Viewers, viewers[r].pc # "idle"
    PROVE  /\ RequestKeeps(viewers[r])
           /\ Certain(viewers[r].key) =>
                 \A q \in Viewers \ {r} :
                    viewers[q].pc # "idle" /\ viewers[q].scope = viewers[r].scope
                    /\ viewers[q].key = viewers[r].key =>
                       viewers[q].floor = viewers[r].floor
  BY DEF CacheInv, FloorsAgree

\* A look at the cache.
LEMMA ReadKeeps ==
    ASSUME CacheInv, NEW r \in Viewers, Read(r)
    PROVE  CacheInv'
<1>1. /\ viewers[r].pc = "keyed"
      /\ UNCHANGED <<figures, settled, version, entries, writers, unmoved>>
  BY DEF Read
<1>2. CASE /\ StoredEntry(r) # NoAggregate /\ UNCHANGED failures
           /\ viewers' = [viewers EXCEPT ![r] = [@ EXCEPT !.pc = "serve",
                                                         !.value = StoredEntry(r)]]
  <2> DEFINE new == [viewers[r] EXCEPT !.pc = "serve", !.value = StoredEntry(r)]
  <2>1. StoredEntry(r) \in Aggregate
    BY <1>2, CacheTypes DEF StoredEntry, Versions
  <2>2. /\ new \in Viewer /\ new.pc = "serve" /\ new.scope = viewers[r].scope
        /\ new.key = viewers[r].key /\ new.floor = viewers[r].floor
        /\ new.value = entries[<<viewers[r].scope, viewers[r].key>>]
    BY <2>1, CacheTypes DEF Viewer, StoredEntry
  <2>3. viewers' = [viewers EXCEPT ![r] = new] /\ failures' \in 0 .. MaxFailures
    BY <1>2, CacheTypes
  <2> HIDE DEF new
  <2>4. /\ RequestKeeps(new)
        /\ Certain(new.key) => AtLeast(new.value, new.floor)
    BY <1>1, <2>2, FloorKept DEF RequestKeeps
  <2> QED
    BY <1>1, <2>2, <2>3, <2>4, FloorKept, ViewerMoves
<1>3. CASE /\ \/ StoredEntry(r) = NoAggregate /\ UNCHANGED failures
              \/ Fails("entry")
           /\ viewers' = [viewers EXCEPT ![r].pc = "totals"]
  <2> DEFINE new == [viewers[r] EXCEPT !.pc = "totals"]
  <2>1. /\ new \in Viewer /\ new.pc = "totals" /\ new.scope = viewers[r].scope
        /\ new.key = viewers[r].key /\ new.floor = viewers[r].floor
    BY CacheTypes DEF Viewer
  <2>2. viewers' = [viewers EXCEPT ![r] = new] /\ failures' \in 0 .. MaxFailures
    BY <1>3, FailsTypes DEF Fails
  <2> HIDE DEF new
  <2>3. RequestKeeps(new)
    BY <1>1, <2>1, FloorKept DEF RequestKeeps
  <2> QED
    BY <1>1, <2>1, <2>2, <2>3, FloorKept, ViewerMoves
<1> QED
  BY <1>2, <1>3 DEF Read

\* The first query.
LEMMA TotalsKeeps ==
    ASSUME CacheInv, NEW r \in Viewers, QueryTotals(r)
    PROVE  CacheInv'
<1> DEFINE figure == figures[viewers[r].scope]
           value == [viewers[r].value EXCEPT !.totals = figure]
           new == [viewers[r] EXCEPT !.pc = "volume", !.value = value]
<1>1. /\ viewers[r].pc = "totals" /\ failures' \in 0 .. MaxFailures
      /\ UNCHANGED <<figures, settled, version, entries, writers, unmoved>>
  BY CacheTypes DEF QueryTotals
<1>2. viewers' = [viewers EXCEPT ![r] = new]
  BY DEF QueryTotals
<1>3. figure \in 0 .. MaxCommits /\ viewers[r].floor <= figure
  <2>1. /\ viewers[r].floor <= settled[viewers[r].scope]
        /\ settled[viewers[r].scope] <= figure
    BY <1>1, FloorKept, CacheTypes DEF RequestKeeps, CacheInv, CommitsAddUp
  <2> QED
    BY <2>1, CacheTypes
<1>4. value \in Aggregate /\ value.totals = figure
  BY <1>3, CacheTypes DEF Aggregate, Figure
<1> HIDE DEF value
<1>5. /\ new \in Viewer /\ new.pc = "volume" /\ new.scope = viewers[r].scope
      /\ new.key = viewers[r].key /\ new.floor = viewers[r].floor /\ new.value = value
  BY <1>4, CacheTypes DEF Viewer
<1> HIDE DEF new
<1>6. RequestKeeps(new)
  BY <1>1, <1>3, <1>4, <1>5, FloorKept, CacheTypes DEF RequestKeeps
<1> QED
  BY <1>1, <1>2, <1>5, <1>6, FloorKept, ViewerMoves

\* ... and the second.
LEMMA VolumeKeeps ==
    ASSUME CacheInv, NEW r \in Viewers, QueryVolume(r)
    PROVE  CacheInv'
<1> DEFINE figure == figures[viewers[r].scope]
           value == [viewers[r].value EXCEPT !.volume = figure]
           new == [viewers[r] EXCEPT !.pc = "store", !.value = value]
<1>1. /\ viewers[r].pc = "volume" /\ failures' \in 0 .. MaxFailures
      /\ UNCHANGED <<figures, settled, version, entries, writers, unmoved>>
  BY CacheTypes DEF QueryVolume
<1>2. viewers' = [viewers EXCEPT ![r] = new]
  BY DEF QueryVolume
<1>3. figure \in 0 .. MaxCommits /\ viewers[r].floor <= figure
  <2>1. /\ viewers[r].floor <= settled[viewers[r].scope]
        /\ settled[viewers[r].scope] <= figure
    BY <1>1, FloorKept, CacheTypes DEF RequestKeeps, CacheInv, CommitsAddUp
  <2> QED
    BY <2>1, CacheTypes
<1>4. value \in Aggregate /\ value.volume = figure /\ value.totals = viewers[r].value.totals
  BY <1>3, CacheTypes DEF Aggregate, Figure
<1> HIDE DEF value
<1>5. /\ new \in Viewer /\ new.pc = "store" /\ new.scope = viewers[r].scope
      /\ new.key = viewers[r].key /\ new.floor = viewers[r].floor /\ new.value = value
  BY <1>4, CacheTypes DEF Viewer
<1> HIDE DEF new
<1>6. RequestKeeps(new)
  BY <1>1, <1>3, <1>4, <1>5, FloorKept, CacheTypes DEF RequestKeeps
<1> QED
  BY <1>1, <1>2, <1>5, <1>6, FloorKept, ViewerMoves

\* The answer.
LEMMA ServeKeeps ==
    ASSUME CacheInv, NEW r \in Viewers, ServeFigures(r)
    PROVE  CacheInv'
<1>1. NoViewer \in Viewer /\ NoViewer.pc = "idle"
  BY CacheAssumption DEF NoViewer, Viewer, Versions, Aggregate, Figure
<1>2. /\ viewers' = [viewers EXCEPT ![r] = NoViewer] /\ failures' \in 0 .. MaxFailures
      /\ UNCHANGED <<figures, settled, version, entries, writers, unmoved>>
  BY CacheTypes DEF ServeFigures
<1> QED
  BY <1>1, <1>2, ViewerMoves

\* Storing what was computed.
LEMMA StoreKeeps ==
    ASSUME CacheInv, NEW r \in Viewers, Store(r)
    PROVE  CacheInv'
<1> DEFINE v == viewers[r]
           new == [v EXCEPT !.pc = "serve"]
<1>1. /\ v.pc = "store" /\ v \in Viewer /\ RequestKeeps(v)
      /\ UNCHANGED <<figures, settled, version, writers, unmoved>>
      /\ viewers' = [viewers EXCEPT ![r] = new]
  BY CacheTypes, FloorKept DEF Store
<1>2. /\ new \in Viewer /\ new.pc = "serve" /\ new.scope = v.scope /\ new.key = v.key
      /\ new.floor = v.floor /\ new.value = v.value
  BY <1>1 DEF Viewer
<1>3. AtLeast(v.value, v.floor)
  BY <1>1 DEF RequestKeeps, AtLeast
<1>4. failures' \in 0 .. MaxFailures
  BY CacheTypes, FailsTypes DEF Store, Fails
<1> HIDE DEF new
<1>5. CASE UNCHANGED entries
  <2>1. RequestKeeps(new) /\ AtLeast(new.value, new.floor)
    BY <1>1, <1>2, <1>3 DEF RequestKeeps
  <2> QED
    BY <1>1, <1>2, <1>4, <1>5, <2>1, FloorKept, ViewerMoves
<1>6. CASE entries' = [entries EXCEPT ![<<v.scope, v.key>>] = v.value]
  <2> DEFINE e == <<v.scope, v.key>>
  <2>1. /\ e \in Scopes \X Versions /\ v.value \in Aggregate /\ v.scope \in Scopes
        /\ v.key \in Versions
    BY CacheTypes DEF Versions
  <2>2. /\ entries' \in [Scopes \X Versions -> Aggregate \cup {NoAggregate}]
        /\ entries'[e] = v.value
        /\ \A k \in (Scopes \X Versions) \ {e} : entries'[k] = entries[k]
    BY <1>6, <2>1 DEF CacheInv, CacheTypeOK
  <2>3. \A s \in Scopes, n \in Versions :
           /\ s = v.scope /\ n = v.key => entries'[<<s, n>>] = v.value
           /\ ~ (s = v.scope /\ n = v.key) => entries'[<<s, n>>] = entries[<<s, n>>]
    BY <2>2
  <2>4. /\ viewers' \in [Viewers -> Viewer] /\ viewers'[r] = new
        /\ \A q \in Viewers \ {r} : viewers'[q] = viewers[q]
    BY <1>1, <1>2 DEF CacheInv, CacheTypeOK
  <2>5. CacheTypeOK'
    BY <1>1, <1>4, <2>2, <2>4 DEF CacheInv, CacheTypeOK
  <2>6. ServedIsSettled'
    BY <1>2, <1>3, <2>4 DEF CacheInv, ServedIsSettled
  <2>7. CurrentEntriesAreTrue'
    <3> SUFFICES ASSUME NEW s \in Scopes, ~ Unsettled, ~ (unmoved > 0),
                        entries'[<<s, version>>] # NoAggregate
                 PROVE  entries'[<<s, version>>] = [totals |-> figures[s], volume |-> figures[s]]
      BY <1>1 DEF CurrentEntriesAreTrue, Unsettled
    <3>1. CASE s = v.scope /\ version = v.key
      <4>1. v.value.totals = figures[s] /\ v.value.volume = figures[s]
        BY <1>1, <3>1, CacheTypes DEF RequestKeeps
      <4>2. entries'[<<s, version>>] = v.value
        BY <2>1, <2>3, <3>1
      <4> QED
        BY <2>1, <4>1, <4>2 DEF Aggregate
    <3>2. CASE ~ (s = v.scope /\ version = v.key)
      <4>1. entries'[<<s, version>>] = entries[<<s, version>>]
        BY <2>3, <3>2, CacheTypes DEF Versions
      <4> QED
        BY <4>1 DEF CacheInv, CurrentEntriesAreTrue
    <3> QED
      BY <3>1, <3>2
  <2>8. CommitsAddUp'
    BY <1>1 DEF CacheInv, CommitsAddUp, Committing
  <2>9. FloorsAgree'
    BY <1>1, <1>2, <2>4 DEF CacheInv, FloorsAgree
  <2>10. \A k \in Scopes \X Versions : k[2] > version => entries'[k] = NoAggregate
    <3>1. ~ (v.key > version)
      BY <1>1, CacheTypes DEF RequestKeeps
    <3> QED
      BY <2>2, <3>1 DEF CacheInv
  <2>11. \A s \in Scopes : AtLeast(entries'[<<s, version>>], settled[s])
    <3> SUFFICES ASSUME NEW s \in Scopes PROVE AtLeast(entries'[<<s, version>>], settled[s])
      OBVIOUS
    <3>1. CASE s = v.scope /\ version = v.key
      BY <1>1, <1>3, <2>1, <2>3, <3>1 DEF RequestKeeps
    <3>2. CASE ~ (s = v.scope /\ version = v.key)
      BY <2>3, <3>2, CacheTypes DEF CacheInv, Versions
    <3> QED
      BY <3>1, <3>2
  <2>12. ASSUME NEW q \in Viewers, viewers'[q].pc # "idle" PROVE RequestKeeps(viewers[q])'
    <3> DEFINE u == viewers[q]
    <3>1. /\ viewers'[q].scope = u.scope /\ viewers'[q].key = u.key
          /\ viewers'[q].floor = u.floor /\ u.pc # "idle"
          /\ viewers'[q].pc \in {"volume", "store"} => viewers'[q] = u
      BY <1>1, <1>2, <2>4, <2>12
    <3>2. RequestKeeps(u) /\ u.scope \in Scopes /\ u.key \in Versions
      BY <3>1, FloorKept, CacheTypes DEF Versions
    <3>3. Certain(u.key) => AtLeast(entries'[<<u.scope, u.key>>], u.floor)
      <4>1. CASE u.scope = v.scope /\ u.key = v.key
        <5>1. Certain(u.key) => u.floor = v.floor
          BY <1>1, <3>1, <4>1 DEF CacheInv, FloorsAgree
        <5> QED
          BY <1>3, <2>1, <2>3, <4>1, <5>1
      <4>2. CASE ~ (u.scope = v.scope /\ u.key = v.key)
        BY <2>3, <3>2, <4>2 DEF RequestKeeps
      <4> QED
        BY <4>1, <4>2
    <3> HIDE DEF u, v
    <3> QED
      BY <1>1, <3>1, <3>2, <3>3 DEF RequestKeeps, Unsettled
  <2> QED
    BY <1>1, <2>5, <2>6, <2>7, <2>8, <2>9, <2>10, <2>11, <2>12 DEF CacheInv
<1> QED
  BY <1>5, <1>6 DEF Store

\* An entry expires.
LEMMA ExpireKeeps ==
    ASSUME CacheInv, NEW k \in Scopes \X Versions, ExpireEntry(k)
    PROVE  CacheInv'
<1>1. /\ UNCHANGED <<figures, settled, version, viewers, writers, failures, unmoved>>
      /\ entries' = [entries EXCEPT ![k] = NoAggregate]
  BY DEF ExpireEntry
<1>2. /\ entries' \in [Scopes \X Versions -> Aggregate \cup {NoAggregate}]
      /\ \A j \in Scopes \X Versions : entries'[j] = entries[j] \/ entries'[j] = NoAggregate
  BY <1>1 DEF CacheInv, CacheTypeOK
<1>3. \A s \in Scopes, n \in Versions :
         entries'[<<s, n>>] = entries[<<s, n>>] \/ entries'[<<s, n>>] = NoAggregate
  BY <1>2
<1>4. \A n \in 0 .. MaxCommits : AtLeast(NoAggregate, n)
  BY AggregateTypes, CacheAssumption DEF AtLeast
<1>5. CacheTypeOK' /\ ServedIsSettled' /\ CommitsAddUp' /\ FloorsAgree'
  BY <1>1, <1>2 DEF CacheInv, CacheTypeOK, ServedIsSettled, CommitsAddUp, Committing, FloorsAgree
<1>6. CurrentEntriesAreTrue'
  <2>1. \A s \in Scopes : entries'[<<s, version>>] = entries[<<s, version>>]
                          \/ entries'[<<s, version>>] = NoAggregate
    BY <1>3, CacheTypes DEF Versions
  <2> QED
    BY <1>1, <2>1 DEF CacheInv, CurrentEntriesAreTrue, Unsettled
<1>7. \A j \in Scopes \X Versions : j[2] > version => entries'[j] = NoAggregate
  BY <1>2 DEF CacheInv
<1>8. \A s \in Scopes : AtLeast(entries'[<<s, version>>], settled[s])
  BY <1>3, <1>4, CacheTypes DEF CacheInv, Versions
<1>9. ASSUME NEW q \in Viewers, viewers[q].pc # "idle" PROVE RequestKeeps(viewers[q])'
  <2>1. RequestKeeps(viewers[q])
    BY <1>9, FloorKept
  <2>2. Certain(viewers[q].key) =>
           AtLeast(entries'[<<viewers[q].scope, viewers[q].key>>], viewers[q].floor)
    BY <1>3, <1>4, <2>1, CacheTypes DEF RequestKeeps, Versions
  <2> QED
    BY <1>1, <2>1, <2>2 DEF RequestKeeps, Unsettled
<1> QED
  BY <1>1, <1>5, <1>6, <1>7, <1>8, <1>9 DEF CacheInv

\* The committing writers, when one of them begins or ends.
LEMMA CommittingTypes ==
    ASSUME CacheInv
    PROVE  /\ IsFiniteSet(Committing) /\ Cardinality(Committing) \in Nat
           /\ version + unmoved + Cardinality(Committing) = figures[Everything]
           /\ figures[Everything] \in 0 .. MaxCommits
           /\ \A w \in Writers : writers[w] \in Writer
                                /\ (w \in Committing <=> writers[w].pc = "committed")
  BY FS_CardinalityType, CacheTypes, CacheAssumption
     DEF CacheInv, CommitsAddUp, Committing, CacheTypeOK

\* A write commits.
LEMMA CommitKeeps ==
    ASSUME CacheInv, NEW w \in Writers, NEW scopes \in SUBSET Scopes, Everything \in scopes,
           CommitWrite(w, scopes)
    PROVE  CacheInv'
<1> DEFINE new == [pc |-> "committed", touched |-> figures']
<1>1. /\ writers[w].pc = "idle" /\ figures[Everything] < MaxCommits
      /\ writers' = [writers EXCEPT ![w] = new]
      /\ UNCHANGED <<settled, version, entries, viewers, failures, unmoved>>
      /\ figures' = [s \in Scopes |-> IF s \in scopes THEN figures[s] + 1 ELSE figures[s]]
  BY DEF CommitWrite
<1>2. /\ figures' \in [Scopes -> 0 .. MaxCommits]
      /\ figures'[Everything] = figures[Everything] + 1
      /\ \A s \in Scopes : figures[s] <= figures'[s] /\ figures'[s] <= figures'[Everything]
                           /\ settled[s] <= figures'[s]
  <2>1. \A s \in Scopes : /\ figures[s] \in 0 .. MaxCommits
                         /\ figures[s] <= figures[Everything]
                         /\ settled[s] \in 0 .. MaxCommits /\ settled[s] <= figures[s]
    BY CacheTypes DEF CacheInv, CommitsAddUp
  <2>2. MaxCommits \in Nat /\ Everything \in Scopes
    BY CacheAssumption
  <2>3. \A s \in Scopes : figures'[s] = IF s \in scopes THEN figures[s] + 1 ELSE figures[s]
    BY <1>1
  <2>4. figures'[Everything] = figures[Everything] + 1
    BY <2>2, <2>3
  <2>5. \A s \in Scopes : /\ figures[s] <= figures'[s] /\ figures'[s] <= figures'[Everything]
                         /\ settled[s] <= figures'[s] /\ figures'[s] \in 0 .. MaxCommits
    BY <1>1, <2>1, <2>2, <2>3, <2>4
  <2> QED
    BY <1>1, <2>4, <2>5
<1>3. /\ new \in Writer /\ new.pc = "committed" /\ new.touched = figures'
  BY <1>2 DEF Writer, Figure
<1> HIDE DEF new
<1>4. /\ writers' \in [Writers -> Writer] /\ writers'[w] = new
      /\ \A u \in Writers \ {w} : writers'[u] = writers[u]
  BY <1>1, <1>3 DEF CacheInv, CacheTypeOK
<1>5. Committing' = Committing \cup {w} /\ w \notin Committing
  BY <1>1, <1>3, <1>4 DEF Committing
<1>6. CommitsAddUp'
  <2>1. IsFiniteSet(Committing') /\ Cardinality(Committing') = Cardinality(Committing) + 1
    BY <1>5, CommittingTypes, FS_AddElement
  <2>2. (version + unmoved + Cardinality(Committing) = figures[Everything])'
    BY <1>1, <1>2, <2>1, CommittingTypes, CacheTypes
  <2>3. \A u \in Committing', s \in Scopes : writers'[u].touched[s] <= figures'[s]
    <3> SUFFICES ASSUME NEW u \in Committing', NEW s \in Scopes
                 PROVE  writers'[u].touched[s] <= figures'[s]
      OBVIOUS
    <3>1. CASE u = w
      BY <1>2, <1>3, <1>4, <3>1
    <3>2. CASE u # w
      <4>1. /\ u \in Committing /\ writers'[u] = writers[u]
            /\ writers[u].touched[s] \in 0 .. MaxCommits
        BY <1>4, <1>5, <3>2 DEF Committing, CacheInv, CacheTypeOK, Writer, Figure
      <4>2. writers[u].touched[s] <= figures[s]
        BY <4>1 DEF CacheInv, CommitsAddUp
      <4> QED
        BY <1>2, <4>1, <4>2, CacheTypes
    <3> QED
      BY <3>1, <3>2
  <2> QED
    BY <1>1, <1>2, <2>1, <2>2, <2>3 DEF CommitsAddUp
<1>7. Unsettled'
  BY <1>3, <1>4 DEF Unsettled
<1>8. CacheTypeOK' /\ ServedIsSettled' /\ CurrentEntriesAreTrue' /\ FloorsAgree'
  BY <1>1, <1>2, <1>4, <1>7
     DEF CacheInv, CacheTypeOK, ServedIsSettled, CurrentEntriesAreTrue, FloorsAgree, Figure
<1>9. \A q \in Viewers : viewers'[q].pc # "idle" => RequestKeeps(viewers[q])'
  BY <1>1, <1>7 DEF CacheInv, RequestKeeps
<1> QED
  BY <1>1, <1>6, <1>8, <1>9 DEF CacheInv

\* A commit's writer is done with it: its invalidation went through or did not.
LEMMA WriterEnds ==
    ASSUME CacheInv, NEW w \in Writers, writers[w].pc = "committed",
           writers' = [writers EXCEPT ![w] = NoWriter]
    PROVE  /\ writers' \in [Writers -> Writer]
           /\ Committing' = Committing \ {w} /\ w \in Committing
           /\ IsFiniteSet(Committing') /\ Cardinality(Committing') = Cardinality(Committing) - 1
           /\ \A u \in Committing' : u \in Committing /\ writers'[u] = writers[u]
           /\ version + unmoved + 1 <= figures[Everything]
<1>1. NoWriter \in Writer /\ NoWriter.pc = "idle"
  BY CacheAssumption DEF NoWriter, Writer, Figure
<1>2. /\ writers' \in [Writers -> Writer] /\ writers'[w] = NoWriter
      /\ \A u \in Writers \ {w} : writers'[u] = writers[u]
  BY <1>1 DEF CacheInv, CacheTypeOK
<1>3. Committing' = Committing \ {w} /\ w \in Committing
  BY <1>1, <1>2 DEF Committing
<1>4. IsFiniteSet(Committing') /\ Cardinality(Committing') = Cardinality(Committing) - 1
      /\ Cardinality(Committing') \in Nat
  BY <1>3, CommittingTypes, FS_RemoveElement, FS_CardinalityType
<1>5. version + unmoved + 1 <= figures[Everything]
  BY <1>4, CommittingTypes, CacheTypes
<1>6. \A u \in Committing' : u \in Committing /\ writers'[u] = writers[u]
  BY <1>2, <1>3 DEF Committing
<1> QED
  BY <1>2, <1>3, <1>4, <1>5, <1>6

\* An invalidation goes through.
LEMMA MoveKeeps ==
    ASSUME CacheInv, NEW w \in Writers, MoveVersion(w)
    PROVE  CacheInv'
<1>1. /\ writers[w].pc = "committed" /\ version' = version + 1
      /\ settled' = [s \in Scopes |-> Higher(settled[s], writers[w].touched[s])]
      /\ writers' = [writers EXCEPT ![w] = NoWriter]
      /\ UNCHANGED <<figures, entries, viewers, failures, unmoved>>
  BY DEF MoveVersion, Moved
<1>2. /\ writers' \in [Writers -> Writer] /\ w \in Committing
      /\ IsFiniteSet(Committing') /\ Cardinality(Committing') = Cardinality(Committing) - 1
      /\ \A u \in Committing' : u \in Committing /\ writers'[u] = writers[u]
      /\ version + unmoved + 1 <= figures[Everything]
  BY <1>1, WriterEnds
<1>3. version' \in 0 .. MaxCommits /\ version < version'
  BY <1>1, <1>2, CacheTypes, CacheAssumption
<1>4. /\ settled' \in [Scopes -> 0 .. MaxCommits]
      /\ \A s \in Scopes : settled[s] <= settled'[s] /\ settled'[s] <= figures[s]
  <2>1. \A s \in Scopes : /\ writers[w].touched[s] \in 0 .. MaxCommits
                         /\ writers[w].touched[s] <= figures[s]
                         /\ settled[s] \in 0 .. MaxCommits /\ settled[s] <= figures[s]
    BY <1>2, CacheTypes, CommittingTypes DEF CacheInv, CommitsAddUp, Writer, Figure, Committing
  <2> QED
    BY <1>1, <2>1 DEF Higher
<1>5. \A s \in Scopes : entries[<<s, version'>>] = NoAggregate
  BY <1>3 DEF CacheInv, Versions
<1>6. \A n \in 0 .. MaxCommits : AtLeast(NoAggregate, n)
  BY AggregateTypes, CacheAssumption DEF AtLeast
<1>7. CacheTypeOK'
  BY <1>1, <1>2, <1>3, <1>4 DEF CacheInv, CacheTypeOK, Figure, Versions
<1>8. ServedIsSettled' /\ FloorsAgree'
  BY <1>1 DEF CacheInv, ServedIsSettled, FloorsAgree
<1>9. CurrentEntriesAreTrue'
  BY <1>1, <1>5, AggregateTypes DEF CurrentEntriesAreTrue, NoAggregate
<1>10. CommitsAddUp'
  <2>1. (version + unmoved + Cardinality(Committing) = figures[Everything])'
    BY <1>1, <1>2, CommittingTypes, CacheTypes
  <2>2. \A u \in Committing', s \in Scopes : writers'[u].touched[s] <= figures'[s]
    BY <1>1, <1>2 DEF CacheInv, CommitsAddUp
  <2>3. \A s \in Scopes : settled'[s] <= figures'[s] /\ figures'[s] <= figures'[Everything]
    BY <1>1, <1>4 DEF CacheInv, CommitsAddUp
  <2> QED
    BY <1>2, <2>1, <2>2, <2>3 DEF CommitsAddUp
<1>11. \A k \in Scopes \X Versions : k[2] > version' => entries'[k] = NoAggregate
  <2>1. \A k \in Scopes \X Versions : k[2] \in 0 .. MaxCommits
    BY DEF Versions
  <2>2. \A n \in 0 .. MaxCommits : n > version' => n > version
    BY <1>3, CacheTypes
  <2> QED
    BY <1>1, <2>1, <2>2 DEF CacheInv
<1>12. \A s \in Scopes : AtLeast(entries'[<<s, version'>>], settled'[s])
  BY <1>1, <1>4, <1>5, <1>6
<1>13. ASSUME NEW q \in Viewers, viewers'[q].pc # "idle" PROVE RequestKeeps(viewers[q])'
  <2>1. /\ RequestKeeps(viewers[q]) /\ viewers'[q] = viewers[q]
        /\ viewers[q].key \in 0 .. MaxCommits /\ viewers[q].floor \in 0 .. MaxCommits
        /\ viewers[q].scope \in Scopes
    BY <1>1, <1>13, FloorKept, CacheTypes
  <2>2. viewers[q].key <= version' /\ viewers[q].key # version'
    BY <1>1, <1>3, <2>1, CacheTypes DEF RequestKeeps
  <2>3. viewers[q].floor <= settled'[viewers[q].scope]
    <3>1. viewers[q].floor <= settled[viewers[q].scope]
      BY <2>1 DEF RequestKeeps
    <3>2. settled[viewers[q].scope] <= settled'[viewers[q].scope]
      BY <1>4, <2>1
    <3> QED
      BY <1>4, <2>1, <3>1, <3>2, CacheTypes
  <2> QED
    BY <1>1, <2>1, <2>2, <2>3 DEF RequestKeeps
<1> QED
  BY <1>7, <1>8, <1>9, <1>10, <1>11, <1>12, <1>13 DEF CacheInv

\* An invalidation is lost.
LEMMA StayKeeps ==
    ASSUME CacheInv, NEW w \in Writers, VersionStays(w)
    PROVE  CacheInv'
<1>1. /\ writers[w].pc = "committed" /\ unmoved' = unmoved + 1
      /\ writers' = [writers EXCEPT ![w] = NoWriter]
      /\ UNCHANGED <<figures, settled, version, entries, viewers>>
      /\ failures' \in 0 .. MaxFailures
  BY FailsTypes DEF VersionStays, Fails
<1>2. /\ writers' \in [Writers -> Writer]
      /\ IsFiniteSet(Committing') /\ Cardinality(Committing') = Cardinality(Committing) - 1
      /\ \A u \in Committing' : u \in Committing /\ writers'[u] = writers[u]
      /\ version + unmoved + 1 <= figures[Everything]
  BY <1>1, WriterEnds
<1>3. unmoved' \in 0 .. MaxCommits /\ unmoved' > 0 /\ unmoved' # 0
  BY <1>1, <1>2, CacheTypes, CacheAssumption
<1>4. CacheTypeOK' /\ ServedIsSettled' /\ FloorsAgree'
  BY <1>1, <1>2, <1>3 DEF CacheInv, CacheTypeOK, ServedIsSettled, FloorsAgree
<1>5. CurrentEntriesAreTrue'
  BY <1>3 DEF CurrentEntriesAreTrue
<1>6. CommitsAddUp'
  <2>1. (version + unmoved + Cardinality(Committing) = figures[Everything])'
    BY <1>1, <1>2, CommittingTypes, CacheTypes
  <2> QED
    BY <1>1, <1>2, <2>1 DEF CacheInv, CommitsAddUp
<1>7. \A q \in Viewers : viewers'[q].pc # "idle" => RequestKeeps(viewers[q])'
  BY <1>1, <1>3 DEF CacheInv, RequestKeeps
<1> QED
  BY <1>1, <1>4, <1>5, <1>6, <1>7 DEF CacheInv

\* Every step.
LEMMA CacheStep == CacheInv /\ [CacheNext]_cacheVars => CacheInv'
<1> SUFFICES ASSUME CacheInv, [CacheNext]_cacheVars PROVE CacheInv'
  OBVIOUS
<1>1. CASE UNCHANGED cacheVars
  BY <1>1 DEF cacheVars, CacheInv, CacheTypeOK, ServedIsSettled, CurrentEntriesAreTrue,
              Unsettled, CommitsAddUp, Committing, FloorsAgree, RequestKeeps
<1>2. ASSUME NEW r \in Viewers,
             \/ \E scope \in Scopes : KeyFor(r, scope)
             \/ Read(r) \/ QueryTotals(r) \/ QueryVolume(r) \/ Store(r) \/ ServeFigures(r)
      PROVE  CacheInv'
  BY <1>2, KeyForKeeps, ReadKeeps, TotalsKeeps, VolumeKeeps, StoreKeeps, ServeKeeps
<1>3. ASSUME NEW w \in Writers,
             \/ \E scopes \in SUBSET Scopes : Everything \in scopes /\ CommitWrite(w, scopes)
             \/ MoveVersion(w) \/ VersionStays(w)
      PROVE  CacheInv'
  BY <1>3, CommitKeeps, MoveKeeps, StayKeeps
<1> QED
  BY <1>1, <1>2, <1>3, ExpireKeeps DEF CacheNext

\* Whatever Redis calls fail, nothing served under a version that could be read is
\* older than the last write that went through, and what the current version's
\* entries say is what the database does.
THEOREM CacheInvHolds == CacheSpec => []CacheInv
<1>1. CacheInit => CacheInv
  BY CacheBegins
<1>2. CacheInv /\ [CacheNext]_cacheVars => CacheInv'
  BY CacheStep
<1> QED
  BY <1>1, <1>2, PTL DEF CacheSpec

-----------------------------------------------------------------------------
\* From a document to passages.

\* A list is a list over a larger set, and a function on 1 .. n is a list.
LEMMA ListOfMore ==
    ASSUME NEW A, NEW B, A \subseteq B, NEW s \in Seq(A)
    PROVE  s \in Seq(B)
<1>1. s \in [1 .. Len(s) -> A] /\ Len(s) \in Nat
  BY LenProperties
<1>2. s \in [1 .. Len(s) -> B]
  BY <1>1
<1> QED  BY <1>1, <1>2

LEMMA ListOfLength ==
    ASSUME NEW S, NEW n \in Nat, NEW f \in [1 .. n -> S]
    PROVE  f \in Seq(S) /\ Len(f) = n
<1>1. f \in Seq(S)
  OBVIOUS
<1>2. DOMAIN f = 1 .. Len(f) /\ Len(f) \in Nat
  BY <1>1, LenProperties
<1>3. 1 .. Len(f) = 1 .. n
  BY <1>2
<1> QED  BY <1>1, <1>2, <1>3

\* The sum of numbers is a number.
LEMMA SumIsCount ==
    ASSUME NEW s \in Seq(Nat)
    PROVE  SumOf(s) \in Nat
<1>1. Len(s) \in Nat /\ \A i \in 1 .. Len(s) : s[i] \in Nat
  BY LenProperties, ElementOfSeq
<1>2. PICK f : Running(s, Len(s), f) /\ SumOf(s) = f[Len(s)]
  BY <1>1, SumIsLast
<1> QED  BY <1>1, <1>2, RunningCounts

\* Rounding up: what fits in m tokens is estimated at no more than m.
LEMMA RoundedUp ==
    ASSUME NEW c \in Nat \ {0}, NEW x \in Nat, NEW m \in Nat
    PROVE  /\ (x + c - 1) \div c \in Nat
           /\ (x + c - 1) \div c <= m <=> x <= m * c
<1> PICK y \in Nat : y = x + c - 1
  OBVIOUS
<1>1. PICK q \in Int, r \in 0 .. (c - 1) : q = y \div c /\ y = c * q + r
  <2>1. y = (c * (y \div c)) + (y % c) /\ (y % c) \in 0 .. (c - 1) /\ y \div c \in Int
    OBVIOUS
  <2> QED  BY <2>1
<1>2. q \in Nat
  <2> SUFFICES ASSUME q <= -1 PROVE FALSE
    BY <1>1
  <2>1. c * q <= -c
    BY <1>1
  <2> QED  BY <2>1, <1>1
<1>3. ASSUME q <= m PROVE x <= m * c
  <2>1. c * q <= c * m
    BY <1>2, <1>3
  <2> QED  BY <2>1, <1>1, <1>2
<1>4. ASSUME q > m PROVE x > m * c
  <2>1. c * q >= c * (m + 1)
    BY <1>2, <1>4
  <2>2. c * (m + 1) = m * c + c
    OBVIOUS
  <2> QED  BY <2>1, <2>2, <1>1, <1>2
<1> QED  BY <1>1, <1>2, <1>3, <1>4

\* What a text of x characters is estimated at.
LEMMA TokensAre ==
    ASSUME NEW x \in Nat
    PROVE  /\ Tokens(x) \in Nat
           /\ MaxSegment \in Nat /\ MaxSegment # 0
           /\ MaxSegment * CharsPerToken \in Nat /\ MaxSegment * CharsPerToken # 0
           /\ Tokens(x) <= MaxSegment <=> x <= MaxSegment * CharsPerToken
<1>1. CharsPerToken \in Nat \ {0} /\ MaxSegment \in Nat \ {0}
  BY TextAssumption DEF MaxSegment
<1>2. MaxSegment * CharsPerToken \in Nat /\ MaxSegment * CharsPerToken # 0
  BY <1>1
<1> QED  BY <1>1, <1>2, RoundedUp DEF Tokens

\* What is joined has a length, and what is packed an estimate.
LEMMA JoinedIsCount ==
    ASSUME NEW s \in Seq(Nat), NEW sep \in Nat
    PROVE  Joined(s, sep) \in Nat
<1>1. SumOf(s) \in Nat
  BY SumIsCount
<1>2. s # <<>> => Len(s) - 1 \in Nat
  BY EmptySeq, LenProperties
<1>3. s # <<>> => sep * (Len(s) - 1) \in Nat
  BY <1>2
<1> QED  BY <1>1, <1>3 DEF Joined

LEMMA PassageHasTokens ==
    ASSUME NEW b \in Seq(Segment)
    PROVE  JoinedTokens(b) \in Nat
<1>1. Len(b) \in Nat /\ \A i \in 1 .. Len(b) : b[i].size \in Nat
  <2>1. Len(b) \in Nat /\ \A i \in 1 .. Len(b) : b[i] \in Segment
    BY ElementOfSeq, LenProperties
  <2> QED  BY <2>1 DEF Segment
<1>2. SizesOf(b) \in Seq(Nat)
  BY <1>1, ListOfLength DEF SizesOf
<1> QED  BY <1>2, JoinedIsCount, TokensAre DEF JoinedTokens, BlankLine

-----------------------------------------------------------------------------
\* The page.

\* A stretch of the page that goes on for one event more, and an empty one.
LEMMA StretchGrows ==
    ASSUME NEW to \in Nat, NEW from \in 1 .. (to + 1)
    PROVE  /\ Depth(from, to) \in Int
           /\ Depth(to + 1, to) = 0
           /\ page[to + 1] = "start" => Depth(from, to + 1) = Depth(from, to) + 1
           /\ page[to + 1] = "end" => Depth(from, to + 1) = Depth(from, to) - 1
           /\ page[to + 1] \notin {"start", "end"} => Depth(from, to + 1) = Depth(from, to)
<1>1. IsFiniteSet(from .. to) /\ IsFiniteSet((to + 1) .. to)
  BY FS_Interval
<1>2. IsFiniteSet(Starts(from, to)) /\ IsFiniteSet(Ends(from, to))
  BY <1>1, FS_Subset DEF Starts, Ends
<1>3. Cardinality(Starts(from, to)) \in Nat /\ Cardinality(Ends(from, to)) \in Nat
  BY <1>2, FS_CardinalityType
<1>4. Depth(to + 1, to) = 0
  <2>1. Starts(to + 1, to) = {} /\ Ends(to + 1, to) = {}
    BY DEF Starts, Ends
  <2> QED  BY <2>1, FS_EmptySet DEF Depth
<1>5. from .. (to + 1) = (from .. to) \cup {to + 1} /\ to + 1 \notin from .. to
  OBVIOUS
<1>6. CASE page[to + 1] = "start"
  <2>1. Starts(from, to + 1) = Starts(from, to) \cup {to + 1} /\ to + 1 \notin Starts(from, to)
    BY <1>5, <1>6 DEF Starts
  <2>2. Ends(from, to + 1) = Ends(from, to)
    BY <1>5, <1>6 DEF Ends
  <2>3. Cardinality(Starts(from, to + 1)) = Cardinality(Starts(from, to)) + 1
    BY <2>1, <1>2, FS_AddElement
  <2> QED  BY <1>3, <1>4, <1>6, <2>2, <2>3 DEF Depth
<1>7. CASE page[to + 1] = "end"
  <2>1. Ends(from, to + 1) = Ends(from, to) \cup {to + 1} /\ to + 1 \notin Ends(from, to)
    BY <1>5, <1>7 DEF Ends
  <2>2. Starts(from, to + 1) = Starts(from, to)
    BY <1>5, <1>7 DEF Starts
  <2>3. Cardinality(Ends(from, to + 1)) = Cardinality(Ends(from, to)) + 1
    BY <2>1, <1>2, FS_AddElement
  <2> QED  BY <1>3, <1>4, <1>7, <2>2, <2>3 DEF Depth
<1>8. CASE page[to + 1] \notin {"start", "end"}
  <2>1. Starts(from, to + 1) = Starts(from, to) /\ Ends(from, to + 1) = Ends(from, to)
    BY <1>5, <1>8 DEF Starts, Ends
  <2> QED  BY <1>3, <1>4, <1>8, <2>1 DEF Depth
<1> QED  BY <1>6, <1>7, <1>8

\* One event: what is open is counted, and text is kept when nothing is.
LEMMA EventKeepsThePage ==
    ASSUME TextTypeOK, PageTextKeepsTheRest, SkippingIsTheDepth, HandleEvent
    PROVE  PageTextKeepsTheRest' /\ SkippingIsTheDepth'
<1> PICK p \in Nat : p = parsed
  BY DEF TextTypeOK
<1>1. page[p + 1] \in {"start", "end", "text"} /\ skipping \in Nat /\ skipping' \in Nat
  <2>1. p < Len(page)
    BY DEF HandleEvent
  <2>2. page \in Seq({"start", "end", "text"})
    <3>1. page \in Pages \/ page = <<>>
      BY DEF TextTypeOK
    <3>2. <<>> \in Seq({"start", "end", "text"})
      OBVIOUS
    <3> QED  BY <3>1, <3>2, TextAssumption
  <2>3. Len(page) \in Nat /\ p + 1 \in 1 .. Len(page)
    BY <2>1, <2>2, LenProperties
  <2>4. page[p + 1] \in {"start", "end", "text"}
    BY <2>2, <2>3, ElementOfSeq
  <2> QED  BY <2>4 DEF TextTypeOK, HandleEvent, Closed
<1>2. /\ parsed' = p + 1 /\ page' = page /\ kept \subseteq 1 .. p
      /\ skipping' = IF page[p + 1] = "start" THEN skipping + 1
                     ELSE IF page[p + 1] = "end" /\ skipping # 0 THEN skipping - 1
                     ELSE skipping
      /\ kept' = IF page[p + 1] = "text" /\ skipping = 0 THEN kept \cup {p + 1} ELSE kept
  BY <1>1 DEF HandleEvent, Closed, SkippingIsTheDepth
<1>3. \A from \in 1 .. p : Depth(from, p) <= skipping
  BY DEF SkippingIsTheDepth
<1>4. skipping # 0 => \E from \in 1 .. p : Depth(from, p) = skipping
  BY DEF SkippingIsTheDepth
<1>5. \A from \in 1 .. (p + 1) :
         /\ Depth(from, p) \in Int /\ Depth(from, p) <= skipping
         /\ page[p + 1] = "start" => Depth(from, p + 1) = Depth(from, p) + 1
         /\ page[p + 1] = "end" => Depth(from, p + 1) = Depth(from, p) - 1
         /\ page[p + 1] = "text" => Depth(from, p + 1) = Depth(from, p)
  <2> TAKE from \in 1 .. (p + 1)
  <2>1. from \in 1 .. p \/ from = p + 1
    OBVIOUS
  <2>2. Depth(p + 1, p) = 0
    BY StretchGrows
  <2>3. Depth(from, p) <= skipping
    BY <2>1, <2>2, <1>1, <1>3
  <2> QED  BY <2>3, StretchGrows
<1>6. \A from, to : Depth(from, to)' = Depth(from, to)
  BY <1>2 DEF Depth, Starts, Ends
<1>7. SkippingIsTheDepth'
  <2>1. kept' \subseteq 1 .. parsed'
    BY <1>2
  <2>2. \A from \in 1 .. (p + 1) : Depth(from, p + 1) <= skipping'
    BY <1>1, <1>2, <1>5
  <2>3. ASSUME skipping' # 0 PROVE \E from \in 1 .. (p + 1) : Depth(from, p + 1) = skipping'
    <3>1. CASE skipping = 0
      <4>1. page[p + 1] = "start" /\ skipping' = 1
        BY <3>1, <2>3, <1>1, <1>2
      <4>2. Depth(p + 1, p + 1) = 1 /\ p + 1 \in 1 .. (p + 1)
        <5>1. Depth(p + 1, p) = 0 /\ p + 1 \in 1 .. (p + 1)
          BY StretchGrows
        <5> QED  BY <5>1, <4>1, <1>5
      <4> QED  BY <4>1, <4>2
    <3>2. CASE skipping # 0
      <4>1. PICK from \in 1 .. p : Depth(from, p) = skipping
        BY <3>2, <1>4
      <4>2. from \in 1 .. (p + 1)
        OBVIOUS
      <4>3. Depth(from, p + 1) = skipping'
        BY <4>1, <4>2, <3>2, <1>1, <1>2, <1>5
      <4> QED  BY <4>2, <4>3
    <3> QED  BY <3>1, <3>2
  <2> QED  BY <2>1, <2>2, <2>3, <1>2, <1>6 DEF SkippingIsTheDepth
<1>8. PageTextKeepsTheRest'
  <2> SUFFICES ASSUME NEW i \in 1 .. (p + 1), page[i] = "text"
               PROVE  i \in kept' <=> \A from \in 1 .. i : Depth(from, i) <= 0
    BY <1>2, <1>6 DEF PageTextKeepsTheRest
  <2>1. CASE i # p + 1
    <3>1. i \in 1 .. p
      BY <2>1
    <3>2. i \in kept <=> \A from \in 1 .. i : Depth(from, i) <= 0
      BY <3>1 DEF PageTextKeepsTheRest
    <3> QED  BY <3>2, <2>1, <1>2
  <2>2. CASE i = p + 1
    <3>1. i \in kept' <=> skipping = 0
      BY <2>2, <1>2
    <3>2. ASSUME skipping = 0 PROVE \A from \in 1 .. i : Depth(from, i) <= 0
      BY <3>2, <2>2, <1>5
    <3>3. ASSUME skipping # 0 PROVE \E from \in 1 .. i : ~ (Depth(from, i) <= 0)
      <4>1. PICK from \in 1 .. p : Depth(from, p) = skipping
        BY <3>3, <1>4
      <4>2. from \in 1 .. (p + 1)
        OBVIOUS
      <4>3. Depth(from, p + 1) = skipping
        BY <4>1, <4>2, <2>2, <1>5
      <4> QED  BY <4>2, <4>3, <3>3, <2>2, <1>1
    <3> QED  BY <3>1, <3>2, <3>3
  <2> QED  BY <2>1, <2>2
<1> QED  BY <1>7, <1>8

-----------------------------------------------------------------------------
\* The segments.

\* A list of one part more, and a list without its first part.
LEMMA PartAppended ==
    ASSUME NEW S, NEW s \in Seq(S), NEW x \in S
    PROVE  /\ Append(s, x) \in Seq(S) /\ Len(Append(s, x)) = Len(s) + 1
           /\ Append(s, x)[Len(s) + 1] = x /\ Append(s, x) # <<>>
           /\ \A i \in 1 .. Len(s) : Append(s, x)[i] = s[i]
<1>1. Len(s) \in Nat
  BY LenProperties
<1> QED  BY <1>1, AppendProperties

LEMMA FirstTaken ==
    ASSUME NEW S, NEW s \in Seq(S), s # <<>>
    PROVE  /\ Head(s) \in S /\ Head(s) = s[1] /\ Tail(s) \in Seq(S)
           /\ Len(s) \in Nat \ {0} /\ Len(Tail(s)) = Len(s) - 1
           /\ \A k \in 1 .. Len(Tail(s)) : k + 1 \in 1 .. Len(s) /\ Tail(s)[k] = s[k + 1]
<1>1. Len(s) \in Nat /\ Len(s) # 0
  BY LenProperties, EmptySeq
<1>2. Tail(s) \in Seq(S) /\ Len(Tail(s)) = Len(s) - 1 /\ Head(s) \in S /\ Head(s) = s[1]
  BY <1>1, HeadTailProperties, ElementOfSeq
<1>3. \A k \in 1 .. Len(Tail(s)) : k + 1 \in 1 .. Len(s) /\ Tail(s)[k] = s[k + 1]
  BY <1>1, <1>2, HeadTailProperties
<1> QED  BY <1>1, <1>2, <1>3

\* What is packed of a text: passages that follow on each other, up to the segments
\* that are left.
Packing == NothingIsLost /\ OnlySeparatorsOverflow /\ RestFollows

\* A step that packs nothing keeps what is packed, and what is said of it.
LEMMA PackedKeeps ==
    ASSUME buffer' = buffer, chunks' = chunks
    PROVE  /\ \A i : Before(i)' = Before(i)
           /\ OnlySeparatorsOverflow => OnlySeparatorsOverflow'
<1>1. \A i : Before(i)' = Before(i)
  BY DEF Before
<1> QED  BY <1>1 DEF OnlySeparatorsOverflow

\* A step of the page, or to a new stage without a segment more.
LEMMA StageKeeps ==
    ASSUME TextTypeOK, Packing,
           UNCHANGED <<segments, made, buffer, chunks>>,
           sentences' # <<>> => stage' = "splitting",
           \/ stage = "parsing" /\ stage' \in {"parsing", "splitting", "refused"}
           \/ stage = "splitting" /\ stage' \in {"splitting", "packing"}
    PROVE  Packing'
<1>1. /\ \A i : Before(i)' = Before(i)
      /\ OnlySeparatorsOverflow => OnlySeparatorsOverflow'
  BY PackedKeeps
<1>2. buffer = <<>> /\ chunks = <<>> /\ made = Len(segments) /\ (stage = "parsing" => made = 0)
  BY DEF Packing, RestFollows
<1>3. Len(chunks) = 0 /\ Before(1) = <<>> /\ End(Before(1)) = 0
  BY <1>2, EmptySeq DEF Before, End
<1>4. NothingIsLost'
  <2>1. \A i \in 1 .. Len(chunks') : Continues(Before(i)', chunks'[i])
    BY <1>3
  <2>2. stage' \in {"done", "refused"} => End(Before(Len(chunks) + 1))' = made'
    BY <1>1, <1>2, <1>3
  <2> QED  BY <1>3, <1>1, <1>2 DEF NothingIsLost
<1>5. RestFollows'
  BY <1>1, <1>2, <1>3 DEF Packing, RestFollows
<1> QED  BY <1>1, <1>4, <1>5 DEF Packing

\* One segment more, behind the others.
LEMMA GrownKeeps ==
    ASSUME TextTypeOK, Packing, stage = "splitting",
           NEW size \in Nat, Tokens(size) <= MaxSegment, Grown(size),
           UNCHANGED <<stage, buffer, chunks>>
    PROVE  Packing' /\ segments' \in Seq(Segment) /\ made' \in Nat
<1>1. /\ \A i : Before(i)' = Before(i)
      /\ OnlySeparatorsOverflow => OnlySeparatorsOverflow'
  BY PackedKeeps
<1> PICK m \in Nat : m = made
  BY DEF TextTypeOK
<1> DEFINE new == [at |-> m + 1, size |-> size]
<1>2. new \in Segment
  BY DEF Segment
<1>3. segments' = Append(segments, new) /\ made' = m + 1
  BY DEF Grown
<1> HIDE DEF new
<1>4. segments \in Seq(Segment) /\ Len(segments) \in Nat
  BY LenProperties DEF TextTypeOK
<1>5. /\ segments' \in Seq(Segment) /\ Len(segments') = Len(segments) + 1
      /\ segments'[Len(segments) + 1] = new
      /\ \A k \in 1 .. Len(segments) : segments'[k] = segments[k]
  BY <1>2, <1>3, <1>4, PartAppended
<1>6. \A k \in 1 .. Len(segments') :
         segments'[k].at = made' - Len(segments') + k /\ Tokens(segments'[k].size) <= MaxSegment
  <2> TAKE k \in 1 .. Len(segments')
  <2>1. CASE k = Len(segments) + 1
    <3>1. segments'[k] = new /\ new.at = m + 1 /\ new.size = size
      BY <2>1, <1>5 DEF new
    <3> QED  BY <3>1, <2>1, <1>3, <1>4, <1>5
  <2>2. CASE k # Len(segments) + 1
    <3>1. k \in 1 .. Len(segments)
      BY <2>2, <1>4, <1>5
    <3>2. segments[k].at = m - Len(segments) + k /\ Tokens(segments[k].size) <= MaxSegment
      BY <3>1 DEF Packing, RestFollows
    <3> QED  BY <3>1, <3>2, <1>3, <1>4, <1>5
  <2> QED  BY <2>1, <2>2
<1>7. buffer = <<>> /\ chunks = <<>> /\ made = Len(segments)
  BY DEF Packing, RestFollows
<1>8. made' = Len(segments') /\ made' - Len(segments') = 0
  BY <1>3, <1>4, <1>5, <1>7
<1>9. Len(chunks) = 0 /\ Before(1) = <<>> /\ End(Before(1)) = 0
  BY <1>7, EmptySeq DEF Before, End
<1>10. RestFollows'
  BY <1>1, <1>6, <1>7, <1>8, <1>9 DEF RestFollows
<1>11. NothingIsLost'
  BY <1>1, <1>9 DEF NothingIsLost
<1> QED  BY <1>1, <1>3, <1>5, <1>10, <1>11 DEF Packing

LEMMA SplitParagraphKeeps ==
    ASSUME TextInv, SplitParagraph
    PROVE  TextTypeOK' /\ Packing'
<1>1. TextTypeOK /\ Packing /\ stage = "splitting" /\ paragraphs \in Seq(Seq(Nat)) /\ paragraphs # <<>>
  BY DEF TextInv, Packing, TextTypeOK, SplitParagraph
<1>2. Head(paragraphs) \in Seq(Nat) /\ Tail(paragraphs) \in Seq(Seq(Nat))
  BY <1>1, FirstTaken
<1>3. paragraphs' \in Seq(Seq(Nat))
  BY <1>2 DEF SplitParagraph
<1> PICK whole \in Nat : whole = Joined(Head(paragraphs), Space)
  BY <1>2, JoinedIsCount DEF Space
<1>4. CASE Tokens(whole) <= MaxSegment
  <2>1. Grown(whole) /\ UNCHANGED <<sentences, stage, pageVars, buffer, chunks>>
    BY <1>4 DEF SplitParagraph
  <2>2. Packing' /\ segments' \in Seq(Segment) /\ made' \in Nat
    BY <2>1, <1>1, <1>4, GrownKeeps
  <2> QED  BY <2>1, <2>2, <1>1, <1>3 DEF TextTypeOK, pageVars
<1>5. CASE ~ (Tokens(whole) <= MaxSegment)
  <2>1. /\ sentences' = Head(paragraphs)
        /\ UNCHANGED <<segments, made, stage, pageVars, buffer, chunks>>
    BY <1>5 DEF SplitParagraph
  <2>2. Packing'
    BY <2>1, <1>1, StageKeeps
  <2> QED  BY <2>1, <2>2, <1>1, <1>2, <1>3 DEF TextTypeOK, pageVars
<1> QED  BY <1>4, <1>5

LEMMA SplitSentenceKeeps ==
    ASSUME TextInv, SplitSentence
    PROVE  TextTypeOK' /\ Packing'
<1>1. TextTypeOK /\ Packing /\ sentences \in Seq(Nat) /\ sentences # <<>>
  BY DEF TextInv, Packing, TextTypeOK, SplitSentence
<1>2. stage = "splitting"
  BY <1>1 DEF Packing, RestFollows
<1>3. Head(sentences) \in Nat /\ Tail(sentences) \in Seq(Nat)
  BY <1>1, FirstTaken
<1>4. /\ Grown(Head(sentences)) /\ Tokens(Head(sentences)) <= MaxSegment
      /\ sentences' = Tail(sentences)
      /\ UNCHANGED <<stage, pageVars, paragraphs, buffer, chunks>>
  BY DEF SplitSentence
<1>5. Packing' /\ segments' \in Seq(Segment) /\ made' \in Nat
  BY <1>1, <1>2, <1>3, <1>4, GrownKeeps
<1> QED  BY <1>1, <1>3, <1>4, <1>5 DEF TextTypeOK, pageVars

\* A piece cut off is small enough, and something may be left.
LEMMA HardSplitKeeps ==
    ASSUME TextInv, NEW cut \in Cuts, HardSplit(cut)
    PROVE  TextTypeOK' /\ Packing'
<1>1. TextTypeOK /\ Packing /\ sentences \in Seq(Nat) /\ sentences # <<>> /\ cut \in Nat
  BY TextAssumption DEF TextInv, Packing, TextTypeOK, HardSplit
<1>2. stage = "splitting"
  BY <1>1 DEF Packing, RestFollows
<1>3. Head(sentences) \in Nat /\ Tail(sentences) \in Seq(Nat)
  BY <1>1, FirstTaken
<1> PICK limit \in Nat : limit = MaxSegment * CharsPerToken
  BY TokensAre
<1> PICK long \in Nat : long = Head(sentences)
  BY <1>3
<1> DEFINE piece == IF cut = 0 THEN limit ELSE cut
           rest == IF cut = 0 THEN long - limit ELSE long - cut - Space
<1>4. /\ cut <= limit /\ Tokens(long) > MaxSegment /\ Grown(piece)
      /\ sentences' = (IF rest = 0 THEN <<>> ELSE <<rest>>) \o Tail(sentences)
      /\ UNCHANGED <<stage, pageVars, paragraphs, buffer, chunks>>
  BY DEF HardSplit
<1>5. long > limit
  <2>1. Tokens(long) \in Nat /\ MaxSegment \in Nat /\ (Tokens(long) <= MaxSegment <=> long <= limit)
    BY TokensAre
  <2> QED  BY <2>1, <1>4
<1>6. rest \in Nat /\ piece \in Nat /\ piece <= limit
  BY <1>1, <1>4, <1>5 DEF Space
<1>7. Tokens(piece) <= MaxSegment
  BY <1>6, TokensAre
<1> HIDE DEF piece, rest
<1>8. Packing' /\ segments' \in Seq(Segment) /\ made' \in Nat
  BY <1>1, <1>2, <1>4, <1>6, <1>7, GrownKeeps
<1>9. sentences' \in Seq(Nat)
  <2>1. <<>> \in Seq(Nat) /\ <<rest>> \in Seq(Nat)
    BY <1>6
  <2> QED  BY <2>1, <1>3, <1>4, ConcatProperties
<1> QED  BY <1>1, <1>4, <1>8, <1>9 DEF TextTypeOK, pageVars

LEMMA AllSplitKeeps ==
    ASSUME TextInv, AllSplit
    PROVE  TextTypeOK' /\ Packing'
<1>1. TextTypeOK /\ Packing
  BY DEF TextInv, Packing
<1>2. Packing'
  BY <1>1, StageKeeps DEF AllSplit
<1> QED  BY <1>1, <1>2 DEF TextTypeOK, AllSplit, pageVars

LEMMA HandleEventKeeps ==
    ASSUME TextInv, HandleEvent
    PROVE  TextTypeOK' /\ Packing'
<1>1. TextTypeOK /\ Packing
  BY DEF TextInv, Packing
<1>2. Packing'
  <2>1. UNCHANGED <<segments, made, buffer, chunks, sentences, stage>> /\ stage = "parsing"
    BY DEF HandleEvent
  <2>2. sentences # <<>> => stage = "splitting"
    BY <1>1 DEF Packing, RestFollows
  <2> QED  BY <1>1, <2>1, <2>2, StageKeeps
<1>3. Len(page) \in Nat
  <2>1. page \in Pages \/ page = <<>>
    BY <1>1 DEF TextTypeOK
  <2> QED  BY <2>1, TextAssumption, LenProperties, EmptySeq
<1>4. parsed' \in 0 .. Len(page') /\ kept' \subseteq 1 .. Len(page') /\ skipping' \in Nat
  <2>1. parsed \in 0 .. Len(page) /\ parsed < Len(page) /\ kept \subseteq 1 .. Len(page)
    BY <1>1 DEF HandleEvent, TextTypeOK
  <2>2. parsed + 1 \in 1 .. Len(page)
    BY <2>1, <1>3
  <2>3. page' = page /\ parsed' = parsed + 1 /\ kept' \subseteq kept \cup {parsed + 1}
    BY DEF HandleEvent
  <2>4. skipping' \in Nat
    BY <1>1 DEF HandleEvent, TextTypeOK, Closed
  <2> QED  BY <2>1, <2>2, <2>3, <2>4
<1> QED  BY <1>1, <1>2, <1>4 DEF TextTypeOK, HandleEvent

LEMMA ExtractKeeps ==
    ASSUME TextInv, NEW text \in Texts, Extract(text)
    PROVE  TextTypeOK' /\ Packing'
<1>1. TextTypeOK /\ Packing
  BY DEF TextInv, Packing
<1>2. Packing'
  <2>1. /\ UNCHANGED <<segments, made, buffer, chunks, sentences>> /\ stage = "parsing"
        /\ stage' \in {"splitting", "refused"}
    BY DEF Extract
  <2>2. sentences = <<>>
    BY <1>1, <2>1 DEF Packing, RestFollows
  <2> QED  BY <1>1, <2>1, <2>2, StageKeeps
<1>3. text \in Seq(Seq(Nat))
  <2>1. text \in Seq(Seq(Nat \ {0}) \ {<<>>})
    BY TextAssumption
  <2>2. Seq(Nat \ {0}) \ {<<>>} \subseteq Seq(Nat)
    <3> SUFFICES ASSUME NEW s \in Seq(Nat \ {0}) PROVE s \in Seq(Nat)
      OBVIOUS
    <3>1. Nat \ {0} \subseteq Nat
      OBVIOUS
    <3> QED  BY <3>1, ListOfMore
  <2> QED  BY <2>1, <2>2, ListOfMore
<1>4. paragraphs' \in Seq(Seq(Nat))
  BY <1>1, <1>3 DEF Extract, TextTypeOK
<1>5. parsed' \in 0 .. Len(page') /\ page' = <<>> /\ kept' = {} /\ skipping' = 0
  BY EmptySeq DEF Extract
<1> QED  BY <1>1, <1>2, <1>4, <1>5 DEF TextTypeOK, Extract

-----------------------------------------------------------------------------
\* The passages.

\* The tokens of the first parts of a passage: none of no part, those of one more.
LEMMA TokensAddUp ==
    ASSUME NEW p \in Seq(Segment), NEW n \in 0 .. Len(p)
    PROVE  /\ TokensUpTo(p, n) \in Nat
           /\ n = 0 => TokensUpTo(p, n) = 0
           /\ n < Len(p) => TokensUpTo(p, n + 1) = TokensUpTo(p, n) + Tokens(p[n + 1].size)
<1> PICK k \in Nat : k = Len(p)
  BY LenProperties
<1>1. n \in Nat /\ n <= k /\ \A j \in 1 .. k : Tokens(p[j].size) \in Nat
  <2>1. \A j \in 1 .. k : p[j] \in Segment
    BY ElementOfSeq
  <2>2. \A j \in 1 .. k : p[j].size \in Nat
    BY <2>1 DEF Segment
  <2>3. \A j \in 1 .. k : Tokens(p[j].size) \in Nat
    <3> TAKE j \in 1 .. k
    <3> QED  BY <2>2, TokensAre
  <2> QED  BY <2>3
<1> DEFINE s == [j \in 1 .. n |-> Tokens(p[j].size)]
           t == [j \in 1 .. (n + 1) |-> Tokens(p[j].size)]
<1>2. s \in Seq(Nat) /\ Len(s) = n
  <2>1. s \in [1 .. n -> Nat]
    BY <1>1
  <2> HIDE DEF s
  <2> QED  BY <2>1, <1>1, ListOfLength
<1>3. TokensUpTo(p, n) = SumOf(s) /\ TokensUpTo(p, n + 1) = SumOf(t)
  BY DEF TokensUpTo
<1>4. SumOf(s) \in Nat
  BY <1>2, SumIsCount
<1>5. ASSUME n = 0 PROVE SumOf(s) = 0
  BY <1>5, <1>2, SumOfNothing
<1>6. ASSUME n < k PROVE SumOf(t) = SumOf(s) + Tokens(p[n + 1].size)
  <2>1. t \in [1 .. (n + 1) -> Nat] /\ n + 1 \in Nat
    BY <1>6, <1>1
  <2>2. /\ t[n + 1] = Tokens(p[n + 1].size)
        /\ \A i \in 1 .. n : s[i] = t[i] /\ s[i] \in Nat
    BY <1>1, <1>6
  <2> HIDE DEF s, t
  <2>3. Len(t) = n + 1
    BY <2>1, ListOfLength
  <2> QED  BY <2>2, <2>3, <1>1, <1>2, SumOfMore
<1> QED  BY <1>3, <1>4, <1>5, <1>6

\* ... which are those of any passage that begins with the same parts.
LEMMA TokensOfTheSame ==
    ASSUME NEW p, NEW q, NEW n \in Nat, \A j \in 1 .. n : p[j] = q[j]
    PROVE  TokensUpTo(p, n) = TokensUpTo(q, n)
<1>1. [j \in 1 .. n |-> Tokens(p[j].size)] = [j \in 1 .. n |-> Tokens(q[j].size)]
  OBVIOUS
<1> QED  BY <1>1 DEF TokensUpTo

\* What is carried over: an end of the passage that fits the overlap.
LEMMA TailFits ==
    ASSUME NEW p \in Seq(Segment)
    PROVE  \E m \in 1 .. (Len(p) + 1) :
              /\ OverlapTail(p) \in Seq(Segment) /\ Len(OverlapTail(p)) = Len(p) - m + 1
              /\ \A j \in 1 .. (Len(p) - m + 1) : OverlapTail(p)[j] = p[m + j - 1]
              /\ TokensUpTo(OverlapTail(p), Len(p) - m + 1) <= ChunkOverlap
<1> PICK k \in Nat : k = Len(p)
  BY LenProperties
<1> DEFINE size(i) == SumOf([j \in 1 .. k - i + 1 |-> Tokens(p[i + j - 1].size)])
           fits == {i \in 1 .. k : size(i) <= ChunkOverlap}
<1>1. OverlapTail(p) = IF fits = {} THEN <<>>
                       ELSE SubSeq(p, CHOOSE i \in fits : \A j \in fits : i <= j, k)
  BY DEF OverlapTail
<1>2. CASE fits = {}
  <2>1. OverlapTail(p) = <<>>
    BY <1>1, <1>2
  <2>2. <<>> \in Seq(Segment) /\ Len(<<>>) = 0
    BY EmptySeq
  <2>3. TokensUpTo(<<>>, 0) <= ChunkOverlap
    <3>1. 0 \in 0 .. Len(<<>>)
      BY <2>2
    <3>2. TokensUpTo(<<>>, 0) = 0
      BY <2>2, <3>1, TokensAddUp
    <3> QED  BY <3>2, TextAssumption
  <2>4. k + 1 \in 1 .. (Len(p) + 1) /\ Len(p) - (k + 1) + 1 = 0
    OBVIOUS
  <2> QED  BY <2>1, <2>2, <2>3, <2>4
<1>3. CASE fits # {}
  <2>1. \E i \in fits : \A j \in fits : i <= j
    <3>1. fits \subseteq Nat
      OBVIOUS
    <3> HIDE DEF fits
    <3> QED  BY <3>1, <1>3, LeastNumber
  <2> DEFINE m == CHOOSE i \in fits : \A j \in fits : i <= j
  <2>2. m \in fits
    BY <2>1
  <2>3. OverlapTail(p) = SubSeq(p, m, k)
    BY <1>1, <1>3
  <2> HIDE DEF m
  <2>4. m \in 1 .. k /\ size(m) <= ChunkOverlap
    BY <2>2
  <2> HIDE DEF fits, size
  <2>5. m \in 1 .. k
    BY <2>4
  <2>6. PICK n \in Nat : n = k - m + 1
    BY <2>5
  <2>7. /\ SubSeq(p, m, k) \in Seq(Segment) /\ Len(SubSeq(p, m, k)) = n
        /\ \A j \in 1 .. n : SubSeq(p, m, k)[j] = p[m + j - 1]
    BY <2>5, <2>6, SubSeqProperties
  <2>8. TokensUpTo(SubSeq(p, m, k), n) <= ChunkOverlap
    <3>1. [j \in 1 .. k - m + 1 |-> Tokens(p[m + j - 1].size)]
              = [j \in 1 .. n |-> Tokens(SubSeq(p, m, k)[j].size)]
      BY <2>7, <2>6
    <3> QED  BY <3>1, <2>4 DEF TokensUpTo, size
  <2> QED  BY <2>3, <2>7, <2>8, <2>5, <2>6
<1> QED  BY <1>2, <1>3

\* A stretch of the text, and that with the segment after it.
Stretch(p) == \A j \in 1 .. Len(p) : p[j].at = p[1].at + j - 1

\* A passage goes on with the segment after it.
LEMMA PassageGrows ==
    ASSUME NEW before \in Seq(Segment), NEW b \in Seq(Segment), Continues(before, b),
           NEW seg \in Segment, seg.at = End(b) + 1
    PROVE  Continues(before, Append(b, seg)) /\ End(Append(b, seg)) = seg.at
<1>0. PICK k \in Nat : k = Len(b)
  BY LenProperties
<1>1. b # <<>> /\ k # 0 /\ Stretch(b) /\ \A j \in 1 .. k : b[j] \in Segment /\ b[j].at \in Nat
  <2>1. b # <<>> /\ Stretch(b)
    BY DEF Continues, Stretch
  <2>2. \A j \in 1 .. k : b[j] \in Segment
    BY <1>0, ElementOfSeq
  <2> QED  BY <1>0, <2>1, <2>2, EmptySeq DEF Segment
<1> DEFINE c == Append(b, seg)
<1>2. /\ c \in Seq(Segment) /\ Len(c) = k + 1 /\ c[k + 1] = seg /\ c # <<>>
      /\ \A i \in 1 .. k : c[i] = b[i]
  BY <1>0, PartAppended
<1> HIDE DEF c
<1>3. 1 \in 1 .. k /\ k \in 1 .. k /\ c[1] = b[1]
  BY <1>1, <1>2
<1>4. b[k].at = b[1].at + k - 1 /\ End(b) = b[k].at
  BY <1>0, <1>1, <1>3 DEF Stretch, End
<1>5. Stretch(c)
  <2> SUFFICES ASSUME NEW j \in 1 .. (k + 1) PROVE c[j].at = c[1].at + j - 1
    BY <1>2 DEF Stretch
  <2>1. CASE j = k + 1
    BY <2>1, <1>1, <1>2, <1>3, <1>4
  <2>2. CASE j # k + 1
    <3>1. j \in 1 .. k
      BY <2>2
    <3>2. b[j].at = b[1].at + j - 1
      BY <3>1, <1>0, <1>1 DEF Stretch
    <3> QED  BY <3>1, <3>2, <1>2, <1>3
  <2> QED  BY <2>1, <2>2
<1>6. Carried(before, c) = Carried(before, b)
  BY <1>3 DEF Carried
<1> PICK old \in Nat : old = Carried(before, b) /\ old <= Len(before) /\ old < k
  <2>1. Len(before) \in Nat
    BY LenProperties
  <2> QED  BY <1>0, <2>1 DEF Continues
<1>7. /\ \A j \in 1 .. old : b[j] = before[Len(before) - old + j]
      /\ TokensUpTo(b, old) <= ChunkOverlap
  BY DEF Continues
<1>8. \A j \in 1 .. old : c[j] = b[j]
  BY <1>2
<1>9. TokensUpTo(c, old) = TokensUpTo(b, old)
  BY <1>8, TokensOfTheSame
<1>10. old \in 0 .. Len(before) /\ old < Len(c)
  BY <1>2, LenProperties
<1>11. Continues(before, c)
  BY <1>2, <1>5, <1>6, <1>7, <1>8, <1>9, <1>10 DEF Continues, Stretch
<1>12. End(c) = seg.at
  BY <1>2 DEF End
<1> QED  BY <1>11, <1>12 DEF c

\* A passage starts with what the one before it carries over and a segment that may
\* stand alone.
LEMMA PassageStarts ==
    ASSUME NEW before \in Seq(Segment), Stretch(before),
           NEW seg \in Segment, seg.at = End(before) + 1, Tokens(seg.size) <= MaxSegment
    PROVE  LET p == Append(OverlapTail(before), seg) IN
           /\ p \in Seq(Segment) /\ p # <<>> /\ End(p) = seg.at
           /\ Continues(before, p) /\ OverBySeparators(before, p)
<1>0. PICK k \in Nat : k = Len(before)
  BY LenProperties
<1> DEFINE q == OverlapTail(before)
           p == Append(q, seg)
<1>1. PICK m \in 1 .. (k + 1) :
         /\ q \in Seq(Segment) /\ Len(q) = k - m + 1
         /\ \A j \in 1 .. (k - m + 1) : q[j] = before[m + j - 1]
         /\ TokensUpTo(q, k - m + 1) <= ChunkOverlap
  BY <1>0, TailFits
<1> HIDE DEF q
<1>2. m \in 1 .. (k + 1)
  OBVIOUS
<1>3. PICK n \in Nat : n = k - m + 1 /\ m = k - n + 1
  BY ONLY <1>2, k \in Nat
<1>4. q \in Seq(Segment) /\ Len(q) = n
  BY <1>1, <1>3
<1>5. /\ p \in Seq(Segment) /\ Len(p) = n + 1 /\ p[n + 1] = seg /\ p # <<>>
      /\ \A i \in 1 .. n : p[i] = q[i]
  BY <1>4, PartAppended
<1> HIDE DEF p
<1>6. \A i \in 1 .. n : p[i] = before[k - n + i] /\ k - n + i \in 1 .. k
  BY <1>1, <1>3, <1>5
<1>7. \A j \in 1 .. k : before[j].at \in Nat /\ before[j].at = before[1].at + j - 1
  <2>1. \A j \in 1 .. k : before[j] \in Segment
    BY <1>0, ElementOfSeq
  <2>2. \A j \in 1 .. k : before[j].at \in Nat
    BY <2>1 DEF Segment
  <2> QED  BY <1>0, <2>2 DEF Stretch
<1>8. End(before) \in Nat /\ (k # 0 => End(before) = before[1].at + k - 1)
  <2>1. CASE before = <<>>
    BY <1>0, <2>1, EmptySeq DEF End
  <2>2. CASE before # <<>>
    <3>1. k # 0 /\ k \in 1 .. k
      BY <1>0, <2>2, EmptySeq
    <3>2. End(before) = before[k].at
      BY <1>0, <2>2 DEF End
    <3> QED  BY <3>1, <3>2, <1>7
  <2> QED  BY <2>1, <2>2
<1>9. \A i \in 1 .. (n + 1) : p[i].at = End(before) - n + i
  <2> TAKE i \in 1 .. (n + 1)
  <2>1. CASE i = n + 1
    BY <2>1, <1>5, <1>8
  <2>2. CASE i # n + 1
    <3>1. i \in 1 .. n /\ k # 0 /\ 1 \in 1 .. k
      BY <2>2, <1>1, <1>3
    <3>2. p[i].at = before[k - n + i].at /\ k - n + i \in 1 .. k
      BY <3>1, <1>6
    <3>3. before[k - n + i].at = before[1].at + (k - n + i) - 1 /\ before[1].at \in Nat
      BY <3>1, <3>2, <1>7
    <3>4. PICK a \in Nat : a = before[1].at
      BY <3>3
    <3>5. PICK z \in Nat : z = k - n + i
      BY <3>2
    <3>6. before[z].at = a + z - 1 /\ End(before) = a + k - 1
      BY <3>1, <3>3, <3>4, <3>5, <1>8
    <3>7. before[k - n + i].at = End(before) - n + i
      BY <3>5, <3>6
    <3> QED  BY <3>2, <3>7
  <2> QED  BY <2>1, <2>2
<1>10. 1 \in 1 .. (n + 1) /\ n + 1 \in 1 .. (n + 1)
  OBVIOUS
<1>11. Carried(before, p) = n
  BY <1>8, <1>9, <1>10 DEF Carried
<1>12. Stretch(p)
  BY <1>5, <1>8, <1>9, <1>10 DEF Stretch
<1>13. TokensUpTo(p, n) <= ChunkOverlap /\ TokensUpTo(p, n) \in Nat
  <2>1. TokensUpTo(p, n) = TokensUpTo(q, n)
    BY <1>5, TokensOfTheSame
  <2>2. n \in 0 .. Len(p)
    BY <1>5
  <2> QED  BY <2>1, <2>2, <1>1, <1>3, <1>5, TokensAddUp
<1>14. TokensUpTo(p, n + 1) = TokensUpTo(p, n) + Tokens(seg.size)
  <2>1. n \in 0 .. Len(p) /\ n < Len(p)
    BY <1>5
  <2> QED  BY <2>1, <1>5, TokensAddUp
<1>15. TokensUpTo(p, n + 1) <= ChunkTarget
  <2>1. Tokens(seg.size) \in Nat
    BY TokensAre DEF Segment
  <2>2. ChunkTarget \in Nat /\ ChunkOverlap \in Nat /\ MaxSegment = ChunkTarget - ChunkOverlap
    BY TextAssumption DEF MaxSegment
  <2> QED  BY <2>1, <2>2, <1>13, <1>14
<1>16. n \in 0 .. Len(before) /\ n < Len(p) /\ Carried(before, p) = Len(p) - 1
  BY <1>0, <1>1, <1>3, <1>5, <1>11
<1>17. Continues(before, p)
  BY <1>0, <1>5, <1>6, <1>11, <1>12, <1>13, <1>16 DEF Continues, Stretch
<1>18. OverBySeparators(before, p)
  BY <1>5, <1>15, <1>16 DEF OverBySeparators
<1>19. End(p) = seg.at
  BY <1>5 DEF End
<1> QED  BY <1>5, <1>17, <1>18, <1>19 DEF p, q

\* The segments that are left after the first was taken.
LEMMA NextSegment ==
    ASSUME TextTypeOK, Packing, segments # <<>>, segments' = Tail(segments), made' = made
    PROVE  LET seg == Head(segments) IN
           /\ seg \in Segment /\ Tokens(seg.size) <= MaxSegment
           /\ seg.at = made - Len(segments) + 1
           /\ segments' \in Seq(Segment) /\ made' - Len(segments') = seg.at
           /\ \A k \in 1 .. Len(segments') :
                 /\ segments'[k].at = made' - Len(segments') + k
                 /\ Tokens(segments'[k].size) <= MaxSegment
<1>1. segments \in Seq(Segment) /\ made \in Nat
  BY DEF TextTypeOK
<1>2. PICK l \in Nat \ {0} : l = Len(segments)
  BY <1>1, FirstTaken
<1>3. /\ Head(segments) \in Segment /\ Head(segments) = segments[1]
      /\ segments' \in Seq(Segment) /\ Len(segments') = l - 1
      /\ \A k \in 1 .. (l - 1) : k + 1 \in 1 .. l /\ segments'[k] = segments[k + 1]
  BY <1>1, <1>2, FirstTaken
<1>4. \A k \in 1 .. l : segments[k].at = made - l + k /\ Tokens(segments[k].size) <= MaxSegment
  BY <1>2 DEF Packing, RestFollows
<1>5. 1 \in 1 .. l
  BY <1>2
<1>6. \A k \in 1 .. (l - 1) : segments'[k].at = made' - Len(segments') + k
  <2> TAKE k \in 1 .. (l - 1)
  <2>1. segments'[k].at = made - l + (k + 1)
    BY <1>3, <1>4
  <2>2. made - l + (k + 1) = made - (l - 1) + k
    BY <1>1, <1>2
  <2> QED  BY <2>1, <2>2, <1>3
<1>7. \A k \in 1 .. (l - 1) : Tokens(segments'[k].size) <= MaxSegment
  BY <1>3, <1>4
<1>8. made' - Len(segments') = made - l + 1
  BY <1>1, <1>2, <1>3
<1> QED  BY <1>2, <1>3, <1>4, <1>5, <1>6, <1>7, <1>8

\* The passage a segment is put in, and the one that is closed before it.
LEMMA PackKeeps ==
    ASSUME TextInv, Pack
    PROVE  TextTypeOK' /\ Packing'
<1>1. TextTypeOK /\ Packing /\ stage = "packing" /\ stage' = "packing" /\ segments # <<>>
  BY DEF TextInv, Packing, Pack
<1>2. segments' = Tail(segments) /\ UNCHANGED <<pageVars, paragraphs, sentences, made>>
  BY DEF Pack
<1> DEFINE seg == Head(segments)
<1>3. /\ seg \in Segment /\ Tokens(seg.size) <= MaxSegment
      /\ seg.at = made - Len(segments) + 1
      /\ segments' \in Seq(Segment) /\ made' - Len(segments') = seg.at
      /\ \A k \in 1 .. Len(segments') :
            /\ segments'[k].at = made' - Len(segments') + k
            /\ Tokens(segments'[k].size) <= MaxSegment
  BY <1>1, <1>2, NextSegment
<1>4. PICK n \in Nat : n = Len(chunks)
  BY <1>1, LenProperties DEF TextTypeOK
<1> DEFINE here == Before(n + 1)
<1>5. /\ buffer \in Seq(Segment) /\ chunks \in Seq(Seq(Segment)) /\ here \in Seq(Segment)
      /\ \A i \in 1 .. n : Before(i) \in Seq(Segment)
  <2>1. buffer \in Seq(Segment) /\ chunks \in Seq(Seq(Segment))
    BY <1>1 DEF TextTypeOK
  <2>2. \A i \in 1 .. n : chunks[i] \in Seq(Segment)
    BY <2>1, <1>4, ElementOfSeq
  <2>3. <<>> \in Seq(Segment)
    OBVIOUS
  <2>4. \A i \in 1 .. (n + 1) : i # 1 => i - 1 \in 1 .. n
    BY <1>4
  <2>5. \A i \in 1 .. (n + 1) : Before(i) \in Seq(Segment)
    BY <2>2, <2>3, <2>4 DEF Before
  <2> QED  BY <2>1, <2>5, <1>4
<1>6. /\ \A i \in 1 .. n : Continues(Before(i), chunks[i]) /\ OverBySeparators(Before(i), chunks[i])
      /\ buffer # <<>> => Continues(here, buffer) /\ OverBySeparators(here, buffer)
      /\ made - Len(segments) = IF buffer = <<>> THEN End(here) ELSE End(buffer)
      /\ buffer = <<>> => chunks = <<>>
      /\ sentences = <<>>
  BY <1>1, <1>4 DEF Packing, NothingIsLost, OnlySeparatorsOverflow, RestFollows
<1> DEFINE over == buffer # <<>> /\ JoinedTokens(Append(buffer, seg)) > ChunkTarget
<1> HIDE DEF seg
\* It suffices to look at the passages that are closed and at the one that is filled.
<1>7. ASSUME buffer' \in Seq(Segment), chunks' \in Seq(Seq(Segment)), buffer' # <<>>,
             End(buffer') = seg.at,
             \A i \in 1 .. Len(chunks') : /\ Continues(Before(i)', chunks'[i])
                                          /\ OverBySeparators(Before(i)', chunks'[i]),
             Continues(Before(Len(chunks) + 1)', buffer'),
             OverBySeparators(Before(Len(chunks) + 1)', buffer')
      PROVE  TextTypeOK' /\ Packing'
  <2>1. TextTypeOK'
    BY <1>1, <1>2, <1>3, <1>7 DEF TextTypeOK, pageVars
  <2>2. NothingIsLost' /\ OnlySeparatorsOverflow'
    BY <1>1, <1>7 DEF NothingIsLost, OnlySeparatorsOverflow
  <2>3. RestFollows'
    BY <1>1, <1>2, <1>3, <1>6, <1>7 DEF RestFollows
  <2> QED  BY <2>1, <2>2, <2>3 DEF Packing
<1>8. CASE over
  <2>1. chunks' = Append(chunks, buffer) /\ buffer' = Append(OverlapTail(buffer), seg)
    BY <1>8 DEF Pack, seg
  <2>2. Continues(here, buffer) /\ OverBySeparators(here, buffer) /\ seg.at = End(buffer) + 1
    BY <1>3, <1>6, <1>8
  <2>3. Stretch(buffer)
    BY <2>2 DEF Continues, Stretch
  <2>4. /\ buffer' \in Seq(Segment) /\ buffer' # <<>> /\ End(buffer') = seg.at
        /\ Continues(buffer, buffer') /\ OverBySeparators(buffer, buffer')
    BY <2>1, <2>2, <2>3, <1>3, <1>5, PassageStarts
  <2>5. /\ chunks' \in Seq(Seq(Segment)) /\ Len(chunks') = n + 1 /\ chunks'[n + 1] = buffer
        /\ \A i \in 1 .. n : chunks'[i] = chunks[i]
    BY <2>1, <1>4, <1>5, PartAppended
  <2>6. Before(Len(chunks) + 1)' = buffer
    BY <2>5, <1>4 DEF Before
  <2>7. \A i \in 1 .. (n + 1) : Before(i)' = Before(i)
    <3> TAKE i \in 1 .. (n + 1)
    <3>1. i = 1 \/ i - 1 \in 1 .. n
      BY <1>4
    <3> QED  BY <3>1, <2>5, <1>4 DEF Before
  <2>8. \A i \in 1 .. (n + 1) : /\ Continues(Before(i)', chunks'[i])
                                /\ OverBySeparators(Before(i)', chunks'[i])
    <3> TAKE i \in 1 .. (n + 1)
    <3>1. CASE i = n + 1
      BY <3>1, <2>2, <2>5, <2>7
    <3>2. CASE i # n + 1
      <4>1. i \in 1 .. n
        BY <3>2, <1>4
      <4> QED  BY <4>1, <2>5, <2>7, <1>6
    <3> QED  BY <3>1, <3>2
  <2> QED  BY <2>4, <2>5, <2>6, <2>8, <1>7
<1>9. CASE ~ over
  <2>1. chunks' = chunks /\ buffer' = Append(buffer, seg)
    BY <1>9 DEF Pack, seg
  <2>2. \A i : Before(i)' = Before(i)
    BY <2>1 DEF Before
  <2>3. \A i \in 1 .. Len(chunks') : /\ Continues(Before(i)', chunks'[i])
                                     /\ OverBySeparators(Before(i)', chunks'[i])
    BY <2>1, <2>2, <1>4, <1>6
  <2>4. Before(Len(chunks) + 1)' = here
    BY <2>1, <1>4 DEF Before
  <2>5. buffer' \in Seq(Segment) /\ buffer' # <<>>
    BY <2>1, <1>3, <1>5, PartAppended
  <2>6. CASE buffer = <<>>
    <3>1. here = <<>>
      BY <2>6, <1>4, <1>6, EmptySeq DEF Before
    <3>2. OverlapTail(here) = <<>>
      <4>1. 1 .. Len(here) = {}
        BY <3>1, EmptySeq
      <4> QED  BY <4>1 DEF OverlapTail
    <3>3. Stretch(here) /\ seg.at = End(here) + 1
      BY <3>1, <2>6, <1>3, <1>6, EmptySeq DEF Stretch
    <3>4. /\ Continues(here, buffer') /\ OverBySeparators(here, buffer')
          /\ End(buffer') = seg.at
      BY <3>2, <3>3, <2>1, <2>6, <1>3, <1>5, PassageStarts
    <3> QED  BY <3>4, <2>1, <2>3, <2>4, <2>5, <1>5, <1>7
  <2>7. CASE buffer # <<>>
    <3>1. Continues(here, buffer) /\ seg.at = End(buffer) + 1
      BY <2>7, <1>3, <1>6
    <3>2. Continues(here, buffer') /\ End(buffer') = seg.at
      BY <3>1, <2>1, <1>3, <1>5, PassageGrows
    <3>3. JoinedTokens(buffer') <= ChunkTarget
      <4>1. JoinedTokens(buffer') \in Nat /\ ChunkTarget \in Nat
        BY <2>5, PassageHasTokens, TextAssumption
      <4> QED  BY <4>1, <2>1, <2>7, <1>9
    <3>4. OverBySeparators(here, buffer')
      BY <3>3 DEF OverBySeparators
    <3> QED  BY <3>2, <3>4, <2>1, <2>3, <2>4, <2>5, <1>5, <1>7
  <2> QED  BY <2>6, <2>7
<1> QED  BY <1>8, <1>9

LEMMA LastChunkKeeps ==
    ASSUME TextInv, LastChunk
    PROVE  TextTypeOK' /\ Packing'
<1>1. /\ TextTypeOK /\ Packing /\ stage = "packing" /\ segments = <<>> /\ Len(segments) = 0
      /\ stage' \in {"done", "refused"} /\ buffer' = <<>>
      /\ UNCHANGED <<pageVars, paragraphs, sentences, segments, made>>
  BY EmptySeq DEF TextInv, Packing, LastChunk
<1>2. PICK n \in Nat : n = Len(chunks)
  BY <1>1, LenProperties DEF TextTypeOK
<1>3. buffer \in Seq(Segment) /\ chunks \in Seq(Seq(Segment)) /\ made \in Nat
  BY <1>1 DEF TextTypeOK
<1>4. /\ \A i \in 1 .. n : Continues(Before(i), chunks[i]) /\ OverBySeparators(Before(i), chunks[i])
      /\ buffer # <<>> => Continues(Before(n + 1), buffer) /\ OverBySeparators(Before(n + 1), buffer)
      /\ made = IF buffer = <<>> THEN End(Before(n + 1)) ELSE End(buffer)
      /\ sentences = <<>>
  BY <1>1, <1>2, <1>3 DEF Packing, NothingIsLost, OnlySeparatorsOverflow, RestFollows
\* It suffices to look at the passages there are now, the last of which ends the text.
<1>5. ASSUME chunks' \in Seq(Seq(Segment)),
             \A i \in 1 .. Len(chunks') : /\ Continues(Before(i)', chunks'[i])
                                          /\ OverBySeparators(Before(i)', chunks'[i]),
             End(Before(Len(chunks) + 1))' = made
      PROVE  TextTypeOK' /\ Packing'
  <2>1. TextTypeOK'
    BY <1>1, <1>5 DEF TextTypeOK, pageVars
  <2>2. NothingIsLost' /\ OnlySeparatorsOverflow'
    BY <1>1, <1>5 DEF NothingIsLost, OnlySeparatorsOverflow
  <2>3. made' = made /\ made' - Len(segments') = made /\ \A k \in 1 .. Len(segments') : FALSE
    BY <1>1, <1>3
  <2>4. RestFollows'
    BY <1>1, <1>4, <1>5, <2>3 DEF RestFollows
  <2> QED  BY <2>1, <2>2, <2>4 DEF Packing
<1>6. CASE buffer = <<>>
  <2>1. chunks' = chunks
    BY <1>6 DEF LastChunk
  <2>2. \A i : Before(i)' = Before(i)
    BY <2>1 DEF Before
  <2>3. End(Before(Len(chunks) + 1))' = End(Before(n + 1))
    BY <2>1, <1>2 DEF Before, End
  <2> QED  BY <2>1, <2>2, <2>3, <1>2, <1>3, <1>4, <1>5, <1>6
<1>7. CASE buffer # <<>>
  <2>1. chunks' = Append(chunks, buffer)
    BY <1>7 DEF LastChunk
  <2>2. /\ chunks' \in Seq(Seq(Segment)) /\ Len(chunks') = n + 1 /\ chunks'[n + 1] = buffer
        /\ \A i \in 1 .. n : chunks'[i] = chunks[i]
    BY <2>1, <1>2, <1>3, PartAppended
  <2>3. Before(Len(chunks) + 1)' = buffer
    BY <2>2, <1>2 DEF Before
  <2>4. \A i \in 1 .. (n + 1) : Before(i)' = Before(i)
    <3> TAKE i \in 1 .. (n + 1)
    <3>1. i = 1 \/ i - 1 \in 1 .. n
      BY <1>2
    <3> QED  BY <3>1, <2>2, <1>2 DEF Before
  <2>5. \A i \in 1 .. (n + 1) : /\ Continues(Before(i)', chunks'[i])
                                /\ OverBySeparators(Before(i)', chunks'[i])
    <3> TAKE i \in 1 .. (n + 1)
    <3>1. CASE i = n + 1
      BY <3>1, <2>2, <2>4, <1>4, <1>7
    <3>2. CASE i # n + 1
      <4>1. i \in 1 .. n
        BY <3>2, <1>2
      <4> QED  BY <4>1, <2>2, <2>4, <1>4
    <3> QED  BY <3>1, <3>2
  <2>6. End(Before(Len(chunks) + 1))' = End(buffer)
    BY <2>3 DEF End
  <2> QED  BY <2>2, <2>5, <2>6, <1>4, <1>5, <1>7
<1> QED  BY <1>6, <1>7

LEMMA TextInvInit ==
    ASSUME TextInit
    PROVE  TextInv
<1>1. Len(<<>>) = 0 /\ Len(page) \in Nat /\ 1 .. 0 = {}
  BY EmptySeq, LenProperties, TextAssumption DEF TextInit
<1>2. TextTypeOK
  BY <1>1 DEF TextInit, TextTypeOK
<1>3. PageTextKeepsTheRest /\ SkippingIsTheDepth
  BY <1>1 DEF TextInit, PageTextKeepsTheRest, SkippingIsTheDepth
<1>4. Before(Len(chunks) + 1) = <<>> /\ End(<<>>) = 0
  BY <1>1 DEF TextInit, Before, End
<1>5. NothingIsLost /\ OnlySeparatorsOverflow
  BY <1>1 DEF TextInit, NothingIsLost, OnlySeparatorsOverflow
<1>6. RestFollows
  BY <1>1, <1>4 DEF TextInit, RestFollows
<1> QED  BY <1>2, <1>3, <1>5, <1>6 DEF TextInv

LEMMA TextInvStep ==
    ASSUME TextInv, [TextNext]_textVars
    PROVE  TextInv'
<1>1. ASSUME HandleEvent PROVE TextInv'
  BY <1>1, HandleEventKeeps, EventKeepsThePage DEF TextInv, Packing
<1>2. ASSUME NEW text \in Texts, Extract(text) PROVE TextInv'
  <2>1. PageTextKeepsTheRest' /\ SkippingIsTheDepth'
    BY <1>2 DEF Extract, PageTextKeepsTheRest, SkippingIsTheDepth
  <2> QED  BY <2>1, <1>2, ExtractKeeps DEF TextInv, Packing
\* Everything else leaves the page alone.
<1>3. ASSUME UNCHANGED pageVars PROVE PageTextKeepsTheRest' /\ SkippingIsTheDepth'
  <2>1. \A from, to : Depth(from, to)' = Depth(from, to)
    BY <1>3 DEF Depth, Starts, Ends, pageVars
  <2>2. UNCHANGED <<page, parsed, skipping, kept>>
    BY <1>3 DEF pageVars
  <2> QED  BY <2>1, <2>2 DEF TextInv, PageTextKeepsTheRest, SkippingIsTheDepth
<1>4. ASSUME SplitParagraph PROVE TextInv'
  <2>1. UNCHANGED pageVars
    BY <1>4 DEF SplitParagraph
  <2> QED  BY <2>1, <1>3, <1>4, SplitParagraphKeeps DEF TextInv, Packing
<1>5. ASSUME SplitSentence PROVE TextInv'
  <2>1. UNCHANGED pageVars
    BY <1>5 DEF SplitSentence
  <2> QED  BY <2>1, <1>3, <1>5, SplitSentenceKeeps DEF TextInv, Packing
<1>6. ASSUME NEW cut \in Cuts, HardSplit(cut) PROVE TextInv'
  <2>1. UNCHANGED pageVars
    BY <1>6 DEF HardSplit
  <2> QED  BY <2>1, <1>3, <1>6, HardSplitKeeps DEF TextInv, Packing
<1>7. ASSUME AllSplit PROVE TextInv'
  <2>1. UNCHANGED pageVars
    BY <1>7 DEF AllSplit
  <2> QED  BY <2>1, <1>3, <1>7, AllSplitKeeps DEF TextInv, Packing
<1>8. ASSUME Pack PROVE TextInv'
  <2>1. UNCHANGED pageVars
    BY <1>8 DEF Pack
  <2> QED  BY <2>1, <1>3, <1>8, PackKeeps DEF TextInv, Packing
<1>9. ASSUME LastChunk PROVE TextInv'
  <2>1. UNCHANGED pageVars
    BY <1>9 DEF LastChunk
  <2> QED  BY <2>1, <1>3, <1>9, LastChunkKeeps DEF TextInv, Packing
<1>10. ASSUME UNCHANGED textVars PROVE TextInv'
  <2>1. UNCHANGED <<stage, pageVars, paragraphs, sentences, segments, made, buffer, chunks>>
    BY <1>10 DEF textVars
  <2>2. TextTypeOK'
    BY <2>1 DEF TextInv, TextTypeOK, pageVars
  <2>3. \A i : Before(i)' = Before(i)
    BY <2>1 DEF Before
  <2>4. NothingIsLost' /\ OnlySeparatorsOverflow' /\ RestFollows'
    BY <2>1, <2>3 DEF TextInv, NothingIsLost, OnlySeparatorsOverflow, RestFollows
  <2> QED  BY <2>1, <2>2, <2>4, <1>3 DEF TextInv
<1> QED  BY <1>1, <1>2, <1>4, <1>5, <1>6, <1>7, <1>8, <1>9, <1>10 DEF TextNext

\* Whatever page is read and whatever text is in it: a piece of the page is kept
\* exactly when no skipped element is open around it, every segment of the text is in
\* a passage, and a passage is over the target by separators at most.
THEOREM NoTextIsLost == TextSpec => []TextInv
<1>1. TextInit => TextInv
  BY TextInvInit
<1>2. TextInv /\ [TextNext]_textVars => TextInv'
  BY TextInvStep
<1> QED  BY <1>1, <1>2, PTL DEF TextSpec
=============================================================================
