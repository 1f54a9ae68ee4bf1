------------------------ MODULE AnalysisClaims_proof ------------------------
(***************************************************************************)
(* Proofs about AnalysisClaims: for any number of rows, requests, workers  *)
(* and messages, and any time limit below the sweep's threshold.           *)
(***************************************************************************)
EXTENDS AnalysisClaims, TLAPS

LEMMA Constants ==
    /\ HardLimit \in Nat /\ HardLimit # 0
    /\ AbandonedAfter \in Nat /\ HardLimit < AbandonedAfter
    /\ Faults \in BOOLEAN
    /\ Asks \subseteq SUBSET Operations /\ Operations # {}
BY LimitAssumption, FaultAssumption, AskAssumption

\* Updating fields of a record keeps its type.
LEMMA RowUpdate ==
    ASSUME NEW x \in Row, NEW s \in Statuses, NEW g \in Ages
    PROVE  [x EXCEPT !.status = s, !.age = g] \in Row
BY DEF Row

LEMMA RestingTyped == Resting \in Worker
BY Constants DEF Resting, Worker

\* The types are inductive by themselves.
LEMMA TypeStep == TypeOK /\ [Next]_vars => TypeOK'
<1> SUFFICES ASSUME TypeOK, [Next]_vars PROVE TypeOK'
  OBVIOUS
<1> USE DEF TypeOK
<1> /\ HardLimit \in Nat /\ HardLimit # 0
    /\ AbandonedAfter \in Nat /\ HardLimit < AbandonedAfter
    /\ Asks \subseteq SUBSET Operations
  BY Constants
<1>1. ASSUME NEW r \in Requests, NEW ops \in Asks, Look(r, ops) PROVE TypeOK'
  <2>1. [pc |-> "looked", ids |-> {},
         ops |-> ops \ {rows[a].op : a \in InFlight}] \in Call
    BY DEF Call
  <2> QED
    BY <1>1, <2>1 DEF Look
<1>2. ASSUME NEW r \in Requests, Write(r) PROVE TypeOK'
  <2>0. PICK ids \in SUBSET {a \in Analyses : rows[a].status = "none"} :
             \E op \in [ids -> calls[r].ops] :
               /\ rows' = [a \in Analyses |->
                              IF a \in ids
                                THEN [status |-> "pending", op |-> op[a], age |-> 0]
                                ELSE rows[a]]
               /\ calls' = [calls EXCEPT ![r].pc = "written", ![r].ids = ids]
    BY <1>2 DEF Write
  <2>1. PICK op \in [ids -> calls[r].ops] :
               /\ rows' = [a \in Analyses |->
                              IF a \in ids
                                THEN [status |-> "pending", op |-> op[a], age |-> 0]
                                ELSE rows[a]]
               /\ calls' = [calls EXCEPT ![r].pc = "written", ![r].ids = ids]
    BY <2>0
  <2>2. calls[r] \in Call /\ calls[r].ops \subseteq Operations
    BY DEF Call
  <2>3. \A a \in ids : [status |-> "pending", op |-> op[a], age |-> 0] \in Row
    BY <2>2 DEF Row, Statuses, Ages
  <2>4. rows' \in [Analyses -> Row]
    BY <2>1, <2>3
  <2>5. [calls[r] EXCEPT !.pc = "written", !.ids = ids] \in Call
    BY <2>2 DEF Call
  <2>6. calls' \in [Requests -> Call]
    BY <2>1, <2>5
  <2> QED
    BY <1>2, <2>4, <2>6 DEF Write
<1>3. ASSUME NEW r \in Requests, Enqueue(r) PROVE TypeOK'
  <2>1. calls[r].ids \in SUBSET Analyses /\ NoCall \in Call
    BY DEF Call, NoCall
  <2> QED
    BY <1>3, <2>1 DEF Enqueue
<1>4. ASSUME NEW r \in Requests, Abort(r) PROVE TypeOK'
  BY <1>4 DEF Abort, NoCall, Call
<1>5. ASSUME NEW w \in Workers, NEW m \in queue, Deliver(w, m) PROVE TypeOK'
  <2>1. [Resting EXCEPT !.pc = "received", !.msg = m] \in Worker
    BY RestingTyped DEF Worker
  <2> QED
    BY <1>5, <2>1 DEF Deliver
<1>6. ASSUME NEW w \in Workers, Claim(w) PROVE TypeOK'
  <2> DEFINE taken == {a \in workers[w].msg : rows[a].status = "pending"}
  <2>1. /\ workers[w] \in Worker /\ taken \subseteq Analyses
        /\ workers[w].age \in Ages
    BY DEF Worker, Ages
  <2>2. \A a \in Analyses :
          [rows[a] EXCEPT !.status = "processing", !.age = workers[w].age] \in Row
    BY <2>1, RowUpdate DEF Statuses
  <2>3. rows' \in [Analyses -> Row]
    BY <1>6, <2>2 DEF Claim
  <2>4. \A p \in {"announced", "claimed"} :
          [workers[w] EXCEPT !.pc = p, !.todo = taken] \in Worker
    BY <2>1 DEF Worker
  <2>5. workers' = [workers EXCEPT ![w] =
           [workers[w] EXCEPT !.pc = IF taken = {} THEN "announced" ELSE "claimed",
                              !.todo = taken]]
    BY <1>6 DEF Claim
  <2>6. workers' \in [Workers -> Worker]
    BY <2>4, <2>5
  <2> QED
    BY <1>6, <2>3, <2>6 DEF Claim
<1>7. ASSUME NEW w \in Workers, NEW a \in Analyses, Ask(w, a) PROVE TypeOK'
  <2>1. [workers[w] EXCEPT !.pc = "calling", !.on = {a}] \in Worker
    BY workers[w] \in Worker, {a} \in SUBSET Analyses DEF Worker
  <2> QED
    BY <1>7, <2>1 DEF Ask
<1>8. ASSUME NEW w \in Workers, NEW outcome \in {"completed", "failed"},
             Finish(w, outcome)
      PROVE  TypeOK'
  <2>0. outcome \in Statuses /\ 0 \in Ages
    BY DEF Statuses, Ages
  <2>1. ASSUME NEW a \in Analyses
        PROVE  [rows[a] EXCEPT !.status = outcome, !.age = 0] \in Row
    BY <2>0, rows[a] \in Row, RowUpdate
  <2>2. rows' \in [Analyses -> Row]
    BY <1>8, <2>1 DEF Finish
  <2>3. workers[w] \in Worker
    OBVIOUS
  <2>4. \A t, d \in SUBSET Analyses :
          [workers[w] EXCEPT !.pc = "claimed", !.on = {}, !.todo = t,
                             !.done = d] \in Worker
    BY <2>3 DEF Worker
  <2>5. workers' = [workers EXCEPT ![w] =
           [workers[w] EXCEPT !.pc = "claimed", !.on = {},
              !.todo = workers[w].todo \ workers[w].on,
              !.done = IF outcome = "completed"
                         THEN workers[w].done \cup workers[w].on
                         ELSE workers[w].done]]
    BY <1>8 DEF Finish
  <2>6. /\ workers[w].todo \ workers[w].on \subseteq Analyses
        /\ (IF outcome = "completed" THEN workers[w].done \cup workers[w].on
                                     ELSE workers[w].done) \subseteq Analyses
    BY <2>3 DEF Worker
  <2>7. workers' \in [Workers -> Worker]
    BY <2>4, <2>5, <2>6
  <2> QED
    BY <1>8, <2>2, <2>7 DEF Finish
<1>9. ASSUME NEW w \in Workers, Announce(w) PROVE TypeOK'
  <2>1. workers[w] \in Worker
    OBVIOUS
  <2>2. /\ [workers[w] EXCEPT !.pc = "announced"] \in Worker
        /\ workers[w].done \in SUBSET Analyses
    BY <2>1 DEF Worker
  <2>3. workers' \in [Workers -> Worker]
    BY <1>9, <2>2 DEF Announce
  <2>4. \A b \in BOOLEAN : [ids |-> workers[w].done, alert |-> b]
                             \in [ids : SUBSET Analyses, alert : BOOLEAN]
    BY <2>2
  <2>5. told' \subseteq [ids : SUBSET Analyses, alert : BOOLEAN]
    BY <1>9, <2>4 DEF Announce
  <2> QED
    BY <1>9, <2>3, <2>5 DEF Announce
<1>10. ASSUME NEW w \in Workers, Acknowledge(w) PROVE TypeOK'
  BY <1>10 DEF Acknowledge, Resting, Worker
<1>11. ASSUME NEW w \in Workers, Die(w) PROVE TypeOK'
  BY <1>11 DEF Die, Resting, Worker
<1>12. ASSUME NEW w \in Workers, Raise(w) \/ TimeOut(w) PROVE TypeOK'
  BY <1>12 DEF Raise, TimeOut, Resting, Worker
<1>13. CASE Reap
  <2>0. "failed" \in Statuses /\ 0 \in Ages
    BY DEF Statuses, Ages
  <2>1. ASSUME NEW a \in Analyses
        PROVE  [rows[a] EXCEPT !.status = "failed", !.age = 0] \in Row
    BY <2>0, rows[a] \in Row, RowUpdate
  <2> QED
    BY <1>13, <2>1 DEF Reap
<1>14. CASE Tick
  <2>1. \A a \in Analyses : rows[a] \in Row
    OBVIOUS
  <2>2. \A a \in Analyses : rows[a].age <= AbandonedAfter =>
          [rows[a] EXCEPT !.age = rows[a].age + 1] \in Row
    BY <2>1 DEF Row, Ages
  <2>3. rows' \in [Analyses -> Row]
    BY <1>14, <2>1, <2>2 DEF Tick
  <2>4. \A w \in Workers : workers[w] \in Worker
    OBVIOUS
  <2>5. \A w \in Workers : workers[w].age < HardLimit =>
          [workers[w] EXCEPT !.age = workers[w].age + 1] \in Worker
    BY <2>4 DEF Worker
  <2>6. workers' \in [Workers -> Worker]
    BY <1>14, <2>4, <2>5 DEF Tick
  <2> QED
    BY <1>14, <2>3, <2>6 DEF Tick
<1>15. CASE UNCHANGED vars
  BY <1>15 DEF vars
<1> QED
  BY <1>1, <1>2, <1>3, <1>4, <1>5, <1>6, <1>7, <1>8, <1>9, <1>10, <1>11,
     <1>12, <1>13, <1>14, <1>15 DEF Next, Request, Run

\* A worker's record, its fields opened up.
LEMMA WorkerFields ==
    ASSUME TypeOK, NEW w \in Workers
    PROVE  /\ workers[w].todo \subseteq Analyses
           /\ workers[w].done \subseteq Analyses
           /\ workers[w].on \subseteq Analyses
           /\ workers[w].age \in 0 .. HardLimit
           /\ workers[w].pc \in {"idle", "received", "claimed", "calling",
                                 "announced"}
BY DEF TypeOK, Worker

\* Starting or ending a run, for whatever reason, disturbs nothing: a resting
\* or receiving worker claims nothing and has completed nothing.
LEMMA RestStep ==
    ASSUME TypeOK, ClaimInv, NEW w \in Workers, NEW k,
           k.todo = {}, k.on = {}, k.done = {},
           workers' = [workers EXCEPT ![w] = k],
           UNCHANGED <<rows, asked, told>>
    PROVE  ClaimInv'
<1>1. workers'[w] = k /\ \A v \in Workers \ {w} : workers'[v] = workers[v]
  BY DEF TypeOK
<1>2. ClaimsAreExclusive'
  BY <1>1 DEF ClaimInv, ClaimsAreExclusive
<1>3. TimelineNamesCompleted'
  BY DEF ClaimInv, TimelineNamesCompleted
<1>4. \A v \in Workers : RunInv(v)'
  BY <1>1 DEF ClaimInv, RunInv
<1>5. \A u, v \in Workers : u # v => workers'[u].done \cap workers'[v].done = {}
  BY <1>1 DEF ClaimInv
<1> QED
  BY <1>2, <1>3, <1>4, <1>5 DEF ClaimInv

\* The claim takes only pending rows, so it takes nothing another worker
\* holds and nothing anybody asked about.
LEMMA ClaimStep ==
    ASSUME TypeOK, ClaimInv, NEW w \in Workers, Claim(w)
    PROVE  ClaimInv'
<1> DEFINE taken == {a \in workers[w].msg : rows[a].status = "pending"}
<1>1. /\ workers'[w].todo = taken /\ workers'[w].on = workers[w].on
      /\ workers'[w].done = workers[w].done /\ workers'[w].age = workers[w].age
      /\ workers'[w].pc = IF taken = {} THEN "announced" ELSE "claimed"
      /\ \A v \in Workers \ {w} : workers'[v] = workers[v]
  BY DEF Claim, TypeOK, Worker
<1>2. workers[w].done = {} /\ workers[w].on = {}
  BY DEF Claim, ClaimInv, RunInv
<1>3. taken \subseteq Analyses
  BY DEF TypeOK, Worker
<1>4. /\ \A a \in taken : /\ rows'[a].status = "processing"
                          /\ rows'[a].age = workers[w].age
      /\ \A a \in Analyses \ taken : rows'[a] = rows[a]
  BY <1>3 DEF Claim, TypeOK, Row
<1>5. \A v \in Workers : workers[v].todo \cap taken = {}
                         /\ workers[v].done \cap taken = {}
  BY DEF ClaimInv, ClaimsAreExclusive, RunInv
<1>6. taken \cap asked = {}
  BY DEF ClaimInv
<1>7. UNCHANGED <<asked, told>>
  BY DEF Claim
<1>8. ClaimsAreExclusive'
  BY <1>1, <1>3, <1>4, <1>5, WorkerFields DEF ClaimInv, ClaimsAreExclusive
<1>9. TimelineNamesCompleted'
  <2>1. \A e \in told : e.ids \subseteq Analyses /\ e.ids \cap taken = {}
    BY DEF ClaimInv, TimelineNamesCompleted, TypeOK
  <2> QED
    BY <1>4, <1>7, <2>1 DEF ClaimInv, TimelineNamesCompleted
<1>10. ASSUME NEW v \in Workers PROVE RunInv(v)'
  <2>1. CASE v = w
    <3>1. workers[w].age <= workers[w].age
      BY WorkerFields, Constants
    <3> QED
      BY <1>1, <1>2, <1>4, <1>6, <1>7, <2>1, <3>1 DEF RunInv
  <2>2. CASE v # w
    BY <1>1, <1>4, <1>5, <1>7, <2>2, WorkerFields DEF RunInv, ClaimInv
  <2> QED
    BY <2>1, <2>2
<1>11. \A a \in asked' : rows'[a].status \notin {"none", "pending"}
  BY <1>4, <1>6, <1>7 DEF ClaimInv, TypeOK
<1>12. \A u, v \in Workers : u # v => workers'[u].done \cap workers'[v].done = {}
  BY <1>1 DEF ClaimInv
<1> QED
  BY <1>8, <1>9, <1>10, <1>11, <1>12 DEF ClaimInv

\* An outcome is written for the analysis the worker holds and nobody else.
LEMMA FinishStep ==
    ASSUME TypeOK, ClaimInv, NEW w \in Workers,
           NEW outcome \in {"completed", "failed"}, Finish(w, outcome)
    PROVE  ClaimInv'
<1> DEFINE on == workers[w].on
<1>1. /\ workers'[w].todo = workers[w].todo \ on /\ workers'[w].on = {}
      /\ workers'[w].done = IF outcome = "completed" THEN workers[w].done \cup on
                                                     ELSE workers[w].done
      /\ workers'[w].age = workers[w].age
      /\ workers'[w].pc = "claimed"
      /\ \A v \in Workers \ {w} : workers'[v] = workers[v]
  BY DEF Finish, TypeOK, Worker
<1>2. /\ on \subseteq workers[w].todo /\ on \subseteq Analyses
      /\ \A a \in on : rows[a].status = "processing"
  BY WorkerFields DEF ClaimInv, RunInv, ClaimsAreExclusive
<1>3. /\ \A a \in on : rows'[a].status = outcome
      /\ \A a \in Analyses \ on : rows'[a] = rows[a]
  BY <1>2 DEF Finish, TypeOK, Row
<1>4. /\ \A v \in Workers \ {w} : workers[v].todo \cap on = {}
      /\ \A v \in Workers : workers[v].done \cap on = {}
  BY <1>2 DEF ClaimInv, ClaimsAreExclusive, RunInv
<1>5. UNCHANGED <<asked, told>> /\ workers[w].pc = "calling"
  BY DEF Finish
<1>6. \A e \in told : e.ids \subseteq Analyses /\ e.ids \cap on = {}
  BY <1>2 DEF ClaimInv, TimelineNamesCompleted, TypeOK
<1>7. ClaimsAreExclusive'
  BY <1>1, <1>2, <1>3, <1>4, WorkerFields DEF ClaimInv, ClaimsAreExclusive
<1>8. TimelineNamesCompleted'
  BY <1>3, <1>5, <1>6 DEF ClaimInv, TimelineNamesCompleted
<1>9. ASSUME NEW v \in Workers PROVE RunInv(v)'
  <2>1. CASE v = w
    BY <1>1, <1>2, <1>3, <1>4, <1>5, <1>6, <2>1, WorkerFields DEF RunInv, ClaimInv
  <2>2. CASE v # w
    BY <1>1, <1>3, <1>4, <1>5, <2>2, WorkerFields DEF RunInv, ClaimInv
  <2> QED
    BY <2>1, <2>2
<1>10. \A a \in asked' : rows'[a].status \notin {"none", "pending"}
  BY <1>2, <1>3, <1>5 DEF ClaimInv, TypeOK
<1>11. \A u, v \in Workers : u # v => workers'[u].done \cap workers'[v].done = {}
  BY <1>1, <1>4 DEF ClaimInv
<1> QED
  BY <1>7, <1>8, <1>9, <1>10, <1>11 DEF ClaimInv

\* The closing commit names what this run completed, which nobody named.
LEMMA AnnounceStep ==
    ASSUME TypeOK, ClaimInv, NEW w \in Workers, Announce(w)
    PROVE  ClaimInv'
<1> DEFINE done == workers[w].done
<1>1. /\ workers'[w].todo = workers[w].todo /\ workers'[w].on = workers[w].on
      /\ workers'[w].done = done /\ workers'[w].age = workers[w].age
      /\ workers'[w].pc = "announced"
      /\ \A v \in Workers \ {w} : workers'[v] = workers[v]
  BY DEF Announce, TypeOK, Worker
<1>2. /\ UNCHANGED <<rows, asked>>
      /\ workers[w].pc = "claimed" /\ workers[w].todo = {}
  BY DEF Announce
<1>3. \/ told' = told
      \/ \E b : told' = told \cup {[ids |-> done, alert |-> b]}
  BY DEF Announce
<1>4. \A e \in told' : e \in told \/ e.ids = done
  BY <1>3
<1>5. /\ \A a \in done : rows[a].status = "completed"
      /\ \A e \in told : e.ids \cap done = {}
  BY <1>2 DEF ClaimInv, RunInv
<1>6. ClaimsAreExclusive'
  BY <1>1, <1>2 DEF ClaimInv, ClaimsAreExclusive
<1>7. TimelineNamesCompleted'
  BY <1>2, <1>3, <1>5 DEF ClaimInv, TimelineNamesCompleted
<1>8. ASSUME NEW v \in Workers PROVE RunInv(v)'
  <2>1. CASE v = w
    BY <1>1, <1>2, <2>1 DEF RunInv, ClaimInv
  <2>2. CASE v # w
    BY <1>1, <1>2, <1>4, <2>2 DEF RunInv, ClaimInv
  <2> QED
    BY <2>1, <2>2
<1>9. \A u, v \in Workers : u # v => workers'[u].done \cap workers'[v].done = {}
  BY <1>1 DEF ClaimInv
<1> QED
  BY <1>2, <1>6, <1>7, <1>8, <1>9 DEF ClaimInv

\* New rows are rows nobody holds, asked about or told.
LEMMA WriteStep ==
    ASSUME TypeOK, ClaimInv, NEW r \in Requests, Write(r)
    PROVE  ClaimInv'
<1>1. PICK ids \in SUBSET {a \in Analyses : rows[a].status = "none"} :
         /\ \A a \in ids : rows'[a].status = "pending"
         /\ \A a \in Analyses \ ids : rows'[a] = rows[a]
  <2>1. PICK ids \in SUBSET {a \in Analyses : rows[a].status = "none"} :
           \E op \in [ids -> calls[r].ops] :
             rows' = [a \in Analyses |->
                        IF a \in ids
                          THEN [status |-> "pending", op |-> op[a], age |-> 0]
                          ELSE rows[a]]
    BY DEF Write
  <2>2. PICK op : rows' = [a \in Analyses |->
                             IF a \in ids
                               THEN [status |-> "pending", op |-> op[a], age |-> 0]
                               ELSE rows[a]]
    BY <2>1
  <2> QED
    BY <2>2
<1>2. UNCHANGED <<workers, asked, told>>
  BY DEF Write
<1>3. /\ \A w \in Workers : /\ workers[w].todo \cap ids = {}
                            /\ workers[w].done \cap ids = {}
      /\ \A e \in told : e.ids \cap ids = {} /\ e.ids \subseteq Analyses
      /\ asked \cap ids = {}
  BY DEF ClaimInv, ClaimsAreExclusive, TimelineNamesCompleted, RunInv, TypeOK
<1>4. ClaimsAreExclusive'
  BY <1>1, <1>2, <1>3, WorkerFields DEF ClaimInv, ClaimsAreExclusive
<1>5. TimelineNamesCompleted'
  BY <1>1, <1>2, <1>3 DEF ClaimInv, TimelineNamesCompleted
<1>6. \A w \in Workers : RunInv(w)'
  BY <1>1, <1>2, <1>3, WorkerFields DEF ClaimInv, RunInv
<1>7. \A a \in asked' : rows'[a].status \notin {"none", "pending"}
  BY <1>1, <1>2, <1>3 DEF ClaimInv, TypeOK
<1> QED
  BY <1>2, <1>4, <1>5, <1>6, <1>7 DEF ClaimInv

\* A worker asks about a row that is its own and that nobody asked about.
LEMMA AskStep ==
    ASSUME TypeOK, ClaimInv, NEW w \in Workers, NEW a \in Analyses, Ask(w, a)
    PROVE  ClaimInv' /\ a \notin asked
<1>1. /\ workers'[w].todo = workers[w].todo /\ workers'[w].on = {a}
      /\ workers'[w].done = workers[w].done /\ workers'[w].age = workers[w].age
      /\ workers'[w].pc = "calling"
      /\ \A v \in Workers \ {w} : workers'[v] = workers[v]
  BY DEF Ask, TypeOK, Worker
<1>2. /\ UNCHANGED <<rows, told>> /\ asked' = asked \cup {a}
      /\ workers[w].pc = "claimed" /\ a \in workers[w].todo
  BY DEF Ask
<1>3. /\ a \notin asked /\ rows[a].status = "processing"
      /\ \A v \in Workers \ {w} : a \notin workers[v].todo
  BY <1>2 DEF ClaimInv, ClaimsAreExclusive, RunInv
<1>4. ClaimsAreExclusive' /\ TimelineNamesCompleted'
  BY <1>1, <1>2 DEF ClaimInv, ClaimsAreExclusive, TimelineNamesCompleted
<1>5. ASSUME NEW v \in Workers PROVE RunInv(v)'
  <2>1. CASE v = w
    BY <1>1, <1>2, <1>3, <2>1 DEF RunInv, ClaimInv
  <2>2. CASE v # w
    BY <1>1, <1>2, <1>3, <2>2 DEF RunInv, ClaimInv
  <2> QED
    BY <2>1, <2>2
<1>6. \A b \in asked' : rows'[b].status \notin {"none", "pending"}
  BY <1>2, <1>3 DEF ClaimInv
<1>7. \A u, v \in Workers : u # v => workers'[u].done \cap workers'[v].done = {}
  BY <1>1 DEF ClaimInv
<1> QED
  BY <1>3, <1>4, <1>5, <1>6, <1>7 DEF ClaimInv

\* The sweep's threshold lies beyond the time limit, so it reaches only claims
\* whose run is gone.
LEMMA ReapStep ==
    ASSUME TypeOK, ClaimInv, Reap
    PROVE  ClaimInv'
<1>1. /\ \A a \in Abandoned : rows'[a].status = "failed"
      /\ \A a \in Analyses \ Abandoned : rows'[a] = rows[a]
      /\ Abandoned \subseteq Analyses
  BY DEF Reap, TypeOK, Abandoned, Row
<1>2. UNCHANGED <<workers, asked, told>>
  BY DEF Reap
<1>3. ASSUME NEW w \in Workers PROVE workers[w].todo \cap Abandoned = {}
  <2> SUFFICES ASSUME NEW a \in workers[w].todo, a \in Abandoned PROVE FALSE
    OBVIOUS
  <2>1. a \in Analyses /\ rows[a].age \in Ages /\ workers[w].age \in 0 .. HardLimit
    BY WorkerFields DEF TypeOK, Row
  <2>2. rows[a].age <= workers[w].age
    BY DEF ClaimInv, RunInv
  <2>3. rows[a].age > AbandonedAfter
    BY DEF Abandoned
  <2> QED
    BY <2>1, <2>2, <2>3, Constants DEF Ages
<1>4. /\ \A w \in Workers : workers[w].done \cap Abandoned = {}
      /\ \A e \in told : e.ids \cap Abandoned = {} /\ e.ids \subseteq Analyses
  BY DEF ClaimInv, TimelineNamesCompleted, RunInv, Abandoned, TypeOK
<1>5. ClaimsAreExclusive'
  BY <1>1, <1>2, <1>3, WorkerFields DEF ClaimInv, ClaimsAreExclusive
<1>6. TimelineNamesCompleted'
  BY <1>1, <1>2, <1>4 DEF ClaimInv, TimelineNamesCompleted
<1>7. \A w \in Workers : RunInv(w)'
  BY <1>1, <1>2, <1>3, <1>4, WorkerFields DEF ClaimInv, RunInv
<1>8. \A a \in asked' : rows'[a].status \notin {"none", "pending"}
  BY <1>1, <1>2 DEF ClaimInv, TypeOK
<1> QED
  BY <1>2, <1>5, <1>6, <1>7, <1>8 DEF ClaimInv

\* A claim and the run that holds it grow old together.
LEMMA TickStep ==
    ASSUME TypeOK, ClaimInv, Tick
    PROVE  ClaimInv'
<1>1. \A a \in Analyses :
         /\ rows'[a].status = rows[a].status
         /\ rows'[a].op = rows[a].op
         /\ rows'[a].age \in {rows[a].age, rows[a].age + 1}
  BY DEF Tick, TypeOK, Row
<1>2. \A w \in Workers :
         /\ workers'[w].pc = workers[w].pc /\ workers'[w].todo = workers[w].todo
         /\ workers'[w].on = workers[w].on /\ workers'[w].done = workers[w].done
         /\ workers[w].pc # "idle" => workers'[w].age = workers[w].age + 1
  BY DEF Tick, TypeOK, Worker
<1>3. UNCHANGED <<asked, told>>
  BY DEF Tick
<1>4. ClaimsAreExclusive'
  BY <1>1, <1>2, WorkerFields DEF ClaimInv, ClaimsAreExclusive
<1>5. TimelineNamesCompleted'
  BY <1>1, <1>3 DEF ClaimInv, TimelineNamesCompleted, TypeOK
<1>6. ASSUME NEW w \in Workers PROVE RunInv(w)'
  <2>1. ASSUME NEW a \in workers[w].todo PROVE rows'[a].age <= workers'[w].age
    <3>1. workers[w].pc # "idle" /\ rows[a].age <= workers[w].age
      BY DEF ClaimInv, RunInv
    <3>2. a \in Analyses /\ rows[a].age \in Nat /\ workers[w].age \in Nat
      BY WorkerFields, Constants DEF TypeOK, Row, Ages
    <3> QED
      BY <1>1, <1>2, <3>1, <3>2
  <2>2. \A a \in workers[w].done : rows'[a].status = "completed"
    BY <1>1, WorkerFields DEF ClaimInv, RunInv
  <2> QED
    BY <1>2, <1>3, <2>1, <2>2 DEF ClaimInv, RunInv
<1>7. \A a \in asked' : rows'[a].status \notin {"none", "pending"}
  BY <1>1, <1>3 DEF ClaimInv, TypeOK
<1>8. \A u, v \in Workers : u # v => workers'[u].done \cap workers'[v].done = {}
  BY <1>2 DEF ClaimInv
<1> QED
  BY <1>4, <1>5, <1>6, <1>7, <1>8 DEF ClaimInv

\* Steps of a request and of the broker that touch no row and no worker.
LEMMA QuietStep ==
    ASSUME ClaimInv, UNCHANGED <<rows, workers, asked, told>>
    PROVE  ClaimInv'
BY DEF ClaimInv, ClaimsAreExclusive, TimelineNamesCompleted, RunInv

\* What a step may do to a row with an outcome, and whom a worker may ask about.
AskedOnceStep ==
    \A w \in Workers :
        workers'[w].on # workers[w].on => workers'[w].on \cap asked = {}
OutcomeStandsStep ==
    \A a \in Analyses :
        rows[a].status \in {"completed", "failed"} => rows'[a] = rows[a]

\* Every step keeps the invariant, asks about nothing twice and lets every
\* outcome stand.
LEMMA Stepwise ==
    ASSUME TypeOK, ClaimInv, [Next]_vars
    PROVE  ClaimInv' /\ AskedOnceStep /\ OutcomeStandsStep
<1> USE DEF AskedOnceStep, OutcomeStandsStep
<1>1. ASSUME NEW r \in Requests,
             (\E ops \in Asks : Look(r, ops)) \/ Enqueue(r) \/ Abort(r)
      PROVE  ClaimInv' /\ AskedOnceStep /\ OutcomeStandsStep
  BY <1>1, QuietStep DEF Look, Enqueue, Abort
<1>2. ASSUME NEW r \in Requests, Write(r)
      PROVE  ClaimInv' /\ AskedOnceStep /\ OutcomeStandsStep
  BY <1>2, WriteStep DEF Write, TypeOK
<1>3. ASSUME NEW w \in Workers, NEW m \in queue, Deliver(w, m)
      PROVE  ClaimInv' /\ AskedOnceStep /\ OutcomeStandsStep
  <2> DEFINE k == [Resting EXCEPT !.pc = "received", !.msg = m]
  <2>1. k.todo = {} /\ k.on = {} /\ k.done = {}
    BY DEF Resting
  <2>2. workers' = [workers EXCEPT ![w] = k] /\ UNCHANGED <<rows, asked, told>>
    BY <1>3 DEF Deliver
  <2>3. ClaimInv'
    BY <2>1, <2>2, RestStep
  <2> QED
    BY <2>1, <2>2, <2>3 DEF TypeOK
<1>4. ASSUME NEW w \in Workers, Claim(w)
      PROVE  ClaimInv' /\ AskedOnceStep /\ OutcomeStandsStep
  <2>1. ClaimInv'
    BY <1>4, ClaimStep
  <2>2. AskedOnceStep
    BY <1>4 DEF Claim, TypeOK, Worker
  <2>3. OutcomeStandsStep
    BY <1>4 DEF Claim, TypeOK
  <2> QED
    BY <2>1, <2>2, <2>3
<1>5. ASSUME NEW w \in Workers, NEW a \in Analyses, Ask(w, a)
      PROVE  ClaimInv' /\ AskedOnceStep /\ OutcomeStandsStep
  <2>1. ClaimInv' /\ a \notin asked
    BY <1>5, AskStep
  <2>2. AskedOnceStep
    BY <1>5, <2>1 DEF Ask, TypeOK, Worker
  <2>3. OutcomeStandsStep
    BY <1>5 DEF Ask
  <2> QED
    BY <2>1, <2>2, <2>3
<1>6. ASSUME NEW w \in Workers, NEW outcome \in {"completed", "failed"},
             Finish(w, outcome)
      PROVE  ClaimInv' /\ AskedOnceStep /\ OutcomeStandsStep
  <2>1. ClaimInv'
    BY <1>6, FinishStep
  <2>2. AskedOnceStep
    BY <1>6 DEF Finish, TypeOK, Worker
  <2>3. \A a \in workers[w].on : rows[a].status = "processing"
    BY DEF ClaimInv, RunInv, ClaimsAreExclusive
  <2>4. OutcomeStandsStep
    BY <1>6, <2>3 DEF Finish, TypeOK
  <2> QED
    BY <2>1, <2>2, <2>4
<1>7. ASSUME NEW w \in Workers, Announce(w)
      PROVE  ClaimInv' /\ AskedOnceStep /\ OutcomeStandsStep
  <2>1. ClaimInv'
    BY <1>7, AnnounceStep
  <2>2. AskedOnceStep
    BY <1>7 DEF Announce, TypeOK, Worker
  <2> QED
    BY <1>7, <2>1, <2>2 DEF Announce
<1>8. ASSUME NEW w \in Workers,
             Acknowledge(w) \/ Die(w) \/ Raise(w) \/ TimeOut(w)
      PROVE  ClaimInv' /\ AskedOnceStep /\ OutcomeStandsStep
  <2>1. Resting.todo = {} /\ Resting.on = {} /\ Resting.done = {}
    BY DEF Resting
  <2>2. /\ workers' = [workers EXCEPT ![w] = Resting]
        /\ UNCHANGED <<rows, asked, told>>
    BY <1>8 DEF Acknowledge, Die, Raise, TimeOut
  <2>3. ClaimInv'
    BY <2>1, <2>2, RestStep
  <2> QED
    BY <2>1, <2>2, <2>3 DEF TypeOK
<1>9. CASE Reap
  <2>1. OutcomeStandsStep
    BY <1>9 DEF Reap, Abandoned, TypeOK
  <2> QED
    BY <1>9, <2>1, ReapStep DEF Reap
<1>10. CASE Tick
  <2>1. OutcomeStandsStep
    BY <1>10 DEF Tick, TypeOK
  <2>2. AskedOnceStep
    BY <1>10 DEF Tick, TypeOK, Worker
  <2> QED
    BY <1>10, <2>1, <2>2, TickStep
<1>11. CASE UNCHANGED vars
  BY <1>11, QuietStep DEF vars
<1> QED
  BY <1>1, <1>2, <1>3, <1>4, <1>5, <1>6, <1>7, <1>8, <1>9, <1>10, <1>11
  DEF Next, Request, Run

LEMMA Initially == Init => TypeOK /\ ClaimInv
<1> SUFFICES ASSUME Init PROVE TypeOK /\ ClaimInv
  OBVIOUS
<1>1. (CHOOSE o \in Operations : TRUE) \in Operations
  BY Constants
<1>2. TypeOK
  BY <1>1, RestingTyped, Constants
  DEF Init, TypeOK, Row, Statuses, Ages, NoCall, Call
<1>3. \A w \in Workers : workers[w].todo = {} /\ workers[w].on = {}
                         /\ workers[w].done = {}
  BY DEF Init, Resting
<1>4. asked = {} /\ told = {}
  BY DEF Init
<1> QED
  BY <1>2, <1>3, <1>4
  DEF ClaimInv, ClaimsAreExclusive, TimelineNamesCompleted, RunInv

\* Types and claims: the sweep never fails a claim somebody works on, no two
\* workers hold one row, and the timeline names what completed, once.
THEOREM Claims == Spec => [](TypeOK /\ ClaimInv)
<1>1. TypeOK /\ ClaimInv /\ [Next]_vars => (TypeOK /\ ClaimInv)'
  BY TypeStep, Stepwise
<1> QED
  BY <1>1, Initially, PTL DEF Spec

\* A live claim is never failed by the sweep and never held twice.
THEOREM ExclusiveClaims == Spec => []ClaimsAreExclusive
<1>1. ClaimInv => ClaimsAreExclusive
  BY DEF ClaimInv
<1> QED
  BY <1>1, Claims, PTL

\* The timeline names an analysis at most once, and only a completed one.
THEOREM HonestTimeline == Spec => []TimelineNamesCompleted
<1>1. ClaimInv => TimelineNamesCompleted
  BY DEF ClaimInv
<1> QED
  BY <1>1, Claims, PTL

\* No provider call is made twice for one analysis.
THEOREM NeverAskedAgain == Spec => AskedOnce
<1>1. TypeOK /\ ClaimInv /\ [Next]_vars => AskedOnceStep
  BY Stepwise
<1>2. [](TypeOK /\ ClaimInv) /\ [][Next]_vars => [][AskedOnceStep]_vars
  BY <1>1, PTL
<1> QED
  BY <1>2, Claims, PTL DEF Spec, AskedOnce, AskedOnceStep

\* An outcome is final, although it is written without looking.
THEOREM FinalOutcome == Spec => OutcomeStands
<1>1. TypeOK /\ ClaimInv /\ [Next]_vars => OutcomeStandsStep
  BY Stepwise
<1>2. [](TypeOK /\ ClaimInv) /\ [][Next]_vars => [][OutcomeStandsStep]_vars
  BY <1>1, PTL
<1> QED
  BY <1>2, Claims, PTL DEF Spec, OutcomeStands, OutcomeStandsStep
=============================================================================
