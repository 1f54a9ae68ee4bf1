-------------------------- MODULE SlaFigures_proof --------------------------
(***************************************************************************)
(* Proofs about the SLA sweep and the figures of the dashboard, for any    *)
(* tickets, priorities, policies and batch, and however many sweeps and    *)
(* requests overlap: that a breach on the record is earned, that an alert  *)
(* is repeated only by sweeps that ran at a time, that the count of        *)
(* overdue tickets is the countdowns' own, that the age and the policies a *)
(* sweep asks for hide no alert, that a window cut in two counts every     *)
(* settled timer once, and that the risk list leaves off nothing more      *)
(* urgent than what it shows.                                              *)
(***************************************************************************)
EXTENDS SlaFigures, FiniteSetTheorems, TLAPS

-----------------------------------------------------------------------------
(* The arithmetic of the clock. *)

LEMMA PoliciesAre ==
    ASSUME NEW f \in Choices, NEW p \in Priorities
    PROVE  f[p] \in Policies[p] /\ IsPolicy(f[p])
  BY SlaAssumption DEF Choices

LEMMA TargetType ==
    ASSUME NEW policy, IsPolicy(policy), NEW timer
    PROVE  Target(timer, policy) \in Nat /\ Target(timer, policy) >= policy.response
  BY DEF IsPolicy, Target

LEMMA DueType ==
    ASSUME NEW ticket \in SlaTicket, NEW policy, IsPolicy(policy), NEW timer
    PROVE  /\ DueAt(timer, ticket, policy) \in Int
           /\ ticket.created # Never => DueAt(timer, ticket, policy) \in Nat
           /\ StoppedAt(timer, ticket) \in Instants
  BY TargetType, SlaAssumption DEF DueAt, StoppedAt, SlaTicket, Instants, Never

\* A timer that is breached stopped too late, or runs and is due.
LEMMA BreachedMeans ==
    ASSUME NEW ticket \in SlaTicket, NEW policy, IsPolicy(policy), NEW timer, NEW now \in Int,
           TimerState(timer, ticket, policy, now) = "breached"
    PROVE  \/ /\ StoppedAt(timer, ticket) # Never
              /\ StoppedAt(timer, ticket) > DueAt(timer, ticket, policy)
           \/ /\ StoppedAt(timer, ticket) = Never
              /\ now >= DueAt(timer, ticket, policy)
  BY DueType, SlaAssumption DEF TimerState, Instants

-----------------------------------------------------------------------------
(* The invariant. *)

\* Nothing happened, or was committed, later than now, and nothing was dated
\* later than it was committed.
TicketHolds(c, l) ==
    /\ c.created <= time
    /\ \A timer \in Timers :
          /\ StoppedAt(timer, c) <= time /\ l[timer] <= time
          /\ StoppedAt(timer, c) # Never => StoppedAt(timer, c) <= l[timer]

\* An alert: what it is due to be recorded with was reached, and what stopped the
\* timer since, if anything, was not committed before it.
Earned(k, due) ==
    k[2][2] = "breached" =>
       /\ due <= time
       /\ StoppedAt(k[2][1], tix[k[1]]) # Never => landed[k[1]][k[2][1]] >= due

\* A timer of the row that a sweep holds stands as the ticket's, which runs
\* otherwise, or was stopped by a commit since the sweep had begun.
TimerHolds(t, row, timer, at) ==
    /\ StoppedAt(timer, row) <= time
    /\ \/ StoppedAt(timer, row) = StoppedAt(timer, tix[t])
       \/ StoppedAt(timer, tix[t]) = Never
       \/ landed[t][timer] >= at /\ landed[t][timer] >= StoppedAt(timer, row)

HeldHolds(t, row, at) ==
    row.created # Never =>
       row.created = tix[t].created /\ \A timer \in Timers : TimerHolds(t, row, timer, at)

OneEach(set) == \A d, e \in set : d[1] = e[1] => d = e

SweepHolds(w) ==
    /\ w.at <= time
    /\ \A t \in Tix : HeldHolds(t, w.held[t], w.at)
    /\ \A d \in w.page \cup w.due : Earned(d[1], d[2])
    /\ OneEach(w.page) /\ OneEach(w.due)

AlertHolds(k) == alerts[k].count > 0 => Earned(k, alerts[k].due)

SweepInv ==
    /\ SlaTypeOK
    /\ \A t \in Tix : TicketHolds(tix[t], landed[t])
    /\ \A k \in AlertKeys : AlertHolds(k)
    /\ \A s \in Sweeps : SweepHolds(sweeps[s])

LEMMA NoTixIs ==
    /\ NoTix \in SlaTicket /\ NoTix.created = Never
    /\ \A timer : StoppedAt(timer, NoTix) = Never
    /\ NoWrite \in Writes
<1>1. (CHOOSE p \in Priorities : TRUE) \in Priorities  BY SlaAssumption
<1>2. (CHOOSE t \in Tix : TRUE) \in Tix  BY SlaAssumption
<1>3. Never \in Instants  BY SlaAssumption DEF Never, Instants
<1> QED  BY <1>1, <1>2, <1>3 DEF NoTix, SlaTicket, SlaStatuses, StoppedAt, NoWrite, Writes

LEMMA AsleepHolds ==
    /\ Asleep \in Sweep /\ Asleep.held = [t \in Tix |-> NoTix]
    /\ Asleep.page = {} /\ Asleep.due = {} /\ Asleep.at = Never /\ Asleep.pc = "idle"
    /\ FirstPolicy \in Choices
<1>1. FirstPolicy \in Choices  BY SlaAssumption DEF Choices
<1>3. [t \in Tix |-> NoTix] \in [Tix -> SlaTicket]  BY NoTixIs
<1>4. Never \in Instants  BY SlaAssumption DEF Never, Instants
<1>5. Asleep \in Sweep /\ Asleep.held = [t \in Tix |-> NoTix]
      /\ Asleep.page = {} /\ Asleep.due = {} /\ Asleep.at = Never /\ Asleep.pc = "idle"
  BY <1>1, <1>3, <1>4 DEF Asleep, Sweep
<1> QED  BY <1>1, <1>5

LEMMA SweepBegins == SlaInit => SweepInv
<1> SUFFICES ASSUME SlaInit PROVE SweepInv  OBVIOUS
<1>1. time = 0 /\ policies = FirstPolicy /\ tix = [t \in Tix |-> NoTix]
      /\ writes = [r \in Staff |-> NoWrite]
      /\ landed = [t \in Tix |-> [timer \in Timers |-> Never]]
      /\ alerts = [k \in AlertKeys |-> [count |-> 0, due |-> 0]]
      /\ sweeps = [s \in Sweeps |-> Asleep] /\ deaths = 0
  BY DEF SlaInit
<1>2. SlaTypeOK
  <2>1. Never \in Instants  BY SlaAssumption DEF Never, Instants
  <2> QED  BY <1>1, <2>1, AsleepHolds, NoTixIs, SlaAssumption DEF SlaTypeOK
<1>3. ASSUME NEW t \in Tix PROVE TicketHolds(tix[t], landed[t])
  BY <1>1, NoTixIs DEF TicketHolds, Never
<1>4. ASSUME NEW k \in AlertKeys PROVE AlertHolds(k)
  BY <1>1 DEF AlertHolds
<1>5. ASSUME NEW s \in Sweeps PROVE SweepHolds(sweeps[s])
  BY <1>1, AsleepHolds, NoTixIs DEF SweepHolds, HeldHolds, OneEach, Never
<1> QED  BY <1>2, <1>3, <1>4, <1>5 DEF SweepInv

-----------------------------------------------------------------------------
(* The tickets, the policies and the clock. *)

\* What may become of a ticket's timer: it runs, or stands as it stood, or what
\* stopped it is committed now.
Moves(t, c, l, timer) ==
    /\ l[timer] <= time /\ StoppedAt(timer, c) <= time
    /\ \/ StoppedAt(timer, c) = Never
       \/ StoppedAt(timer, c) = StoppedAt(timer, tix[t]) /\ l[timer] = landed[t][timer]
       \/ l[timer] = time

\* One ticket changes as the actions of its life change it.
LEMMA TicketMoves ==
    ASSUME SweepInv, NEW t \in Tix, NEW c \in SlaTicket, NEW l \in [Timers -> Instants],
           tix' = [tix EXCEPT ![t] = c], landed' = [landed EXCEPT ![t] = l],
           writes' \in [Staff -> Writes], UNCHANGED <<time, policies, alerts, sweeps, deaths>>,
           c.created <= time, tix[t].created # Never => c.created = tix[t].created,
           \A timer \in Timers : Moves(t, c, l, timer)
    PROVE  SweepInv'
<1>1. /\ tix' \in [Tix -> SlaTicket] /\ tix'[t] = c
      /\ landed' \in [Tix -> [Timers -> Instants]] /\ landed'[t] = l
      /\ \A u \in Tix \ {t} : tix'[u] = tix[u] /\ landed'[u] = landed[u]
      /\ time \in Int /\ time' = time
  BY SlaAssumption DEF SweepInv, SlaTypeOK
<1>2. SlaTypeOK'  BY <1>1 DEF SweepInv, SlaTypeOK
<1>3. ASSUME NEW u \in Tix PROVE TicketHolds(tix[u], landed[u])'
  <2>1. CASE u # t  BY <1>1, <2>1 DEF SweepInv, TicketHolds, StoppedAt
  <2>2. CASE u = t
    <3>1. TicketHolds(tix[t], landed[t])  BY DEF SweepInv
    <3>2. TicketHolds(c, l)  BY <3>1 DEF TicketHolds, Moves
    <3> QED  BY <1>1, <2>2, <3>2 DEF TicketHolds, StoppedAt
  <2> QED  BY <2>1, <2>2
<1>5. ASSUME NEW k \in AlertKeys, NEW due \in Nat, Earned(k, due) PROVE Earned(k, due)'
  <2>1. k[1] \in Tix /\ k[2][1] \in Timers  BY DEF AlertKeys
  <2>2. CASE k[1] # t  BY <1>1, <1>5, <2>1, <2>2 DEF Earned, StoppedAt
  <2>3. CASE k[1] = t
    <3> SUFFICES ASSUME k[2][2] = "breached"
                 PROVE  /\ due <= time
                        /\ StoppedAt(k[2][1], c) # Never => l[k[2][1]] >= due
      BY <1>1, <2>3 DEF Earned, StoppedAt
    <3>1. due <= time /\ (StoppedAt(k[2][1], tix[t]) # Never => landed[t][k[2][1]] >= due)
      BY <1>5, <2>3 DEF Earned
    <3>2. Moves(t, c, l, k[2][1])  BY <2>1
    <3> QED  BY <1>1, <3>1, <3>2 DEF Moves
  <2> QED  BY <2>2, <2>3
<1>6. ASSUME NEW k \in AlertKeys PROVE AlertHolds(k)'
  <2>1. alerts[k].due \in Nat /\ alerts' = alerts  BY DEF SweepInv, SlaTypeOK
  <2> QED  BY <1>5, <2>1 DEF SweepInv, AlertHolds
<1>7. ASSUME NEW s \in Sweeps PROVE SweepHolds(sweeps[s])'
  <2>1. SweepHolds(sweeps[s]) /\ sweeps'[s] = sweeps[s] /\ sweeps[s] \in Sweep
    BY DEF SweepInv, SlaTypeOK
  <2>2. sweeps[s].page \subseteq AlertKeys \X Nat /\ sweeps[s].due \subseteq AlertKeys \X Nat
        /\ sweeps[s].held \in [Tix -> SlaTicket] /\ sweeps[s].at \in Int
    BY <2>1, SlaAssumption DEF Sweep, Instants
  <2>3. \A d \in sweeps[s].page \cup sweeps[s].due : Earned(d[1], d[2])'
    BY <1>5, <2>1, <2>2 DEF SweepHolds
  <2>4. ASSUME NEW u \in Tix PROVE HeldHolds(u, sweeps[s].held[u], sweeps[s].at)'
    <3>1. HeldHolds(u, sweeps[s].held[u], sweeps[s].at) /\ sweeps[s].at <= time
      BY <2>1 DEF SweepHolds
    <3>2. CASE u # t  BY <1>1, <2>1, <3>1, <3>2 DEF HeldHolds, TimerHolds, StoppedAt
    <3>3. CASE u = t
      <4> DEFINE row == sweeps[s].held[t]
      <4> SUFFICES ASSUME row.created # Never
                   PROVE  /\ row.created = c.created
                          /\ \A timer \in Timers :
                                /\ StoppedAt(timer, row) <= time
                                /\ \/ StoppedAt(timer, row) = StoppedAt(timer, c)
                                   \/ StoppedAt(timer, c) = Never
                                   \/ l[timer] >= sweeps[s].at /\ l[timer] >= StoppedAt(timer, row)
        BY <1>1, <2>1, <3>3 DEF HeldHolds, TimerHolds, StoppedAt
      <4>1. row.created = tix[t].created /\ \A timer \in Timers : TimerHolds(t, row, timer, sweeps[s].at)
        BY <3>1, <3>3 DEF HeldHolds
      <4>2. row.created = c.created  BY <4>1
      <4>3. \A timer : StoppedAt(timer, row) \in Int
        BY <2>2, SlaAssumption DEF StoppedAt, SlaTicket, Instants
      <4> HIDE DEF row
      <4> QED  BY <1>1, <2>2, <3>1, <4>1, <4>2, <4>3 DEF TimerHolds, Moves
    <3> QED  BY <3>2, <3>3
  <2> QED  BY <1>1, <2>1, <2>3, <2>4 DEF SweepHolds, OneEach
<1> QED  BY <1>2, <1>3, <1>6, <1>7 DEF SweepInv

LEMMA ArriveHolds ==
    ASSUME SweepInv, NEW t \in Tix, NEW p \in Priorities, NEW born \in 0 .. time,
           Arrive(t, p, born)
    PROVE  SweepInv'
<1>1. /\ tix \in [Tix -> SlaTicket] /\ landed \in [Tix -> [Timers -> Instants]]
      /\ time \in 0 .. Horizon /\ born \in Instants /\ Never \in Instants /\ born <= time
      /\ Never <= time /\ tix[t].created = Never /\ TicketHolds(tix[t], landed[t])
  BY SlaAssumption DEF SweepInv, SlaTypeOK, Instants, Never, Arrive
<1>2. PICK c \in SlaTicket : c = [created |-> born, priority |-> p, status |-> "open",
                                  responded |-> Never, resolved |-> Never]
  BY <1>1 DEF SlaTicket, SlaStatuses
<1>3. tix' = [tix EXCEPT ![t] = c] /\ landed' = [landed EXCEPT ![t] = landed[t]]
  BY <1>1, <1>2 DEF Arrive
<1>4. c.created = born /\ \A timer : StoppedAt(timer, c) = Never  BY <1>2 DEF StoppedAt
<1>5. \A timer \in Timers : Moves(t, c, landed[t], timer)
  BY <1>1, <1>4 DEF Moves, TicketHolds
<1>6. writes' \in [Staff -> Writes]  BY DEF SweepInv, SlaTypeOK, Arrive
<1> QED  BY <1>1, <1>3, <1>4, <1>5, <1>6, TicketMoves DEF Arrive

\* What is between a load and its commit matters to no part but its type.
LEMMA WritesMove ==
    ASSUME SweepInv, writes' \in [Staff -> Writes],
           UNCHANGED <<time, policies, tix, landed, alerts, sweeps, deaths>>
    PROVE  SweepInv'
  BY DEF SweepInv, SlaTypeOK, TicketHolds, AlertHolds, Earned, SweepHolds, HeldHolds, TimerHolds,
         OneEach, StoppedAt

LEMMA DecideHolds ==
    ASSUME SweepInv, NEW r \in Staff, NEW t \in Tix, NEW p \in Priorities,
           NEW act \in {"answer", "resolve", "close", "reopen", "priority"}, Decide(r, t, act, p)
    PROVE  SweepInv'
<1>1. writes \in [Staff -> Writes] /\ time \in Instants
  BY SlaAssumption DEF SweepInv, SlaTypeOK, Instants
<1>2. writes' \in [Staff -> Writes]  BY <1>1 DEF Decide, Writes
<1> QED  BY <1>2, WritesMove DEF Decide

LEMMA FailHolds == ASSUME SweepInv, NEW r \in Staff, Fail(r) PROVE SweepInv'
<1>1. writes' \in [Staff -> Writes]  BY NoTixIs DEF SweepInv, SlaTypeOK, Fail
<1> QED  BY <1>1, WritesMove DEF Fail

\* A decision dates the timers it stops, and leaves the others or clears them.
LEMMA WrittenIs ==
    ASSUME NEW row \in SlaTicket, NEW w \in Writes, NEW at \in Instants,
           NEW c, c = Written(row, w, at)
    PROVE  /\ c \in SlaTicket /\ c.created = row.created
           /\ \A timer \in Timers :
                 \/ timer \in Stops(w) /\ StoppedAt(timer, c) = at
                 \/ /\ timer \notin Stops(w)
                    /\ StoppedAt(timer, c) \in {StoppedAt(timer, row), Never}
<1>0. Never \in Instants /\ w.to \in Priorities  BY SlaAssumption DEF Never, Instants, Writes
<1>1. CASE w.act = "answer"
  <2>1. c = [row EXCEPT !.responded = at]  BY <1>1 DEF Written
  <2> QED  BY <1>1, <2>1 DEF SlaTicket, Stops, StoppedAt, Timers
<1>2. CASE w.act = "resolve"
  <2>1. c = [row EXCEPT !.status = "resolved", !.resolved = at]  BY <1>2 DEF Written
  <2> QED  BY <1>2, <2>1 DEF SlaTicket, SlaStatuses, Stops, StoppedAt, Timers
<1>3. CASE w.act = "close"
  <2>1. c = [row EXCEPT !.status = "closed", !.resolved = IF w.dated THEN row.resolved ELSE at]
    BY <1>3 DEF Written, SlaTicket
  <2> QED  BY <1>3, <2>1 DEF SlaTicket, SlaStatuses, Stops, StoppedAt, Timers
<1>4. CASE w.act = "reopen"
  <2>1. c = [row EXCEPT !.status = "open", !.resolved = IF w.dated THEN Never ELSE row.resolved]
    BY <1>4 DEF Written, SlaTicket
  <2> QED  BY <1>0, <1>4, <2>1 DEF SlaTicket, SlaStatuses, Stops, StoppedAt, Timers
<1>5. CASE w.act \notin {"answer", "resolve", "close", "reopen"}
  <2>1. c = [row EXCEPT !.priority = w.to]  BY <1>5 DEF Written
  <2> QED  BY <1>0, <1>5, <2>1 DEF SlaTicket, Stops, StoppedAt, Timers
<1> QED  BY <1>1, <1>2, <1>3, <1>4, <1>5

LEMMA LandHolds ==
    ASSUME SweepInv, NEW r \in Staff, NEW at \in 0 .. time, CommitRow(r, at) PROVE SweepInv'
<1>1. PICK w \in Writes : w = writes[r]  BY DEF SweepInv, SlaTypeOK
<1>2. PICK t \in Tix : t = w.ticket  BY DEF Writes
<1>3. /\ tix \in [Tix -> SlaTicket] /\ tix[t] \in SlaTicket
      /\ landed \in [Tix -> [Timers -> Instants]] /\ TicketHolds(tix[t], landed[t])
      /\ time \in 0 .. Horizon /\ time \in Instants /\ at \in Instants /\ at <= time
      /\ Never \in Instants /\ Never <= time
  BY SlaAssumption DEF SweepInv, SlaTypeOK, Instants, Never
<1>4. PICK c : c = Written(tix[t], w, at)  OBVIOUS
<1>5. /\ c \in SlaTicket /\ c.created = tix[t].created
      /\ \A timer \in Timers :
            \/ timer \in Stops(w) /\ StoppedAt(timer, c) = at
            \/ /\ timer \notin Stops(w)
               /\ StoppedAt(timer, c) \in {StoppedAt(timer, tix[t]), Never}
  BY <1>3, <1>4, WrittenIs
<1>6. tix' = [tix EXCEPT ![t] = c]  BY <1>1, <1>2, <1>3, <1>4 DEF CommitRow
<1>7. tix'[t] = c  BY <1>3, <1>6
<1>8. PICK l : l = [timer \in Timers |->
                      CASE timer \in Stops(w) -> time
                        [] StoppedAt(timer, c) = Never -> Never
                        [] OTHER -> landed[t][timer]]
  OBVIOUS
<1>9. landed' = [landed EXCEPT ![t] = l]  BY <1>1, <1>2, <1>7, <1>8 DEF CommitRow
<1>10. ASSUME NEW timer \in Timers
       PROVE  /\ timer \in Stops(w) => l[timer] = time
              /\ timer \notin Stops(w) /\ StoppedAt(timer, c) = Never => l[timer] = Never
              /\ timer \notin Stops(w) /\ StoppedAt(timer, c) # Never =>
                    l[timer] = landed[t][timer]
              /\ StoppedAt(timer, c) = Never \/ timer \in Stops(w)
                    \/ StoppedAt(timer, c) = StoppedAt(timer, tix[t])
  <2>1. \/ timer \in Stops(w)
        \/ StoppedAt(timer, c) \in {StoppedAt(timer, tix[t]), Never}
    BY <1>5
  <2>2. timer \in Stops(w) => l[timer] = time
    <3> SUFFICES ASSUME timer \in Stops(w) PROVE l[timer] = time  OBVIOUS
    <3>1. StoppedAt(timer, c) # Never  BY <1>5 DEF Never
    <3> QED  BY <1>8, <3>1
  <2>3. CASE timer \notin Stops(w) /\ StoppedAt(timer, c) = Never  BY <1>8, <2>3
  <2>4. CASE timer \notin Stops(w) /\ StoppedAt(timer, c) # Never  BY <1>8, <2>1, <2>4
  <2> QED  BY <2>1, <2>2, <2>3, <2>4
<1>11. l \in [Timers -> Instants]
  <2>1. \A timer \in Timers : l[timer] \in Instants
    <3> TAKE timer \in Timers
    <3>1. landed[t][timer] \in Instants  BY <1>3
    <3> QED  BY <1>3, <1>10, <3>1
  <2> QED  BY <1>8, <2>1
<1>12. ASSUME NEW timer \in Timers PROVE Moves(t, c, l, timer)
  <2>1. /\ StoppedAt(timer, tix[t]) <= time /\ landed[t][timer] <= time
    BY <1>3 DEF TicketHolds
  <2>2. timer \in Stops(w) => StoppedAt(timer, c) = at  BY <1>5
  <2> QED  BY <1>3, <1>10, <2>1, <2>2 DEF Moves
<1>13. writes' \in [Staff -> Writes]  BY NoTixIs DEF SweepInv, SlaTypeOK, CommitRow
<1>14. c.created <= time  BY <1>3, <1>5 DEF TicketHolds
<1> QED  BY <1>5, <1>6, <1>9, <1>11, <1>12, <1>13, <1>14, TicketMoves DEF CommitRow

\* Policies matter to no part of the invariant but their type.
LEMMA PolicyMoves ==
    ASSUME SweepInv, NEW p \in Priorities, NEW new \in Policies[p], EditPolicy(p, new)
    PROVE  SweepInv'
<1>1. policies \in Choices  BY DEF SweepInv, SlaTypeOK
<1>2. policies' = [policies EXCEPT ![p] = new]  BY DEF EditPolicy
<1>3. policies' \in Choices  BY <1>1, <1>2 DEF Choices
<1>4. UNCHANGED <<time, tix, writes, landed, alerts, sweeps, deaths>>  BY DEF EditPolicy
<1> QED
  BY <1>3, <1>4 DEF SweepInv, SlaTypeOK, TicketHolds, AlertHolds, Earned, SweepHolds, HeldHolds,
                    TimerHolds, OneEach, StoppedAt

LEMMA ClockMoves == ASSUME SweepInv, Pass PROVE SweepInv'
<1>1. /\ time \in 0 .. Horizon /\ time' = time + 1 /\ time' \in 0 .. Horizon
      /\ tix \in [Tix -> SlaTicket] /\ sweeps \in [Sweeps -> Sweep]
      /\ landed \in [Tix -> [Timers -> Instants]]
      /\ alerts \in [AlertKeys -> [count : Nat, due : Nat]]
  BY SlaAssumption DEF SweepInv, SlaTypeOK, Pass
<1>2. UNCHANGED <<policies, tix, writes, landed, alerts, sweeps, deaths>>  BY DEF Pass
<1>3. SlaTypeOK'  BY <1>1, <1>2 DEF SweepInv, SlaTypeOK
<1>0. \A c \in SlaTicket : \A timer : StoppedAt(timer, c) \in Int
  BY SlaAssumption DEF StoppedAt, SlaTicket, Instants
<1>5. \A k \in AlertKeys, due \in Nat : Earned(k, due) => Earned(k, due)'
  BY <1>1, <1>2 DEF Earned, StoppedAt
<1>6. ASSUME NEW t \in Tix PROVE TicketHolds(tix[t], landed[t])'
  <2>1. TicketHolds(tix[t], landed[t]) /\ tix[t] \in SlaTicket /\ tix[t].created \in Int
    BY <1>1, SlaAssumption DEF SweepInv, SlaTicket, Instants
  <2>2. \A timer \in Timers : landed[t][timer] \in Int /\ StoppedAt(timer, tix[t]) \in Int
    BY <1>0, <1>1, <2>1, SlaAssumption DEF Instants
  <2>3. \A timer : StoppedAt(timer, tix[t])' = StoppedAt(timer, tix[t])
    BY <1>2 DEF StoppedAt
  <2> QED  BY <1>1, <1>2, <2>1, <2>2, <2>3 DEF TicketHolds
<1>7. ASSUME NEW k \in AlertKeys PROVE AlertHolds(k)'
  BY <1>1, <1>2, <1>5 DEF SweepInv, AlertHolds
<1>8. ASSUME NEW s \in Sweeps PROVE SweepHolds(sweeps[s])'
  <2>1. sweeps[s] \in Sweep /\ SweepHolds(sweeps[s])  BY <1>1 DEF SweepInv
  <2>2. sweeps[s].at \in Int /\ sweeps[s].held \in [Tix -> SlaTicket]
        /\ sweeps[s].page \subseteq AlertKeys \X Nat /\ sweeps[s].due \subseteq AlertKeys \X Nat
    BY <2>1, SlaAssumption DEF Sweep, Instants
  <2>3. \A d \in sweeps[s].page \cup sweeps[s].due : Earned(d[1], d[2])'
    BY <1>5, <2>1, <2>2 DEF SweepHolds
  <2>4. ASSUME NEW t \in Tix PROVE HeldHolds(t, sweeps[s].held[t], sweeps[s].at)'
    <3>1. HeldHolds(t, sweeps[s].held[t], sweeps[s].at)  BY <2>1 DEF SweepHolds
    <3>2. \A timer : StoppedAt(timer, sweeps[s].held[t]) \in Int  BY <1>0, <2>2
    <3>3. \A timer : /\ StoppedAt(timer, tix[t])' = StoppedAt(timer, tix[t])
                     /\ StoppedAt(timer, sweeps[s].held[t])' = StoppedAt(timer, sweeps[s].held[t])
      BY <1>2 DEF StoppedAt
    <3> QED  BY <1>1, <1>2, <3>1, <3>2, <3>3 DEF HeldHolds, TimerHolds
  <2>5. (sweeps[s].at <= time)'
    BY <1>1, <1>2, <2>1, <2>2 DEF SweepHolds
  <2> QED  BY <1>2, <2>1, <2>3, <2>4, <2>5 DEF SweepHolds, OneEach
<1> QED  BY <1>3, <1>6, <1>7, <1>8 DEF SweepInv

-----------------------------------------------------------------------------
(* The sweeps. *)

\* A sweep moves on; nothing else does.
LEMMA SweepMoves ==
    ASSUME SweepInv, NEW s \in Sweeps, NEW w \in Sweep, SweepHolds(w),
           sweeps' = [sweeps EXCEPT ![s] = w],
           UNCHANGED <<time, policies, tix, writes, landed, alerts>>, deaths' \in 0 .. Deaths
    PROVE  SweepInv'
<1>1. /\ sweeps' \in [Sweeps -> Sweep] /\ sweeps'[s] = w
      /\ \A r \in Sweeps \ {s} : sweeps'[r] = sweeps[r]
  BY DEF SweepInv, SlaTypeOK
<1>2. SlaTypeOK'  BY <1>1 DEF SweepInv, SlaTypeOK
<1>3. ASSUME NEW r \in Sweeps PROVE SweepHolds(sweeps[r])'
  BY <1>1 DEF SweepInv, SweepHolds, HeldHolds, TimerHolds, Earned, StoppedAt
<1> QED
  BY <1>2, <1>3 DEF SweepInv, TicketHolds, AlertHolds, Earned, StoppedAt

LEMMA BeginHolds == ASSUME SweepInv, NEW s \in Sweeps, BeginSweep(s) PROVE SweepInv'
<1>1. policies \in Choices /\ time \in 0 .. Horizon /\ time \in Instants /\ deaths \in 0 .. Deaths
      /\ Active \subseteq Priorities
  BY DEF SweepInv, SlaTypeOK, Instants, Active
<1>0. PICK w \in Sweep : w = [Asleep EXCEPT !.pc = "running", !.at = time, !.under = policies,
                                            !.left = Active]
  BY <1>1, AsleepHolds DEF Sweep
<1>2. w.at = time /\ w.held = Asleep.held /\ w.page = {} /\ w.due = {}
  BY <1>0, AsleepHolds DEF Sweep
<1>3. SweepHolds(w)  BY <1>1, <1>2, AsleepHolds, NoTixIs DEF SweepHolds, HeldHolds, OneEach
<1>4. sweeps' = [sweeps EXCEPT ![s] = w]  BY <1>0 DEF BeginSweep
<1> QED  BY <1>1, <1>3, <1>4, SweepMoves DEF BeginSweep

LEMMA SleeperHolds == ASSUME SweepInv PROVE SweepHolds(Asleep)
  BY AsleepHolds, NoTixIs, SlaAssumption
     DEF SweepInv, SlaTypeOK, SweepHolds, HeldHolds, OneEach, Never

LEMMA PerishHolds == ASSUME SweepInv, NEW s \in Sweeps, Perish(s) PROVE SweepInv'
<1>2. deaths' \in 0 .. Deaths  BY SlaAssumption DEF SweepInv, SlaTypeOK, Perish
<1> QED  BY <1>2, SleeperHolds, AsleepHolds, SweepMoves DEF Perish

\* A page holds each ticket as it is, or as the page before held it.
LEMMA LoadedHolds ==
    ASSUME SweepInv, NEW s \in Sweeps, NEW set, NEW rows, rows = Loaded(s, set)
    PROVE  /\ rows \in [Tix -> SlaTicket]
           /\ \A t \in Tix : HeldHolds(t, rows[t], sweeps[s].at)
<1>1. sweeps[s] \in Sweep /\ SweepHolds(sweeps[s]) /\ tix \in [Tix -> SlaTicket]
  BY DEF SweepInv, SlaTypeOK
<1>2. sweeps[s].held \in [Tix -> SlaTicket]  BY <1>1 DEF Sweep
<1>3. ASSUME NEW t \in Tix
      PROVE  rows[t] \in SlaTicket /\ HeldHolds(t, rows[t], sweeps[s].at)
  <2>1. \/ t \notin set /\ rows[t] = NoTix
        \/ t \in set /\ rows[t] = sweeps[s].held[t]
        \/ t \in set /\ rows[t] = tix[t]
    BY DEF Loaded
  <2>2. HeldHolds(t, NoTix, sweeps[s].at)  BY NoTixIs DEF HeldHolds
  <2>3. HeldHolds(t, sweeps[s].held[t], sweeps[s].at)  BY <1>1 DEF SweepHolds
  <2>4. HeldHolds(t, tix[t], sweeps[s].at)  BY DEF SweepInv, TicketHolds, HeldHolds, TimerHolds
  <2> QED  BY <1>1, <1>2, <2>1, <2>2, <2>3, <2>4, NoTixIs
<1>4. rows = [t \in Tix |-> rows[t]]  BY DEF Loaded
<1> QED  BY <1>3, <1>4

\* What is called for is typed, one of each, and earned.
LEMMA CalledForHolds ==
    ASSUME SweepInv, NEW rows \in [Tix -> SlaTicket], NEW policy, IsPolicy(policy),
           NEW now \in Int, now <= time, \A t \in Tix : HeldHolds(t, rows[t], now)
    PROVE  /\ CalledFor(rows, policy, now) \subseteq AlertKeys \X Nat
           /\ OneEach(CalledFor(rows, policy, now))
           /\ \A d \in CalledFor(rows, policy, now) : Earned(d[1], d[2])
<1>1. ASSUME NEW d \in CalledFor(rows, policy, now)
      PROVE  /\ d[1] \in AlertKeys
             /\ d = <<d[1], DueAt(d[1][2][1], rows[d[1][1]], policy)>>
             /\ rows[d[1][1]].created # Never
             /\ d[1][2] \in Warranted(rows[d[1][1]], policy, now)
  <2>1. PICK k \in AlertKeys : /\ d = <<k, DueAt(k[2][1], rows[k[1]], policy)>>
                               /\ rows[k[1]].created # Never
                               /\ k[2] \in Warranted(rows[k[1]], policy, now)
    BY DEF CalledFor
  <2> QED  BY <2>1
<1>2. ASSUME NEW d \in CalledFor(rows, policy, now)
      PROVE  d \in AlertKeys \X Nat /\ Earned(d[1], d[2])
  <2> DEFINE t == d[1][1]  timer == d[1][2][1]  due == DueAt(timer, rows[t], policy)
  <2>1. t \in Tix /\ timer \in Timers /\ d[2] = due /\ d[1] \in AlertKeys
        /\ rows[t] \in SlaTicket /\ rows[t].created # Never /\ HeldHolds(t, rows[t], now)
    BY <1>1 DEF AlertKeys
  <2>2. due \in Nat /\ StoppedAt(timer, rows[t]) \in Instants  BY <2>1, DueType
  <2>3. d \in AlertKeys \X Nat
    <3> HIDE DEF t, timer, due
    <3>1. d = <<d[1], d[2]>>  BY <1>1
    <3> QED  BY <2>1, <2>2, <3>1
  <2>4. ASSUME d[1][2][2] = "breached"
        PROVE  /\ due <= time
               /\ StoppedAt(timer, tix[t]) # Never => landed[t][timer] >= due
    <3>1. TimerState(timer, rows[t], policy, now) = "breached"
      BY <1>1, <2>4 DEF Warranted
    <3>2. \/ /\ StoppedAt(timer, rows[t]) # Never
             /\ StoppedAt(timer, rows[t]) > due
          \/ /\ StoppedAt(timer, rows[t]) = Never
             /\ now >= due
      BY <2>1, <3>1, BreachedMeans
    <3>3. TimerHolds(t, rows[t], timer, now) /\ StoppedAt(timer, rows[t]) <= time
      BY <2>1 DEF HeldHolds, TimerHolds
    <3>4. TicketHolds(tix[t], landed[t])  BY <2>1 DEF SweepInv
    <3>5. StoppedAt(timer, tix[t]) # Never => StoppedAt(timer, tix[t]) <= landed[t][timer]
      BY <2>1, <3>4 DEF TicketHolds
    <3>6. /\ time \in Nat /\ StoppedAt(timer, tix[t]) \in Int /\ landed[t][timer] \in Int
          /\ StoppedAt(timer, rows[t]) \in Int /\ due \in Int
      <4>1. tix[t] \in SlaTicket /\ landed[t] \in [Timers -> Instants]
        BY <2>1 DEF SweepInv, SlaTypeOK
      <4>2. StoppedAt(timer, tix[t]) \in Int  BY <4>1, SlaAssumption DEF StoppedAt, SlaTicket, Instants
      <4> QED  BY <2>1, <2>2, <4>1, <4>2, SlaAssumption DEF SweepInv, SlaTypeOK, Instants
    <3> HIDE DEF t, timer, due
    <3> QED  BY <3>2, <3>3, <3>5, <3>6 DEF TimerHolds
  <2> QED  BY <2>1, <2>3, <2>4 DEF Earned
<1>3. OneEach(CalledFor(rows, policy, now))
  <2> SUFFICES ASSUME NEW d \in CalledFor(rows, policy, now),
                      NEW e \in CalledFor(rows, policy, now), d[1] = e[1]
               PROVE  d = e
    BY DEF OneEach
  <2> QED  BY <1>1
<1> QED  BY <1>2, <1>3

LEMMA PageHolds ==
    ASSUME SweepInv, NEW s \in Sweeps, NEW p \in Priorities, Page(s, p) PROVE SweepInv'
<1>1. sweeps[s] \in Sweep /\ SweepHolds(sweeps[s]) /\ sweeps \in [Sweeps -> Sweep]
      /\ deaths \in 0 .. Deaths
  BY DEF SweepInv, SlaTypeOK
<1>2. sweeps[s].under \in Choices /\ sweeps[s].at \in Int /\ sweeps[s].at <= time
      /\ sweeps[s].due \subseteq AlertKeys \X Nat /\ sweeps[s].left \subseteq Priorities
  BY <1>1, SlaAssumption DEF Sweep, SweepHolds, Instants
<1>3. PICK policy : policy = sweeps[s].under[p] /\ IsPolicy(policy)
  BY <1>2, PoliciesAre
<1>4. PICK rows : rows = Loaded(s, OldestOf(Pending(p, policy, sweeps[s].at)))
  OBVIOUS
<1>5. rows \in [Tix -> SlaTicket] /\ \A t \in Tix : HeldHolds(t, rows[t], sweeps[s].at)
  BY <1>4, LoadedHolds
<1>6. PICK page : page = CalledFor(rows, policy, sweeps[s].at)  OBVIOUS
<1>7. page \subseteq AlertKeys \X Nat /\ OneEach(page) /\ \A d \in page : Earned(d[1], d[2])
  BY <1>2, <1>3, <1>5, <1>6, CalledForHolds
<1>8. PICK w \in Sweep : w = [sweeps[s] EXCEPT !.pc = "paged", !.left = sweeps[s].left \ {p},
                                               !.held = rows, !.page = page]
  BY <1>1, <1>2, <1>5, <1>7 DEF Sweep
<1>9. w.at = sweeps[s].at /\ w.held = rows /\ w.page = page /\ w.due = sweeps[s].due
  BY <1>1, <1>8 DEF Sweep
<1>10. SweepHolds(w)  BY <1>1, <1>2, <1>5, <1>7, <1>9 DEF SweepHolds
<1>11. sweeps' = [sweeps EXCEPT ![s] = w]  BY <1>1, <1>3, <1>4, <1>6, <1>8 DEF Page
<1> QED  BY <1>1, <1>10, <1>11, SweepMoves DEF Page

LEMMA MatchHolds == ASSUME SweepInv, NEW s \in Sweeps, Match(s) PROVE SweepInv'
<1>1. sweeps[s] \in Sweep /\ SweepHolds(sweeps[s]) /\ sweeps \in [Sweeps -> Sweep]
      /\ deaths \in 0 .. Deaths
  BY DEF SweepInv, SlaTypeOK
<1>2. sweeps[s].page \subseteq AlertKeys \X Nat /\ sweeps[s].due \subseteq AlertKeys \X Nat
      /\ sweeps[s].held \in [Tix -> SlaTicket]
  BY <1>1 DEF Sweep
<1>3. PICK due : due = sweeps[s].due \cup Unrecorded(s)  OBVIOUS
<1>4. /\ due \subseteq AlertKeys \X Nat /\ due \subseteq sweeps[s].page \cup sweeps[s].due
      /\ OneEach(due)
  BY <1>1, <1>2, <1>3 DEF Unrecorded, SweepHolds, OneEach
<1>5. PICK held \in [Tix -> SlaTicket] :
         /\ held = IF sweeps[s].left = {} THEN Asleep.held ELSE sweeps[s].held
         /\ \A t \in Tix : HeldHolds(t, held[t], sweeps[s].at)
  BY <1>1, <1>2, AsleepHolds, NoTixIs DEF SweepHolds, HeldHolds
<1>6. PICK w \in Sweep : w = [sweeps[s] EXCEPT !.pc = "running", !.page = {}, !.held = held,
                                               !.due = due]
  BY <1>1, <1>4, <1>5 DEF Sweep
<1>7. w.at = sweeps[s].at /\ w.held = held /\ w.page = {} /\ w.due = due
  BY <1>1, <1>6 DEF Sweep
<1>8. SweepHolds(w)  BY <1>1, <1>4, <1>5, <1>7 DEF SweepHolds, OneEach
<1>9. sweeps' = [sweeps EXCEPT ![s] = w]  BY <1>1, <1>3, <1>5, <1>6 DEF Match
<1> QED  BY <1>1, <1>8, <1>9, SweepMoves DEF Match

\* A sweep staged at most one event of a timer and kind, and earned it.
LEMMA DuesAre ==
    ASSUME SweepInv, NEW s \in Sweeps, NEW k \in AlertKeys
    PROVE  \/ DuesOf(s, k) = {} /\ Cardinality(DuesOf(s, k)) = 0
           \/ \E due \in Nat : /\ DuesOf(s, k) = {due} /\ Cardinality(DuesOf(s, k)) = 1
                               /\ Earned(k, due) /\ <<k, due>> \in sweeps[s].due
<1>1. sweeps[s] \in Sweep /\ SweepHolds(sweeps[s])  BY DEF SweepInv, SlaTypeOK
<1>2. sweeps[s].due \subseteq AlertKeys \X Nat  BY <1>1 DEF Sweep
<1>3. CASE DuesOf(s, k) = {}  BY <1>3, FS_EmptySet
<1>4. CASE DuesOf(s, k) # {}
  <2>1. PICK d \in sweeps[s].due : d[1] = k  BY <1>4 DEF DuesOf
  <2>2. DuesOf(s, k) = {d[2]}  BY <1>1, <2>1 DEF DuesOf, SweepHolds, OneEach
  <2>3. d = <<k, d[2]>> /\ d[2] \in Nat /\ Earned(k, d[2])
    BY <1>1, <1>2, <2>1 DEF SweepHolds
  <2>4. Cardinality({d[2]}) = 1  BY FS_Singleton
  <2> QED  BY <2>1, <2>2, <2>3, <2>4
<1> QED  BY <1>3, <1>4

LEMMA RecordHolds == ASSUME SweepInv, NEW s \in Sweeps, Record(s) PROVE SweepInv'
<1>1. /\ alerts \in [AlertKeys -> [count : Nat, due : Nat]] /\ sweeps \in [Sweeps -> Sweep]
      /\ UNCHANGED <<time, policies, tix, writes, landed, deaths>>
      /\ sweeps' = [sweeps EXCEPT ![s] = Asleep]
  BY DEF SweepInv, SlaTypeOK, Record
<1> DEFINE After(k) ==
             [count |-> alerts[k].count + Cardinality(DuesOf(s, k)),
              due |-> IF alerts[k].count = 0 /\ DuesOf(s, k) # {}
                      THEN CHOOSE d \in DuesOf(s, k) : TRUE ELSE alerts[k].due]
<1>2. alerts' = [k \in AlertKeys |-> After(k)]  BY DEF Record
<1>3. ASSUME NEW k \in AlertKeys
      PROVE  /\ After(k) \in [count : Nat, due : Nat]
             /\ After(k).count > 0 => Earned(k, After(k).due)
  <2>1. alerts[k] \in [count : Nat, due : Nat] /\ AlertHolds(k)  BY <1>1 DEF SweepInv
  <2>2. CASE DuesOf(s, k) = {} /\ Cardinality(DuesOf(s, k)) = 0
    <3>1. After(k) \in [count : Nat, due : Nat] /\ After(k).count = alerts[k].count
          /\ After(k).due = alerts[k].due
      BY <2>1, <2>2
    <3> QED  BY <2>1, <3>1 DEF AlertHolds
  <2>3. CASE \E due \in Nat : /\ DuesOf(s, k) = {due} /\ Cardinality(DuesOf(s, k)) = 1
                              /\ Earned(k, due) /\ <<k, due>> \in sweeps[s].due
    <3>1. PICK due \in Nat : /\ DuesOf(s, k) = {due} /\ Cardinality(DuesOf(s, k)) = 1
                             /\ Earned(k, due)
      BY <2>3
    <3>2. (CHOOSE d \in DuesOf(s, k) : TRUE) = due  BY <3>1
    <3>3. /\ After(k) \in [count : Nat, due : Nat]
          /\ After(k).due = IF alerts[k].count = 0 THEN due ELSE alerts[k].due
      BY <2>1, <3>1, <3>2
    <3> QED  BY <2>1, <3>1, <3>3 DEF AlertHolds
  <2> QED  BY <2>2, <2>3, DuesAre
<1> HIDE DEF After
<1>4. alerts' \in [AlertKeys -> [count : Nat, due : Nat]]
      /\ \A k \in AlertKeys : alerts'[k] = After(k)
  BY <1>2, <1>3
<1>5. sweeps' \in [Sweeps -> Sweep] /\ sweeps'[s] = Asleep
      /\ \A r \in Sweeps \ {s} : sweeps'[r] = sweeps[r]
  BY <1>1, AsleepHolds
<1>6. SlaTypeOK'  BY <1>1, <1>4, <1>5 DEF SweepInv, SlaTypeOK
<1>7. \A t \in Tix : TicketHolds(tix[t], landed[t])'
  BY <1>1 DEF SweepInv, TicketHolds, StoppedAt
<1>8. ASSUME NEW k \in AlertKeys PROVE AlertHolds(k)'
  BY <1>1, <1>3, <1>4 DEF AlertHolds, Earned, StoppedAt
<1>9. SweepHolds(Asleep)  BY SleeperHolds
<1>10. ASSUME NEW r \in Sweeps PROVE SweepHolds(sweeps[r])'
  BY <1>1, <1>5, <1>9 DEF SweepInv, SweepHolds, HeldHolds, TimerHolds, Earned, StoppedAt
<1> QED  BY <1>6, <1>7, <1>8, <1>10 DEF SweepInv

LEMMA SweepNext == SweepInv /\ [SlaNext]_slaVars => SweepInv'
<1> SUFFICES ASSUME SweepInv, [SlaNext]_slaVars PROVE SweepInv'  OBVIOUS
<1>1. CASE UNCHANGED slaVars
  BY <1>1 DEF slaVars, SweepInv, SlaTypeOK, TicketHolds, AlertHolds, Earned, SweepHolds,
              HeldHolds, TimerHolds, OneEach, StoppedAt
<1>2. CASE Pass  BY <1>2, ClockMoves
<1>3. CASE \E t \in Tix, p \in Priorities, born \in 0 .. time : Arrive(t, p, born)
  BY <1>3, ArriveHolds
<1>4. ASSUME NEW r \in Staff, NEW t \in Tix,
             \/ FirstAnswer(r, t) \/ Resolve(r, t) \/ CloseTicket(r, t) \/ ReopenTicket(r, t)
             \/ \E p \in Priorities : Reprioritise(r, t, p)
      PROVE  SweepInv'
  <2>1. tix[t].priority \in Priorities  BY DEF SweepInv, SlaTypeOK, SlaTicket
  <2>2. \E act \in {"answer", "resolve", "close", "reopen", "priority"}, p \in Priorities :
           Decide(r, t, act, p)
    BY <1>4, <2>1 DEF FirstAnswer, Resolve, CloseTicket, ReopenTicket, Reprioritise
  <2> QED  BY <2>2, DecideHolds
<1>5. ASSUME NEW r \in Staff, Fail(r) \/ \E at \in 0 .. time : CommitRow(r, at) PROVE SweepInv'
  BY <1>5, FailHolds, LandHolds
<1>6. CASE \E p \in Priorities : \E new \in Policies[p] : EditPolicy(p, new)
  BY <1>6, PolicyMoves
<1>7. ASSUME NEW s \in Sweeps, SweepStep(s) \/ Perish(s) PROVE SweepInv'
  BY <1>7, BeginHolds, PageHolds, MatchHolds, RecordHolds, PerishHolds DEF SweepStep
<1> QED  BY <1>1, <1>2, <1>3, <1>4, <1>5, <1>6, <1>7 DEF SlaNext

THEOREM Swept == SlaSpec => []SweepInv
  BY SweepBegins, SweepNext, PTL DEF SlaSpec

\* A breach on the record is one: its due_at has passed, and what stopped the
\* timer, if anything, was committed no sooner, whatever was answered, resolved,
\* reprioritised or edited while the sweeps ran, and however many ran at a time
\* (_sweep, resolve_timer).
THEOREM EarnedBreach == SlaSpec => []BreachIsEarned
<1>1. ASSUME SweepInv PROVE BreachIsEarned
  <2> SUFFICES ASSUME NEW t \in Tix, NEW timer \in Timers,
                      alerts[<<t, <<timer, "breached">>>>].count > 0
               PROVE  LET a == alerts[<<t, <<timer, "breached">>>>] IN
                      /\ a.due <= time
                      /\ StoppedAt(timer, tix[t]) # Never => landed[t][timer] >= a.due
    BY DEF BreachIsEarned
  <2> DEFINE k == <<t, <<timer, "breached">>>>
  <2>1. k \in AlertKeys  BY DEF AlertKeys, AlertKinds
  <2>2. Earned(k, alerts[k].due)  BY <1>1, <2>1 DEF SweepInv, AlertHolds
  <2> QED  BY <2>2 DEF Earned
<1> QED  BY <1>1, Swept, PTL

-----------------------------------------------------------------------------
(* Sweeps that overlap. *)

LEMMA StagingIs ==
    \A k : /\ IsFiniteSet(Staging(k)) /\ Cardinality(Staging(k)) \in Nat
           /\ Cardinality(Staging(k)) <= Cardinality(Sweeps) /\ Cardinality(Sweeps) \in Nat
<1> TAKE k
<1>1. Staging(k) \subseteq Sweeps /\ IsFiniteSet(Sweeps)  BY SlaAssumption DEF Staging
<1> QED  BY <1>1, FS_Subset, FS_CardinalityType

\* A step after which no sweep stages what it did not stage before.
LEMMA NothingStaged ==
    ASSUME SweepInv, RepeatsNeedOverlap, alerts' = alerts,
           \A s \in Sweeps : sweeps'[s].due \subseteq sweeps[s].due
    PROVE  RepeatsNeedOverlap'
<1> SUFFICES ASSUME NEW k \in AlertKeys
             PROVE  alerts[k].count + Cardinality(Staging(k)') <= Cardinality(Sweeps)
  BY DEF RepeatsNeedOverlap
<1>1. Staging(k)' \subseteq Staging(k)  BY DEF Staging
<1>2. /\ Cardinality(Staging(k)') \in Nat /\ Cardinality(Staging(k)) \in Nat
      /\ Cardinality(Staging(k)') <= Cardinality(Staging(k)) /\ Cardinality(Sweeps) \in Nat
  BY <1>1, StagingIs, FS_Subset, FS_CardinalityType
<1>3. alerts[k].count \in Nat  BY DEF SweepInv, SlaTypeOK
<1>4. alerts[k].count + Cardinality(Staging(k)) <= Cardinality(Sweeps)
  BY DEF RepeatsNeedOverlap
<1> QED  BY <1>2, <1>3, <1>4

LEMMA StagesNothing ==
    ASSUME SweepInv, NEW s \in Sweeps, NEW p \in Priorities,
           BeginSweep(s) \/ Perish(s) \/ Page(s, p)
    PROVE  alerts' = alerts /\ \A r \in Sweeps : sweeps'[r].due \subseteq sweeps[r].due
<1>1. sweeps \in [Sweeps -> Sweep] /\ sweeps[s] \in Sweep  BY DEF SweepInv, SlaTypeOK
<1>2. alerts' = alerts  BY DEF BeginSweep, Perish, Page
<1>3. PICK w : sweeps' = [sweeps EXCEPT ![s] = w] /\ w.due \subseteq sweeps[s].due
  <2>1. CASE BeginSweep(s)
    <3>1. [Asleep EXCEPT !.pc = "running", !.at = time, !.under = policies,
                         !.left = Active].due = {}
      BY AsleepHolds DEF Sweep
    <3> QED  BY <2>1, <3>1 DEF BeginSweep
  <2>2. CASE Perish(s)  BY <2>2, AsleepHolds DEF Perish
  <2>3. CASE Page(s, p)
    <3>1. PICK rows, page :
             sweeps' = [sweeps EXCEPT ![s] =
                [sweeps[s] EXCEPT !.pc = "paged", !.left = sweeps[s].left \ {p},
                                  !.held = rows, !.page = page]]
      BY <1>1, <2>3 DEF Page
    <3>2. [sweeps[s] EXCEPT !.pc = "paged", !.left = sweeps[s].left \ {p},
                            !.held = rows, !.page = page].due = sweeps[s].due
      BY <1>1 DEF Sweep
    <3> QED  BY <3>1, <3>2
  <2> QED  BY <2>1, <2>2, <2>3
<1> QED  BY <1>1, <1>2, <1>3

LEMMA MatchRepeats ==
    ASSUME SweepInv, RepeatsNeedOverlap, NEW s \in Sweeps, Match(s) PROVE RepeatsNeedOverlap'
<1>1. sweeps \in [Sweeps -> Sweep] /\ sweeps[s] \in Sweep /\ alerts' = alerts
      /\ alerts \in [AlertKeys -> [count : Nat, due : Nat]]
  BY DEF SweepInv, SlaTypeOK, Match
<1>2. PICK held : sweeps' = [sweeps EXCEPT ![s] =
                     [sweeps[s] EXCEPT !.pc = "running", !.page = {}, !.held = held,
                                       !.due = sweeps[s].due \cup Unrecorded(s)]]
  BY <1>1 DEF Match
<1>3. sweeps'[s].due = sweeps[s].due \cup Unrecorded(s)
      /\ \A r \in Sweeps \ {s} : sweeps'[r] = sweeps[r]
  BY <1>1, <1>2 DEF Sweep
<1> SUFFICES ASSUME NEW k \in AlertKeys
             PROVE  alerts[k].count + Cardinality(Staging(k)') <= Cardinality(Sweeps)
  BY <1>1 DEF RepeatsNeedOverlap
<1>4. CASE \E d \in Unrecorded(s) : d[1] = k
  <2>1. alerts[k].count = 0  BY <1>1, <1>4 DEF Unrecorded, Recorded
  <2>2. /\ Cardinality(Staging(k)') <= Cardinality(Sweeps) /\ Cardinality(Staging(k)') \in Nat
    <3>1. Staging(k)' \subseteq Sweeps /\ IsFiniteSet(Sweeps)  BY SlaAssumption DEF Staging
    <3> QED  BY <3>1, FS_Subset, FS_CardinalityType
  <2> QED  BY <2>1, <2>2
<1>5. CASE ~ \E d \in Unrecorded(s) : d[1] = k
  <2>1. Staging(k)' = Staging(k)  BY <1>3, <1>5 DEF Staging
  <2> QED  BY <2>1 DEF RepeatsNeedOverlap
<1> QED  BY <1>4, <1>5

\* What a sweep records is staged no longer.
LEMMA RecordRepeats ==
    ASSUME SweepInv, RepeatsNeedOverlap, NEW s \in Sweeps, Record(s) PROVE RepeatsNeedOverlap'
<1>1. /\ alerts \in [AlertKeys -> [count : Nat, due : Nat]] /\ sweeps \in [Sweeps -> Sweep]
      /\ sweeps' = [sweeps EXCEPT ![s] = Asleep]
  BY DEF SweepInv, SlaTypeOK, Record
<1>2. sweeps'[s].due = {} /\ \A r \in Sweeps \ {s} : sweeps'[r] = sweeps[r]
  BY <1>1, AsleepHolds
<1> SUFFICES ASSUME NEW k \in AlertKeys
             PROVE  alerts'[k].count + Cardinality(Staging(k)') <= Cardinality(Sweeps)
  BY DEF RepeatsNeedOverlap
<1>3. alerts'[k].count = alerts[k].count + Cardinality(DuesOf(s, k))  BY DEF Record
<1>4. Staging(k)' = Staging(k) \ {s}  BY <1>2 DEF Staging
<1>5. /\ alerts[k].count \in Nat /\ Cardinality(Staging(k)) \in Nat
      /\ IsFiniteSet(Staging(k)) /\ Cardinality(Sweeps) \in Nat
      /\ alerts[k].count + Cardinality(Staging(k)) <= Cardinality(Sweeps)
  BY <1>1, StagingIs DEF RepeatsNeedOverlap
<1>6. CASE s \in Staging(k)
  <2>1. Cardinality(Staging(k)') = Cardinality(Staging(k)) - 1
    BY <1>4, <1>5, <1>6, FS_RemoveElement
  <2>2. Cardinality(DuesOf(s, k)) = 0 \/ Cardinality(DuesOf(s, k)) = 1  BY DuesAre
  <2> QED  BY <1>3, <1>5, <2>1, <2>2
<1>7. CASE s \notin Staging(k)
  <2>1. Staging(k)' = Staging(k)  BY <1>4, <1>7
  <2>2. DuesOf(s, k) = {}  BY <1>7 DEF DuesOf, Staging
  <2>3. Cardinality(DuesOf(s, k)) = 0  BY <2>2, FS_EmptySet
  <2> QED  BY <1>3, <1>5, <2>1, <2>3
<1> QED  BY <1>6, <1>7

LEMMA RepeatsNext == SweepInv /\ RepeatsNeedOverlap /\ [SlaNext]_slaVars => RepeatsNeedOverlap'
<1> SUFFICES ASSUME SweepInv, RepeatsNeedOverlap, [SlaNext]_slaVars PROVE RepeatsNeedOverlap'
  OBVIOUS
<1>1. CASE UNCHANGED <<alerts, sweeps>>  BY <1>1, NothingStaged
<1>2. ASSUME NEW s \in Sweeps, SweepStep(s) \/ Perish(s) PROVE RepeatsNeedOverlap'
  <2>1. PICK p \in Priorities : TRUE  BY SlaAssumption
  <2> QED
    BY <1>2, <2>1, StagesNothing, NothingStaged, MatchRepeats, RecordRepeats DEF SweepStep
<1>3. \/ UNCHANGED <<alerts, sweeps>>
      \/ \E s \in Sweeps : SweepStep(s) \/ Perish(s)
  BY DEF SlaNext, slaVars, Pass, FirstAnswer, Resolve, CloseTicket, ReopenTicket, Arrive, Reprioritise,
         Decide, Fail, CommitRow, EditPolicy
<1> QED  BY <1>1, <1>2, <1>3

LEMMA RepeatsBegins == SlaInit => RepeatsNeedOverlap
<1> SUFFICES ASSUME SlaInit, NEW k \in AlertKeys
             PROVE  alerts[k].count + Cardinality(Staging(k)) <= Cardinality(Sweeps)
  BY DEF RepeatsNeedOverlap
<1>1. alerts[k].count = 0  BY DEF SlaInit
<1> QED  BY <1>1, StagingIs

\* A timer of a ticket raises the same alert no more often than sweeps run at a
\* time, those that are about to included, however often they die and their
\* messages come again: with one sweep at a time nothing fires twice (find_alerts,
\* due_alerts, and the one commit of _sweep).
THEOREM NothingTwice == SlaSpec => []RepeatsNeedOverlap
  BY RepeatsBegins, RepeatsNext, Swept, PTL DEF SlaSpec

\* What holds of any sweeps and requests, however they overlap.
THEOREM SweepsAgree == SlaSpec => []SlaInv
<1>1. SweepInv /\ RepeatsNeedOverlap /\ BreachIsEarned => SlaInv  BY DEF SlaInv, SweepInv
<1> QED  BY <1>1, Swept, NothingTwice, EarnedBreach, PTL

-----------------------------------------------------------------------------
(* The figures. *)

LEMMA TicketPolicy ==
    ASSUME SweepInv, NEW t \in Tix
    PROVE  tix[t] \in SlaTicket /\ IsPolicy(PolicyOf(t)) /\ TicketHolds(tix[t], landed[t])
<1>1. tix[t] \in SlaTicket /\ policies \in Choices  BY DEF SweepInv, SlaTypeOK
<1>2. tix[t].priority \in Priorities  BY <1>1 DEF SlaTicket
<1> QED  BY <1>1, <1>2, PoliciesAre DEF PolicyOf, SweepInv

\* The sooner of the timers that still run, if any does.
LEMMA SoonestDue ==
    ASSUME SweepInv, NEW t \in Existing
    PROVE  LET dues == {UnstoppedDue(t, timer) : timer \in Timers} \ {Never} IN
           /\ dues = {DueAt(timer, tix[t], PolicyOf(t)) : timer \in Running(t)}
           /\ dues = {} => Outstanding(t) = Never
           /\ dues # {} => Outstanding(t) \in dues /\ \A e \in dues : Outstanding(t) <= e
<1> DEFINE dues == {UnstoppedDue(t, timer) : timer \in Timers} \ {Never}
           Due(timer) == DueAt(timer, tix[t], PolicyOf(t))
<1>1. t \in Tix /\ tix[t].created # Never  BY DEF Existing
<1>2. \A timer \in Timers : Due(timer) \in Nat /\ Due(timer) # Never
  BY <1>1, TicketPolicy, DueType DEF Never
<1>3. dues = {Due(timer) : timer \in Running(t)}
  BY <1>2 DEF UnstoppedDue, Running
<1>4. dues # {} => \E d \in dues : \A e \in dues : d <= e
  <2>1. dues \subseteq {Due("response"), Due("resolution")}
    BY <1>3 DEF Running, Timers
  <2>2. Due("response") \in Nat /\ Due("resolution") \in Nat  BY <1>2 DEF Timers
  <2> HIDE DEF dues, Due
  <2> QED  BY <2>1, <2>2
<1>5. dues = {} => Outstanding(t) = Never  BY DEF Outstanding
<1>6. dues # {} => Outstanding(t) = CHOOSE d \in dues : \A e \in dues : d <= e
  BY DEF Outstanding
<1> QED
  <2> HIDE DEF dues
  <2>1. dues # {} => Outstanding(t) \in dues /\ \A e \in dues : Outstanding(t) <= e
    BY <1>4, <1>6
  <2> QED  BY <1>3, <1>5, <2>1 DEF dues

\* The count of overdue tickets, computed from columns, is that of the tickets
\* with a running timer whose countdown says breached (overdue_count against
\* resolve_timer).
THEOREM CountsAgree == SlaSpec => []OverdueIsBreached
<1>1. ASSUME SweepInv PROVE OverdueIsBreached
  <2>1. ASSUME NEW t \in OpenTickets
        PROVE  Outstanding(t) # Never /\ Outstanding(t) <= time <=>
                  \E timer \in Running(t) : Clock(t, timer, time) = "breached"
    <3> DEFINE Due(timer) == DueAt(timer, tix[t], PolicyOf(t))
               dues == {Due(timer) : timer \in Running(t)}
    <3>1. t \in Existing /\ t \in Tix /\ tix[t].created # Never
      BY DEF OpenTickets, Clocked, Existing
    <3>2. /\ dues = {} => Outstanding(t) = Never
          /\ dues # {} => Outstanding(t) \in dues /\ \A e \in dues : Outstanding(t) <= e
      BY <1>1, <3>1, SoonestDue
    <3>3. \A timer \in Timers : Due(timer) \in Nat /\ Due(timer) # Never
      BY <1>1, <3>1, TicketPolicy, DueType DEF Never
    <3>4. time \in Nat  BY <1>1, SlaAssumption DEF SweepInv, SlaTypeOK
    <3>5. ASSUME NEW timer \in Running(t)
          PROVE  timer \in Timers /\ (Clock(t, timer, time) = "breached" <=> time >= Due(timer))
      BY <3>5 DEF Running, Clock, TimerState
    <3> HIDE DEF Due
    <3>6. Outstanding(t) # Never /\ Outstanding(t) <= time <=>
             \E timer \in Running(t) : time >= Due(timer)
      <4>1. ASSUME Outstanding(t) # Never, Outstanding(t) <= time
            PROVE  \E timer \in Running(t) : time >= Due(timer)
        BY <3>2, <3>3, <3>4, <3>5, <4>1
      <4>2. ASSUME NEW timer \in Running(t), time >= Due(timer)
            PROVE  Outstanding(t) # Never /\ Outstanding(t) <= time
        <5>1. Due(timer) \in dues /\ Outstanding(t) \in dues /\ Outstanding(t) <= Due(timer)
          BY <3>2
        <5>2. Outstanding(t) \in Nat /\ Outstanding(t) # Never  BY <3>3, <3>5, <5>1
        <5> QED  BY <3>3, <3>4, <3>5, <4>2, <5>1, <5>2
      <4> QED  BY <4>1, <4>2
    <3> QED  BY <3>5, <3>6
  <2> QED  BY <2>1 DEF OverdueIsBreached, Overdue
<1> QED  BY <1>1, Swept, PTL

LEMMA TimesGrow ==
    ASSUME NEW a \in Nat, NEW b \in Nat, NEW c \in Nat, a <= b
    PROVE  a * c <= b * c
<1>1. PICK d \in Nat : b = a + d
  <2>1. b - a \in Nat /\ b = a + (b - a)  OBVIOUS
  <2> QED  BY <2>1
<1>2. b * c = a * c + d * c /\ d * c \in Nat /\ a * c \in Nat  BY <1>1
<1> QED  BY <1>2

\* A ticket that an alert is warranted for is one the sweep looks at: its priority
\* is not switched off, and it is old enough, because the warning of the shorter
\* target comes first (load_policies, earliest_alert_offset).
THEOREM PrefilterHolds == SlaSpec => []PrefilterHidesNothing
<1>1. ASSUME SweepInv PROVE PrefilterHidesNothing
  <2> SUFFICES ASSUME NEW t \in OpenTickets, NEW a \in Warranted(tix[t], PolicyOf(t), time)
               PROVE  OldEnough(tix[t], PolicyOf(t), time)
    <3>1. ASSUME NEW t \in OpenTickets
          PROVE  /\ tix[t].priority \in Active
                 /\ OldEnough(tix[t], PolicyOf(t), time) =>
                       t \in Pending(tix[t].priority, PolicyOf(t), time)
      <4>1. t \in Tix /\ tix[t].created # Never /\ IsOpen(tix[t]) /\ PolicyOf(t).active
        BY DEF OpenTickets, Clocked, Existing
      <4>2. tix[t].priority \in Priorities  BY <1>1, <4>1 DEF SweepInv, SlaTypeOK, SlaTicket
      <4> QED  BY <4>1, <4>2 DEF Active, PolicyOf, Pending
    <3> QED  BY <3>1 DEF PrefilterHidesNothing
  <2>1. t \in Tix /\ tix[t].created # Never  BY DEF OpenTickets, Clocked, Existing
  <2>2. PICK policy : policy = PolicyOf(t) /\ IsPolicy(policy)  BY <1>1, <2>1, TicketPolicy
  <2>3. PICK timer \in Timers : \/ TimerState(timer, tix[t], policy, time) = "breached"
                                \/ TimerState(timer, tix[t], policy, time) = "warning"
    BY <2>2 DEF Warranted, AlertKinds
  <2>4. PICK target \in Nat : target = Target(timer, policy) /\ target >= policy.response
    BY <2>2, TargetType
  <2>5. /\ tix[t] \in SlaTicket /\ TicketHolds(tix[t], landed[t]) /\ time \in Nat
        /\ tix[t].created \in Nat /\ StoppedAt(timer, tix[t]) \in Int
        /\ StoppedAt(timer, tix[t]) <= time
    <3>1. tix[t] \in SlaTicket /\ TicketHolds(tix[t], landed[t]) /\ time \in Nat
      BY <1>1, <2>1, TicketPolicy, SlaAssumption DEF SweepInv, SlaTypeOK
    <3> QED
      BY <2>1, <3>1, SlaAssumption DEF SlaTicket, Instants, Never, StoppedAt, TicketHolds
  <2>6. PICK age \in Int : age = time - tix[t].created  BY <2>5
  <2>7. /\ policy.percent \in Nat /\ policy.percent <= 100 /\ policy.response \in Nat
    BY <2>2 DEF IsPolicy
  <2>8. policy.response * policy.percent <= target * policy.percent
    BY <2>4, <2>7, TimesGrow
  <2>9. CASE TimerState(timer, tix[t], policy, time) = "breached"
    <3>1. age >= target
      BY <2>2, <2>4, <2>5, <2>6, <2>9, BreachedMeans DEF DueAt
    <3>2. policy.percent * target <= 100 * target  BY <2>4, <2>7, TimesGrow
    <3>3. target * policy.percent = policy.percent * target  BY <2>4, <2>7
    <3>4. 100 * age >= target * policy.percent  BY <2>4, <2>6, <2>7, <3>1, <3>2, <3>3
    <3>5. 100 * age >= policy.response * policy.percent
      <4> DEFINE x == policy.response * policy.percent  y == target * policy.percent
      <4>1. x \in Nat /\ y \in Nat  BY <2>4, <2>7
      <4>2. x <= y /\ 100 * age >= y  BY <2>8, <3>4
      <4> HIDE DEF x, y
      <4>3. 100 * age >= x  BY <2>6, <4>1, <4>2
      <4> QED  BY <4>3 DEF x
    <3> QED  BY <2>2, <2>6, <3>5 DEF OldEnough, WarningReached
  <2>10. CASE TimerState(timer, tix[t], policy, time) = "warning"
    <3>1. 100 * age >= target * policy.percent
      BY <2>4, <2>6, <2>10 DEF TimerState, WarningReached
    <3>2. 100 * age >= policy.response * policy.percent
      <4> DEFINE x == policy.response * policy.percent  y == target * policy.percent
      <4>1. x \in Nat /\ y \in Nat  BY <2>4, <2>7
      <4>2. x <= y /\ 100 * age >= y  BY <2>8, <3>1
      <4> HIDE DEF x, y
      <4>3. 100 * age >= x  BY <2>6, <4>1, <4>2
      <4> QED  BY <4>3 DEF x
    <3> QED  BY <2>2, <2>6, <3>2 DEF OldEnough, WarningReached
  <2> QED  BY <2>3, <2>9, <2>10
<1> QED  BY <1>1, Swept, PTL

\* The dashboard's figures, the sweep's prefilter and the countdown of a ticket
\* say the same of it at every instant (_overdue, find_pending, resolve_timer).
THEOREM SameLateness == SlaSpec => []FiguresAgree
<1>1. OverdueIsBreached /\ PrefilterHidesNothing => FiguresAgree  BY DEF FiguresAgree
<1> QED  BY <1>1, CountsAgree, PrefilterHolds, PTL

-----------------------------------------------------------------------------
(* What is counted and listed leaves nothing out. *)

LEMMA PartsAddUp ==
    ASSUME NEW all, IsFiniteSet(all), NEW a, NEW b, a \cup b = all, a \cap b = {}
    PROVE  Cardinality(all) = Cardinality(a) + Cardinality(b)
<1>1. IsFiniteSet(a) /\ IsFiniteSet(b)  BY FS_Subset
<1>2. Cardinality(a) \in Nat /\ Cardinality(b) \in Nat  BY <1>1, FS_CardinalityType
<1>3. Cardinality(a \cap b) = 0  BY FS_EmptySet
<1>4. Cardinality(a \cup b) = Cardinality(a) + Cardinality(b) - Cardinality(a \cap b)
  BY <1>1, FS_Union
<1> QED  BY <1>2, <1>3, <1>4

\* A window whose bounds are instants is its two parts.
LEMMA WindowIsCut ==
    ASSUME SweepInv, NEW set \in SUBSET Existing, NEW w1 \in Int, NEW w2 \in Int,
           NEW cut \in w1 .. w2
    PROVE  LET In(a, b) == {t \in set : InWindow(t, <<a, b>>)} IN
           Cardinality(In(w1, w2)) = Cardinality(In(w1, cut)) + Cardinality(In(cut, w2))
<1> DEFINE In(a, b) == {t \in set : tix[t].created >= a /\ tix[t].created < b}
<1>1. \A t \in set : t \in Tix /\ tix[t].created \in Int
  <2>1. set \subseteq Tix  BY DEF Existing
  <2> QED  BY <2>1, TicketPolicy DEF SlaTicket, Instants
<1>2. \A a, b : {t \in set : InWindow(t, <<a, b>>)} = In(a, b)  BY DEF InWindow
<1>3. IsFiniteSet(In(w1, w2))
  <2>1. IsFiniteSet(Tix)  BY SlaAssumption
  <2>2. In(w1, w2) \subseteq Tix  BY <1>1
  <2> QED  BY <2>1, <2>2, FS_Subset
<1>4. cut \in Int /\ w1 <= cut /\ cut <= w2  OBVIOUS
<1>5. In(w1, cut) \cup In(cut, w2) = In(w1, w2)  BY <1>1, <1>4
<1>6. In(w1, cut) \cap In(cut, w2) = {}  BY <1>1, <1>4
<1> HIDE DEF In
<1>7. Cardinality(In(w1, w2)) = Cardinality(In(w1, cut)) + Cardinality(In(cut, w2))
  BY <1>3, <1>5, <1>6, PartsAddUp
<1> QED  BY <1>2, <1>7

LEMMA WindowType ==
    ASSUME time \in Int, NEW start \in Int, NEW end \in Int, NEW w \in Window(start, end, time)
    PROVE  \E a, b \in Int : w = <<a, b>>
<1> DEFINE from == IF start = Unset THEN time - DefaultDays ELSE start
           to == IF end = Unset THEN time ELSE end
<1>1. w = <<from, to>>  BY DEF Window
<1>2. from \in Int /\ to \in Int  BY FiguresAssumption
<1> QED  BY <1>1, <1>2

\* What the compliance figures count is what the countdowns of the stopped
\* timers say, and a window cut in two counts every ticket of it once
\* (sla_compliance, resolve_timer, _in_window).
THEOREM ComplianceHolds == SlaSpec => []ComplianceAddsUp
<1>1. ASSUME SweepInv PROVE ComplianceAddsUp
  <2> SUFFICES ASSUME NEW timer \in Timers, NEW window \in Windows,
                      NEW cut \in window[1] .. window[2]
               PROVE  LET early == <<window[1], cut>>  late == <<cut, window[2]>> IN
                      /\ \A t \in Met(timer, window) : Clock(t, timer, time) = "met"
                      /\ \A t \in Missed(timer, window) : Clock(t, timer, time) = "breached"
                      /\ Cardinality(Met(timer, window))
                            = Cardinality(Met(timer, early)) + Cardinality(Met(timer, late))
                      /\ Cardinality(Missed(timer, window))
                            = Cardinality(Missed(timer, early)) + Cardinality(Missed(timer, late))
    BY DEF ComplianceAddsUp
  <2>1. PICK start \in Unset .. Horizon + 1, end \in Unset .. Horizon + 1 :
           window \in Window(start, end, time)
    BY DEF Windows
  <2>2. PICK w1, w2 \in Int : window = <<w1, w2>>
    <3>1. time \in Int /\ start \in Int /\ end \in Int
      BY <1>1, SlaAssumption DEF SweepInv, SlaTypeOK, Unset
    <3> QED  BY <2>1, <3>1, WindowType
  <2>3. cut \in w1 .. w2  BY <2>2
  <2> DEFINE
        Due(t) == DueAt(timer, tix[t], PolicyOf(t))
        In(set, a, b) == {t \in set : InWindow(t, <<a, b>>)}
        kept == {t \in Clocked : StoppedAt(timer, tix[t]) # Never
                                  /\ StoppedAt(timer, tix[t]) <= Due(t)}
        broken == {t \in Clocked : StoppedAt(timer, tix[t]) # Never
                                    /\ StoppedAt(timer, tix[t]) > Due(t)}
  <2>4. \A a, b : Met(timer, <<a, b>>) = In(kept, a, b) /\ Missed(timer, <<a, b>>) = In(broken, a, b)
    BY DEF Met, Missed
  <2>5. \A t \in kept : Clock(t, timer, time) = "met"
    BY DEF Clock, TimerState
  <2>6. \A t \in broken : Clock(t, timer, time) = "breached"
    <3> SUFFICES ASSUME NEW t \in broken PROVE Clock(t, timer, time) = "breached"
      OBVIOUS
    <3>1. StoppedAt(timer, tix[t]) \in Int /\ Due(t) \in Int
      BY <1>1, TicketPolicy, DueType, SlaAssumption DEF Instants, Clocked, Existing
    <3>2. ~ (StoppedAt(timer, tix[t]) <= Due(t)) /\ StoppedAt(timer, tix[t]) # Never  BY <3>1
    <3> QED  BY <3>2 DEF Clock, TimerState
  <2>7. kept \subseteq Existing /\ broken \subseteq Existing  BY DEF Clocked
  <2> HIDE DEF kept, broken
  <2>8. ASSUME NEW set \in SUBSET Existing
        PROVE  Cardinality(In(set, w1, w2)) = Cardinality(In(set, w1, cut)) + Cardinality(In(set, cut, w2))
    BY <1>1, <2>2, <2>3, WindowIsCut
  <2>9. /\ Met(timer, window) = In(kept, w1, w2) /\ Missed(timer, window) = In(broken, w1, w2)
        /\ \A t \in Met(timer, window) : t \in kept
        /\ \A t \in Missed(timer, window) : t \in broken
    BY <2>2, <2>4
  <2> HIDE DEF In
  <2>10. window[1] = w1 /\ window[2] = w2  BY <2>2
  <2>11. Cardinality(Met(timer, window))
            = Cardinality(Met(timer, <<w1, cut>>)) + Cardinality(Met(timer, <<cut, w2>>))
    BY <2>4, <2>7, <2>8, <2>9
  <2>12. Cardinality(Missed(timer, window))
            = Cardinality(Missed(timer, <<w1, cut>>)) + Cardinality(Missed(timer, <<cut, w2>>))
    BY <2>4, <2>7, <2>8, <2>9
  <2> QED  BY <2>5, <2>6, <2>9, <2>10, <2>11, <2>12
<1> QED  BY <1>1, Swept, PTL

\* When the soonest running timer of a ticket is due, and that there is none
\* exactly when the column is NULL.
LEMMA OutstandingIs ==
    ASSUME SweepInv, NEW t \in Existing
    PROVE  /\ Outstanding(t) \in Int /\ (Outstanding(t) = Never <=> Running(t) = {})
           /\ \A timer \in Running(t) :
                 /\ DueAt(timer, tix[t], PolicyOf(t)) \in Int
                 /\ Outstanding(t) <= DueAt(timer, tix[t], PolicyOf(t))
           /\ Running(t) # {} => \E timer \in Running(t) :
                                    Outstanding(t) = DueAt(timer, tix[t], PolicyOf(t))
<1> DEFINE Due(timer) == DueAt(timer, tix[t], PolicyOf(t))
           dues == {Due(timer) : timer \in Running(t)}
<1>1. \A timer \in Running(t) : Due(timer) \in Nat /\ Due(timer) # Never
  BY TicketPolicy, DueType DEF Existing, Never
<1>2. /\ dues = {} => Outstanding(t) = Never
      /\ dues # {} => Outstanding(t) \in dues /\ \A e \in dues : Outstanding(t) <= e
  BY SoonestDue
<1> HIDE DEF Due
<1>3. dues = {} <=> Running(t) = {}  OBVIOUS
<1>4. Never \in Int  BY DEF Never
<1>5. CASE Running(t) = {}  BY <1>2, <1>3, <1>4, <1>5 DEF Due
<1>6. CASE Running(t) # {}
  <2>1. PICK timer \in Running(t) : Outstanding(t) = Due(timer)  BY <1>2, <1>3, <1>6
  <2>2. \A other \in Running(t) : Outstanding(t) <= Due(other)  BY <1>2, <1>3, <1>6
  <2> QED  BY <1>1, <1>6, <2>1, <2>2 DEF Due
<1> QED  BY <1>5, <1>6

LEMMA SoonerIsAnOrder ==
    ASSUME SweepInv, NEW t \in Existing, NEW u \in Existing, NEW v \in Existing
    PROVE  ~ Sooner(t, t) /\ (Sooner(t, u) /\ Sooner(u, v) => Sooner(t, v))
<1>1. /\ Outstanding(t) \in Int /\ Outstanding(u) \in Int /\ Outstanding(v) \in Int
  BY OutstandingIs
<1>2. t \in Nat /\ u \in Nat /\ v \in Nat  BY SlaAssumption DEF Existing
<1> QED  BY <1>1, <1>2 DEF Sooner

\* The tickets that go before one.
Ahead(t) == {u \in OpenTickets : Sooner(u, t)}

LEMMA AheadIsFinite == IsFiniteSet(OpenTickets) /\ \A t : IsFiniteSet(Ahead(t))
<1>1. IsFiniteSet(Tix)  BY SlaAssumption
<1>2. IsFiniteSet(OpenTickets)
  <2>1. OpenTickets \subseteq Tix  BY DEF OpenTickets, Clocked, Existing
  <2> QED  BY <1>1, <2>1, FS_Subset
<1>3. \A t : Ahead(t) \subseteq OpenTickets  BY DEF Ahead
<1> QED  BY <1>2, <1>3, FS_Subset

\* What goes before a candidate is a candidate.
LEMMA CandidatesComeFirst ==
    ASSUME SweepInv, NEW t \in RiskCandidates, NEW u \in OpenTickets, Sooner(u, t)
    PROVE  u \in RiskCandidates
<1>1. /\ t \in OpenTickets /\ Cardinality(Ahead(t)) < RiskLimit
  BY DEF RiskCandidates, Ahead
<1>2. \A v \in OpenTickets : v \in Existing  BY DEF OpenTickets, Clocked
<1>3. Ahead(u) \subseteq Ahead(t)
  <2> SUFFICES ASSUME NEW v \in OpenTickets, Sooner(v, u) PROVE Sooner(v, t)
    BY DEF Ahead
  <2> QED  BY <1>1, <1>2, SoonerIsAnOrder
<1>4. /\ Cardinality(Ahead(u)) \in Nat /\ Cardinality(Ahead(t)) \in Nat
      /\ Cardinality(Ahead(u)) <= Cardinality(Ahead(t))
  BY <1>3, AheadIsFinite, FS_Subset, FS_CardinalityType
<1>5. Cardinality(Ahead(u)) < RiskLimit  BY <1>1, <1>4, FiguresAssumption
<1> QED  BY <1>5 DEF RiskCandidates, Ahead

\* Nothing off the risk list has a running timer due sooner than the one shown of
\* a ticket on it, and while there is room everything overdue is on it
\* (risk_candidates, _binding_timer, risk_list).
THEOREM RiskListHolds == SlaSpec => []NothingMoreUrgentIsHidden
<1>1. ASSUME SweepInv PROVE NothingMoreUrgentIsHidden
  <2>1. ASSUME NEW t \in RiskList, NEW u \in OpenTickets \ RiskList, NEW timer \in Running(u)
        PROVE  DueAt(Binding(t, time), tix[t], PolicyOf(t)) <= DueAt(timer, tix[u], PolicyOf(u))
    <3> DEFINE Due(other) == DueAt(other, tix[t], PolicyOf(t))
    <3>1. /\ t \in RiskCandidates /\ t \in Existing /\ Running(t) # {}
          /\ u \in OpenTickets /\ u \in Existing /\ u \notin RiskCandidates
      BY DEF RiskList, RiskCandidates, OpenTickets, Clocked
    <3>2. ~ Sooner(u, t)  BY <1>1, <3>1, CandidatesComeFirst
    <3>3. /\ Outstanding(t) \in Int /\ Outstanding(t) # Never
          /\ \A other \in Running(t) : Due(other) \in Int /\ Outstanding(t) <= Due(other)
          /\ \E other \in Running(t) : Outstanding(t) = Due(other)
      BY <1>1, <3>1, OutstandingIs
    <3>4. /\ Outstanding(u) \in Int /\ Outstanding(u) # Never
          /\ DueAt(timer, tix[u], PolicyOf(u)) \in Int
          /\ Outstanding(u) <= DueAt(timer, tix[u], PolicyOf(u))
      BY <1>1, <3>1, OutstandingIs
    <3>5. Outstanding(t) <= Outstanding(u)  BY <3>2, <3>3, <3>4 DEF Sooner
    <3>6. time \in Int  BY <1>1, SlaAssumption DEF SweepInv, SlaTypeOK
    <3>7. Binding(t, time) = CHOOSE other \in Running(t) :
                                \A third \in Running(t) : Due(other) - time <= Due(third) - time
      BY DEF Binding
    <3> HIDE DEF Due
    <3>8. PICK other \in Running(t) : Outstanding(t) = Due(other)  BY <3>3
    <3>9. \A third \in Running(t) : Due(other) - time <= Due(third) - time
      BY <3>3, <3>6, <3>8
    <3>10. /\ Binding(t, time) \in Running(t)
           /\ Due(Binding(t, time)) - time <= Due(other) - time
      BY <3>7, <3>8, <3>9
    <3>11. Due(Binding(t, time)) <= Outstanding(t)  BY <3>3, <3>6, <3>8, <3>10
    <3>12. Due(Binding(t, time)) \in Int  BY <3>3, <3>10
    <3>13. Due(Binding(t, time)) <= DueAt(timer, tix[u], PolicyOf(u))
      BY <3>3, <3>4, <3>5, <3>11, <3>12
    <3> QED  BY <3>13 DEF Due
  <2>2. ASSUME Cardinality(Overdue(time)) <= RiskLimit, NEW t \in Overdue(time)
        PROVE  t \in RiskList
    <3>1. t \in OpenTickets /\ t \in Existing /\ Outstanding(t) # Never /\ Outstanding(t) <= time
      BY DEF Overdue, OpenTickets, Clocked
    <3>2. time \in Int  BY <1>1, SlaAssumption DEF SweepInv, SlaTypeOK
    <3>3. Ahead(t) \subseteq Overdue(time) \ {t}
      <4> SUFFICES ASSUME NEW v \in OpenTickets, Sooner(v, t) PROVE v \in Overdue(time) /\ v # t
        BY DEF Ahead
      <4>1. v \in Existing /\ Outstanding(v) \in Int /\ Outstanding(t) \in Int
        BY <1>1, <3>1, OutstandingIs DEF OpenTickets, Clocked
      <4>2. Outstanding(v) # Never /\ Outstanding(v) <= Outstanding(t)
        BY <3>1, <4>1 DEF Sooner
      <4>3. v # t  BY <1>1, <3>1, SoonerIsAnOrder
      <4>4. Outstanding(v) <= time  BY <3>1, <3>2, <4>1, <4>2
      <4> QED  BY <4>2, <4>3, <4>4 DEF Overdue
    <3>4. IsFiniteSet(Overdue(time))
      <4>1. Overdue(time) \subseteq OpenTickets  BY DEF Overdue
      <4> QED  BY <4>1, AheadIsFinite, FS_Subset
    <3>5. /\ IsFiniteSet(Overdue(time) \ {t})
          /\ Cardinality(Overdue(time) \ {t}) = Cardinality(Overdue(time)) - 1
      BY <2>2, <3>4, FS_RemoveElement
    <3>6. Cardinality(Ahead(t)) <= Cardinality(Overdue(time) \ {t})
      BY <3>3, <3>5, FS_Subset
    <3>7. /\ Cardinality(Overdue(time)) \in Int /\ Cardinality(Ahead(t)) \in Int
      BY <3>4, AheadIsFinite, FS_CardinalityType
    <3>8. Cardinality(Ahead(t)) < RiskLimit
      BY <2>2, <3>5, <3>6, <3>7, FiguresAssumption
    <3>9. t \in RiskCandidates  BY <3>1, <3>8 DEF RiskCandidates, Ahead
    <3>10. Running(t) # {}  BY <1>1, <3>1, OutstandingIs
    <3> QED  BY <3>9, <3>10 DEF RiskList
  <2> QED  BY <2>1, <2>2 DEF NothingMoreUrgentIsHidden
<1> QED  BY <1>1, Swept, PTL

\* What the dashboard counts and lists leaves nothing out and counts nothing
\* twice (sla_compliance, risk_list, overdue_count).
THEOREM AddsUp == SlaSpec => []FiguresAddUp
<1>1. ComplianceAddsUp /\ NothingMoreUrgentIsHidden => FiguresAddUp  BY DEF FiguresAddUp
<1> QED  BY <1>1, ComplianceHolds, RiskListHolds, PTL
=============================================================================
