------------------------ MODULE TicketLifecycle_proof ------------------------
(***************************************************************************)
(* Proofs about TicketLifecycle for every set of requests and users.       *)
(* Nothing is assumed of how the requests overlap, fail and crash:         *)
(*   - TypeCorrect and Concurrent: shapes, notices and response times;     *)
(*   - Overlapping: the row, its timeline and its audience, up to the      *)
(*     commits the model records as torn or outrun;                        *)
(*   - ImplementsTheContract and Moves: every commit that was not overtaken *)
(*     is an atomic step of TicketContract on the row as it is then.       *)
(***************************************************************************)
EXTENDS TicketLifecycle, TLAPS

-----------------------------------------------------------------------------
(* Shapes *)

\* A row's changes are an update, and an update applied to a row is a row.
LEMMA ChangesType ==
    ASSUME row \in Row, NEW mine \in Row
    PROVE  Changes(mine) \in Update
BY DEF Changes, Column, Update, Row

LEMMA WriteBackType ==
    ASSUME row \in Row, NEW set \in Update
    PROVE  WriteBack(set) \in Row
BY DEF WriteBack, Written, Update, Row

\* A handler whose row nobody touched writes exactly the row it left.
LEMMA RoundTrip ==
    ASSUME row \in Row, NEW mine \in Row
    PROVE  WriteBack(Changes(mine)) = mine
<1>1. /\ Keep \notin Statuses /\ Keep \notin Assignees
      /\ Keep \notin Priorities /\ Keep \notin Times
  BY KeepAssumption DEF Times
<1> QED
  BY <1>1 DEF WriteBack, Written, Changes, Column, Row

LEMMA NotifyType ==
    ASSUME NEW type \in {"assigned", "reply", "resolved"},
           NEW recipients \in SUBSET Assignees, NEW actor
    PROVE  Notify(type, recipients, actor) \in SUBSET Notice
BY DEF Notify, Notice, Assignees

LEMMA MovedType ==
    ASSUME TypeOK, NEW target \in Statuses, NEW now \in clock .. MaxTime
    PROVE  Moved(target, now) \in Row /\ now \in Times /\ now # 0
<1>1. now \in Times /\ now # 0
  BY TimeAssumption DEF TypeOK, Times
<1>2. row \in Row
  BY DEF TypeOK
<1> QED
  BY <1>1, <1>2 DEF Moved, Row

LEMMA StageType ==
    ASSUME TypeOK, NEW r \in Requests, NEW u \in Users, NEW kind \in AllKinds,
           NEW mine \in Row, NEW entry \in Entry, NEW notes \in SUBSET Notice,
           Stage(r, u, kind, mine, entry, notes)
    PROVE  TypeOK'
<1>1. Changes(mine) \in Update
  BY ChangesType DEF TypeOK
<1>2. mine.agent \in Assignees
  BY DEF Row
<1> QED
  BY <1>1, <1>2 DEF Stage, TypeOK, Staged

-----------------------------------------------------------------------------
(* What every handler decides *)

\* Facts about a decision that no later commit can take away.
Justified(u, kind, mine, notes) ==
    /\ mine.firstResponseAt # row.firstResponseAt =>
          kind = "reply" /\ u \in Staff /\ mine.firstResponseAt # 0
    /\ kind = "reply" /\ u \in Staff => mine.firstResponseAt # 0
    /\ mine.agent # row.agent /\ mine.agent \in Users \ Managers =>
          [type |-> "assigned", user |-> mine.agent] \in notes
    /\ mine.resolvedAt # row.resolvedAt /\ mine.resolvedAt # 0 =>
          \A p \in Portal : [type |-> "resolved", user |-> p] \in notes
    /\ mine.priority # row.priority => kind = "priority"
    /\ mine.agent # row.agent => kind \in {"assign", "reopen"}
    /\ mine.status = "closed" /\ row.status # "closed" => mine.resolvedAt = row.resolvedAt
    /\ kind \in {"priority", "note"} => notes = {}

\* What an operation makes of the row it found, and the entry that says so.
Outlined(kind, mine, entry) ==
    /\ kind = "assign" =>
          /\ mine.agent # row.agent /\ entry.agent = mine.agent
          /\ entry.type = IF mine.agent = NoUser THEN "UNASSIGNED" ELSE "ASSIGNED"
          /\ mine.agent = NoUser => row.status # "assigned"
          /\ mine.status = IF mine.agent # NoUser /\ row.status = "open"
                             THEN "assigned" ELSE row.status
          /\ mine.resolvedAt = row.resolvedAt /\ mine.closedAt = row.closedAt
    /\ kind = "status" =>
          /\ CanTransition(row.status, mine.status)
          /\ mine.status \in {"in_progress", "waiting_for_customer", "resolved"}
          /\ entry = [type |-> "STATUS_CHANGED", status |-> mine.status]
          /\ IF mine.status = "resolved" THEN mine.resolvedAt # 0
                                         ELSE mine.resolvedAt = row.resolvedAt
          /\ mine.closedAt = row.closedAt
    /\ kind = "close" =>
          /\ row.status = "resolved" /\ mine.status = "closed"
          /\ entry = [type |-> "STATUS_CHANGED", status |-> "closed"]
          /\ mine.resolvedAt = row.resolvedAt /\ mine.closedAt # 0
          /\ clock <= mine.closedAt
    /\ kind = "reopen" =>
          /\ row.status = "closed" /\ mine.status = "open"
          /\ mine.agent = NoUser /\ mine.resolvedAt = 0 /\ mine.closedAt = 0
          /\ entry = [type |-> "REOPENED", status |-> "open"]
    /\ kind \in {"priority", "reply", "note"} =>
          /\ mine.status = row.status
          /\ mine.resolvedAt = row.resolvedAt /\ mine.closedAt = row.closedAt
          /\ IF kind = "priority"
               THEN /\ mine.priority # row.priority
                    /\ entry = [type |-> "PRIORITY_CHANGED", priority |-> mine.priority]
               ELSE entry.type \in {"MESSAGE_ADDED", "INTERNAL_NOTE_ADDED"}
    /\ kind = "reply" =>
          /\ row.status # "closed"
          /\ mine.firstResponseAt # row.firstResponseAt => row.firstResponseAt = 0

\* The notices of an assignment reach the assignee unless he is the actor.
LEMMA NotifyReaches ==
    ASSUME NEW type, NEW recipients, NEW actor,
           NEW u \in recipients, u # actor, u # NoUser
    PROVE  [type |-> type, user |-> u] \in Notify(type, recipients, actor)
BY DEF Notify

LEMMA AssignDecision ==
    ASSUME TypeOK, NEW r \in Requests, NEW u \in Users,
           NEW a \in Assignees, Assign(r, u, a)
    PROVE  \E mine \in Row, entry \in Entry, notes \in SUBSET Notice :
              /\ Stage(r, u, "assign", mine, entry, notes)
              /\ Justified(u, "assign", mine, notes)
              /\ Outlined("assign", mine, entry)
<1> DEFINE mine == [row EXCEPT
                      !.agent = a,
                      !.status = IF a # NoUser /\ row.status = "open"
                                   THEN "assigned" ELSE row.status]
           entry == [type |-> IF a = NoUser THEN "UNASSIGNED" ELSE "ASSIGNED",
                     agent |-> a]
           notes == Notify("assigned", {a}, u)
<1>1. row \in Row /\ u \in Managers /\ NoUser \notin Users
  BY UserAssumption DEF Assign, Received, Allowed, TypeOK
<1>2. mine \in Row
  BY <1>1 DEF Row, Statuses
<1>3. entry \in Entry
  BY DEF Entry
<1>4. notes \in SUBSET Notice
  BY NotifyType
<1>5. Stage(r, u, "assign", mine, entry, notes)
  BY DEF Assign
<1>6. Justified(u, "assign", mine, notes)
  <2>1. /\ mine.firstResponseAt = row.firstResponseAt
        /\ mine.resolvedAt = row.resolvedAt
        /\ mine.agent = a /\ mine.priority = row.priority
    BY <1>1 DEF Row
  <2>2. a \in Users \ Managers =>
           [type |-> "assigned", user |-> a] \in notes
    BY <1>1, NotifyReaches
  <2> QED
    BY <2>1, <2>2 DEF Justified
<1>7. Outlined("assign", mine, entry)
  <2>1. row.agent # a /\ entry.agent = a /\ ~ (a = NoUser /\ row.status = "assigned")
        /\ entry.type = IF a = NoUser THEN "UNASSIGNED" ELSE "ASSIGNED"
    BY DEF Assign
  <2>2. /\ mine.status = IF a # NoUser /\ row.status = "open"
                           THEN "assigned" ELSE row.status
        /\ mine.agent = a /\ mine.priority = row.priority
        /\ mine.resolvedAt = row.resolvedAt /\ mine.closedAt = row.closedAt
        /\ mine.firstResponseAt = row.firstResponseAt
    BY <1>1 DEF Row
  <2> HIDE DEF mine, entry
  <2> QED
    BY <2>1, <2>2 DEF Outlined
<1> QED
  BY <1>2, <1>3, <1>4, <1>5, <1>6, <1>7

LEMMA PriorityDecision ==
    ASSUME TypeOK, NEW r \in Requests, NEW u \in Users,
           NEW p \in Priorities, ChangePriority(r, u, p)
    PROVE  \E mine \in Row, entry \in Entry, notes \in SUBSET Notice :
              /\ Stage(r, u, "priority", mine, entry, notes)
              /\ Justified(u, "priority", mine, notes)
              /\ Outlined("priority", mine, entry)
<1> DEFINE mine == [row EXCEPT !.priority = p]
           entry == [type |-> "PRIORITY_CHANGED", priority |-> p]
<1>1. row \in Row
  BY DEF TypeOK
<1>2. mine \in Row
  BY <1>1 DEF Row
<1>3. entry \in Entry
  BY DEF Entry
<1>4. Stage(r, u, "priority", mine, entry, {})
  BY DEF ChangePriority
<1>5. /\ mine.status = row.status /\ mine.agent = row.agent
      /\ mine.resolvedAt = row.resolvedAt /\ mine.closedAt = row.closedAt
      /\ mine.firstResponseAt = row.firstResponseAt /\ mine.priority = p
  BY <1>1 DEF Row
<1> HIDE DEF mine
<1>6. Justified(u, "priority", mine, {})
  BY <1>5 DEF Justified
<1>7. Outlined("priority", mine, entry)
  BY <1>5 DEF Outlined, ChangePriority
<1> QED
  BY <1>2, <1>3, <1>4, <1>6, <1>7

\* change_status and close_ticket both move the row along an edge.
LEMMA MoveDecision ==
    ASSUME TypeOK, ResolvedAtMatchesStatus(row),
           NEW u \in Users, NEW kind \in {"status", "close"},
           NEW target \in Statuses, NEW now \in clock .. MaxTime,
           CanTransition(row.status, target),
           target \notin {"assigned", "open"},
           NEW notes,
           target = "resolved" =>
              \A p \in Portal : [type |-> "resolved", user |-> p] \in notes
    PROVE  /\ Justified(u, kind, Moved(target, now), notes)
           /\ kind = (IF target = "closed" THEN "close" ELSE "status") =>
                Outlined(kind, Moved(target, now),
                         [type |-> "STATUS_CHANGED", status |-> target])
<1> DEFINE mine == Moved(target, now)
           entry == [type |-> "STATUS_CHANGED", status |-> target]
<1>1. /\ row \in Row /\ now \in Nat /\ now # 0 /\ clock \in Nat /\ clock <= now
      /\ row.resolvedAt \in Nat
  BY MovedType, TimeAssumption DEF TypeOK, Times, Row
<1>2. /\ mine.status = target /\ mine.agent = row.agent
      /\ mine.priority = row.priority
      /\ mine.resolvedAt = IF \/ target = "resolved"
                              \/ target = "closed" /\ row.resolvedAt = 0
                             THEN now ELSE row.resolvedAt
      /\ mine.closedAt = IF target = "closed" THEN now ELSE row.closedAt
      /\ mine.firstResponseAt = row.firstResponseAt
  BY <1>1 DEF Moved, Row
<1> HIDE DEF mine
<1>3. Justified(u, kind, mine, notes)
  <2>1. target = "closed" => row.resolvedAt # 0
    BY DEF CanTransition, Edges, ResolvedAtMatchesStatus
  <2> QED
    BY <1>2, <2>1 DEF Justified
<1>4. ASSUME kind = IF target = "closed" THEN "close" ELSE "status"
      PROVE  Outlined(kind, mine, entry)
  <2>1. target = "closed" => row.status = "resolved" /\ row.resolvedAt # 0
    BY DEF CanTransition, Edges, ResolvedAtMatchesStatus
  <2>2. target \in {"in_progress", "waiting_for_customer", "resolved", "closed"}
    BY DEF Statuses
  <2>3. CASE target = "closed"
    BY <1>1, <1>2, <1>4, <2>1, <2>3 DEF Outlined
  <2>4. CASE target # "closed"
    BY <1>1, <1>2, <1>4, <2>2, <2>4 DEF Outlined
  <2> QED
    BY <2>3, <2>4
<1> QED
  BY <1>3, <1>4 DEF mine

LEMMA ReopenDecision ==
    ASSUME TypeOK, NEW r \in Requests, NEW u \in Users, ReopenTicket(r, u)
    PROVE  \E mine \in Row, entry \in Entry, notes \in SUBSET Notice :
              /\ Stage(r, u, "reopen", mine, entry, notes)
              /\ Justified(u, "reopen", mine, notes)
              /\ Outlined("reopen", mine, entry)
<1> DEFINE mine == [row EXCEPT !.status = "open", !.resolvedAt = 0,
                               !.closedAt = 0, !.agent = NoUser]
           entry == [type |-> "REOPENED", status |-> "open"]
<1>1. row \in Row /\ 0 \in Times /\ NoUser \notin Users
  BY TimeAssumption, UserAssumption DEF TypeOK, Times
<1>2. mine \in Row
  BY <1>1 DEF Row, Statuses, Assignees
<1>3. entry \in Entry
  BY DEF Entry, Statuses
<1>4. Stage(r, u, "reopen", mine, entry, {})
  BY DEF ReopenTicket
<1>5. /\ mine.status = "open" /\ mine.agent = NoUser
      /\ mine.resolvedAt = 0 /\ mine.closedAt = 0
      /\ mine.firstResponseAt = row.firstResponseAt
      /\ mine.priority = row.priority
  BY <1>1 DEF Row
<1> HIDE DEF mine
<1>6. Justified(u, "reopen", mine, {})
  BY <1>1, <1>5 DEF Justified
<1>7. Outlined("reopen", mine, entry)
  <2>1. row.status = "closed"
    BY DEF ReopenTicket, CanTransition, Edges
  <2> QED
    BY <1>5, <2>1 DEF Outlined
<1> QED
  BY <1>2, <1>3, <1>4, <1>6, <1>7

LEMMA ReplyDecision ==
    ASSUME TypeOK, NEW r \in Requests, NEW u \in Users,
           NEW now \in clock .. MaxTime, PostReply(r, u, now)
    PROVE  \E mine \in Row, entry \in Entry, notes \in SUBSET Notice :
              /\ Stage(r, u, "reply", mine, entry, notes)
              /\ Justified(u, "reply", mine, notes)
              /\ Outlined("reply", mine, entry)
<1> DEFINE mine == [row EXCEPT !.firstResponseAt =
                      IF u \in Staff /\ row.firstResponseAt = 0
                        THEN now ELSE row.firstResponseAt]
           entry == [type |-> "MESSAGE_ADDED"]
           notes == IF u \in Staff THEN {} ELSE Notify("reply", {row.agent}, u)
<1>1. row \in Row /\ now \in Times /\ now # 0
  BY TimeAssumption DEF TypeOK, Times
<1>2. mine \in Row
  BY <1>1 DEF Row
<1>3. entry \in Entry
  BY DEF Entry
<1>4. notes \in SUBSET Notice
  <2>1. row.agent \in Assignees
    BY <1>1 DEF Row
  <2> QED
    BY <2>1, NotifyType
<1>5. Stage(r, u, "reply", mine, entry, notes)
  BY DEF PostReply
<1>6. /\ mine.status = row.status /\ mine.agent = row.agent
      /\ mine.resolvedAt = row.resolvedAt /\ mine.closedAt = row.closedAt
      /\ mine.priority = row.priority
      /\ mine.firstResponseAt = IF u \in Staff /\ row.firstResponseAt = 0
                                  THEN now ELSE row.firstResponseAt
  BY <1>1 DEF Row
<1> HIDE DEF mine, notes
<1>7. Justified(u, "reply", mine, notes)
  BY <1>1, <1>6 DEF Justified
<1>8. Outlined("reply", mine, entry)
  BY <1>6 DEF Outlined, PostReply
<1> QED
  BY <1>2, <1>3, <1>4, <1>5, <1>7, <1>8

LEMMA NoteDecision ==
    ASSUME TypeOK, NEW r \in Requests, NEW u \in Users, PostNote(r, u)
    PROVE  \E mine \in Row, entry \in Entry, notes \in SUBSET Notice :
              /\ Stage(r, u, "note", mine, entry, notes)
              /\ Justified(u, "note", mine, notes)
              /\ Outlined("note", mine, entry)
<1> DEFINE entry == [type |-> "INTERNAL_NOTE_ADDED"]
<1>1. row \in Row /\ entry \in Entry
  BY DEF TypeOK, Entry
<1>2. Stage(r, u, "note", row, entry, {})
  BY DEF PostNote
<1>3. Justified(u, "note", row, {})
  BY DEF Justified
<1>4. Outlined("note", row, entry)
  BY DEF Outlined
<1> QED
  BY <1>1, <1>2, <1>3, <1>4

Decided(r, u) ==
    \E kind \in AllKinds, mine \in Row, entry \in Entry, notes \in SUBSET Notice :
       /\ Stage(r, u, kind, mine, entry, notes)
       /\ Justified(u, kind, mine, notes)
       /\ Outlined(kind, mine, entry)

\* A handler that runs to its commit stages a typed, justified change of the
\* row, of the shape its operation gives it.
LEMMA Handled ==
    ASSUME TypeOK, ResolvedAtMatchesStatus(row),
           NEW r \in Requests, NEW u \in Users, Handle(r, u)
    PROVE  Decided(r, u)
<1> USE DEF AllKinds, Decided
<1>1. ASSUME NEW a \in Assignees, Assign(r, u, a) PROVE  Decided(r, u)
  BY <1>1, AssignDecision
<1>2. ASSUME NEW p \in Priorities, ChangePriority(r, u, p) PROVE  Decided(r, u)
  BY <1>2, PriorityDecision
<1>3. ASSUME NEW target \in Statuses, NEW now \in clock .. MaxTime,
             ChangeStatus(r, u, target, now)
      PROVE  Decided(r, u)
  <2> DEFINE notes == IF target = "resolved"
                        THEN Notify("resolved", Portal, u) ELSE {}
             entry == [type |-> "STATUS_CHANGED", status |-> target]
  <2>1. u \in Staff /\ target \notin {"assigned", "closed", "open"}
        /\ CanTransition(row.status, target)
    BY <1>3 DEF ChangeStatus, Received, Allowed, ActionEdges
  <2>2. Stage(r, u, "status", Moved(target, now), entry, notes)
    BY <1>3 DEF ChangeStatus
  <2>3. Moved(target, now) \in Row /\ entry \in Entry
    BY MovedType DEF Entry
  <2>4. notes \in SUBSET Notice
    BY NotifyType DEF Assignees, Users
  <2>5. target = "resolved" =>
           \A p \in Portal : [type |-> "resolved", user |-> p] \in notes
    BY <2>1, UserAssumption, NotifyReaches DEF Users
  <2> HIDE DEF notes
  <2> QED
    BY <2>1, <2>2, <2>3, <2>4, <2>5, MoveDecision
<1>4. ASSUME NEW now \in clock .. MaxTime, CloseTicket(r, u, now) PROVE  Decided(r, u)
  <2> DEFINE entry == [type |-> "STATUS_CHANGED", status |-> "closed"]
  <2>1. CanTransition(row.status, "closed") /\ "closed" \in Statuses
    BY <1>4 DEF CloseTicket, Statuses
  <2>2. Stage(r, u, "close", Moved("closed", now), entry, {})
    BY <1>4 DEF CloseTicket
  <2>3. Moved("closed", now) \in Row /\ entry \in Entry
    BY <2>1, MovedType DEF Entry
  <2>4. /\ Justified(u, "close", Moved("closed", now), {})
        /\ Outlined("close", Moved("closed", now), entry)
    BY <2>1, MoveDecision
  <2> QED
    BY <2>2, <2>3, <2>4
<1>5. ASSUME ReopenTicket(r, u) PROVE  Decided(r, u)
  BY <1>5, ReopenDecision
<1>6. ASSUME NEW now \in clock .. MaxTime, PostReply(r, u, now) PROVE  Decided(r, u)
  BY <1>6, ReplyDecision
<1>7. ASSUME PostNote(r, u) PROVE  Decided(r, u)
  BY <1>7, NoteDecision
<1> QED
  BY <1>1, <1>2, <1>3, <1>4, <1>5, <1>6, <1>7 DEF Handle

-----------------------------------------------------------------------------
(* The concurrent invariant *)

LEMMA InitTypes == Init => TypeOK
<1> SUFFICES ASSUME Init PROVE TypeOK
  OBVIOUS
<1>1. 0 \in Times /\ 1 \in 1 .. MaxTime
  BY TimeAssumption DEF Times
<1>2. row \in Row
  BY <1>1 DEF Init, Row, Statuses, Assignees
<1> QED
  BY <1>1, <1>2 DEF Init, TypeOK, Row, Story

LEMMA AfterCommitType ==
    ASSUME NEW kind \in AllKinds
    PROVE  AfterCommit(kind) \in {"enqueue", "publish"}
BY DEF AfterCommit, AllKinds

LEMMA CommitTypes ==
    ASSUME TypeOK, NEW r \in Requests, Commit(r)
    PROVE  /\ TypeOK'
           /\ req[r] \in Staged
           /\ row' = WriteBack(req[r].set)
           /\ req'[r].pc \in {"enqueue", "publish"}
           /\ req'[r].notes = req[r].notes
           /\ req'[r].agent = req[r].agent
           /\ \A s \in Requests \ {r} : req'[s] = req[s]
<1>1. req[r] \in Staged
  BY DEF Commit, TypeOK, Idle, Finishing
<1> DEFINE done == [pc |-> AfterCommit(req[r].kind), kind |-> req[r].kind,
                    agent |-> req[r].agent, notes |-> req[r].notes]
<1>2. done \in Finishing /\ done.pc \in {"enqueue", "publish"}
  BY <1>1, AfterCommitType DEF Staged, Finishing
<1>3. row' = WriteBack(req[r].set) /\ row' \in Row
  BY <1>1, WriteBackType DEF Commit, TypeOK, Staged
<1>4. Tell(story, req[r].entry) \in Story
  <2>1. req[r].entry \in Entry /\ story \in Story /\ NoUser \in Assignees
    BY <1>1 DEF Staged, TypeOK, Assignees
  <2> QED
    BY <2>1 DEF Entry, Tell, Story, Statuses
<1>5. req[r].notes \subseteq Notice
  BY <1>1 DEF Staged
<1>6. req' = [req EXCEPT ![r] = done]
  BY DEF Commit
<1>7. TypeOK'
  BY <1>2, <1>3, <1>4, <1>5, <1>6 DEF Commit, TypeOK
<1> QED
  BY <1>1, <1>2, <1>3, <1>6, <1>7 DEF TypeOK

LEMMA RestTypes ==
    ASSUME TypeOK, NEW r \in Requests,
           Refused(r) \/ Enqueue(r) \/ Publish(r) \/ Invalidate(r) \/ Crash(r)
    PROVE  TypeOK'
<1>1. ASSUME req[r].pc \in {"enqueue", "publish"}
      PROVE  req[r] \in Finishing
  BY <1>1 DEF TypeOK, Idle, Staged
<1>2. CASE Refused(r) \/ Crash(r)
  BY <1>2 DEF Refused, Crash, TypeOK
<1>3. CASE Enqueue(r)
  <2>1. [req[r] EXCEPT !.pc = "publish"] \in Finishing /\ req[r].notes \subseteq Notice
    BY <1>1, <1>3 DEF Enqueue, Finishing
  <2> QED
    BY <1>3, <2>1 DEF Enqueue, TypeOK
<1>4. CASE Publish(r)
  <2>1. [req[r] EXCEPT !.pc = "invalidate"] \in Finishing
    BY <1>1, <1>4 DEF Publish, Finishing
  <2> QED
    BY <1>4, <2>1 DEF Publish, TypeOK
<1>5. CASE Invalidate(r)
  BY <1>5 DEF Invalidate, TypeOK
<1> QED
  BY <1>2, <1>3, <1>4, <1>5

\* What a handler stages carries its own justification.
LEMMA StagedJustified ==
    ASSUME TypeOK, NEW r \in Requests, NEW u \in Users, NEW kind \in AllKinds,
           NEW mine \in Row, NEW entry, NEW notes,
           Stage(r, u, kind, mine, entry, notes),
           Justified(u, kind, mine, notes)
    PROVE  /\ StagedInv(req'[r]) /\ req'[r].pc = "staged"
           /\ req'[r].set = Changes(mine) /\ req'[r].agent = mine.agent
           /\ req'[r].entry = entry /\ req'[r].kind = kind
           /\ \A s \in Requests \ {r} : req'[s] = req[s]
<1>1. /\ req'[r] = [pc |-> "staged", kind |-> kind, by |-> u,
                    set |-> Changes(mine), agent |-> mine.agent,
                    entry |-> entry, notes |-> notes]
      /\ \A s \in Requests \ {r} : req'[s] = req[s]
  BY DEF Stage, TypeOK
<1>2. Keep # 0 /\ Keep \notin Users /\ Keep # "closed" /\ mine.firstResponseAt # Keep
  BY KeepAssumption DEF Assignees, Row, Times, Statuses
<1>3. StagedInv(req'[r])
  <2> DEFINE q == req'[r]
  <2>1. /\ q.by = u /\ q.kind = kind /\ q.notes = notes
        /\ q.set.firstResponseAt =
              Column(row.firstResponseAt, mine.firstResponseAt)
        /\ q.set.agent = Column(row.agent, mine.agent)
        /\ q.set.resolvedAt = Column(row.resolvedAt, mine.resolvedAt)
        /\ q.set.priority = Column(row.priority, mine.priority)
        /\ q.set.status = Column(row.status, mine.status)
    BY <1>1 DEF Changes
  <2> HIDE DEF q
  <2>2. q.set.firstResponseAt # 0
    BY <1>2, <2>1 DEF Justified, Column
  <2>3. /\ q.set.firstResponseAt # Keep => q.kind = "reply" /\ q.by \in Staff
        /\ q.kind = "reply" /\ q.by \in Staff =>
             q.set.firstResponseAt # Keep \/ row.firstResponseAt # 0
    BY <1>2, <2>1 DEF Justified, Column
  <2>4. q.set.agent \in Users \ Managers =>
           [type |-> "assigned", user |-> q.set.agent] \in q.notes
    BY <1>2, <2>1 DEF Justified, Column
  <2>5. q.set.resolvedAt \notin {Keep, 0} =>
           \A p \in Portal : [type |-> "resolved", user |-> p] \in q.notes
    BY <1>2, <2>1 DEF Justified, Column
  <2>6. /\ q.set.priority # Keep => q.kind = "priority"
        /\ q.set.agent # Keep => q.kind \in {"assign", "reopen"}
        /\ q.set.status = "closed" => q.set.resolvedAt = Keep
        /\ q.kind \in {"priority", "note"} => q.notes = {}
    BY <1>2, <2>1 DEF Justified, Column
  <2>7. StagedInv(q)
    BY <2>2, <2>3, <2>4, <2>5, <2>6 DEF StagedInv
  <2> QED
    BY <2>7 DEF q
<1> QED
  BY <1>1, <1>3

\* A handler begins on a request that is doing nothing.
LEMMA HandlesIdle ==
    ASSUME NEW r \in Requests, NEW u \in Users, Handle(r, u)
    PROVE  req[r] = Idle
  BY DEF Handle, Assign, ChangePriority, ChangeStatus, CloseTicket, ReopenTicket, PostReply,
         PostNote, Received

LEMMA StageConcurrent ==
    ASSUME TypeOK, ConcurrentInv, NEW r \in Requests, NEW u \in Users, Handle(r, u)
    PROVE  TypeOK' /\ ConcurrentInv'
<1>1. PICK kind \in AllKinds, mine \in Row, entry \in Entry,
           notes \in SUBSET Notice :
              /\ Stage(r, u, kind, mine, entry, notes)
              /\ Justified(u, kind, mine, notes)
  BY Handled DEF Decided, ConcurrentInv
<1>2. TypeOK'
  BY <1>1, StageType
<1>3. /\ StagedInv(req'[r]) /\ req'[r].pc = "staged"
      /\ \A s \in Requests \ {r} : req'[s] = req[s]
  BY <1>1, StagedJustified
<1>4. UNCHANGED <<row, replied, inbox, queued, fresh>> /\ req[r] = Idle
  BY <1>1, HandlesIdle DEF Stage
<1>5. ConcurrentInv'
  <2>1. /\ ResolvedAtMatchesStatus(row)' /\ FirstResponseRecorded'
        /\ QueuedIsCommitted' /\ AssigneeWasTold' /\ CustomerToldOfResolution'
    BY <1>4 DEF ConcurrentInv, ResolvedAtMatchesStatus, FirstResponseRecorded,
                QueuedIsCommitted, AssigneeWasTold, CustomerToldOfResolution
  <2>2. ASSUME NEW s \in Requests
        PROVE  /\ req'[s].pc = "staged" => StagedInv(req[s])'
               /\ req'[s].pc = "enqueue" => req'[s].notes \subseteq inbox'
    BY <1>3, <1>4 DEF ConcurrentInv, StagedInv
  <2>3. Announcing'
    <3>1. \A s \in Requests : req[s].pc \in {"enqueue", "publish", "invalidate"} =>
             req'[s] = req[s]
      BY <1>3, <1>4 DEF Idle
    <3> QED
      BY <1>4, <3>1 DEF ConcurrentInv, Announcing
  <2> QED
    BY <2>1, <2>2, <2>3 DEF ConcurrentInv
<1> QED
  BY <1>2, <1>5

LEMMA CommitConcurrent ==
    ASSUME TypeOK, ConcurrentInv, NEW r \in Requests, Commit(r)
    PROVE  TypeOK' /\ ConcurrentInv'
<1> DEFINE q == req[r]
<1>1. /\ TypeOK' /\ q \in Staged /\ row' = WriteBack(q.set)
      /\ req'[r].pc \in {"enqueue", "publish"} /\ req'[r].notes = q.notes
      /\ \A s \in Requests \ {r} : req'[s] = req[s]
  BY CommitTypes
<1>2. StagedInv(q) /\ q.pc = "staged"
  BY DEF ConcurrentInv, Commit
<1>3. /\ row'.agent = Written(q.set.agent, row.agent)
      /\ row'.resolvedAt = Written(q.set.resolvedAt, row.resolvedAt)
      /\ row'.firstResponseAt =
            Written(q.set.firstResponseAt, row.firstResponseAt)
  BY <1>1 DEF WriteBack
<1>4. /\ ResolvedAtMatchesStatus(WriteBack(q.set))
      /\ replied' = (replied \/ (q.kind = "reply" /\ q.by \in Staff))
      /\ inbox' = inbox \cup q.notes /\ queued' = queued
  BY DEF Commit
<1>5. ResolvedAtMatchesStatus(row)'
  BY <1>1, <1>4 DEF ResolvedAtMatchesStatus
<1>6. FirstResponseRecorded'
  BY <1>2, <1>3, <1>4 DEF ConcurrentInv, FirstResponseRecorded, StagedInv, Written,
     TypeOK
<1>7. QueuedIsCommitted'
  BY <1>4 DEF ConcurrentInv, QueuedIsCommitted
<1>8. AssigneeWasTold'
  BY <1>2, <1>3, <1>4 DEF ConcurrentInv, AssigneeWasTold, StagedInv, Written
<1>9. CustomerToldOfResolution'
  BY <1>2, <1>3, <1>4
     DEF ConcurrentInv, CustomerToldOfResolution, StagedInv, Written
<1>10. ASSUME NEW s \in Requests
       PROVE  /\ req'[s].pc = "staged" => StagedInv(req[s])'
              /\ req'[s].pc = "enqueue" => req'[s].notes \subseteq inbox'
  <2>1. CASE s = r
    BY <2>1, <1>1, <1>4
  <2>2. CASE s # r
    <3>1. req'[s] = req[s]
      BY <2>2, <1>1
    <3>2. row.firstResponseAt # 0 => row'.firstResponseAt # 0
      BY <1>2, <1>3 DEF StagedInv, Written
    <3>3. req[s].pc = "staged" => StagedInv(req[s])'
      BY <3>1, <3>2 DEF ConcurrentInv, StagedInv
    <3> QED
      BY <3>1, <3>3, <1>4 DEF ConcurrentInv
  <2> QED
    BY <2>1, <2>2
<1>11. Announcing'
  <2>1. /\ req'[r].pc = AfterCommit(q.kind) /\ req'[r].kind = q.kind
        /\ fresh' = (fresh /\ q.kind = "note") /\ q.kind \in AllKinds
    BY <1>1 DEF Commit, TypeOK, Staged
  <2>2. \A s \in Requests : req[s].pc \in {"enqueue", "publish", "invalidate"} =>
           req'[s] = req[s]
    BY <1>1, <1>2
  <2>3. ASSUME ~ Faults, NEW n \in inbox' \ queued'
        PROVE  \E s \in Requests : req'[s].pc = "enqueue" /\ n \in req'[s].notes
    <3>1. CASE n \in q.notes
      <4>1. AfterCommit(q.kind) = "enqueue"
        BY <1>2, <2>1, <3>1 DEF StagedInv, AfterCommit
      <4> QED
        BY <1>1, <2>1, <3>1, <4>1
    <3>2. CASE n \notin q.notes
      BY <1>4, <2>2, <2>3, <3>2 DEF ConcurrentInv, Announcing
    <3> QED
      BY <3>1, <3>2
  <2>4. ASSUME ~ Faults, ~ fresh'
        PROVE  \E s \in Requests : /\ req'[s].pc \in {"enqueue", "publish", "invalidate"}
                                  /\ req'[s].kind # "note"
    <3>1. CASE q.kind = "note"
      BY <2>1, <2>2, <2>4, <3>1 DEF ConcurrentInv, Announcing
    <3>2. CASE q.kind # "note"
      BY <1>1, <2>1, <3>2
    <3> QED
      BY <3>1, <3>2
  <2> QED
    BY <2>3, <2>4 DEF Announcing
<1> QED
  BY <1>1, <1>5, <1>6, <1>7, <1>8, <1>9, <1>10, <1>11 DEF ConcurrentInv

LEMMA RestConcurrent ==
    ASSUME TypeOK, ConcurrentInv, NEW r \in Requests,
           Refused(r) \/ Enqueue(r) \/ Publish(r) \/ Invalidate(r) \/ Crash(r)
    PROVE  ConcurrentInv'
<1>1. /\ row' = row /\ replied' = replied /\ inbox' = inbox
      /\ req'[r].pc \notin {"staged", "enqueue"}
      /\ \A s \in Requests \ {r} : req'[s] = req[s]
  <2>1. CASE Refused(r) \/ Invalidate(r) \/ Crash(r)
    BY <2>1 DEF Refused, Invalidate, Crash, TypeOK, Idle
  <2>2. CASE Enqueue(r)
    <3>1. req[r] \in Finishing
      BY <2>2 DEF Enqueue, TypeOK, Idle, Staged
    <3>2. [req[r] EXCEPT !.pc = "publish"].pc = "publish"
      BY <3>1 DEF Finishing
    <3> QED
      BY <2>2, <3>2 DEF Enqueue, TypeOK
  <2>3. CASE Publish(r)
    <3>1. req[r] \in Finishing
      BY <2>3 DEF Publish, TypeOK, Idle, Staged
    <3>2. [req[r] EXCEPT !.pc = "invalidate"].pc = "invalidate"
      BY <3>1 DEF Finishing
    <3> QED
      BY <2>3, <3>2 DEF Publish, TypeOK, Idle
  <2> QED
    BY <2>1, <2>2, <2>3
<1>2. QueuedIsCommitted'
  BY <1>1 DEF Refused, Enqueue, Publish, Invalidate, Crash, ConcurrentInv,
              QueuedIsCommitted
<1>3. /\ ResolvedAtMatchesStatus(row)' /\ FirstResponseRecorded'
      /\ AssigneeWasTold' /\ CustomerToldOfResolution'
  BY <1>1 DEF ConcurrentInv, ResolvedAtMatchesStatus, FirstResponseRecorded,
              AssigneeWasTold, CustomerToldOfResolution
<1>4. ASSUME NEW s \in Requests
      PROVE  /\ req'[s].pc = "staged" => StagedInv(req[s])'
             /\ req'[s].pc = "enqueue" => req'[s].notes \subseteq inbox'
  BY <1>1 DEF ConcurrentInv, StagedInv
<1>5. Announcing'
  <2> SUFFICES ASSUME ~ Faults PROVE Announcing'
    BY DEF Announcing
  <2>1. CASE Refused(r)
    <3>1. UNCHANGED <<inbox, queued, fresh>> /\ req[r].pc = "staged"
      BY <2>1 DEF Refused
    <3>2. \A s \in Requests : req[s].pc \in {"enqueue", "publish", "invalidate"} =>
             req'[s] = req[s]
      BY <1>1, <3>1
    <3> QED
      BY <3>1, <3>2 DEF ConcurrentInv, Announcing
  <2>2. CASE Enqueue(r)
    <3>1. req[r] \in Finishing
      BY <2>2 DEF Enqueue, TypeOK, Idle, Staged
    <3>2. /\ [req[r] EXCEPT !.pc = "publish"].pc = "publish"
          /\ [req[r] EXCEPT !.pc = "publish"].kind = req[r].kind
      BY <3>1 DEF Finishing
    <3>3. /\ queued' = queued \cup req[r].notes /\ UNCHANGED <<inbox, fresh>>
          /\ req'[r].pc = "publish" /\ req'[r].kind = req[r].kind
      BY <2>2, <3>2 DEF Enqueue, TypeOK
    <3>4. \A n \in inbox' \ queued' :
             \E s \in Requests : req'[s].pc = "enqueue" /\ n \in req'[s].notes
      BY <1>1, <3>3 DEF ConcurrentInv, Announcing
    <3>5. ~ fresh' => \E s \in Requests :
                         /\ req'[s].pc \in {"enqueue", "publish", "invalidate"}
                         /\ req'[s].kind # "note"
      BY <1>1, <3>3 DEF ConcurrentInv, Announcing
    <3> QED
      BY <3>4, <3>5 DEF Announcing
  <2>3. CASE Publish(r)
    <3>1. req[r] \in Finishing /\ req[r].pc = "publish"
      BY <2>3 DEF Publish, TypeOK, Idle, Staged
    <3>2. /\ [req[r] EXCEPT !.pc = "invalidate"].pc = "invalidate"
          /\ [req[r] EXCEPT !.pc = "invalidate"].kind = req[r].kind
      BY <3>1 DEF Finishing
    <3>3. /\ UNCHANGED <<inbox, queued, fresh>>
          /\ req[r].kind # "note" => req'[r].pc = "invalidate" /\ req'[r].kind = req[r].kind
      BY <2>3, <3>2 DEF Publish, TypeOK
    <3>4. \A n \in inbox' \ queued' :
             \E s \in Requests : req'[s].pc = "enqueue" /\ n \in req'[s].notes
      BY <1>1, <3>1, <3>3 DEF ConcurrentInv, Announcing
    <3>5. ~ fresh' => \E s \in Requests :
                         /\ req'[s].pc \in {"enqueue", "publish", "invalidate"}
                         /\ req'[s].kind # "note"
      BY <1>1, <3>3 DEF ConcurrentInv, Announcing
    <3> QED
      BY <3>4, <3>5 DEF Announcing
  <2>4. CASE Invalidate(r)
    <3>1. fresh' /\ UNCHANGED <<inbox, queued>> /\ req[r].pc = "invalidate"
      BY <2>4 DEF Invalidate
    <3> QED
      BY <1>1, <3>1 DEF ConcurrentInv, Announcing
  <2>5. ~ Crash(r)
    BY DEF Crash
  <2> QED
    BY <2>1, <2>2, <2>3, <2>4, <2>5
<1> QED
  BY <1>2, <1>3, <1>4, <1>5 DEF ConcurrentInv

\* However requests overlap, fail and crash: the row and the requests in
\* flight keep their shapes.
THEOREM ConcurrentStep ==
    ASSUME TypeOK, ConcurrentInv, [Next]_vars
    PROVE  TypeOK' /\ ConcurrentInv'
<1>1. CASE UNCHANGED vars
  BY <1>1 DEF vars, TypeOK, ConcurrentInv, ResolvedAtMatchesStatus,
     FirstResponseRecorded, QueuedIsCommitted, AssigneeWasTold,
     CustomerToldOfResolution, StagedInv, Announcing
<1>2. CASE Tick
  <2>1. TypeOK'
    BY <1>2, TimeAssumption DEF Tick, TypeOK
  <2> QED
    BY <2>1, <1>2 DEF Tick, ConcurrentInv, ResolvedAtMatchesStatus,
       FirstResponseRecorded, QueuedIsCommitted, AssigneeWasTold,
       CustomerToldOfResolution, StagedInv, Announcing
<1>3. ASSUME NEW r \in Requests, Step(r)
      PROVE  TypeOK' /\ ConcurrentInv'
  <2>1. CASE \E u \in Users : Handle(r, u)
    BY <2>1, StageConcurrent
  <2>2. CASE Commit(r)
    BY <2>2, CommitConcurrent
  <2>3. CASE Refused(r) \/ Enqueue(r) \/ Publish(r) \/ Invalidate(r) \/ Crash(r)
    BY <2>3, RestTypes, RestConcurrent
  <2> QED
    BY <1>3, <2>1, <2>2, <2>3 DEF Step
<1> QED
  BY <1>1, <1>2, <1>3 DEF Next

LEMMA ConcurrentInit == Init => ConcurrentInv
BY UserAssumption DEF Init, ConcurrentInv, ResolvedAtMatchesStatus,
   FirstResponseRecorded, QueuedIsCommitted, AssigneeWasTold,
   CustomerToldOfResolution, Idle, Statuses, Announcing

\* The ticket's row, its requests in flight, its notices and its clock keep
\* their shapes.
THEOREM TypeCorrect == Spec => []TypeOK
<1>1. Init => TypeOK /\ ConcurrentInv
  BY InitTypes, ConcurrentInit
<1>2. TypeOK /\ ConcurrentInv /\ [Next]_vars => (TypeOK /\ ConcurrentInv)'
  BY ConcurrentStep
<1> QED
  BY <1>1, <1>2, PTL DEF Spec

\* ConcurrentInv is an invariant for any number of overlapping requests.
THEOREM Concurrent == Spec => []ConcurrentInv
<1>1. Init => TypeOK /\ ConcurrentInv
  BY InitTypes, ConcurrentInit
<1>2. TypeOK /\ ConcurrentInv /\ [Next]_vars => (TypeOK /\ ConcurrentInv)'
  BY ConcurrentStep
<1> QED
  BY <1>1, <1>2, PTL DEF Spec

\* A response time is recorded exactly when staff have answered.
THEOREM ResponseTime == Spec => []FirstResponseRecorded
<1>1. ConcurrentInv => FirstResponseRecorded
  BY DEF ConcurrentInv
<1> QED
  BY <1>1, Concurrent, PTL

\* The assignee was told, whoever else was working on the ticket.
THEOREM AssigneeTold == Spec => []AssigneeWasTold
<1>1. ConcurrentInv => AssigneeWasTold
  BY DEF ConcurrentInv
<1> QED
  BY <1>1, Concurrent, PTL

\* A resolution time the customer can see is one the customer was told of.
THEOREM CustomerTold == Spec => []CustomerToldOfResolution
<1>1. ConcurrentInv => CustomerToldOfResolution
  BY DEF ConcurrentInv
<1> QED
  BY <1>1, Concurrent, PTL

\* No e-mail is queued for a notice that a rollback took back.
THEOREM NoEmailBeforeCommit == Spec => []QueuedIsCommitted
<1>1. ConcurrentInv => QueuedIsCommitted
  BY DEF ConcurrentInv
<1> QED
  BY <1>1, Concurrent, PTL

\* Unless a broker, Redis or a process fails, a ticket nobody is working on has all
\* its notices queued and no stale analytics, however its requests overlapped.
THEOREM QuietAnnounced == Spec => []QuietMeansAnnounced
<1>1. ConcurrentInv => QuietMeansAnnounced
  <2> SUFFICES ASSUME ConcurrentInv, ~ Faults, \A r \in Requests : req[r] = Idle
               PROVE  queued = inbox /\ fresh
    BY DEF QuietMeansAnnounced
  <2>1. \A r \in Requests : req[r].pc = "idle"
    BY DEF Idle
  <2>2. fresh /\ inbox \subseteq queued /\ queued \subseteq inbox
    BY <2>1 DEF ConcurrentInv, Announcing, QueuedIsCommitted
  <2> QED
    BY <2>2
<1> QED
  BY <1>1, Concurrent, PTL

\* Only a commit changes the row.
LEMMA RowMoves ==
    ASSUME TypeOK, ConcurrentInv, [Next]_vars
    PROVE  row' = row \/ \E r \in Requests : Commit(r)
<1>1. ASSUME NEW r \in Requests, NEW u \in Users, Handle(r, u) PROVE row' = row
  <2>1. Decided(r, u)
    BY <1>1, Handled DEF ConcurrentInv
  <2> QED
    BY <2>1 DEF Decided, Stage
<1>2. ASSUME NEW r \in Requests,
             Refused(r) \/ Enqueue(r) \/ Publish(r) \/ Invalidate(r) \/ Crash(r)
      PROVE  row' = row
  BY <1>2 DEF Refused, Enqueue, Publish, Invalidate, Crash
<1>3. Tick \/ UNCHANGED vars => row' = row
  BY DEF Tick, vars
<1> QED
  BY <1>1, <1>2, <1>3 DEF Next, Step

\* However requests overlap, closing a ticket leaves the resolution time it finds.
THEOREM ClosingKeeps == Spec => ClosingKeepsResolution
<1>1. TypeOK /\ ConcurrentInv /\ [Next]_vars =>
         [row'.status = "closed" /\ row.status # "closed" =>
             row'.resolvedAt = row.resolvedAt]_vars
  <2> SUFFICES ASSUME TypeOK, ConcurrentInv, [Next]_vars,
                      row'.status = "closed", row.status # "closed"
               PROVE  row'.resolvedAt = row.resolvedAt
    OBVIOUS
  <2>1. PICK r \in Requests : Commit(r)
    BY RowMoves
  <2>2. row' = WriteBack(req[r].set) /\ StagedInv(req[r])
    BY <2>1 DEF Commit, ConcurrentInv
  <2> QED
    BY <2>2 DEF WriteBack, Written, StagedInv
<1> QED
  BY <1>1, TypeCorrect, Concurrent, PTL DEF Spec, ClosingKeepsResolution

\* However requests overlap, a commit changes only fields its operation is about:
\* nobody's change is written over by a request that did not decide on it.
THEOREM NothingLost == Spec => NoLostUpdate
<1> DEFINE Kept ==
              \A r \in Requests :
                 Committing(r) =>
                    /\ row'.priority # row.priority => req[r].kind = "priority"
                    /\ row'.agent # row.agent => req[r].kind \in {"assign", "reopen"}
                    /\ row'.firstResponseAt # row.firstResponseAt =>
                          req[r].kind = "reply"
<1>1. TypeOK /\ ConcurrentInv /\ [Next]_vars => Kept
  <2> SUFFICES ASSUME TypeOK, ConcurrentInv, [Next]_vars, row' # row,
                      NEW r \in Requests, Committing(r)
               PROVE  /\ row'.priority # row.priority => req[r].kind = "priority"
                      /\ row'.agent # row.agent => req[r].kind \in {"assign", "reopen"}
                      /\ row'.firstResponseAt # row.firstResponseAt =>
                            req[r].kind = "reply"
    OBVIOUS
  <2>1. PICK s \in Requests : Commit(s)
    BY RowMoves
  <2>2. s = r
    BY <2>1, CommitTypes DEF Committing
  <2>3. row' = WriteBack(req[r].set) /\ StagedInv(req[r])
    BY <2>1, <2>2 DEF Commit, ConcurrentInv
  <2> QED
    BY <2>3 DEF WriteBack, Written, StagedInv
<1> QED
  BY <1>1, TypeCorrect, Concurrent, PTL DEF Spec, NoLostUpdate

-----------------------------------------------------------------------------
(* Requests that overlap *)

LEMMA OverlapInit == Init => OverlapInv
<1> SUFFICES ASSUME Init PROVE OverlapInv
  OBVIOUS
<1>1. Coherent(row) /\ story = Told(row)
  BY DEF Init, Coherent, Told
<1>2. \A r \in Requests : req[r].pc = "idle"
  BY DEF Init, Idle
<1> QED
  BY <1>1, <1>2 DEF Init, OverlapInv

\* A handler stages an update of the shape its operation has.
LEMMA StagedShape ==
    ASSUME row \in Row, ResolvedAtMatchesStatus(row), torn \/ Coherent(row),
           NEW kind \in AllKinds, NEW mine \in Row, NEW entry, Outlined(kind, mine, entry),
           NEW q, q.kind = kind, q.set = Changes(mine), q.entry = entry
    PROVE  Shape(q)
<1>1. /\ Keep \notin Statuses /\ Keep \notin Assignees
      /\ Keep \notin Priorities /\ Keep \notin Times /\ Keep # 0
  BY KeepAssumption DEF Times
<1>2. /\ q.set.status = Column(row.status, mine.status)
      /\ q.set.agent = Column(row.agent, mine.agent)
      /\ q.set.priority = Column(row.priority, mine.priority)
      /\ q.set.resolvedAt = Column(row.resolvedAt, mine.resolvedAt)
      /\ q.set.closedAt = Column(row.closedAt, mine.closedAt)
  BY DEF Changes
<1>3. /\ mine.status \in Statuses /\ mine.agent \in Assignees
      /\ mine.resolvedAt \in Times /\ mine.closedAt \in Times
  BY DEF Row
<1>4. CASE kind = "assign"
  BY <1>1, <1>2, <1>3, <1>4 DEF Outlined, Shape, Column
<1>5. CASE kind = "status"
  <2>1. mine.status # row.status
    BY <1>5 DEF Outlined, CanTransition, Edges
  <2> QED
    BY <1>1, <1>2, <1>3, <1>5, <2>1 DEF Outlined, Shape, Column
<1>6. CASE kind = "close"
  <2>1. /\ q.set.status = "closed" /\ q.set.resolvedAt = Keep
        /\ q.entry = [type |-> "STATUS_CHANGED", status |-> "closed"]
    BY <1>2, <1>6 DEF Outlined, Column
  <2>2. torn \/ q.set.closedAt \notin {Keep, 0}
    BY <1>1, <1>2, <1>3, <1>6 DEF Outlined, Column, Coherent
  <2> QED
    BY <1>6, <2>1, <2>2 DEF Shape
<1>7. CASE kind = "reopen"
  <2>1. /\ q.set.status = "open" /\ q.set.agent \in {Keep, NoUser}
        /\ q.entry = [type |-> "REOPENED", status |-> "open"]
    BY <1>2, <1>7 DEF Outlined, Column
  <2>2. q.set.resolvedAt = 0
    BY <1>2, <1>7 DEF Outlined, Column, ResolvedAtMatchesStatus
  <2>3. torn \/ q.set.closedAt = 0
    BY <1>2, <1>7 DEF Outlined, Column, Coherent
  <2> QED
    BY <1>7, <2>1, <2>2, <2>3 DEF Shape
<1>8. CASE kind \in {"priority", "reply", "note"}
  <2>1. q.set.status = Keep /\ q.set.resolvedAt = Keep /\ q.set.closedAt = Keep
    BY <1>2, <1>8 DEF Outlined, Column
  <2>2. IF q.kind = "priority"
          THEN q.entry = [type |-> "PRIORITY_CHANGED", priority |-> q.set.priority]
          ELSE q.entry.type \in {"MESSAGE_ADDED", "INTERNAL_NOTE_ADDED"}
    BY <1>2, <1>8 DEF Outlined, Column
  <2>3. q.kind \notin {"assign", "status", "close", "reopen"}
    BY <1>8
  <2> QED
    BY <2>1, <2>2, <2>3 DEF Shape
<1> QED
  BY <1>4, <1>5, <1>6, <1>7, <1>8 DEF AllKinds

\* A handler stages what it would decide on the row it read.
LEMMA StagedStands ==
    ASSUME row \in Row, \A t \in {row.resolvedAt, row.closedAt, row.firstResponseAt} : t <= clock,
           clock \in Nat, NEW kind \in AllKinds, NEW mine \in Row, NEW entry,
           Outlined(kind, mine, entry),
           NEW q, q.kind = kind, q.set = Changes(mine)
    PROVE  Stands(q)
<1>1. Keep \notin Statuses /\ Keep \notin Assignees /\ Keep \notin Times /\ Keep # 0
  BY KeepAssumption DEF Times
<1>2. /\ q.set.status = Column(row.status, mine.status)
      /\ q.set.agent = Column(row.agent, mine.agent)
      /\ q.set.closedAt = Column(row.closedAt, mine.closedAt)
      /\ q.set.firstResponseAt = Column(row.firstResponseAt, mine.firstResponseAt)
  BY DEF Changes
<1>3. /\ row.status \in Statuses /\ mine.status \in Statuses /\ mine.agent \in Assignees
      /\ mine.closedAt \in Nat /\ row.resolvedAt \in Nat /\ row.resolvedAt <= clock
  BY DEF Row, Times
<1>4. CASE kind = "assign"
  <2>1. q.set.agent = mine.agent
    BY <1>2, <1>4 DEF Outlined, Column
  <2>2. mine.agent # NoUser => (row.status = "open" <=> q.set.status = "assigned")
    BY <1>1, <1>2, <1>3, <1>4 DEF Outlined, Column, Statuses
  <2>3. mine.agent = NoUser => row.status # "assigned"
    BY <1>4 DEF Outlined
  <2> QED
    BY <1>4, <2>1, <2>2, <2>3 DEF Stands
<1>5. CASE kind = "status"
  <2>1. CanTransition(row.status, mine.status) /\ mine.status # row.status
    BY <1>5 DEF Outlined, CanTransition, Edges
  <2>2. q.set.status = mine.status
    BY <1>2, <2>1 DEF Column
  <2> QED
    BY <1>5, <2>1, <2>2 DEF Stands
<1>6. CASE kind = "close"
  <2>1. CanTransition(row.status, "closed") /\ row.resolvedAt <= mine.closedAt
    BY <1>3, <1>6 DEF Outlined, CanTransition, Edges
  <2>2. q.set.closedAt # Keep => q.set.closedAt = mine.closedAt
    BY <1>2 DEF Column
  <2> QED
    BY <1>6, <2>1, <2>2 DEF Stands
<1>7. CASE kind = "reopen"
  <2>1. CanTransition(row.status, "open") /\ mine.agent = NoUser
    BY <1>7 DEF Outlined, CanTransition, Edges
  <2>2. q.set.agent = NoUser \/ row.agent = NoUser
    BY <1>2, <2>1 DEF Column
  <2> QED
    BY <1>7, <2>1, <2>2 DEF Stands
<1>8. CASE kind = "reply"
  <2>1. row.status # "closed"
    BY <1>8 DEF Outlined
  <2>2. q.set.firstResponseAt # Keep => row.firstResponseAt = 0
    BY <1>2, <1>8 DEF Outlined, Column
  <2> QED
    BY <1>8, <2>1, <2>2 DEF Stands
<1>9. CASE kind \in {"priority", "note"}
  BY <1>9 DEF Stands
<1> QED
  BY <1>4, <1>5, <1>6, <1>7, <1>8, <1>9 DEF AllKinds

\* What a handler would decide depends on the row alone.
LEMMA StandsStays ==
    ASSUME NEW q, Stands(q), row' = row
    PROVE  \A p : p = q => Stands(p)'
BY DEF Stands

\* An update keeps its shape: a torn commit only relaxes it.
LEMMA ShapeStays ==
    ASSUME NEW q, Shape(q), torn => torn'
    PROVE  \A p : p = q => Shape(p)'
BY DEF Shape

\* The part of OverlapInv that is about one request.
Sketched(r) ==
    /\ req[r].pc = "staged" =>
          /\ Shape(req[r]) /\ req[r].set.agent \in {Keep, req[r].agent}
          /\ r \in stale \/ Stands(req[r])
    /\ r \notin outrun =>
          /\ req[r].pc = "staged" => req[r].agent = Written(req[r].set.agent, row.agent)
          /\ req[r].pc \in {"enqueue", "publish"} => req[r].agent = row.agent

LEMMA StageOverlap ==
    ASSUME TypeOK, ConcurrentInv, OverlapInv, NEW r \in Requests, NEW u \in Users, Handle(r, u)
    PROVE  OverlapInv'
<1>1. row \in Row /\ ResolvedAtMatchesStatus(row) /\ (torn \/ Coherent(row))
  BY DEF OverlapInv, TypeOK, ConcurrentInv
<1>2. PICK kind \in AllKinds, mine \in Row, entry \in Entry,
           notes \in SUBSET Notice :
              /\ Stage(r, u, kind, mine, entry, notes)
              /\ Justified(u, kind, mine, notes)
              /\ Outlined(kind, mine, entry)
  BY <1>1, Handled DEF Decided
<1>3. /\ req'[r].pc = "staged" /\ req'[r].set = Changes(mine)
      /\ req'[r].agent = mine.agent /\ req'[r].entry = entry
      /\ req'[r].kind = kind
      /\ \A s \in Requests \ {r} : req'[s] = req[s]
  BY <1>2, StagedJustified
<1>4. UNCHANGED <<row, clock, story, torn, stale, outrun>>
  BY <1>2 DEF Stage
<1>5. Shape(req'[r]) /\ Stands(req'[r])
  <2>1. Shape(req'[r])
    BY <1>1, <1>2, <1>3, StagedShape
  <2>2. /\ clock \in Nat
        /\ \A t \in {row.resolvedAt, row.closedAt, row.firstResponseAt} : t <= clock
    BY TimeAssumption DEF TypeOK, OverlapInv
  <2>3. Stands(req'[r])
    BY <1>1, <1>2, <1>3, <2>2, StagedStands
  <2> QED
    BY <2>1, <2>3
<1>6. req'[r].set.agent = Column(row.agent, mine.agent)
  BY <1>3 DEF Changes
<1>7. Sketched(r)'
  <2>1. Shape(req[r])' /\ Stands(req[r])'
    BY <1>4, <1>5, ShapeStays, StandsStays
  <2>2. mine.agent # Keep
    BY KeepAssumption DEF Row
  <2>3. req'[r].agent = Written(req'[r].set.agent, row.agent)
    BY <1>3, <1>6, <2>2 DEF Column, Written
  <2>4. req'[r].set.agent \in {Keep, req'[r].agent}
    BY <1>3, <1>6 DEF Column
  <2> QED
    BY <1>3, <1>4, <2>1, <2>3, <2>4 DEF Sketched, Written
<1>8. ASSUME NEW s \in Requests \ {r} PROVE Sketched(s)'
  <2>1. req'[s] = req[s]
    BY <1>3
  <2>2. req[s].pc = "staged" => Shape(req[s])' /\ (s \in stale \/ Stands(req[s])')
    BY <1>4, <2>1, ShapeStays, StandsStays DEF OverlapInv
  <2> QED
    BY <1>4, <2>1, <2>2 DEF OverlapInv, Sketched
<1>9. (~ torn => Coherent(row) /\ story = Told(row))'
  BY <1>4 DEF OverlapInv, Coherent, Told
<1>10. (\A t \in {row.resolvedAt, row.closedAt, row.firstResponseAt} : t <= clock)'
  BY <1>4 DEF OverlapInv
<1> QED
  BY <1>7, <1>8, <1>9, <1>10 DEF OverlapInv, Sketched

\* The columns of a commit.
LEMMA CommitColumns ==
    ASSUME NEW r \in Requests, Commit(r)
    PROVE  /\ req[r].pc = "staged"
           /\ row'.status = Written(req[r].set.status, row.status)
           /\ row'.agent = Written(req[r].set.agent, row.agent)
           /\ row'.priority = Written(req[r].set.priority, row.priority)
           /\ row'.resolvedAt = Written(req[r].set.resolvedAt, row.resolvedAt)
           /\ row'.closedAt = Written(req[r].set.closedAt, row.closedAt)
           /\ row'.firstResponseAt = Written(req[r].set.firstResponseAt, row.firstResponseAt)
           /\ ResolvedAtMatchesStatus(row')
BY DEF Commit, WriteBack

\* What the entry of a reopen tells.
LEMMA TellReopened ==
    ASSUME NEW s, NEW a, NEW p, NEW e, e.type = "REOPENED"
    PROVE  Tell([status |-> s, agent |-> a, priority |-> p], e)
              = [status |-> "open", agent |-> NoUser, priority |-> p]
BY DEF Tell

\* A commit that still stands leaves a coherent row, and its entry tells it.
LEMMA StandsCoherent ==
    ASSUME TypeOK, ConcurrentInv, OverlapInv, NEW r \in Requests, Commit(r),
           ~ torn, Stands(req[r])
    PROVE  Coherent(row') /\ Tell(Told(row), req[r].entry) = Told(row')
<1> DEFINE q == req[r]
<1>1. /\ Coherent(row) /\ row \in Row /\ row' \in Row /\ Shape(q) /\ StagedInv(q)
      /\ q \in Staged
  BY CommitTypes, CommitColumns DEF OverlapInv, TypeOK, ConcurrentInv
<1>2. /\ row'.status = Written(q.set.status, row.status)
      /\ row'.agent = Written(q.set.agent, row.agent)
      /\ row'.priority = Written(q.set.priority, row.priority)
      /\ row'.resolvedAt = Written(q.set.resolvedAt, row.resolvedAt)
      /\ row'.closedAt = Written(q.set.closedAt, row.closedAt)
      /\ ResolvedAtMatchesStatus(row')
  BY CommitColumns
<1>3. /\ Keep \notin Statuses /\ Keep \notin Assignees /\ Keep # 0
      /\ q.kind \in AllKinds /\ q.entry \in Entry
      /\ row.status \in Statuses /\ row'.status \in Statuses
  BY <1>1, KeepAssumption DEF Staged, Row
<1>4. Stands(q) /\ ~ torn
  OBVIOUS
<1> HIDE DEF q
<1>5. CASE q.kind = "assign"
  <2>1. /\ q.set.agent \in Assignees /\ q.entry.agent = q.set.agent
        /\ q.entry.type = IF q.set.agent = NoUser THEN "UNASSIGNED" ELSE "ASSIGNED"
        /\ q.set.status \in {Keep, "assigned"}
        /\ q.set.agent = NoUser => q.set.status = Keep
        /\ q.set.resolvedAt = Keep /\ q.set.closedAt = Keep /\ q.set.priority = Keep
    BY <1>1, <1>5 DEF Shape, StagedInv
  <2>2. IF q.set.agent = NoUser THEN row.status # "assigned"
                                ELSE row.status = "open" <=> q.set.status = "assigned"
    BY <1>4, <1>5 DEF Stands
  <2>3. /\ row'.agent = q.set.agent /\ row'.priority = row.priority
        /\ row'.resolvedAt = row.resolvedAt /\ row'.closedAt = row.closedAt
        /\ row'.status = IF q.set.agent # NoUser /\ row.status = "open"
                           THEN "assigned" ELSE row.status
    BY <1>2, <1>3, <2>1, <2>2 DEF Written, Statuses
  <2>4. Coherent(row')
    BY <1>1, <2>2, <2>3 DEF Coherent
  <2>5. Tell(Told(row), q.entry) = Told(row')
    <3>1. CASE q.set.agent = NoUser
      BY <2>1, <2>3, <3>1 DEF Tell, Told
    <3>2. CASE q.set.agent # NoUser
      BY <2>1, <2>3, <3>2 DEF Tell, Told
    <3> QED
      BY <3>1, <3>2
  <2> QED
    BY <2>4, <2>5 DEF q
<1>6. CASE q.kind = "status"
  <2>1. /\ q.set.status \in {"in_progress", "waiting_for_customer", "resolved"}
        /\ q.entry = [type |-> "STATUS_CHANGED", status |-> q.set.status]
        /\ q.set.status # "resolved" => q.set.resolvedAt = Keep
        /\ q.set.resolvedAt # 0 /\ q.set.closedAt = Keep /\ q.set.priority = Keep
        /\ q.set.agent = Keep
    BY <1>1, <1>6 DEF Shape, StagedInv
  <2>2. <<row.status, q.set.status>> \in Edges
    BY <1>4, <1>6 DEF Stands, CanTransition
  <2>3. /\ row'.status = q.set.status /\ row'.agent = row.agent
        /\ row'.priority = row.priority /\ row'.closedAt = row.closedAt
        /\ q.set.status # "resolved" => row'.resolvedAt = row.resolvedAt
    BY <1>2, <1>3, <2>1 DEF Written, Statuses
  <2>4. Coherent(row')
    BY <1>1, <1>2, <2>1, <2>2, <2>3 DEF Coherent, Edges, ResolvedAtMatchesStatus
  <2>5. Tell(Told(row), q.entry) = Told(row')
    BY <2>1, <2>3 DEF Tell, Told
  <2> QED
    BY <2>4, <2>5 DEF q
<1>7. CASE q.kind = "close"
  <2>1. /\ q.set.status = "closed" /\ q.set.resolvedAt = Keep
        /\ q.entry = [type |-> "STATUS_CHANGED", status |-> "closed"]
        /\ q.set.closedAt \notin {Keep, 0} /\ q.set.priority = Keep /\ q.set.agent = Keep
    BY <1>1, <1>4, <1>7 DEF Shape, StagedInv
  <2>2. row.status = "resolved" /\ row.resolvedAt <= q.set.closedAt
    BY <1>4, <1>7, <2>1 DEF Stands, CanTransition, Edges
  <2>3. /\ row'.status = "closed" /\ row'.agent = row.agent
        /\ row'.priority = row.priority /\ row'.resolvedAt = row.resolvedAt
        /\ row'.closedAt = q.set.closedAt
    BY <1>2, <1>3, <2>1 DEF Written, Statuses
  <2>4. Coherent(row')
    BY <1>1, <2>1, <2>2, <2>3 DEF Coherent
  <2>5. Tell(Told(row), q.entry) = Told(row')
    BY <2>1, <2>3 DEF Tell, Told
  <2> QED
    BY <2>4, <2>5 DEF q
<1>8. CASE q.kind = "reopen"
  <2>1. /\ q.set.status = "open" /\ q.set.resolvedAt = 0 /\ q.set.agent \in {Keep, NoUser}
        /\ q.entry = [type |-> "REOPENED", status |-> "open"]
        /\ q.set.closedAt = 0 /\ q.set.priority = Keep
    BY <1>1, <1>4, <1>8 DEF Shape, StagedInv
  <2>2. q.set.agent = NoUser \/ row.agent = NoUser
    BY <1>4, <1>8 DEF Stands
  <2>3. /\ row'.status = "open" /\ row'.agent = NoUser
        /\ row'.priority = row.priority /\ row'.resolvedAt = 0 /\ row'.closedAt = 0
    BY <1>2, <1>3, <2>1, <2>2 DEF Written, Statuses, Assignees
  <2>4. Coherent(row')
    BY <2>3 DEF Coherent
  <2>5. Tell(Told(row), q.entry) = Told(row')
    <3>1. q.entry.type = "REOPENED"
      BY <2>1
    <3> QED
      BY <2>3, <3>1, TellReopened DEF Told
  <2> QED
    BY <2>4, <2>5 DEF q
<1>9. CASE q.kind \in {"priority", "reply", "note"}
  <2>1. /\ q.set.status = Keep /\ q.set.resolvedAt = Keep /\ q.set.closedAt = Keep
        /\ q.set.agent = Keep
        /\ IF q.kind = "priority"
             THEN q.entry = [type |-> "PRIORITY_CHANGED", priority |-> q.set.priority]
             ELSE q.entry.type \in {"MESSAGE_ADDED", "INTERNAL_NOTE_ADDED"}
        /\ q.kind # "priority" => q.set.priority = Keep
    BY <1>1, <1>9 DEF Shape, StagedInv
  <2>2. /\ row'.status = row.status /\ row'.agent = row.agent
        /\ row'.resolvedAt = row.resolvedAt /\ row'.closedAt = row.closedAt
        /\ row'.priority = IF q.kind = "priority" /\ q.set.priority # Keep
                             THEN q.set.priority ELSE row.priority
    BY <1>2, <2>1 DEF Written
  <2>3. Coherent(row')
    BY <1>1, <2>2 DEF Coherent
  <2>4. q.kind = "priority" => q.set.priority # Keep
    <3>1. q.kind = "priority" => q.set.priority = q.entry.priority
      BY <2>1
    <3>2. q.kind = "priority" => q.entry.priority \in Priorities
      BY <1>3, <2>1 DEF Entry
    <3> QED
      BY <3>1, <3>2, KeepAssumption
  <2>5. Tell(Told(row), q.entry) = Told(row')
    BY <2>1, <2>2, <2>4 DEF Tell, Told
  <2> QED
    BY <2>3, <2>5 DEF q
<1> QED
  BY <1>3, <1>5, <1>6, <1>7, <1>8, <1>9 DEF AllKinds

LEMMA CommitOverlap ==
    ASSUME TypeOK, ConcurrentInv, OverlapInv, NEW r \in Requests, Commit(r)
    PROVE  OverlapInv'
<1> DEFINE q == req[r]
<1>1. /\ q \in Staged /\ q.pc = "staged"
      /\ req'[r].pc \in {"enqueue", "publish"} /\ req'[r].agent = q.agent
      /\ \A s \in Requests \ {r} : req'[s] = req[s]
      /\ row'.agent = Written(q.set.agent, row.agent)
  BY CommitTypes, CommitColumns
<1>2. /\ Past(q.set) /\ clock' = clock /\ story' = Tell(story, q.entry)
      /\ torn' = (torn \/ (r \in stale /\ ~ Stands(q)))
      /\ stale' = (stale \ {r})
                      \cup {s \in Requests \ {r} : req[s].pc = "staged" /\ row' # row}
      /\ outrun' = (IF q.set.agent = Keep THEN outrun ELSE outrun \ {r})
                       \cup {s \in Requests \ {r} :
                                /\ req[s].pc \in {"staged", "enqueue", "publish"}
                                /\ row'.agent # row.agent}
  BY DEF Commit
<1>3. (~ torn => Coherent(row) /\ story = Told(row))'
  <2> SUFFICES ASSUME ~ torn' PROVE (Coherent(row) /\ story = Told(row))'
    OBVIOUS
  <2>1. ~ torn /\ Stands(q) /\ story = Told(row)
    BY <1>1, <1>2 DEF OverlapInv
  <2>2. Coherent(row') /\ Tell(Told(row), q.entry) = Told(row')
    BY <2>1, StandsCoherent
  <2> QED
    BY <1>2, <2>1, <2>2 DEF Coherent, Told
<1>4. (\A t \in {row.resolvedAt, row.closedAt, row.firstResponseAt} : t <= clock)'
  <2>1. /\ row'.resolvedAt = Written(q.set.resolvedAt, row.resolvedAt)
        /\ row'.closedAt = Written(q.set.closedAt, row.closedAt)
        /\ row'.firstResponseAt = Written(q.set.firstResponseAt, row.firstResponseAt)
    BY CommitColumns
  <2>2. \A t \in {row.resolvedAt, row.closedAt, row.firstResponseAt} : t <= clock
    BY DEF OverlapInv
  <2> QED
    BY <1>2, <2>1, <2>2 DEF Written, Past
<1>5. Sketched(r)'
  <2> SUFFICES ASSUME r \notin outrun' PROVE req'[r].agent = row'.agent
    BY <1>1 DEF Sketched
  <2>1. CASE q.set.agent = Keep
    BY <1>1, <1>2, <2>1 DEF OverlapInv
  <2>2. CASE q.set.agent # Keep
    BY <1>1, <2>2 DEF OverlapInv, Written
  <2> QED
    BY <2>1, <2>2
<1>6. ASSUME NEW s \in Requests \ {r} PROVE Sketched(s)'
  <2>1. req'[s] = req[s] /\ (torn => torn')
    BY <1>1, <1>2
  <2>2. req[s].pc = "staged" => Shape(req[s])' /\ (s \in stale' \/ Stands(req[s])')
    BY <1>2, <2>1, ShapeStays, StandsStays DEF OverlapInv
  <2>3. /\ s \notin outrun' => s \notin outrun
        /\ s \notin outrun' /\ req[s].pc \in {"staged", "enqueue", "publish"} =>
              row'.agent = row.agent
    BY <1>2
  <2> QED
    BY <2>1, <2>2, <2>3 DEF OverlapInv, Sketched
<1> QED
  BY <1>3, <1>4, <1>5, <1>6 DEF OverlapInv, Sketched

LEMMA RestOverlap ==
    ASSUME TypeOK, OverlapInv, NEW r \in Requests,
           Refused(r) \/ Enqueue(r) \/ Publish(r) \/ Invalidate(r) \/ Crash(r)
    PROVE  OverlapInv'
<1>1. /\ UNCHANGED <<row, clock, story, torn>>
      /\ outrun' \in {outrun, outrun \ {r}} /\ stale' \in {stale, stale \ {r}}
      /\ \A s \in Requests \ {r} : req'[s] = req[s]
  BY DEF Refused, Enqueue, Publish, Invalidate, Crash, TypeOK
<1>2. /\ req'[r].pc # "staged"
      /\ req'[r].pc \in {"enqueue", "publish"} =>
            outrun' = outrun /\ (r \notin outrun => req'[r].agent = row.agent)
  <2>1. CASE Refused(r) \/ Invalidate(r) \/ Crash(r)
    BY <2>1 DEF Refused, Invalidate, Crash, TypeOK, Idle
  <2>2. CASE Enqueue(r)
    <3>1. /\ req[r] \in Finishing /\ outrun' = outrun
          /\ r \notin outrun => req[r].agent = row.agent
      BY <2>2 DEF Enqueue, TypeOK, Idle, Staged, OverlapInv
    <3>2. /\ [req[r] EXCEPT !.pc = "publish"].pc = "publish"
          /\ [req[r] EXCEPT !.pc = "publish"].agent = req[r].agent
      BY <3>1 DEF Finishing
    <3> QED
      BY <2>2, <3>1, <3>2 DEF Enqueue, TypeOK
  <2>3. CASE Publish(r)
    <3>1. req[r] \in Finishing
      BY <2>3 DEF Publish, TypeOK, Idle, Staged
    <3>2. [req[r] EXCEPT !.pc = "invalidate"].pc = "invalidate"
      BY <3>1 DEF Finishing
    <3> QED
      BY <2>3, <3>2 DEF Publish, TypeOK, Idle
  <2> QED
    BY <2>1, <2>2, <2>3
<1>3. Sketched(r)'
  BY <1>1, <1>2 DEF Sketched
<1>4. ASSUME NEW s \in Requests \ {r} PROVE Sketched(s)'
  <2>1. req'[s] = req[s] /\ (s \notin outrun' => s \notin outrun)
    BY <1>1
  <2>2. req[s].pc = "staged" => Shape(req[s])' /\ (s \in stale' \/ Stands(req[s])')
    BY <1>1, <2>1, ShapeStays, StandsStays DEF OverlapInv
  <2> QED
    BY <1>1, <2>1, <2>2 DEF OverlapInv, Sketched
<1>5. (~ torn => Coherent(row) /\ story = Told(row))'
  BY <1>1 DEF OverlapInv, Coherent, Told
<1>6. (\A t \in {row.resolvedAt, row.closedAt, row.firstResponseAt} : t <= clock)'
  BY <1>1 DEF OverlapInv
<1> QED
  BY <1>3, <1>4, <1>5, <1>6 DEF OverlapInv, Sketched

\* Nothing but the clock moved.
LEMMA OverlapQuiet ==
    ASSUME OverlapInv, UNCHANGED <<row, req, story, torn, stale, outrun>>,
           \A t \in {row.resolvedAt, row.closedAt, row.firstResponseAt} : t <= clock'
    PROVE  OverlapInv'
<1>1. (~ torn => Coherent(row) /\ story = Told(row))'
  BY DEF OverlapInv, Coherent, Told
<1>2. ASSUME NEW s \in Requests PROVE Sketched(s)'
  <2>1. req[s].pc = "staged" => Shape(req[s])' /\ (s \in stale' \/ Stands(req[s])')
    BY ShapeStays, StandsStays DEF OverlapInv
  <2> QED
    BY <2>1 DEF OverlapInv, Sketched
<1> QED
  BY <1>1, <1>2 DEF OverlapInv, Sketched

LEMMA OverlapStep ==
    ASSUME TypeOK, ConcurrentInv, OverlapInv, [Next]_vars
    PROVE  OverlapInv'
<1>1. CASE UNCHANGED vars
  <2>1. \A t \in {row.resolvedAt, row.closedAt, row.firstResponseAt} : t <= clock'
    BY <1>1 DEF vars, OverlapInv
  <2> QED
    BY <1>1, <2>1, OverlapQuiet DEF vars
<1>2. CASE Tick
  <2>1. clock \in Nat /\ clock' = clock + 1 /\ row \in Row
    BY <1>2, TimeAssumption DEF Tick, TypeOK
  <2>2. \A t \in {row.resolvedAt, row.closedAt, row.firstResponseAt} : t <= clock'
    BY <2>1 DEF OverlapInv, Row, Times
  <2> QED
    BY <1>2, <2>2, OverlapQuiet DEF Tick
<1>3. ASSUME NEW r \in Requests, Step(r) PROVE OverlapInv'
  BY <1>3, StageOverlap, CommitOverlap, RestOverlap DEF Step
<1> QED
  BY <1>1, <1>2, <1>3 DEF Next

\* However requests overlap: the row stays coherent and the timeline tells it until a
\* commit writes what its handler would no longer decide, and an envelope is addressed
\* by the assignee until another request gives the ticket away.
THEOREM Overlapping == Spec => []OverlapInv
<1>1. Init => TypeOK /\ ConcurrentInv /\ OverlapInv
  BY InitTypes, ConcurrentInit, OverlapInit
<1>2. TypeOK /\ ConcurrentInv /\ OverlapInv /\ [Next]_vars =>
         (TypeOK /\ ConcurrentInv /\ OverlapInv)'
  BY ConcurrentStep, OverlapStep
<1> QED
  BY <1>1, <1>2, PTL DEF Spec

\* All that holds of a ticket, types included, however its requests overlap.
THEOREM WholeTicket == Spec => []TicketInv
  BY TypeCorrect, Concurrent, Overlapping, PTL DEF TicketInv

\* The timeline is the ticket's history (record_event).
THEOREM TimelineTold == Spec => []TimelineTellsTheRow
<1>1. OverlapInv => TimelineTellsTheRow  BY DEF OverlapInv, TimelineTellsTheRow
<1> QED  BY <1>1, Overlapping, PTL

\* What is published is addressed by the row's assignee (publish_ticket_event).
THEOREM Audience == Spec => []AudienceIsCurrent
<1>1. OverlapInv => AudienceIsCurrent  BY DEF OverlapInv, AudienceIsCurrent
<1> QED  BY <1>1, Overlapping, PTL

\* Only an overtaken commit leaves a ticket ASSIGNED to nobody (assign_ticket).
THEOREM OnlyTornUnassigns == Spec => [](~ torn => AssignedHasAgent)
<1>1. OverlapInv => (~ torn => AssignedHasAgent)
  BY DEF OverlapInv, Coherent, AssignedHasAgent
<1> QED  BY <1>1, Overlapping, PTL

-----------------------------------------------------------------------------
(* The contract *)

\* The columns of the contract.
Same(s, t, columns) ==
    /\ "status" \in columns => t.status = s.status
    /\ "agent" \in columns => t.agent = s.agent
    /\ "resolved" \in columns => (t.resolvedAt # 0 <=> s.resolvedAt # 0)
    /\ "answered" \in columns =>
          (t.firstResponseAt # 0 <=> s.firstResponseAt # 0)

\* A step of the contract from one row to another.
Lawful(s, t) ==
    \/ Same(s, t, {"status", "agent", "resolved", "answered"})
    \/ /\ t.agent \in Users
       /\ IF s.status = "open" THEN t.status = "assigned"
                               ELSE t.status = s.status
       /\ Same(s, t, {"resolved", "answered"})
    \/ /\ s.status # "assigned" /\ t.agent = NoUser
       /\ Same(s, t, {"status", "resolved", "answered"})
    \/ /\ <<s.status, t.status>> \in
             {<<"assigned", "in_progress">>,
              <<"in_progress", "waiting_for_customer">>,
              <<"waiting_for_customer", "in_progress">>}
       /\ Same(s, t, {"agent", "resolved", "answered"})
    \/ /\ s.status = "in_progress" /\ t.status = "resolved"
       /\ t.resolvedAt # 0
       /\ Same(s, t, {"agent", "answered"})
    \/ /\ s.status = "resolved" /\ t.status = "closed"
       /\ Same(s, t, {"agent", "resolved", "answered"})
    \/ /\ s.status = "closed" /\ t.status = "open"
       /\ t.agent = NoUser /\ t.resolvedAt = 0
       /\ Same(s, t, {"answered"})
    \/ /\ s.status # "closed"
       /\ s.firstResponseAt = 0 /\ t.firstResponseAt # 0
       /\ Same(s, t, {"status", "agent", "resolved"})

\* A lawful change of the row is a step of the contract or none.
LEMMA LawfulImplements ==
    ASSUME row \in Row, row' \in Row, Lawful(row, row')
    PROVE  [Desk!Advance]_(Desk!contractVars)
<1> USE DEF Desk!contractVars, Same
<1>1. CASE Same(row, row', {"status", "agent", "resolved", "answered"})
  BY <1>1
<1>2. CASE /\ row'.agent \in Users
           /\ IF row.status = "open" THEN row'.status = "assigned"
                                     ELSE row'.status = row.status
           /\ Same(row, row', {"resolved", "answered"})
  BY <1>2 DEF Desk!Advance, Desk!Take, Desk!HandOver
<1>3. CASE /\ row.status # "assigned" /\ row'.agent = NoUser
           /\ Same(row, row', {"status", "resolved", "answered"})
  BY <1>3 DEF Desk!Advance, Desk!Release
<1>4. CASE /\ <<row.status, row'.status>> \in
                 {<<"assigned", "in_progress">>,
                  <<"in_progress", "waiting_for_customer">>,
                  <<"waiting_for_customer", "in_progress">>}
           /\ Same(row, row', {"agent", "resolved", "answered"})
  BY <1>4 DEF Desk!Advance, Desk!Work
<1>5. CASE /\ row.status = "in_progress" /\ row'.status = "resolved"
           /\ row'.resolvedAt # 0
           /\ Same(row, row', {"agent", "answered"})
  BY <1>5 DEF Desk!Advance, Desk!Resolve
<1>6. CASE /\ row.status = "resolved" /\ row'.status = "closed"
           /\ Same(row, row', {"agent", "resolved", "answered"})
  BY <1>6 DEF Desk!Advance, Desk!Close
<1>7. CASE /\ row.status = "closed" /\ row'.status = "open"
           /\ row'.agent = NoUser /\ row'.resolvedAt = 0
           /\ Same(row, row', {"answered"})
  BY <1>7 DEF Desk!Advance, Desk!Reopen
<1>8. CASE /\ row.status # "closed"
           /\ row.firstResponseAt = 0 /\ row'.firstResponseAt # 0
           /\ Same(row, row', {"status", "agent", "resolved"})
  BY <1>8 DEF Desk!Advance, Desk!Answer
<1> QED
  BY <1>1, <1>2, <1>3, <1>4, <1>5, <1>6, <1>7, <1>8 DEF Lawful

\* A commit that still stands is lawful, whatever was committed since its read.
LEMMA StandsLawful ==
    ASSUME TypeOK, ConcurrentInv, OverlapInv, NEW r \in Requests, Commit(r), Stands(req[r])
    PROVE  Lawful(row, row')
<1> DEFINE q == req[r]
<1>1. /\ row \in Row /\ row' \in Row /\ Shape(q) /\ StagedInv(q) /\ q \in Staged
  BY CommitTypes, CommitColumns DEF OverlapInv, TypeOK, ConcurrentInv
<1>2. /\ row'.status = Written(q.set.status, row.status)
      /\ row'.agent = Written(q.set.agent, row.agent)
      /\ row'.resolvedAt = Written(q.set.resolvedAt, row.resolvedAt)
      /\ row'.firstResponseAt = Written(q.set.firstResponseAt, row.firstResponseAt)
      /\ ResolvedAtMatchesStatus(row')
  BY CommitColumns
<1>3. Keep \notin Statuses /\ Keep \notin Assignees /\ Keep # 0 /\ q.kind \in AllKinds
  BY <1>1, KeepAssumption DEF Staged
<1>4. Stands(q)
  OBVIOUS
<1> HIDE DEF q
<1>5. CASE q.kind = "assign"
  <2>1. /\ q.set.agent \in Assignees
        /\ q.set.status \in {Keep, "assigned"}
        /\ q.set.agent = NoUser => q.set.status = Keep
        /\ q.set.resolvedAt = Keep /\ q.set.firstResponseAt = Keep
    BY <1>1, <1>5 DEF Shape, StagedInv
  <2>2. IF q.set.agent = NoUser THEN row.status # "assigned"
                                ELSE row.status = "open" <=> q.set.status = "assigned"
    BY <1>4, <1>5 DEF Stands
  <2>3. /\ row'.agent = q.set.agent
        /\ row'.resolvedAt = row.resolvedAt /\ row'.firstResponseAt = row.firstResponseAt
        /\ row'.status = IF q.set.agent # NoUser /\ row.status = "open"
                           THEN "assigned" ELSE row.status
    BY <1>2, <1>3, <2>1, <2>2 DEF Written, Statuses
  <2> QED
    BY <2>1, <2>2, <2>3 DEF Lawful, Same, Assignees
<1>6. CASE q.kind = "status"
  <2>1. /\ q.set.status \in {"in_progress", "waiting_for_customer", "resolved"}
        /\ q.set.status # "resolved" => q.set.resolvedAt = Keep
        /\ q.set.agent = Keep /\ q.set.firstResponseAt = Keep
    BY <1>1, <1>6 DEF Shape, StagedInv
  <2>2. <<row.status, q.set.status>> \in Edges
    BY <1>4, <1>6 DEF Stands, CanTransition
  <2>3. /\ row'.status = q.set.status /\ row'.agent = row.agent
        /\ row'.firstResponseAt = row.firstResponseAt
        /\ q.set.status # "resolved" => row'.resolvedAt = row.resolvedAt
        /\ q.set.status = "resolved" => row'.resolvedAt # 0
    BY <1>2, <1>3, <2>1 DEF Written, Statuses, ResolvedAtMatchesStatus
  <2> QED
    BY <2>1, <2>2, <2>3 DEF Lawful, Same, Edges
<1>7. CASE q.kind = "close"
  <2>1. /\ q.set.status = "closed" /\ q.set.resolvedAt = Keep
        /\ q.set.agent = Keep /\ q.set.firstResponseAt = Keep
    BY <1>1, <1>7 DEF Shape, StagedInv
  <2>2. row.status = "resolved"
    BY <1>4, <1>7 DEF Stands, CanTransition, Edges
  <2>3. /\ row'.status = "closed" /\ row'.agent = row.agent
        /\ row'.resolvedAt = row.resolvedAt /\ row'.firstResponseAt = row.firstResponseAt
    BY <1>2, <1>3, <2>1 DEF Written, Statuses
  <2> QED
    BY <2>2, <2>3 DEF Lawful, Same
<1>8. CASE q.kind = "reopen"
  <2>1. /\ q.set.status = "open" /\ q.set.resolvedAt = 0 /\ q.set.agent \in {Keep, NoUser}
        /\ q.set.firstResponseAt = Keep
    BY <1>1, <1>8 DEF Shape, StagedInv
  <2>2. row.status = "closed" /\ (q.set.agent = NoUser \/ row.agent = NoUser)
    BY <1>4, <1>8 DEF Stands, CanTransition, Edges
  <2>3. /\ row'.status = "open" /\ row'.agent = NoUser
        /\ row'.resolvedAt = 0 /\ row'.firstResponseAt = row.firstResponseAt
    BY <1>2, <1>3, <2>1, <2>2 DEF Written, Statuses, Assignees
  <2> QED
    BY <2>2, <2>3 DEF Lawful, Same
<1>9. CASE q.kind \in {"priority", "reply", "note"}
  <2>1. /\ q.set.status = Keep /\ q.set.resolvedAt = Keep /\ q.set.agent = Keep
        /\ q.set.firstResponseAt # 0
        /\ q.set.firstResponseAt # Keep => q.kind = "reply"
    BY <1>1, <1>9 DEF Shape, StagedInv
  <2>2. /\ row'.status = row.status /\ row'.agent = row.agent
        /\ row'.resolvedAt = row.resolvedAt
    BY <1>2, <2>1 DEF Written
  <2>3. CASE q.set.firstResponseAt = Keep
    BY <1>2, <2>2, <2>3 DEF Lawful, Same, Written
  <2>4. CASE q.set.firstResponseAt # Keep
    <3>1. row.status # "closed" /\ row.firstResponseAt = 0
      BY <1>4, <2>1, <2>4 DEF Stands
    <3> QED
      BY <1>2, <2>1, <2>2, <2>4, <3>1 DEF Lawful, Same, Written
  <2> QED
    BY <2>3, <2>4
<1> QED
  BY <1>3, <1>5, <1>6, <1>7, <1>8, <1>9 DEF AllKinds

\* Only a commit changes the row: lawfully, or it was overtaken.
LEMMA RowStep ==
    ASSUME TypeOK, ConcurrentInv, OverlapInv, [Next]_vars
    PROVE  row' = row \/ Overtaken \/ (row' \in Row /\ Lawful(row, row'))
<1>1. ASSUME NEW r \in Requests, Commit(r)
      PROVE  Overtaken \/ (row' \in Row /\ Lawful(row, row'))
  <2>1. Committing(r) /\ row' \in Row
    BY <1>1, CommitTypes DEF Commit, Committing, TypeOK
  <2>2. CASE Stands(req[r])
    BY <1>1, <2>1, <2>2, StandsLawful
  <2>3. CASE ~ Stands(req[r])
    <3>1. r \in stale
      BY <2>1, <2>3 DEF OverlapInv, Committing
    <3> QED
      BY <2>1, <2>3, <3>1 DEF Overtaken
  <2> QED
    BY <2>2, <2>3
<1> QED
  BY <1>1, RowMoves

\* Every commit that was not overtaken is an atomic step of TicketContract on the row
\* as it is then, however far the handler's read lies back.
THEOREM ImplementsTheContract == Spec => ImplementsContract
<1>1. Init => Desk!Begin
  BY DEF Init, Desk!Begin
<1>2. TypeOK /\ ConcurrentInv /\ OverlapInv /\ [Next]_vars =>
         [Desk!Advance \/ Overtaken]_(Desk!contractVars)
  <2> SUFFICES ASSUME TypeOK, ConcurrentInv, OverlapInv, [Next]_vars
               PROVE  [Desk!Advance \/ Overtaken]_(Desk!contractVars)
    OBVIOUS
  <2>1. CASE row' = row
    BY <2>1 DEF Desk!contractVars
  <2>2. CASE row' \in Row /\ Lawful(row, row')
    BY <2>2, LawfulImplements DEF TypeOK
  <2> QED
    BY <2>1, <2>2, RowStep
<1> QED
  BY <1>1, <1>2, TypeCorrect, Concurrent, Overlapping, PTL
     DEF Spec, ImplementsContract

\* A commit that was not overtaken moves the ticket along the table's edges.
THEOREM Moves == Spec => MovesFollowTheTable
<1>1. TypeOK /\ ConcurrentInv /\ OverlapInv /\ [Next]_vars =>
         [row'.status # row.status =>
            <<row.status, row'.status>> \in Edges \/ Overtaken]_vars
  BY RowStep DEF Lawful, Same, Edges
<1> QED
  BY <1>1, TypeCorrect, Concurrent, Overlapping, PTL DEF Spec, MovesFollowTheTable
==============================================================================
