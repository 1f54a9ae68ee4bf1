-------------------------------- MODULE Inbox --------------------------------
(***************************************************************************)
(* A reader's notifications in the application: marking one or all of them *)
(* read, and counting the unread (services/notification_service.py,        *)
(* repositories/notification_repository.py).  mark_read decides on the row *)
(* it loaded; mark_all_read is one UPDATE with its condition in it.        *)
(***************************************************************************)
EXTENDS Naturals

CONSTANTS
    Items,   \* the caller's notifications
    Clicks,  \* requests of the caller in flight together
    Moments  \* bound: how often a read time is written

VARIABLES
    readAt,  \* per notification: 0 unread, else the moment it was stamped
    clicks,  \* the requests: what they hold, and what mark_all_read answered
    moment   \* the clock of the stamps

inboxVars == <<readAt, clicks, moment>>

\* unread: read_at of the loaded row was NULL.
Click == [pc : {"idle", "loaded"}, on : Items, unread : BOOLEAN]

InboxTypeOK ==
    /\ readAt \in [Items -> 0 .. Moments]
    /\ clicks \in [Clicks -> Click]
    /\ moment \in 1 .. Moments

NoClick == [pc |-> "idle", on |-> CHOOSE i \in Items : TRUE, unread |-> FALSE]

\* count_unread and list_for_user(unread_only).
Unread == {i \in Items : readAt[i] = 0}

\* mark_read: the caller's own row, or not found.
OpenOne(c, i) ==
    /\ clicks[c].pc = "idle"
    /\ clicks' = [clicks EXCEPT ![c] = [pc |-> "loaded", on |-> i, unread |-> i \in Unread]]
    /\ UNCHANGED <<readAt, moment>>

SlipMarkRead(c) ==
    /\ clicks[c].pc = "loaded" /\ moment < Moments
    /\ readAt' = [readAt EXCEPT ![clicks[c].on] = moment]
    /\ moment' = moment + 1
    /\ clicks' = [clicks EXCEPT ![c] = NoClick]

\* ... stamped and committed, if it was unread when it was loaded.
MarkRead(c) ==
    /\ clicks[c].pc = "loaded" /\ moment < Moments
    /\ readAt' = IF clicks[c].unread THEN [readAt EXCEPT ![clicks[c].on] = moment]
                 ELSE readAt
    /\ moment' = moment + 1
    /\ clicks' = [clicks EXCEPT ![c] = NoClick]

\* mark_all_read: the unread ones, all with one stamp.
MarkAllRead ==
    /\ moment < Moments
    /\ readAt' = [i \in Items |-> IF i \in Unread THEN moment ELSE readAt[i]]
    /\ moment' = moment + 1
    /\ UNCHANGED clicks

InboxInit ==
    /\ readAt = [i \in Items |-> 0]
    /\ clicks = [c \in Clicks |-> NoClick]
    /\ moment = 1

InboxNext ==
    \/ MarkAllRead
    \/ \E c \in Clicks : MarkRead(c) \/ \E i \in Items : OpenOne(c, i)

InboxSpec == InboxInit /\ [][InboxNext]_inboxVars

-----------------------------------------------------------------------------
\* "Re-marking an already-read notification returns it unchanged": a read time
\* moves only when two requests for it overlapped, the later one having loaded
\* the row unread.
ReadTimeMovesOnlyInARace ==
    [][\A i \in Items :
          readAt[i] # 0 /\ readAt'[i] # readAt[i] =>
             \E c \in Clicks : clicks[c].pc = "loaded" /\ clicks[c].on = i
                               /\ clicks[c].unread]_inboxVars
=============================================================================
