---------------------------- MODULE Attachments ----------------------------
(***************************************************************************)
(* Files of a ticket (services/attachment_service.py, repositories/        *)
(* attachment_repository.py, core/file_validation.py, core/storage.py).    *)
(* The bytes go to the object store before the row is committed; a file    *)
(* attached to an internal note is for staff; a download looks the file up *)
(* and then its ticket again, while the ticket may be handed to somebody   *)
(* else at any moment.                                                     *)
(***************************************************************************)
EXTENDS Naturals

CONSTANTS
    Clients,    \* those who call
    RoleOf,     \* their roles
    Nobody,     \* the ticket has no agent
    Files,      \* bound: uploads; each has a storage key of its own
    MediaTypes, \* the keys of ALLOWED
    Signed,     \* ... the types that begin with a signature
    FileFaults  \* bound: how often the store or the database fails

ASSUME AttachmentAssumption ==
    /\ RoleOf \in [Clients -> {"manager", "agent", "customer"}]
    /\ Nobody \notin Clients /\ FileFaults \in Nat /\ Files # {} /\ MediaTypes # {}
    /\ Signed \subseteq MediaTypes /\ "nothing" \notin MediaTypes

VARIABLES
    holder,     \* the agent the ticket is assigned to
    rows,       \* the attachments
    objects,    \* what the store holds
    mentioned,  \* the files the timeline names
    callers,    \* the requests
    downloads,  \* who got which file, and whether the ticket was theirs during the request
    fileFaults

attachmentVars == <<holder, rows, objects, mentioned, callers, downloads, fileFaults>>

\* internal: attached to an internal note.  media: content_type.  begins: what
\* the bytes begin with, when they begin with a signature.
Attached == [there : BOOLEAN, internal : BOOLEAN, media : MediaTypes,
             begins : MediaTypes \cup {"nothing"}]

\* theirs: the ticket was visible to the caller at some moment of this request.
Caller == [pc : {"idle", "named", "valid", "stored", "found", "allowed"}, file : Files,
           internal : BOOLEAN, media : MediaTypes, begins : MediaTypes \cup {"nothing"},
           theirs : BOOLEAN]

AttachmentTypeOK ==
    /\ holder \in Clients \cup {Nobody}
    /\ rows \in [Files -> Attached]
    /\ objects \subseteq Files /\ mentioned \subseteq Files
    /\ callers \in [Clients -> Caller]
    /\ downloads \subseteq Clients \X Files \X BOOLEAN
    /\ fileFaults \in 0 .. FileFaults

\* What a row that is not there, or a request that has not inspected, holds.
AnyMedia == CHOOSE m \in MediaTypes : TRUE

-----------------------------------------------------------------------------
\* require_visible_ticket; the customer is the one the ticket belongs to.
Sees(p, agent) == RoleOf[p] \in {"manager", "customer"} \/ agent = p

\* _may_read_internal
MayReadInternal(p) == RoleOf[p] # "customer"

\* validate: the types that the extension, the declaration and the bytes stand
\* for agree; text has no signature, and must not begin with one.
Validates(extension, declared, begins) ==
    /\ declared = extension
    /\ IF begins = "nothing" THEN declared \notin Signed ELSE begins = declared

Idling(p) == [callers EXCEPT ![p].pc = "idle"]
Moved(p, pc) == [callers EXCEPT ![p].pc = pc]

\* _not_internal
Readable(p, f) == rows[f].there /\ (rows[f].internal => MayReadInternal(p))

\* list_attachments
Listed(p) == {f \in Files : Sees(p, holder) /\ Readable(p, f)}

-----------------------------------------------------------------------------
\* assign_ticket, as far as files are concerned.
HandOver(agent) ==
    /\ holder' = agent
    /\ callers' = [p \in Clients |-> [callers[p] EXCEPT !.theirs = @ \/ Sees(p, agent)]]
    /\ UNCHANGED <<rows, objects, mentioned, downloads, fileFaults>>

\* create_attachment: the ticket, and the message, which is not found when it is
\* internal and the caller may not read it.
NameMessage(p, f, internal) ==
    /\ callers[p].pc = "idle" /\ Sees(p, holder)
    /\ ~ rows[f].there /\ f \notin objects
    /\ \A q \in Clients : callers[q].pc # "idle" => callers[q].file # f
    /\ internal => MayReadInternal(p)
    /\ callers' = [callers EXCEPT ![p] =
          [@ EXCEPT !.pc = "named", !.file = f, !.internal = internal, !.theirs = TRUE]]
    /\ UNCHANGED <<holder, rows, objects, mentioned, downloads, fileFaults>>

\* validate and _measure: the file is refused, or neither empty nor too large.
Inspect(p, extension, declared, begins, sizeFits) ==
    /\ callers[p].pc = "named"
    /\ callers' = IF sizeFits /\ Validates(extension, declared, begins)
                  THEN [callers EXCEPT ![p] =
                           [@ EXCEPT !.pc = "valid", !.media = declared, !.begins = begins]]
                  ELSE Idling(p)
    /\ UNCHANGED <<holder, rows, objects, mentioned, downloads, fileFaults>>

PutFile(p) ==
    /\ callers[p].pc = "valid"
    /\ objects' = objects \cup {callers[p].file}
    /\ callers' = Moved(p, "stored")
    /\ UNCHANGED <<holder, rows, mentioned, downloads, fileFaults>>

\* put_object raises.
PutFails(p) ==
    /\ callers[p].pc = "valid" /\ fileFaults < FileFaults
    /\ fileFaults' = fileFaults + 1
    /\ callers' = Idling(p)
    /\ UNCHANGED <<holder, rows, objects, mentioned, downloads>>

\* The ATTACHMENT_ADDED event, unless the message is internal.
Mention(p) ==
    mentioned' = IF callers[p].internal THEN mentioned ELSE mentioned \cup {callers[p].file}

\* The commit of create_attachment.
CommitFile(p) ==
    /\ callers[p].pc = "stored"
    /\ rows' = [rows EXCEPT ![callers[p].file] =
          [there |-> TRUE, internal |-> callers[p].internal, media |-> callers[p].media,
           begins |-> callers[p].begins]]
    /\ Mention(p)
    /\ callers' = Idling(p)
    /\ UNCHANGED <<holder, objects, downloads, fileFaults>>

\* ... which fails: the object stays.
RollbackFile(p) ==
    /\ callers[p].pc = "stored" /\ fileFaults < FileFaults
    /\ fileFaults' = fileFaults + 1
    /\ callers' = Idling(p)
    /\ UNCHANGED <<holder, rows, objects, mentioned, downloads>>

\* get_attachment: get_visible.
FindFile(p, f) ==
    /\ callers[p].pc = "idle" /\ Readable(p, f)
    /\ callers' = [callers EXCEPT ![p] =
          [@ EXCEPT !.pc = "found", !.file = f, !.theirs = Sees(p, holder)]]
    /\ UNCHANGED <<holder, rows, objects, mentioned, downloads, fileFaults>>

\* A slip: having found the file is taken for enough.
SlipCheckTicket(p) ==
    /\ callers[p].pc = "found"
    /\ callers' = Moved(p, "allowed")
    /\ UNCHANGED <<holder, rows, objects, mentioned, downloads, fileFaults>>

\* ... and its ticket.
CheckTicket(p) ==
    /\ callers[p].pc = "found"
    /\ callers' = IF Sees(p, holder) THEN Moved(p, "allowed") ELSE Idling(p)
    /\ UNCHANGED <<holder, rows, objects, mentioned, downloads, fileFaults>>

\* open_stream, and the answer.
StreamFile(p) ==
    /\ callers[p].pc = "allowed" /\ callers[p].file \in objects
    /\ downloads' = downloads \cup {<<p, callers[p].file, callers[p].theirs>>}
    /\ callers' = Idling(p)
    /\ UNCHANGED <<holder, rows, objects, mentioned, fileFaults>>

StreamFails(p) ==
    /\ callers[p].pc = "allowed" /\ fileFaults < FileFaults
    /\ fileFaults' = fileFaults + 1
    /\ callers' = Idling(p)
    /\ UNCHANGED <<holder, rows, objects, mentioned, downloads>>

-----------------------------------------------------------------------------
AttachmentInit ==
    /\ holder = Nobody /\ objects = {} /\ mentioned = {} /\ downloads = {} /\ fileFaults = 0
    /\ rows = [f \in Files |-> [there |-> FALSE, internal |-> FALSE, media |-> AnyMedia,
                                begins |-> "nothing"]]
    /\ callers = [p \in Clients |->
          [pc |-> "idle", file |-> CHOOSE f \in Files : TRUE, internal |-> FALSE,
           media |-> AnyMedia, begins |-> "nothing", theirs |-> FALSE]]

AttachmentNext ==
    \/ \E agent \in {p \in Clients : RoleOf[p] = "agent"} \cup {Nobody} : HandOver(agent)
    \/ \E p \in Clients :
          \/ \E f \in Files : FindFile(p, f) \/ \E internal \in BOOLEAN : NameMessage(p, f, internal)
          \/ \E extension, declared \in MediaTypes, begins \in MediaTypes \cup {"nothing"},
                sizeFits \in BOOLEAN : Inspect(p, extension, declared, begins, sizeFits)
          \/ PutFile(p) \/ PutFails(p) \/ CommitFile(p) \/ RollbackFile(p)
          \/ CheckTicket(p) \/ StreamFile(p) \/ StreamFails(p)

AttachmentSpec == AttachmentInit /\ [][AttachmentNext]_attachmentVars

-----------------------------------------------------------------------------
\* A file of an internal note is not listed for the customer, not named on the
\* timeline the customer reads, and never downloaded by them.
NoteFilesStayInternal ==
    \A f \in Files : rows[f].internal =>
       /\ f \notin mentioned
       /\ \A p \in Clients : ~ MayReadInternal(p) =>
             f \notin Listed(p) /\ \A theirs \in BOOLEAN : <<p, f, theirs>> \notin downloads

\* Nobody downloads a file in a request during the whole of which its ticket was
\* not theirs to see.
DownloadsWereAllowed == \A d \in downloads : d[3]

\* Every row has its object, and its type is what its bytes say.
AttachmentInv ==
    /\ AttachmentTypeOK /\ NoteFilesStayInternal /\ DownloadsWereAllowed
    /\ \A f \in Files : rows[f].there =>
          /\ f \in objects
          /\ IF rows[f].media \in Signed THEN rows[f].begins = rows[f].media
             ELSE rows[f].begins \notin Signed
    /\ \A p \in Clients : callers[p].pc = "stored" => callers[p].file \in objects
=============================================================================
