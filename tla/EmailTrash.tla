----------------------------- MODULE EmailTrash -----------------------------
(***************************************************************************)
(* The trash columns of an email row (status, deletedAt, restoreStatus)    *)
(* and every handler that writes them: the helpers of email-trash.ts, the  *)
(* routes of one email and of many, the open API, the Telegram commands    *)
(* and the workflow actions.  Almost all of them read rows, let other      *)
(* handlers in, and then write by id; a request here is such a pair, with  *)
(* one write per email.  RetentionJob adds the job that empties the trash. *)
(***************************************************************************)
EXTENDS Naturals

CONSTANTS
    Email,      \* ids of email rows
    Request,    \* handlers that may be in flight at once
    NoDate,     \* a null date
    NoRestore,  \* a null restoreStatus
    MaxDay      \* bound of the clock

ASSUME NoDateAssumption == NoDate \notin Nat
ASSUME NoRestoreAssumption == NoRestore \notin {"UNREAD", "READ"}
ASSUME MaxDayAssumption == MaxDay \in Nat

VARIABLES
    emails,     \* the rows of the table emails
    requests,   \* what each handler in flight has read
    today,      \* the clock, in days
    trashings   \* history: the days on which each email was put in the trash

trashVars == <<emails, requests, today, trashings>>

Day    == 0 .. MaxDay
Status == {"UNREAD", "READ", "ARCHIVED", "DELETED"}
Kept   == Status \ {"DELETED"}

\* An id (a cuid) is used once: an unborn row is inserted, a gone one was deleted.
Row == [life : {"unborn", "there", "gone"}, status : Status, deletedAt : Day \union {NoDate},
        restoreStatus : {"UNREAD", "READ", NoRestore}, receivedAt : Day]

\* What a request reads of a row.
Columns == [status : Status, deletedAt : Day \union {NoDate},
            restoreStatus : {"UNREAD", "READ", NoRestore}]

\* The kinds of request: op "patch" and op "set" carry the status they write.
Op == {"trash", "bulkTrash", "restore", "patch", "set", "purge"}

RequestState == [op : Op \union {"none"}, status : Kept,
                 todo : SUBSET Email,        \* emails still to be written
                 read : [Email -> Columns],  \* the rows as they were read
                 at : Day]                   \* the time of the request

Unread == [status |-> "UNREAD", deletedAt |-> NoDate, restoreStatus |-> NoRestore]
NoRow  == [life |-> "unborn", status |-> "UNREAD", deletedAt |-> NoDate,
           restoreStatus |-> NoRestore, receivedAt |-> 0]
Idle   == [op |-> "none", status |-> "READ", todo |-> {},
           read |-> [e \in Email |-> Unread], at |-> 0]

TrashTypeOK ==
    /\ emails \in [Email -> Row]
    /\ requests \in [Request -> RequestState]
    /\ today \in Day
    /\ trashings \in [Email -> SUBSET Day]

TrashInit ==
    /\ emails = [e \in Email |-> NoRow]
    /\ requests = [r \in Request |-> Idle]
    /\ today = 0
    /\ trashings = [e \in Email |-> {}]

There(e) == emails[e].life = "there"
InTrash(e) == There(e) /\ emails[e].status = "DELETED"

-----------------------------------------------------------------------------
(* What a write does to a row. *)

\* Deliberate errors are named Wrong...: nothing uses them but mutation runs.
WrongRestoreStatus(status) == status   \* an archived email restored to the archive
getRestoreStatusForTrash(status) == IF status = "UNREAD" THEN "UNREAD" ELSE "READ"

WrongMovedToTrash(row, read, day) ==   \* the date is forgotten
    [row EXCEPT !.status = "DELETED",
                !.restoreStatus = getRestoreStatusForTrash(read.status)]
WrongDateMovedToTrash(row, read, day) ==   \* the date of the email's arrival
    [row EXCEPT !.status = "DELETED", !.deletedAt = row.receivedAt,
                !.restoreStatus = getRestoreStatusForTrash(read.status)]

\* deletedAt: existing.deletedAt ?? now.
MovedToTrash(row, read, day) ==
    [row EXCEPT !.status = "DELETED",
                !.deletedAt = IF read.deletedAt = NoDate THEN day ELSE read.deletedAt,
                !.restoreStatus = getRestoreStatusForTrash(read.status)]

\* The bulk routes date the email anew.
BulkTrashed(row, read, day) ==
    [row EXCEPT !.status = "DELETED", !.deletedAt = day,
                !.restoreStatus = getRestoreStatusForTrash(read.status)]

Restored(row, read) ==
    [row EXCEPT !.status = IF read.restoreStatus = "UNREAD" THEN "UNREAD" ELSE "READ",
                !.deletedAt = NoDate, !.restoreStatus = NoRestore]

\* PATCH of a status leaves the trash cleanly, if the row was in it when read.
Patched(row, read, status) ==
    IF read.status = "DELETED"
    THEN [row EXCEPT !.status = status, !.deletedAt = NoDate,
                     !.restoreStatus = NoRestore]
    ELSE [row EXCEPT !.status = status]

\* The row after the request's write; op "set" writes the status and nothing else.
Written(row, req, e) ==
    LET read == req.read[e] IN
    CASE req.op = "trash"     -> MovedToTrash(row, read, req.at)
      [] req.op = "bulkTrash" -> BulkTrashed(row, read, req.at)
      [] req.op = "restore"   -> Restored(row, read)
      [] req.op = "patch"     -> Patched(row, read, req.status)
      [] req.op = "set"       -> [row EXCEPT !.status = req.status]
      [] req.op = "purge"     -> [row EXCEPT !.life = "gone"]

\* The emails of a request that are written at all, by the rows that were read.
Concerned(op, e) ==
    /\ There(e)
    /\ op \in {"trash", "bulkTrash"} => emails[e].status # "DELETED"
    /\ op = "restore" => emails[e].status = "DELETED"

-----------------------------------------------------------------------------
(* The handlers. *)

\* A new email; MailDelivery says when one is inserted.
Arrive(e) ==
    /\ emails[e].life = "unborn"
    /\ emails' = [emails EXCEPT ![e].life = "there", ![e].receivedAt = today]
    /\ UNCHANGED <<requests, today, trashings>>

\* The columns the request will need when it writes; a patch asks only whether
\* the email was in the trash.
ReadOf(op, e) ==
    LET row == emails[e] IN
    CASE op = "trash"     -> [Unread EXCEPT !.status = row.status,
                                            !.deletedAt = row.deletedAt]
      [] op = "bulkTrash" -> [Unread EXCEPT !.status = row.status]
      [] op = "restore"   -> [Unread EXCEPT !.restoreStatus = row.restoreStatus]
      [] op = "patch"     -> IF row.status = "DELETED"
                             THEN [Unread EXCEPT !.status = "DELETED"] ELSE Unread
      [] OTHER            -> Unread

Started(op, status, ids) ==
    [op |-> op, status |-> status, todo |-> ids,
     at |-> IF op \in {"trash", "bulkTrash"} THEN today ELSE 0,
     read |-> [e \in Email |-> IF e \in ids THEN ReadOf(op, e) ELSE Unread]]

\* A request reads the rows of the emails it was given.
ReadEmails(r) ==
    /\ requests[r].op = "none"
    /\ \E op \in Op, status \in Kept, ids \in (SUBSET Email) \ {{}} :
         /\ op \notin {"patch", "set"} => status = "READ"
         /\ \A e \in ids : Concerned(op, e)
         /\ requests' = [requests EXCEPT ![r] = Started(op, status, ids)]
    /\ UNCHANGED <<emails, today, trashings>>

\* It writes one email by its id; an email that is gone ends the request.
WriteEmail(r) ==
    /\ \E e \in requests[r].todo :
         LET req  == requests[r]
             rest == req.todo \ {e}
             new  == Written(emails[e], req, e)
         IN /\ There(e)
            /\ emails' = [emails EXCEPT ![e] = new]
            /\ requests' = [requests EXCEPT ![r] =
                 IF rest = {} THEN Idle ELSE [req EXCEPT !.todo = rest]]
            /\ trashings' = IF req.op \in {"trash", "bulkTrash"}
                            THEN [trashings EXCEPT ![e] = @ \union {req.at}]
                            ELSE trashings
    /\ UNCHANGED today

\* An update of a row that is gone throws, and so may any await.
AbortRequest(r) ==
    /\ requests[r].op # "none"
    /\ requests' = [requests EXCEPT ![r] = Idle]
    /\ UNCHANGED <<emails, today, trashings>>

Tick ==
    /\ today < MaxDay
    /\ today' = today + 1
    /\ UNCHANGED <<emails, requests, trashings>>

-----------------------------------------------------------------------------
(* Properties. *)

\* An email in the trash has the date that lets it be purged and the status that
\* lets it be restored, whichever handlers raced to put it there or to take it
\* out; a trashed email without a date would stay for ever (retention.ts:316).
TrashComplete ==
    \A e \in Email :
        InTrash(e) => /\ emails[e].deletedAt # NoDate
                      /\ emails[e].restoreStatus # NoRestore

\* The date of an email, in the trash or left over from it, is that of a day on
\* which some request did put it there.
DatesAreReal ==
    \A e \in Email :
        emails[e].deletedAt # NoDate => emails[e].deletedAt \in trashings[e]
=============================================================================
