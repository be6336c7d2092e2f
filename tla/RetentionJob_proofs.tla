------------------------ MODULE RetentionJob_proofs ------------------------
(***************************************************************************)
(* Proofs about RetentionJob, for any emails, mailboxes, policies, handlers*)
(* in flight and calls of the job: the trash columns of every email are    *)
(* consistent whichever handlers and jobs race over them, one job runs at a*)
(* time, and what the job purges or trashes it may purge or trash.         *)
(***************************************************************************)
EXTENDS RetentionJob, TLAPS

(***************************************************************************)
(* The invariant.  What a handler or the job read must stay true of the    *)
(* row it writes later: a date that was read is a real one, because the    *)
(* days on which an email was trashed are never forgotten; the statuses    *)
(* read by the email stage were those of live emails; and what the trash   *)
(* stage picked had a date that was old enough.                            *)
(***************************************************************************)
IdleWritesNothing ==
    \A r \in Request : requests[r].op = "none" => requests[r].todo = {}

ReadDatesAreReal ==
    \A r \in Request : \A e \in requests[r].todo :
        requests[r].read[e].deletedAt # NoDate =>
            requests[r].read[e].deletedAt \in trashings[e]

UnbornIsUnread ==
    \A e \in Email : emails[e].life = "unborn" => emails[e].status = "UNREAD"

ReadLive(job) ==
    job.stage = "emails" => \A e \in job.todo : job.read[e] \in {"UNREAD", "READ"}

PickedOld(job) ==
    job.stage = "trash" =>
        \A e \in job.todo : \E day \in trashings[e] : day + TrashDays < job.now

TypeInv  == TypeOK /\ IdleWritesNothing
TrashInv == TrashComplete /\ DatesAreReal /\ ReadDatesAreReal /\ UnbornIsUnread
JobInv   == \A j \in Job : ReadLive(jobs[j]) /\ PickedOld(jobs[j])
IInv     == TypeInv /\ TrashInv /\ OneJob /\ JobInv

-----------------------------------------------------------------------------
(* What a step of one job does to the jobs. *)

LEMMA NoJobTyped == NoJob \in JobState
<1> DEFINE read == [e \in Email |-> "READ"]
<1>1. read \in [Email -> Status]
  BY DEF Status
<1>2. 0 \in Day
  BY MaxDayAssumption DEF Day
<1>3. NoJob = [stage |-> "idle", now |-> 0, boxes |-> {}, box |-> NoBox,
               todo |-> {}, read |-> read]
  BY DEF NoJob
<1> HIDE DEF read
<1>4. QED
  BY <1>1, <1>2, <1>3 DEF JobState, Stage

\* A step of a job changes that job alone, to a well-typed state.
LEMMA JobStepTyped ==
  ASSUME TypeOK, NEW j \in Job, JobStep(j)
  PROVE  /\ jobs'[j] \in JobState
         /\ jobs' = [jobs EXCEPT ![j] = jobs'[j]]
         /\ jobs[j].stage # "idle"
<1>a. jobs \in [Job -> JobState] /\ jobs[j] \in JobState
  BY DEF TypeOK
<1>1. CASE FindBoxes(j)
  BY <1>a, <1>1 DEF FindBoxes, JobState, Stage
<1>2. CASE ArchiveBox(j)
  <2>1. /\ jobs[j].stage = "boxes"
        /\ \E b \in jobs[j].boxes : jobs' = [jobs EXCEPT ![j].boxes = @ \ {b}]
    BY <1>2 DEF ArchiveBox
  <2>2. PICK b : jobs' = [jobs EXCEPT ![j].boxes = @ \ {b}]
    BY <2>1
  <2> DEFINE rest == jobs[j].boxes \ {b}
  <2>3. rest \in SUBSET Box
    BY <1>a DEF JobState
  <2>4. jobs' = [jobs EXCEPT ![j].boxes = rest]
    BY <2>2
  <2> HIDE DEF rest
  <2>5. QED
    BY <1>a, <2>1, <2>3, <2>4 DEF JobState
<1>3. CASE TakeBox(j)
  BY <1>a, <1>3 DEF TakeBox, JobState, Stage
<1>4. CASE ReadMail(j)
  BY <1>a, <1>4 DEF ReadMail, Mail, JobState, Stage
<1>5. CASE PurgeMail(j)
  BY <1>a, <1>5 DEF PurgeMail, JobState, Stage
<1>6. CASE SeeEmptyBox(j)
  BY <1>a, <1>6 DEF SeeEmptyBox, Goto, JobState, Stage
<1>7. CASE DeleteBox(j)
  BY <1>a, <1>7 DEF DeleteBox, JobState, Stage
<1>8. CASE FailBox(j)
  BY <1>a, <1>8 DEF FailBox, JobState, Stage
<1>9. CASE EndBoxes(j)
  BY <1>a, <1>9 DEF EndBoxes, Goto, JobState, Stage
<1>10. CASE FindEmails(j)
  <2> DEFINE read == [e \in Email |-> emails[e].status]
             todo == {e \in Email :
                /\ There(e) /\ emails[e].status \in {"UNREAD", "READ"}
                /\ Expired(emails[e].receivedAt, emailPolicy[boxOf[e]].days,
                           jobs[j].now)}
  <2>1. read \in [Email -> Status]
    BY DEF TypeOK, TrashTypeOK, Row
  <2>2. todo \in SUBSET Email
    OBVIOUS
  <2>3. /\ jobs[j].stage = "findEmails"
        /\ jobs' = [jobs EXCEPT ![j].stage = "emails", ![j].read = read,
                                ![j].todo = todo]
    BY <1>10 DEF FindEmails
  <2> HIDE DEF read, todo
  <2>4. QED
    BY <1>a, <2>1, <2>2, <2>3 DEF JobState, Stage
<1>11. CASE ExpireEmail(j)
  BY <1>a, <1>11 DEF ExpireEmail, JobState, Stage
<1>12. CASE EndEmails(j)
  BY <1>a, <1>12 DEF EndEmails, Goto, JobState, Stage
<1>13. CASE FindTrash(j)
  BY <1>a, <1>13 DEF FindTrash, OldTrash, JobState, Stage
<1>14. CASE PurgeTrashed(j)
  BY <1>a, <1>14 DEF PurgeTrashed, JobState, Stage
<1>15. CASE SkipEmail(j)
  BY <1>a, <1>15 DEF SkipEmail, JobState, Stage
<1>16. CASE EndJob(j)
  BY <1>a, <1>16, NoJobTyped DEF EndJob
<1>17. CASE FailJob(j)
  BY <1>a, <1>17, NoJobTyped DEF FailJob
<1>18. QED
  BY <1>1, <1>2, <1>3, <1>4, <1>5, <1>6, <1>7, <1>8, <1>9, <1>10, <1>11, <1>12,
     <1>13, <1>14, <1>15, <1>16, <1>17 DEF JobStep

\* A step of a job keeps what the trash stage and the email stage rely on.
LEMMA JobStepKeeps ==
  ASSUME IInv, NEW j \in Job, JobStep(j)
  PROVE  ReadLive(jobs'[j]) /\ PickedOld(jobs[j])'
<1>a. TypeOK /\ jobs \in [Job -> JobState] /\ jobs[j] \in JobState
  BY DEF IInv, TypeInv, TypeOK
<1>b. ReadLive(jobs[j]) /\ PickedOld(jobs[j])
  BY DEF IInv, JobInv
<1>1. CASE FindEmails(j)
  BY <1>a, <1>1 DEF FindEmails, JobState, ReadLive, PickedOld
<1>2. CASE FindTrash(j)
  <2>1. /\ jobs'[j].stage = "trash" /\ jobs'[j].now = jobs[j].now
        /\ jobs'[j].todo \subseteq OldTrash(jobs[j].now)
        /\ trashings' = trashings
    BY <1>a, <1>2 DEF FindTrash, JobState, trashVars
  <2>2. \A e \in OldTrash(jobs[j].now) :
          \E day \in trashings[e] : day + TrashDays < jobs[j].now
    BY DEF IInv, TrashInv, DatesAreReal, OldTrash
  <2>3. QED
    BY <2>1, <2>2 DEF ReadLive, PickedOld
<1>3. CASE ExpireEmail(j)
  BY <1>a, <1>b, <1>3 DEF ExpireEmail, JobState, ReadLive, PickedOld
<1>4. CASE PurgeTrashed(j) \/ SkipEmail(j)
  BY <1>a, <1>b, <1>4 DEF PurgeTrashed, Purge, SkipEmail, JobState, ReadLive,
                          PickedOld, trashVars
<1>5. CASE \/ FindBoxes(j) \/ ArchiveBox(j) \/ TakeBox(j) \/ ReadMail(j)
           \/ PurgeMail(j) \/ SeeEmptyBox(j) \/ DeleteBox(j) \/ FailBox(j)
           \/ EndBoxes(j) \/ EndEmails(j) \/ EndJob(j) \/ FailJob(j)
  <2>1. jobs'[j].stage \notin {"emails", "trash"}
    <3>1. CASE FindBoxes(j)
      BY <1>a, <3>1 DEF FindBoxes, JobState
    <3>0. CASE TakeBox(j)
      BY <1>a, <3>0 DEF TakeBox, JobState
    <3>2. CASE ArchiveBox(j)
      <4>1. /\ jobs[j].stage = "boxes"
            /\ \E b : jobs' = [jobs EXCEPT ![j].boxes = @ \ {b}]
        BY <3>2 DEF ArchiveBox
      <4>2. PICK b : jobs' = [jobs EXCEPT ![j].boxes = @ \ {b}]
        BY <4>1
      <4> DEFINE rest == jobs[j].boxes \ {b}
      <4>3. jobs' = [jobs EXCEPT ![j].boxes = rest]
        BY <4>2
      <4> HIDE DEF rest
      <4>4. QED
        BY <1>a, <4>1, <4>3 DEF JobState
    <3>3. CASE ReadMail(j)
      BY <1>a, <3>3 DEF ReadMail, JobState
    <3>4. CASE PurgeMail(j)
      BY <1>a, <3>4 DEF PurgeMail, JobState
    <3>5. CASE SeeEmptyBox(j) \/ EndBoxes(j) \/ EndEmails(j)
      BY <1>a, <3>5 DEF SeeEmptyBox, EndBoxes, EndEmails, Goto, JobState
    <3>6. CASE DeleteBox(j)
      BY <1>a, <3>6 DEF DeleteBox, JobState
    <3>7. CASE FailBox(j)
      BY <1>a, <3>7 DEF FailBox, JobState
    <3>8. CASE EndJob(j) \/ FailJob(j)
      BY <1>a, <3>8 DEF EndJob, FailJob, NoJob, JobState
    <3>9. QED
      BY <1>5, <3>0, <3>1, <3>2, <3>3, <3>4, <3>5, <3>6, <3>7, <3>8
  <2>2. QED
    BY <2>1 DEF ReadLive, PickedOld
<1>6. QED
  BY <1>1, <1>2, <1>3, <1>4, <1>5 DEF JobStep

-----------------------------------------------------------------------------
(* Types of the trash columns. *)

\* The columns a request reads are well typed.
LEMMA ReadOfTyped ==
  ASSUME TrashTypeOK, NEW op \in Op, NEW e \in Email
  PROVE  ReadOf(op, e) \in Columns
<1>1. /\ emails[e] \in Row
      /\ Unread \in Columns
  BY DEF TrashTypeOK, Unread, Columns, Status
<1>2. CASE op = "trash"
  BY <1>1, <1>2 DEF ReadOf, Columns, Row
<1>3. CASE op = "bulkTrash"
  BY <1>1, <1>3 DEF ReadOf, Columns, Row
<1>4. CASE op = "restore"
  BY <1>1, <1>4 DEF ReadOf, Columns, Row
<1>5. CASE op = "patch"
  BY <1>1, <1>5 DEF ReadOf, Columns, Row, Status
<1>6. CASE op \notin {"trash", "bulkTrash", "restore", "patch"}
  BY <1>1, <1>6 DEF ReadOf, Op
<1>7. QED
  BY <1>2, <1>3, <1>4, <1>5, <1>6

\* What a request writes is a row.
LEMMA WrittenTyped ==
  ASSUME NEW row \in Row, NEW req \in RequestState, NEW e \in Email,
         req.op # "none"
  PROVE  Written(row, req, e) \in Row
<1>1. /\ req.op \in Op /\ req.status \in Kept /\ req.at \in Day
      /\ req.read[e] \in Columns
  BY DEF RequestState
<1>2. getRestoreStatusForTrash(req.read[e].status) \in {"UNREAD", "READ"}
  BY DEF getRestoreStatusForTrash
<1>3. CASE req.op = "trash"
  BY <1>1, <1>2, <1>3 DEF Written, MovedToTrash, Row, Columns, Status
<1>4. CASE req.op = "bulkTrash"
  BY <1>1, <1>2, <1>4 DEF Written, BulkTrashed, Row, Columns, Status
<1>5. CASE req.op = "restore"
  BY <1>1, <1>5 DEF Written, Restored, Row, Columns, Status
<1>6. CASE req.op = "patch"
  BY <1>1, <1>6 DEF Written, Patched, Row, Columns, Status, Kept
<1>7. CASE req.op = "set"
  BY <1>1, <1>7 DEF Written, Row, Status, Kept
<1>8. CASE req.op = "purge"
  BY <1>1, <1>8 DEF Written, Row
<1>9. QED
  BY <1>1, <1>3, <1>4, <1>5, <1>6, <1>7, <1>8 DEF Op

LEMMA IdleTyped == Idle \in RequestState
<1> DEFINE read == [e \in Email |-> Unread]
<1>1. Unread \in Columns
  BY DEF Unread, Columns, Status
<1>2. read \in [Email -> Columns]
  BY <1>1
<1>3. 0 \in Day /\ "READ" \in Kept
  BY MaxDayAssumption DEF Day, Kept, Status
<1>4. Idle = [op |-> "none", status |-> "READ", todo |-> {}, read |-> read, at |-> 0]
  BY DEF Idle
<1> HIDE DEF read
<1>5. QED
  BY <1>2, <1>3, <1>4 DEF RequestState

\* A step of a request keeps the types, and the dates it read are real ones.
LEMMA RequestStepTyped ==
  ASSUME TypeInv, NEW r \in Request,
         ReadEmails(r) \/ WriteEmail(r) \/ AbortRequest(r)
  PROVE  TrashTypeOK' /\ IdleWritesNothing'
<1>a. /\ TrashTypeOK /\ IdleWritesNothing
      /\ emails \in [Email -> Row]
      /\ requests \in [Request -> RequestState] /\ requests[r] \in RequestState
      /\ today \in Day /\ trashings \in [Email -> SUBSET Day]
  BY DEF TypeInv, TypeOK, TrashTypeOK
<1>b. /\ Idle \in RequestState /\ Idle.op = "none" /\ Idle.todo = {}
  BY IdleTyped DEF Idle
<1>1. ASSUME NEW s \in RequestState, s.op = "none" => s.todo = {},
             requests' = [requests EXCEPT ![r] = s]
      PROVE  requests' \in [Request -> RequestState] /\ IdleWritesNothing'
  BY <1>a, <1>1 DEF IdleWritesNothing
<1>2. CASE ReadEmails(r)
  <2>1. PICK op \in Op, status \in Kept, ids \in (SUBSET Email) \ {{}} :
          requests' = [requests EXCEPT ![r] = Started(op, status, ids)]
    BY <1>2 DEF ReadEmails
  <2> DEFINE read == [e \in Email |-> IF e \in ids THEN ReadOf(op, e) ELSE Unread]
             at   == IF op \in {"trash", "bulkTrash"} THEN today ELSE 0
             s    == Started(op, status, ids)
  <2>2. Unread \in Columns
    BY DEF Unread, Columns, Status
  <2>3. read \in [Email -> Columns]
    <3>1. \A e \in Email : ReadOf(op, e) \in Columns
      BY <1>a, ReadOfTyped
    <3>2. QED
      BY <2>2, <3>1
  <2>4. at \in Day
    BY <1>a, MaxDayAssumption DEF Day
  <2>5. s = [op |-> op, status |-> status, todo |-> ids, at |-> at, read |-> read]
    BY DEF Started
  <2> HIDE DEF read, at, s
  <2>6. s \in RequestState
    BY <2>3, <2>4, <2>5 DEF RequestState
  <2>7. s.op # "none"
    BY <2>5 DEF Op
  <2>8. requests' \in [Request -> RequestState] /\ IdleWritesNothing'
    BY <1>1, <2>1, <2>6, <2>7 DEF s
  <2>9. QED
    BY <1>2, <1>a, <2>8 DEF ReadEmails, TrashTypeOK
<1>3. CASE WriteEmail(r)
  <2> DEFINE req == requests[r]
  <2>1. PICK e \in req.todo :
          /\ emails' = [emails EXCEPT ![e] = Written(emails[e], req, e)]
          /\ requests' = [requests EXCEPT ![r] =
               IF req.todo \ {e} = {} THEN Idle
               ELSE [req EXCEPT !.todo = req.todo \ {e}]]
          /\ trashings' = IF req.op \in {"trash", "bulkTrash"}
                          THEN [trashings EXCEPT ![e] = @ \union {req.at}]
                          ELSE trashings
    BY <1>3 DEF WriteEmail
  <2>2. /\ e \in Email /\ req.at \in Day
        /\ req.op # "none"
    BY <1>a, <2>1 DEF RequestState, IdleWritesNothing
  <2>3. Written(emails[e], req, e) \in Row
    BY <1>a, <2>2, WrittenTyped
  <2>4. emails' \in [Email -> Row]
    BY <1>a, <2>1, <2>2, <2>3
  <2>5. trashings' \in [Email -> SUBSET Day]
    BY <1>a, <2>1, <2>2
  <2> DEFINE rest == req.todo \ {e}
             s    == IF rest = {} THEN Idle ELSE [req EXCEPT !.todo = rest]
  <2>6. rest \in SUBSET Email
    BY <1>a DEF RequestState
  <2>7. requests' = [requests EXCEPT ![r] = s]
    BY <2>1
  <2> HIDE DEF rest
  <2>8. s \in RequestState /\ (s.op = "none" => s.todo = {})
    BY <1>a, <1>b, <2>2, <2>6 DEF RequestState
  <2> HIDE DEF s
  <2>9. requests' \in [Request -> RequestState] /\ IdleWritesNothing'
    BY <1>1, <2>7, <2>8
  <2>10. QED
    BY <1>3, <1>a, <2>4, <2>5, <2>9 DEF WriteEmail, TrashTypeOK
<1>4. CASE AbortRequest(r)
  BY <1>1, <1>a, <1>b, <1>4 DEF AbortRequest, TrashTypeOK
<1>5. QED
  BY <1>2, <1>3, <1>4

\* A row that a job writes or deletes is a row; a job that trashes an email dates it.
LEMMA JobRowsTyped ==
  ASSUME TypeInv, NEW j \in Job, JobStep(j)
  PROVE  TrashTypeOK' /\ IdleWritesNothing' /\ mailboxes' \in [Box -> Mailbox]
<1>a. /\ TrashTypeOK /\ IdleWritesNothing /\ mailboxes \in [Box -> Mailbox]
      /\ emails \in [Email -> Row] /\ trashings \in [Email -> SUBSET Day]
      /\ jobs[j] \in JobState /\ jobs[j].now \in Day
  BY DEF TypeInv, TypeOK, TrashTypeOK, JobState
<1>1. ASSUME UNCHANGED <<requests, today>>,
             emails' \in [Email -> Row], trashings' \in [Email -> SUBSET Day]
      PROVE  TrashTypeOK' /\ IdleWritesNothing'
  BY <1>a, <1>1 DEF TrashTypeOK, IdleWritesNothing
<1>2. CASE PurgeMail(j) \/ PurgeTrashed(j)
  <2>1. PICK e \in Email : Purge(e)
    BY <1>a, <1>2 DEF PurgeMail, PurgeTrashed, JobState
  <2>2. [emails[e] EXCEPT !.life = "gone"] \in Row
    BY <1>a DEF Row
  <2>3. emails' \in [Email -> Row]
    BY <1>a, <2>1, <2>2 DEF Purge
  <2>4. QED
    BY <1>1, <1>2, <1>a, <2>1, <2>3 DEF Purge, PurgeMail, PurgeTrashed
<1>3. CASE DeleteBox(j)
  <2>1. \A e \in Email : [emails[e] EXCEPT !.life = "gone"] \in Row
    BY <1>a DEF Row
  <2>2. emails' \in [Email -> Row]
    BY <1>a, <1>3, <2>1 DEF DeleteBox, RemoveBox
  <2>3. mailboxes' = [mailboxes EXCEPT ![jobs[j].box].there = FALSE]
    BY <1>3 DEF DeleteBox, RemoveBox
  <2>4. mailboxes' \in [Box -> Mailbox]
    BY <1>a, <2>3 DEF Mailbox
  <2>5. QED
    BY <1>1, <1>3, <1>a, <2>2, <2>4 DEF DeleteBox, RemoveBox
<1>4. CASE ExpireEmail(j)
  <2>1. PICK e \in Email :
          \/ UNCHANGED <<emails, trashings>>
          \/ /\ emails' = [emails EXCEPT ![e].status = "ARCHIVED"]
             /\ UNCHANGED trashings
          \/ /\ emails' = [emails EXCEPT ![e] =
                  [@ EXCEPT !.status = "DELETED", !.deletedAt = jobs[j].now,
                            !.restoreStatus =
                               getRestoreStatusForTrash(jobs[j].read[e])]]
             /\ trashings' = [trashings EXCEPT ![e] = @ \union {jobs[j].now}]
    BY <1>a, <1>4 DEF ExpireEmail, JobState
  <2>2. [emails[e] EXCEPT !.status = "ARCHIVED"] \in Row
    BY <1>a DEF Row, Status
  <2>3. getRestoreStatusForTrash(jobs[j].read[e]) \in {"UNREAD", "READ"}
    BY DEF getRestoreStatusForTrash
  <2>4. [emails[e] EXCEPT !.status = "DELETED", !.deletedAt = jobs[j].now,
                          !.restoreStatus =
                             getRestoreStatusForTrash(jobs[j].read[e])] \in Row
    BY <1>a, <2>3 DEF Row, Status
  <2>5. emails' \in [Email -> Row] /\ trashings' \in [Email -> SUBSET Day]
    BY <1>a, <2>1, <2>2, <2>4
  <2>6. QED
    BY <1>1, <1>4, <1>a, <2>5 DEF ExpireEmail
<1>5. CASE ArchiveBox(j)
  <2>1. PICK b \in Box :
          mailboxes' = [mailboxes EXCEPT ![b].archived =
                          @ \/ (mailboxes[b].there /\ mailboxes[b].active)]
    BY <1>a, <1>5 DEF ArchiveBox, JobState
  <2>2. mailboxes' \in [Box -> Mailbox]
    BY <1>a, <2>1 DEF Mailbox
  <2>3. QED
    BY <1>1, <1>5, <1>a, <2>2 DEF ArchiveBox, trashVars
<1>6. CASE UNCHANGED <<trashVars, mailboxes>>
  BY <1>1, <1>6, <1>a DEF trashVars
<1>7. QED
  BY <1>2, <1>3, <1>4, <1>5, <1>6
  DEF JobStep, FindBoxes, TakeBox, ReadMail, SeeEmptyBox, FailBox, EndBoxes,
      FindEmails, EndEmails, FindTrash, SkipEmail, EndJob, FailJob
-----------------------------------------------------------------------------
(* Type correctness. *)

LEMMA InitTyped == Init => TypeInv
<1> SUFFICES ASSUME Init PROVE TypeInv
  OBVIOUS
<1>1. 0 \in Day
  BY MaxDayAssumption DEF Day
<1>2. NoRow \in Row
  BY <1>1 DEF NoRow, Row, Status
<1>3. TrashTypeOK /\ IdleWritesNothing
  BY <1>1, <1>2, IdleTyped DEF Init, TrashInit, TrashTypeOK, IdleWritesNothing, Idle
<1>4. mailboxes \in [Box -> Mailbox]
  BY <1>1 DEF Init, Mailbox
<1>5. QED
  BY <1>3, <1>4, NoJobTyped DEF Init, TypeInv, TypeOK

LEMMA NextTyped == TypeInv /\ [Next]_vars => TypeInv'
<1> SUFFICES ASSUME TypeInv, [Next]_vars PROVE TypeInv'
  OBVIOUS
<1>a. /\ TypeOK /\ TrashTypeOK /\ IdleWritesNothing /\ mailboxes \in [Box -> Mailbox]
      /\ jobs \in [Job -> JobState] /\ retentionJobRunning \in BOOLEAN
      /\ emails \in [Email -> Row] /\ today \in Day
  BY DEF TypeInv, TypeOK, TrashTypeOK
<1>1. CASE Deliver
  <2>1. PICK e \in Email :
          /\ Arrive(e)
          /\ mailboxes' = [mailboxes EXCEPT ![boxOf[e]].lastEmailReceivedAt = today]
    BY <1>1 DEF Deliver
  <2>2. [emails[e] EXCEPT !.life = "there", !.receivedAt = today] \in Row
    BY <1>a DEF Row
  <2>3. emails' \in [Email -> Row]
    BY <1>a, <2>1, <2>2 DEF Arrive
  <2>4. mailboxes' \in [Box -> Mailbox]
    BY <1>a, <2>1 DEF Mailbox
  <2>5. TrashTypeOK' /\ IdleWritesNothing'
    BY <1>a, <2>1, <2>3 DEF Arrive, TrashTypeOK, IdleWritesNothing
  <2>6. QED
    BY <1>a, <1>1, <2>4, <2>5 DEF Deliver, TypeInv, TypeOK
<1>2. CASE HandleRequest
  BY <1>a, <1>2, RequestStepTyped DEF HandleRequest, boxVars, TypeInv, TypeOK
<1>3. CASE UpdateMailbox
  <2>1. mailboxes' \in [Box -> Mailbox]
    BY <1>a, <1>3 DEF UpdateMailbox, Mailbox
  <2>2. QED
    BY <1>a, <1>3, <2>1
    DEF UpdateMailbox, trashVars, TypeInv, TypeOK, TrashTypeOK, IdleWritesNothing
<1>4. CASE PassDay
  <2>1. today' \in Day
    BY <1>a, <1>4, MaxDayAssumption DEF PassDay, Tick, Day
  <2>2. QED
    BY <1>a, <1>4, <2>1
    DEF PassDay, Tick, boxVars, TypeInv, TypeOK, TrashTypeOK, IdleWritesNothing
<1>5. CASE Restart
  BY <1>a, <1>5, IdleTyped, NoJobTyped
  DEF Restart, TypeInv, TypeOK, TrashTypeOK, IdleWritesNothing, Idle
<1>6. ASSUME NEW j \in Job, StartJob(j) PROVE TypeInv'
  <2> DEFINE s == [NoJob EXCEPT !.stage = "findBoxes", !.now = today]
  <2>1. s \in JobState
    BY <1>a, NoJobTyped DEF JobState, Stage
  <2> HIDE DEF s
  <2>2. jobs' \in [Job -> JobState] /\ retentionJobRunning' \in BOOLEAN
    BY <1>a, <1>6, <2>1 DEF StartJob, s
  <2>3. QED
    BY <1>a, <1>6, <2>2
    DEF StartJob, trashVars, TypeInv, TypeOK, TrashTypeOK, IdleWritesNothing
<1>7. ASSUME NEW j \in Job, JobStep(j) PROVE TypeInv'
  <2>1. jobs' \in [Job -> JobState]
    BY <1>a, <1>7, JobStepTyped
  <2>2. retentionJobRunning' \in BOOLEAN
    BY <1>a, <1>7
    DEF JobStep, FindBoxes, ArchiveBox, TakeBox, ReadMail, PurgeMail, SeeEmptyBox,
        DeleteBox, FailBox, EndBoxes, FindEmails, ExpireEmail, EndEmails, FindTrash,
        PurgeTrashed, SkipEmail, EndJob, FailJob, Released
  <2>3. QED
    BY <1>7, <2>1, <2>2, JobRowsTyped DEF TypeInv, TypeOK
<1>8. CASE UNCHANGED vars
  BY <1>a, <1>8 DEF vars, TypeInv, TypeOK, TrashTypeOK, IdleWritesNothing
<1>9. QED
  BY <1>1, <1>2, <1>3, <1>4, <1>5, <1>6, <1>7, <1>8 DEF Next

\* Every reachable state of the trash, the mailboxes and the jobs is well typed
\* (email-trash.ts, jobs/retention.ts).
THEOREM TypeCorrect == Spec => []TypeOK
<1>1. TypeInv => TypeOK
  BY DEF TypeInv
<1>2. QED
  BY InitTyped, NextTyped, <1>1, PTL DEF Spec
-----------------------------------------------------------------------------
(* The trash. *)

\* Days are not null.
LEMMA DayIsReal == \A day \in Day : day # NoDate
BY NoDateAssumption DEF Day

\* A request that writes a row leaves it consistent, if what it read was.
LEMMA WrittenGood ==
  ASSUME NEW row \in Row, NEW req \in RequestState, NEW e \in Email,
         req.op # "none", NEW days \in SUBSET Day, NEW after \in SUBSET Day,
         days \subseteq after,
         req.op \in {"trash", "bulkTrash"} => req.at \in after,
         req.read[e].deletedAt # NoDate => req.read[e].deletedAt \in days,
         row.deletedAt # NoDate => row.deletedAt \in days,
         row.status = "DELETED" =>
            row.deletedAt # NoDate /\ row.restoreStatus # NoRestore
  PROVE  LET new == Written(row, req, e) IN
         /\ new.deletedAt # NoDate => new.deletedAt \in after
         /\ new.status = "DELETED" =>
               new.deletedAt # NoDate /\ new.restoreStatus # NoRestore
         /\ new.life \in {row.life, "gone"}
<1> DEFINE new == Written(row, req, e)
<1>1. /\ req.op \in Op /\ req.status \in Kept /\ req.at \in Day
      /\ req.at # NoDate
  BY DayIsReal DEF RequestState
<1>2. getRestoreStatusForTrash(req.read[e].status) # NoRestore
  BY NoRestoreAssumption DEF getRestoreStatusForTrash
<1>3. CASE req.op = "trash"
  <2>1. new = [row EXCEPT !.status = "DELETED",
                  !.deletedAt = IF req.read[e].deletedAt = NoDate THEN req.at
                                ELSE req.read[e].deletedAt,
                  !.restoreStatus = getRestoreStatusForTrash(req.read[e].status)]
    BY <1>3 DEF Written, MovedToTrash
  <2>2. QED
    BY <1>1, <1>2, <1>3, <2>1 DEF Row
<1>4. CASE req.op = "bulkTrash"
  <2>1. new = [row EXCEPT !.status = "DELETED", !.deletedAt = req.at,
                  !.restoreStatus = getRestoreStatusForTrash(req.read[e].status)]
    BY <1>4 DEF Written, BulkTrashed
  <2>2. QED
    BY <1>1, <1>2, <1>4, <2>1 DEF Row
<1>5. CASE req.op = "restore"
  <2>1. /\ new.deletedAt = NoDate /\ new.status # "DELETED" /\ new.life = row.life
    BY <1>5 DEF Written, Restored, Row
  <2>2. QED
    BY <2>1
<1>6. CASE req.op = "patch"
  <2>1. /\ new.deletedAt \in {NoDate, row.deletedAt} /\ new.status # "DELETED"
        /\ new.life = row.life
    BY <1>1, <1>6 DEF Written, Patched, Row, Kept
  <2>2. QED
    BY <2>1
<1>7. CASE req.op = "set"
  <2>1. /\ new.deletedAt = row.deletedAt /\ new.status # "DELETED"
        /\ new.life = row.life
    BY <1>1, <1>7 DEF Written, Row, Kept
  <2>2. QED
    BY <2>1
<1>8. CASE req.op = "purge"
  <2>1. new = [row EXCEPT !.life = "gone"]
    BY <1>8 DEF Written
  <2>2. QED
    BY <2>1 DEF Row
<1>9. QED
  BY <1>1, <1>3, <1>4, <1>5, <1>6, <1>7, <1>8 DEF Op

\* What a request reads of a row is a null date or the date of the row.
LEMMA ReadOfDate ==
  ASSUME TrashTypeOK, NEW op \in Op, NEW e \in Email
  PROVE  ReadOf(op, e).deletedAt \in {NoDate, emails[e].deletedAt}
<1>1. emails[e] \in Row
  BY DEF TrashTypeOK
<1>2. QED
  BY <1>1 DEF ReadOf, Unread, Row, Op

LEMMA RequestKeepsTrash ==
  ASSUME TypeInv, TrashInv, NEW r \in Request,
         ReadEmails(r) \/ WriteEmail(r) \/ AbortRequest(r)
  PROVE  TrashInv'
<1>a. /\ TrashTypeOK /\ IdleWritesNothing
      /\ emails \in [Email -> Row]
      /\ requests \in [Request -> RequestState] /\ requests[r] \in RequestState
      /\ today \in Day /\ trashings \in [Email -> SUBSET Day]
  BY DEF TypeInv, TypeOK, TrashTypeOK
<1>b. TrashComplete /\ DatesAreReal /\ ReadDatesAreReal /\ UnbornIsUnread
  BY DEF TrashInv
<1>1. CASE ReadEmails(r)
  <2>1. PICK op \in Op, status \in Kept, ids \in (SUBSET Email) \ {{}} :
          requests' = [requests EXCEPT ![r] = Started(op, status, ids)]
    BY <1>1 DEF ReadEmails
  <2>2. UNCHANGED <<emails, trashings>>
    BY <1>1 DEF ReadEmails
  <2> DEFINE s == Started(op, status, ids)
  <2>3. s.todo = ids
    BY DEF Started
  <2>4. \A e \in ids : s.read[e] = ReadOf(op, e)
    BY DEF Started
  <2>5. \A e \in ids : s.read[e].deletedAt # NoDate =>
                          s.read[e].deletedAt \in trashings[e]
    BY <1>a, <1>b, <2>4, ReadOfDate DEF DatesAreReal
  <2> HIDE DEF s
  <2>6. ReadDatesAreReal'
    BY <1>a, <1>b, <2>1, <2>2, <2>3, <2>5 DEF ReadDatesAreReal, s
  <2>7. QED
    BY <1>b, <2>2, <2>6
    DEF TrashInv, TrashComplete, DatesAreReal, UnbornIsUnread, InTrash, There
<1>2. CASE WriteEmail(r)
  <2> DEFINE req == requests[r]
  <2>1. PICK e \in req.todo :
          /\ There(e)
          /\ emails' = [emails EXCEPT ![e] = Written(emails[e], req, e)]
          /\ requests' = [requests EXCEPT ![r] =
               IF req.todo \ {e} = {} THEN Idle
               ELSE [req EXCEPT !.todo = req.todo \ {e}]]
          /\ trashings' = IF req.op \in {"trash", "bulkTrash"}
                          THEN [trashings EXCEPT ![e] = @ \union {req.at}]
                          ELSE trashings
    BY <1>2 DEF WriteEmail
  <2>2. e \in Email /\ req.at \in Day /\ req.op # "none"
    BY <1>a, <2>1 DEF RequestState, IdleWritesNothing
  <2>3. /\ \A x \in Email : trashings[x] \subseteq trashings'[x]
        /\ trashings[e] \in SUBSET Day /\ trashings'[e] \in SUBSET Day
        /\ req.op \in {"trash", "bulkTrash"} => req.at \in trashings'[e]
    BY <1>a, <2>1, <2>2
  <2>4. /\ req.read[e].deletedAt # NoDate => req.read[e].deletedAt \in trashings[e]
        /\ emails[e].deletedAt # NoDate => emails[e].deletedAt \in trashings[e]
        /\ emails[e].status = "DELETED" =>
             emails[e].deletedAt # NoDate /\ emails[e].restoreStatus # NoRestore
    BY <1>b, <2>1, <2>2
    DEF ReadDatesAreReal, DatesAreReal, TrashComplete, InTrash, There
  <2> DEFINE new == Written(emails[e], req, e)
  <2>5. /\ new.deletedAt # NoDate => new.deletedAt \in trashings'[e]
        /\ new.status = "DELETED" =>
              new.deletedAt # NoDate /\ new.restoreStatus # NoRestore
        /\ new.life \in {emails[e].life, "gone"}
    BY <1>a, <2>2, <2>3, <2>4, WrittenGood
  <2> HIDE DEF new
  <2>6. emails' = [emails EXCEPT ![e] = new]
    BY <2>1 DEF new
  <2>7. TrashComplete' /\ DatesAreReal' /\ UnbornIsUnread'
    BY <1>a, <1>b, <2>1, <2>2, <2>3, <2>5, <2>6
    DEF TrashComplete, DatesAreReal, UnbornIsUnread, InTrash, There
  <2>8. ReadDatesAreReal'
    <3>1. /\ requests'[r].todo \subseteq req.todo
          /\ requests'[r].todo # {} => requests'[r].read = req.read
      BY <1>a, <2>1 DEF Idle, RequestState
    <3>2. \A x \in Request : x # r => requests'[x] = requests[x]
      BY <1>a, <2>1
    <3>3. \A x \in Request : requests[x].todo \subseteq Email
      BY <1>a DEF RequestState
    <3>4. QED
      BY <1>b, <2>3, <3>1, <3>2, <3>3 DEF ReadDatesAreReal
  <2>9. QED
    BY <2>7, <2>8 DEF TrashInv
<1>3. CASE AbortRequest(r)
  BY <1>a, <1>b, <1>3
  DEF AbortRequest, Idle, TrashInv, TrashComplete, DatesAreReal, ReadDatesAreReal,
      UnbornIsUnread, InTrash, There
<1>4. QED
  BY <1>1, <1>2, <1>3

LEMMA JobKeepsTrash ==
  ASSUME TypeInv, TrashInv, NEW j \in Job, JobStep(j)
  PROVE  /\ TrashInv'
         /\ \A e \in Email : trashings[e] \subseteq trashings'[e]
<1>a. /\ TrashTypeOK
      /\ emails \in [Email -> Row] /\ trashings \in [Email -> SUBSET Day]
      /\ jobs[j] \in JobState /\ jobs[j].now \in Day /\ jobs[j].now # NoDate
      /\ requests \in [Request -> RequestState]
  BY DayIsReal DEF TypeInv, TypeOK, TrashTypeOK, JobState
<1>b. TrashComplete /\ DatesAreReal /\ ReadDatesAreReal /\ UnbornIsUnread
  BY DEF TrashInv
<1>1. CASE PurgeMail(j) \/ PurgeTrashed(j)
  <2>1. PICK e \in Email : Purge(e)
    BY <1>a, <1>1 DEF PurgeMail, PurgeTrashed, JobState
  <2>2. QED
    BY <1>a, <1>b, <2>1
    DEF Purge, There, TrashInv, TrashComplete, DatesAreReal, ReadDatesAreReal,
        UnbornIsUnread, InTrash, Row
<1>2. CASE DeleteBox(j)
  <2>1. /\ emails' = [e \in Email |-> IF e \in Mail(jobs[j].box)
                                      THEN [emails[e] EXCEPT !.life = "gone"]
                                      ELSE emails[e]]
        /\ UNCHANGED <<requests, trashings>>
    BY <1>2 DEF DeleteBox, RemoveBox
  <2>2. QED
    BY <1>a, <1>b, <2>1
    DEF There, TrashInv, TrashComplete, DatesAreReal, ReadDatesAreReal,
        UnbornIsUnread, InTrash, Row
<1>3. CASE ExpireEmail(j)
  <2>1. PICK e \in Email :
          \/ UNCHANGED <<emails, trashings>>
          \/ /\ There(e)
             /\ emails' = [emails EXCEPT ![e].status = "ARCHIVED"]
             /\ UNCHANGED trashings
          \/ /\ There(e)
             /\ emails' = [emails EXCEPT ![e] =
                  [@ EXCEPT !.status = "DELETED", !.deletedAt = jobs[j].now,
                            !.restoreStatus =
                               getRestoreStatusForTrash(jobs[j].read[e])]]
             /\ trashings' = [trashings EXCEPT ![e] = @ \union {jobs[j].now}]
    BY <1>a, <1>3 DEF ExpireEmail, Untouched, JobState
  <2>2. getRestoreStatusForTrash(jobs[j].read[e]) # NoRestore
    BY NoRestoreAssumption DEF getRestoreStatusForTrash
  <2> DEFINE new == [emails[e] EXCEPT !.status = "DELETED",
                       !.deletedAt = jobs[j].now,
                       !.restoreStatus = getRestoreStatusForTrash(jobs[j].read[e])]
  <2>3. /\ new.life = emails[e].life /\ new.deletedAt = jobs[j].now
        /\ new.restoreStatus # NoRestore
    BY <1>a, <2>2 DEF Row
  <2>4. UNCHANGED requests
    BY <1>3 DEF ExpireEmail
  <2>5. CASE UNCHANGED <<emails, trashings>>
    BY <1>b, <2>4, <2>5
    DEF TrashInv, TrashComplete, DatesAreReal, ReadDatesAreReal, UnbornIsUnread,
        InTrash, There
  <2>6. CASE /\ There(e)
             /\ emails' = [emails EXCEPT ![e].status = "ARCHIVED"]
             /\ UNCHANGED trashings
    BY <1>a, <1>b, <2>4, <2>6
    DEF TrashInv, TrashComplete, DatesAreReal, ReadDatesAreReal, UnbornIsUnread,
        InTrash, There, Row
  <2>7. CASE /\ There(e)
             /\ emails' = [emails EXCEPT ![e] = new]
             /\ trashings' = [trashings EXCEPT ![e] = @ \union {jobs[j].now}]
    <3> HIDE DEF new
    <3>1. /\ \A x \in Email : trashings[x] \subseteq trashings'[x]
          /\ jobs[j].now \in trashings'[e]
      BY <1>a, <2>7
    <3>2. \A x \in Request : requests[x].todo \subseteq Email
      BY <1>a DEF RequestState
    <3>3. ReadDatesAreReal'
      BY <1>b, <2>4, <3>1, <3>2 DEF ReadDatesAreReal
    <3>4. TrashComplete' /\ DatesAreReal' /\ UnbornIsUnread'
      BY <1>a, <1>b, <2>3, <2>7, <3>1
      DEF TrashComplete, DatesAreReal, UnbornIsUnread, InTrash, There
    <3>5. QED
      BY <3>1, <3>3, <3>4 DEF TrashInv
  <2>8. QED
    BY <2>1, <2>5, <2>6, <2>7
<1>4. CASE UNCHANGED trashVars
  BY <1>b, <1>4
  DEF trashVars, TrashInv, TrashComplete, DatesAreReal, ReadDatesAreReal,
      UnbornIsUnread, InTrash, There
<1>5. QED
  BY <1>1, <1>2, <1>3, <1>4
  DEF JobStep, FindBoxes, ArchiveBox, TakeBox, ReadMail, SeeEmptyBox, FailBox,
      EndBoxes, FindEmails, EndEmails, FindTrash, SkipEmail, EndJob, FailJob
-----------------------------------------------------------------------------
(* The whole invariant. *)

\* Only the job that holds the flag moves, and it gives the flag back when it ends.
LEMMA JobKeepsOneJob ==
  ASSUME TypeOK, OneJob, NEW j \in Job, JobStep(j)
  PROVE  OneJob'
<1>a. jobs \in [Job -> JobState] /\ jobs' = [jobs EXCEPT ![j] = jobs'[j]]
      /\ jobs[j].stage # "idle"
  BY JobStepTyped DEF TypeOK
<1>b. /\ retentionJobRunning
      /\ \A k \in Job : jobs[k].stage # "idle" => k = j
  BY <1>a DEF OneJob
<1>c. \A k \in Job : k # j => jobs'[k].stage = "idle"
  BY <1>a, <1>b
<1>1. CASE EndJob(j) \/ FailJob(j)
  <2>1. jobs'[j].stage = "idle"
    BY <1>a, <1>1 DEF EndJob, FailJob, NoJob
  <2>2. QED
    BY <1>c, <2>1 DEF OneJob
<1>2. CASE UNCHANGED retentionJobRunning
  BY <1>b, <1>c, <1>2 DEF OneJob
<1>3. QED
  BY <1>1, <1>2
  DEF JobStep, FindBoxes, ArchiveBox, TakeBox, ReadMail, PurgeMail, SeeEmptyBox,
      DeleteBox, FailBox, EndBoxes, FindEmails, ExpireEmail, EndEmails, FindTrash,
      PurgeTrashed, SkipEmail

\* Jobs that do not move keep what they rely on, because no day is forgotten.
LEMMA OthersKeep ==
  ASSUME TypeOK, NEW k \in Job, PickedOld(jobs[k]), ReadLive(jobs[k]),
         jobs'[k] = jobs[k],
         \A e \in Email : trashings[e] \subseteq trashings'[e]
  PROVE  ReadLive(jobs'[k]) /\ PickedOld(jobs[k])'
<1>1. jobs[k].todo \subseteq Email
  BY DEF TypeOK, JobState
<1>2. QED
  BY <1>1 DEF ReadLive, PickedOld

LEMMA InitIInv == Init => IInv
<1> SUFFICES ASSUME Init PROVE IInv
  OBVIOUS
<1>1. TypeInv
  BY InitTyped
<1>2. TrashInv
  BY DEF Init, TrashInit, NoRow, Idle, TrashInv, TrashComplete, DatesAreReal,
         ReadDatesAreReal, UnbornIsUnread, InTrash, There
<1>3. OneJob /\ JobInv
  BY DEF Init, NoJob, OneJob, JobInv, ReadLive, PickedOld
<1>4. QED
  BY <1>1, <1>2, <1>3 DEF IInv

LEMMA NextIInv == IInv /\ [Next]_vars => IInv'
<1> SUFFICES ASSUME IInv, [Next]_vars PROVE IInv'
  OBVIOUS
<1>a. TypeInv /\ TrashInv /\ OneJob /\ JobInv /\ TypeOK
  BY DEF IInv, TypeInv
<1>b. TypeInv'
  BY <1>a, NextTyped
<1>0. ASSUME UNCHANGED <<jobs, retentionJobRunning>>,
             \A e \in Email : trashings[e] \subseteq trashings'[e]
      PROVE  OneJob' /\ JobInv'
  <2>1. OneJob'
    BY <1>a, <1>0 DEF OneJob
  <2>2. JobInv'
    BY <1>a, <1>0, OthersKeep DEF JobInv
  <2>3. QED
    BY <2>1, <2>2
<1>1. CASE Deliver
  <2>1. PICK e \in Email : Arrive(e)
    BY <1>1 DEF Deliver
  <2>2. emails \in [Email -> Row]
    BY <1>a DEF TypeOK, TrashTypeOK
  <2>3. TrashInv'
    BY <1>a, <2>1, <2>2
    DEF Arrive, TrashInv, TrashComplete, DatesAreReal, ReadDatesAreReal,
        UnbornIsUnread, InTrash, There, Row
  <2>4. QED
    BY <1>0, <1>1, <1>b, <2>1, <2>3 DEF Deliver, Arrive, IInv
<1>2. CASE HandleRequest
  <2>1. PICK r \in Request : ReadEmails(r) \/ WriteEmail(r) \/ AbortRequest(r)
    BY <1>2 DEF HandleRequest
  <2>2. TrashInv'
    BY <1>a, <2>1, RequestKeepsTrash
  <2>3. trashings \in [Email -> SUBSET Day]
    BY <1>a DEF TypeOK, TrashTypeOK
  <2>4. \A e \in Email : trashings[e] \subseteq trashings'[e]
    BY <2>1, <2>3 DEF ReadEmails, WriteEmail, AbortRequest
  <2>5. QED
    BY <1>0, <1>2, <1>b, <2>2, <2>4 DEF HandleRequest, boxVars, IInv
<1>3. CASE UpdateMailbox \/ PassDay
  <2>1. TrashInv'
    BY <1>a, <1>3
    DEF UpdateMailbox, PassDay, Tick, trashVars, TrashInv, TrashComplete,
        DatesAreReal, ReadDatesAreReal, UnbornIsUnread, InTrash, There
  <2>2. QED
    BY <1>0, <1>3, <1>b, <2>1
    DEF UpdateMailbox, PassDay, Tick, trashVars, boxVars, IInv
<1>4. CASE Restart
  BY <1>a, <1>b, <1>4
  DEF Restart, NoJob, Idle, IInv, TrashInv, TrashComplete, DatesAreReal,
      ReadDatesAreReal, UnbornIsUnread, InTrash, There, OneJob, JobInv, ReadLive,
      PickedOld
<1>5. ASSUME NEW j \in Job, StartJob(j) PROVE IInv'
  <2>1. jobs \in [Job -> JobState]
    BY <1>a DEF TypeOK
  <2>2. jobs'[j].stage = "findBoxes" /\ \A k \in Job : k # j => jobs'[k] = jobs[k]
    BY <1>5, <2>1 DEF StartJob, NoJob
  <2>3. retentionJobRunning' /\ \A k \in Job : jobs[k].stage = "idle"
    BY <1>a, <1>5 DEF StartJob, OneJob
  <2>4. OneJob' /\ JobInv'
    BY <2>2, <2>3 DEF OneJob, JobInv, ReadLive, PickedOld
  <2>5. TrashInv'
    BY <1>a, <1>5
    DEF StartJob, trashVars, TrashInv, TrashComplete, DatesAreReal,
        ReadDatesAreReal, UnbornIsUnread, InTrash, There
  <2>6. QED
    BY <1>b, <2>4, <2>5 DEF IInv
<1>6. ASSUME NEW j \in Job, JobStep(j) PROVE IInv'
  <2>1. OneJob'
    BY <1>a, <1>6, JobKeepsOneJob
  <2>2. TrashInv' /\ \A e \in Email : trashings[e] \subseteq trashings'[e]
    BY <1>a, <1>6, JobKeepsTrash
  <2>3. /\ jobs \in [Job -> JobState]
        /\ jobs' = [jobs EXCEPT ![j] = jobs'[j]]
    BY <1>a, <1>6, JobStepTyped DEF TypeOK
  <2>4. ReadLive(jobs'[j]) /\ PickedOld(jobs[j])'
    BY <1>6, JobStepKeeps
  <2>5. \A k \in Job : k # j => ReadLive(jobs'[k]) /\ PickedOld(jobs[k])'
    BY <1>a, <2>2, <2>3, OthersKeep DEF JobInv
  <2>6. JobInv'
    BY <2>4, <2>5 DEF JobInv
  <2>7. QED
    BY <1>b, <2>1, <2>2, <2>6 DEF IInv
<1>7. CASE UNCHANGED vars
  <2>1. TrashInv'
    BY <1>a, <1>7
    DEF vars, TrashInv, TrashComplete, DatesAreReal, ReadDatesAreReal,
        UnbornIsUnread, InTrash, There
  <2>2. QED
    BY <1>0, <1>7, <1>b, <2>1 DEF vars, IInv
<1>8. QED
  BY <1>1, <1>2, <1>3, <1>4, <1>5, <1>6, <1>7 DEF Next

\* The invariant holds in every reachable state, for any number of emails,
\* mailboxes, handlers and calls of the job, and for any policies.
THEOREM InductiveInvariant == Spec => []IInv
BY InitIInv, NextIInv, PTL DEF Spec
-----------------------------------------------------------------------------
(* The properties. *)

\* Whichever handlers and jobs race over an email, if it is in the trash it can be
\* purged and restored (email-trash.ts:31-85, retention.ts:262-284).
THEOREM TrashAlwaysComplete == Spec => []TrashComplete
<1>1. IInv => TrashComplete
  BY DEF IInv, TrashInv
<1>2. QED
  BY InductiveInvariant, <1>1, PTL

\* No race gives an email a date on which nobody trashed it.
THEOREM DatesAlwaysReal == Spec => []DatesAreReal
<1>1. IInv => DatesAreReal
  BY DEF IInv, TrashInv
<1>2. QED
  BY InductiveInvariant, <1>1, PTL

\* One job runs at a time, however many calls there are (jobs/retention/route.ts:13,
\* 61-78).
THEOREM OneJobAtATime == Spec => []OneJob
<1>1. IInv => OneJob
  BY DEF IInv
<1>2. QED
  BY InductiveInvariant, <1>1, PTL

\* What the trash stage purges was put in the trash long enough ago
\* (retention.ts:311-351).
THEOREM PurgesOnlyWhatIsOld == Spec => PurgedWhenOld
<1>1. ASSUME IInv, NEW j \in Job, NEW e \in Email,
             PurgeTrashed(j), There(e), ~There(e)'
      PROVE  \E day \in trashings[e] : day + TrashDays < jobs[j].now
  <2>1. e \in jobs[j].todo /\ jobs[j].stage = "trash"
    BY <1>1 DEF PurgeTrashed, Purge, There, IInv, TypeInv, TypeOK, TrashTypeOK
  <2>2. QED
    BY <1>1, <2>1 DEF IInv, JobInv, PickedOld
<1>2. IInv /\ [Next]_vars =>
        [\A j \in Job, e \in Email :
           PurgeTrashed(j) /\ There(e) /\ ~There(e)' =>
              \E day \in trashings[e] : day + TrashDays < jobs[j].now]_vars
  BY <1>1
<1>3. QED
  BY <1>2, InductiveInvariant, PTL DEF PurgedWhenOld, Spec

\* The email stage overrules no user: it acts on live emails only, and what it
\* trashes can be restored to the status it had (retention.ts:229-284).
THEOREM NeverOverrulesUsers == Spec => UserChangeKept
<1>1. ASSUME IInv, NEW j \in Job, NEW e \in Email,
             ExpireEmail(j), emails'[e] # emails[e]
      PROVE  /\ emails[e].status \in {"UNREAD", "READ"}
             /\ emails'[e].status = "DELETED" =>
                   emails'[e].restoreStatus = emails[e].status
  <2>a. emails \in [Email -> Row] /\ emails[e] \in Row
    BY <1>1 DEF IInv, TypeInv, TypeOK, TrashTypeOK
  <2>b. jobs[j].stage = "emails" /\ jobs[j].todo \subseteq Email
    BY <1>1 DEF ExpireEmail, IInv, TypeInv, TypeOK, JobState
  <2>1. \/ /\ emails' = [emails EXCEPT ![e].status = "ARCHIVED"]
           /\ emails[e].status \in {"UNREAD", "READ"}
        \/ /\ emails' = [emails EXCEPT ![e] =
                [@ EXCEPT !.status = "DELETED", !.deletedAt = jobs[j].now,
                          !.restoreStatus =
                             getRestoreStatusForTrash(jobs[j].read[e])]]
           /\ emails[e].status = jobs[j].read[e] /\ e \in jobs[j].todo
    BY <1>1, <2>a, <2>b DEF ExpireEmail, Untouched
  <2>2. e \in jobs[j].todo => jobs[j].read[e] \in {"UNREAD", "READ"}
    BY <1>1, <2>b DEF IInv, JobInv, ReadLive
  <2>3. CASE emails' = [emails EXCEPT ![e].status = "ARCHIVED"]
    <3>1. emails'[e].status = "ARCHIVED"
      BY <2>3, <2>a DEF Row
    <3>2. QED
      BY <2>1, <2>2, <3>1
  <2>4. CASE /\ emails' = [emails EXCEPT ![e] =
                  [@ EXCEPT !.status = "DELETED", !.deletedAt = jobs[j].now,
                            !.restoreStatus =
                               getRestoreStatusForTrash(jobs[j].read[e])]]
             /\ emails[e].status = jobs[j].read[e] /\ e \in jobs[j].todo
    <3>1. emails'[e].restoreStatus = getRestoreStatusForTrash(jobs[j].read[e])
      BY <2>4, <2>a DEF Row
    <3>2. QED
      BY <2>2, <2>4, <3>1 DEF getRestoreStatusForTrash
  <2>5. QED
    BY <2>1, <2>3, <2>4
<1>2. IInv /\ [Next]_vars =>
        [\A j \in Job, e \in Email :
           ExpireEmail(j) /\ emails'[e] # emails[e] =>
              /\ emails[e].status \in {"UNREAD", "READ"}
              /\ emails'[e].status = "DELETED" =>
                    emails'[e].restoreStatus = emails[e].status]_vars
  BY <1>1
<1>3. QED
  BY <1>2, InductiveInvariant, PTL DEF UserChangeKept, Spec
=============================================================================
