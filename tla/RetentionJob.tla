---------------------------- MODULE RetentionJob ----------------------------
(***************************************************************************)
(* The retention job of services/jobs/retention.ts, started by POST        *)
(* /api/jobs/retention: it archives or deletes inactive mailboxes, archives*)
(* or trashes old emails and purges the trash, reading its candidates      *)
(* first and acting on them one by one while requests keep changing the    *)
(* same rows.  The options dryRun, userId and limit only make it do less   *)
(* and are left out; policies are constants, one for each owner.           *)
(***************************************************************************)
EXTENDS EmailTrash

CONSTANTS
    Box,           \* mailboxes
    NoBox,
    boxOf,         \* the mailbox of each email
    Job,           \* requests to run the job
    boxPolicy,     \* of each mailbox: its expireMailbox...Override, or its owner's policy
    emailPolicy,   \* of the emails in it: its expireEmail...Override, or its owner's
    TrashDays      \* trashRetentionDays; 0 is never

\* 0 stands for -1, never, and for an invalid number of days.
Policy == [days : Nat, action : {"ARCHIVE", "DELETE"}]

ASSUME BoxOfAssumption == boxOf \in [Email -> Box]
ASSUME PolicyAssumption == /\ boxPolicy \in [Box -> Policy]
                           /\ emailPolicy \in [Box -> Policy]
                           /\ TrashDays \in Nat

VARIABLES
    mailboxes,     \* [there, active, archived, lastEmailReceivedAt]
    retentionJobRunning,
    jobs           \* the state of each call of the job

boxVars == <<mailboxes, retentionJobRunning, jobs>>
vars == <<emails, requests, today, trashings, mailboxes, retentionJobRunning, jobs>>

Mailbox == [there : BOOLEAN, active : BOOLEAN, archived : BOOLEAN,
            lastEmailReceivedAt : Day]

\* The stages of a job, in order; "drain" and "empty" are deleteMailboxPermanently.
Stage == {"idle", "findBoxes", "boxes", "drain", "empty", "findEmails", "emails",
          "findTrash", "trash"}

JobState == [stage : Stage, now : Day,
             boxes : SUBSET Box,          \* expired mailboxes still to handle
             box : Box \union {NoBox},    \* the one being deleted
             todo : SUBSET Email,         \* emails still to handle
             read : [Email -> Status]]    \* their status when they were read

NoJob == [stage |-> "idle", now |-> 0, boxes |-> {}, box |-> NoBox, todo |-> {},
          read |-> [e \in Email |-> "READ"]]

TypeOK ==
    /\ TrashTypeOK
    /\ mailboxes \in [Box -> Mailbox]
    /\ retentionJobRunning \in BOOLEAN
    /\ jobs \in [Job -> JobState]

\* Some mailboxes may have been deleted before.
Init ==
    /\ TrashInit
    /\ mailboxes \in [Box -> [there : BOOLEAN, active : {TRUE}, archived : {FALSE},
                             lastEmailReceivedAt : {0}]]
    /\ retentionJobRunning = FALSE
    /\ jobs = [j \in Job |-> NoJob]

\* isValidPolicyDays and isExpired.
Expired(base, days, now) == days > 0 /\ base + days <= now

-----------------------------------------------------------------------------
(* The world around the job. *)

\* An email arrives in an active mailbox.
Deliver ==
    /\ \E e \in Email :
         /\ mailboxes[boxOf[e]].there /\ mailboxes[boxOf[e]].active
         /\ Arrive(e)
         /\ mailboxes' = [mailboxes EXCEPT ![boxOf[e]].lastEmailReceivedAt = today]
    /\ UNCHANGED <<retentionJobRunning, jobs>>

HandleRequest ==
    /\ \E r \in Request : ReadEmails(r) \/ WriteEmail(r) \/ AbortRequest(r)
    /\ UNCHANGED boxVars

\* PATCH of a mailbox.
UpdateMailbox ==
    /\ \E b \in Box, active, archived \in BOOLEAN :
         /\ mailboxes[b].there
         /\ mailboxes' = [mailboxes EXCEPT ![b].active = active,
                                           ![b].archived = archived]
    /\ UNCHANGED <<trashVars, retentionJobRunning, jobs>>

PassDay == Tick /\ UNCHANGED boxVars

-----------------------------------------------------------------------------
(* The job. *)

Goto(j, stage) == jobs' = [jobs EXCEPT ![j].stage = stage]

WrongStartJob(j) ==                \* the flag is not looked at
    /\ jobs[j].stage = "idle"
    /\ retentionJobRunning' = TRUE
    /\ jobs' = [jobs EXCEPT ![j] = [NoJob EXCEPT !.stage = "findBoxes", !.now = today]]
    /\ UNCHANGED <<trashVars, mailboxes>>

\* A call while a job runs is answered 409.
StartJob(j) ==
    /\ jobs[j].stage = "idle" /\ ~retentionJobRunning
    /\ retentionJobRunning' = TRUE
    /\ jobs' = [jobs EXCEPT ![j] = [NoJob EXCEPT !.stage = "findBoxes", !.now = today]]
    /\ UNCHANGED <<trashVars, mailboxes>>

FindBoxes(j) ==
    /\ jobs[j].stage = "findBoxes"
    /\ jobs' = [jobs EXCEPT ![j].stage = "boxes", ![j].boxes =
         {b \in Box : /\ mailboxes[b].there /\ mailboxes[b].active
                      /\ ~mailboxes[b].archived
                      /\ Expired(mailboxes[b].lastEmailReceivedAt,
                                 boxPolicy[b].days, jobs[j].now)}]
    /\ UNCHANGED <<trashVars, mailboxes, retentionJobRunning>>

\* The updateMany repeats the condition under which the mailbox was read.
ArchiveBox(j) ==
    /\ jobs[j].stage = "boxes"
    /\ \E b \in jobs[j].boxes :
         /\ boxPolicy[b].action = "ARCHIVE"
         /\ jobs' = [jobs EXCEPT ![j].boxes = @ \ {b}]
         /\ mailboxes' = [mailboxes EXCEPT ![b].archived =
                            @ \/ (mailboxes[b].there /\ mailboxes[b].active)]
    /\ UNCHANGED <<trashVars, retentionJobRunning>>

Mail(b) == {e \in Email : There(e) /\ boxOf[e] = b}

\* deleteMailboxPermanently, which reads nothing of the mailbox again.
TakeBox(j) ==
    /\ jobs[j].stage = "boxes"
    /\ \E b \in jobs[j].boxes :
         /\ boxPolicy[b].action = "DELETE"
         /\ jobs' = [jobs EXCEPT ![j].stage = "drain", ![j].box = b,
                                 ![j].boxes = @ \ {b}, ![j].todo = {}]
    /\ UNCHANGED <<trashVars, mailboxes, retentionJobRunning>>

\* Its emails are read again until there is none.
ReadMail(j) ==
    LET mail == Mail(jobs[j].box) IN
    /\ jobs[j].stage = "drain" /\ jobs[j].todo = {} /\ mail # {}
    /\ jobs' = [jobs EXCEPT ![j].todo = mail]
    /\ UNCHANGED <<trashVars, mailboxes, retentionJobRunning>>

\* purgeEmailById: passes over an email that is gone.
Purge(e) ==
    /\ emails' = IF There(e) THEN [emails EXCEPT ![e].life = "gone"] ELSE emails
    /\ UNCHANGED <<requests, today, trashings>>

PurgeMail(j) ==
    /\ jobs[j].stage = "drain"
    /\ \E e \in jobs[j].todo :
         /\ Purge(e)
         /\ jobs' = [jobs EXCEPT ![j].todo = @ \ {e}]
    /\ UNCHANGED <<mailboxes, retentionJobRunning>>

\* The read that finds no email, then mailbox.delete: an email inserted between
\* the two goes with the mailbox (Cascade).
SeeEmptyBox(j) ==
    /\ jobs[j].stage = "drain" /\ jobs[j].todo = {} /\ Mail(jobs[j].box) = {}
    /\ Goto(j, "empty")
    /\ UNCHANGED <<trashVars, mailboxes, retentionJobRunning>>

RemoveBox(b) ==
    /\ mailboxes' = [mailboxes EXCEPT ![b].there = FALSE]
    /\ emails' = [e \in Email |-> IF e \in Mail(b)
                                  THEN [emails[e] EXCEPT !.life = "gone"]
                                  ELSE emails[e]]
    /\ UNCHANGED <<requests, today, trashings>>

DeleteBox(j) ==
    /\ jobs[j].stage = "empty"
    /\ mailboxes[jobs[j].box].there
    /\ RemoveBox(jobs[j].box)
    /\ jobs' = [jobs EXCEPT ![j].stage = "boxes", ![j].box = NoBox]
    /\ UNCHANGED retentionJobRunning

\* What throws inside a mailbox (an email purged twice, a mailbox that is gone,
\* the database) is counted, and the next mailbox is taken.
FailBox(j) ==
    /\ jobs[j].stage \in {"drain", "empty"}
    /\ jobs' = [jobs EXCEPT ![j].stage = "boxes", ![j].box = NoBox, ![j].todo = {}]
    /\ UNCHANGED <<trashVars, mailboxes, retentionJobRunning>>

EndBoxes(j) ==
    /\ jobs[j].stage = "boxes" /\ jobs[j].boxes = {}
    /\ Goto(j, "findEmails")
    /\ UNCHANGED <<trashVars, mailboxes, retentionJobRunning>>

FindEmails(j) ==
    /\ jobs[j].stage = "findEmails"
    /\ jobs' = [jobs EXCEPT
         ![j].stage = "emails",
         ![j].read = [e \in Email |-> emails[e].status],
         ![j].todo = {e \in Email :
            /\ There(e) /\ emails[e].status \in {"UNREAD", "READ"}
            /\ Expired(emails[e].receivedAt, emailPolicy[boxOf[e]].days, jobs[j].now)}]
    /\ UNCHANGED <<trashVars, mailboxes, retentionJobRunning>>

WrongUntouched(j, e) == There(e)   \* the update names the id alone
\* The status under which updateMany still finds the email.
Untouched(j, e) ==
    /\ There(e)
    /\ IF emailPolicy[boxOf[e]].action = "ARCHIVE" THEN emails[e].status \in {"UNREAD", "READ"}
       ELSE emails[e].status = jobs[j].read[e]

ExpireEmail(j) ==
    /\ jobs[j].stage = "emails"
    /\ \E e \in jobs[j].todo :
         LET status == jobs[j].read[e] IN
         /\ jobs' = [jobs EXCEPT ![j].todo = @ \ {e}]
         /\ \/ /\ ~Untouched(j, e)
               /\ UNCHANGED <<emails, trashings>>
            \/ /\ Untouched(j, e) /\ emailPolicy[boxOf[e]].action = "ARCHIVE"
               /\ emails' = [emails EXCEPT ![e].status = "ARCHIVED"]
               /\ UNCHANGED trashings
            \/ /\ Untouched(j, e) /\ emailPolicy[boxOf[e]].action = "DELETE"
               /\ emails' = [emails EXCEPT ![e] =
                    [@ EXCEPT !.status = "DELETED", !.deletedAt = jobs[j].now,
                              !.restoreStatus = getRestoreStatusForTrash(status)]]
               /\ trashings' = [trashings EXCEPT ![e] = @ \union {jobs[j].now}]
    /\ UNCHANGED <<requests, today, mailboxes, retentionJobRunning>>

EndEmails(j) ==
    /\ jobs[j].stage = "emails" /\ jobs[j].todo = {}
    /\ Goto(j, "findTrash")
    /\ UNCHANGED <<trashVars, mailboxes, retentionJobRunning>>

WrongOldTrash(now) ==              \* the date is not looked at
    {e \in Email : InTrash(e)}
\* Emails whose days in the trash are over.
OldTrash(now) == {e \in Email : /\ InTrash(e) /\ emails[e].deletedAt # NoDate
                                /\ emails[e].deletedAt + TrashDays < now}

FindTrash(j) ==
    /\ jobs[j].stage = "findTrash"
    /\ jobs' = [jobs EXCEPT ![j].stage = "trash", ![j].todo =
                  IF TrashDays > 0 THEN OldTrash(jobs[j].now) ELSE {}]
    /\ UNCHANGED <<trashVars, mailboxes, retentionJobRunning>>

\* The email is purged even if it was restored since it was read.
PurgeTrashed(j) ==
    /\ jobs[j].stage = "trash"
    /\ \E e \in jobs[j].todo :
         /\ Purge(e)
         /\ jobs' = [jobs EXCEPT ![j].todo = @ \ {e}]
    /\ UNCHANGED <<mailboxes, retentionJobRunning>>

\* One email that cannot be updated or purged is counted and passed over.
SkipEmail(j) ==
    /\ jobs[j].stage \in {"emails", "trash"}
    /\ \E e \in jobs[j].todo : jobs' = [jobs EXCEPT ![j].todo = @ \ {e}]
    /\ UNCHANGED <<trashVars, mailboxes, retentionJobRunning>>

WrongReleased == retentionJobRunning   \* no finally: the flag stays up
\* The finally of the route.
Released == FALSE

EndJob(j) ==
    /\ jobs[j].stage = "trash" /\ jobs[j].todo = {}
    /\ jobs' = [jobs EXCEPT ![j] = NoJob]
    /\ retentionJobRunning' = FALSE
    /\ UNCHANGED <<trashVars, mailboxes>>

\* A failed read of candidates ends the job.
FailJob(j) ==
    /\ jobs[j].stage \in {"findBoxes", "findEmails", "findTrash"}
    /\ jobs' = [jobs EXCEPT ![j] = NoJob]
    /\ retentionJobRunning' = Released
    /\ UNCHANGED <<trashVars, mailboxes>>

\* The server is restarted: what was in memory is lost.
Restart ==
    /\ jobs' = [j \in Job |-> NoJob]
    /\ retentionJobRunning' = FALSE
    /\ requests' = [r \in Request |-> Idle]
    /\ UNCHANGED <<emails, today, trashings, mailboxes>>

-----------------------------------------------------------------------------
JobStep(j) ==
    \/ FindBoxes(j) \/ ArchiveBox(j) \/ TakeBox(j) \/ ReadMail(j) \/ PurgeMail(j)
    \/ SeeEmptyBox(j) \/ DeleteBox(j) \/ FailBox(j) \/ EndBoxes(j)
    \/ FindEmails(j) \/ ExpireEmail(j) \/ EndEmails(j)
    \/ FindTrash(j) \/ PurgeTrashed(j) \/ SkipEmail(j) \/ EndJob(j) \/ FailJob(j)

Next ==
    \/ Deliver \/ HandleRequest \/ UpdateMailbox \/ PassDay \/ Restart
    \/ \E j \in Job : StartJob(j) \/ JobStep(j)

\* A job that was started keeps running: its awaits settle and its loops end.
Spec == Init /\ [][Next]_vars /\ \A j \in Job : WF_vars(JobStep(j))

-----------------------------------------------------------------------------
(* Properties. *)

\* The flag in memory lets one job run at a time, and a job that runs holds it.
OneJob ==
    \A j \in Job : jobs[j].stage # "idle" =>
        /\ retentionJobRunning
        /\ \A k \in Job : jobs[k].stage # "idle" => k = j

\* Whatever fails in a job, the flag goes down again: no later call is refused
\* for ever (jobs/retention/route.ts:68-77).
JobEnds == retentionJobRunning ~> ~retentionJobRunning

\* An email whose trash days are over goes only if some request or job put it in
\* the trash that long ago, whatever happened to it in between.
PurgedWhenOld ==
    [][\A j \in Job, e \in Email :
         PurgeTrashed(j) /\ There(e) /\ ~There(e)' =>
            \E day \in trashings[e] : day + TrashDays < jobs[j].now]_vars

\* The email stage never undoes what a request did to an email after the job read
\* it: an email it trashes can be restored to the status it had.
UserChangeKept ==
    [][\A j \in Job, e \in Email :
         ExpireEmail(j) /\ emails'[e] # emails[e] =>
            /\ emails[e].status \in {"UNREAD", "READ"}
            /\ emails'[e].status = "DELETED" =>
                  emails'[e].restoreStatus = emails[e].status]_vars

\* "Automatically purge trash after a set number of days" (messages/en.json:2047):
\* an email is picked for purging only when that many days have passed since it
\* was last put in the trash.
KeptForTrashDays ==
    [][\A j \in Job : FindTrash(j) =>
         \A e \in jobs'[j].todo : \A day \in trashings[e] :
            day + TrashDays < jobs[j].now]_vars
=============================================================================
