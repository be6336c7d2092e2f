---------------------------- MODULE MailDelivery ----------------------------
(***************************************************************************)
(* How a message becomes rows and files: the incoming webhook, the IMAP    *)
(* service's processMessage, the inbox refresh that re-matches unclaimed   *)
(* inbound rows, the purge of an email and the life of a mailbox, all over *)
(* one database and one file store, with one step per await of the code.   *)
(*                                                                         *)
(* A "copy" is one message on its way to one recipient: it stands for the  *)
(* tempId under which its raw file is saved and for the recipient's        *)
(* address.  Attachments are left out: only one email row ever names an    *)
(* attachment's file.  One domain is modelled; a database transaction is   *)
(* one step, as it is under SQLite, the provider of schema.prisma.         *)
(***************************************************************************)
EXTENDS Naturals

CONSTANTS
    Delivery,      \* webhook requests and messages handed to processMessage
    Refresh,       \* runs of rematchUnmatchedInboundEmailsForUser
    Purger,        \* calls of purgeOwnedEmail / purgeEmailById
    User,
    Address,       \* addresses of the domain
    NoAddress,
    MailboxId,
    NoMailbox,     \* a null mailboxId
    MessageId,
    NoMessageId,   \* a message without a Message-ID
    InboundPolicy  \* "CATCH_ALL" or "KNOWN_ONLY"

ASSUME NullsAssumption ==
    /\ NoMailbox \notin MailboxId
    /\ NoAddress \notin Address
    /\ NoMessageId \notin MessageId

VARIABLES
    mailboxes,     \* rows of the table mailboxes
    usedMailboxes, \* ids ever given to a mailbox (cuid: never used again)
    inboundEmails, \* rows of inbound_emails
    emails,        \* rows of emails
    files,         \* copies whose raw file is in storage
    delivery,      \* what each delivery in flight has read so far
    refresh,       \* the same for each re-match run
    purge,         \* the same for each purge
    nextEmail,     \* the id the next email row will get
    everCreated,   \* history: every email row ever inserted
    announced,     \* history: emails whose event and workflows were triggered
    outcome        \* history: how the handling of each copy ended

vars == <<mailboxes, usedMailboxes, inboundEmails, emails, files, delivery,
          refresh, purge, nextEmail, everCreated, announced, outcome>>

Copy   == Delivery \X Address
Source == {"WEBHOOK", "IMAP"}
MsgId  == MessageId \union {NoMessageId}
BoxId  == MailboxId \union {NoMailbox}

Mailbox == [id : MailboxId, address : Address, userId : User,
            active : BOOLEAN,       \* status is ACTIVE
            archived : BOOLEAN,     \* archivedAt is set
            received : BOOLEAN]     \* lastEmailReceivedAt is set

InboundEmail == [copy : Copy, sourceType : Source, messageId : MsgId,
                 mailboxId : BoxId, raw : BOOLEAN]

\* raw: rawContentPath is set, and names the raw file of the copy.
Email == [id : Nat, copy : Copy, messageId : MsgId, mailboxId : MailboxId,
          raw : BOOLEAN]

DeliveryState ==
    [pc : {"idle", "lookup", "raw", "inbound", "check", "create", "announce",
           "done", "failed"},
     source : Source, messageId : MsgId,
     asked : SUBSET Address,         \* the recipients of the message
     todo : SUBSET Address,          \* those not handled yet
     to : Address \union {NoAddress},
     mailbox : BoxId, archived : BOOLEAN,   \* the mailbox as it was read
     raw : BOOLEAN,                  \* rawContentPath was set
     email : Nat]                    \* the id of the row just inserted

RefreshState ==
    [pc : {"idle", "scan", "claim", "announce", "done"},
     boxes : SUBSET Mailbox,         \* the user's mailboxes as they were read
     rows : SUBSET Copy,             \* unmatched rows still to handle
     email : Nat, archived : BOOLEAN]

PurgeState == [pc : {"idle", "file", "row", "done"}, id : Nat,
               copy : Copy \union {<<>>}, raw : BOOLEAN]

\* A recipient is being handled.
Working == {"raw", "inbound", "check", "create", "announce"}

Outcome == {"none", "rejected", "unmatched", "duplicate", "created", "failed"}

TypeOK ==
    /\ mailboxes \subseteq Mailbox
    /\ usedMailboxes \subseteq MailboxId
    /\ inboundEmails \subseteq InboundEmail
    /\ emails \subseteq Email
    /\ files \subseteq Copy
    /\ delivery \in [Delivery -> DeliveryState]
    /\ \A d \in Delivery :
         /\ delivery[d].pc \in Working => delivery[d].to \in Address
         /\ delivery[d].pc \in {"check", "create"} => delivery[d].mailbox \in MailboxId
    /\ refresh \in [Refresh -> RefreshState]
    /\ purge \in [Purger -> PurgeState]
    /\ nextEmail \in Nat
    /\ everCreated \subseteq Email
    /\ announced \subseteq Nat
    /\ outcome \in [Copy -> Outcome]

Init ==
    /\ mailboxes = {} /\ usedMailboxes = {}
    /\ inboundEmails = {} /\ emails = {} /\ files = {}
    /\ delivery = [d \in Delivery |->
         [pc |-> "idle", source |-> "WEBHOOK", messageId |-> NoMessageId,
          asked |-> {}, todo |-> {}, to |-> NoAddress, mailbox |-> NoMailbox,
          archived |-> FALSE, raw |-> FALSE, email |-> 0]]
    /\ refresh = [m \in Refresh |-> [pc |-> "idle", boxes |-> {}, rows |-> {},
                                     email |-> 0, archived |-> FALSE]]
    /\ purge = [p \in Purger |-> [pc |-> "idle", id |-> 0, copy |-> <<>>,
                                  raw |-> FALSE]]
    /\ nextEmail = 1 /\ everCreated = {} /\ announced = {}
    /\ outcome = [c \in Copy |-> "none"]

-----------------------------------------------------------------------------
(* The database. *)

Active(a) == {b \in mailboxes : b.address = a /\ b.active}
Exists(id) == \E b \in mailboxes : b.id = id

\* @@unique([sourceType, domainId, messageId, toAddress]); a null conflicts
\* with nothing.
InboundConflict(c, source, mid) ==
    /\ mid # NoMessageId
    /\ \E i \in inboundEmails : /\ i.sourceType = source
                                /\ i.messageId = mid
                                /\ i.copy[2] = c[2]

\* @@unique([mailboxId, messageId]), and the lookup of an existing email.
EmailConflict(box, mid) ==
    /\ mid # NoMessageId
    /\ \E e \in emails : e.mailboxId = box /\ e.messageId = mid

\* lastEmailReceivedAt is set by the transaction that inserts the email.
MarkReceived(box) ==
    {IF b.id = box THEN [b EXCEPT !.received = TRUE] ELSE b : b \in mailboxes}

\* The transaction that inserts an email; ids (cuids) are never reused.
InsertEmail(c, mid, box, raw) ==
    LET row == [id |-> nextEmail, copy |-> c, messageId |-> mid,
                mailboxId |-> box, raw |-> raw]
    IN /\ emails' = emails \union {row}
       /\ everCreated' = everCreated \union {row}
       /\ nextEmail' = nextEmail + 1
       /\ mailboxes' = MarkReceived(box)

emailVars == <<emails, everCreated, nextEmail, mailboxes>>

-----------------------------------------------------------------------------
(* One delivery: the webhook has one recipient, processMessage a set of    *)
(* them, handled one after the other.                                      *)

MyCopy(d) == <<d, delivery[d].to>>
NextRecipient(d) == IF delivery[d].todo = {} THEN "done" ELSE "lookup"

EndCopy(d, how, pc) ==
    /\ outcome' = [outcome EXCEPT ![MyCopy(d)] = how]
    /\ delivery' = [delivery EXCEPT ![d].pc = pc]

\* A request that passed the checks on secret, domain and rate, or a message
\* fetched over IMAP; a message without an id gets one made of its uid there.
Receive(d) ==
    /\ delivery[d].pc = "idle"
    /\ \E source \in Source, mid \in MsgId, to \in (SUBSET Address) \ {{}} :
         /\ source = "WEBHOOK" => \E a \in Address : to = {a}
         /\ source = "IMAP" => mid # NoMessageId
         /\ delivery' = [delivery EXCEPT ![d] =
              [@ EXCEPT !.pc = "lookup", !.source = source,
                        !.messageId = mid, !.asked = to, !.todo = to]]
    /\ UNCHANGED <<emailVars, usedMailboxes, inboundEmails, files, refresh,
                   purge, announced, outcome>>

\* Deliberate errors are named Wrong...: nothing uses them but mutation runs.
WrongPassOn(rest) == "done"        \* the loop is left

\* Where a KNOWN_ONLY domain has no such mailbox: the next recipient's turn.
PassOn(rest) == IF rest = {} THEN "done" ELSE "lookup"

\* The next recipient's mailbox is read; it may be gone when it is used.
LookupMailbox(d) ==
    /\ delivery[d].pc = "lookup"
    /\ \E a \in delivery[d].todo :
         LET rest  == delivery[d].todo \ {a}
             found == Active(a)
             start == [delivery[d] EXCEPT !.to = a, !.todo = rest,
                                          !.raw = FALSE]
         IN \/ \E b \in found :
                 /\ delivery' = [delivery EXCEPT ![d] =
                      [start EXCEPT !.pc = "raw", !.mailbox = b.id,
                                    !.archived = b.archived]]
                 /\ UNCHANGED outcome
            \/ /\ found = {} /\ InboundPolicy # "KNOWN_ONLY"
               /\ delivery' = [delivery EXCEPT ![d] =
                    [start EXCEPT !.pc = "raw", !.mailbox = NoMailbox]]
               /\ UNCHANGED outcome
            \/ /\ found = {} /\ InboundPolicy = "KNOWN_ONLY"
               /\ outcome' = [outcome EXCEPT ![<<d, a>>] = "rejected"]
               /\ delivery' = [delivery EXCEPT ![d] =
                    [start EXCEPT !.pc = PassOn(rest)]]
    /\ UNCHANGED <<emailVars, usedMailboxes, inboundEmails, files, refresh,
                   purge, announced>>

\* The raw message is saved unless the owner's preference or quota forbids
\* it; a write that fails is passed over.
SaveRaw(d) ==
    /\ delivery[d].pc = "raw"
    /\ \E saved \in BOOLEAN :
         /\ delivery' = [delivery EXCEPT ![d].pc = "inbound", ![d].raw = saved]
         /\ files' = IF saved THEN files \union {MyCopy(d)} ELSE files
    /\ UNCHANGED <<emailVars, usedMailboxes, inboundEmails, refresh, purge,
                   announced, outcome>>

WrongNewInbound(d) ==              \* recorded as unmatched in any case
    [copy |-> MyCopy(d), sourceType |-> delivery[d].source,
     raw |-> delivery[d].raw, messageId |-> delivery[d].messageId,
     mailboxId |-> NoMailbox]

NewInbound(d) == [copy |-> MyCopy(d), sourceType |-> delivery[d].source,
                  raw |-> delivery[d].raw, messageId |-> delivery[d].messageId,
                  mailboxId |-> delivery[d].mailbox]

DuplicateInbound(d) ==
    InboundConflict(MyCopy(d), delivery[d].source, delivery[d].messageId)

WrongUpsertInbound(d) ==           \* a duplicate updates the row's mailbox
    IF DuplicateInbound(d)
    THEN {IF i.messageId = delivery[d].messageId /\ i.copy[2] = delivery[d].to
          THEN [i EXCEPT !.mailboxId = delivery[d].mailbox] ELSE i :
             i \in inboundEmails}
    ELSE inboundEmails \union {NewInbound(d)}

\* inboundEmail.create; a duplicate (P2002) is passed over.
InboundAfter(d) == IF DuplicateInbound(d) THEN inboundEmails
                   ELSE inboundEmails \union {NewInbound(d)}

WrongHasMailbox(d) == TRUE         \* an unmatched message goes on
HasMailbox(d) == delivery[d].mailbox # NoMailbox

\* A mailbox that is gone fails the foreign key and the whole handler.
RecordInbound(d) ==
    LET box == delivery[d].mailbox IN
    /\ delivery[d].pc = "inbound"
    /\ DuplicateInbound(d) \/ box = NoMailbox \/ Exists(box)
    /\ inboundEmails' = InboundAfter(d)
    /\ \/ /\ ~HasMailbox(d)
          /\ EndCopy(d, "unmatched", NextRecipient(d))
       \/ /\ HasMailbox(d)
          /\ delivery' = [delivery EXCEPT ![d].pc = "check"]
          /\ UNCHANGED outcome
    /\ UNCHANGED <<emailVars, usedMailboxes, files, refresh, purge, announced>>

\* An email of the same message already in the mailbox ends this recipient.
CheckExisting(d) ==
    LET me == delivery[d] IN
    /\ me.pc = "check"
    /\ \/ /\ EmailConflict(me.mailbox, me.messageId)
          /\ EndCopy(d, "duplicate", NextRecipient(d))
       \/ /\ ~EmailConflict(me.mailbox, me.messageId)
          /\ delivery' = [delivery EXCEPT ![d].pc = "create"]
          /\ UNCHANGED outcome
    /\ UNCHANGED <<emailVars, usedMailboxes, inboundEmails, files, refresh,
                   purge, announced>>

\* The email is inserted while the mailbox is there and the pair is unique.
CreateEmail(d) ==
    LET me == delivery[d] IN
    /\ me.pc = "create"
    /\ Exists(me.mailbox) /\ ~EmailConflict(me.mailbox, me.messageId)
    /\ InsertEmail(MyCopy(d), me.messageId, me.mailbox, me.raw)
    /\ delivery' = [delivery EXCEPT ![d].pc = "announce", ![d].email = nextEmail]
    /\ outcome' = [outcome EXCEPT ![MyCopy(d)] = "created"]
    /\ UNCHANGED <<usedMailboxes, inboundEmails, files, refresh, purge, announced>>

\* Any failure of that transaction answered as a duplicate.
WrongCreateConflict(d) ==
    /\ delivery[d].pc = "create"
    /\ EndCopy(d, "duplicate", "done")
    /\ UNCHANGED <<emailVars, usedMailboxes, inboundEmails, files, refresh,
                   purge, announced>>

\* A unique violation of that transaction: the webhook answers "duplicate",
\* processMessage lets it abort the message.
CreateConflict(d) ==
    LET me == delivery[d] IN
    /\ me.pc = "create"
    /\ EmailConflict(me.mailbox, me.messageId)
    /\ \/ me.source = "WEBHOOK" /\ EndCopy(d, "duplicate", "done")
       \/ me.source # "WEBHOOK" /\ EndCopy(d, "failed", "failed")
    /\ UNCHANGED <<emailVars, usedMailboxes, inboundEmails, files, refresh,
                   purge, announced>>

\* Realtime event and workflows, by the archived flag read at the lookup.
Announce(d) ==
    LET me == delivery[d] IN
    /\ me.pc = "announce"
    /\ announced' = IF me.archived THEN announced ELSE announced \union {me.email}
    /\ delivery' = [delivery EXCEPT ![d].pc = NextRecipient(d)]
    /\ UNCHANGED <<emailVars, usedMailboxes, inboundEmails, files, refresh,
                   purge, outcome>>

\* Any await may throw (a foreign key, the database, the parser) and the
\* process may die: what was done stays done, the rest is not done.
AbortDelivery(d) ==
    LET me == delivery[d] IN
    /\ me.pc \notin {"idle", "done", "failed"}
    /\ delivery' = [delivery EXCEPT ![d].pc = "failed"]
    /\ outcome' = IF me.pc \in {"lookup", "announce"} THEN outcome
                  ELSE [outcome EXCEPT ![MyCopy(d)] = "failed"]
    /\ UNCHANGED <<emailVars, usedMailboxes, inboundEmails, files, refresh,
                   purge, announced>>

-----------------------------------------------------------------------------
(* rematchUnmatchedInboundEmailsForUser, run by the inbox refresh.         *)

ReadMailboxes(m) ==
    /\ refresh[m].pc = "idle"
    /\ \E u \in User :
         LET mine == {b \in mailboxes : b.userId = u /\ b.active}
         IN /\ mine # {}
            /\ refresh' = [refresh EXCEPT ![m].pc = "scan", ![m].boxes = mine]
    /\ UNCHANGED <<emailVars, usedMailboxes, inboundEmails, files, delivery,
                   purge, announced, outcome>>

ReadUnmatched(m) ==
    LET addresses == {b.address : b \in refresh[m].boxes}
        unmatched == {i \in inboundEmails : /\ i.mailboxId = NoMailbox
                                            /\ i.copy[2] \in addresses}
    IN /\ refresh[m].pc = "scan"
       /\ refresh' = [refresh EXCEPT ![m].pc = "claim",
                                     ![m].rows = {i.copy : i \in unmatched}]
       /\ UNCHANGED <<emailVars, usedMailboxes, inboundEmails, files, delivery,
                      purge, announced, outcome>>

StillUnmatched(i) == i.mailboxId = NoMailbox

\* One transaction per row: claim it if it is still unmatched, then insert the
\* email, which takes over the row's raw file.
ClaimRow(m) ==
    /\ refresh[m].pc = "claim"
    /\ \E i \in inboundEmails, b \in refresh[m].boxes :
         /\ i.copy \in refresh[m].rows /\ b.address = i.copy[2]
         /\ LET rest == refresh[m].rows \ {i.copy}
                claimed == (inboundEmails \ {i}) \union
                             {[i EXCEPT !.mailboxId = b.id]}
            IN \/ /\ ~StillUnmatched(i)
                  /\ refresh' = [refresh EXCEPT ![m].rows = rest]
                  /\ UNCHANGED <<emailVars, inboundEmails>>
               \/ /\ StillUnmatched(i) /\ Exists(b.id)
                  /\ EmailConflict(b.id, i.messageId)
                  /\ inboundEmails' = claimed
                  /\ refresh' = [refresh EXCEPT ![m].rows = rest]
                  /\ UNCHANGED emailVars
               \/ /\ StillUnmatched(i) /\ Exists(b.id)
                  /\ ~EmailConflict(b.id, i.messageId)
                  /\ inboundEmails' = claimed
                  /\ InsertEmail(i.copy, i.messageId, b.id, i.raw)
                  /\ refresh' = [refresh EXCEPT ![m].pc = "announce",
                                                ![m].rows = rest,
                                                ![m].email = nextEmail,
                                                ![m].archived = b.archived]
    /\ UNCHANGED <<usedMailboxes, files, delivery, purge, announced, outcome>>

AnnounceClaimed(m) ==
    LET me == refresh[m] IN
    /\ me.pc = "announce"
    /\ announced' = IF me.archived THEN announced ELSE announced \union {me.email}
    /\ refresh' = [refresh EXCEPT ![m].pc = "claim"]
    /\ UNCHANGED <<emailVars, usedMailboxes, inboundEmails, files, delivery,
                   purge, outcome>>

\* Every row is handled, or an await threw, or the process died.
EndRefresh(m) ==
    /\ refresh[m].pc \notin {"idle", "done"}
    /\ refresh' = [refresh EXCEPT ![m].pc = "done"]
    /\ UNCHANGED <<emailVars, usedMailboxes, inboundEmails, files, delivery,
                   purge, announced, outcome>>

-----------------------------------------------------------------------------
(* purgeEmailRecord: read the row, delete its files, delete the row.       *)

ReadForPurge(p) ==
    /\ purge[p].pc = "idle"
    /\ \E e \in emails :
         purge' = [purge EXCEPT ![p] = [pc |-> "file", id |-> e.id,
                                        copy |-> e.copy, raw |-> e.raw]]
    /\ UNCHANGED <<emailVars, usedMailboxes, inboundEmails, files, delivery,
                   refresh, announced, outcome>>

\* Deleting a file that is not there succeeds.
DeleteFile(p) ==
    /\ purge[p].pc = "file"
    /\ files' = IF purge[p].raw THEN files \ {purge[p].copy} ELSE files
    /\ purge' = [purge EXCEPT ![p].pc = "row"]
    /\ UNCHANGED <<emailVars, usedMailboxes, inboundEmails, delivery, refresh,
                   announced, outcome>>

\* email.delete; it throws, and nothing changes, if the row is gone already.
DeleteRow(p) ==
    /\ purge[p].pc = "row"
    /\ emails' = {e \in emails : e.id # purge[p].id}
    /\ purge' = [purge EXCEPT ![p].pc = "done"]
    /\ UNCHANGED <<everCreated, nextEmail, mailboxes, usedMailboxes,
                   inboundEmails, files, delivery, refresh, announced, outcome>>

AbortPurge(p) ==
    /\ purge[p].pc \in {"file", "row"}
    /\ purge' = [purge EXCEPT ![p].pc = "done"]
    /\ UNCHANGED <<emailVars, usedMailboxes, inboundEmails, files, delivery,
                   refresh, announced, outcome>>

-----------------------------------------------------------------------------
(* The life of a mailbox.                                                  *)

CreateMailbox ==
    /\ \E id \in MailboxId \ usedMailboxes, a \in Address, u \in User :
         /\ \A b \in mailboxes : b.address # a
         /\ mailboxes' = mailboxes \union
              {[id |-> id, address |-> a, userId |-> u, active |-> TRUE,
                archived |-> FALSE, received |-> FALSE]}
         /\ usedMailboxes' = usedMailboxes \union {id}
    /\ UNCHANGED <<emails, everCreated, nextEmail, inboundEmails, files,
                   delivery, refresh, purge, announced, outcome>>

\* PATCH of status or archived (INACTIVE and DELETED are read alike).
UpdateMailbox ==
    /\ \E b \in mailboxes, ac, ar \in BOOLEAN :
         /\ ac # b.active \/ ar # b.archived
         /\ mailboxes' = (mailboxes \ {b}) \union
                           {[b EXCEPT !.active = ac, !.archived = ar]}
    /\ UNCHANGED <<emails, everCreated, nextEmail, usedMailboxes, inboundEmails,
                   files, delivery, refresh, purge, announced, outcome>>

WrongDeleteFiles ==                \* the raw files of its emails go with it
    /\ \E b \in mailboxes :
         /\ mailboxes' = mailboxes \ {b}
         /\ emails' = {e \in emails : e.mailboxId # b.id}
         /\ files' = files \ {e.copy : e \in {e \in emails : e.mailboxId = b.id}}
         /\ inboundEmails' =
              {IF i.mailboxId = b.id THEN [i EXCEPT !.mailboxId = NoMailbox]
               ELSE i : i \in inboundEmails}
    /\ UNCHANGED <<everCreated, nextEmail, usedMailboxes, delivery,
                   refresh, purge, announced, outcome>>

WrongDeleteMailbox ==              \* no cascade: the emails stay
    /\ \E b \in mailboxes : mailboxes' = mailboxes \ {b}
    /\ UNCHANGED <<emails, inboundEmails, everCreated, nextEmail, usedMailboxes,
                   files, delivery, refresh, purge, announced, outcome>>

\* mailbox.delete: emails go with it (Cascade), inbound rows lose it (SetNull),
\* files stay where they are.
DeleteMailbox ==
    /\ \E b \in mailboxes :
         /\ mailboxes' = mailboxes \ {b}
         /\ emails' = {e \in emails : e.mailboxId # b.id}
         /\ inboundEmails' =
              {IF i.mailboxId = b.id THEN [i EXCEPT !.mailboxId = NoMailbox]
               ELSE i : i \in inboundEmails}
    /\ UNCHANGED <<everCreated, nextEmail, usedMailboxes, files, delivery,
                   refresh, purge, announced, outcome>>

-----------------------------------------------------------------------------
Next ==
    \/ \E d \in Delivery :
         \/ Receive(d) \/ LookupMailbox(d) \/ SaveRaw(d) \/ RecordInbound(d)
         \/ CheckExisting(d) \/ CreateEmail(d)
         \/ CreateConflict(d) \/ Announce(d) \/ AbortDelivery(d)
    \/ \E m \in Refresh :
         \/ ReadMailboxes(m) \/ ReadUnmatched(m) \/ ClaimRow(m)
         \/ AnnounceClaimed(m) \/ EndRefresh(m)
    \/ \E p \in Purger :
         \/ ReadForPurge(p) \/ DeleteFile(p) \/ DeleteRow(p)
         \/ AbortPurge(p)
    \/ CreateMailbox \/ UpdateMailbox \/ DeleteMailbox

Spec == Init /\ [][Next]_vars

-----------------------------------------------------------------------------
(* Properties. *)

\* A copy becomes at most one email.  Two rows made of one copy would share
\* its raw file, and purging one would take it from the other: the claim of an
\* inbound row, the cascade that frees it again and the delivery that recorded
\* it must never both insert (rematch.ts:47-103, schema.prisma:588,619).
OneEmailPerCopy ==
    \A e, f \in emails : e.copy = f.copy => e = f

\* The message of an inbound row or of a history row.
SameMessage(x, y) == IF x.messageId = NoMessageId THEN x.copy = y.copy
                     ELSE x.messageId = y.messageId

\* What a handler reported as handled is kept: "created" and "duplicate" mean
\* that an email of this message was inserted for this address, "unmatched" that
\* an inbound row holds it.  No error is mistaken for a duplicate
\* (route.ts:345-373,459-462).
AcknowledgedKept ==
    \A c \in Copy :
        LET mine == [copy |-> c, messageId |-> delivery[c[1]].messageId]
            Kept(rows) == \E r \in rows : r.copy[2] = c[2] /\ SameMessage(mine, r)
        IN /\ outcome[c] \in {"created", "duplicate"} => Kept(everCreated)
           /\ outcome[c] = "unmatched" => Kept(inboundEmails)

\* An inbound row that names a mailbox is out of the re-match's sight, so its
\* message must have reached that mailbox; only a delivery that is still under
\* way, or that failed after recording the row, leaves it without an email.
ClaimedIsDelivered ==
    \A i \in inboundEmails :
        i.mailboxId # NoMailbox =>
            \/ \E e \in everCreated : e.mailboxId = i.mailboxId /\ SameMessage(i, e)
            \/ outcome[i.copy] = "failed"
            \/ /\ delivery[i.copy[1]].to = i.copy[2]
               /\ delivery[i.copy[1]].pc \in {"check", "create"}

\* No recipient is forgotten: one whose handling has not come to an end is waiting
\* for a delivery under way, or the handling of the message failed before anything
\* of this recipient was saved, so that nothing holds half of it (sync.ts:283-482).
NobodyForgotten ==
    \A d \in Delivery : \A a \in delivery[d].asked :
        outcome[<<d, a>>] = "none" =>
            \/ delivery[d].pc \notin {"done", "failed"}
            \/ /\ delivery[d].pc = "failed"
               /\ \A r \in inboundEmails \union everCreated : r.copy # <<d, a>>
               /\ <<d, a>> \notin files

\* An email that names a raw file has it, although the rows that name it come and go
\* with mailboxes and re-matches.  Two ways of losing it are left: its own purge did
\* not get from the file to the row, or a purge took the file by an earlier row of
\* the same copy, whose mailbox is gone since (email-trash.ts:13-25).
RawFileKept ==
    \A e \in emails : e.raw /\ e.copy \notin files =>
        \E p \in Purger, q \in everCreated :
            /\ purge[p].pc \in {"row", "done"}
            /\ q.id = purge[p].id /\ q.copy = e.copy
            /\ q = e \/ ~Exists(q.mailboxId)

-----------------------------------------------------------------------------
(* The inductive invariant behind OneEmailPerCopy. *)

\* A mailbox id names one row and is never used again, so a delivery whose
\* mailbox is gone can never insert into it.
MailboxIdsOK ==
    /\ \A b \in mailboxes : b.id \in usedMailboxes
    /\ \A b, c \in mailboxes : b.id = c.id => b = c
    /\ \A d \in Delivery : delivery[d].mailbox \in usedMailboxes \union {NoMailbox}

DeliveryOK(d) ==
    /\ delivery[d].pc \in Working => delivery[d].to \notin delivery[d].todo
    /\ delivery[d].pc \in {"check", "create"} => delivery[d].mailbox # NoMailbox

\* Delivery c[1] has come past the recording of recipient c[2].
Recorded(c) ==
    /\ delivery[c[1]].pc # "idle"
    /\ c[2] \notin delivery[c[1]].todo
    /\ delivery[c[1]].pc \in {"raw", "inbound"} => c[2] # delivery[c[1]].to

\* While a delivery is about to insert into a mailbox that is still there, its
\* inbound row is claimed by that mailbox and no re-match made an email of it.
PendingOK(d) ==
    delivery[d].pc \in {"check", "create"} /\ Exists(delivery[d].mailbox) =>
        /\ \A i \in inboundEmails :
             i.copy = MyCopy(d) => i.mailboxId = delivery[d].mailbox
        /\ \A e \in emails : e.copy # MyCopy(d)

\* An email and the inbound row of its copy agree on the mailbox: in particular
\* an unmatched row has no email.
RowsAgree ==
    /\ \A i \in inboundEmails : Recorded(i.copy)
    /\ \A e \in emails : Recorded(e.copy)
    /\ \A i, j \in inboundEmails : i.copy = j.copy => i = j
    /\ \A e \in emails, i \in inboundEmails :
         e.copy = i.copy => e.mailboxId = i.mailboxId

IInv ==
    /\ MailboxIdsOK
    /\ \A d \in Delivery : DeliveryOK(d) /\ PendingOK(d)
    /\ RowsAgree
    /\ OneEmailPerCopy

-----------------------------------------------------------------------------
(* The inductive invariant behind the others.   *)

\* Ids of emails are never used again, and a purge knows the email it read.
EmailIds ==
    /\ emails \subseteq everCreated
    /\ \A e \in everCreated : e.id < nextEmail
    /\ \A e, f \in everCreated : e.id = f.id => e = f
    /\ \A p \in Purger :
         purge[p].pc \in {"file", "row"} =>
            \E e \in everCreated : e.id = purge[p].id /\ e.copy = purge[p].copy

\* What the unique index and the cascade say of the rows.
EmailRows ==
    /\ \A e, f \in emails :
         /\ e.mailboxId = f.mailboxId
         /\ e.messageId = f.messageId /\ e.messageId # NoMessageId
         => e = f
    /\ \A e \in emails : Exists(e.mailboxId)

\* Somebody, at some time, saw or used the mailbox under this address.
Seen(id, a) ==
    \/ \E b \in mailboxes : b.id = id /\ b.address = a
    \/ \E e \in everCreated : e.mailboxId = id /\ e.copy[2] = a
    \/ \E d \in Delivery : /\ delivery[d].pc \in Working
                           /\ delivery[d].mailbox = id /\ delivery[d].to = a
    \/ \E m \in Refresh : \E b \in refresh[m].boxes : b.id = id /\ b.address = a

OneAddress ==
    \A id \in MailboxId, a \in Address :
        Seen(id, a) => /\ id \in usedMailboxes
                       /\ \A a2 \in Address : Seen(id, a2) => a = a2

\* A failure ends its delivery, and the message of a delivery is settled.
Outcomes ==
    /\ \A c \in Copy : outcome[c] # "none" => delivery[c[1]].pc # "idle"
    /\ \A c \in Copy : outcome[c] = "failed" => delivery[c[1]].pc = "failed"
    /\ \A i \in inboundEmails : i.messageId = delivery[i.copy[1]].messageId

KeptInv ==
    /\ EmailIds /\ EmailRows /\ OneAddress /\ Outcomes
    /\ AcknowledgedKept /\ ClaimedIsDelivered

\* A recipient leaves todo only to be handled, and its handling ends by an outcome;
\* before it nothing is saved or recorded of this recipient.
Handled ==
    /\ \A d \in Delivery :
         LET me == delivery[d] IN
         /\ me.pc = "idle" => me.asked = {}
         /\ me.pc = "done" => me.todo = {}
         /\ me.source = "WEBHOOK" =>
              /\ \A a, b \in me.todo : a = b
              /\ me.pc \in Working => me.todo = {}
         /\ \A a \in me.asked \ me.todo :
              \/ outcome[<<d, a>>] # "none"
              \/ a = me.to /\ me.pc \in {"raw", "inbound", "check", "create"}
    /\ \A e \in everCreated : Recorded(e.copy)
    /\ \A c \in files : /\ delivery[c[1]].pc # "idle"
                        /\ c[2] \notin delivery[c[1]].todo

\* While the mailbox of an email is there, purged or not, no second email of the
\* same copy comes up.
OnceInMailbox ==
    /\ \A q \in everCreated :
         Exists(q.mailboxId) =>
            /\ \A i \in inboundEmails : i.copy = q.copy => i.mailboxId = q.mailboxId
            /\ \A e \in emails : e.copy = q.copy => e = q
    /\ \A d \in Delivery :
         delivery[d].pc \in {"check", "create"} /\ Exists(delivery[d].mailbox) =>
            \A q \in everCreated : q.copy # MyCopy(d)

\* The raw file of a copy is there, or a purge of an email of that copy took it.
Taken(c) == \E p \in Purger, q \in everCreated :
                /\ purge[p].pc \in {"row", "done"}
                /\ q.id = purge[p].id /\ q.copy = c

FileOrTaken ==
    /\ \A r \in inboundEmails \union everCreated :
         r.raw => r.copy \in files \/ Taken(r.copy)
    /\ \A d \in Delivery :
         delivery[d].raw /\ delivery[d].pc \in {"inbound", "check", "create"} =>
            MyCopy(d) \in files \/ Taken(MyCopy(d))

HistoryInv == Handled /\ OnceInMailbox /\ FileOrTaken

\* What every step keeps: the rows agree with the deliveries and the re-matches
\* that are under way, whatever was deleted, purged or created again meanwhile.
Inductive == IInv /\ KeptInv /\ HistoryInv
=============================================================================
