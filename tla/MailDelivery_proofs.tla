------------------------ MODULE MailDelivery_proofs ------------------------
(***************************************************************************)
(* Proofs about MailDelivery, for any number of deliveries, re-matches,    *)
(* purges, mailboxes, addresses and messages: its types, that one          *)
(* delivered copy never becomes two emails, that what was acknowledged or  *)
(* claimed is there, that no recipient is forgotten, and when an email may *)
(* lose its raw file.                                                      *)
(***************************************************************************)
EXTENDS MailDelivery, TLAPS

(* Lemmas about single records and operators, cited by the steps below. *)

\* Replacing what one delivery holds by a well-typed record is well-typed.
LEMMA DeliveryTyped ==
  ASSUME TypeOK, NEW d \in Delivery, NEW s \in DeliveryState,
         s.pc \in Working => s.to \in Address,
         s.pc \in {"check", "create"} => s.mailbox \in MailboxId,
         delivery' = [delivery EXCEPT ![d] = s]
  PROVE  /\ delivery' \in [Delivery -> DeliveryState]
         /\ \A x \in Delivery :
              /\ delivery'[x].pc \in Working => delivery'[x].to \in Address
              /\ delivery'[x].pc \in {"check", "create"} =>
                   delivery'[x].mailbox \in MailboxId
BY DEF TypeOK

\* Moving one delivery on to another step keeps the types.
LEMMA PcTyped ==
  ASSUME TypeOK, NEW d \in Delivery,
         NEW pc \in {"idle", "lookup", "raw", "inbound", "check", "create",
                     "announce", "done", "failed"},
         pc \in Working => delivery[d].to \in Address,
         pc \in {"check", "create"} => delivery[d].mailbox \in MailboxId,
         delivery' = [delivery EXCEPT ![d].pc = pc]
  PROVE  /\ delivery' \in [Delivery -> DeliveryState]
         /\ \A x \in Delivery :
              /\ delivery'[x].pc \in Working => delivery'[x].to \in Address
              /\ delivery'[x].pc \in {"check", "create"} =>
                   delivery'[x].mailbox \in MailboxId
<1> DEFINE s == [delivery[d] EXCEPT !.pc = pc]
<1>1. delivery[d] \in DeliveryState
  BY DEF TypeOK
<1>2. /\ s \in DeliveryState /\ s.pc = pc /\ s.to = delivery[d].to
      /\ s.mailbox = delivery[d].mailbox
  BY <1>1 DEF DeliveryState
<1>3. delivery' = [delivery EXCEPT ![d] = s]
  OBVIOUS
<1> HIDE DEF s
<1>4. QED
  BY <1>2, <1>3, DeliveryTyped

\* The copy a working delivery handles is a copy.
LEMMA MyCopyTyped ==
  ASSUME TypeOK, NEW d \in Delivery, delivery[d].pc \in Working
  PROVE  MyCopy(d) \in Copy
BY DEF TypeOK, MyCopy, Copy

\* Inserting an email keeps the types of the rows it touches.
LEMMA InsertTyped ==
  ASSUME TypeOK, NEW c \in Copy, NEW mid \in MsgId, NEW box \in MailboxId,
         NEW raw \in BOOLEAN, InsertEmail(c, mid, box, raw)
  PROVE  /\ emails' \subseteq Email /\ everCreated' \subseteq Email
         /\ nextEmail' \in Nat /\ mailboxes' \subseteq Mailbox
<1>1. [id |-> nextEmail, copy |-> c, messageId |-> mid, mailboxId |-> box,
       raw |-> raw] \in Email
  BY DEF TypeOK, Email
<1>2. \A b \in mailboxes : [b EXCEPT !.received = TRUE] \in Mailbox
  BY DEF TypeOK, Mailbox
<1>3. MarkReceived(box) \subseteq Mailbox
  BY <1>2 DEF TypeOK, MarkReceived
<1>4. QED
  BY <1>1, <1>3 DEF TypeOK, InsertEmail

\* A mailbox that exists has an id of the right type.
LEMMA ExistsTyped ==
  ASSUME TypeOK, NEW id, Exists(id) PROVE id \in MailboxId
BY DEF TypeOK, Exists, Mailbox

\* Only a working delivery changes the outcome of a copy, to an outcome.
LEMMA OutcomeTyped ==
  ASSUME TypeOK, NEW c \in Copy, NEW how \in Outcome,
         outcome' = [outcome EXCEPT ![c] = how]
  PROVE  outcome' \in [Copy -> Outcome]
BY DEF TypeOK
-----------------------------------------------------------------------------
(* Type correctness, one lemma per group of actions. *)

LEMMA DeliveryStepsTyped ==
  ASSUME TypeOK, NEW d \in Delivery,
         \/ Receive(d) \/ LookupMailbox(d) \/ SaveRaw(d) \/ RecordInbound(d)
         \/ CheckExisting(d) \/ CreateEmail(d) \/ CreateConflict(d)
         \/ Announce(d) \/ AbortDelivery(d)
  PROVE  TypeOK'
<1> DEFINE me == delivery[d]
<1>a. me \in DeliveryState
  BY DEF TypeOK
<1>1. CASE Receive(d)
  <2>1. PICK source \in Source, mid \in MsgId, to \in SUBSET Address :
          delivery' = [delivery EXCEPT ![d] =
             [me EXCEPT !.pc = "lookup", !.source = source,
                        !.messageId = mid, !.asked = to, !.todo = to]]
    BY <1>1 DEF Receive
  <2> DEFINE s == [me EXCEPT !.pc = "lookup", !.source = source,
                             !.messageId = mid, !.asked = to, !.todo = to]
  <2>2. s \in DeliveryState /\ s.pc = "lookup"
    BY <1>a DEF DeliveryState
  <2> HIDE DEF s
  <2>3. s.pc \notin Working \union {"check", "create"}
    BY <2>2 DEF Working
  <2> HIDE DEF me
  <2>4. QED
    BY <1>1, <2>1, <2>2, <2>3, DeliveryTyped DEF TypeOK, Receive, emailVars, s
<1>2. CASE LookupMailbox(d)
  <2>1. PICK a \in me.todo :
          LET rest  == me.todo \ {a}
              start == [me EXCEPT !.to = a, !.todo = rest, !.raw = FALSE]
          IN \/ \E b \in Active(a) :
                  /\ delivery' = [delivery EXCEPT ![d] =
                       [start EXCEPT !.pc = "raw", !.mailbox = b.id,
                                     !.archived = b.archived]]
                  /\ UNCHANGED outcome
             \/ /\ delivery' = [delivery EXCEPT ![d] =
                     [start EXCEPT !.pc = "raw", !.mailbox = NoMailbox]]
                /\ UNCHANGED outcome
             \/ /\ outcome' = [outcome EXCEPT ![<<d, a>>] = "rejected"]
                /\ delivery' = [delivery EXCEPT ![d] =
                     [start EXCEPT !.pc = PassOn(rest)]]
    BY <1>2 DEF LookupMailbox
  <2> DEFINE rest  == me.todo \ {a}
             start == [me EXCEPT !.to = a, !.todo = rest, !.raw = FALSE]
  <2>2. a \in Address /\ <<d, a>> \in Copy
    BY <1>a, <2>1 DEF DeliveryState, Copy
  <2>3. start \in DeliveryState /\ start.to = a
    BY <1>a, <2>2 DEF DeliveryState
  <2> HIDE DEF start
  <2>4. CASE \E b \in Active(a) :
               /\ delivery' = [delivery EXCEPT ![d] =
                    [start EXCEPT !.pc = "raw", !.mailbox = b.id,
                                  !.archived = b.archived]]
               /\ UNCHANGED outcome
    <3>1. PICK b \in Active(a) :
            delivery' = [delivery EXCEPT ![d] =
                 [start EXCEPT !.pc = "raw", !.mailbox = b.id,
                               !.archived = b.archived]]
      BY <2>4
    <3>2. b.id \in BoxId /\ b.archived \in BOOLEAN
      BY DEF TypeOK, Active, Mailbox, BoxId
    <3> DEFINE s == [start EXCEPT !.pc = "raw", !.mailbox = b.id,
                                  !.archived = b.archived]
    <3>3. s \in DeliveryState /\ s.to = a /\ s.pc = "raw"
      BY <2>3, <3>2 DEF DeliveryState
    <3> HIDE DEF s
    <3>4. QED
      BY <1>2, <2>2, <2>4, <3>1, <3>3, DeliveryTyped
         DEF TypeOK, LookupMailbox, emailVars, s
  <2>5. CASE /\ delivery' = [delivery EXCEPT ![d] =
                  [start EXCEPT !.pc = "raw", !.mailbox = NoMailbox]]
             /\ UNCHANGED outcome
    <3> DEFINE s == [start EXCEPT !.pc = "raw", !.mailbox = NoMailbox]
    <3>1. s \in DeliveryState /\ s.to = a /\ s.pc = "raw"
      BY <2>3 DEF DeliveryState, BoxId
    <3> HIDE DEF s
    <3>2. QED
      BY <1>2, <2>2, <2>5, <3>1, DeliveryTyped
         DEF TypeOK, LookupMailbox, emailVars, s
  <2>6. CASE /\ outcome' = [outcome EXCEPT ![<<d, a>>] = "rejected"]
             /\ delivery' = [delivery EXCEPT ![d] =
                  [start EXCEPT !.pc = PassOn(rest)]]
    <3> DEFINE s == [start EXCEPT !.pc = PassOn(rest)]
    <3>1. s \in DeliveryState /\ s.to = a /\ s.pc \in {"done", "lookup"}
      BY <2>3 DEF DeliveryState, PassOn
    <3>2. outcome' \in [Copy -> Outcome]
      BY <2>2, <2>6, OutcomeTyped DEF Outcome
    <3> HIDE DEF s
    <3>3. QED
      BY <1>2, <2>2, <2>6, <3>1, <3>2, DeliveryTyped
         DEF TypeOK, LookupMailbox, emailVars, s
  <2>7. QED
    BY <2>1, <2>4, <2>5, <2>6 DEF start
<1>3. CASE SaveRaw(d)
  <2>1. PICK saved \in BOOLEAN :
          /\ delivery' = [delivery EXCEPT ![d] =
                            [me EXCEPT !.pc = "inbound", !.raw = saved]]
          /\ files' = IF saved THEN files \union {MyCopy(d)} ELSE files
    BY <1>3 DEF SaveRaw
  <2>2. [me EXCEPT !.pc = "inbound", !.raw = saved] \in DeliveryState
    BY <1>a DEF DeliveryState
  <2>3. me.pc \in Working /\ MyCopy(d) \in Copy
    BY <1>3, MyCopyTyped DEF SaveRaw, Working
  <2>4. /\ [me EXCEPT !.pc = "inbound", !.raw = saved].to \in Address
        /\ [me EXCEPT !.pc = "inbound", !.raw = saved].pc = "inbound"
    BY <1>a, <2>3 DEF DeliveryState, TypeOK
  <2> HIDE DEF me
  <2>5. QED
    BY <1>3, <2>1, <2>2, <2>3, <2>4, DeliveryTyped DEF TypeOK, SaveRaw, emailVars
<1>4. CASE RecordInbound(d)
  <2>1. me.pc \in Working /\ me.to \in Address /\ MyCopy(d) \in Copy
    BY <1>4, MyCopyTyped DEF RecordInbound, Working, TypeOK
  <2>2. NewInbound(d) \in InboundEmail
    BY <1>a, <2>1 DEF NewInbound, InboundEmail, DeliveryState
  <2>3. inboundEmails' \subseteq InboundEmail
    BY <1>4, <2>2 DEF RecordInbound, InboundAfter, TypeOK
  <2>4. NextRecipient(d) \in {"lookup", "done"}
    BY DEF NextRecipient
  <2>5. PICK pc \in {"lookup", "done", "check"} :
          /\ delivery' = [delivery EXCEPT ![d].pc = pc]
          /\ pc = "check" => me.mailbox \in MailboxId
    BY <1>a, <1>4, <2>4 DEF RecordInbound, EndCopy, HasMailbox, DeliveryState, BoxId
  <2>6. outcome' \in [Copy -> Outcome]
    BY <1>4, <2>1, OutcomeTyped DEF RecordInbound, EndCopy, Outcome, TypeOK
  <2>7. QED
    BY <1>4, <2>1, <2>3, <2>5, <2>6, PcTyped DEF TypeOK, RecordInbound, emailVars
<1>5. CASE CheckExisting(d)
  <2>1. me.pc \in Working /\ me.to \in Address /\ MyCopy(d) \in Copy
    BY <1>5, MyCopyTyped DEF CheckExisting, Working, TypeOK
  <2>2. NextRecipient(d) \in {"lookup", "done"}
    BY DEF NextRecipient
  <2>3. PICK pc \in {"lookup", "done", "create"} :
          delivery' = [delivery EXCEPT ![d].pc = pc]
    BY <1>5, <2>2 DEF CheckExisting, EndCopy
  <2>4. outcome' \in [Copy -> Outcome]
    BY <1>5, <2>1, OutcomeTyped DEF CheckExisting, EndCopy, Outcome, TypeOK
  <2>5. QED
    BY <1>5, <2>1, <2>3, <2>4, PcTyped DEF TypeOK, CheckExisting, emailVars
<1>6. CASE CreateEmail(d)
  <2>1. me.pc \in Working /\ me.to \in Address /\ MyCopy(d) \in Copy
    BY <1>6, MyCopyTyped DEF CreateEmail, Working, TypeOK
  <2>2. /\ emails' \subseteq Email /\ everCreated' \subseteq Email
        /\ nextEmail' \in Nat /\ mailboxes' \subseteq Mailbox
    <3>1. me.mailbox \in MailboxId
      BY <1>6, ExistsTyped DEF CreateEmail
    <3>2. me.messageId \in MsgId /\ me.raw \in BOOLEAN
      BY <1>a DEF DeliveryState
    <3>3. InsertEmail(MyCopy(d), me.messageId, me.mailbox, me.raw)
      BY <1>6 DEF CreateEmail
    <3>4. QED
      BY <2>1, <3>1, <3>2, <3>3, InsertTyped
  <2> DEFINE s == [me EXCEPT !.pc = "announce", !.email = nextEmail]
  <2>3. s \in DeliveryState /\ s.to = me.to /\ s.pc = "announce"
    BY <1>a DEF DeliveryState, TypeOK
  <2>4. delivery' = [delivery EXCEPT ![d] = s]
    BY <1>6 DEF CreateEmail
  <2>5. outcome' \in [Copy -> Outcome]
    BY <1>6, <2>1, OutcomeTyped DEF CreateEmail, Outcome
  <2> HIDE DEF s
  <2>6. QED
    BY <1>6, <2>1, <2>2, <2>3, <2>4, <2>5, DeliveryTyped DEF TypeOK, CreateEmail
<1>7. CASE CreateConflict(d)
  <2>1. MyCopy(d) \in Copy
    BY <1>7, MyCopyTyped DEF CreateConflict, Working
  <2>2. outcome' \in [Copy -> Outcome]
    BY <1>7, <2>1, OutcomeTyped DEF CreateConflict, EndCopy, Outcome
  <2>3. PICK pc \in {"done", "failed"} : delivery' = [delivery EXCEPT ![d].pc = pc]
    BY <1>7 DEF CreateConflict, EndCopy
  <2>4. QED
    BY <1>7, <2>2, <2>3, PcTyped DEF TypeOK, CreateConflict, emailVars, Working
<1>8. CASE Announce(d)
  <2>1. NextRecipient(d) \in {"lookup", "done"}
    BY DEF NextRecipient
  <2>2. PICK pc \in {"lookup", "done"} :
          delivery' = [delivery EXCEPT ![d].pc = pc]
    BY <1>8, <2>1 DEF Announce
  <2>3. announced' \subseteq Nat
    BY <1>a, <1>8 DEF Announce, TypeOK, DeliveryState
  <2>4. QED
    BY <1>8, <2>2, <2>3, PcTyped DEF TypeOK, Announce, emailVars, Working
<1>9. CASE AbortDelivery(d)
  <2>1. delivery' = [delivery EXCEPT ![d].pc = "failed"]
    BY <1>9 DEF AbortDelivery
  <2>2. outcome' \in [Copy -> Outcome]
    <3>1. CASE me.pc \in {"lookup", "announce"}
      BY <1>9, <3>1 DEF AbortDelivery, TypeOK
    <3>2. CASE me.pc \notin {"lookup", "announce"}
      <4>1. me.pc \in Working
        BY <1>a, <1>9, <3>2 DEF AbortDelivery, DeliveryState, Working
      <4>2. QED
        BY <1>9, <3>2, <4>1, MyCopyTyped, OutcomeTyped DEF AbortDelivery, Outcome
    <3>3. QED
      BY <3>1, <3>2
  <2>3. QED
    BY <1>9, <2>1, <2>2, PcTyped DEF TypeOK, AbortDelivery, emailVars, Working
<1>10. QED
  BY <1>1, <1>2, <1>3, <1>4, <1>5, <1>6, <1>7, <1>8, <1>9

LEMMA RefreshStepsTyped ==
  ASSUME TypeOK, NEW m \in Refresh,
         \/ ReadMailboxes(m) \/ ReadUnmatched(m) \/ ClaimRow(m)
         \/ AnnounceClaimed(m) \/ EndRefresh(m)
  PROVE  TypeOK'
<1> DEFINE me == refresh[m]
<1>a. me \in RefreshState
  BY DEF TypeOK
<1>1. CASE ReadMailboxes(m)
  <2>1. PICK mine \in SUBSET Mailbox :
          refresh' = [refresh EXCEPT ![m].pc = "scan", ![m].boxes = mine]
    BY <1>1 DEF ReadMailboxes, TypeOK
  <2>2. [me EXCEPT !.pc = "scan", !.boxes = mine] \in RefreshState
    BY <1>a DEF RefreshState
  <2>3. refresh' = [refresh EXCEPT ![m] = [me EXCEPT !.pc = "scan", !.boxes = mine]]
    BY <2>1
  <2> HIDE DEF me
  <2>4. QED
    BY <1>1, <2>2, <2>3 DEF TypeOK, ReadMailboxes, emailVars
<1>2. CASE ReadUnmatched(m)
  <2> DEFINE addresses == {b.address : b \in me.boxes}
             unmatched == {i \in inboundEmails : /\ i.mailboxId = NoMailbox
                                                 /\ i.copy[2] \in addresses}
             rows == {i.copy : i \in unmatched}
  <2>1. refresh' = [refresh EXCEPT ![m] = [@ EXCEPT !.pc = "claim", !.rows = rows]]
    BY <1>2 DEF ReadUnmatched
  <2>2. rows \in SUBSET Copy
    <3>1. \A i \in unmatched : i.copy \in Copy
      BY DEF TypeOK, InboundEmail
    <3>2. QED
      BY <3>1
  <2> HIDE DEF rows
  <2>3. [me EXCEPT !.pc = "claim", !.rows = rows] \in RefreshState
    BY <1>a, <2>2 DEF RefreshState
  <2>4. refresh' = [refresh EXCEPT ![m] = [me EXCEPT !.pc = "claim", !.rows = rows]]
    BY <2>1
  <2> HIDE DEF me
  <2>5. QED
    BY <1>2, <2>3, <2>4 DEF TypeOK, ReadUnmatched, emailVars
<1>3. CASE ClaimRow(m)
  <2>1. PICK i \in inboundEmails, b \in me.boxes :
          LET rest == me.rows \ {i.copy}
              claimed == (inboundEmails \ {i}) \union
                           {[i EXCEPT !.mailboxId = b.id]}
          IN \/ /\ ~StillUnmatched(i)
                /\ refresh' = [refresh EXCEPT ![m].rows = rest]
                /\ UNCHANGED <<emailVars, inboundEmails>>
             \/ /\ StillUnmatched(i) /\ Exists(b.id)
                /\ EmailConflict(b.id, i.messageId)
                /\ inboundEmails' = claimed
                /\ refresh' = [refresh EXCEPT ![m].rows = rest]
                /\ UNCHANGED emailVars
             \/ /\ StillUnmatched(i) /\ Exists(b.id)
                /\ ~EmailConflict(b.id, i.messageId)
                /\ inboundEmails' = claimed
                /\ InsertEmail(i.copy, i.messageId, b.id, i.raw)
                /\ refresh' = [refresh EXCEPT ![m].pc = "announce",
                                              ![m].rows = rest,
                                              ![m].email = nextEmail,
                                              ![m].archived = b.archived]
    BY <1>3 DEF ClaimRow
  <2> DEFINE rest == me.rows \ {i.copy}
             claimed == (inboundEmails \ {i}) \union
                          {[i EXCEPT !.mailboxId = b.id]}
  <2>2. b \in Mailbox /\ i \in InboundEmail
    BY <1>a DEF TypeOK, RefreshState
  <2>3. [i EXCEPT !.mailboxId = b.id] \in InboundEmail
    BY <2>2 DEF InboundEmail, Mailbox, BoxId
  <2>4. claimed \subseteq InboundEmail
    BY <2>3 DEF TypeOK
  <2>5. [me EXCEPT !.rows = rest] \in RefreshState
    BY <1>a DEF RefreshState
  <2>6. [me EXCEPT !.pc = "announce", !.rows = rest, !.email = nextEmail,
                   !.archived = b.archived] \in RefreshState
    BY <1>a, <2>2 DEF RefreshState, Mailbox, TypeOK
  <2>7. ASSUME InsertEmail(i.copy, i.messageId, b.id, i.raw)
        PROVE  /\ emails' \subseteq Email /\ everCreated' \subseteq Email
               /\ nextEmail' \in Nat /\ mailboxes' \subseteq Mailbox
    <3>1. /\ i.copy \in Copy /\ i.messageId \in MsgId /\ i.raw \in BOOLEAN
          /\ b.id \in MailboxId
      BY <2>2 DEF InboundEmail, Mailbox
    <3>2. QED
      BY <2>7, <3>1, InsertTyped
  <2>8. /\ emails' \subseteq Email /\ everCreated' \subseteq Email
        /\ nextEmail' \in Nat /\ mailboxes' \subseteq Mailbox
    BY <2>1, <2>7 DEF emailVars, TypeOK
  <2>9. inboundEmails' \subseteq InboundEmail
    BY <2>1, <2>4 DEF TypeOK
  <2>10. \/ refresh' = [refresh EXCEPT ![m] = [me EXCEPT !.rows = rest]]
         \/ refresh' = [refresh EXCEPT ![m] =
              [me EXCEPT !.pc = "announce", !.rows = rest, !.email = nextEmail,
                         !.archived = b.archived]]
    BY <2>1
  <2> HIDE DEF me, rest
  <2>11. refresh' \in [Refresh -> RefreshState]
    BY <2>5, <2>6, <2>10 DEF TypeOK
  <2>12. QED
    BY <1>3, <2>8, <2>9, <2>11 DEF TypeOK, ClaimRow
<1>4. CASE AnnounceClaimed(m)
  <2>1. [me EXCEPT !.pc = "claim"] \in RefreshState
    BY <1>a DEF RefreshState
  <2>2. refresh' = [refresh EXCEPT ![m] = [me EXCEPT !.pc = "claim"]]
    BY <1>4 DEF AnnounceClaimed
  <2>3. announced' \subseteq Nat
    BY <1>a, <1>4 DEF AnnounceClaimed, RefreshState, TypeOK
  <2> HIDE DEF me
  <2>4. QED
    BY <1>4, <2>1, <2>2, <2>3 DEF TypeOK, AnnounceClaimed, emailVars
<1>5. CASE EndRefresh(m)
  <2>1. [me EXCEPT !.pc = "done"] \in RefreshState
    BY <1>a DEF RefreshState
  <2>2. refresh' = [refresh EXCEPT ![m] = [me EXCEPT !.pc = "done"]]
    BY <1>5 DEF EndRefresh
  <2> HIDE DEF me
  <2>3. QED
    BY <1>5, <2>1, <2>2 DEF TypeOK, EndRefresh, emailVars
<1>6. QED
  BY <1>1, <1>2, <1>3, <1>4, <1>5

LEMMA PurgeStepsTyped ==
  ASSUME TypeOK, NEW p \in Purger,
         ReadForPurge(p) \/ DeleteFile(p) \/ DeleteRow(p) \/ AbortPurge(p)
  PROVE  TypeOK'
<1>a. purge[p] \in PurgeState
  BY DEF TypeOK
<1>1. CASE ReadForPurge(p)
  <2>1. PICK e \in emails :
          purge' = [purge EXCEPT ![p] = [pc |-> "file", id |-> e.id,
                                         copy |-> e.copy, raw |-> e.raw]]
    BY <1>1 DEF ReadForPurge
  <2>2. [pc |-> "file", id |-> e.id, copy |-> e.copy, raw |-> e.raw] \in PurgeState
    BY DEF PurgeState, Email, TypeOK
  <2>3. QED
    BY <1>1, <2>1, <2>2 DEF TypeOK, ReadForPurge, emailVars
<1>2. CASE DeleteFile(p) \/ DeleteRow(p) \/ AbortPurge(p)
  <2>1. PICK pc \in {"row", "done"} : purge' = [purge EXCEPT ![p].pc = pc]
    BY <1>2 DEF DeleteFile, DeleteRow, AbortPurge
  <2>2. [purge[p] EXCEPT !.pc = pc] \in PurgeState
    BY <1>a DEF PurgeState
  <2>3. purge' \in [Purger -> PurgeState]
    BY <2>1, <2>2 DEF TypeOK
  <2>4. files' \subseteq Copy /\ emails' \subseteq Email
    BY <1>2 DEF DeleteFile, DeleteRow, AbortPurge, TypeOK, emailVars
  <2>5. QED
    BY <1>2, <2>3, <2>4
       DEF TypeOK, DeleteFile, DeleteRow, AbortPurge, emailVars
<1>3. QED
  BY <1>1, <1>2

LEMMA MailboxStepsTyped ==
  ASSUME TypeOK, CreateMailbox \/ UpdateMailbox \/ DeleteMailbox
  PROVE  TypeOK'
<1>1. CASE CreateMailbox
  <2>1. PICK id \in MailboxId, a \in Address, u \in User :
          /\ mailboxes' = mailboxes \union
               {[id |-> id, address |-> a, userId |-> u, active |-> TRUE,
                 archived |-> FALSE, received |-> FALSE]}
          /\ usedMailboxes' = usedMailboxes \union {id}
    BY <1>1 DEF CreateMailbox
  <2>2. [id |-> id, address |-> a, userId |-> u, active |-> TRUE,
         archived |-> FALSE, received |-> FALSE] \in Mailbox
    BY DEF Mailbox
  <2>3. QED
    BY <1>1, <2>1, <2>2 DEF TypeOK, CreateMailbox
<1>2. CASE UpdateMailbox
  <2>1. PICK b \in mailboxes, ac \in BOOLEAN, ar \in BOOLEAN :
          mailboxes' = (mailboxes \ {b}) \union
                         {[b EXCEPT !.active = ac, !.archived = ar]}
    BY <1>2 DEF UpdateMailbox
  <2>2. [b EXCEPT !.active = ac, !.archived = ar] \in Mailbox
    BY DEF TypeOK, Mailbox
  <2>3. QED
    BY <1>2, <2>1, <2>2 DEF TypeOK, UpdateMailbox
<1>3. CASE DeleteMailbox
  <2>1. PICK b \in mailboxes :
          /\ mailboxes' = mailboxes \ {b}
          /\ emails' = {e \in emails : e.mailboxId # b.id}
          /\ inboundEmails' =
               {IF i.mailboxId = b.id THEN [i EXCEPT !.mailboxId = NoMailbox]
                ELSE i : i \in inboundEmails}
    BY <1>3 DEF DeleteMailbox
  <2>2. \A i \in inboundEmails : [i EXCEPT !.mailboxId = NoMailbox] \in InboundEmail
    BY DEF TypeOK, InboundEmail, BoxId
  <2>3. inboundEmails' \subseteq InboundEmail
    BY <2>1, <2>2 DEF TypeOK
  <2>4. QED
    BY <1>3, <2>1, <2>3 DEF TypeOK, DeleteMailbox
<1>4. QED
  BY <1>1, <1>2, <1>3

LEMMA InitTyped == Init => TypeOK
<1> SUFFICES ASSUME Init PROVE TypeOK
  OBVIOUS
<1>1. delivery \in [Delivery -> DeliveryState]
  BY DEF Init, DeliveryState, Source, MsgId, BoxId
<1>2. refresh \in [Refresh -> RefreshState]
  BY DEF Init, RefreshState
<1>3. purge \in [Purger -> PurgeState]
  BY DEF Init, PurgeState
<1>4. outcome \in [Copy -> Outcome]
  BY DEF Init, Outcome
<1>5. \A d \in Delivery : delivery[d].pc \notin Working
  BY DEF Init, Working
<1>6. QED
  BY <1>1, <1>2, <1>3, <1>4, <1>5 DEF Init, TypeOK

LEMMA StepTyped == TypeOK /\ [Next]_vars => TypeOK'
<1> SUFFICES ASSUME TypeOK, [Next]_vars PROVE TypeOK'
  OBVIOUS
<1>1. CASE UNCHANGED vars
  BY <1>1 DEF vars, TypeOK
<1>2. QED
  BY <1>1, DeliveryStepsTyped, RefreshStepsTyped, PurgeStepsTyped,
     MailboxStepsTyped DEF Next

\* Every variable of the mail store keeps its type.
THEOREM TypeCorrect == Spec => []TypeOK
BY InitTyped, StepTyped, PTL DEF Spec
-----------------------------------------------------------------------------
(* One email per copy: IInv is inductive.  A step is seen through what it  *)
(* does to the rows (mailboxes, inboundEmails, emails) and to the one      *)
(* delivery that takes it.                                                 *)

\* What IInv reads.
rowVars == <<mailboxes, usedMailboxes, inboundEmails, emails>>

\* A step that at most deletes emails.
LEMMA FewerEmails ==
  ASSUME IInv, emails' \subseteq emails,
         UNCHANGED <<mailboxes, usedMailboxes, inboundEmails, delivery>>
  PROVE  IInv'
<1>1. MailboxIdsOK'
  BY DEF IInv, MailboxIdsOK
<1>2. \A d \in Delivery : DeliveryOK(d)' /\ PendingOK(d)'
  BY DEF IInv, DeliveryOK, PendingOK, Exists, MyCopy
<1>3. \A c : Recorded(c) => Recorded(c)'
  BY DEF Recorded
<1>4. RowsAgree'
  BY <1>3 DEF IInv, RowsAgree
<1>5. QED
  BY <1>1, <1>2, <1>4 DEF IInv, OneEmailPerCopy

LEMMA Unchanged ==
  ASSUME IInv, UNCHANGED <<rowVars, delivery>>
  PROVE  IInv'
BY FewerEmails DEF rowVars

\* A step that moves one delivery forward and touches no row.
LEMMA DeliveryOnlyInv ==
  ASSUME TypeOK, IInv, TypeOK', NEW d \in Delivery, UNCHANGED rowVars,
         \A x \in Delivery \ {d} : delivery'[x] = delivery[x],
         \* the recipients that can still be recorded were so before
         \A a \in Address : Recorded(<<d, a>>) => Recorded(<<d, a>>)',
         delivery'[d].mailbox \in usedMailboxes \union {NoMailbox},
         DeliveryOK(d)',
         \* a delivery enters the last steps with nothing recorded but its own
         delivery'[d].pc \in {"check", "create"} =>
            /\ delivery[d].pc \in {"check", "create"}
            /\ delivery'[d].to = delivery[d].to
            /\ delivery'[d].mailbox = delivery[d].mailbox
  PROVE  IInv'
<1>1. MailboxIdsOK'
  BY DEF IInv, MailboxIdsOK, rowVars
<1>2. ASSUME NEW x \in Delivery PROVE DeliveryOK(x)' /\ PendingOK(x)'
  BY DEF IInv, DeliveryOK, PendingOK, rowVars, Exists, MyCopy
<1>3. ASSUME NEW c \in Copy, Recorded(c) PROVE Recorded(c)'
  <2>1. PICK x \in Delivery, a \in Address : c = <<x, a>>
    BY DEF Copy
  <2>2. CASE x = d
    BY <1>3, <2>1, <2>2
  <2>3. CASE x # d
    BY <1>3, <2>1, <2>3 DEF Recorded
  <2>4. QED
    BY <2>2, <2>3
<1>4. RowsAgree'
  BY <1>3 DEF IInv, RowsAgree, rowVars, TypeOK, InboundEmail, Email
<1>5. QED
  BY <1>1, <1>2, <1>4 DEF IInv, OneEmailPerCopy, rowVars

LEMMA DeliveryStepsInv ==
  ASSUME TypeOK, IInv, TypeOK', NEW d \in Delivery,
         \/ Receive(d) \/ LookupMailbox(d) \/ SaveRaw(d) \/ CheckExisting(d)
         \/ CreateConflict(d) \/ Announce(d) \/ AbortDelivery(d)
  PROVE  IInv'
<1> DEFINE me == delivery[d]
<1>a. me \in DeliveryState /\ DeliveryOK(d)
  BY DEF TypeOK, IInv
<1>b. me.mailbox \in usedMailboxes \union {NoMailbox}
  BY DEF IInv, MailboxIdsOK
<1>1. CASE Receive(d)
  <2>1. /\ me.pc = "idle" /\ delivery'[d].pc = "lookup"
        /\ delivery'[d].mailbox = me.mailbox
        /\ \A x \in Delivery \ {d} : delivery'[x] = delivery[x]
    <3>1. PICK source \in Source, mid \in MsgId, to \in SUBSET Address :
            delivery' = [delivery EXCEPT ![d] =
              [@ EXCEPT !.pc = "lookup", !.source = source,
                        !.messageId = mid, !.asked = to, !.todo = to]]
      BY <1>1 DEF Receive
    <3> DEFINE s == [me EXCEPT !.pc = "lookup", !.source = source,
                               !.messageId = mid, !.asked = to, !.todo = to]
    <3>2. s.pc = "lookup" /\ s.mailbox = me.mailbox
      BY <1>a DEF DeliveryState
    <3>3. delivery' = [delivery EXCEPT ![d] = s]
      BY <3>1
    <3> HIDE DEF s
    <3>4. QED
      BY <1>1, <3>2, <3>3 DEF Receive, TypeOK
  <2>2. UNCHANGED rowVars
    BY <1>1 DEF Receive, rowVars, emailVars
  <2>3. \A a \in Address : ~Recorded(<<d, a>>)
    BY <2>1 DEF Recorded
  <2>4. DeliveryOK(d)'
    BY <2>1 DEF DeliveryOK, Working
  <2>5. QED
    BY <1>b, <2>1, <2>2, <2>3, <2>4, DeliveryOnlyInv
<1>2. CASE LookupMailbox(d)
  <2>1. PICK a \in me.todo :
          /\ delivery'[d].to = a /\ delivery'[d].todo = me.todo \ {a}
          /\ delivery'[d].pc \in {"raw", "lookup", "done"}
          /\ \/ delivery'[d].mailbox = me.mailbox
             \/ delivery'[d].mailbox = NoMailbox
             \/ \E b \in mailboxes : delivery'[d].mailbox = b.id
    <3>1. PICK a \in me.todo :
            LET start == [me EXCEPT !.to = a, !.todo = me.todo \ {a}, !.raw = FALSE]
            IN \/ \E b \in mailboxes : delivery' = [delivery EXCEPT ![d] =
                    [start EXCEPT !.pc = "raw", !.mailbox = b.id,
                                  !.archived = b.archived]]
               \/ delivery' = [delivery EXCEPT ![d] =
                    [start EXCEPT !.pc = "raw", !.mailbox = NoMailbox]]
               \/ \E pc \in {"lookup", "done"} :
                    delivery' = [delivery EXCEPT ![d] = [start EXCEPT !.pc = pc]]
      BY <1>2 DEF LookupMailbox, Active, PassOn
    <3> DEFINE start == [me EXCEPT !.to = a, !.todo = me.todo \ {a}, !.raw = FALSE]
    <3>2. /\ start \in DeliveryState /\ start.to = a
          /\ start.todo = me.todo \ {a} /\ start.mailbox = me.mailbox
      BY <1>a DEF DeliveryState
    <3>3. delivery \in [Delivery -> DeliveryState]
      BY DEF TypeOK
    <3> DEFINE inbox(b) == [start EXCEPT !.pc = "raw", !.mailbox = b.id,
                                         !.archived = b.archived]
               nobox == [start EXCEPT !.pc = "raw", !.mailbox = NoMailbox]
               ended(pc) == [start EXCEPT !.pc = pc]
    <3>4. \/ \E b \in mailboxes : delivery'[d] = inbox(b)
          \/ delivery'[d] = nobox
          \/ \E pc \in {"lookup", "done"} : delivery'[d] = ended(pc)
      BY <3>1, <3>3
    <3> HIDE DEF start
    <3>5. \A b \in mailboxes : /\ inbox(b).to = a /\ inbox(b).todo = me.todo \ {a}
                               /\ inbox(b).pc = "raw" /\ inbox(b).mailbox = b.id
      BY <3>2 DEF DeliveryState
    <3>6. /\ nobox.to = a /\ nobox.todo = me.todo \ {a}
          /\ nobox.pc = "raw" /\ nobox.mailbox = NoMailbox
      BY <3>2 DEF DeliveryState
    <3>7. \A pc \in {"lookup", "done"} :
            /\ ended(pc).to = a /\ ended(pc).todo = me.todo \ {a}
            /\ ended(pc).pc = pc /\ ended(pc).mailbox = me.mailbox
      BY <3>2 DEF DeliveryState
    <3> HIDE DEF inbox, nobox, ended
    <3>8. QED
      BY <3>4, <3>5, <3>6, <3>7
  <2>2. /\ me.pc = "lookup"
        /\ \A x \in Delivery \ {d} : delivery'[x] = delivery[x]
    BY <1>2 DEF LookupMailbox, TypeOK
  <2>3. UNCHANGED rowVars
    BY <1>2 DEF LookupMailbox, rowVars, emailVars
  <2>4. delivery'[d].mailbox \in usedMailboxes \union {NoMailbox}
    BY <1>b, <2>1 DEF IInv, MailboxIdsOK
  <2>5. \A x \in Address : Recorded(<<d, x>>) => Recorded(<<d, x>>)'
    BY <2>1, <2>2 DEF Recorded
  <2>6. DeliveryOK(d)'
    BY <2>1 DEF DeliveryOK
  <2>7. QED
    BY <2>1, <2>2, <2>3, <2>4, <2>5, <2>6, DeliveryOnlyInv
<1>3. CASE SaveRaw(d) \/ CheckExisting(d) \/ CreateConflict(d) \/ Announce(d)
           \/ AbortDelivery(d)
  <2>1. /\ delivery'[d].to = me.to /\ delivery'[d].todo = me.todo
        /\ delivery'[d].mailbox = me.mailbox
        /\ \A x \in Delivery \ {d} : delivery'[x] = delivery[x]
    BY <1>3, <1>a DEF SaveRaw, CheckExisting, CreateConflict, Announce,
          AbortDelivery, EndCopy, TypeOK, DeliveryState
  <2>2. \/ me.pc = "raw" /\ delivery'[d].pc = "inbound"
        \/ me.pc = "check" /\ delivery'[d].pc = "create"
        \/ me.pc # "idle" /\ delivery'[d].pc \in {"lookup", "done", "failed"}
    BY <1>3, <1>a DEF SaveRaw, CheckExisting, CreateConflict, Announce,
          AbortDelivery, EndCopy, NextRecipient, TypeOK, DeliveryState
  <2>3. UNCHANGED rowVars
    BY <1>3 DEF SaveRaw, CheckExisting, CreateConflict, Announce,
          AbortDelivery, rowVars, emailVars
  <2>4. \A x \in Address : Recorded(<<d, x>>) => Recorded(<<d, x>>)'
    BY <2>1, <2>2 DEF Recorded
  <2>5. DeliveryOK(d)'
    BY <1>a, <2>1, <2>2 DEF DeliveryOK, Working
  <2>6. QED
    BY <1>b, <2>1, <2>2, <2>3, <2>4, <2>5, DeliveryOnlyInv
<1>4. QED
  BY <1>1, <1>2, <1>3

\* The delivery's own inbound row is the only one of its copy, and no email is.
LEMMA RecordInboundInv ==
  ASSUME TypeOK, IInv, TypeOK', NEW d \in Delivery, RecordInbound(d)
  PROVE  IInv'
<1> DEFINE me == delivery[d]
<1>a. me \in DeliveryState /\ DeliveryOK(d) /\ me.to \in Address /\ me.pc = "inbound"
  BY DEF TypeOK, IInv, RecordInbound, Working
<1>1. /\ delivery'[d].to = me.to /\ delivery'[d].todo = me.todo
      /\ delivery'[d].mailbox = me.mailbox
      /\ \A x \in Delivery \ {d} : delivery'[x] = delivery[x]
      /\ \/ delivery'[d].pc \in {"lookup", "done"} /\ me.mailbox = NoMailbox
         \/ delivery'[d].pc = "check" /\ me.mailbox # NoMailbox
  BY <1>a DEF RecordInbound, HasMailbox, EndCopy, NextRecipient, TypeOK, DeliveryState
<1>2. /\ UNCHANGED <<mailboxes, usedMailboxes, emails>>
      /\ inboundEmails' \in {inboundEmails, inboundEmails \union {NewInbound(d)}}
  BY DEF RecordInbound, emailVars, InboundAfter
<1>3. NewInbound(d).copy = MyCopy(d) /\ NewInbound(d).mailboxId = me.mailbox
  BY DEF NewInbound
<1>4. ~Recorded(MyCopy(d))
  BY <1>a DEF Recorded, MyCopy
<1>5. ASSUME NEW c \in Copy, Recorded(c) PROVE Recorded(c)'
  <2>1. PICK x \in Delivery, a \in Address : c = <<x, a>>
    BY DEF Copy
  <2>2. QED
    BY <1>1, <1>a, <1>5, <2>1 DEF Recorded
<1>6. \A c \in Copy : c = MyCopy(d) => Recorded(c)'
  BY <1>1, <1>a DEF Recorded, MyCopy, DeliveryOK, Working
<1>7. /\ \A i \in inboundEmails : i.copy # MyCopy(d)
      /\ \A e \in emails : e.copy # MyCopy(d)
  BY <1>4 DEF IInv, RowsAgree
<1>8. MailboxIdsOK'
  BY <1>1, <1>2 DEF IInv, MailboxIdsOK
<1>9. ASSUME NEW x \in Delivery PROVE DeliveryOK(x)'
  BY <1>1, <1>a DEF IInv, DeliveryOK, Working
<1>10. ASSUME NEW x \in Delivery PROVE PendingOK(x)'
  <2>1. CASE x = d
    BY <1>1, <1>2, <1>3, <1>7, <2>1 DEF PendingOK, MyCopy
  <2>2. CASE x # d
    <3>1. MyCopy(x)' = MyCopy(x) /\ MyCopy(x) # MyCopy(d)
      BY <1>1, <2>2 DEF MyCopy
    <3>2. PendingOK(x)
      BY DEF IInv
    <3>3. QED
      BY <1>1, <1>2, <1>3, <2>2, <3>1, <3>2 DEF PendingOK, Exists
  <2>3. QED
    BY <2>1, <2>2
<1>11. RowsAgree'
  <2>1. \A i \in inboundEmails : i.copy \in Copy /\ Recorded(i.copy)
    BY DEF TypeOK, InboundEmail, IInv, RowsAgree
  <2>2. \A e \in emails : e.copy \in Copy /\ Recorded(e.copy)
    BY DEF TypeOK, Email, IInv, RowsAgree
  <2>3. \A i \in inboundEmails' : Recorded(i.copy)'
    <3>1. ASSUME NEW i \in inboundEmails' PROVE Recorded(i.copy)'
      <4>1. CASE i \in inboundEmails
        BY <1>5, <2>1, <4>1
      <4>2. CASE i = NewInbound(d)
        BY <1>3, <1>6, <4>2, MyCopyTyped, <1>a DEF Working
      <4>3. QED
        BY <1>2, <4>1, <4>2
    <3>2. QED
      BY <3>1
  <2>4. \A e \in emails' : Recorded(e.copy)'
    BY <1>2, <1>5, <2>2
  <2>5. \A i, j \in inboundEmails' : i.copy = j.copy => i = j
    BY <1>2, <1>3, <1>7 DEF IInv, RowsAgree
  <2>6. \A e \in emails', i \in inboundEmails' :
          e.copy = i.copy => e.mailboxId = i.mailboxId
    BY <1>2, <1>3, <1>7 DEF IInv, RowsAgree
  <2>7. QED
    BY <2>3, <2>4, <2>5, <2>6 DEF RowsAgree
<1>12. QED
  BY <1>2, <1>8, <1>9, <1>10, <1>11 DEF IInv, OneEmailPerCopy

\* Marking a mailbox leaves the ids as they are.
LEMMA MarkIds ==
  ASSUME TypeOK, MailboxIdsOK, NEW box, mailboxes' = MarkReceived(box),
         UNCHANGED usedMailboxes
  PROVE  /\ \A id : Exists(id)' => Exists(id)
         /\ \A b \in mailboxes' : b.id \in usedMailboxes'
         /\ \A b, c \in mailboxes' : b.id = c.id => b = c
<1> DEFINE mark(b) == IF b.id = box THEN [b EXCEPT !.received = TRUE] ELSE b
<1>1. mailboxes' = {mark(b) : b \in mailboxes}
  BY DEF MarkReceived
<1>2. \A b \in mailboxes : mark(b).id = b.id
  BY DEF TypeOK, Mailbox
<1> HIDE DEF mark
<1>3. \A b \in mailboxes' : \E a \in mailboxes : b = mark(a) /\ b.id = a.id
  BY <1>1, <1>2
<1>4. QED
  BY <1>3 DEF MailboxIdsOK, Exists

\* A delivery inserts its email only while no email has its copy.
LEMMA CreateEmailInv ==
  ASSUME TypeOK, IInv, TypeOK', NEW d \in Delivery, CreateEmail(d)
  PROVE  IInv'
<1> DEFINE me == delivery[d]
           row == [id |-> nextEmail, copy |-> MyCopy(d),
                   messageId |-> me.messageId, mailboxId |-> me.mailbox,
                   raw |-> me.raw]
<1>a. /\ me \in DeliveryState /\ me.to \in Address /\ me.pc = "create"
      /\ DeliveryOK(d) /\ PendingOK(d) /\ Exists(me.mailbox)
  BY DEF TypeOK, IInv, CreateEmail, Working
<1>1. /\ emails' = emails \union {row}
      /\ mailboxes' = MarkReceived(me.mailbox)
      /\ UNCHANGED <<usedMailboxes, inboundEmails>>
  BY DEF CreateEmail, InsertEmail
<1>2. row.copy = MyCopy(d) /\ row.mailboxId = me.mailbox
  OBVIOUS
<1> HIDE DEF row
<1>3. /\ delivery'[d].to = me.to /\ delivery'[d].todo = me.todo
      /\ delivery'[d].mailbox = me.mailbox /\ delivery'[d].pc = "announce"
      /\ \A x \in Delivery \ {d} : delivery'[x] = delivery[x]
  BY <1>a DEF CreateEmail, TypeOK, DeliveryState
<1>4. ASSUME NEW c \in Copy, Recorded(c) \/ c = MyCopy(d) PROVE Recorded(c)'
  <2>1. PICK x \in Delivery, a \in Address : c = <<x, a>>
    BY DEF Copy
  <2>2. QED
    BY <1>3, <1>a, <1>4, <2>1 DEF Recorded, MyCopy, DeliveryOK, Working
<1>5. /\ \A i \in inboundEmails : i.copy = MyCopy(d) => i.mailboxId = me.mailbox
      /\ \A e \in emails : e.copy # MyCopy(d)
  BY <1>a DEF PendingOK
<1>6. /\ \A id : Exists(id)' => Exists(id)
      /\ MailboxIdsOK'
  BY <1>1, <1>3, MarkIds DEF IInv, MailboxIdsOK
<1>7. ASSUME NEW x \in Delivery PROVE DeliveryOK(x)'
  BY <1>3, <1>a DEF IInv, DeliveryOK, Working
<1>8. ASSUME NEW x \in Delivery PROVE PendingOK(x)'
  <2>1. CASE x = d
    BY <1>3, <2>1 DEF PendingOK
  <2>2. CASE x # d
    <3>1. MyCopy(x)' = MyCopy(x) /\ MyCopy(x) # MyCopy(d)
      BY <1>3, <2>2 DEF MyCopy
    <3>2. PendingOK(x) /\ delivery'[x] = delivery[x]
      BY <1>3, <2>2 DEF IInv
    <3>3. QED
      BY <1>1, <1>2, <1>6, <3>1, <3>2 DEF PendingOK
  <2>3. QED
    BY <2>1, <2>2
<1>9. RowsAgree'
  <2>1. \A i \in inboundEmails' : Recorded(i.copy)'
    BY <1>1, <1>4 DEF TypeOK, InboundEmail, IInv, RowsAgree
  <2>2. \A e \in emails' : Recorded(e.copy)'
    <3>1. ASSUME NEW e \in emails' PROVE Recorded(e.copy)'
      <4>1. e.copy \in Copy
        BY DEF TypeOK, Email
      <4>2. Recorded(e.copy) \/ e.copy = MyCopy(d)
        BY <1>1, <1>2 DEF IInv, RowsAgree
      <4>3. QED
        BY <1>4, <4>1, <4>2
    <3>2. QED
      BY <3>1
  <2>3. \A e \in emails', i \in inboundEmails' :
          e.copy = i.copy => e.mailboxId = i.mailboxId
    BY <1>1, <1>2, <1>5 DEF IInv, RowsAgree
  <2>4. QED
    BY <1>1, <2>1, <2>2, <2>3 DEF IInv, RowsAgree
<1>10. OneEmailPerCopy'
  BY <1>1, <1>2, <1>5 DEF IInv, OneEmailPerCopy
<1>11. QED
  BY <1>6, <1>7, <1>8, <1>9, <1>10 DEF IInv

\* A row is claimed only while no mailbox has it: no email has its copy then,
\* and no delivery is about to make one.
LEMMA ClaimRowInv ==
  ASSUME TypeOK, IInv, TypeOK', NEW m \in Refresh, ClaimRow(m)
  PROVE  IInv'
<1>1. CASE UNCHANGED <<rowVars, delivery>>
  BY <1>1, Unchanged
<1>2. ASSUME NEW i \in inboundEmails, NEW b \in refresh[m].boxes,
             StillUnmatched(i), ~ UNCHANGED <<rowVars, delivery>>,
             inboundEmails' = (inboundEmails \ {i}) \union
                                {[i EXCEPT !.mailboxId = b.id]},
             \/ UNCHANGED emailVars
             \/ InsertEmail(i.copy, i.messageId, b.id, i.raw)
      PROVE  IInv'
  <2> DEFINE claim == [i EXCEPT !.mailboxId = b.id]
             row == [id |-> nextEmail, copy |-> i.copy, messageId |-> i.messageId,
                     mailboxId |-> b.id, raw |-> i.raw]
  <2>1. /\ emails' \in {emails, emails \union {row}}
        /\ mailboxes' = MarkReceived(b.id) \/ mailboxes' = mailboxes
        /\ UNCHANGED <<usedMailboxes, delivery>>
    BY <1>2 DEF InsertEmail, emailVars, ClaimRow
  <2>2. /\ claim.copy = i.copy /\ claim.mailboxId = b.id
        /\ row.copy = i.copy /\ row.mailboxId = b.id
        /\ i.copy \in Copy /\ i.mailboxId = NoMailbox
    BY <1>2 DEF TypeOK, InboundEmail, StillUnmatched
  <2>3. inboundEmails' = (inboundEmails \ {i}) \union {claim}
    BY <1>2
  <2> HIDE DEF claim, row
  <2>4. \A e \in emails : e.copy # i.copy
    BY <2>2, NullsAssumption DEF IInv, RowsAgree, TypeOK, Email
  <2>5. \A j \in inboundEmails : j.copy = i.copy => j = i
    BY DEF IInv, RowsAgree
  <2>6. /\ \A id : Exists(id)' => Exists(id)
        /\ MailboxIdsOK'
    <3>1. CASE mailboxes' = mailboxes
      BY <2>1, <3>1 DEF IInv, MailboxIdsOK, Exists
    <3>2. CASE mailboxes' = MarkReceived(b.id)
      BY <2>1, <3>2, MarkIds DEF IInv, MailboxIdsOK
    <3>3. QED
      BY <2>1, <3>1, <3>2
  <2>7. ASSUME NEW x \in Delivery PROVE DeliveryOK(x)' /\ PendingOK(x)'
    <3>1. DeliveryOK(x) /\ PendingOK(x) /\ MyCopy(x)' = MyCopy(x)
      BY <2>1 DEF IInv, MyCopy
    <3>2. ASSUME delivery[x].pc \in {"check", "create"}, Exists(delivery[x].mailbox)
          PROVE  i.copy # MyCopy(x)
      BY <2>2, <3>1, <3>2 DEF DeliveryOK, PendingOK
    <3>3. PendingOK(x)'
      BY <2>1, <2>2, <2>3, <2>6, <3>1, <3>2 DEF PendingOK
    <3>4. QED
      BY <2>1, <3>1, <3>3 DEF DeliveryOK
  <2>8. RowsAgree'
    <3>1. \A c : Recorded(c) => Recorded(c)'
      BY <2>1 DEF Recorded
    <3>2. \A j \in inboundEmails' : Recorded(j.copy)'
      BY <2>2, <2>3, <3>1 DEF IInv, RowsAgree
    <3>3. \A e \in emails' : Recorded(e.copy)'
      BY <2>1, <2>2, <3>1 DEF IInv, RowsAgree
    <3>4. \A j, k \in inboundEmails' : j.copy = k.copy => j = k
      BY <2>2, <2>3, <2>5 DEF IInv, RowsAgree
    <3>5. \A e \in emails', j \in inboundEmails' :
            e.copy = j.copy => e.mailboxId = j.mailboxId
      BY <2>1, <2>2, <2>3, <2>4, <2>5 DEF IInv, RowsAgree
    <3>6. QED
      BY <3>2, <3>3, <3>4, <3>5 DEF RowsAgree
  <2>9. OneEmailPerCopy'
    BY <2>1, <2>2, <2>4 DEF IInv, OneEmailPerCopy
  <2>10. QED
    BY <2>6, <2>7, <2>8, <2>9 DEF IInv
<1>3. QED
  BY <1>1, <1>2 DEF ClaimRow, rowVars, emailVars

\* The steps of re-matches and purges that touch no row but to delete emails.
LEMMA OtherStepsInv ==
  ASSUME TypeOK, IInv, TypeOK',
         \/ \E m \in Refresh : \/ ReadMailboxes(m) \/ ReadUnmatched(m)
                               \/ AnnounceClaimed(m) \/ EndRefresh(m)
         \/ \E p \in Purger : \/ ReadForPurge(p) \/ DeleteFile(p) \/ DeleteRow(p)
                              \/ AbortPurge(p)
  PROVE  IInv'
<1>1. /\ UNCHANGED <<mailboxes, usedMailboxes, inboundEmails, delivery>>
      /\ emails' \subseteq emails
  BY DEF ReadMailboxes, ReadUnmatched, AnnounceClaimed, EndRefresh, ReadForPurge,
         DeleteFile, DeleteRow, AbortPurge, emailVars
<1>2. QED
  BY <1>1, FewerEmails

\* The steps of a mailbox's life.  A new mailbox has a fresh id; a deleted one
\* takes its emails with it and leaves the rows it had claimed unmatched.
LEMMA MailboxStepsInv ==
  ASSUME TypeOK, IInv, TypeOK', CreateMailbox \/ UpdateMailbox \/ DeleteMailbox
  PROVE  IInv'
<1>a. UNCHANGED delivery
  BY DEF CreateMailbox, UpdateMailbox, DeleteMailbox
<1>b. \A x \in Delivery : DeliveryOK(x)' /\ MyCopy(x)' = MyCopy(x)
  BY <1>a DEF IInv, DeliveryOK, MyCopy
<1>c. \A c : Recorded(c) => Recorded(c)'
  BY <1>a DEF Recorded
<1>1. CASE CreateMailbox
  <2>1. PICK id \in MailboxId \ usedMailboxes, a \in Address, u \in User :
          /\ mailboxes' = mailboxes \union
               {[id |-> id, address |-> a, userId |-> u, active |-> TRUE,
                 archived |-> FALSE, received |-> FALSE]}
          /\ usedMailboxes' = usedMailboxes \union {id}
          /\ UNCHANGED <<emails, inboundEmails>>
    BY <1>1 DEF CreateMailbox
  <2>2. MailboxIdsOK'
    <3> DEFINE new == [id |-> id, address |-> a, userId |-> u, active |-> TRUE,
                       archived |-> FALSE, received |-> FALSE]
    <3>1. mailboxes' = mailboxes \union {new} /\ new.id = id
      BY <2>1
    <3> HIDE DEF new
    <3>2. \A b \in mailboxes : b.id # id
      BY DEF IInv, MailboxIdsOK
    <3>3. \A b, c \in mailboxes' : b.id = c.id => b = c
      BY <3>1, <3>2 DEF IInv, MailboxIdsOK
    <3>4. \A b \in mailboxes' : b.id \in usedMailboxes'
      BY <2>1, <3>1 DEF IInv, MailboxIdsOK
    <3>5. QED
      BY <1>a, <2>1, <3>3, <3>4 DEF IInv, MailboxIdsOK
  <2>3. ASSUME NEW x \in Delivery,
               (delivery[x].pc \in {"check", "create"} /\ Exists(delivery[x].mailbox))'
        PROVE  Exists(delivery[x].mailbox)
    <3>1. delivery[x].mailbox # NoMailbox
      BY <1>a, <2>3 DEF IInv, DeliveryOK
    <3>2. delivery[x].mailbox # id
      BY <2>1, <3>1 DEF IInv, MailboxIdsOK
    <3>3. QED
      BY <1>a, <2>1, <2>3, <3>2 DEF Exists
  <2>4. \A x \in Delivery : PendingOK(x)'
    BY <1>a, <1>b, <2>1, <2>3 DEF IInv, PendingOK
  <2>5. QED
    BY <1>b, <1>c, <2>1, <2>2, <2>4 DEF IInv, RowsAgree, OneEmailPerCopy
<1>2. CASE UpdateMailbox
  <2>1. PICK b \in mailboxes, ac \in BOOLEAN, ar \in BOOLEAN :
          /\ mailboxes' = (mailboxes \ {b}) \union
                            {[b EXCEPT !.active = ac, !.archived = ar]}
          /\ UNCHANGED <<usedMailboxes, emails, inboundEmails>>
    BY <1>2 DEF UpdateMailbox
  <2>2. [b EXCEPT !.active = ac, !.archived = ar].id = b.id
    BY DEF TypeOK, Mailbox
  <2>3. MailboxIdsOK'
    BY <1>a, <2>1, <2>2 DEF IInv, MailboxIdsOK
  <2>4. \A id : Exists(id)' => Exists(id)
    BY <2>1, <2>2 DEF Exists
  <2>5. \A x \in Delivery : PendingOK(x)'
    BY <1>a, <1>b, <2>1, <2>4 DEF IInv, PendingOK
  <2>6. QED
    BY <1>b, <1>c, <2>1, <2>3, <2>5 DEF IInv, RowsAgree, OneEmailPerCopy
<1>3. CASE DeleteMailbox
  <2> DEFINE freed(i) == [i EXCEPT !.mailboxId = NoMailbox]
  <2>1. PICK b \in mailboxes :
          /\ mailboxes' = mailboxes \ {b}
          /\ emails' = {e \in emails : e.mailboxId # b.id}
          /\ inboundEmails' = {IF i.mailboxId = b.id THEN freed(i) ELSE i :
                                 i \in inboundEmails}
          /\ UNCHANGED usedMailboxes
    BY <1>3 DEF DeleteMailbox
  <2>2. \A i \in inboundEmails : freed(i).copy = i.copy
    BY DEF TypeOK, InboundEmail
  <2>3. \A j \in inboundEmails' : \E i \in inboundEmails :
          /\ j.copy = i.copy
          /\ j = IF i.mailboxId = b.id THEN freed(i) ELSE i
    BY <2>1, <2>2
  <2> HIDE DEF freed
  <2>4. MailboxIdsOK'
    BY <1>a, <2>1 DEF IInv, MailboxIdsOK
  <2>5. \A id : Exists(id)' => Exists(id) /\ id # b.id
    BY <2>1 DEF Exists, IInv, MailboxIdsOK
  <2>6. ASSUME NEW x \in Delivery PROVE PendingOK(x)'
    <3>1. PendingOK(x)
      BY DEF IInv
    <3>2. QED
      BY <1>a, <1>b, <2>1, <2>3, <2>5, <3>1 DEF PendingOK
  <2>7. RowsAgree'
    <3>1. \A j \in inboundEmails' : Recorded(j.copy)'
      BY <1>c, <2>3 DEF IInv, RowsAgree
    <3>2. \A e \in emails' : Recorded(e.copy)'
      BY <1>c, <2>1 DEF IInv, RowsAgree
    <3>3. \A j, k \in inboundEmails' : j.copy = k.copy => j = k
      BY <2>3 DEF IInv, RowsAgree
    <3>4. \A e \in emails', j \in inboundEmails' :
            e.copy = j.copy => e.mailboxId = j.mailboxId
      BY <2>1, <2>3 DEF IInv, RowsAgree
    <3>5. QED
      BY <3>1, <3>2, <3>3, <3>4 DEF RowsAgree
  <2>8. QED
    BY <1>b, <2>1, <2>4, <2>6, <2>7 DEF IInv, OneEmailPerCopy
<1>4. QED
  BY <1>1, <1>2, <1>3

LEMMA InitInv == Init => IInv
BY DEF Init, IInv, MailboxIdsOK, DeliveryOK, PendingOK, RowsAgree,
       OneEmailPerCopy, Working

LEMMA StepInv == TypeOK /\ IInv /\ TypeOK' /\ [Next]_vars => IInv'
<1> SUFFICES ASSUME TypeOK, IInv, TypeOK', [Next]_vars PROVE IInv'
  OBVIOUS
<1>1. CASE UNCHANGED vars
  BY <1>1, Unchanged DEF vars, rowVars
<1>2. QED
  BY <1>1, DeliveryStepsInv, RecordInboundInv, CreateEmailInv, ClaimRowInv,
     OtherStepsInv, MailboxStepsInv DEF Next

\* The inductive invariant holds in every state.
THEOREM InductiveInvariant == Spec => []IInv
BY TypeCorrect, InitInv, StepInv, PTL DEF Spec

\* For any number of deliveries, re-matches, purges and mailboxes, no copy of a
\* message is ever two emails: a raw file has at most one email row.
THEOREM OneEmail == Spec => []OneEmailPerCopy
<1>1. IInv => OneEmailPerCopy
  BY DEF IInv
<1>2. QED
  BY InductiveInvariant, <1>1, PTL

-----------------------------------------------------------------------------
(* What was announced, acknowledged or claimed is there, and a purge takes    *)
(* only its own file.                                                         *)

USE NullsAssumption

\* A step of one delivery.
DeliveryStep(d) ==
    \/ Receive(d) \/ LookupMailbox(d) \/ SaveRaw(d) \/ RecordInbound(d)
    \/ CheckExisting(d) \/ CreateEmail(d) \/ CreateConflict(d) \/ Announce(d)
    \/ AbortDelivery(d)

RefreshStep(m) ==
    ReadMailboxes(m) \/ ReadUnmatched(m) \/ ClaimRow(m) \/ AnnounceClaimed(m)
    \/ EndRefresh(m)

PurgeStep(p) == ReadForPurge(p) \/ DeleteFile(p) \/ DeleteRow(p) \/ AbortPurge(p)

-----------------------------------------------------------------------------
(* What a step does to a delivery. *)

\* The later steps of a delivery leave its recipient, mailbox and message.
LEMMA Forward ==
    ASSUME TypeOK, NEW d \in Delivery,
           \/ SaveRaw(d) \/ RecordInbound(d) \/ CheckExisting(d) \/ CreateEmail(d)
           \/ CreateConflict(d) \/ Announce(d) \/ AbortDelivery(d)
    PROVE  /\ \A x \in Delivery : x # d => delivery'[x] = delivery[x]
           /\ delivery'[d].to = delivery[d].to
           /\ delivery'[d].mailbox = delivery[d].mailbox
           /\ delivery'[d].messageId = delivery[d].messageId
           /\ delivery'[d].source = delivery[d].source
           /\ delivery'[d].asked = delivery[d].asked
           /\ delivery'[d].todo = delivery[d].todo
           /\ SaveRaw(d) \/ delivery'[d].raw = delivery[d].raw
           /\ delivery[d].pc \notin {"idle", "done", "failed"}
           /\ delivery'[d].pc # "idle"
           /\ delivery'[d].pc \in Working => delivery[d].pc \in Working
<1>0. delivery[d] \in DeliveryState /\ delivery \in [Delivery -> DeliveryState]
  BY DEF TypeOK
<1>1. CASE SaveRaw(d)
  <2>1. PICK saved \in BOOLEAN : delivery' = [delivery EXCEPT ![d] =
          [delivery[d] EXCEPT !.pc = "inbound", !.raw = saved]]
    BY <1>1 DEF SaveRaw
  <2> DEFINE me == [delivery[d] EXCEPT !.pc = "inbound", !.raw = saved]
  <2>2. /\ me.pc = "inbound" /\ me.to = delivery[d].to
        /\ me.mailbox = delivery[d].mailbox /\ me.messageId = delivery[d].messageId
        /\ me.source = delivery[d].source /\ me.asked = delivery[d].asked
        /\ me.todo = delivery[d].todo
    BY <1>0 DEF DeliveryState
  <2>3. delivery[d].pc = "raw" /\ delivery' = [delivery EXCEPT ![d] = me]
    BY <1>1, <2>1 DEF SaveRaw
  <2> HIDE DEF me
  <2> QED BY <1>0, <1>1, <2>2, <2>3 DEF Working
<1>2. CASE RecordInbound(d)
  BY <1>0, <1>2 DEF RecordInbound, EndCopy, NextRecipient, DeliveryState, Working
<1>3. CASE CheckExisting(d)
  BY <1>0, <1>3 DEF CheckExisting, EndCopy, NextRecipient, DeliveryState, Working
<1>4. CASE CreateEmail(d)
  BY <1>0, <1>4 DEF CreateEmail, DeliveryState, Working
<1>5. CASE CreateConflict(d)
  BY <1>0, <1>5 DEF CreateConflict, EndCopy, DeliveryState, Working
<1>6. CASE Announce(d)
  BY <1>0, <1>6 DEF Announce, NextRecipient, DeliveryState, Working
<1>7. CASE AbortDelivery(d)
  BY <1>0, <1>7 DEF AbortDelivery, DeliveryState, Working
<1> QED BY <1>1, <1>2, <1>3, <1>4, <1>5, <1>6, <1>7

LEMMA ReceiveMoves ==
    ASSUME TypeOK, NEW d \in Delivery, Receive(d)
    PROVE  /\ \A x \in Delivery : x # d => delivery'[x] = delivery[x]
           /\ delivery[d].pc = "idle" /\ delivery'[d].pc = "lookup"
           /\ delivery'[d].todo = delivery'[d].asked
           /\ delivery'[d].source = "WEBHOOK" =>
                \E a \in Address : delivery'[d].todo = {a}
BY DEF Receive, TypeOK, DeliveryState

\* A recipient is looked up: a mailbox that is found has its address.
LEMMA LookupMoves ==
    ASSUME TypeOK, NEW d \in Delivery, LookupMailbox(d)
    PROVE  /\ \A x \in Delivery : x # d => delivery'[x] = delivery[x]
           /\ delivery[d].pc = "lookup" /\ delivery'[d].pc \in {"raw", "lookup", "done"}
           /\ delivery'[d].messageId = delivery[d].messageId
           /\ delivery'[d].source = delivery[d].source
           /\ delivery'[d].asked = delivery[d].asked
           /\ delivery'[d].to \in delivery[d].todo
           /\ delivery'[d].todo = delivery[d].todo \ {delivery'[d].to}
           /\ delivery'[d].pc = "done" => delivery'[d].todo = {}
           /\ delivery'[d].pc = "raw" =>
                \/ delivery'[d].mailbox = NoMailbox
                \/ \E b \in mailboxes : /\ b.id = delivery'[d].mailbox
                                        /\ b.address = delivery'[d].to
<1>0. delivery[d] \in DeliveryState /\ delivery \in [Delivery -> DeliveryState]
  BY DEF TypeOK
<1>1. PICK a \in delivery[d].todo :
        LET rest  == delivery[d].todo \ {a}
            start == [delivery[d] EXCEPT !.to = a, !.todo = rest, !.raw = FALSE] IN
        \/ \E b \in Active(a) : delivery' = [delivery EXCEPT ![d] =
             [start EXCEPT !.pc = "raw", !.mailbox = b.id, !.archived = b.archived]]
        \/ delivery' = [delivery EXCEPT ![d] =
             [start EXCEPT !.pc = "raw", !.mailbox = NoMailbox]]
        \/ delivery' = [delivery EXCEPT ![d] =
             [start EXCEPT !.pc = PassOn(rest)]]
  BY DEF LookupMailbox
<1>2. delivery[d].pc = "lookup"
  BY DEF LookupMailbox
<1>3. ASSUME NEW b \in Active(a),
             delivery' = [delivery EXCEPT ![d] =
               [[delivery[d] EXCEPT !.to = a, !.todo = delivery[d].todo \ {a},
                                    !.raw = FALSE]
                 EXCEPT !.pc = "raw", !.mailbox = b.id, !.archived = b.archived]]
      PROVE  /\ \A x \in Delivery : x # d => delivery'[x] = delivery[x]
             /\ delivery'[d].pc = "raw" /\ delivery'[d].mailbox = b.id
             /\ delivery'[d].to = a /\ delivery'[d].messageId = delivery[d].messageId
             /\ b \in mailboxes /\ b.address = a
             /\ delivery'[d].source = delivery[d].source
             /\ delivery'[d].asked = delivery[d].asked
             /\ delivery'[d].todo = delivery[d].todo \ {a}
  BY <1>0, <1>3 DEF DeliveryState, Active
<1>4. ASSUME delivery' = [delivery EXCEPT ![d] =
               [[delivery[d] EXCEPT !.to = a, !.todo = delivery[d].todo \ {a},
                                    !.raw = FALSE]
                 EXCEPT !.pc = "raw", !.mailbox = NoMailbox]]
      PROVE  /\ \A x \in Delivery : x # d => delivery'[x] = delivery[x]
             /\ delivery'[d].pc = "raw" /\ delivery'[d].mailbox = NoMailbox
             /\ delivery'[d].messageId = delivery[d].messageId
             /\ delivery'[d].source = delivery[d].source
             /\ delivery'[d].asked = delivery[d].asked /\ delivery'[d].to = a
             /\ delivery'[d].todo = delivery[d].todo \ {a}
  BY <1>0, <1>4 DEF DeliveryState
<1>5. ASSUME NEW pc \in {"done", "lookup"},
             delivery' = [delivery EXCEPT ![d] =
               [[delivery[d] EXCEPT !.to = a, !.todo = delivery[d].todo \ {a},
                                    !.raw = FALSE] EXCEPT !.pc = pc]]
      PROVE  /\ \A x \in Delivery : x # d => delivery'[x] = delivery[x]
             /\ delivery'[d].pc = pc
             /\ delivery'[d].messageId = delivery[d].messageId
             /\ delivery'[d].source = delivery[d].source
             /\ delivery'[d].asked = delivery[d].asked /\ delivery'[d].to = a
             /\ delivery'[d].todo = delivery[d].todo \ {a}
  BY <1>0, <1>5 DEF DeliveryState
<1> QED BY <1>1, <1>2, <1>3, <1>4, <1>5 DEF PassOn

\* A recipient without a mailbox at a KNOWN_ONLY domain is rejected.
LEMMA LookupRejects ==
    ASSUME TypeOK, NEW d \in Delivery, LookupMailbox(d), delivery'[d].pc # "raw"
    PROVE  outcome'[<<d, delivery'[d].to>>] # "none"
<1>0. delivery[d] \in DeliveryState /\ delivery \in [Delivery -> DeliveryState]
  BY DEF TypeOK
<1>1. PICK a \in delivery[d].todo :
        LET start == [delivery[d] EXCEPT !.to = a, !.todo = delivery[d].todo \ {a},
                                         !.raw = FALSE] IN
        \/ \E b \in mailboxes : delivery' = [delivery EXCEPT ![d] =
             [start EXCEPT !.pc = "raw", !.mailbox = b.id, !.archived = b.archived]]
        \/ delivery' = [delivery EXCEPT ![d] =
             [start EXCEPT !.pc = "raw", !.mailbox = NoMailbox]]
        \/ /\ outcome' = [outcome EXCEPT ![<<d, a>>] = "rejected"]
           /\ \E pc \in {"done", "lookup"} :
                delivery' = [delivery EXCEPT ![d] = [start EXCEPT !.pc = pc]]
  BY DEF LookupMailbox, Active, PassOn
<1> DEFINE start == [delivery[d] EXCEPT !.to = a, !.todo = delivery[d].todo \ {a},
                                        !.raw = FALSE]
<1>2. start \in DeliveryState /\ start.to = a /\ a \in Address
  BY <1>0 DEF DeliveryState
<1>3. \/ delivery'[d].pc = "raw"
      \/ /\ outcome' = [outcome EXCEPT ![<<d, a>>] = "rejected"]
         /\ delivery'[d].to = a
  <2> HIDE DEF start
  <2>1. \/ \E b \in mailboxes : delivery'[d] =
             [start EXCEPT !.pc = "raw", !.mailbox = b.id, !.archived = b.archived]
        \/ delivery'[d] = [start EXCEPT !.pc = "raw", !.mailbox = NoMailbox]
        \/ /\ outcome' = [outcome EXCEPT ![<<d, a>>] = "rejected"]
           /\ \E pc \in {"done", "lookup"} : delivery'[d] = [start EXCEPT !.pc = pc]
    BY <1>0, <1>1 DEF start
  <2> QED BY <1>2, <2>1 DEF DeliveryState
<1> QED BY <1>2, <1>3 DEF TypeOK, Copy

LEMMA OthersStill ==
    ASSUME [Next]_vars, ~ \E d \in Delivery : DeliveryStep(d)
    PROVE  delivery' = delivery /\ outcome' = outcome
<1>1. CASE UNCHANGED vars
  BY <1>1 DEF vars
<1>2. ASSUME NEW m \in Refresh, RefreshStep(m)
      PROVE  delivery' = delivery /\ outcome' = outcome
  BY <1>2 DEF RefreshStep, ReadMailboxes, ReadUnmatched, ClaimRow, AnnounceClaimed,
              EndRefresh
<1>3. ASSUME NEW p \in Purger, PurgeStep(p)
      PROVE  delivery' = delivery /\ outcome' = outcome
  BY <1>3 DEF PurgeStep, ReadForPurge, DeleteFile, DeleteRow, AbortPurge
<1>4. CASE CreateMailbox \/ UpdateMailbox \/ DeleteMailbox
  BY <1>4 DEF CreateMailbox, UpdateMailbox, DeleteMailbox
<1> QED BY <1>1, <1>2, <1>3, <1>4 DEF Next, DeliveryStep, RefreshStep, PurgeStep

-----------------------------------------------------------------------------
(* What a step does to the emails. *)

\* An email is inserted for an address that its mailbox was seen under.
Inserts(c, mid, box, raw) ==
    /\ InsertEmail(c, mid, box, raw)
    /\ Exists(box) /\ ~EmailConflict(box, mid) /\ Seen(box, c[2])
    /\ UNCHANGED <<usedMailboxes, purge>>

NoInsert == everCreated' = everCreated /\ nextEmail' = nextEmail /\ emails' \subseteq emails

LEMMA CreateInserts ==
    ASSUME TypeOK, NEW d \in Delivery, CreateEmail(d)
    PROVE  Inserts(MyCopy(d), delivery[d].messageId, delivery[d].mailbox, delivery[d].raw)
<1>1. delivery[d].pc \in Working /\ MyCopy(d)[2] = delivery[d].to
  BY DEF CreateEmail, Working, MyCopy
<1>2. Seen(delivery[d].mailbox, MyCopy(d)[2])
  BY <1>1 DEF Seen
<1> QED BY <1>2 DEF CreateEmail, Inserts

LEMMA ClaimInserts ==
    ASSUME TypeOK, NEW m \in Refresh, ClaimRow(m)
    PROVE  \/ NoInsert /\ UNCHANGED <<emails, mailboxes, usedMailboxes, purge>>
           \/ \E i \in inboundEmails, b \in refresh[m].boxes :
                Inserts(i.copy, i.messageId, b.id, i.raw)
<1>1. PICK i \in inboundEmails, b \in refresh[m].boxes :
        /\ b.address = i.copy[2]
        /\ \/ UNCHANGED emailVars
           \/ /\ Exists(b.id) /\ ~EmailConflict(b.id, i.messageId)
              /\ InsertEmail(i.copy, i.messageId, b.id, i.raw)
        /\ UNCHANGED <<usedMailboxes, purge>>
  BY DEF ClaimRow
<1>2. Seen(b.id, i.copy[2])
  BY <1>1 DEF Seen
<1> QED BY <1>1, <1>2 DEF Inserts, NoInsert, emailVars

LEMMA EmailsStep ==
    ASSUME TypeOK, [Next]_vars
    PROVE  \/ NoInsert
           \/ \E c \in Copy, mid \in MsgId, box \in MailboxId, raw \in BOOLEAN :
                Inserts(c, mid, box, raw)
<1>1. CASE UNCHANGED vars
  BY <1>1 DEF vars, NoInsert
<1>2. ASSUME NEW d \in Delivery, DeliveryStep(d), ~CreateEmail(d) PROVE NoInsert
  BY <1>2 DEF DeliveryStep, Receive, LookupMailbox, SaveRaw, RecordInbound,
     CheckExisting, CreateConflict, Announce, AbortDelivery, emailVars, NoInsert
<1>3. ASSUME NEW d \in Delivery, CreateEmail(d)
      PROVE  \E c \in Copy, mid \in MsgId, box \in MailboxId, raw \in BOOLEAN :
                Inserts(c, mid, box, raw)
  <2>1. MyCopy(d) \in Copy
    BY <1>3, MyCopyTyped DEF CreateEmail, Working
  <2>2. delivery[d].messageId \in MsgId /\ delivery[d].raw \in BOOLEAN
    BY DEF TypeOK, DeliveryState
  <2>3. delivery[d].mailbox \in MailboxId
    BY <1>3, ExistsTyped DEF CreateEmail
  <2> QED BY <1>3, <2>1, <2>2, <2>3, CreateInserts
<1>4. ASSUME NEW m \in Refresh, ClaimRow(m)
      PROVE  \/ NoInsert
             \/ \E c \in Copy, mid \in MsgId, box \in MailboxId, raw \in BOOLEAN :
                  Inserts(c, mid, box, raw)
  <2>1. \A i \in inboundEmails :
           i.copy \in Copy /\ i.messageId \in MsgId /\ i.raw \in BOOLEAN
    BY DEF TypeOK, InboundEmail
  <2>2. \A b \in refresh[m].boxes : b.id \in MailboxId
    BY DEF TypeOK, RefreshState, Mailbox
  <2> QED BY <1>4, <2>1, <2>2, ClaimInserts
<1>5. ASSUME NEW m \in Refresh, RefreshStep(m), ~ClaimRow(m) PROVE NoInsert
  BY <1>5 DEF RefreshStep, ReadMailboxes, ReadUnmatched, AnnounceClaimed,
              EndRefresh, emailVars, NoInsert
<1>6. ASSUME NEW p \in Purger, PurgeStep(p) PROVE NoInsert
  BY <1>6 DEF PurgeStep, ReadForPurge, DeleteFile, DeleteRow, AbortPurge,
              emailVars, NoInsert
<1>7. CASE CreateMailbox \/ UpdateMailbox \/ DeleteMailbox
  BY <1>7 DEF CreateMailbox, UpdateMailbox, DeleteMailbox, NoInsert
<1> QED BY <1>1, <1>2, <1>3, <1>4, <1>5, <1>6, <1>7
        DEF Next, DeliveryStep, RefreshStep, PurgeStep

-----------------------------------------------------------------------------
(* What a step does to the mailboxes. *)

\* Every mailbox was there before, under its address.
Same(boxes, others) ==
    \A b \in boxes : \E a \in others : a.id = b.id /\ a.address = b.address

LEMMA MarkSame ==
    ASSUME TypeOK, NEW box
    PROVE  Same(mailboxes, MarkReceived(box)) /\ Same(MarkReceived(box), mailboxes)
<1> DEFINE mark(b) == IF b.id = box THEN [b EXCEPT !.received = TRUE] ELSE b
<1>1. MarkReceived(box) = {mark(b) : b \in mailboxes}
  BY DEF MarkReceived
<1>2. \A b \in mailboxes : mark(b).id = b.id /\ mark(b).address = b.address
  BY DEF TypeOK, Mailbox
<1> HIDE DEF mark
<1> QED BY <1>1, <1>2 DEF Same

LEMMA BoxesStep ==
    ASSUME TypeOK, [Next]_vars, ~CreateMailbox
    PROVE  /\ Same(mailboxes', mailboxes) /\ usedMailboxes' = usedMailboxes
           /\ DeleteMailbox \/ Same(mailboxes, mailboxes')
<1>1. CASE mailboxes' = mailboxes /\ usedMailboxes' = usedMailboxes
  BY <1>1 DEF Same
<1>2. ASSUME NEW c, NEW mid, NEW box, NEW raw, Inserts(c, mid, box, raw)
      PROVE  /\ Same(mailboxes', mailboxes) /\ usedMailboxes' = usedMailboxes
             /\ Same(mailboxes, mailboxes')
  BY <1>2, MarkSame DEF Inserts, InsertEmail
<1>3. CASE UpdateMailbox
  <2>1. PICK b \in mailboxes, ac \in BOOLEAN, ar \in BOOLEAN :
          /\ mailboxes' = (mailboxes \ {b}) \union
                            {[b EXCEPT !.active = ac, !.archived = ar]}
          /\ usedMailboxes' = usedMailboxes
    BY <1>3 DEF UpdateMailbox
  <2> DEFINE new == [b EXCEPT !.active = ac, !.archived = ar]
  <2>2. new.id = b.id /\ new.address = b.address
    BY DEF TypeOK, Mailbox
  <2>3. mailboxes' = (mailboxes \ {b}) \union {new}
    BY <2>1
  <2> HIDE DEF new
  <2> QED BY <2>1, <2>2, <2>3 DEF Same
<1>4. CASE DeleteMailbox
  BY <1>4 DEF DeleteMailbox, Same
<1>5. ASSUME NEW d \in Delivery, DeliveryStep(d), ~CreateEmail(d)
      PROVE  mailboxes' = mailboxes /\ usedMailboxes' = usedMailboxes
  BY <1>5 DEF DeliveryStep, Receive, LookupMailbox, SaveRaw, RecordInbound,
     CheckExisting, CreateConflict, Announce, AbortDelivery, emailVars
<1>6. ASSUME NEW m \in Refresh, RefreshStep(m), ~ClaimRow(m)
      PROVE  mailboxes' = mailboxes /\ usedMailboxes' = usedMailboxes
  BY <1>6 DEF RefreshStep, ReadMailboxes, ReadUnmatched, AnnounceClaimed,
              EndRefresh, emailVars
<1>7. ASSUME NEW p \in Purger, PurgeStep(p)
      PROVE  mailboxes' = mailboxes /\ usedMailboxes' = usedMailboxes
  BY <1>7 DEF PurgeStep, ReadForPurge, DeleteFile, DeleteRow, AbortPurge, emailVars
<1>8. CASE UNCHANGED vars
  BY <1>1, <1>8 DEF vars
<1> QED BY <1>1, <1>2, <1>3, <1>4, <1>5, <1>6, <1>7, <1>8, CreateInserts,
           ClaimInserts DEF Next, DeliveryStep, RefreshStep, PurgeStep

-----------------------------------------------------------------------------
(* The parts of KeptInv, one after the other. *)

LEMMA EmailIdsStep ==
    ASSUME TypeOK, EmailIds, [Next]_vars PROVE EmailIds'
<1> DEFINE NewIds ==
             /\ emails' \subseteq everCreated' /\ everCreated \subseteq everCreated'
             /\ \A e \in everCreated' : e.id < nextEmail'
             /\ \A e, f \in everCreated' : e.id = f.id => e = f
<1>1. NewIds
  <2>1. CASE NoInsert
    BY <2>1 DEF NoInsert, EmailIds
  <2>2. ASSUME NEW c \in Copy, NEW mid \in MsgId, NEW box \in MailboxId,
               NEW raw \in BOOLEAN, Inserts(c, mid, box, raw)
        PROVE  NewIds
    <3> DEFINE row == [id |-> nextEmail, copy |-> c, messageId |-> mid,
                       mailboxId |-> box, raw |-> raw]
    <3>1. /\ emails' = emails \union {row}
          /\ everCreated' = everCreated \union {row} /\ nextEmail' = nextEmail + 1
      BY <2>2 DEF Inserts, InsertEmail
    <3>2. row.id = nextEmail /\ nextEmail \in Nat
      BY DEF TypeOK
    <3>3. \A e \in everCreated : e.id \in Nat /\ e.id < nextEmail
      BY DEF TypeOK, Email, EmailIds
    <3> HIDE DEF row
    <3>4. \A e, f \in everCreated' : e.id = f.id => e = f
      BY <3>1, <3>2, <3>3 DEF EmailIds
    <3> QED BY <3>1, <3>2, <3>3, <3>4 DEF EmailIds
  <2> QED BY <2>1, <2>2, EmailsStep
<1>2. ASSUME NEW p \in Purger, (purge[p].pc \in {"file", "row"})'
      PROVE  \E e \in everCreated' : e.id = purge'[p].id /\ e.copy = purge'[p].copy
  <2>0. purge[p] \in PurgeState /\ purge \in [Purger -> PurgeState]
    BY DEF TypeOK
  <2> DEFINE Known ==
        \/ /\ purge[p].pc \in {"file", "row"}
           /\ purge'[p].id = purge[p].id /\ purge'[p].copy = purge[p].copy
        \/ \E e \in emails : purge'[p].id = e.id /\ purge'[p].copy = e.copy
  <2>1. Known
    <3>1. CASE purge' = purge
      BY <1>2, <3>1
    <3>2. ASSUME NEW q \in Purger, ReadForPurge(q) PROVE Known
      BY <1>2, <2>0, <3>2 DEF ReadForPurge
    <3>3. ASSUME NEW q \in Purger, DeleteFile(q) \/ DeleteRow(q) \/ AbortPurge(q)
          PROVE  Known
      BY <1>2, <2>0, <3>3 DEF DeleteFile, DeleteRow, AbortPurge, PurgeState
    <3> QED BY <3>1, <3>2, <3>3 DEF Next, vars, Receive, LookupMailbox, SaveRaw,
          RecordInbound, CheckExisting, CreateEmail, CreateConflict, Announce,
          AbortDelivery, ReadMailboxes, ReadUnmatched, ClaimRow, AnnounceClaimed,
          EndRefresh, CreateMailbox, UpdateMailbox, DeleteMailbox
  <2> QED BY <1>1, <2>1 DEF EmailIds
<1> QED BY <1>1, <1>2 DEF EmailIds

LEMMA EmailRowsStep ==
    ASSUME TypeOK, EmailRows, [Next]_vars PROVE EmailRows'
<1>1. ASSUME NEW e \in emails', NEW f \in emails', e.mailboxId = f.mailboxId,
             e.messageId = f.messageId, e.messageId # NoMessageId
      PROVE  e = f
  <2>1. CASE NoInsert
    BY <1>1, <2>1 DEF NoInsert, EmailRows
  <2>2. ASSUME NEW c \in Copy, NEW mid \in MsgId, NEW box \in MailboxId,
               NEW raw \in BOOLEAN, Inserts(c, mid, box, raw)
        PROVE  e = f
    <3> DEFINE row == [id |-> nextEmail, copy |-> c, messageId |-> mid,
                       mailboxId |-> box, raw |-> raw]
    <3>1. emails' = emails \union {row} /\ ~EmailConflict(box, mid)
      BY <2>2 DEF Inserts, InsertEmail
    <3>2. row.mailboxId = box /\ row.messageId = mid
      OBVIOUS
    <3> HIDE DEF row
    <3> QED BY <1>1, <3>1, <3>2 DEF EmailRows, EmailConflict
  <2> QED BY <2>1, <2>2, EmailsStep
<1>2. ASSUME NEW e \in emails' PROVE Exists(e.mailboxId)'
  <2>1. CASE CreateMailbox
    BY <1>2, <2>1 DEF CreateMailbox, EmailRows, Exists
  <2>2. CASE DeleteMailbox
    <3>1. PICK b \in mailboxes : /\ mailboxes' = mailboxes \ {b}
                                 /\ emails' = {x \in emails : x.mailboxId # b.id}
      BY <2>2 DEF DeleteMailbox
    <3> QED BY <1>2, <3>1 DEF EmailRows, Exists
  <2>3. CASE ~CreateMailbox /\ Same(mailboxes, mailboxes')
    <3>1. Exists(e.mailboxId)
      <4>1. CASE NoInsert
        BY <1>2, <4>1 DEF NoInsert, EmailRows
      <4>2. ASSUME NEW c \in Copy, NEW mid \in MsgId, NEW box \in MailboxId,
                   NEW raw \in BOOLEAN, Inserts(c, mid, box, raw)
            PROVE  Exists(e.mailboxId)
        BY <1>2, <4>2 DEF Inserts, InsertEmail, EmailRows
      <4> QED BY <4>1, <4>2, EmailsStep
    <3> QED BY <2>3, <3>1 DEF Exists, Same
  <2> QED BY <2>1, <2>2, <2>3, BoxesStep
<1> QED BY <1>1, <1>2 DEF EmailRows

\* A re-match holds the mailboxes it held, or some that are there now.
LEMMA BoxesHeld ==
    ASSUME TypeOK, [Next]_vars, NEW m \in Refresh
    PROVE  refresh'[m].boxes = refresh[m].boxes \/ refresh'[m].boxes \subseteq mailboxes
<1>0. refresh[m] \in RefreshState /\ refresh \in [Refresh -> RefreshState]
  BY DEF TypeOK
<1>1. CASE refresh' = refresh
  BY <1>1
<1>2. ASSUME NEW n \in Refresh, ReadMailboxes(n)
      PROVE  \/ refresh'[m].boxes = refresh[m].boxes
             \/ refresh'[m].boxes \subseteq mailboxes
  <2>1. PICK mine \in SUBSET mailboxes :
          refresh' = [refresh EXCEPT ![n].pc = "scan", ![n].boxes = mine]
    BY <1>2 DEF ReadMailboxes
  <2> QED BY <1>0, <2>1 DEF RefreshState
<1>3. ASSUME NEW n \in Refresh,
             ReadUnmatched(n) \/ AnnounceClaimed(n) \/ EndRefresh(n)
      PROVE  refresh'[m].boxes = refresh[m].boxes
  BY <1>0, <1>3 DEF ReadUnmatched, AnnounceClaimed, EndRefresh, RefreshState
<1>4. ASSUME NEW n \in Refresh, ClaimRow(n)
      PROVE  refresh'[m].boxes = refresh[m].boxes
  BY <1>0, <1>4 DEF ClaimRow, RefreshState
<1>5. ASSUME NEW d \in Delivery, DeliveryStep(d) PROVE refresh' = refresh
  BY <1>5 DEF DeliveryStep, Receive, LookupMailbox, SaveRaw, RecordInbound,
     CheckExisting, CreateEmail, CreateConflict, Announce, AbortDelivery
<1>6. ASSUME NEW p \in Purger, PurgeStep(p) PROVE refresh' = refresh
  BY <1>6 DEF PurgeStep, ReadForPurge, DeleteFile, DeleteRow, AbortPurge
<1>7. CASE CreateMailbox \/ UpdateMailbox \/ DeleteMailbox
  BY <1>1, <1>7 DEF CreateMailbox, UpdateMailbox, DeleteMailbox
<1> QED BY <1>1, <1>2, <1>3, <1>4, <1>5, <1>6, <1>7
        DEF Next, vars, DeliveryStep, PurgeStep

\* The recipient and the mailbox of a working delivery were seen before.
LEMMA DeliverySeen ==
    ASSUME TypeOK, [Next]_vars, NEW d \in Delivery, (delivery[d].pc \in Working)',
           delivery'[d].mailbox # NoMailbox
    PROVE  Seen(delivery'[d].mailbox, delivery'[d].to)
<1>1. CASE delivery'[d] = delivery[d]
  BY <1>1 DEF Seen
<1>2. CASE Receive(d)
  BY <1>2, ReceiveMoves DEF Working
<1>3. CASE LookupMailbox(d)
  BY <1>3, LookupMoves DEF Seen, Working
<1>4. CASE \/ SaveRaw(d) \/ RecordInbound(d) \/ CheckExisting(d) \/ CreateEmail(d)
           \/ CreateConflict(d) \/ Announce(d) \/ AbortDelivery(d)
  BY <1>4, Forward DEF Seen
<1>5. ASSUME NEW x \in Delivery, x # d, DeliveryStep(x)
      PROVE  delivery'[d] = delivery[d]
  BY <1>5, Forward, ReceiveMoves, LookupMoves DEF DeliveryStep
<1> QED BY <1>1, <1>2, <1>3, <1>4, <1>5, OthersStill DEF DeliveryStep

\* Only the creation of a mailbox makes one known.
LEMMA SeenStep ==
    ASSUME TypeOK, [Next]_vars, ~CreateMailbox, NEW id \in MailboxId, NEW a, Seen(id, a)'
    PROVE  Seen(id, a)
<1>1. CASE \E b \in mailboxes' : b.id = id /\ b.address = a
  BY <1>1, BoxesStep DEF Same, Seen
<1>2. CASE \E e \in everCreated' : e.mailboxId = id /\ e.copy[2] = a
  <2>1. CASE NoInsert
    BY <1>2, <2>1 DEF NoInsert, Seen
  <2>2. ASSUME NEW c \in Copy, NEW mid \in MsgId, NEW box \in MailboxId,
               NEW raw \in BOOLEAN, Inserts(c, mid, box, raw)
        PROVE  Seen(id, a)
    <3> DEFINE row == [id |-> nextEmail, copy |-> c, messageId |-> mid,
                       mailboxId |-> box, raw |-> raw]
    <3>1. everCreated' = everCreated \union {row} /\ Seen(box, c[2])
      BY <2>2 DEF Inserts, InsertEmail
    <3>2. row.mailboxId = box /\ row.copy = c
      OBVIOUS
    <3> HIDE DEF row
    <3>3. PICK e \in everCreated' : e.mailboxId = id /\ e.copy[2] = a
      BY <1>2
    <3>4. CASE e \in everCreated
      BY <3>3, <3>4 DEF Seen
    <3>5. CASE e = row
      BY <3>1, <3>2, <3>3, <3>5
    <3> QED BY <3>1, <3>4, <3>5
  <2> QED BY <2>1, <2>2, EmailsStep
<1>3. CASE \E d \in Delivery : /\ delivery'[d].pc \in Working
                               /\ delivery'[d].mailbox = id /\ delivery'[d].to = a
  BY <1>3, DeliverySeen
<1>4. CASE \E m \in Refresh : \E b \in refresh'[m].boxes : b.id = id /\ b.address = a
  BY <1>4, BoxesHeld DEF Seen
<1> QED BY <1>1, <1>2, <1>3, <1>4 DEF Seen

LEMMA OneAddressStep ==
    ASSUME TypeOK, OneAddress, [Next]_vars PROVE OneAddress'
<1>1. CASE ~CreateMailbox
  BY <1>1, SeenStep, BoxesStep DEF OneAddress
<1>2. CASE CreateMailbox
  <2>1. PICK id \in MailboxId \ usedMailboxes, a \in Address, u \in User :
          /\ mailboxes' = mailboxes \union
               {[id |-> id, address |-> a, userId |-> u, active |-> TRUE,
                 archived |-> FALSE, received |-> FALSE]}
          /\ usedMailboxes' = usedMailboxes \union {id}
    BY <1>2 DEF CreateMailbox
  <2>2. UNCHANGED <<everCreated, delivery, refresh>>
    BY <1>2 DEF CreateMailbox
  <2>3. \A box, x : Seen(box, x)' => Seen(box, x) \/ (box = id /\ x = a)
    BY <2>1, <2>2 DEF Seen
  <2> QED BY <2>1, <2>3 DEF OneAddress
<1> QED BY <1>1, <1>2

-----------------------------------------------------------------------------
(* Deliveries, their outcomes and the inbound rows. *)

\* A delivery that is over takes no step; one that has begun keeps its message.
LEMMA DeliverySteps ==
    ASSUME TypeOK, [Next]_vars, NEW d \in Delivery
    PROVE  /\ delivery[d].pc # "idle" => /\ delivery'[d].pc # "idle"
                                         /\ delivery'[d].messageId = delivery[d].messageId
           /\ delivery[d].pc \in {"done", "failed"} => delivery'[d] = delivery[d]
           /\ delivery'[d] # delivery[d] => DeliveryStep(d)
<1>1. CASE ~DeliveryStep(d)
  <2>1. delivery'[d] = delivery[d]
    BY <1>1, OthersStill, Forward, ReceiveMoves, LookupMoves DEF DeliveryStep
  <2> QED BY <2>1
<1>2. CASE DeliveryStep(d)
  BY <1>2, Forward, ReceiveMoves, LookupMoves DEF DeliveryStep
<1> QED BY <1>1, <1>2

\* Only the step of its delivery settles a copy, and a failure ends the delivery.
LEMMA OutcomeSteps ==
    ASSUME TypeOK, [Next]_vars, NEW c \in Copy, outcome'[c] # outcome[c]
    PROVE  /\ DeliveryStep(c[1]) /\ delivery[c[1]].pc \notin {"done", "failed"}
           /\ delivery'[c[1]].pc # "idle"
           /\ outcome'[c] = "failed" => delivery'[c[1]].pc = "failed"
           /\ outcome'[c] # "none"
<1>0. PICK d \in Delivery, a \in Address : c = <<d, a>>
  BY DEF Copy
<1>1. PICK x \in Delivery : DeliveryStep(x)
  BY OthersStill
<1>2. outcome \in [Copy -> Outcome] /\ delivery \in [Delivery -> DeliveryState]
  BY DEF TypeOK
<1>3. CASE Receive(x)
  BY <1>3 DEF Receive
<1>4. CASE LookupMailbox(x)
  <2>1. outcome' = outcome \/ \E to : outcome' = [outcome EXCEPT ![<<x, to>>] = "rejected"]
    BY <1>4 DEF LookupMailbox
  <2>2. PICK to : outcome' = [outcome EXCEPT ![<<x, to>>] = "rejected"]
    BY <2>1
  <2>3. c = <<x, to>> /\ outcome'[c] = "rejected"
    BY <1>2, <2>2
  <2> QED BY <1>0, <1>4, <2>3, LookupMoves DEF DeliveryStep
<1>5. CASE \/ SaveRaw(x) \/ RecordInbound(x) \/ CheckExisting(x) \/ CreateEmail(x)
           \/ CreateConflict(x) \/ Announce(x) \/ AbortDelivery(x)
  <2>1. /\ outcome' = outcome
           \/ \E how : /\ outcome' = [outcome EXCEPT ![MyCopy(x)] = how]
                       /\ how # "none"
                       /\ how = "failed" => delivery'[x].pc = "failed"
    BY <1>2, <1>5 DEF SaveRaw, RecordInbound, CheckExisting, CreateEmail,
       CreateConflict, Announce, AbortDelivery, EndCopy, DeliveryState
  <2>2. PICK how : /\ outcome' = [outcome EXCEPT ![MyCopy(x)] = how]
                   /\ how # "none"
                   /\ how = "failed" => delivery'[x].pc = "failed"
    BY <2>1
  <2>3. c = MyCopy(x) /\ outcome'[c] = how
    BY <1>2, <2>2
  <2>4. d = x
    BY <1>0, <2>3 DEF MyCopy
  <2> QED BY <1>0, <1>1, <1>5, <2>2, <2>3, <2>4, Forward
<1> QED BY <1>1, <1>3, <1>4, <1>5 DEF DeliveryStep

\* Every inbound row was there before, or is the one just recorded; a row that
\* a re-match has claimed is in the mailbox as an email.
LEMMA RowsFrom ==
    ASSUME TypeOK, MailboxIdsOK, EmailIds, [Next]_vars, NEW i \in inboundEmails'
    PROVE  \/ \E d \in Delivery : RecordInbound(d) /\ i = NewInbound(d)
           \/ \E j \in inboundEmails :
                /\ i.copy = j.copy /\ i.messageId = j.messageId /\ i.raw = j.raw
                /\ \/ i.mailboxId = j.mailboxId
                   \/ i.mailboxId = NoMailbox /\ ~Exists(j.mailboxId)'
                   \/ /\ j.mailboxId = NoMailbox
                      /\ \E e \in everCreated' : /\ e.mailboxId = i.mailboxId
                                                 /\ SameMessage(i, e)
<1> DEFINE Old == \E j \in inboundEmails :
                /\ i.copy = j.copy /\ i.messageId = j.messageId /\ i.raw = j.raw
                /\ \/ i.mailboxId = j.mailboxId
                   \/ i.mailboxId = NoMailbox /\ ~Exists(j.mailboxId)'
                   \/ /\ j.mailboxId = NoMailbox
                      /\ \E e \in everCreated' : /\ e.mailboxId = i.mailboxId
                                                 /\ SameMessage(i, e)
<1>1. CASE inboundEmails' = inboundEmails
  BY <1>1
<1>2. ASSUME NEW d \in Delivery, RecordInbound(d)
      PROVE  Old \/ i = NewInbound(d)
  BY <1>2 DEF RecordInbound, InboundAfter
<1>3. ASSUME NEW m \in Refresh, ClaimRow(m), inboundEmails' # inboundEmails PROVE Old
  <2>1. PICK j \in inboundEmails, b \in refresh[m].boxes :
          /\ inboundEmails' = (inboundEmails \ {j}) \union {[j EXCEPT !.mailboxId = b.id]}
          /\ j.mailboxId = NoMailbox
          /\ \/ EmailConflict(b.id, j.messageId) /\ UNCHANGED emailVars
             \/ InsertEmail(j.copy, j.messageId, b.id, j.raw)
    BY <1>3 DEF ClaimRow, StillUnmatched
  <2> DEFINE new == [j EXCEPT !.mailboxId = b.id]
  <2>2. /\ new.copy = j.copy /\ new.messageId = j.messageId
        /\ new.mailboxId = b.id /\ new.raw = j.raw
    BY DEF TypeOK, InboundEmail
  <2>3. inboundEmails' = (inboundEmails \ {j}) \union {new}
    BY <2>1
  <2> HIDE DEF new
  <2>4. \E e \in everCreated' : e.mailboxId = b.id /\ SameMessage(new, e)
    <3>1. CASE EmailConflict(b.id, j.messageId) /\ UNCHANGED emailVars
      BY <2>2, <3>1 DEF EmailConflict, emailVars, EmailIds, SameMessage
    <3>2. CASE InsertEmail(j.copy, j.messageId, b.id, j.raw)
      <4> DEFINE row == [id |-> nextEmail, copy |-> j.copy, messageId |-> j.messageId,
                         mailboxId |-> b.id, raw |-> j.raw]
      <4>1. row \in everCreated'
        BY <3>2 DEF InsertEmail
      <4>2. row.copy = j.copy /\ row.messageId = j.messageId /\ row.mailboxId = b.id
        OBVIOUS
      <4> HIDE DEF row
      <4> QED BY <2>2, <4>1, <4>2 DEF SameMessage
    <3> QED BY <2>1, <3>1, <3>2
  <2> QED BY <2>1, <2>2, <2>3, <2>4
<1>4. CASE DeleteMailbox
  <2>1. PICK b \in mailboxes :
          /\ mailboxes' = mailboxes \ {b}
          /\ inboundEmails' =
            {IF j.mailboxId = b.id THEN [j EXCEPT !.mailboxId = NoMailbox] ELSE j :
               j \in inboundEmails}
    BY <1>4 DEF DeleteMailbox
  <2>2. \A j \in inboundEmails :
          LET new == [j EXCEPT !.mailboxId = NoMailbox] IN
          /\ new.copy = j.copy /\ new.messageId = j.messageId
          /\ new.mailboxId = NoMailbox /\ new.raw = j.raw
    BY DEF TypeOK, InboundEmail
  <2>3. ~Exists(b.id)'
    BY <2>1 DEF Exists, MailboxIdsOK
  <2> QED BY <2>1, <2>2, <2>3
<1>5. ASSUME NEW d \in Delivery, DeliveryStep(d), ~RecordInbound(d)
      PROVE  inboundEmails' = inboundEmails
  BY <1>5 DEF DeliveryStep, Receive, LookupMailbox, SaveRaw, CheckExisting,
     CreateEmail, CreateConflict, Announce, AbortDelivery
<1>6. ASSUME NEW m \in Refresh, RefreshStep(m), ~ClaimRow(m)
      PROVE  inboundEmails' = inboundEmails
  BY <1>6 DEF RefreshStep, ReadMailboxes, ReadUnmatched, AnnounceClaimed, EndRefresh
<1>7. ASSUME NEW p \in Purger, PurgeStep(p) PROVE inboundEmails' = inboundEmails
  BY <1>7 DEF PurgeStep, ReadForPurge, DeleteFile, DeleteRow, AbortPurge
<1>8. CASE CreateMailbox \/ UpdateMailbox \/ UNCHANGED vars
  BY <1>1, <1>8 DEF CreateMailbox, UpdateMailbox, vars
<1> QED BY <1>1, <1>2, <1>3, <1>4, <1>5, <1>6, <1>7, <1>8
        DEF Next, DeliveryStep, RefreshStep, PurgeStep

\* No inbound row is ever deleted: it keeps its copy and its message.
LEMMA RowsKept ==
    ASSUME TypeOK, [Next]_vars, NEW j \in inboundEmails
    PROVE  \E i \in inboundEmails' : i.copy = j.copy /\ i.messageId = j.messageId
<1>1. CASE inboundEmails \subseteq inboundEmails'
  BY <1>1
<1>2. ASSUME NEW m \in Refresh, ClaimRow(m), inboundEmails' # inboundEmails
      PROVE  \E i \in inboundEmails' : i.copy = j.copy /\ i.messageId = j.messageId
  <2>1. PICK k \in inboundEmails, b \in refresh[m].boxes :
          inboundEmails' = (inboundEmails \ {k}) \union {[k EXCEPT !.mailboxId = b.id]}
    BY <1>2 DEF ClaimRow
  <2> DEFINE new == [k EXCEPT !.mailboxId = b.id]
  <2>2. new.copy = k.copy /\ new.messageId = k.messageId
    BY DEF TypeOK, InboundEmail
  <2>3. inboundEmails' = (inboundEmails \ {k}) \union {new}
    BY <2>1
  <2> HIDE DEF new
  <2> QED BY <2>2, <2>3
<1>3. CASE DeleteMailbox
  <2>1. PICK b \in mailboxes :
          inboundEmails' =
            {IF k.mailboxId = b.id THEN [k EXCEPT !.mailboxId = NoMailbox] ELSE k :
               k \in inboundEmails}
    BY <1>3 DEF DeleteMailbox
  <2>2. LET new == [j EXCEPT !.mailboxId = NoMailbox] IN
        new.copy = j.copy /\ new.messageId = j.messageId
    BY DEF TypeOK, InboundEmail
  <2> QED BY <2>1, <2>2
<1>4. ASSUME NEW d \in Delivery, DeliveryStep(d)
      PROVE  inboundEmails \subseteq inboundEmails'
  BY <1>4 DEF DeliveryStep, Receive, LookupMailbox, SaveRaw, CheckExisting,
     CreateEmail, CreateConflict, Announce, AbortDelivery, RecordInbound, InboundAfter
<1>5. ASSUME NEW m \in Refresh, RefreshStep(m), ~ClaimRow(m)
      PROVE  inboundEmails \subseteq inboundEmails'
  BY <1>5 DEF RefreshStep, ReadMailboxes, ReadUnmatched, AnnounceClaimed, EndRefresh
<1>6. ASSUME NEW p \in Purger, PurgeStep(p) PROVE inboundEmails' = inboundEmails
  BY <1>6 DEF PurgeStep, ReadForPurge, DeleteFile, DeleteRow, AbortPurge
<1>7. CASE CreateMailbox \/ UpdateMailbox \/ UNCHANGED vars
  BY <1>1, <1>7 DEF CreateMailbox, UpdateMailbox, vars
<1> QED BY <1>1, <1>2, <1>3, <1>4, <1>5, <1>6, <1>7
        DEF Next, DeliveryStep, RefreshStep, PurgeStep

LEMMA OutcomesStep ==
    ASSUME TypeOK, IInv, EmailIds, Outcomes, [Next]_vars PROVE Outcomes'
<1>1. \A c \in Copy : c[1] \in Delivery
  BY DEF Copy
<1>2. ASSUME NEW c \in Copy, outcome'[c] # "none"
      PROVE  delivery'[c[1]].pc # "idle"
  BY <1>1, <1>2, OutcomeSteps, DeliverySteps DEF Outcomes
<1>3. ASSUME NEW c \in Copy, outcome'[c] = "failed"
      PROVE  delivery'[c[1]].pc = "failed"
  BY <1>1, <1>3, OutcomeSteps, DeliverySteps DEF Outcomes
<1>4. ASSUME NEW i \in inboundEmails'
      PROVE  i.messageId = delivery'[i.copy[1]].messageId
  <2>1. ASSUME NEW d \in Delivery, RecordInbound(d), i = NewInbound(d)
        PROVE  i.messageId = delivery'[i.copy[1]].messageId
    BY <2>1, Forward DEF NewInbound, MyCopy
  <2>2. ASSUME NEW j \in inboundEmails, i.copy = j.copy, i.messageId = j.messageId
        PROVE  i.messageId = delivery'[i.copy[1]].messageId
    <3>1. j.copy[1] \in Delivery /\ delivery[j.copy[1]].pc # "idle"
      BY <1>1 DEF TypeOK, InboundEmail, IInv, RowsAgree, Recorded
    <3> QED BY <2>2, <3>1, DeliverySteps DEF Outcomes
  <2> QED BY <2>1, <2>2, RowsFrom DEF IInv
<1> QED BY <1>2, <1>3, <1>4 DEF Outcomes

-----------------------------------------------------------------------------
(* What was acknowledged is kept. *)

\* A row for the address of copy c holds its message.
Holds(rows, c, mid) ==
    \E r \in rows : /\ r.copy[2] = c[2]
                    /\ SameMessage([copy |-> c, messageId |-> mid], r)

LEMMA AcknowledgedHolds ==
    AcknowledgedKept <=>
      \A c \in Copy :
        /\ outcome[c] \in {"created", "duplicate"} =>
             Holds(everCreated, c, delivery[c[1]].messageId)
        /\ outcome[c] = "unmatched" =>
             Holds(inboundEmails, c, delivery[c[1]].messageId)
BY DEF AcknowledgedKept, Holds

\* Which step reports a recipient as handled, and what it found.
LEMMA Settles ==
    ASSUME TypeOK, [Next]_vars, NEW c \in Copy, outcome'[c] # outcome[c],
           outcome'[c] \in {"created", "duplicate", "unmatched"}
    PROVE  LET d == c[1] IN
           /\ d \in Delivery /\ delivery[d].pc \in Working /\ c = MyCopy(d)
           /\ delivery[d].pc # "idle"
           /\ outcome'[c] = "unmatched" => RecordInbound(d)
           /\ outcome'[c] = "created" => CreateEmail(d)
           /\ outcome'[c] = "duplicate" =>
                EmailConflict(delivery[d].mailbox, delivery[d].messageId)
<1>0. PICK d \in Delivery, a \in Address : c = <<d, a>>
  BY DEF Copy
<1>1. DeliveryStep(d)
  BY <1>0, OutcomeSteps
<1>2. outcome \in [Copy -> Outcome]
  BY DEF TypeOK
<1>3. CASE LookupMailbox(d)
  BY <1>2, <1>3 DEF LookupMailbox
<1>4. CASE Receive(d) \/ SaveRaw(d) \/ Announce(d)
  BY <1>4 DEF Receive, SaveRaw, Announce
<1>5. CASE RecordInbound(d)
  BY <1>0, <1>2, <1>5 DEF RecordInbound, EndCopy, MyCopy, Working
<1>6. CASE CheckExisting(d)
  BY <1>0, <1>2, <1>6 DEF CheckExisting, EndCopy, MyCopy, Working
<1>7. CASE CreateEmail(d)
  BY <1>0, <1>2, <1>7 DEF CreateEmail, MyCopy, Working
<1>8. CASE CreateConflict(d)
  BY <1>0, <1>2, <1>8 DEF CreateConflict, EndCopy, MyCopy, Working
<1>9. CASE AbortDelivery(d)
  BY <1>2, <1>9 DEF AbortDelivery
<1> QED BY <1>0, <1>1, <1>3, <1>4, <1>5, <1>6, <1>7, <1>8, <1>9 DEF DeliveryStep

\* The unique index is per mailbox, and a mailbox has one address: an email of
\* the same message there is one for the same address.
LEMMA ConflictHolds ==
    ASSUME TypeOK, EmailIds, OneAddress, NEW d \in Delivery,
           delivery[d].pc \in Working,
           EmailConflict(delivery[d].mailbox, delivery[d].messageId)
    PROVE  Holds(everCreated, MyCopy(d), delivery[d].messageId)
<1>1. PICK e \in emails : /\ e.mailboxId = delivery[d].mailbox
                          /\ e.messageId = delivery[d].messageId
                          /\ e.messageId # NoMessageId
  BY DEF EmailConflict
<1>2. e \in everCreated /\ e.mailboxId \in MailboxId /\ e.copy \in Copy
  BY DEF EmailIds, TypeOK, Email
<1>3. e.copy[2] \in Address /\ delivery[d].to \in Address
  BY <1>2 DEF Copy, TypeOK
<1>4. Seen(e.mailboxId, e.copy[2]) /\ Seen(e.mailboxId, delivery[d].to)
  BY <1>1, <1>2 DEF Seen
<1>5. e.copy[2] = MyCopy(d)[2]
  BY <1>2, <1>3, <1>4 DEF OneAddress, MyCopy
<1> QED BY <1>1, <1>2, <1>5 DEF Holds, SameMessage

LEMMA AcknowledgedStep ==
    ASSUME TypeOK, EmailIds, OneAddress, Outcomes, AcknowledgedKept, [Next]_vars
    PROVE  AcknowledgedKept'
<1>1. everCreated \subseteq everCreated'
  BY EmailsStep DEF NoInsert, Inserts, InsertEmail
<1>2. \A c, mid : Holds(everCreated, c, mid) => Holds(everCreated, c, mid)'
  BY <1>1 DEF Holds, SameMessage
<1>3. \A c, mid : Holds(inboundEmails, c, mid) => Holds(inboundEmails, c, mid)'
  BY RowsKept DEF Holds, SameMessage
<1>4. ASSUME NEW c \in Copy, outcome'[c] \in {"created", "duplicate", "unmatched"}
      PROVE  /\ outcome'[c] \in {"created", "duplicate"} =>
                  Holds(everCreated', c, delivery'[c[1]].messageId)
             /\ outcome'[c] = "unmatched" =>
                  Holds(inboundEmails', c, delivery'[c[1]].messageId)
  <2>0. PICK d \in Delivery, a \in Address : c = <<d, a>>
    BY DEF Copy
  <2>1. CASE outcome'[c] = outcome[c]
    <3>1. delivery'[d].messageId = delivery[d].messageId
      BY <1>4, <2>0, <2>1, DeliverySteps DEF Outcomes
    <3>2. /\ outcome[c] \in {"created", "duplicate"} =>
               Holds(everCreated, c, delivery[d].messageId)
          /\ outcome[c] = "unmatched" =>
               Holds(inboundEmails, c, delivery[d].messageId)
      BY <2>0, AcknowledgedHolds
    <3> QED BY <1>1, <2>0, <2>1, <3>1, <3>2, RowsKept DEF Holds, SameMessage
  <2>2. CASE outcome'[c] # outcome[c]
    <3>1. /\ delivery[d].pc \in Working /\ c = MyCopy(d)
          /\ delivery'[d].messageId = delivery[d].messageId
      BY <1>4, <2>0, <2>2, Settles, DeliverySteps
    <3>2. CASE outcome'[c] = "duplicate"
      <4>1. Holds(everCreated, c, delivery[d].messageId)
        BY <2>0, <2>2, <3>1, <3>2, Settles, ConflictHolds
      <4> QED BY <1>1, <2>0, <3>1, <3>2, <4>1 DEF Holds
    <3>3. CASE outcome'[c] = "created"
      <4> DEFINE row == [id |-> nextEmail, copy |-> MyCopy(d),
                         messageId |-> delivery[d].messageId,
                         mailboxId |-> delivery[d].mailbox, raw |-> delivery[d].raw]
      <4>1. CreateEmail(d)
        BY <2>0, <2>2, <3>3, Settles
      <4>2. row \in everCreated'
        BY <4>1 DEF CreateEmail, InsertEmail
      <4>3. row.copy = MyCopy(d) /\ row.messageId = delivery[d].messageId
        OBVIOUS
      <4> HIDE DEF row
      <4> QED BY <2>0, <3>1, <3>3, <4>2, <4>3 DEF Holds, SameMessage
    <3>4. CASE outcome'[c] = "unmatched"
      <4>1. inboundEmails' = InboundAfter(d)
        BY <2>0, <2>2, <3>4, Settles DEF RecordInbound
      <4>2. CASE DuplicateInbound(d)
        <5>1. Holds(inboundEmails, c, delivery[d].messageId)
          BY <3>1, <4>2 DEF DuplicateInbound, InboundConflict, Holds, SameMessage
        <5> QED BY <2>0, <3>1, <3>4, <4>1, <4>2, <5>1 DEF InboundAfter
      <4>3. CASE ~DuplicateInbound(d)
        <5>1. NewInbound(d) \in inboundEmails'
          BY <4>1, <4>3 DEF InboundAfter
        <5>2. NewInbound(d).copy = c /\ NewInbound(d).messageId = delivery[d].messageId
          BY <3>1 DEF NewInbound
        <5> QED BY <2>0, <3>1, <3>4, <5>1, <5>2 DEF Holds, SameMessage
      <4> QED BY <4>2, <4>3
    <3> QED BY <1>4, <3>2, <3>3, <3>4
  <2> QED BY <2>1, <2>2
<1> QED BY <1>4 DEF AcknowledgedKept, Holds, SameMessage

-----------------------------------------------------------------------------
(* What was claimed is delivered. *)

LEMMA ClaimedStep ==
    ASSUME TypeOK, IInv, EmailIds, EmailRows, Outcomes, ClaimedIsDelivered, [Next]_vars
    PROVE  ClaimedIsDelivered'
<1> DEFINE Good(i) ==
        \/ \E e \in everCreated' : e.mailboxId = i.mailboxId /\ SameMessage(i, e)
        \/ outcome'[i.copy] = "failed"
        \/ /\ delivery'[i.copy[1]].to = i.copy[2]
           /\ delivery'[i.copy[1]].pc \in {"check", "create"}
<1>0. everCreated \subseteq everCreated'
  BY EmailsStep DEF NoInsert, Inserts, InsertEmail
<1>1. ASSUME NEW i \in inboundEmails', NEW d \in Delivery, RecordInbound(d),
             i = NewInbound(d), i.mailboxId # NoMailbox
      PROVE  Good(i)
  <2>1. delivery[d].mailbox = i.mailboxId /\ i.copy = <<d, delivery[d].to>>
    BY <1>1 DEF NewInbound, MyCopy
  <2>2. delivery'[d].pc = "check"
    BY <1>1, <2>1 DEF RecordInbound, HasMailbox, TypeOK, DeliveryState
  <2>3. delivery'[d].to = delivery[d].to
    BY <1>1, Forward
  <2> QED BY <2>1, <2>2, <2>3
<1>2. ASSUME NEW i \in inboundEmails', NEW j \in inboundEmails,
             i.copy = j.copy, i.messageId = j.messageId,
             i.mailboxId = j.mailboxId, i.mailboxId # NoMailbox
      PROVE  Good(i)
  <2>0. PICK d \in Delivery, a \in Address : j.copy = <<d, a>>
    BY DEF TypeOK, InboundEmail, Copy
  <2>1. CASE \E e \in everCreated : e.mailboxId = j.mailboxId /\ SameMessage(j, e)
    BY <1>0, <1>2, <2>1 DEF SameMessage
  <2>2. CASE outcome[j.copy] = "failed"
    <3>1. j.copy \in Copy
      BY <2>0 DEF Copy
    <3>2. delivery[d].pc = "failed"
      BY <2>0, <2>2, <3>1 DEF Outcomes
    <3> QED BY <1>2, <2>0, <2>2, <3>1, <3>2, OutcomeSteps
  <2>3. CASE delivery[d].to = a /\ delivery[d].pc \in {"check", "create"}
    <3> DEFINE me == delivery[d]
    <3>1. j.copy = MyCopy(d) /\ j.messageId = me.messageId /\ MyCopy(d) \in Copy
      BY <2>0, <2>3 DEF MyCopy, Outcomes, Copy
    <3>2. Exists(me.mailbox) => j.mailboxId = me.mailbox
      BY <2>3, <3>1 DEF IInv, PendingOK
    <3>3. ASSUME EmailConflict(me.mailbox, me.messageId) PROVE Good(i)
      <4>1. PICK e \in emails : /\ e.mailboxId = me.mailbox
                                /\ e.messageId = me.messageId
                                /\ e.messageId # NoMessageId
        BY <3>3 DEF EmailConflict
      <4>2. e.mailboxId = j.mailboxId /\ e \in everCreated'
        BY <1>0, <3>2, <4>1 DEF EmailRows, EmailIds
      <4> QED BY <1>2, <3>1, <4>1, <4>2 DEF SameMessage
    <3>4. CASE delivery'[d] = delivery[d]
      BY <1>2, <2>0, <2>3, <3>4
    <3>5. CASE CheckExisting(d) /\ ~EmailConflict(me.mailbox, me.messageId)
      <4>1. delivery'[d].to = a /\ delivery'[d].pc = "create"
        BY <2>3, <3>5 DEF CheckExisting, TypeOK, DeliveryState
      <4> QED BY <1>2, <2>0, <4>1
    <3>6. CASE CreateEmail(d)
      <4> DEFINE row == [id |-> nextEmail, copy |-> MyCopy(d),
                         messageId |-> me.messageId, mailboxId |-> me.mailbox,
                         raw |-> me.raw]
      <4>1. row \in everCreated' /\ Exists(me.mailbox)
        BY <3>6 DEF CreateEmail, InsertEmail
      <4>2. /\ row.copy = MyCopy(d) /\ row.messageId = me.messageId
            /\ row.mailboxId = me.mailbox
        OBVIOUS
      <4> HIDE DEF row
      <4> QED BY <1>2, <3>1, <3>2, <4>1, <4>2 DEF SameMessage
    <3>7. CASE CreateConflict(d)
      BY <3>3, <3>7 DEF CreateConflict
    <3>8. CASE AbortDelivery(d)
      <4>1. outcome'[MyCopy(d)] = "failed"
        BY <2>3, <3>1, <3>8 DEF AbortDelivery, TypeOK
      <4> QED BY <1>2, <3>1, <4>1
    <3>9. CASE Receive(d) \/ LookupMailbox(d) \/ SaveRaw(d) \/ RecordInbound(d) \/ Announce(d)
      BY <2>3, <3>9 DEF Receive, LookupMailbox, SaveRaw, RecordInbound, Announce
    <3> HIDE DEF Good
    <3> QED BY <3>3, <3>4, <3>5, <3>6, <3>7, <3>8, <3>9, DeliverySteps DEF DeliveryStep
  <2> HIDE DEF Good
  <2> QED BY <1>2, <2>0, <2>1, <2>2, <2>3 DEF ClaimedIsDelivered
<1>3. \A i \in inboundEmails' : i.mailboxId # NoMailbox => Good(i)
  BY <1>1, <1>2, RowsFrom DEF IInv
<1> QED BY <1>3 DEF ClaimedIsDelivered, SameMessage

-----------------------------------------------------------------------------
(* Recipients: how one is handled, and what is left of it. *)

\* Something may be saved or recorded of a recipient once it has left todo.
Begun(c) == delivery[c[1]].pc # "idle" /\ c[2] \notin delivery[c[1]].todo

InHand == {"raw", "inbound", "check", "create"}

LEMMA BegunKept ==
    ASSUME TypeOK, [Next]_vars, NEW c \in Copy, Begun(c)
    PROVE  Begun(c)' /\ (Recorded(c) => Recorded(c)')
<1>0. PICK d \in Delivery, a \in Address : c = <<d, a>>
  BY DEF Copy
<1>1. CASE delivery'[d] = delivery[d]
  BY <1>0, <1>1 DEF Begun, Recorded
<1>2. CASE LookupMailbox(d)
  BY <1>0, <1>2, LookupMoves DEF Begun, Recorded
<1>3. CASE Receive(d)
  BY <1>0, <1>3, ReceiveMoves DEF Begun
<1>4. CASE \/ SaveRaw(d) \/ RecordInbound(d) \/ CheckExisting(d) \/ CreateEmail(d)
           \/ CreateConflict(d) \/ Announce(d) \/ AbortDelivery(d)
  <2>1. delivery'[d].pc \in {"raw", "inbound"} => delivery[d].pc = "raw"
    BY <1>4 DEF SaveRaw, RecordInbound, CheckExisting, CreateEmail, CreateConflict,
       Announce, AbortDelivery, EndCopy, NextRecipient, TypeOK, DeliveryState
  <2> QED BY <1>0, <1>4, <2>1, Forward DEF Begun, Recorded
<1> QED BY <1>1, <1>2, <1>3, <1>4, DeliverySteps DEF DeliveryStep

\* A raw file is named only when it was saved.
LEMMA SavedRaw ==
    ASSUME TypeOK, NEW d \in Delivery, SaveRaw(d)
    PROVE  /\ delivery[d].pc = "raw" /\ delivery'[d].pc = "inbound"
           /\ delivery'[d].raw => MyCopy(d) \in files'
<1>1. PICK saved \in BOOLEAN :
        /\ delivery' = [delivery EXCEPT ![d] =
             [delivery[d] EXCEPT !.pc = "inbound", !.raw = saved]]
        /\ files' = IF saved THEN files \union {MyCopy(d)} ELSE files
  BY DEF SaveRaw
<1> DEFINE me == [delivery[d] EXCEPT !.pc = "inbound", !.raw = saved]
<1>2. me.pc = "inbound" /\ me.raw = saved
  BY DEF TypeOK, DeliveryState
<1>3. delivery'[d] = me
  BY <1>1 DEF TypeOK
<1> HIDE DEF me
<1>4. delivery[d].pc = "raw"
  BY DEF SaveRaw
<1> QED BY <1>1, <1>2, <1>3, <1>4

\* Where a recipient stays or comes to be in hand.
LEMMA StaysInHand ==
    ASSUME TypeOK, NEW d \in Delivery,
           \/ SaveRaw(d) \/ RecordInbound(d) \/ CheckExisting(d) \/ CreateEmail(d)
           \/ CreateConflict(d) \/ Announce(d) \/ AbortDelivery(d)
    PROVE  /\ delivery[d].pc \in InHand =>
                delivery'[d].pc \in InHand \/ outcome'[MyCopy(d)] # "none"
           /\ delivery'[d].pc = "done" =>
                delivery[d].todo = {} \/ (CreateConflict(d) /\ delivery[d].source = "WEBHOOK")
           /\ delivery'[d].pc \in {"check", "create"} =>
                RecordInbound(d) \/ delivery[d].pc \in {"check", "create"}
           /\ delivery'[d].pc = "inbound" => SaveRaw(d)
<1>0. /\ outcome \in [Copy -> Outcome] /\ delivery \in [Delivery -> DeliveryState]
      /\ delivery[d] \in DeliveryState
  BY DEF TypeOK
<1>1. delivery[d].pc \in InHand => MyCopy(d) \in Copy
  BY MyCopyTyped DEF InHand, Working
<1>2. CASE SaveRaw(d)
  BY <1>2, SavedRaw DEF SaveRaw, InHand
<1>3. CASE RecordInbound(d)
  BY <1>0, <1>1, <1>3 DEF RecordInbound, EndCopy, NextRecipient, InHand, DeliveryState
<1>4. CASE CheckExisting(d)
  BY <1>0, <1>1, <1>4 DEF CheckExisting, EndCopy, NextRecipient, InHand, DeliveryState
<1>5. CASE CreateEmail(d)
  BY <1>0, <1>1, <1>5 DEF CreateEmail, InHand, DeliveryState
<1>6. CASE CreateConflict(d)
  BY <1>0, <1>1, <1>6 DEF CreateConflict, EndCopy, InHand, DeliveryState
<1>7. CASE Announce(d)
  BY <1>0, <1>7 DEF Announce, NextRecipient, InHand, DeliveryState
<1>8. CASE AbortDelivery(d)
  BY <1>0, <1>1, <1>8 DEF AbortDelivery, InHand, DeliveryState
<1> QED BY <1>2, <1>3, <1>4, <1>5, <1>6, <1>7, <1>8

\* Who inserts an email: a delivery its own copy, a re-match the copy of a row
\* that was unmatched until then.
ByDelivery(d) ==
    LET row == [id |-> nextEmail, copy |-> MyCopy(d), messageId |-> delivery[d].messageId,
                mailboxId |-> delivery[d].mailbox, raw |-> delivery[d].raw]
    IN /\ CreateEmail(d)
       /\ emails' = emails \union {row} /\ everCreated' = everCreated \union {row}

ByRefresh(i, box) ==
    LET row == [id |-> nextEmail, copy |-> i.copy, messageId |-> i.messageId,
                mailboxId |-> box, raw |-> i.raw]
    IN /\ i.mailboxId = NoMailbox /\ Exists(box)
       /\ emails' = emails \union {row} /\ everCreated' = everCreated \union {row}
       /\ inboundEmails' = (inboundEmails \ {i}) \union {[i EXCEPT !.mailboxId = box]}
       /\ UNCHANGED <<delivery, usedMailboxes>>

LEMMA InsertedBy ==
    ASSUME TypeOK, [Next]_vars
    PROVE  \/ everCreated' = everCreated /\ emails' \subseteq emails
           \/ \E d \in Delivery : ByDelivery(d)
           \/ \E i \in inboundEmails, box \in MailboxId : ByRefresh(i, box)
<1> DEFINE Nothing == everCreated' = everCreated /\ emails' \subseteq emails
<1>1. CASE UNCHANGED vars
  BY <1>1 DEF vars
<1>2. ASSUME NEW d \in Delivery, DeliveryStep(d), ~CreateEmail(d) PROVE Nothing
  BY <1>2 DEF DeliveryStep, Receive, LookupMailbox, SaveRaw, RecordInbound,
     CheckExisting, CreateConflict, Announce, AbortDelivery, emailVars
<1>3. ASSUME NEW d \in Delivery, CreateEmail(d) PROVE ByDelivery(d)
  BY <1>3 DEF CreateEmail, InsertEmail, ByDelivery
<1>4. ASSUME NEW m \in Refresh, ClaimRow(m)
      PROVE  Nothing \/ \E i \in inboundEmails, box \in MailboxId : ByRefresh(i, box)
  <2>1. \A b \in refresh[m].boxes : b.id \in MailboxId
    BY DEF TypeOK, RefreshState, Mailbox
  <2> QED BY <1>4, <2>1 DEF ClaimRow, StillUnmatched, InsertEmail, emailVars, ByRefresh
<1>5. ASSUME NEW m \in Refresh, RefreshStep(m), ~ClaimRow(m) PROVE Nothing
  BY <1>5 DEF RefreshStep, ReadMailboxes, ReadUnmatched, AnnounceClaimed,
              EndRefresh, emailVars
<1>6. ASSUME NEW p \in Purger, PurgeStep(p) PROVE Nothing
  BY <1>6 DEF PurgeStep, ReadForPurge, DeleteFile, DeleteRow, AbortPurge, emailVars
<1>7. CASE CreateMailbox \/ UpdateMailbox \/ DeleteMailbox
  BY <1>7 DEF CreateMailbox, UpdateMailbox, DeleteMailbox
<1> QED BY <1>1, <1>2, <1>3, <1>4, <1>5, <1>6, <1>7
        DEF Next, DeliveryStep, RefreshStep, PurgeStep

\* Files come from the delivery of their copy and go by a purge.
LEMMA FilesStep ==
    ASSUME TypeOK, [Next]_vars
    PROVE  \/ files' = files
           \/ \E d \in Delivery : SaveRaw(d) /\ files' = files \union {MyCopy(d)}
           \/ \E p \in Purger : DeleteFile(p) /\ files' = files \ {purge[p].copy}
BY DEF Next, vars, Receive, LookupMailbox, SaveRaw, RecordInbound, CheckExisting,
   CreateEmail, CreateConflict, Announce, AbortDelivery, ReadMailboxes, ReadUnmatched,
   ClaimRow, AnnounceClaimed, EndRefresh, ReadForPurge, DeleteFile, DeleteRow,
   AbortPurge, CreateMailbox, UpdateMailbox, DeleteMailbox

LEMMA HandledStep ==
    ASSUME TypeOK, IInv, Handled, [Next]_vars PROVE Handled'
<1> DEFINE Fine(d) ==
       /\ delivery'[d].pc = "idle" => delivery'[d].asked = {}
       /\ delivery'[d].pc = "done" => delivery'[d].todo = {}
       /\ delivery'[d].source = "WEBHOOK" =>
            /\ \A a, b \in delivery'[d].todo : a = b
            /\ delivery'[d].pc \in Working => delivery'[d].todo = {}
       /\ \A a \in delivery'[d].asked \ delivery'[d].todo :
            \/ outcome'[<<d, a>>] # "none"
            \/ a = delivery'[d].to /\ delivery'[d].pc \in InHand
<1>0. \A d \in Delivery : delivery[d].asked \subseteq Address /\ delivery[d].todo \subseteq Address
  BY DEF TypeOK, DeliveryState
<1>1. ASSUME NEW d \in Delivery PROVE Fine(d)
  <2>0. \A a \in delivery[d].asked \ delivery[d].todo :
          outcome[<<d, a>>] # "none" => outcome'[<<d, a>>] # "none"
    <3>1. \A a \in Address : <<d, a>> \in Copy
      BY DEF Copy
    <3> QED BY <1>0, <3>1, OutcomeSteps
  <2>1. CASE delivery'[d] = delivery[d]
    BY <2>0, <2>1 DEF Handled, InHand
  <2>2. CASE Receive(d)
    BY <2>2, ReceiveMoves DEF Working
  <2>3. CASE LookupMailbox(d)
    <3>1. delivery'[d].pc # "raw" => outcome'[<<d, delivery'[d].to>>] # "none"
      BY <2>3, LookupRejects
    <3> QED BY <2>0, <2>3, <3>1, LookupMoves DEF Handled, InHand
  <2>4. CASE \/ SaveRaw(d) \/ RecordInbound(d) \/ CheckExisting(d) \/ CreateEmail(d)
             \/ CreateConflict(d) \/ Announce(d) \/ AbortDelivery(d)
    <3>1. /\ delivery'[d].asked = delivery[d].asked /\ delivery'[d].todo = delivery[d].todo
          /\ delivery'[d].source = delivery[d].source /\ delivery'[d].to = delivery[d].to
          /\ delivery'[d].pc # "idle"
          /\ delivery'[d].pc \in Working => delivery[d].pc \in Working
      BY <2>4, Forward
    <3>2. delivery'[d].pc = "done" => delivery[d].todo = {}
      BY <2>4, StaysInHand DEF CreateConflict, Working, Handled
    <3>3. \A a \in delivery[d].asked \ delivery[d].todo :
            \/ outcome'[<<d, a>>] # "none"
            \/ a = delivery[d].to /\ delivery'[d].pc \in InHand
      BY <2>0, <2>4, StaysInHand DEF Handled, InHand, MyCopy
    <3> QED BY <3>1, <3>2, <3>3 DEF Handled
  <2> QED BY <2>1, <2>2, <2>3, <2>4, DeliverySteps DEF DeliveryStep
<1>2. ASSUME NEW e \in everCreated' PROVE Recorded(e.copy)'
  <2>1. ASSUME NEW c \in Copy, Recorded(c) PROVE Recorded(c)'
    BY <2>1, BegunKept DEF Recorded, Begun
  <2>2. CASE e \in everCreated
    BY <2>1, <2>2 DEF TypeOK, Email, Handled
  <2>3. ASSUME NEW d \in Delivery, ByDelivery(d), e \notin everCreated
        PROVE  Recorded(e.copy)'
    <3>1. e.copy = MyCopy(d) /\ CreateEmail(d)
      BY <2>3 DEF ByDelivery
    <3>2. delivery'[d].to = delivery[d].to /\ delivery'[d].todo = delivery[d].todo
      BY <3>1, Forward
    <3>3. delivery'[d].pc = "announce" /\ delivery[d].to \notin delivery[d].todo
      BY <3>1 DEF CreateEmail, TypeOK, DeliveryState, IInv, DeliveryOK, Working
    <3> QED BY <3>1, <3>2, <3>3 DEF Recorded, MyCopy
  <2>4. ASSUME NEW i \in inboundEmails, NEW box, ByRefresh(i, box), e \notin everCreated
        PROVE  Recorded(e.copy)'
    <3>1. e.copy = i.copy
      BY <2>4 DEF ByRefresh
    <3> QED BY <2>1, <3>1 DEF TypeOK, InboundEmail, IInv, RowsAgree
  <2> QED BY <2>2, <2>3, <2>4, InsertedBy
<1>3. ASSUME NEW c \in files' PROVE Begun(c)'
  <2>1. CASE c \in files
    BY <2>1, BegunKept DEF TypeOK, Handled, Begun
  <2>2. ASSUME NEW d \in Delivery, SaveRaw(d), c = MyCopy(d) PROVE Begun(c)'
    <3>1. delivery[d].to \notin delivery[d].todo
      BY <2>2 DEF SaveRaw, IInv, DeliveryOK, Working
    <3> QED BY <2>2, <3>1, Forward DEF Begun, MyCopy
  <2> QED BY <2>1, <2>2, FilesStep
<1> QED BY <1>1, <1>2, <1>3 DEF Handled, Begun, InHand

\* No mailbox comes back under its id.
LEMMA StillGone ==
    ASSUME TypeOK, [Next]_vars, NEW id \in usedMailboxes, ~Exists(id)
    PROVE  ~Exists(id)'
<1>1. CASE CreateMailbox
  BY <1>1 DEF CreateMailbox, Exists
<1>2. CASE ~CreateMailbox
  BY <1>2, BoxesStep DEF Same, Exists
<1> QED BY <1>1, <1>2

LEMMA OnceStep ==
    ASSUME TypeOK, IInv, EmailIds, OneAddress, Handled, OnceInMailbox, [Next]_vars
    PROVE  OnceInMailbox'
<1>0. /\ \A q \in everCreated : /\ q.mailboxId \in usedMailboxes /\ q.copy \in Copy
                                /\ q.mailboxId \in MailboxId
      /\ \A i \in inboundEmails : i.copy \in Copy
  <2>1. ASSUME NEW q \in everCreated PROVE q.mailboxId \in usedMailboxes
    <3>1. q.copy[2] \in Address /\ q.mailboxId \in MailboxId
      BY DEF TypeOK, Email, Copy
    <3> QED BY <3>1 DEF OneAddress, Seen
  <2> QED BY <2>1 DEF TypeOK, Email, InboundEmail
<1>1. ASSUME NEW q \in everCreated, Exists(q.mailboxId)'
      PROVE  /\ \A i \in inboundEmails' : i.copy = q.copy => i.mailboxId = q.mailboxId
             /\ \A e \in emails' : e.copy = q.copy => e = q
  <2>1. Exists(q.mailboxId)
    BY <1>0, <1>1, StillGone
  <2>2. ASSUME NEW i \in inboundEmails', i.copy = q.copy
        PROVE  i.mailboxId = q.mailboxId
    <3>1. ASSUME NEW d \in Delivery, RecordInbound(d), i = NewInbound(d) PROVE FALSE
      <4>1. i.copy = MyCopy(d) /\ delivery[d].pc = "inbound"
        BY <3>1 DEF NewInbound, RecordInbound
      <4>2. Recorded(q.copy)
        BY DEF Handled
      <4>3. ~Recorded(MyCopy(d))
        BY <4>1 DEF Recorded, MyCopy
      <4> QED BY <2>2, <4>1, <4>2, <4>3
    <3>2. ASSUME NEW j \in inboundEmails, i.copy = j.copy PROVE j.mailboxId = q.mailboxId
      BY <2>1, <2>2, <3>2 DEF OnceInMailbox
    <3> QED BY <1>0, <1>1, <3>1, <3>2, RowsFrom, NullsAssumption DEF IInv
  <2>3. ASSUME NEW e \in emails', e.copy = q.copy PROVE e = q
    <3>1. CASE e \in emails
      BY <2>1, <2>3, <3>1 DEF OnceInMailbox
    <3>2. ASSUME NEW d \in Delivery, ByDelivery(d), e \notin emails PROVE FALSE
      <4>1. e.copy = MyCopy(d) /\ CreateEmail(d)
        BY <3>2 DEF ByDelivery
      <4> QED BY <2>3, <4>1 DEF CreateEmail, OnceInMailbox
    <3>3. ASSUME NEW i \in inboundEmails, NEW box, ByRefresh(i, box), e \notin emails
          PROVE  FALSE
      <4>1. e.copy = i.copy /\ i.mailboxId = NoMailbox
        BY <3>3 DEF ByRefresh
      <4> QED BY <1>0, <2>1, <2>3, <4>1, NullsAssumption DEF OnceInMailbox
    <3> QED BY <3>1, <3>2, <3>3, InsertedBy
  <2> QED BY <2>2, <2>3
<1>2. ASSUME NEW q \in everCreated', q \notin everCreated
      PROVE  /\ \A i \in inboundEmails' : i.copy = q.copy => i.mailboxId = q.mailboxId
             /\ \A e \in emails' : e.copy = q.copy => e = q
  <2>1. ASSUME NEW d \in Delivery, ByDelivery(d)
        PROVE  /\ \A i \in inboundEmails' : i.copy = q.copy => i.mailboxId = q.mailboxId
               /\ \A e \in emails' : e.copy = q.copy => e = q
    <3>1. /\ CreateEmail(d) /\ q.copy = MyCopy(d) /\ q.mailboxId = delivery[d].mailbox
          /\ emails' = emails \union {q}
      BY <1>2, <2>1 DEF ByDelivery
    <3>2. inboundEmails' = inboundEmails /\ PendingOK(d)
      BY <3>1 DEF CreateEmail, IInv
    <3> QED BY <3>1, <3>2 DEF PendingOK, CreateEmail
  <2>2. ASSUME NEW i \in inboundEmails, NEW box, ByRefresh(i, box)
        PROVE  /\ \A j \in inboundEmails' : j.copy = q.copy => j.mailboxId = q.mailboxId
               /\ \A e \in emails' : e.copy = q.copy => e = q
    <3>1. /\ q.copy = i.copy /\ q.mailboxId = box /\ i.mailboxId = NoMailbox
          /\ emails' = emails \union {q}
          /\ inboundEmails' = (inboundEmails \ {i}) \union {[i EXCEPT !.mailboxId = box]}
      BY <1>2, <2>2 DEF ByRefresh
    <3>2. [i EXCEPT !.mailboxId = box].mailboxId = box
      BY DEF TypeOK, InboundEmail
    <3>3. \A j \in inboundEmails : j.copy = i.copy => j = i
      BY DEF IInv, RowsAgree
    <3>4. \A e \in emails : e.copy # i.copy
      BY <3>1, NullsAssumption DEF IInv, RowsAgree, TypeOK, Email
    <3> QED BY <3>1, <3>2, <3>3, <3>4
  <2> QED BY <1>2, <2>1, <2>2, InsertedBy
<1>3. ASSUME NEW d \in Delivery, delivery'[d].pc \in {"check", "create"},
             Exists(delivery[d].mailbox)', NEW q \in everCreated'
      PROVE  q.copy # MyCopy(d)'
  <2>1. CASE RecordInbound(d)
    <3>1. ~Recorded(MyCopy(d)) /\ everCreated' = everCreated /\ MyCopy(d)' = MyCopy(d)
      BY <2>1, Forward DEF RecordInbound, Recorded, MyCopy, emailVars
    <3> QED BY <3>1 DEF Handled
  <2>2. CASE ~RecordInbound(d)
    <3>1. /\ delivery[d].pc \in {"check", "create"}
          /\ delivery'[d].to = delivery[d].to /\ delivery'[d].mailbox = delivery[d].mailbox
      <4>1. CASE delivery'[d] = delivery[d]
        BY <1>3, <4>1
      <4>2. CASE DeliveryStep(d)
        BY <1>3, <2>2, <4>2, Forward, StaysInHand, ReceiveMoves, LookupMoves
           DEF DeliveryStep
      <4> QED BY <4>1, <4>2, DeliverySteps
    <3>2. Exists(delivery[d].mailbox) /\ MyCopy(d)' = MyCopy(d)
      <4>1. delivery[d].mailbox \in usedMailboxes
        BY <3>1 DEF IInv, DeliveryOK, MailboxIdsOK
      <4> QED BY <1>3, <3>1, <4>1, StillGone DEF MyCopy, Exists
    <3>3. CASE q \in everCreated
      BY <3>1, <3>2, <3>3 DEF OnceInMailbox
    <3>4. ASSUME NEW x \in Delivery, ByDelivery(x), q \notin everCreated
          PROVE  q.copy # MyCopy(d)
      <4>1. q.copy = MyCopy(x) /\ CreateEmail(x)
        BY <3>4 DEF ByDelivery
      <4>2. x # d
        BY <1>3, <4>1 DEF CreateEmail, TypeOK, DeliveryState
      <4> QED BY <4>1, <4>2 DEF MyCopy
    <3>5. ASSUME NEW i \in inboundEmails, NEW box, ByRefresh(i, box), q \notin everCreated
          PROVE  q.copy # MyCopy(d)
      <4>1. q.copy = i.copy /\ i.mailboxId = NoMailbox
        BY <3>5 DEF ByRefresh
      <4>2. PendingOK(d) /\ DeliveryOK(d)
        BY DEF IInv
      <4> QED BY <3>1, <3>2, <4>1, <4>2 DEF PendingOK, DeliveryOK
    <3> QED BY <3>2, <3>3, <3>4, <3>5, InsertedBy
  <2> QED BY <2>1, <2>2
<1> QED BY <1>1, <1>2, <1>3 DEF OnceInMailbox

LEMMA TakenStays ==
    ASSUME TypeOK, [Next]_vars, NEW c, Taken(c) PROVE Taken(c)'
<1>1. PICK p \in Purger, q \in everCreated :
        /\ purge[p].pc \in {"row", "done"} /\ q.id = purge[p].id /\ q.copy = c
  BY DEF Taken
<1>2. everCreated \subseteq everCreated'
  BY EmailsStep DEF NoInsert, Inserts, InsertEmail
<1>3. purge'[p].pc \in {"row", "done"} /\ purge'[p].id = purge[p].id
  <2>0. purge[p] \in PurgeState /\ purge \in [Purger -> PurgeState]
    BY DEF TypeOK
  <2>1. CASE purge' = purge
    BY <1>1, <2>1
  <2>2. ASSUME NEW r \in Purger, PurgeStep(r)
        PROVE  purge'[p].pc \in {"row", "done"} /\ purge'[p].id = purge[p].id
    BY <1>1, <2>0, <2>2 DEF PurgeStep, ReadForPurge, DeleteFile, DeleteRow, AbortPurge,
       PurgeState
  <2> QED BY <2>1, <2>2 DEF Next, PurgeStep, vars, Receive, LookupMailbox, SaveRaw,
        RecordInbound, CheckExisting, CreateEmail, CreateConflict, Announce,
        AbortDelivery, ReadMailboxes, ReadUnmatched, ClaimRow, AnnounceClaimed,
        EndRefresh, CreateMailbox, UpdateMailbox, DeleteMailbox
<1> QED BY <1>1, <1>2, <1>3 DEF Taken

\* The file that is deleted is taken by the purge that deletes it.
LEMMA FileStays ==
    ASSUME TypeOK, EmailIds, EmailIds', [Next]_vars, NEW c,
           c \in files \/ Taken(c)
    PROVE  (c \in files \/ Taken(c))'
<1>1. CASE Taken(c)
  BY <1>1, TakenStays
<1>2. ASSUME NEW p \in Purger, DeleteFile(p), c = purge[p].copy PROVE Taken(c)'
  <2>1. PICK q \in everCreated : q.id = purge[p].id /\ q.copy = purge[p].copy
    BY <1>2 DEF DeleteFile, EmailIds
  <2>2. everCreated' = everCreated
    BY <1>2 DEF DeleteFile, emailVars
  <2>3. purge'[p].pc = "row" /\ purge'[p].id = purge[p].id
    BY <1>2 DEF DeleteFile, TypeOK, PurgeState
  <2> QED BY <1>2, <2>1, <2>2, <2>3 DEF Taken
<1> QED BY <1>1, <1>2, FilesStep

LEMMA FileStep ==
    ASSUME TypeOK, IInv, EmailIds, EmailIds', FileOrTaken, [Next]_vars
    PROVE  FileOrTaken'
<1> DEFINE Kept(c) ==
        \/ c \in files'
        \/ \E p \in Purger, q \in everCreated' :
              /\ purge'[p].pc \in {"row", "done"}
              /\ q.id = purge'[p].id /\ q.copy = c
<1>0. ASSUME NEW c, c \in files \/ Taken(c) PROVE Kept(c)
  BY <1>0, FileStays DEF Taken
<1>1. ASSUME NEW d \in Delivery, delivery[d].raw,
             delivery[d].pc \in {"inbound", "check", "create"}
      PROVE  Kept(MyCopy(d))
  BY <1>0, <1>1 DEF FileOrTaken
<1>2. ASSUME NEW i \in inboundEmails, i.raw PROVE Kept(i.copy)
  BY <1>0, <1>2 DEF FileOrTaken
<1>3. ASSUME NEW i \in inboundEmails', i.raw PROVE Kept(i.copy)
  <2>1. ASSUME NEW d \in Delivery, RecordInbound(d), i = NewInbound(d)
        PROVE  Kept(i.copy)
    <3>1. delivery[d].raw /\ delivery[d].pc = "inbound" /\ i.copy = MyCopy(d)
      BY <1>3, <2>1 DEF NewInbound, RecordInbound
    <3> QED BY <1>1, <3>1
  <2> HIDE DEF Kept
  <2> QED BY <1>2, <1>3, <2>1, RowsFrom DEF IInv
<1>4. ASSUME NEW e \in everCreated', e.raw PROVE Kept(e.copy)
  <2>1. CASE e \in everCreated
    BY <1>0, <1>4, <2>1 DEF FileOrTaken
  <2>2. ASSUME NEW d \in Delivery, ByDelivery(d), e \notin everCreated
        PROVE  Kept(e.copy)
    <3>1. e.copy = MyCopy(d) /\ e.raw = delivery[d].raw /\ delivery[d].pc = "create"
      BY <2>2 DEF ByDelivery, CreateEmail
    <3> QED BY <1>1, <1>4, <3>1
  <2>3. ASSUME NEW i \in inboundEmails, NEW box, ByRefresh(i, box), e \notin everCreated
        PROVE  Kept(e.copy)
    <3>1. e.copy = i.copy /\ e.raw = i.raw
      BY <2>3 DEF ByRefresh
    <3> QED BY <1>2, <1>4, <3>1
  <2> HIDE DEF Kept
  <2> QED BY <2>1, <2>2, <2>3, InsertedBy
<1>5. ASSUME NEW d \in Delivery, delivery'[d].raw,
             delivery'[d].pc \in {"inbound", "check", "create"}
      PROVE  Kept(MyCopy(d)) /\ MyCopy(d)' = MyCopy(d)
  <2>1. CASE delivery'[d] = delivery[d]
    BY <1>1, <1>5, <2>1 DEF MyCopy
  <2>2. CASE SaveRaw(d)
    BY <1>5, <2>2, SavedRaw, Forward DEF MyCopy
  <2>3. CASE DeliveryStep(d) /\ ~SaveRaw(d)
    <3>1. /\ delivery[d].raw /\ MyCopy(d)' = MyCopy(d)
          /\ delivery[d].pc \in {"inbound", "check", "create"}
      BY <1>5, <2>3, Forward, StaysInHand, ReceiveMoves, LookupMoves
         DEF DeliveryStep, RecordInbound, MyCopy
    <3> QED BY <1>1, <3>1
  <2> HIDE DEF Kept
  <2> QED BY <2>1, <2>2, <2>3, DeliverySteps
<1>6. ASSUME NEW d \in Delivery, delivery'[d].raw,
             delivery'[d].pc \in {"inbound", "check", "create"}
      PROVE  (MyCopy(d) \in files \/ Taken(MyCopy(d)))'
  <2>1. Kept(MyCopy(d)) /\ MyCopy(d)' = MyCopy(d)
    BY <1>5, <1>6
  <2>2. CASE MyCopy(d) \in files'
    BY <2>1, <2>2
  <2>3. ASSUME NEW p \in Purger, NEW q \in everCreated',
               purge'[p].pc \in {"row", "done"}, q.id = purge'[p].id, q.copy = MyCopy(d)
        PROVE  Taken(MyCopy(d))'
    <3>1. q.copy = MyCopy(d)'
      BY <2>1, <2>3
    <3> QED BY <2>3, <3>1 DEF Taken
  <2> QED BY <2>1, <2>2, <2>3
<1>7. ASSUME NEW r \in inboundEmails' \union everCreated', r.raw
      PROVE  r.copy \in files' \/ Taken(r.copy)'
  BY <1>3, <1>4, <1>7 DEF Taken
<1> QED BY <1>6, <1>7 DEF FileOrTaken

-----------------------------------------------------------------------------
(* The theorems. *)

LEMMA InitKept == Init => KeptInv
<1> SUFFICES ASSUME Init PROVE KeptInv
  OBVIOUS
<1>1. EmailIds /\ EmailRows
  BY DEF Init, EmailIds, EmailRows
<1>2. OneAddress
  BY DEF Init, OneAddress, Seen, Working
<1>3. Outcomes /\ AcknowledgedKept /\ ClaimedIsDelivered
  BY DEF Init, Outcomes, AcknowledgedKept, ClaimedIsDelivered
<1> QED BY <1>1, <1>2, <1>3 DEF KeptInv

LEMMA StepKept == TypeOK /\ IInv /\ KeptInv /\ [Next]_vars => KeptInv'
BY EmailIdsStep, EmailRowsStep, OneAddressStep, OutcomesStep, AcknowledgedStep,
   ClaimedStep DEF KeptInv

\* Ids of emails, the index on messages, the address of a mailbox, the outcomes
\* of deliveries and the inbound rows keep together, whatever the numbers.
THEOREM KeptInvariant == Spec => []KeptInv
BY TypeCorrect, InductiveInvariant, InitKept, StepKept, PTL DEF Spec

LEMMA InitHistory == Init => HistoryInv
<1> SUFFICES ASSUME Init PROVE HistoryInv
  OBVIOUS
<1>1. Handled
  BY DEF Init, Handled, Working
<1>2. OnceInMailbox /\ FileOrTaken
  BY DEF Init, OnceInMailbox, FileOrTaken
<1> QED BY <1>1, <1>2 DEF HistoryInv

LEMMA StepHistory ==
    TypeOK /\ IInv /\ KeptInv /\ KeptInv' /\ HistoryInv /\ [Next]_vars => HistoryInv'
BY HandledStep, OnceStep, FileStep DEF KeptInv, HistoryInv

\* Recipients, the emails of one copy in one mailbox, and the raw files: what was
\* deleted or purged meanwhile is remembered by the history of inserted emails.
THEOREM HistoryInvariant == Spec => []HistoryInv
BY TypeCorrect, InductiveInvariant, KeptInvariant, InitHistory, StepHistory, PTL DEF Spec

\* Together with the first invariant: rows, deliveries and re-matches agree,
\* for any numbers of them and whatever is deleted, purged or created again.
THEOREM InductiveAlways == Spec => []Inductive
BY InductiveInvariant, KeptInvariant, HistoryInvariant, PTL DEF Inductive

\* Nobody is forgotten: whoever is neither waiting nor settled belongs to a message
\* that failed, and nothing of it was saved, for any number of recipients.
THEOREM NobodyIsForgotten == Spec => []NobodyForgotten
<1>1. TypeOK /\ IInv /\ Handled => NobodyForgotten
  <2> SUFFICES ASSUME TypeOK, IInv, Handled, NEW d \in Delivery,
                      NEW a \in delivery[d].asked, outcome[<<d, a>>] = "none",
                      delivery[d].pc \in {"done", "failed"}
               PROVE  /\ delivery[d].pc = "failed"
                      /\ \A r \in inboundEmails \union everCreated : r.copy # <<d, a>>
                      /\ <<d, a>> \notin files
    BY DEF NobodyForgotten
  <2>1. a \in delivery[d].todo /\ delivery[d].pc = "failed"
    BY DEF Handled
  <2>2. ~Recorded(<<d, a>>)
    BY <2>1 DEF Recorded
  <2>3. \A r \in inboundEmails \union everCreated : Recorded(r.copy)
    BY DEF Handled, IInv, RowsAgree
  <2>4. \A r \in inboundEmails \union everCreated : r.copy # <<d, a>>
    BY <2>2, <2>3
  <2>5. <<d, a>> \notin files
    BY <2>1 DEF Handled
  <2> QED BY <2>1, <2>4, <2>5
<1> QED BY TypeCorrect, InductiveInvariant, HistoryInvariant, <1>1, PTL DEF HistoryInv

\* An email whose raw file is missing lost it to a purge: its own, or one of an
\* earlier email of the same copy, whose mailbox is gone.
THEOREM RawFileIsKept == Spec => []RawFileKept
<1>1. TypeOK /\ EmailIds /\ OnceInMailbox /\ FileOrTaken => RawFileKept
  <2> SUFFICES ASSUME TypeOK, EmailIds, OnceInMailbox, FileOrTaken,
                      NEW e \in emails, e.raw, e.copy \notin files
               PROVE  \E p \in Purger, q \in everCreated :
                         /\ purge[p].pc \in {"row", "done"}
                         /\ q.id = purge[p].id /\ q.copy = e.copy
                         /\ q = e \/ ~Exists(q.mailboxId)
    BY DEF RawFileKept
  <2>1. PICK p \in Purger, q \in everCreated :
          /\ purge[p].pc \in {"row", "done"}
          /\ q.id = purge[p].id /\ q.copy = e.copy
    BY DEF EmailIds, FileOrTaken, Taken
  <2>2. q = e \/ ~Exists(q.mailboxId)
    BY <2>1 DEF OnceInMailbox
  <2> QED BY <2>1, <2>2
<1> QED BY TypeCorrect, KeptInvariant, HistoryInvariant, <1>1, PTL
        DEF KeptInv, HistoryInv

\* What the webhook or processMessage answered as created or duplicate was
\* inserted for that address, and what it answered as unmatched is on record.
THEOREM AcknowledgedIsKept == Spec => []AcknowledgedKept
<1>1. KeptInv => AcknowledgedKept
  BY DEF KeptInv
<1> QED BY KeptInvariant, <1>1, PTL

\* An inbound row out of the re-match's sight has reached its mailbox, or its
\* delivery is under way or failed.
THEOREM ClaimedWasDelivered == Spec => []ClaimedIsDelivered
<1>1. KeptInv => ClaimedIsDelivered
  BY DEF KeptInv
<1> QED BY KeptInvariant, <1>1, PTL
================================================================================
