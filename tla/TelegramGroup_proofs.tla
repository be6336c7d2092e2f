------------------------ MODULE TelegramGroup_proofs ------------------------
(***************************************************************************)
(* Theorems about TelegramGroup, for any number of accounts, senders,      *)
(* mailboxes, codes, updates, forwards and requests.                       *)
(***************************************************************************)
EXTENDS TelegramGroup, TLAPS

-----------------------------------------------------------------------------
(* Types. *)

LEMMA SomeTypes ==
    /\ Someone \in Owner /\ AnySender \in Sender /\ AnyBox \in Box
    /\ IdleVisit \in VisitState /\ IdleForward \in ForwardState
BY TelegramAssumption
   DEF Someone, AnySender, AnyBox, IdleVisit, IdleForward, VisitState,
       ForwardState, Change, Routing

\* A step of one handler that leaves a good record there keeps the types.
LEMMA OneUpdate ==
    ASSUME TelegramTypeOK, NEW u \in Update, NEW me \in UpdateState,
           HandlerOK(me), updates' = [updates EXCEPT ![u] = me],
           IssuedCodes \subseteq IssuedCodes'
    PROVE  /\ updates' \in [Update -> UpdateState]
           /\ \A q \in Update : HandlerOK(updates[q])'
BY DEF TelegramTypeOK, HandlerOK

LEMMA SameUpdates ==
    ASSUME TelegramTypeOK, UNCHANGED updates, IssuedCodes \subseteq IssuedCodes'
    PROVE  /\ updates' \in [Update -> UpdateState]
           /\ \A q \in Update : HandlerOK(updates[q])'
BY DEF TelegramTypeOK, HandlerOK

LEMMA UpdateType ==
    ASSUME TelegramTypeOK, NEW u \in Update
    PROVE  updates[u] \in UpdateState /\ HandlerOK(updates[u])
BY DEF TelegramTypeOK

\* The same for a handler that only goes on, or ends.
LEMMA GoOnType ==
    ASSUME TelegramTypeOK, NEW u \in Update, NEW pc \in HandlerStep(updates[u].command),
           GoOn(u, pc), UNCHANGED codes,
           \/ pc \in {"link", "disable"} /\ updates[u].pc \in {"existing", "revoke"}
           \/ pc \in {"mark", "topic"} /\ updates[u].pc \in {"find", "mark"}
    PROVE  /\ updates' \in [Update -> UpdateState]
           /\ \A q \in Update : HandlerOK(updates[q])'
<1> DEFINE me == [updates[u] EXCEPT !.pc = pc]
<1>1. updates[u] \in UpdateState /\ HandlerOK(updates[u])
  BY UpdateType
<1>2. me \in UpdateState
  BY <1>1 DEF UpdateState
<1>3. /\ me.pc = pc /\ me.command = updates[u].command
      /\ me.code = updates[u].code /\ me.owner = updates[u].owner
  BY <1>1 DEF UpdateState
<1>4. HandlerOK(me)
  BY <1>1, <1>3 DEF HandlerOK, HandlerStep, UpdateState, Command
<1>5. updates' = [updates EXCEPT ![u] = me]
  BY DEF GoOn, TelegramTypeOK
<1>6. IssuedCodes' = IssuedCodes
  BY DEF IssuedCodes
<1> HIDE DEF me
<1> QED
  BY <1>2, <1>4, <1>5, <1>6, OneUpdate

LEMMA AnswerType ==
    ASSUME TelegramTypeOK, NEW u \in Update, Answer(u),
           IssuedCodes \subseteq IssuedCodes'
    PROVE  /\ updates' \in [Update -> UpdateState]
           /\ \A q \in Update : HandlerOK(updates[q])'
<1> DEFINE me == [updates[u] EXCEPT !.pc = "idle", !.owner = Nobody, !.topic = 0]
<1>1. updates[u] \in UpdateState /\ HandlerOK(updates[u])
  BY UpdateType
<1>2. me \in UpdateState
  BY <1>1 DEF UpdateState
<1>3. /\ me.pc = "idle" /\ me.command = updates[u].command
      /\ me.code = updates[u].code
  BY <1>1 DEF UpdateState
<1>4. HandlerOK(me)
  BY <1>1, <1>3 DEF HandlerOK
<1>5. updates' = [updates EXCEPT ![u] = me]
  BY DEF Answer
<1> HIDE DEF me
<1> QED
  BY <1>2, <1>4, <1>5, OneUpdate

\* What a step of the codes keeps.
LEMMA CodesType ==
    ASSUME TelegramTypeOK, NEW c \in Code, NEW row \in CodeRow,
           row.purpose # "none", row.owner \in Owner,
           codes' = [codes EXCEPT ![c] = row]
    PROVE  /\ codes' \in [Code -> CodeRow]
           /\ \A d \in IssuedCodes' : codes'[d].owner \in Owner
           /\ IssuedCodes \subseteq IssuedCodes'
BY DEF TelegramTypeOK, IssuedCodes

LEMMA MarkedType ==
    ASSUME TelegramTypeOK, NEW c \in IssuedCodes,
           \/ codes' = [codes EXCEPT ![c].used = TRUE]
           \/ codes' = [codes EXCEPT ![c].expired = TRUE]
    PROVE  /\ codes' \in [Code -> CodeRow]
           /\ \A d \in IssuedCodes' : codes'[d].owner \in Owner
           /\ IssuedCodes \subseteq IssuedCodes'
<1>1. c \in Code /\ codes[c] \in CodeRow /\ codes[c].purpose # "none"
      /\ codes[c].owner \in Owner
  BY DEF TelegramTypeOK, IssuedCodes
<1>2. CASE codes' = [codes EXCEPT ![c].used = TRUE]
  <2> DEFINE row == [codes[c] EXCEPT !.used = TRUE]
  <2>1. /\ row \in CodeRow /\ row.purpose # "none" /\ row.owner \in Owner
        /\ codes' = [codes EXCEPT ![c] = row]
    BY <1>1, <1>2 DEF CodeRow
  <2> HIDE DEF row
  <2> QED
    BY <1>1, <2>1, CodesType
<1>3. CASE codes' = [codes EXCEPT ![c].expired = TRUE]
  <2> DEFINE row == [codes[c] EXCEPT !.expired = TRUE]
  <2>1. /\ row \in CodeRow /\ row.purpose # "none" /\ row.owner \in Owner
        /\ codes' = [codes EXCEPT ![c] = row]
    BY <1>1, <1>3 DEF CodeRow
  <2> HIDE DEF row
  <2> QED
    BY <1>1, <2>1, CodesType
<1> QED
  BY <1>2, <1>3

\* Codes, commands and their delivery.
LEMMA CodeStepType ==
    ASSUME TelegramTypeOK, NEW c \in Code, IssueCode(c) \/ ExpireCode(c)
    PROVE  TelegramTypeOK'
<1>1. /\ codes' \in [Code -> CodeRow]
      /\ \A d \in IssuedCodes' : codes'[d].owner \in Owner
      /\ IssuedCodes \subseteq IssuedCodes'
  <2>1. CASE IssueCode(c)
    <3>1. PICK command \in {"start", "bind"}, o \in Owner :
            codes' = [codes EXCEPT ![c] =
              [purpose |-> PurposeOf(command), owner |-> o, used |-> FALSE,
               expired |-> FALSE]]
      BY <2>1 DEF IssueCode
    <3> DEFINE row == [purpose |-> PurposeOf(command), owner |-> o,
                       used |-> FALSE, expired |-> FALSE]
    <3>2. row \in CodeRow /\ row.purpose # "none" /\ row.owner \in Owner
      BY DEF CodeRow, PurposeOf, Purpose
    <3> HIDE DEF row
    <3> QED
      BY <3>1, <3>2, CodesType DEF row
  <2>2. CASE ExpireCode(c)
    BY <2>2, MarkedType DEF ExpireCode, IssuedCodes
  <2> QED
    BY <2>1, <2>2
<1>2. UNCHANGED <<links, manage, notify, bindings, topics, updates, forwards,
                  visits, took, handled, quiet, scene>>
  BY DEF IssueCode, ExpireCode, bindingVars, taskVars, historyVars
<1> QED
  BY <1>1, <1>2, SameUpdates DEF TelegramTypeOK

LEMMA SendCommandType ==
    ASSUME TelegramTypeOK, NEW u \in Update, SendCommand(u)
    PROVE  TelegramTypeOK'
<1>1. PICK s \in Sender :
        \/ updates' = [updates EXCEPT ![u].command = "unlink", ![u].sender = s]
        \/ \E command \in {"start", "bind"}, c \in IssuedCodes :
             updates' = [updates EXCEPT ![u].command = command,
                           ![u].sender = s, ![u].code = c]
  BY DEF SendCommand
<1>2. updates[u] \in UpdateState /\ HandlerOK(updates[u]) /\ updates[u].command = "none"
  BY UpdateType DEF SendCommand
<1>3. updates[u].pc = "idle"
  BY <1>2 DEF HandlerOK, HandlerStep
<1>4. UNCHANGED <<links, manage, notify, bindings, topics, codes, forwards,
                  visits, took, handled, quiet, scene>>
  BY DEF SendCommand, bindingVars, historyVars
<1>5. IssuedCodes' = IssuedCodes
  BY <1>4 DEF IssuedCodes
<1>6. /\ updates' \in [Update -> UpdateState]
      /\ \A q \in Update : HandlerOK(updates[q])'
  <2>1. CASE updates' = [updates EXCEPT ![u].command = "unlink", ![u].sender = s]
    <3> DEFINE me == [updates[u] EXCEPT !.command = "unlink", !.sender = s]
    <3>1. me \in UpdateState /\ me.pc = "idle" /\ me.command = "unlink"
      BY <1>2, <1>3 DEF UpdateState, Command
    <3>2. HandlerOK(me)
      BY <3>1 DEF HandlerOK
    <3>3. updates' = [updates EXCEPT ![u] = me]
      BY <2>1
    <3> HIDE DEF me
    <3> QED
      BY <1>5, <3>1, <3>2, <3>3, OneUpdate
  <2>2. ASSUME NEW command \in {"start", "bind"}, NEW c \in IssuedCodes,
               updates' = [updates EXCEPT ![u].command = command,
                             ![u].sender = s, ![u].code = c]
        PROVE  /\ updates' \in [Update -> UpdateState]
               /\ \A q \in Update : HandlerOK(updates[q])'
    <3> DEFINE me == [updates[u] EXCEPT !.command = command, !.sender = s, !.code = c]
    <3>1. me \in UpdateState /\ me.pc = "idle" /\ me.code = c
      BY <1>2, <1>3 DEF UpdateState, Command, IssuedCodes
    <3>2. HandlerOK(me)
      BY <3>1 DEF HandlerOK
    <3>3. updates' = [updates EXCEPT ![u] = me]
      BY <2>2
    <3> HIDE DEF me
    <3> QED
      BY <1>5, <3>1, <3>2, <3>3, OneUpdate
  <2> QED
    BY <1>1, <2>1, <2>2
<1> QED
  BY <1>4, <1>5, <1>6 DEF TelegramTypeOK

LEMMA DeliverType ==
    ASSUME TelegramTypeOK, NEW u \in Update, Deliver(u)
    PROVE  TelegramTypeOK'
<1>1. UNCHANGED <<links, manage, notify, bindings, topics, codes, forwards,
                  visits, took, quiet, scene>>
  BY DEF Deliver, bindingVars
<1>2. IssuedCodes' = IssuedCodes
  BY <1>1 DEF IssuedCodes
<1>3. CASE UNCHANGED <<updates, handled>>
  BY <1>1, <1>2, <1>3, SameUpdates DEF TelegramTypeOK
<1>4. CASE /\ updates' = [updates EXCEPT ![u].logged = TRUE,
                           ![u].pc = FirstStep(updates[u].command)]
           /\ handled' = [handled EXCEPT ![u] = @ + 1]
  <2> DEFINE me == [updates[u] EXCEPT !.logged = TRUE,
                      !.pc = FirstStep(updates[u].command)]
  <2>1. updates[u] \in UpdateState /\ HandlerOK(updates[u])
        /\ updates[u].command \in Command
    BY UpdateType DEF Deliver, UpdateState
  <2>2. /\ me \in UpdateState /\ me.command = updates[u].command
        /\ me.pc = FirstStep(me.command) /\ me.code = updates[u].code
    BY <2>1 DEF UpdateState, FirstStep
  <2>3. /\ me.pc \in {"find", "linked"} /\ me.pc \in HandlerStep(me.command)
        /\ me.command = "bind" => me.pc = "linked"
    BY <2>1, <2>2 DEF FirstStep, HandlerStep, Command
  <2>4. HandlerOK(me)
    BY <2>1, <2>2, <2>3 DEF HandlerOK
  <2>5. updates' = [updates EXCEPT ![u] = me]
    BY <1>4
  <2> HIDE DEF me
  <2>6. /\ updates' \in [Update -> UpdateState]
        /\ \A q \in Update : HandlerOK(updates[q])'
    BY <1>2, <2>2, <2>4, <2>5, OneUpdate
  <2>7. handled' \in [Update -> Nat]
    BY <1>4 DEF TelegramTypeOK
  <2> QED
    BY <1>1, <1>2, <2>6, <2>7 DEF TelegramTypeOK
<1> QED
  BY <1>3, <1>4 DEF Deliver

\* The handlers.
LEMMA ReadLinkType ==
    ASSUME TelegramTypeOK, NEW u \in Update, ReadLink(u)
    PROVE  TelegramTypeOK'
<1> DEFINE o == links[updates[u].sender]
<1>1. UNCHANGED <<links, manage, notify, bindings, topics, codes, forwards,
                  visits, took, handled, scene>>
  BY DEF ReadLink, bindingVars
<1>2. IssuedCodes' = IssuedCodes
  BY <1>1 DEF IssuedCodes
<1>3. CASE Answer(u) /\ UNCHANGED quiet
  BY <1>1, <1>2, <1>3, AnswerType DEF TelegramTypeOK
<1>4. CASE /\ o # Nobody
           /\ updates' = [updates EXCEPT ![u].owner = o,
                ![u].pc = IF updates[u].command = "bind" THEN "find" ELSE "revoke"]
           /\ quiet' = IF updates[u].command = "bind" THEN [quiet EXCEPT ![o] = "no"]
                       ELSE quiet
  <2> DEFINE me == [updates[u] EXCEPT !.owner = o,
                      !.pc = IF updates[u].command = "bind" THEN "find" ELSE "revoke"]
  <2>1. /\ updates[u] \in UpdateState /\ HandlerOK(updates[u])
        /\ updates[u].pc = "linked"
    BY UpdateType DEF ReadLink
  <2>2. o \in Owner
    BY <1>4, <2>1 DEF TelegramTypeOK, UpdateState
  <2>3. updates[u].command \in {"bind", "unlink"}
    BY <2>1 DEF HandlerOK, HandlerStep, UpdateState, Command
  <2>4. /\ me \in UpdateState /\ me.owner = o /\ me.command = updates[u].command
        /\ me.code = updates[u].code
        /\ me.pc = IF me.command = "bind" THEN "find" ELSE "revoke"
    BY <2>1, <2>2 DEF UpdateState
  <2>5. HandlerOK(me)
    BY <2>1, <2>2, <2>3, <2>4 DEF HandlerOK, HandlerStep
  <2>6. updates' = [updates EXCEPT ![u] = me]
    BY <1>4
  <2> HIDE DEF me
  <2>7. /\ updates' \in [Update -> UpdateState]
        /\ \A q \in Update : HandlerOK(updates[q])'
    BY <1>2, <2>4, <2>5, <2>6, OneUpdate
  <2>8. quiet' \in [Owner -> {"no", "group", "all"}]
    BY <1>4, <2>2 DEF TelegramTypeOK
  <2> QED
    BY <1>1, <1>2, <2>7, <2>8 DEF TelegramTypeOK
<1> QED
  BY <1>3, <1>4 DEF ReadLink

LEMMA FindCodeType ==
    ASSUME TelegramTypeOK, NEW u \in Update, FindCode(u)
    PROVE  TelegramTypeOK'
<1>1. UNCHANGED <<links, manage, notify, bindings, topics, codes, forwards,
                  visits, took, handled, quiet, scene>>
  BY DEF FindCode, bindingVars, historyVars
<1>2. IssuedCodes' = IssuedCodes
  BY <1>1 DEF IssuedCodes
<1>3. CASE Answer(u)
  BY <1>1, <1>2, <1>3, AnswerType DEF TelegramTypeOK
<1>4. CASE GoOn(u, "mark")
  <2>1. HandlerOK(updates[u]) /\ updates[u] \in UpdateState /\ updates[u].pc = "find"
    BY UpdateType DEF FindCode
  <2>2. "mark" \in HandlerStep(updates[u].command)
    BY <2>1 DEF HandlerOK, HandlerStep, UpdateState, Command
  <2> QED
    BY <1>1, <1>2, <1>4, <2>1, <2>2, GoOnType DEF TelegramTypeOK
<1> QED
  BY <1>3, <1>4 DEF FindCode

LEMMA MarkCodeType ==
    ASSUME TelegramTypeOK, NEW u \in Update, MarkCode(u)
    PROVE  TelegramTypeOK'
<1> DEFINE c == updates[u].code
           o == codes[c].owner
<1>1. UNCHANGED <<links, manage, notify, bindings, topics, forwards,
                  visits, took, handled, quiet, scene>>
  BY DEF MarkCode, bindingVars, historyVars
<1>2. HandlerOK(updates[u]) /\ updates[u] \in UpdateState /\ updates[u].pc = "mark"
  BY UpdateType DEF MarkCode
<1>3. c \in IssuedCodes /\ updates[u].command \in {"start", "bind"} /\ o \in Owner
  BY <1>2 DEF HandlerOK, HandlerStep, UpdateState, Command, TelegramTypeOK
<1>4. CASE Answer(u) /\ UNCHANGED codes
  <2>1. IssuedCodes' = IssuedCodes
    BY <1>4 DEF IssuedCodes
  <2> QED
    BY <1>1, <1>4, <2>1, AnswerType DEF TelegramTypeOK
<1>5. CASE codes' = [codes EXCEPT ![c].used = TRUE]
  <2>1. /\ codes' \in [Code -> CodeRow]
        /\ \A d \in IssuedCodes' : codes'[d].owner \in Owner
        /\ IssuedCodes \subseteq IssuedCodes'
    BY <1>3, <1>5, MarkedType
  <2>2. CASE Answer(u)
    BY <1>1, <2>1, <2>2, AnswerType DEF TelegramTypeOK
  <2>3. ASSUME NEW pc, NEW p \in Owner,
               \/ pc = "existing" /\ updates[u].command = "start"
               \/ pc = "topic" /\ updates[u].command = "bind",
               updates' = [updates EXCEPT ![u].pc = pc, ![u].owner = p]
        PROVE  TelegramTypeOK'
    <3> DEFINE me == [updates[u] EXCEPT !.pc = pc, !.owner = p]
    <3>1. /\ me \in UpdateState /\ me.pc = pc /\ me.owner = p
          /\ me.command = updates[u].command /\ me.code = c
      BY <1>2, <2>3 DEF UpdateState
    <3>2. HandlerOK(me)
      BY <1>3, <2>3, <3>1 DEF HandlerOK, HandlerStep
    <3>3. updates' = [updates EXCEPT ![u] = me]
      BY <2>3
    <3> HIDE DEF me
    <3>4. /\ updates' \in [Update -> UpdateState]
          /\ \A q \in Update : HandlerOK(updates[q])'
      BY <2>1, <3>1, <3>2, <3>3, OneUpdate
    <3> QED
      BY <1>1, <2>1, <3>4 DEF TelegramTypeOK
  <2>4. CASE /\ updates[u].command = "start"
             /\ updates' = [updates EXCEPT ![u].pc = "existing", ![u].owner = o]
    BY <1>3, <2>3, <2>4
  <2>5. CASE updates[u].command = "bind" /\ o = updates[u].owner /\ GoOn(u, "topic")
    <3>1. updates' = [updates EXCEPT ![u].pc = "topic", ![u].owner = o]
      BY <1>2, <2>5 DEF GoOn, TelegramTypeOK, UpdateState
    <3> QED
      BY <1>3, <2>3, <2>5, <3>1
  <2> QED
    BY <1>2, <1>4, <2>2, <2>4, <2>5 DEF MarkCode
<1> QED
  BY <1>4, <1>5 DEF MarkCode

LEMMA ReadExistingType ==
    ASSUME TelegramTypeOK, NEW u \in Update, ReadExisting(u)
    PROVE  TelegramTypeOK'
<1>1. UNCHANGED <<links, manage, notify, bindings, topics, codes, forwards,
                  visits, took, handled, quiet, scene>>
  BY DEF ReadExisting, bindingVars, historyVars
<1>2. IssuedCodes' = IssuedCodes
  BY <1>1 DEF IssuedCodes
<1>3. CASE Answer(u)
  BY <1>1, <1>2, <1>3, AnswerType DEF TelegramTypeOK
<1>4. CASE GoOn(u, "link")
  <2>1. HandlerOK(updates[u]) /\ updates[u] \in UpdateState
        /\ updates[u].pc = "existing"
    BY UpdateType DEF ReadExisting
  <2>2. "link" \in HandlerStep(updates[u].command)
    BY <2>1 DEF HandlerOK, HandlerStep, UpdateState, Command
  <2> QED
    BY <1>1, <1>2, <1>4, <2>1, <2>2, GoOnType DEF TelegramTypeOK
<1> QED
  BY <1>3, <1>4 DEF ReadExisting

\* The account that a handler acts on, and its code.
LEMMA HandlerFacts ==
    ASSUME TelegramTypeOK, NEW u \in Update,
           updates[u].pc \in {"existing", "link", "topic", "store", "revoke", "disable"}
    PROVE  /\ updates[u].owner \in Owner
           /\ updates[u].sender \in Sender /\ updates[u].topic \in Nat
           /\ updates[u].pc \in {"existing", "link", "topic", "store"}
                => /\ updates[u].code \in IssuedCodes
                   /\ updates[u].command \in {"start", "bind"}
           /\ updates[u].pc \in {"topic", "store"} => updates[u].command = "bind"
           /\ updates[u].pc \in {"revoke", "disable"} => updates[u].command = "unlink"
BY UpdateType DEF UpdateState, HandlerOK, HandlerStep, Command

LEMMA StoreLinkType ==
    ASSUME TelegramTypeOK, NEW u \in Update, StoreLink(u)
    PROVE  TelegramTypeOK'
<1> DEFINE me == updates[u]
<1>1. /\ UNCHANGED <<manage, notify, bindings, topics, codes, forwards, visits,
                     handled, quiet, scene>>
      /\ links' = [links EXCEPT ![me.sender] = me.owner]
      /\ took' = [took EXCEPT ![me.code] = @ + 1]
      /\ Answer(u) /\ me.pc = "link"
  BY DEF StoreLink, bindingVars
<1>2. IssuedCodes' = IssuedCodes
  BY <1>1 DEF IssuedCodes
<1>3. me.owner \in Owner /\ me.sender \in Sender /\ me.code \in Code
  BY <1>1, HandlerFacts DEF IssuedCodes
<1>4. links' \in [Sender -> Owner \union {Nobody}] /\ took' \in [Code -> Nat]
  BY <1>1, <1>3 DEF TelegramTypeOK
<1> HIDE DEF me
<1> QED
  BY <1>1, <1>2, <1>4, AnswerType DEF TelegramTypeOK

LEMMA MakeTopicType ==
    ASSUME TelegramTypeOK, MakeTopic
    PROVE  NewTopic \in Nat /\ topics' \in [made : Nat, live : SUBSET Nat]
BY DEF TelegramTypeOK, MakeTopic, NewTopic

LEMMA CreateGeneralTopicType ==
    ASSUME TelegramTypeOK, NEW u \in Update, CreateGeneralTopic(u)
    PROVE  TelegramTypeOK'
<1> DEFINE me == [updates[u] EXCEPT !.pc = "store", !.topic = NewTopic]
<1>1. /\ UNCHANGED <<links, manage, notify, bindings, codes, forwards, visits,
                     took, handled, quiet, scene>>
      /\ MakeTopic /\ updates[u].pc = "topic"
  BY DEF CreateGeneralTopic, bindingVars, historyVars
<1>2. IssuedCodes' = IssuedCodes
  BY <1>1 DEF IssuedCodes
<1>3. /\ updates[u] \in UpdateState /\ HandlerOK(updates[u])
      /\ updates[u].command = "bind" /\ updates[u].owner \in Owner
  BY <1>1, UpdateType, HandlerFacts
<1>4. /\ me \in UpdateState /\ me.pc = "store" /\ me.command = "bind"
      /\ me.owner \in Owner /\ me.code = updates[u].code
  BY <1>1, <1>3, MakeTopicType DEF UpdateState
<1>5. HandlerOK(me)
  BY <1>3, <1>4 DEF HandlerOK, HandlerStep
<1>6. updates' = [updates EXCEPT ![u] = me]
  BY DEF CreateGeneralTopic
<1> HIDE DEF me
<1>7. /\ updates' \in [Update -> UpdateState]
      /\ \A q \in Update : HandlerOK(updates[q])'
  BY <1>2, <1>4, <1>5, <1>6, OneUpdate
<1> QED
  BY <1>1, <1>2, <1>7, MakeTopicType DEF TelegramTypeOK

LEMMA StoreGroupType ==
    ASSUME TelegramTypeOK, NEW u \in Update, StoreGroup(u)
    PROVE  TelegramTypeOK'
<1> DEFINE me == updates[u]
<1>1. /\ UNCHANGED <<links, notify, topics, codes, forwards, visits, handled,
                     quiet, scene>>
      /\ took' = [took EXCEPT ![me.code] = @ + 1]
      /\ Answer(u) /\ me.pc = "store"
  BY DEF StoreGroup
<1>2. IssuedCodes' = IssuedCodes
  BY <1>1 DEF IssuedCodes
<1>3. me.owner \in Owner /\ me.topic \in Nat /\ me.code \in Code
  BY <1>1, HandlerFacts DEF IssuedCodes
<1>4. took' \in [Code -> Nat]
  BY <1>1, <1>3 DEF TelegramTypeOK
<1>5. /\ bindings' \in Nat
      /\ \/ manage' = [manage EXCEPT ![me.owner].enabled = TRUE,
                                     ![me.owner].topic = me.topic]
         \/ manage' = [manage EXCEPT ![me.owner] =
                  [id |-> bindings + 1, enabled |-> TRUE, topic |-> me.topic]]
  BY DEF StoreGroup, TelegramTypeOK
<1>6. manage' \in [Owner -> ManageRow]
  <2>1. \A row \in ManageRow :
          manage' = [manage EXCEPT ![me.owner] = row] => manage' \in [Owner -> ManageRow]
    BY <1>3 DEF TelegramTypeOK
  <2>2. manage[me.owner] \in ManageRow
    BY <1>3 DEF TelegramTypeOK
  <2>3. CASE manage' = [manage EXCEPT ![me.owner].enabled = TRUE,
                                      ![me.owner].topic = me.topic]
    <3> DEFINE row == [manage[me.owner] EXCEPT !.enabled = TRUE, !.topic = me.topic]
    <3>1. row \in ManageRow
      BY <1>3, <2>2 DEF ManageRow
    <3>2. manage' = [manage EXCEPT ![me.owner] = row]
      BY <2>3
    <3> HIDE DEF row
    <3> QED
      BY <2>1, <3>1, <3>2
  <2>4. CASE manage' = [manage EXCEPT ![me.owner] =
                  [id |-> bindings + 1, enabled |-> TRUE, topic |-> me.topic]]
    <3>1. [id |-> bindings + 1, enabled |-> TRUE, topic |-> me.topic] \in ManageRow
      BY <1>3 DEF TelegramTypeOK, ManageRow
    <3> QED
      BY <2>1, <2>4, <3>1
  <2> QED
    BY <1>5, <2>3, <2>4
<1> HIDE DEF me
<1> QED
  BY <1>1, <1>2, <1>4, <1>5, <1>6, AnswerType DEF TelegramTypeOK

LEMMA RevokeLinkType ==
    ASSUME TelegramTypeOK, NEW u \in Update, RevokeLink(u)
    PROVE  TelegramTypeOK'
<1>1. /\ UNCHANGED <<manage, notify, bindings, topics, codes, forwards, visits,
                     took, handled, quiet, scene>>
      /\ links' = [links EXCEPT ![updates[u].sender] = Nobody]
      /\ GoOn(u, "disable") /\ updates[u].pc = "revoke"
  BY DEF RevokeLink, bindingVars, historyVars
<1>2. IssuedCodes' = IssuedCodes
  BY <1>1 DEF IssuedCodes
<1>3. links' \in [Sender -> Owner \union {Nobody}]
  BY <1>1, HandlerFacts DEF TelegramTypeOK
<1>4. "disable" \in HandlerStep(updates[u].command)
  BY <1>1, HandlerFacts DEF HandlerStep
<1>5. /\ updates' \in [Update -> UpdateState]
      /\ \A q \in Update : HandlerOK(updates[q])'
  BY <1>1, <1>4, GoOnType
<1> QED
  BY <1>1, <1>2, <1>3, <1>5 DEF TelegramTypeOK

LEMMA DisableRowsType ==
    ASSUME TelegramTypeOK, NEW u \in Update, DisableRows(u)
    PROVE  TelegramTypeOK'
<1> DEFINE o == updates[u].owner
<1>1. /\ UNCHANGED <<links, bindings, topics, codes, forwards, visits, took,
                     handled, scene>>
      /\ Answer(u) /\ updates[u].pc = "disable"
  BY DEF DisableRows
<1>2. IssuedCodes' = IssuedCodes
  BY <1>1 DEF IssuedCodes
<1>3. o \in Owner
  BY <1>1, HandlerFacts
<1>4. manage' \in [Owner -> ManageRow]
  BY <1>3 DEF DisableRows, TelegramTypeOK, ManageRow
<1>5. notify' \in [Box -> NotifyRow]
  BY DEF DisableRows, Disabled, TelegramTypeOK, NotifyRow
<1>6. quiet' \in [Owner -> {"no", "group", "all"}]
  <2>1. PICK q \in {"no", "group", "all"} : quiet' = [quiet EXCEPT ![o] = q]
    BY DEF DisableRows
  <2> QED
    BY <1>3, <2>1 DEF TelegramTypeOK
<1> QED
  BY <1>1, <1>2, <1>4, <1>5, <1>6, AnswerType DEF TelegramTypeOK

LEMMA AbortHandlerType ==
    ASSUME TelegramTypeOK, NEW u \in Update, AbortHandler(u)
    PROVE  TelegramTypeOK'
<1>1. UNCHANGED <<links, manage, notify, bindings, topics, codes, forwards,
                  visits, took, handled, quiet, scene>>
  BY DEF AbortHandler, bindingVars, historyVars
<1>2. IssuedCodes' = IssuedCodes
  BY <1>1 DEF IssuedCodes
<1> QED
  BY <1>1, <1>2, AnswerType DEF TelegramTypeOK, AbortHandler

\* The dashboard.
LEMMA VisitType ==
    ASSUME TelegramTypeOK, NEW v \in Visit, VisitNext(v)
    PROVE  TelegramTypeOK'
<1>1. UNCHANGED <<links, bindings, topics, codes, updates, forwards, took,
                  handled, scene>>
  BY DEF VisitNext, FindBinding, SwitchBinding, RemoveBinding, AbortVisit,
         bindingVars, historyVars
<1>2. IssuedCodes' = IssuedCodes
  BY <1>1 DEF IssuedCodes
<1>3. /\ visits' \in [Visit -> VisitState]
      /\ quiet' \in [Owner -> {"no", "group", "all"}]
  <2>1. CASE FindBinding(v)
    <3>1. PICK o \in Owner, op \in Change :
            /\ visits' = [visits EXCEPT ![v] =
                            [op |-> op, owner |-> o, row |-> manage[o].id]]
            /\ quiet' = IF op = "enable" THEN [quiet EXCEPT ![o] = "no"] ELSE quiet
      BY <2>1 DEF FindBinding
    <3>2. [op |-> op, owner |-> o, row |-> manage[o].id] \in VisitState
      BY DEF VisitState, TelegramTypeOK, ManageRow
    <3> QED
      BY <3>1, <3>2 DEF TelegramTypeOK
  <2>2. CASE EndVisit(v) /\ UNCHANGED quiet
    BY <2>2, SomeTypes DEF EndVisit, TelegramTypeOK
  <2> QED
    BY <2>1, <2>2 DEF VisitNext, SwitchBinding, RemoveBinding, AbortVisit,
                      historyVars
<1>4. manage' \in [Owner -> ManageRow] /\ notify' \in [Box -> NotifyRow]
  <2>1. CASE UNCHANGED <<manage, notify>>
    BY <2>1 DEF TelegramTypeOK
  <2> DEFINE o == visits[v].owner
  <2>0. o \in Owner /\ manage[o] \in ManageRow
    BY DEF TelegramTypeOK, VisitState
  <2>2. CASE SwitchBinding(v)
    <3> DEFINE on == visits[v].op = "enable"
               row == [manage[o] EXCEPT !.enabled = on]
    <3>1. on \in BOOLEAN
      OBVIOUS
    <3>2. manage' \in {manage, [manage EXCEPT ![o].enabled = on]}
          /\ notify' = notify
      BY <2>2 DEF SwitchBinding
    <3> HIDE DEF on
    <3>3. row \in ManageRow
      BY <2>0, <3>1 DEF ManageRow
    <3>4. manage' = manage \/ manage' = [manage EXCEPT ![o] = row]
      BY <3>2
    <3> HIDE DEF row
    <3> QED
      BY <2>0, <3>2, <3>3, <3>4 DEF TelegramTypeOK
  <2>3. CASE RemoveBinding(v)
    <3>1. /\ manage' \in {manage, [manage EXCEPT ![o] =
                             [id |-> 0, enabled |-> FALSE, topic |-> 0]]}
          /\ notify' \in {notify, [b \in Box |-> IF b \in Boxes(o)
                             THEN [there |-> FALSE, enabled |-> FALSE, topic |-> 0]
                             ELSE notify[b]]}
      BY <2>3 DEF RemoveBinding
    <3>2. /\ [id |-> 0, enabled |-> FALSE, topic |-> 0] \in ManageRow
          /\ [there |-> FALSE, enabled |-> FALSE, topic |-> 0] \in NotifyRow
      BY DEF ManageRow, NotifyRow
    <3>3. manage' \in [Owner -> ManageRow]
      BY <2>0, <3>1, <3>2 DEF TelegramTypeOK
    <3>4. notify' \in [Box -> NotifyRow]
      BY <3>1, <3>2 DEF TelegramTypeOK
    <3> QED
      BY <3>3, <3>4
  <2> QED
    BY <2>1, <2>2, <2>3 DEF VisitNext, FindBinding, AbortVisit, bindingVars
<1> QED
  BY <1>1, <1>2, <1>3, <1>4, SameUpdates DEF TelegramTypeOK

\* The forwards.
LEMMA ForwardType ==
    ASSUME TelegramTypeOK, NEW f \in Forward, ForwardNext(f)
    PROVE  TelegramTypeOK'
<1>1. UNCHANGED <<links, bindings, codes, updates, visits, took, handled, quiet,
                  scene>>
  BY DEF ForwardNext, BeginForward, ReadBound, ReadGroup, ReadRow, CreateTopic,
         StoreTopic, SendMessage, AbortForward, bindingVars, historyVars
<1>2. IssuedCodes' = IssuedCodes
  BY <1>1 DEF IssuedCodes
<1>3. forwards[f] \in ForwardState
  BY DEF TelegramTypeOK
<1>4. CASE EndForward(f) /\ UNCHANGED <<manage, notify, topics>>
  <2>1. forwards' \in [Forward -> ForwardState]
    BY <1>4, SomeTypes DEF EndForward, TelegramTypeOK
  <2> QED
    BY <1>1, <1>2, <1>4, <2>1, SameUpdates DEF TelegramTypeOK
<1>5. ASSUME NEW me \in ForwardState, forwards' = [forwards EXCEPT ![f] = me],
             UNCHANGED <<manage, notify, topics>>
      PROVE  TelegramTypeOK'
  <2>1. forwards' \in [Forward -> ForwardState]
    BY <1>5 DEF TelegramTypeOK
  <2> QED
    BY <1>1, <1>2, <1>5, <2>1, SameUpdates DEF TelegramTypeOK
<1>6. CASE BeginForward(f)
  <2>1. PICK b \in Box, routing \in Routing, t \in 0 .. topics.made :
          forwards' = [forwards EXCEPT ![f] =
              [pc |-> IF routing = "bound" THEN "bound" ELSE "group",
               box |-> b, routing |-> routing, topic |-> t, again |-> FALSE]]
    BY <1>6 DEF BeginForward
  <2> DEFINE me == [pc |-> IF routing = "bound" THEN "bound" ELSE "group",
                    box |-> b, routing |-> routing, topic |-> t, again |-> FALSE]
  <2>2. me \in ForwardState
    BY DEF ForwardState, TelegramTypeOK
  <2> HIDE DEF me
  <2> QED
    BY <1>5, <1>6, <2>1, <2>2 DEF BeginForward, bindingVars, me
<1>7. CASE ReadBound(f)
  <2> DEFINE me == [forwards[f] EXCEPT !.pc = "group", !.routing = "mailboxTopic"]
  <2>1. me \in ForwardState
    BY <1>3 DEF ForwardState, Routing
  <2>2. EndForward(f) \/ forwards' = [forwards EXCEPT ![f] = me]
    BY <1>7 DEF ReadBound
  <2> HIDE DEF me
  <2> QED
    BY <1>4, <1>5, <1>7, <2>1, <2>2 DEF ReadBound, bindingVars
<1>8. CASE ReadGroup(f)
  <2> DEFINE pc == IF forwards[f].routing = "mailboxTopic" THEN "row" ELSE "send"
             t == IF forwards[f].routing = "generalTopic"
                  THEN manage[BoxOwner[forwards[f].box]].topic ELSE forwards[f].topic
             me == [forwards[f] EXCEPT !.pc = pc, !.topic = t]
  <2>1. BoxOwner[forwards[f].box] \in Owner
    BY <1>3, TelegramAssumption DEF ForwardState
  <2>2. t \in Nat /\ pc \in {"row", "send"}
    BY <1>3, <2>1 DEF ForwardState, TelegramTypeOK, ManageRow
  <2> HIDE DEF pc, t
  <2>3. me \in ForwardState
    BY <1>3, <2>2 DEF ForwardState
  <2>4. EndForward(f) \/ forwards' = [forwards EXCEPT ![f] = me]
    BY <1>8 DEF ReadGroup, pc, t
  <2> HIDE DEF me
  <2> QED
    BY <1>4, <1>5, <1>8, <2>3, <2>4 DEF ReadGroup, bindingVars
<1>9. CASE ReadRow(f)
  <2> DEFINE row == notify[forwards[f].box]
             me == [forwards[f] EXCEPT !.pc = IF row.enabled THEN "send" ELSE "create",
                                       !.topic = IF row.enabled THEN row.topic ELSE 0]
  <2>1. row.topic \in Nat
    BY <1>3 DEF ForwardState, TelegramTypeOK, NotifyRow
  <2>2. me \in ForwardState
    BY <1>3, <2>1 DEF ForwardState
  <2>3. forwards' = [forwards EXCEPT ![f] = me]
    BY <1>9 DEF ReadRow
  <2> HIDE DEF me
  <2> QED
    BY <1>5, <1>9, <2>2, <2>3 DEF ReadRow, bindingVars
<1>10. CASE CreateTopic(f)
  <2> DEFINE me == [forwards[f] EXCEPT !.pc = "store", !.topic = NewTopic]
  <2>1. NewTopic \in Nat /\ topics' \in [made : Nat, live : SUBSET Nat]
    BY <1>10, MakeTopicType DEF CreateTopic
  <2>2. me \in ForwardState
    BY <1>3, <2>1 DEF ForwardState
  <2>3. forwards' = [forwards EXCEPT ![f] = me] /\ UNCHANGED <<manage, notify>>
    BY <1>10 DEF CreateTopic, bindingVars
  <2> HIDE DEF me
  <2>4. forwards' \in [Forward -> ForwardState]
    BY <2>2, <2>3 DEF TelegramTypeOK
  <2> QED
    BY <1>1, <1>2, <2>1, <2>3, <2>4, SameUpdates DEF TelegramTypeOK
<1>11. CASE StoreTopic(f)
  <2> DEFINE me == [forwards[f] EXCEPT !.pc = "send"]
             o == BoxOwner[forwards[f].box]
  <2>1. /\ me \in ForwardState /\ forwards[f].topic \in Nat
        /\ forwards[f].box \in Box
    BY <1>3 DEF ForwardState
  <2>2. forwards' = [forwards EXCEPT ![f] = me] /\ UNCHANGED topics
    BY <1>11 DEF StoreTopic
  <2> HIDE DEF me
  <2>3. forwards' \in [Forward -> ForwardState]
    BY <2>1, <2>2 DEF TelegramTypeOK
  <2>4. notify' \in [Box -> NotifyRow]
    <3>1. [there |-> TRUE, enabled |-> TRUE, topic |-> forwards[f].topic] \in NotifyRow
      BY <2>1 DEF NotifyRow
    <3>2. \/ notify' = notify
          \/ notify' = [notify EXCEPT ![forwards[f].box] =
               [there |-> TRUE, enabled |-> TRUE, topic |-> forwards[f].topic]]
      BY <1>11 DEF StoreTopic
    <3> QED
      BY <2>1, <3>1, <3>2 DEF TelegramTypeOK
  <2>5. manage' \in [Owner -> ManageRow]
    BY <1>11, <2>1 DEF StoreTopic, TelegramTypeOK, ManageRow
  <2> QED
    BY <1>1, <1>2, <2>2, <2>3, <2>4, <2>5, SameUpdates DEF TelegramTypeOK
<1>12. CASE SendMessage(f)
  <2> DEFINE me == [forwards[f] EXCEPT !.pc = "create", !.again = TRUE]
  <2>1. me \in ForwardState
    BY <1>3 DEF ForwardState
  <2>2. EndForward(f) \/ forwards' = [forwards EXCEPT ![f] = me]
    BY <1>12 DEF SendMessage
  <2> HIDE DEF me
  <2> QED
    BY <1>4, <1>5, <1>12, <2>1, <2>2 DEF SendMessage, bindingVars
<1>13. CASE AbortForward(f)
  BY <1>4, <1>13 DEF AbortForward, bindingVars
<1> QED
  BY <1>6, <1>7, <1>8, <1>9, <1>10, <1>11, <1>12, <1>13 DEF ForwardNext

LEMMA DeleteTopicType ==
    ASSUME TelegramTypeOK, NEW t, DeleteTopic(t)
    PROVE  TelegramTypeOK'
<1>1. UNCHANGED <<links, manage, notify, bindings, codes, updates, forwards,
                  visits, took, handled, quiet, scene>>
  BY DEF DeleteTopic, bindingVars, taskVars, historyVars
<1>2. IssuedCodes' = IssuedCodes
  BY <1>1 DEF IssuedCodes
<1>3. topics' \in [made : Nat, live : SUBSET Nat]
  BY DEF DeleteTopic, TelegramTypeOK
<1> QED
  BY <1>1, <1>2, <1>3, SameUpdates DEF TelegramTypeOK

LEMMA InitType == TelegramInit => TelegramTypeOK
<1> SUFFICES ASSUME TelegramInit PROVE TelegramTypeOK
  OBVIOUS
<1>1. PICK before \in Owner \union {Nobody} :
        /\ links = [s \in Sender |-> before]
        /\ manage = [o \in Owner |->
              IF o = before THEN [id |-> 1, enabled |-> TRUE, topic |-> 1]
              ELSE [id |-> 0, enabled |-> FALSE, topic |-> 0]]
        /\ bindings = IF before = Nobody THEN 0 ELSE 1
        /\ topics = [made |-> IF before = Nobody THEN 0 ELSE 1,
                     live |-> 1 .. IF before = Nobody THEN 0 ELSE 1]
  BY DEF TelegramInit
<1>2. /\ links \in [Sender -> Owner \union {Nobody}]
      /\ manage \in [Owner -> ManageRow]
      /\ bindings \in Nat
  BY <1>1 DEF ManageRow
<1>3. topics \in [made : Nat, live : SUBSET Nat]
  BY <1>1
<1>4. /\ notify \in [Box -> NotifyRow]
      /\ codes \in [Code -> CodeRow]
      /\ IssuedCodes = {}
  BY DEF TelegramInit, NotifyRow, CodeRow, IssuedCodes
<1>5. /\ updates \in [Update -> UpdateState]
      /\ \A u \in Update : updates[u].pc = "idle" /\ updates[u].command = "none"
  BY SomeTypes DEF TelegramInit, UpdateState
<1>6. \A u \in Update : HandlerOK(updates[u])
  BY <1>5 DEF HandlerOK
<1>7. /\ forwards \in [Forward -> ForwardState]
      /\ visits \in [Visit -> VisitState]
      /\ took \in [Code -> Nat] /\ handled \in [Update -> Nat]
      /\ quiet \in [Owner -> {"no", "group", "all"}] /\ scene \in Scenes
  BY SomeTypes DEF TelegramInit
<1> QED
  BY <1>2, <1>3, <1>4, <1>5, <1>6, <1>7 DEF TelegramTypeOK

LEMMA NextType == TelegramTypeOK /\ [TelegramNext]_telegramVars => TelegramTypeOK'
<1> SUFFICES ASSUME TelegramTypeOK, [TelegramNext]_telegramVars PROVE TelegramTypeOK'
  OBVIOUS
<1>1. ASSUME NEW c \in Code, IssueCode(c) \/ ExpireCode(c) PROVE TelegramTypeOK'
  BY <1>1, CodeStepType
<1>2. ASSUME NEW u \in Update, SendCommand(u) \/ Deliver(u) PROVE TelegramTypeOK'
  BY <1>2, SendCommandType, DeliverType
<1>3. ASSUME NEW u \in Update, HandlerNext(u) PROVE TelegramTypeOK'
  BY <1>3, ReadLinkType, FindCodeType, MarkCodeType, ReadExistingType,
     StoreLinkType, CreateGeneralTopicType, StoreGroupType, RevokeLinkType,
     DisableRowsType, AbortHandlerType DEF HandlerNext
<1>4. ASSUME NEW v \in Visit, VisitNext(v) PROVE TelegramTypeOK'
  BY <1>4, VisitType
<1>5. ASSUME NEW f \in Forward, ForwardNext(f) PROVE TelegramTypeOK'
  BY <1>5, ForwardType
<1>6. ASSUME NEW t \in topics.live, DeleteTopic(t) PROVE TelegramTypeOK'
  BY <1>6, DeleteTopicType
<1>7. CASE UNCHANGED telegramVars
  <2>1. IssuedCodes' = IssuedCodes
    BY <1>7 DEF telegramVars, IssuedCodes
  <2> QED
    BY <1>7, <2>1, SameUpdates DEF telegramVars, TelegramTypeOK
<1> QED
  BY <1>1, <1>2, <1>3, <1>4, <1>5, <1>6, <1>7 DEF TelegramNext

\* Every variable keeps its type; in particular a handler is only ever at a
\* step of its own command, and acts on an account and a code that exist.
THEOREM TelegramTypeCorrect == TelegramSpec => []TelegramTypeOK
<1>1. TelegramInit => TelegramTypeOK
  BY InitType
<1>2. TelegramTypeOK /\ [TelegramNext]_telegramVars => TelegramTypeOK'
  BY NextType
<1> QED
  BY <1>1, <1>2, PTL DEF TelegramSpec

-----------------------------------------------------------------------------
(* After /unlink.  Quiet is not inductive: a handler or a request that is    *)
(* about to enable the group would break it.                                 *)

QuietFor(o) ==
    /\ quiet[o] # "no" => ~manage[o].enabled /\ ~Enabling(o)
    /\ quiet[o] = "all" => /\ \A b \in Boxes(o) : ~notify[b].enabled
                           /\ Admitted(o) = {}

QuietInv == TelegramTypeOK /\ \A o \in Owner : QuietFor(o)

AboutToEnable(me, o) ==
    /\ me.command = "bind" /\ me.pc \in {"find", "mark", "topic", "store"}
    /\ me.owner = o

\* A step that enables, is about to enable or admits nothing for o but what was
\* on its way already keeps QuietFor(o).
LEMMA KeepsQuiet ==
    ASSUME NEW o \in Owner, QuietFor(o),
           quiet'[o] \in {quiet[o], "no"},
           manage'[o].enabled => manage[o].enabled \/ Enabling(o),
           Enabling(o)' => Enabling(o) \/ quiet'[o] = "no",
           \A b \in Boxes(o) : notify'[b].enabled
                => notify[b].enabled \/ Admitted(o) # {},
           Admitted(o)' # {} => \/ Admitted(o) # {} \/ manage[o].enabled
                                \/ \E b \in Boxes(o) : notify[b].enabled
    PROVE  QuietFor(o)'
<1>1. Boxes(o)' = Boxes(o)
  BY DEF Boxes
<1>2. ASSUME quiet'[o] # "no" PROVE ~manage'[o].enabled /\ ~Enabling(o)'
  BY <1>2 DEF QuietFor
<1>3. ASSUME quiet'[o] = "all"
      PROVE  (\A b \in Boxes(o) : ~notify'[b].enabled) /\ Admitted(o)' = {}
  BY <1>3 DEF QuietFor
<1> QED
  BY <1>1, <1>2, <1>3 DEF QuietFor

LEMMA EnablingStep ==
    ASSUME TelegramTypeOK, NEW u \in Update, NEW me, NEW o \in Owner,
           updates' = [updates EXCEPT ![u] = me], UNCHANGED visits,
           AboutToEnable(me, o) => AboutToEnable(updates[u], o)
    PROVE  Enabling(o)' => Enabling(o)
BY DEF Enabling, AboutToEnable, TelegramTypeOK

LEMMA AnswerEnabling ==
    ASSUME TelegramTypeOK, NEW u \in Update, Answer(u), UNCHANGED visits,
           NEW o \in Owner
    PROVE  Enabling(o)' => Enabling(o)
<1> DEFINE me == [updates[u] EXCEPT !.pc = "idle", !.owner = Nobody, !.topic = 0]
<1>1. me.pc = "idle"
  BY DEF TelegramTypeOK, UpdateState
<1>2. updates' = [updates EXCEPT ![u] = me] /\ ~AboutToEnable(me, o)
  BY <1>1 DEF Answer, AboutToEnable
<1> HIDE DEF me
<1> QED
  BY <1>2, EnablingStep

LEMMA GoOnEnabling ==
    ASSUME TelegramTypeOK, NEW u \in Update, NEW pc, GoOn(u, pc), UNCHANGED visits,
           updates[u].command = "bind" /\ pc \in {"find", "mark", "topic", "store"}
             => updates[u].pc \in {"find", "mark", "topic", "store"},
           NEW o \in Owner
    PROVE  Enabling(o)' => Enabling(o)
<1> DEFINE me == [updates[u] EXCEPT !.pc = pc]
<1>1. /\ me.pc = pc /\ me.command = updates[u].command
      /\ me.owner = updates[u].owner
  BY DEF TelegramTypeOK, UpdateState
<1>2. /\ updates' = [updates EXCEPT ![u] = me]
      /\ AboutToEnable(me, o) => AboutToEnable(updates[u], o)
  BY <1>1 DEF GoOn, AboutToEnable
<1> HIDE DEF me
<1> QED
  BY <1>2, EnablingStep

LEMMA SameEnabling ==
    ASSUME UNCHANGED <<updates, visits>>, NEW o
    PROVE  Enabling(o)' <=> Enabling(o)
BY DEF Enabling

LEMMA SameAdmitted ==
    ASSUME UNCHANGED forwards, NEW o
    PROVE  Admitted(o)' = Admitted(o)
BY DEF Admitted

LEMMA QuietSoon ==
    ASSUME QuietInv, UNCHANGED <<manage, notify, forwards, quiet>>,
           \A o \in Owner : Enabling(o)' => Enabling(o)
    PROVE  \A o \in Owner : QuietFor(o)'
BY KeepsQuiet, SameAdmitted DEF QuietInv

LEMMA HandlerQuiet ==
    ASSUME QuietInv, NEW u \in Update, HandlerNext(u)
    PROVE  \A o \in Owner : QuietFor(o)'
<1>1. TelegramTypeOK /\ UNCHANGED <<visits, forwards>>
  BY DEF QuietInv, HandlerNext, ReadLink, FindCode, MarkCode, ReadExisting,
         StoreLink, CreateGeneralTopic, StoreGroup, RevokeLink, DisableRows,
         AbortHandler
<1>2. \A o \in Owner : Admitted(o)' = Admitted(o)
  BY <1>1, SameAdmitted
<1>3. ASSUME UNCHANGED <<manage, notify, quiet>>,
             \/ Answer(u)
             \/ \E pc \in {"mark", "link", "disable", "topic"} : 
                  GoOn(u, pc) /\ (pc \in {"mark", "topic"}
                                    => updates[u].pc \in {"find", "mark"})
      PROVE  \A o \in Owner : QuietFor(o)'
  <2>1. ASSUME NEW o \in Owner PROVE Enabling(o)' => Enabling(o)
    BY <1>1, <1>3, AnswerEnabling, GoOnEnabling
  <2> QED
    BY <1>1, <1>3, <2>1, QuietSoon
<1>4. CASE ReadLink(u)
  <2>1. CASE Answer(u) /\ UNCHANGED quiet
    BY <1>3, <1>4, <2>1 DEF ReadLink, bindingVars
  <2>2. CASE ~(Answer(u) /\ UNCHANGED quiet)
    <3> DEFINE p == links[updates[u].sender]
               bind == updates[u].command = "bind"
               me == [updates[u] EXCEPT !.owner = p,
                        !.pc = IF bind THEN "find" ELSE "revoke"]
    <3>1. /\ updates' = [updates EXCEPT ![u] = me]
          /\ quiet' = IF bind THEN [quiet EXCEPT ![p] = "no"] ELSE quiet
          /\ UNCHANGED <<manage, notify>>
          /\ p \in Owner
      BY <1>1, <1>4, <2>2, UpdateType DEF ReadLink, bindingVars, TelegramTypeOK,
             UpdateState
    <3>2. me.owner = p /\ (~bind => me.command # "bind")
      BY <1>1 DEF TelegramTypeOK, UpdateState
    <3> HIDE DEF me
    <3>3. ASSUME NEW o \in Owner PROVE QuietFor(o)'
      <4>1. quiet'[o] \in {quiet[o], "no"} /\ (bind /\ o = p => quiet'[o] = "no")
        BY <1>1, <3>1 DEF TelegramTypeOK
      <4>2. ASSUME ~(bind /\ o = p) PROVE Enabling(o)' => Enabling(o)
        <5>1. ~AboutToEnable(me, o)
          BY <3>2, <4>2 DEF AboutToEnable
        <5> QED
          BY <1>1, <3>1, <5>1, EnablingStep
      <4> QED
        BY <1>2, <3>1, <4>1, <4>2, KeepsQuiet DEF QuietInv
    <3> QED
      BY <3>3
  <2> QED
    BY <2>1, <2>2
<1>5. CASE FindCode(u)
  BY <1>3, <1>5 DEF FindCode, bindingVars, historyVars
<1>6. CASE MarkCode(u)
  <2> DEFINE me == [updates[u] EXCEPT !.pc = "existing",
                      !.owner = codes[updates[u].code].owner]
  <2>1. /\ UNCHANGED <<manage, notify, quiet>> /\ updates[u].pc = "mark"
        /\ Answer(u) \/ GoOn(u, "topic") \/ updates' = [updates EXCEPT ![u] = me]
    BY <1>6 DEF MarkCode, bindingVars, historyVars
  <2>2. CASE updates' = [updates EXCEPT ![u] = me]
    <3>1. me.pc = "existing"
      BY <1>1 DEF TelegramTypeOK, UpdateState
    <3> HIDE DEF me
    <3>2. ASSUME NEW o \in Owner PROVE Enabling(o)' => Enabling(o)
      BY <1>1, <2>2, <3>1, EnablingStep DEF AboutToEnable
    <3> QED
      BY <1>1, <2>1, <3>2, QuietSoon
  <2> QED
    BY <1>3, <2>1, <2>2
<1>7. CASE ReadExisting(u)
  BY <1>3, <1>7 DEF ReadExisting, bindingVars, historyVars
<1>8. CASE StoreLink(u)
  BY <1>3, <1>8 DEF StoreLink, bindingVars
<1>9. CASE CreateGeneralTopic(u)
  <2> DEFINE me == [updates[u] EXCEPT !.pc = "store", !.topic = NewTopic]
  <2>1. updates' = [updates EXCEPT ![u] = me] /\ UNCHANGED <<manage, notify, quiet>>
    BY <1>9 DEF CreateGeneralTopic, bindingVars, historyVars
  <2>2. me.command = updates[u].command /\ me.owner = updates[u].owner
        /\ updates[u].pc = "topic"
    BY <1>1, <1>9 DEF TelegramTypeOK, UpdateState, CreateGeneralTopic
  <2> HIDE DEF me
  <2>3. ASSUME NEW o \in Owner PROVE Enabling(o)' => Enabling(o)
    BY <1>1, <2>1, <2>2, EnablingStep DEF AboutToEnable
  <2> QED
    BY <1>1, <2>1, <2>3, QuietSoon
<1>10. CASE StoreGroup(u)
  <2> DEFINE p == updates[u].owner
  <2>1. /\ Answer(u) /\ UNCHANGED <<notify, quiet>> /\ updates[u].pc = "store"
        /\ \A o \in Owner \ {p} : manage'[o] = manage[o]
    BY <1>1, <1>10 DEF StoreGroup, TelegramTypeOK
  <2>2. Enabling(p)
    BY <1>1, <2>1, HandlerFacts DEF Enabling
  <2>3. ASSUME NEW o \in Owner PROVE QuietFor(o)'
    <3>1. Enabling(o)' => Enabling(o)
      BY <1>1, <2>1, AnswerEnabling
    <3> QED
      BY <1>2, <2>1, <2>2, <3>1, KeepsQuiet DEF QuietInv
  <2> QED
    BY <2>3
<1>11. CASE RevokeLink(u)
  BY <1>3, <1>11 DEF RevokeLink, bindingVars, historyVars
<1>12. CASE DisableRows(u)
  <2>1. PICK p \in Owner :
        /\ Answer(u) /\ manage' = [manage EXCEPT ![p].enabled = FALSE]
        /\ notify' = Disabled(p)
        /\ quiet' = [quiet EXCEPT ![p] = IF Enabling(p) THEN "no"
                                         ELSE IF Admitted(p) # {} THEN "group"
                                         ELSE "all"]
    BY <1>1, <1>12, HandlerFacts DEF DisableRows
  <2>2. ASSUME NEW o \in Owner PROVE Enabling(o)' => Enabling(o)
    BY <1>1, <2>1, AnswerEnabling
  <2>3. ASSUME NEW o \in Owner \ {p} PROVE QuietFor(o)'
    <3>1. quiet'[o] = quiet[o] /\ manage'[o] = manage[o]
      BY <1>1, <2>1 DEF TelegramTypeOK
    <3>2. \A b \in Boxes(o) : notify'[b] = notify[b]
      BY <2>1 DEF Disabled, Boxes
    <3> QED
      BY <1>2, <2>2, <3>1, <3>2, KeepsQuiet DEF QuietInv
  <2>4. QuietFor(p)'
    <3>1. ~manage'[p].enabled
      BY <1>1, <2>1 DEF TelegramTypeOK, ManageRow
    <3>2. \A b \in Boxes(p) : ~notify'[b].enabled
      BY <1>1, <2>1 DEF Disabled, Boxes, TelegramTypeOK, NotifyRow
    <3>3. /\ quiet'[p] # "no" => ~Enabling(p)
          /\ quiet'[p] = "all" => Admitted(p) = {}
      BY <1>1, <2>1 DEF TelegramTypeOK
    <3>4. Boxes(p)' = Boxes(p)
      BY DEF Boxes
    <3> QED
      BY <1>2, <2>2, <3>1, <3>2, <3>3, <3>4 DEF QuietFor
  <2> QED
    BY <2>3, <2>4
<1>13. CASE AbortHandler(u)
  BY <1>3, <1>13 DEF AbortHandler, bindingVars, historyVars
<1> QED
  BY <1>4, <1>5, <1>6, <1>7, <1>8, <1>9, <1>10, <1>11, <1>12, <1>13
     DEF HandlerNext

LEMMA VisitQuiet ==
    ASSUME QuietInv, NEW v \in Visit, VisitNext(v)
    PROVE  \A o \in Owner : QuietFor(o)'
<1>1. TelegramTypeOK /\ UNCHANGED <<updates, forwards>>
  BY DEF QuietInv, VisitNext, FindBinding, SwitchBinding, RemoveBinding, AbortVisit
<1>2. \A o \in Owner : Admitted(o)' = Admitted(o)
  BY <1>1, SameAdmitted
<1>3. ASSUME EndVisit(v), NEW o \in Owner PROVE Enabling(o)' => Enabling(o)
  BY <1>1, <1>3 DEF EndVisit, IdleVisit, Enabling, TelegramTypeOK
<1>4. CASE FindBinding(v)
  <2>1. PICK p \in Owner, op \in Change :
          /\ visits' = [visits EXCEPT ![v] =
                          [op |-> op, owner |-> p, row |-> manage[p].id]]
          /\ quiet' = IF op = "enable" THEN [quiet EXCEPT ![p] = "no"] ELSE quiet
          /\ UNCHANGED <<manage, notify>>
    BY <1>4 DEF FindBinding, bindingVars
  <2>2. ASSUME NEW o \in Owner PROVE QuietFor(o)'
    <3>1. quiet'[o] \in {quiet[o], "no"} /\ (op = "enable" /\ o = p => quiet'[o] = "no")
      BY <1>1, <2>1 DEF TelegramTypeOK
    <3>2. ASSUME ~(op = "enable" /\ o = p) PROVE Enabling(o)' => Enabling(o)
      BY <1>1, <2>1, <3>2 DEF Enabling, TelegramTypeOK
    <3> QED
      BY <1>2, <2>1, <3>1, <3>2, KeepsQuiet DEF QuietInv
  <2> QED
    BY <2>2
<1>5. CASE SwitchBinding(v)
  <2> DEFINE p == visits[v].owner
  <2>1. EndVisit(v) /\ UNCHANGED <<notify, quiet>>
    BY <1>5 DEF SwitchBinding, historyVars
  <2>2. ASSUME NEW o \in Owner, manage'[o].enabled
        PROVE  manage[o].enabled \/ Enabling(o)
    <3>1. CASE visits[v].op = "enable" /\ o = p
      BY <3>1 DEF Enabling
    <3>2. CASE visits[v].op # "enable" /\ o = p
      BY <1>1, <1>5, <2>2, <3>2 DEF SwitchBinding, TelegramTypeOK, ManageRow
    <3>3. CASE o # p
      BY <1>1, <1>5, <2>2, <3>3 DEF SwitchBinding, TelegramTypeOK
    <3> QED
      BY <3>1, <3>2, <3>3
  <2>3. ASSUME NEW o \in Owner PROVE QuietFor(o)'
    BY <1>2, <1>3, <2>1, <2>2, KeepsQuiet DEF QuietInv
  <2> QED
    BY <2>3
<1>6. CASE RemoveBinding(v)
  <2>1. EndVisit(v) /\ UNCHANGED quiet
    BY <1>6 DEF RemoveBinding, historyVars
  <2>2. \A o \in Owner : manage'[o].enabled => manage[o].enabled
    BY <1>1, <1>6 DEF RemoveBinding, TelegramTypeOK
  <2>3. \A b \in Box : notify'[b].enabled => notify[b].enabled
    BY <1>6 DEF RemoveBinding
  <2>4. ASSUME NEW o \in Owner PROVE QuietFor(o)'
    BY <1>2, <1>3, <2>1, <2>2, <2>3, KeepsQuiet DEF QuietInv, Boxes
  <2> QED
    BY <2>4
<1>7. CASE AbortVisit(v)
  BY <1>1, <1>3, <1>7, QuietSoon DEF AbortVisit, bindingVars, historyVars
<1> QED
  BY <1>4, <1>5, <1>6, <1>7 DEF VisitNext

\* A forward is admitted only by a row that is enabled.
LEMMA AdmittedStep ==
    ASSUME TelegramTypeOK, NEW f \in Forward, NEW me,
           forwards' = [forwards EXCEPT ![f] = me], NEW o \in Owner,
           /\ me.pc \in {"row", "create", "store", "send"} /\ BoxOwner[me.box] = o
             => f \in Admitted(o)
    PROVE  Admitted(o)' # {} => Admitted(o) # {}
BY DEF Admitted, TelegramTypeOK

LEMMA ForwardQuiet ==
    ASSUME QuietInv, NEW f \in Forward, ForwardNext(f)
    PROVE  \A o \in Owner : QuietFor(o)'
<1>1. TelegramTypeOK /\ UNCHANGED <<updates, visits, quiet>>
  BY DEF QuietInv, ForwardNext, BeginForward, ReadBound, ReadGroup, ReadRow,
         CreateTopic, StoreTopic, SendMessage, AbortForward, historyVars
<1>2. \A o \in Owner : Enabling(o)' <=> Enabling(o)
  BY <1>1, SameEnabling
<1>3. forwards[f] \in ForwardState
  BY <1>1 DEF TelegramTypeOK
<1>4. ASSUME UNCHANGED <<manage, notify>>, NEW me,
             forwards' = [forwards EXCEPT ![f] = me],
             \/ me.pc \notin {"row", "create", "store", "send"}
             \/ /\ forwards[f].pc \in {"row", "create", "store", "send"}
                /\ me.box = forwards[f].box
      PROVE  \A o \in Owner : QuietFor(o)'
  <2>1. ASSUME NEW o \in Owner PROVE Admitted(o)' # {} => Admitted(o) # {}
    BY <1>1, <1>4, AdmittedStep DEF Admitted
  <2> QED
    BY <1>1, <1>2, <1>4, <2>1, KeepsQuiet DEF QuietInv
<1>5. CASE EndForward(f) /\ UNCHANGED <<manage, notify>>
  BY <1>4, <1>5 DEF EndForward, IdleForward
<1>6. CASE BeginForward(f)
  BY <1>4, <1>6 DEF BeginForward, bindingVars
<1>7. CASE ReadBound(f)
  <2> DEFINE me == [forwards[f] EXCEPT !.pc = "group", !.routing = "mailboxTopic"]
  <2>1. me.pc = "group"
    BY <1>3 DEF ForwardState
  <2>2. EndForward(f) \/ forwards' = [forwards EXCEPT ![f] = me]
    BY <1>7 DEF ReadBound
  <2> HIDE DEF me
  <2> QED
    BY <1>4, <1>5, <1>7, <2>1, <2>2 DEF ReadBound, bindingVars
<1>8. CASE ReadGroup(f)
  <2>1. CASE EndForward(f)
    BY <1>5, <1>8, <2>1 DEF ReadGroup, bindingVars
  <2>2. CASE MaySend(forwards[f])
    <3> DEFINE p == BoxOwner[forwards[f].box]
               pc == IF forwards[f].routing = "mailboxTopic" THEN "row" ELSE "send"
               t == IF forwards[f].routing = "generalTopic"
                    THEN manage[p].topic ELSE forwards[f].topic
               me == [forwards[f] EXCEPT !.pc = pc, !.topic = t]
    <3>1. manage[p].enabled \/ \E b \in Boxes(p) : notify[b].enabled
      BY <2>2 DEF MaySend
    <3>2. me.box = forwards[f].box
      BY <1>3 DEF ForwardState
    <3>3. forwards' = [forwards EXCEPT ![f] = me] \/ EndForward(f)
      BY <1>8 DEF ReadGroup
    <3> HIDE DEF me
    <3>4. UNCHANGED <<manage, notify>>
      BY <1>8 DEF ReadGroup, bindingVars
    <3>5. ASSUME forwards' = [forwards EXCEPT ![f] = me], NEW o \in Owner
          PROVE  QuietFor(o)'
      <4>1. CASE o = p
        BY <1>1, <1>2, <3>1, <3>4, <4>1, KeepsQuiet DEF QuietInv
      <4>2. CASE o # p
        <5>1. Admitted(o)' # {} => Admitted(o) # {}
          BY <1>1, <3>2, <3>5, <4>2, AdmittedStep
        <5> QED
          BY <1>1, <1>2, <3>4, <5>1, KeepsQuiet DEF QuietInv
      <4> QED
        BY <4>1, <4>2
    <3> QED
      BY <2>1, <3>3, <3>5
  <2> QED
    BY <1>8, <2>1, <2>2 DEF ReadGroup
<1>9. CASE ReadRow(f)
  <2> DEFINE row == notify[forwards[f].box]
             me == [forwards[f] EXCEPT !.pc = IF row.enabled THEN "send" ELSE "create",
                                       !.topic = IF row.enabled THEN row.topic ELSE 0]
  <2>1. me.box = forwards[f].box
    BY <1>3 DEF ForwardState
  <2>2. forwards' = [forwards EXCEPT ![f] = me] /\ forwards[f].pc = "row"
    BY <1>9 DEF ReadRow
  <2> HIDE DEF me
  <2> QED
    BY <1>4, <1>9, <2>1, <2>2 DEF ReadRow, bindingVars
<1>10. CASE CreateTopic(f)
  <2> DEFINE me == [forwards[f] EXCEPT !.pc = "store", !.topic = NewTopic]
  <2>1. me.box = forwards[f].box
    BY <1>3 DEF ForwardState
  <2>2. forwards' = [forwards EXCEPT ![f] = me] /\ forwards[f].pc = "create"
    BY <1>10 DEF CreateTopic
  <2> HIDE DEF me
  <2> QED
    BY <1>4, <1>10, <2>1, <2>2 DEF CreateTopic, bindingVars
<1>11. CASE StoreTopic(f)
  <2> DEFINE p == BoxOwner[forwards[f].box]
             me == [forwards[f] EXCEPT !.pc = "send"]
  <2>1. /\ me.box = forwards[f].box /\ forwards[f].box \in Box
        /\ forwards[f].pc = "store" /\ forwards' = [forwards EXCEPT ![f] = me]
    BY <1>3, <1>11 DEF ForwardState, StoreTopic
  <2>2. f \in Admitted(p)
    BY <2>1 DEF Admitted
  <2>3. \A o \in Owner : manage'[o].enabled => manage[o].enabled
    BY <1>1, <1>11 DEF StoreTopic, TelegramTypeOK, ManageRow
  <2>4. \A b \in Box : notify'[b].enabled => notify[b].enabled \/ b = forwards[f].box
    BY <1>1, <1>11 DEF StoreTopic, TelegramTypeOK
  <2> HIDE DEF me
  <2>5. ASSUME NEW o \in Owner PROVE QuietFor(o)'
    <3>1. Admitted(o)' # {} => Admitted(o) # {}
      BY <1>1, <2>1, AdmittedStep DEF Admitted
    <3>2. \A b \in Boxes(o) : notify'[b].enabled
            => notify[b].enabled \/ Admitted(o) # {}
      BY <2>2, <2>4 DEF Boxes
    <3> QED
      BY <1>1, <1>2, <2>3, <3>1, <3>2, KeepsQuiet DEF QuietInv
  <2> QED
    BY <2>5
<1>12. CASE SendMessage(f)
  <2> DEFINE me == [forwards[f] EXCEPT !.pc = "create", !.again = TRUE]
  <2>1. me.box = forwards[f].box
    BY <1>3 DEF ForwardState
  <2>2. forwards[f].pc = "send"
        /\ (EndForward(f) \/ forwards' = [forwards EXCEPT ![f] = me])
    BY <1>12 DEF SendMessage
  <2> HIDE DEF me
  <2> QED
    BY <1>4, <1>5, <1>12, <2>1, <2>2 DEF SendMessage, bindingVars
<1>13. CASE AbortForward(f)
  BY <1>5, <1>13 DEF AbortForward, bindingVars
<1> QED
  BY <1>6, <1>7, <1>8, <1>9, <1>10, <1>11, <1>12, <1>13 DEF ForwardNext

LEMMA QuietStep == QuietInv /\ [TelegramNext]_telegramVars => QuietInv'
<1> SUFFICES ASSUME QuietInv, [TelegramNext]_telegramVars
             PROVE  \A o \in Owner : QuietFor(o)'
  BY NextType DEF QuietInv
<1>1. ASSUME UNCHANGED <<manage, notify, visits, forwards, quiet>>,
             UNCHANGED updates \/ \E u \in Update : SendCommand(u) \/ Deliver(u)
      PROVE  \A o \in Owner : QuietFor(o)'
  <2>1. TelegramTypeOK
    BY DEF QuietInv
  <2>2. ASSUME NEW o \in Owner PROVE Enabling(o)' => Enabling(o)
    <3>1. CASE UNCHANGED updates
      BY <1>1, <3>1, SameEnabling
    <3>2. ASSUME NEW u \in Update, SendCommand(u) PROVE Enabling(o)' => Enabling(o)
      <4>1. updates[u].pc = "idle" /\ updates[u] \in UpdateState
        BY <2>1, <3>2, UpdateType DEF SendCommand, HandlerOK, HandlerStep
      <4>2. PICK me : updates' = [updates EXCEPT ![u] = me] /\ me.pc = "idle"
        <5>1. PICK s \in Sender :
                \/ updates' = [updates EXCEPT ![u].command = "unlink", ![u].sender = s]
                \/ \E command \in {"start", "bind"}, c \in IssuedCodes :
                     updates' = [updates EXCEPT ![u].command = command,
                                   ![u].sender = s, ![u].code = c]
          BY <3>2 DEF SendCommand
        <5>2. CASE updates' = [updates EXCEPT ![u].command = "unlink", ![u].sender = s]
          <6>1. [updates[u] EXCEPT !.command = "unlink", !.sender = s].pc = "idle"
            BY <4>1 DEF UpdateState
          <6>2. updates' = [updates EXCEPT ![u] =
                  [updates[u] EXCEPT !.command = "unlink", !.sender = s]]
            BY <5>2
          <6> QED
            BY <6>1, <6>2
        <5>3. ASSUME NEW command \in {"start", "bind"}, NEW c \in IssuedCodes,
                     updates' = [updates EXCEPT ![u].command = command,
                                   ![u].sender = s, ![u].code = c]
              PROVE  \E me : updates' = [updates EXCEPT ![u] = me] /\ me.pc = "idle"
          <6>1. [updates[u] EXCEPT !.command = command, !.sender = s,
                                   !.code = c].pc = "idle"
            BY <4>1 DEF UpdateState
          <6>2. updates' = [updates EXCEPT ![u] =
                  [updates[u] EXCEPT !.command = command, !.sender = s, !.code = c]]
            BY <5>3
          <6> QED
            BY <6>1, <6>2
        <5> QED
          BY <5>1, <5>2, <5>3
      <4>3. ~AboutToEnable(me, o)
        BY <4>2 DEF AboutToEnable
      <4> QED
        BY <1>1, <2>1, <4>2, <4>3, EnablingStep
    <3>3. ASSUME NEW u \in Update, Deliver(u) PROVE Enabling(o)' => Enabling(o)
      <4> DEFINE me == [updates[u] EXCEPT !.logged = TRUE,
                          !.pc = FirstStep(updates[u].command)]
      <4>1. /\ me.pc = FirstStep(me.command)
            /\ UNCHANGED updates \/ updates' = [updates EXCEPT ![u] = me]
        BY <2>1, <3>3 DEF Deliver, TelegramTypeOK, UpdateState
      <4>2. ~AboutToEnable(me, o)
        BY <4>1 DEF AboutToEnable, FirstStep
      <4> HIDE DEF me
      <4> QED
        BY <1>1, <2>1, <3>1, <4>1, <4>2, EnablingStep
    <3> QED
      BY <1>1, <3>1, <3>2, <3>3
  <2> QED
    BY <1>1, <2>2, QuietSoon
<1>2. ASSUME NEW c \in Code, IssueCode(c) \/ ExpireCode(c)
      PROVE  \A o \in Owner : QuietFor(o)'
  BY <1>1, <1>2 DEF IssueCode, ExpireCode, bindingVars, taskVars, historyVars
<1>3. ASSUME NEW u \in Update, SendCommand(u) \/ Deliver(u)
      PROVE  \A o \in Owner : QuietFor(o)'
  BY <1>1, <1>3 DEF SendCommand, Deliver, bindingVars, historyVars
<1>4. ASSUME NEW t, DeleteTopic(t) PROVE \A o \in Owner : QuietFor(o)'
  BY <1>1, <1>4 DEF DeleteTopic, bindingVars, taskVars, historyVars
<1>5. CASE UNCHANGED telegramVars
  BY <1>1, <1>5 DEF telegramVars
<1> QED
  BY <1>2, <1>3, <1>4, <1>5, HandlerQuiet, VisitQuiet, ForwardQuiet DEF TelegramNext

\* Once /unlink has answered, whatever was not on its way by then finds the
\* group disabled until somebody asks for it again; and where no forward was on
\* its way either, the topics stay disabled and nothing is sent.
THEOREM StaysQuiet == TelegramSpec => []Quiet
<1>1. TelegramInit => QuietInv
  <2> SUFFICES ASSUME TelegramInit PROVE QuietInv
    OBVIOUS
  <2>1. \A o \in Owner : QuietFor(o)
    BY DEF TelegramInit, QuietFor
  <2> QED
    BY <2>1, InitType DEF QuietInv
<1>2. QuietInv /\ [TelegramNext]_telegramVars => QuietInv'
  BY QuietStep
<1>3. QuietInv => Quiet
  BY DEF QuietInv, QuietFor, Quiet
<1> QED
  BY <1>1, <1>2, <1>3, PTL DEF TelegramSpec

-----------------------------------------------------------------------------
(* Codes and updates implement one-time tokens.                             *)

Holding(me) == me.pc \in {"existing", "link", "topic", "store"}

\* Only one handler holds a code that it marked, until it acts on it.
CodeInv ==
    /\ \A c \in Code : /\ took[c] # 0 => codes[c].used
                       /\ codes[c].used => ~codes[c].expired
                       /\ codes[c].used \/ codes[c].expired
                            => codes[c].purpose # "none"
    /\ \A u \in Update : Holding(updates[u]) =>
         /\ codes[updates[u].code].used /\ took[updates[u].code] = 0
         /\ \A w \in Update : Holding(updates[w]) /\ updates[w].code = updates[u].code
                                => w = u

UpdateInv == \A u \in Update : /\ handled[u] # 0 => updates[u].logged
                               /\ updates[u].logged => updates[u].command # "none"

DoneInv == TelegramTypeOK /\ CodeInv /\ UpdateInv

CodeStep == [CodesOnce!Next]_<<IssuedCodes, ExpiredCodes, took>>
UpdateStep == [UpdatesOnce!Next]_<<SentUpdates, {}, handled>>

\* A step of one handler that marks nothing and acts on no code.
LEMMA CodeKept ==
    ASSUME DoneInv, NEW u \in Update, NEW me, updates' = [updates EXCEPT ![u] = me],
           Holding(me) => Holding(updates[u]) /\ me.code = updates[u].code,
           UNCHANGED <<codes, took>>
    PROVE  CodeInv' /\ CodeStep
<1>1. CodeInv'
  BY DEF DoneInv, CodeInv, TelegramTypeOK
<1> QED
  BY <1>1 DEF CodeStep, IssuedCodes, ExpiredCodes

LEMMA AnswerCode ==
    ASSUME DoneInv, NEW u \in Update, Answer(u), UNCHANGED <<codes, took>>
    PROVE  CodeInv' /\ CodeStep
<1> DEFINE me == [updates[u] EXCEPT !.pc = "idle", !.owner = Nobody, !.topic = 0]
<1>1. me.pc = "idle"
  BY DEF DoneInv, TelegramTypeOK, UpdateState
<1>2. updates' = [updates EXCEPT ![u] = me] /\ ~Holding(me)
  BY <1>1 DEF Answer, Holding
<1> HIDE DEF me
<1> QED
  BY <1>2, CodeKept

\* The handler that marked a code acts on it.
LEMMA CodeTaken ==
    ASSUME DoneInv, NEW u \in Update, Holding(updates[u]), Answer(u),
           UNCHANGED codes, took' = [took EXCEPT ![updates[u].code] = @ + 1]
    PROVE  CodeInv' /\ CodeStep
<1>1. PICK c \in Code : c = updates[u].code
  BY HandlerFacts DEF DoneInv, Holding, IssuedCodes
<1>2. took \in [Code -> Nat] /\ took[c] = 0 /\ codes[c].used
  BY <1>1 DEF DoneInv, CodeInv, TelegramTypeOK
<1>3. took' = [took EXCEPT ![c] = 1]
  BY <1>1, <1>2
<1>4. /\ took'[c] = 1
      /\ \A d \in Code : d # c => took'[d] = took[d]
      /\ took' = [d \in Code |-> IF d \in {c} THEN 1 ELSE took[d]]
  <2>1. took' \in [Code -> Nat]
    BY <1>2, <1>3
  <2>2. \A d \in Code : took'[d] = IF d \in {c} THEN 1 ELSE took[d]
    BY <1>2, <1>3
  <2> QED
    BY <2>1, <2>2
<1>5. /\ ~Holding(updates'[u])
      /\ \A w \in Update : w # u => updates'[w] = updates[w]
  BY DEF Answer, Holding, DoneInv, TelegramTypeOK, UpdateState
<1>6. CodeInv'
  BY <1>1, <1>2, <1>4, <1>5 DEF DoneInv, CodeInv
<1>7. UNCHANGED <<IssuedCodes, ExpiredCodes>>
  BY DEF IssuedCodes, ExpiredCodes
<1>8. c \in CodesOnce!Unspent
  BY <1>2 DEF CodesOnce!Unspent, DoneInv, CodeInv, IssuedCodes, ExpiredCodes
<1>9. CodesOnce!Spend({c}) /\ CodesOnce!Replace({}, {})
  BY <1>4, <1>7 DEF CodesOnce!Spend, CodesOnce!Replace
<1>10. CodesOnce!Next
  BY <1>8, <1>9 DEF CodesOnce!Next
<1> QED
  BY <1>6, <1>10 DEF CodeStep

\* Of the handlers that found a code, one marks it.
LEMMA MarkCodeOnce ==
    ASSUME DoneInv, NEW u \in Update, MarkCode(u)
    PROVE  CodeInv' /\ CodeStep
<1>1. UNCHANGED took /\ TelegramTypeOK
  BY DEF MarkCode, historyVars, DoneInv
<1>2. CASE UNCHANGED codes /\ Answer(u)
  BY <1>1, <1>2, AnswerCode
<1>3. CASE /\ Redeemable(updates[u].code)
           /\ codes' = [codes EXCEPT ![updates[u].code].used = TRUE]
  <2>1. PICK c \in Code : c = updates[u].code /\ codes[c].purpose # "none"
    BY <1>1, UpdateType DEF MarkCode, HandlerOK, HandlerStep, UpdateState, Command,
                            IssuedCodes
  <2>2. /\ codes'[c].used
        /\ \A d \in Code : /\ codes'[d].purpose = codes[d].purpose
                           /\ codes'[d].expired = codes[d].expired
                           /\ d # c => codes'[d] = codes[d]
    BY <1>1, <1>3, <2>1 DEF TelegramTypeOK, CodeRow
  <2>3. ~codes[c].used /\ ~codes[c].expired
    BY <1>3, <2>1 DEF Redeemable
  <2>4. took[c] = 0 /\ \A w \in Update : Holding(updates[w]) => updates[w].code # c
    BY <2>3 DEF DoneInv, CodeInv
  <2>5. /\ updates'[u].code = c
        /\ \A w \in Update : w # u => updates'[w] = updates[w]
    <3>1. \/ updates' = [updates EXCEPT ![u].pc = "existing",
                                        ![u].owner = codes[updates[u].code].owner]
          \/ GoOn(u, "topic")
          \/ Answer(u)
      BY DEF MarkCode
    <3>2. updates \in [Update -> UpdateState]
      BY <1>1 DEF TelegramTypeOK
    <3> QED
      BY <2>1, <3>1, <3>2 DEF GoOn, Answer, UpdateState
  <2>6. CodeInv'
    <3>1. \A w \in Update : Holding(updates[w]) => updates[w].code \in Code
      BY <1>1, HandlerFacts DEF Holding, IssuedCodes
    <3>2. took'[c] = 0 /\ took' = took
      BY <1>1, <2>4
    <3>3. \A d \in Code : /\ took'[d] # 0 => codes'[d].used
                          /\ codes'[d].used => ~codes'[d].expired
                          /\ codes'[d].used \/ codes'[d].expired
                               => codes'[d].purpose # "none"
      BY <2>1, <2>2, <2>3, <3>2 DEF DoneInv, CodeInv
    <3>4. \A w \in Update : Holding(updates'[w]) =>
            /\ codes'[updates'[w].code].used /\ took'[updates'[w].code] = 0
            /\ \A x \in Update :
                 Holding(updates'[x]) /\ updates'[x].code = updates'[w].code => x = w
      <4>1. ASSUME NEW w \in Update, Holding(updates'[w])
            PROVE  codes'[updates'[w].code].used /\ took'[updates'[w].code] = 0
        BY <2>2, <2>4, <2>5, <3>1, <3>2, <4>1 DEF DoneInv, CodeInv
      <4>2. ASSUME NEW w \in Update, NEW x \in Update, Holding(updates'[w]),
                   Holding(updates'[x]), updates'[x].code = updates'[w].code
            PROVE  x = w
        BY <2>4, <2>5, <4>2 DEF DoneInv, CodeInv
      <4> QED
        BY <4>1, <4>2
    <3> QED
      BY <3>3, <3>4 DEF CodeInv, Holding
  <2>7. UNCHANGED <<IssuedCodes, ExpiredCodes>>
    BY <2>2 DEF IssuedCodes, ExpiredCodes
  <2> QED
    BY <1>1, <2>6, <2>7 DEF CodeStep
<1> QED
  BY <1>2, <1>3 DEF MarkCode

LEMMA IssueCodeOnce ==
    ASSUME DoneInv, NEW c \in Code, IssueCode(c) \/ ExpireCode(c)
    PROVE  CodeInv' /\ CodeStep
<1>1. UNCHANGED <<updates, took>> /\ TelegramTypeOK
  BY DEF IssueCode, ExpireCode, taskVars, historyVars, DoneInv
<1>2. CASE IssueCode(c)
  <2>1. /\ codes[c].purpose = "none"
        /\ codes'[c].purpose # "none" /\ ~codes'[c].used /\ ~codes'[c].expired
        /\ \A d \in Code : d # c => codes'[d] = codes[d]
    BY <1>1, <1>2 DEF IssueCode, PurposeOf, TelegramTypeOK
  <2>2. ~codes[c].used /\ took[c] = 0 /\ ~(c \in IssuedCodes)
    BY <2>1 DEF DoneInv, CodeInv, IssuedCodes
  <2>3. \A w \in Update : Holding(updates[w]) => updates[w].code # c
    BY <2>2 DEF DoneInv, CodeInv
  <2>4. \A w \in Update : Holding(updates[w]) => updates[w].code \in Code
    BY <1>1, HandlerFacts DEF Holding, IssuedCodes
  <2>5. CodeInv'
    BY <1>1, <2>1, <2>2, <2>3, <2>4 DEF DoneInv, CodeInv
  <2>6. IssuedCodes' = IssuedCodes \union {c}
    BY <2>1 DEF IssuedCodes
  <2>7. ExpiredCodes' = ExpiredCodes
    BY <2>1 DEF ExpiredCodes, DoneInv, CodeInv
  <2>8. CodesOnce!Replace({c}, {})
    BY <2>2, <2>6, <2>7 DEF CodesOnce!Replace
  <2>9. {c} \in SUBSET Code /\ {} \in SUBSET Code
    OBVIOUS
  <2>10. CodesOnce!Next
    BY <1>1, <2>8, <2>9 DEF CodesOnce!Next
  <2> QED
    BY <2>5, <2>10 DEF CodeStep
<1>3. CASE ExpireCode(c)
  <2>1. /\ codes[c].purpose # "none" /\ ~codes[c].used
        /\ codes' = [codes EXCEPT ![c].expired = TRUE]
    BY <1>3 DEF ExpireCode
  <2>2. /\ codes'[c].expired
        /\ \A d \in Code : /\ codes'[d].purpose = codes[d].purpose
                           /\ codes'[d].used = codes[d].used
                           /\ d # c => codes'[d] = codes[d]
    BY <1>1, <2>1 DEF TelegramTypeOK, CodeRow
  <2>3. \A w \in Update : Holding(updates[w]) => updates[w].code \in Code
    BY <1>1, HandlerFacts DEF Holding, IssuedCodes
  <2>4. CodeInv'
    BY <1>1, <2>1, <2>2, <2>3 DEF DoneInv, CodeInv
  <2>5. took[c] = 0 /\ c \in IssuedCodes
    BY <2>1 DEF DoneInv, CodeInv, IssuedCodes
  <2>6. IssuedCodes' = IssuedCodes /\ ExpiredCodes' = ExpiredCodes \union {c}
    BY <2>2 DEF IssuedCodes, ExpiredCodes
  <2>7. CodesOnce!Replace({}, {c})
    BY <2>5, <2>6 DEF CodesOnce!Replace
  <2>8. {c} \in SUBSET Code /\ {} \in SUBSET Code
    OBVIOUS
  <2>9. CodesOnce!Next
    BY <1>1, <2>7, <2>8 DEF CodesOnce!Next
  <2> QED
    BY <2>4, <2>9 DEF CodeStep
<1> QED
  BY <1>2, <1>3

LEMMA HandlerOnce ==
    ASSUME DoneInv, NEW u \in Update, HandlerNext(u)
    PROVE  CodeInv' /\ CodeStep
<1>1. updates[u] \in UpdateState
  BY DEF DoneInv, TelegramTypeOK
<1>2. ASSUME GoOn(u, "mark") \/ GoOn(u, "disable"), UNCHANGED <<codes, took>>
      PROVE  CodeInv' /\ CodeStep
  <2>1. ASSUME NEW pc \in {"mark", "disable"}, GoOn(u, pc)
        PROVE  CodeInv' /\ CodeStep
    <3> DEFINE me == [updates[u] EXCEPT !.pc = pc]
    <3>1. updates' = [updates EXCEPT ![u] = me] /\ ~Holding(me)
      BY <1>1, <2>1 DEF GoOn, Holding, UpdateState
    <3> HIDE DEF me
    <3> QED
      BY <1>2, <3>1, CodeKept
  <2> QED
    BY <1>2, <2>1
<1>3. CASE ReadLink(u)
  <2> DEFINE me == [updates[u] EXCEPT !.owner = links[updates[u].sender],
                      !.pc = IF updates[u].command = "bind" THEN "find" ELSE "revoke"]
  <2>1. ~Holding(me)
    BY <1>1 DEF Holding, UpdateState
  <2>2. Answer(u) \/ updates' = [updates EXCEPT ![u] = me]
    BY <1>3 DEF ReadLink
  <2> HIDE DEF me
  <2> QED
    BY <1>3, <2>1, <2>2, AnswerCode, CodeKept DEF ReadLink
<1>4. CASE FindCode(u)
  BY <1>2, <1>4, AnswerCode DEF FindCode, historyVars
<1>5. CASE ReadExisting(u)
  <2> DEFINE me == [updates[u] EXCEPT !.pc = "link"]
  <2>1. Holding(updates[u]) /\ me.code = updates[u].code
    BY <1>1, <1>5 DEF ReadExisting, Holding, UpdateState
  <2>2. Answer(u) \/ updates' = [updates EXCEPT ![u] = me]
    BY <1>5 DEF ReadExisting, GoOn
  <2> HIDE DEF me
  <2> QED
    BY <1>5, <2>1, <2>2, AnswerCode, CodeKept DEF ReadExisting, historyVars
<1>6. CASE CreateGeneralTopic(u)
  <2> DEFINE me == [updates[u] EXCEPT !.pc = "store", !.topic = NewTopic]
  <2>1. Holding(updates[u]) /\ me.code = updates[u].code
    BY <1>1, <1>6 DEF CreateGeneralTopic, Holding, UpdateState
  <2>2. updates' = [updates EXCEPT ![u] = me]
    BY <1>6 DEF CreateGeneralTopic
  <2> HIDE DEF me
  <2> QED
    BY <1>6, <2>1, <2>2, CodeKept DEF CreateGeneralTopic, historyVars
<1>7. CASE StoreLink(u)
  BY <1>7, CodeTaken DEF StoreLink, Holding
<1>8. CASE StoreGroup(u)
  BY <1>8, CodeTaken DEF StoreGroup, Holding
<1>9. CASE RevokeLink(u)
  BY <1>2, <1>9 DEF RevokeLink, historyVars
<1>10. CASE DisableRows(u) \/ AbortHandler(u)
  BY <1>10, AnswerCode DEF DisableRows, AbortHandler, historyVars
<1> QED
  BY <1>3, <1>4, <1>5, <1>6, <1>7, <1>8, <1>9, <1>10, MarkCodeOnce DEF HandlerNext

LEMMA HandlerUpdates ==
    ASSUME DoneInv, NEW u \in Update, HandlerNext(u)
    PROVE  UpdateInv' /\ UpdateStep
<1>1. UNCHANGED handled
  BY DEF HandlerNext, ReadLink, FindCode, MarkCode, ReadExisting, StoreLink,
         CreateGeneralTopic, StoreGroup, RevokeLink, DisableRows, AbortHandler,
         historyVars
<1>2. updates \in [Update -> UpdateState]
  BY DEF DoneInv, TelegramTypeOK
<1>3. \A w \in Update : /\ updates'[w].logged = updates[w].logged
                        /\ updates'[w].command = updates[w].command
  <2> DEFINE Kept == \A w \in Update : /\ updates'[w].logged = updates[w].logged
                                       /\ updates'[w].command = updates[w].command
  <2>1. /\ Answer(u) => Kept
        /\ \A pc : GoOn(u, pc) => Kept
        /\ \A pc, o : updates' = [updates EXCEPT ![u].pc = pc, ![u].owner = o] => Kept
        /\ \A pc, o : updates' = [updates EXCEPT ![u].owner = o, ![u].pc = pc] => Kept
        /\ \A pc, t : updates' = [updates EXCEPT ![u].pc = pc, ![u].topic = t] => Kept
    <3>1. Answer(u) => Kept
      BY <1>2 DEF Answer, UpdateState
    <3>2. ASSUME NEW pc, GoOn(u, pc) PROVE Kept
      BY <1>2, <3>2 DEF GoOn, UpdateState
    <3>3. ASSUME NEW pc, NEW o, updates' = [updates EXCEPT ![u].pc = pc, ![u].owner = o]
          PROVE  Kept
      BY <1>2, <3>3 DEF UpdateState
    <3>4. ASSUME NEW pc, NEW o, updates' = [updates EXCEPT ![u].owner = o, ![u].pc = pc]
          PROVE  Kept
      BY <1>2, <3>4 DEF UpdateState
    <3>5. ASSUME NEW pc, NEW t, updates' = [updates EXCEPT ![u].pc = pc, ![u].topic = t]
          PROVE  Kept
      BY <1>2, <3>5 DEF UpdateState
    <3> QED
      BY <3>1, <3>2, <3>3, <3>4, <3>5
  <2> HIDE DEF Kept
  <2>2. ReadLink(u) => Kept
    BY <2>1 DEF ReadLink
  <2>3. (FindCode(u) \/ ReadExisting(u)) => Kept
    BY <2>1 DEF FindCode, ReadExisting
  <2>4. MarkCode(u) => Kept
    BY <2>1 DEF MarkCode
  <2>5. CreateGeneralTopic(u) => Kept
    BY <2>1 DEF CreateGeneralTopic
  <2>6. (StoreLink(u) \/ StoreGroup(u) \/ DisableRows(u) \/ AbortHandler(u)) => Kept
    BY <2>1 DEF StoreLink, StoreGroup, DisableRows, AbortHandler
  <2>7. RevokeLink(u) => Kept
    BY <2>1 DEF RevokeLink
  <2> QED
    BY <2>2, <2>3, <2>4, <2>5, <2>6, <2>7 DEF HandlerNext, Kept
<1> QED
  BY <1>1, <1>3 DEF DoneInv, UpdateInv, UpdateStep, SentUpdates

LEMMA SendOnce ==
    ASSUME DoneInv, NEW u \in Update, SendCommand(u)
    PROVE  CodeInv' /\ CodeStep /\ UpdateInv' /\ UpdateStep
<1>1. /\ UNCHANGED <<codes, took, handled>> /\ updates \in [Update -> UpdateState]
      /\ updates[u].command = "none"
  BY DEF SendCommand, historyVars, DoneInv, TelegramTypeOK
<1>2. updates[u].pc = "idle" /\ ~updates[u].logged /\ handled[u] = 0
  BY <1>1, UpdateType DEF DoneInv, UpdateInv, HandlerOK, HandlerStep
<1>3. PICK s \in Sender, command \in Command, c \in Code \union {NoCode} :
        \/ updates' = [updates EXCEPT ![u].command = command, ![u].sender = s]
        \/ updates' = [updates EXCEPT ![u].command = command,
                         ![u].sender = s, ![u].code = c]
  BY DEF SendCommand, Command, IssuedCodes
<1>4. /\ updates'[u].command = command /\ updates'[u].pc = "idle"
      /\ ~updates'[u].logged
      /\ \A w \in Update : w # u => updates'[w] = updates[w]
  BY <1>1, <1>2, <1>3 DEF UpdateState
<1>5. CodeInv' /\ CodeStep
  <2>1. ~Holding(updates'[u])
    BY <1>4 DEF Holding
  <2>2. CodeInv'
    BY <1>1, <1>4, <2>1 DEF DoneInv, CodeInv
  <2> QED
    BY <1>1, <2>2 DEF CodeStep, IssuedCodes, ExpiredCodes
<1>6. UpdateInv'
  BY <1>1, <1>2, <1>4 DEF DoneInv, UpdateInv
<1>7. SentUpdates' = SentUpdates \union {u} /\ u \notin SentUpdates
  BY <1>1, <1>4 DEF SentUpdates, Command
<1>8. UpdatesOnce!Replace({u}, {})
  BY <1>7 DEF UpdatesOnce!Replace
<1>9. {u} \in SUBSET Update /\ {} \in SUBSET Update
  OBVIOUS
<1>10. UpdatesOnce!Next
  BY <1>1, <1>8, <1>9 DEF UpdatesOnce!Next
<1> QED
  BY <1>5, <1>6, <1>10 DEF UpdateStep

\* The log row of an update is created once.
LEMMA DeliverOnce ==
    ASSUME DoneInv, NEW u \in Update, Deliver(u)
    PROVE  CodeInv' /\ CodeStep /\ UpdateInv' /\ UpdateStep
<1>1. /\ UNCHANGED <<codes, took>> /\ updates \in [Update -> UpdateState]
      /\ handled \in [Update -> Nat] /\ updates[u].command # "none"
  BY DEF Deliver, DoneInv, TelegramTypeOK
<1>2. CASE UNCHANGED <<updates, handled>>
  BY <1>1, <1>2 DEF DoneInv, CodeInv, UpdateInv, CodeStep, UpdateStep, IssuedCodes,
                    ExpiredCodes, SentUpdates
<1>3. CASE /\ Fresh(u)
           /\ updates' = [updates EXCEPT ![u].logged = TRUE,
                            ![u].pc = FirstStep(updates[u].command)]
           /\ handled' = [handled EXCEPT ![u] = @ + 1]
  <2>1. handled[u] = 0
    BY <1>3 DEF Fresh, DoneInv, UpdateInv
  <2>2. /\ updates'[u].logged /\ updates'[u].command = updates[u].command
        /\ updates'[u].pc = FirstStep(updates[u].command)
        /\ \A w \in Update : w # u => updates'[w] = updates[w]
    BY <1>1, <1>3 DEF UpdateState
  <2>3. handled' = [w \in Update |-> IF w \in {u} THEN 1 ELSE handled[w]]
    <3>1. handled' \in [Update -> Nat]
      BY <1>1, <1>3
    <3>2. \A w \in Update : handled'[w] = IF w \in {u} THEN 1 ELSE handled[w]
      BY <1>1, <1>3, <2>1
    <3> QED
      BY <3>1, <3>2
  <2>4. CodeInv' /\ CodeStep
    <3>1. ~Holding(updates'[u])
      BY <2>2 DEF Holding, FirstStep
    <3>2. CodeInv'
      BY <1>1, <2>2, <3>1 DEF DoneInv, CodeInv
    <3> QED
      BY <1>1, <3>2 DEF CodeStep, IssuedCodes, ExpiredCodes
  <2>5. UpdateInv'
    BY <1>1, <2>2, <2>3 DEF DoneInv, UpdateInv
  <2>6. SentUpdates' = SentUpdates /\ u \in SentUpdates
    BY <1>1, <2>2 DEF SentUpdates
  <2>7. u \in UpdatesOnce!Unspent
    BY <2>1, <2>6 DEF UpdatesOnce!Unspent
  <2>8. UpdatesOnce!Spend({u}) /\ UpdatesOnce!Replace({}, {})
    BY <2>3, <2>6 DEF UpdatesOnce!Spend, UpdatesOnce!Replace
  <2>9. UpdatesOnce!Next
    BY <2>7, <2>8 DEF UpdatesOnce!Next
  <2> QED
    BY <2>4, <2>5, <2>9 DEF UpdateStep
<1> QED
  BY <1>2, <1>3 DEF Deliver

LEMMA DoneInit == TelegramInit => DoneInv /\ CodesOnce!Init /\ UpdatesOnce!Init
<1> SUFFICES ASSUME TelegramInit
             PROVE  DoneInv /\ CodesOnce!Init /\ UpdatesOnce!Init
  OBVIOUS
<1>1. \A u \in Update : /\ updates[u].pc = "idle" /\ ~updates[u].logged
                        /\ updates[u].command = "none" /\ handled[u] = 0
  BY DEF TelegramInit
<1>2. \A c \in Code : /\ codes[c].purpose = "none" /\ ~codes[c].used
                      /\ ~codes[c].expired /\ took[c] = 0
  BY DEF TelegramInit
<1>3. CodeInv /\ UpdateInv
  BY <1>1, <1>2 DEF CodeInv, UpdateInv, Holding
<1>4. IssuedCodes = {} /\ ExpiredCodes = {} /\ SentUpdates = {}
  BY <1>1, <1>2 DEF IssuedCodes, ExpiredCodes, SentUpdates
<1>5. took = [c \in Code |-> 0] /\ handled = [u \in Update |-> 0]
  BY DEF TelegramInit
<1> QED
  BY <1>3, <1>4, <1>5, InitType DEF DoneInv, CodesOnce!Init, UpdatesOnce!Init

LEMMA DoneNext ==
    DoneInv /\ [TelegramNext]_telegramVars => DoneInv' /\ CodeStep /\ UpdateStep
<1> SUFFICES ASSUME DoneInv, [TelegramNext]_telegramVars
             PROVE  CodeInv' /\ UpdateInv' /\ CodeStep /\ UpdateStep
  BY NextType DEF DoneInv
<1>1. ASSUME UNCHANGED <<codes, updates, took, handled>>
      PROVE  CodeInv' /\ UpdateInv' /\ CodeStep /\ UpdateStep
  BY <1>1 DEF DoneInv, CodeInv, UpdateInv, CodeStep, UpdateStep, IssuedCodes,
              ExpiredCodes, SentUpdates
<1>2. ASSUME NEW c \in Code, IssueCode(c) \/ ExpireCode(c)
      PROVE  CodeInv' /\ UpdateInv' /\ CodeStep /\ UpdateStep
  <2>1. UNCHANGED <<updates, handled>>
    BY <1>2 DEF IssueCode, ExpireCode, taskVars, historyVars
  <2>2. UpdateInv' /\ UpdateStep
    BY <2>1 DEF DoneInv, UpdateInv, UpdateStep, SentUpdates
  <2> QED
    BY <1>2, <2>2, IssueCodeOnce
<1>3. ASSUME NEW u \in Update, SendCommand(u) \/ Deliver(u) \/ HandlerNext(u)
      PROVE  CodeInv' /\ UpdateInv' /\ CodeStep /\ UpdateStep
  BY <1>3, SendOnce, DeliverOnce, HandlerOnce, HandlerUpdates
<1>4. ASSUME NEW v \in Visit, VisitNext(v)
      PROVE  CodeInv' /\ UpdateInv' /\ CodeStep /\ UpdateStep
  BY <1>1, <1>4 DEF VisitNext, FindBinding, SwitchBinding, RemoveBinding, AbortVisit,
                    historyVars
<1>5. ASSUME NEW f \in Forward, ForwardNext(f)
      PROVE  CodeInv' /\ UpdateInv' /\ CodeStep /\ UpdateStep
  BY <1>1, <1>5 DEF ForwardNext, BeginForward, ReadBound, ReadGroup, ReadRow,
                    CreateTopic, StoreTopic, SendMessage, AbortForward, historyVars
<1>6. ASSUME NEW t, DeleteTopic(t)
      PROVE  CodeInv' /\ UpdateInv' /\ CodeStep /\ UpdateStep
  BY <1>1, <1>6 DEF DeleteTopic, taskVars, historyVars
<1>7. CASE UNCHANGED telegramVars
  BY <1>1, <1>7 DEF telegramVars
<1> QED
  BY <1>2, <1>3, <1>4, <1>5, <1>6, <1>7 DEF TelegramNext

\* The handlers implement one-time tokens twice over: a bind code takes effect
\* at most once and never after it expired unused, for any number of commands
\* that race for it, and an update is handled at most once.
THEOREM TokensDoneOnce == TelegramSpec => DoneOnce
<1>1. CodeStep => [CodesOnce!Next]_(CodesOnce!vars)
  BY DEF CodeStep, CodesOnce!vars
<1>2. UpdateStep => [UpdatesOnce!Next]_(UpdatesOnce!vars)
  BY DEF UpdateStep, UpdatesOnce!vars
<1> QED
  BY <1>1, <1>2, DoneInit, DoneNext, PTL
     DEF TelegramSpec, DoneOnce, CodesOnce!Spec, UpdatesOnce!Spec
=============================================================================
