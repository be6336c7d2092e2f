---------------------------- MODULE TelegramGroup ----------------------------
(***************************************************************************)
(* The link of accounts to Telegram: the codes that a dashboard issues, the *)
(* commands that Telegram delivers to the webhook, the rows that bind one   *)
(* forum group and its topics to accounts, and the forwards of workflows    *)
(* that go there.  Each read, write and call to Telegram is a step.         *)
(***************************************************************************)
EXTENDS Naturals, FiniteSets

CONSTANTS
    Owner,                      \* accounts
    Nobody,
    Sender,                     \* users of Telegram
    Box,                        \* mailboxes
    BoxOwner,                   \* whose they are
    Code,                       \* bind codes that can ever be issued
    NoCode,
    Update,                     \* updates that Telegram can ever deliver
    Forward,                    \* forwards under way at the same time
    Visit,                      \* requests of the dashboard, likewise
    MaxTopics,                  \* bound: topics ever created in the group
    MaxBindings,                \* bound: MANAGE rows ever created
    Scenes                      \* sets of what senders, owners and nodes do

Command == {"start", "bind", "unlink"}
Change == {"enable", "disable", "remove"}
Routing == {"bound", "generalTopic", "mailboxTopic", "explicit"}

ASSUME TelegramAssumption ==
    /\ Nobody \notin Owner /\ NoCode \notin Code
    /\ Owner # {} /\ Sender # {} /\ Box # {}
    /\ BoxOwner \in [Box -> Owner]
    /\ MaxTopics \in Nat /\ MaxBindings \in Nat
    /\ Scenes \subseteq SUBSET (Command \union Change \union Routing)

VARIABLES
    links,                      \* whom a sender is linked to, unless revoked
    manage,                     \* the MANAGE row of an owner; id 0: none
    notify,                     \* the NOTIFY row of a mailbox
    bindings,                   \* MANAGE rows created so far
    topics,                     \* of the group: how many were made, which live
    codes,                      \* the TelegramBindCode rows
    updates,                    \* commands, their log rows, their handlers
    forwards,
    visits,
    took,                       \* history: how often a code linked or bound
    handled,                    \* history: how often a handler began
    quiet,                      \* history: what /unlink has put an end to
    scene                       \* what is done in this behaviour

telegramVars == <<links, manage, notify, bindings, topics, codes, updates,
                  forwards, visits, took, handled, quiet, scene>>

Purpose == {"LINK_USER", "BIND_CHAT"}

\* Where the handler of a command can be between two awaits.
HandlerStep(command) ==
    CASE command = "start" -> {"find", "mark", "existing", "link"}
      [] command = "bind" -> {"linked", "find", "mark", "topic", "store"}
      [] command = "unlink" -> {"linked", "revoke", "disable"}
      [] OTHER -> {}

UpdateState ==
    [command : Command \union {"none"}, sender : Sender,
     code : Code \union {NoCode}, logged : BOOLEAN,
     pc : {"idle", "linked", "find", "mark", "existing", "link", "topic",
           "store", "revoke", "disable"},
     owner : Owner \union {Nobody},      \* the account it found
     topic : Nat]                        \* the topic it created

ForwardState ==
    [pc : {"idle", "bound", "group", "row", "create", "store", "send"},
     box : Box, routing : Routing, topic : Nat,
     again : BOOLEAN]                    \* the first topic was deleted

VisitState == [op : Change \union {"none"},
               owner : Owner, row : Nat]

ManageRow == [id : Nat, enabled : BOOLEAN, topic : Nat]
NotifyRow == [there : BOOLEAN, enabled : BOOLEAN, topic : Nat]
CodeRow == [purpose : Purpose \union {"none"}, owner : Owner \union {Nobody},
            used : BOOLEAN, expired : BOOLEAN]

IssuedCodes == {c \in Code : codes[c].purpose # "none"}

HandlerOK(me) ==
    /\ me.pc \in HandlerStep(me.command) \union {"idle"}
    /\ me.command \in {"start", "bind"} => me.code \in IssuedCodes
    /\ me.pc \in {"existing", "link", "topic", "store", "revoke", "disable"}
         => me.owner \in Owner
    /\ me.command = "bind" /\ me.pc \in {"find", "mark"} => me.owner \in Owner

TelegramTypeOK ==
    /\ links \in [Sender -> Owner \union {Nobody}]
    /\ manage \in [Owner -> ManageRow]
    /\ notify \in [Box -> NotifyRow]
    /\ bindings \in Nat
    /\ topics \in [made : Nat, live : SUBSET Nat]
    /\ codes \in [Code -> CodeRow]
    /\ \A c \in IssuedCodes : codes[c].owner \in Owner
    /\ updates \in [Update -> UpdateState]
    /\ \A u \in Update : HandlerOK(updates[u])
    /\ forwards \in [Forward -> ForwardState]
    /\ visits \in [Visit -> VisitState]
    /\ took \in [Code -> Nat]
    /\ handled \in [Update -> Nat]
    /\ quiet \in [Owner -> {"no", "group", "all"}]
    /\ scene \in Scenes

Someone == CHOOSE o \in Owner : TRUE
AnySender == CHOOSE s \in Sender : TRUE
AnyBox == CHOOSE b \in Box : TRUE

IdleVisit == [op |-> "none", owner |-> Someone, row |-> 0]
IdleForward == [pc |-> "idle", box |-> AnyBox, routing |-> "bound",
                topic |-> 0, again |-> FALSE]

\* Either nothing was done yet, or one account was linked and bound the group.
TelegramInit ==
    /\ \E before \in Owner \union {Nobody} :
         LET bound == IF before = Nobody THEN 0 ELSE 1 IN
         /\ links = [s \in Sender |-> before]
         /\ manage = [o \in Owner |->
              IF o = before THEN [id |-> 1, enabled |-> TRUE, topic |-> 1]
              ELSE [id |-> 0, enabled |-> FALSE, topic |-> 0]]
         /\ bindings = bound
         /\ topics = [made |-> bound, live |-> 1 .. bound]
    /\ notify = [b \in Box |-> [there |-> FALSE, enabled |-> FALSE, topic |-> 0]]
    /\ codes = [c \in Code |-> [purpose |-> "none", owner |-> Nobody,
                                used |-> FALSE, expired |-> FALSE]]
    /\ updates = [u \in Update |->
         [command |-> "none", sender |-> AnySender, code |-> NoCode,
          logged |-> FALSE, pc |-> "idle", owner |-> Nobody, topic |-> 0]]
    /\ forwards = [f \in Forward |-> IdleForward]
    /\ visits = [v \in Visit |-> IdleVisit]
    /\ took = [c \in Code |-> 0]
    /\ handled = [u \in Update |-> 0]
    /\ quiet = [o \in Owner |-> "no"]
    /\ scene \in Scenes

bindingVars == <<manage, notify, bindings>>
historyVars == <<took, handled, quiet, scene>>
taskVars == <<updates, forwards, visits>>

-----------------------------------------------------------------------------
(* Codes. *)

PurposeOf(command) == IF command = "start" THEN "LINK_USER" ELSE "BIND_CHAT"

\* POST link-code and POST bind-code of an owner's dashboard.
IssueCode(c) ==
    /\ codes[c].purpose = "none"
    /\ \E command \in {"start", "bind"} \intersect scene, o \in Owner :
         codes' = [codes EXCEPT ![c] =
              [purpose |-> PurposeOf(command), owner |-> o, used |-> FALSE,
               expired |-> FALSE]]
    /\ UNCHANGED <<links, bindingVars, topics, taskVars, historyVars>>

ExpireCode(c) ==
    /\ codes[c].purpose # "none" /\ ~codes[c].used /\ ~codes[c].expired
    /\ codes' = [codes EXCEPT ![c].expired = TRUE]
    /\ UNCHANGED <<links, bindingVars, topics, taskVars, historyVars>>

\* What the conditional update of the consumption asks for.
WrongRedeemable(c) == ~codes[c].expired
Redeemable(c) == ~codes[c].used /\ ~codes[c].expired

-----------------------------------------------------------------------------
(* Telegram: a sender writes a command, and the update is delivered, once or *)
(* again when the answer does not reach Telegram in time.                    *)

SendCommand(u) ==
    /\ updates[u].command = "none"
    /\ \E s \in Sender :
         \/ /\ "unlink" \in scene
            /\ updates' = [updates EXCEPT ![u].command = "unlink",
                                          ![u].sender = s]
         \/ \E command \in {"start", "bind"} \intersect scene, c \in IssuedCodes :
              updates' = [updates EXCEPT ![u].command = command,
                            ![u].sender = s, ![u].code = c]
    /\ UNCHANGED <<links, bindingVars, topics, codes, forwards, visits,
                   historyVars>>

FirstStep(command) == IF command = "start" THEN "find" ELSE "linked"

Fresh(u) == ~updates[u].logged

\* The webhook: the log row comes first; a second one is refused by its unique
\* index, and the update is answered as handled.
Deliver(u) ==
    /\ updates[u].command # "none"
    /\ \/ /\ Fresh(u)
          /\ updates' = [updates EXCEPT ![u].logged = TRUE,
                           ![u].pc = FirstStep(updates[u].command)]
          /\ handled' = [handled EXCEPT ![u] = @ + 1]
       \/ ~Fresh(u) /\ UNCHANGED <<updates, handled>>
    /\ UNCHANGED <<links, bindingVars, topics, codes, forwards, visits, took,
                   quiet, scene>>

GoOn(u, pc) == updates' = [updates EXCEPT ![u].pc = pc]
Answer(u) == updates' = [updates EXCEPT ![u] = [@ EXCEPT !.pc = "idle",
                           !.owner = Nobody, !.topic = 0]]

-----------------------------------------------------------------------------
(* /start, /bind and /unlink. *)

\* /bind and /unlink begin with the link of the sender.  From here on /bind is
\* about to enable the group, whatever happens to the link.
ReadLink(u) ==
    LET me == updates[u]
        o == links[me.sender]
    IN /\ me.pc = "linked"
       /\ \/ o = Nobody /\ Answer(u) /\ UNCHANGED quiet
          \/ /\ o # Nobody
             /\ updates' = [updates EXCEPT ![u].owner = o,
                  ![u].pc = IF me.command = "bind" THEN "find" ELSE "revoke"]
             /\ quiet' = IF me.command = "bind" THEN [quiet EXCEPT ![o] = "no"]
                         ELSE quiet
       /\ UNCHANGED <<links, bindingVars, topics, codes, forwards, visits, took,
                      handled, scene>>

FindCode(u) ==
    LET me == updates[u] IN
    /\ me.pc = "find"
    /\ IF codes[me.code].purpose = PurposeOf(me.command)
            /\ ~codes[me.code].used /\ ~codes[me.code].expired
       THEN GoOn(u, "mark") ELSE Answer(u)
    /\ UNCHANGED <<links, bindingVars, topics, codes, forwards, visits,
                   historyVars>>

\* The conditional update that one of several handlers wins.  A code that
\* is another account's is used up all the same.
MarkCode(u) ==
    LET me == updates[u]
        o == codes[me.code].owner
    IN /\ me.pc = "mark"
       /\ \/ /\ Redeemable(me.code)
             /\ codes' = [codes EXCEPT ![me.code].used = TRUE]
             /\ \/ /\ me.command = "start"
                   /\ updates' = [updates EXCEPT ![u].pc = "existing",
                                                 ![u].owner = o]
                \/ me.command = "bind" /\ o = me.owner /\ GoOn(u, "topic")
                \/ me.command = "bind" /\ o # me.owner /\ Answer(u)
          \/ ~Redeemable(me.code) /\ Answer(u) /\ UNCHANGED codes
       /\ UNCHANGED <<links, bindingVars, topics, forwards, visits, historyVars>>

\* The link of another account is not taken over, as far as this read tells.
ReadExisting(u) ==
    LET me == updates[u] IN
    /\ me.pc = "existing"
    /\ IF links[me.sender] \in {Nobody, me.owner} THEN GoOn(u, "link")
       ELSE Answer(u)
    /\ UNCHANGED <<links, bindingVars, topics, codes, forwards, visits,
                   historyVars>>

StoreLink(u) ==
    LET me == updates[u] IN
    /\ me.pc = "link"
    /\ links' = [links EXCEPT ![me.sender] = me.owner]
    /\ took' = [took EXCEPT ![me.code] = @ + 1]
    /\ Answer(u)
    /\ UNCHANGED <<bindingVars, topics, codes, forwards, visits, handled, quiet,
                   scene>>

NewTopic == topics.made + 1
MakeTopic ==
    /\ topics.made < MaxTopics
    /\ topics' = [made |-> NewTopic, live |-> topics.live \union {NewTopic}]

CreateGeneralTopic(u) ==
    /\ updates[u].pc = "topic"
    /\ MakeTopic
    /\ updates' = [updates EXCEPT ![u].pc = "store", ![u].topic = NewTopic]
    /\ UNCHANGED <<links, bindingVars, codes, forwards, visits, historyVars>>

\* The row of the group is created, or enabled with its new topic.
StoreGroup(u) ==
    LET me == updates[u]
        o == me.owner
    IN /\ me.pc = "store"
       /\ \/ /\ manage[o].id # 0
             /\ manage' = [manage EXCEPT ![o].enabled = TRUE,
                                         ![o].topic = me.topic]
             /\ UNCHANGED bindings
          \/ /\ manage[o].id = 0 /\ bindings < MaxBindings
             /\ bindings' = bindings + 1
             /\ manage' = [manage EXCEPT ![o] =
                  [id |-> bindings + 1, enabled |-> TRUE, topic |-> me.topic]]
       /\ took' = [took EXCEPT ![me.code] = @ + 1]
       /\ Answer(u)
       /\ UNCHANGED <<links, notify, topics, codes, forwards, visits, handled,
                      quiet, scene>>

RevokeLink(u) ==
    LET me == updates[u] IN
    /\ me.pc = "revoke"
    /\ links' = [links EXCEPT ![me.sender] = Nobody]
    /\ GoOn(u, "disable")
    /\ UNCHANGED <<bindingVars, topics, codes, forwards, visits, historyVars>>

Boxes(o) == {b \in Box : BoxOwner[b] = o}

\* A handler of /bind, or a request of the dashboard, that will enable the
\* group of o on the strength of what it read.
Enabling(o) ==
    \/ \E u \in Update : /\ updates[u].command = "bind"
                         /\ updates[u].pc \in {"find", "mark", "topic", "store"}
                         /\ updates[u].owner = o
    \/ \E v \in Visit : visits[v].op = "enable" /\ visits[v].owner = o

\* Forwards to the group of o that found it enabled.
Admitted(o) ==
    {f \in Forward : /\ forwards[f].pc \in {"row", "create", "store", "send"}
                     /\ BoxOwner[forwards[f].box] = o}

WrongDisabled(o) == notify              \* only the row of the group
Disabled(o) == [b \in Box |-> IF b \in Boxes(o)
                              THEN [notify[b] EXCEPT !.enabled = FALSE]
                              ELSE notify[b]]

\* One statement for all rows of the account, then the answer.
DisableRows(u) ==
    LET o == updates[u].owner IN
    /\ updates[u].pc = "disable"
    /\ manage' = [manage EXCEPT ![o].enabled = FALSE]
    /\ notify' = Disabled(o)
    /\ quiet' = [quiet EXCEPT ![o] = IF Enabling(o) THEN "no"
                                     ELSE IF Admitted(o) # {} THEN "group"
                                     ELSE "all"]
    /\ Answer(u)
    /\ UNCHANGED <<links, bindings, topics, codes, forwards, visits, took,
                   handled, scene>>

-----------------------------------------------------------------------------
(* The dashboard: PATCH and DELETE of the binding. *)

FindBinding(v) ==
    /\ visits[v].op = "none"
    /\ \E o \in Owner, op \in Change \intersect scene :
         /\ manage[o].id # 0
         /\ visits' = [visits EXCEPT ![v] =
                         [op |-> op, owner |-> o, row |-> manage[o].id]]
         /\ quiet' = IF op = "enable" THEN [quiet EXCEPT ![o] = "no"] ELSE quiet
    /\ UNCHANGED <<links, bindingVars, topics, codes, updates, forwards, took,
                   handled, scene>>

EndVisit(v) == visits' = [visits EXCEPT ![v] = IdleVisit]

\* By the id that was found: nothing happens when that row is gone.
SwitchBinding(v) ==
    LET me == visits[v] IN
    /\ me.op \in {"enable", "disable"}
    /\ manage' = IF manage[me.owner].id = me.row
                 THEN [manage EXCEPT ![me.owner].enabled = (me.op = "enable")]
                 ELSE manage
    /\ EndVisit(v)
    /\ UNCHANGED <<links, notify, bindings, topics, codes, updates, forwards,
                   historyVars>>

\* One transaction over the group's row and the topics of its mailboxes; it is
\* rolled back when the row is gone.
RemoveBinding(v) ==
    LET me == visits[v]
        o == me.owner
    IN /\ me.op = "remove"
       /\ \/ /\ manage[o].id = me.row
             /\ manage' = [manage EXCEPT ![o] =
                             [id |-> 0, enabled |-> FALSE, topic |-> 0]]
             /\ notify' = [b \in Box |-> IF b \in Boxes(o)
                             THEN [there |-> FALSE, enabled |-> FALSE, topic |-> 0]
                             ELSE notify[b]]
          \/ manage[o].id # me.row /\ UNCHANGED <<manage, notify>>
       /\ EndVisit(v)
       /\ UNCHANGED <<links, bindings, topics, codes, updates, forwards,
                      historyVars>>

-----------------------------------------------------------------------------
(* A workflow forwards an e-mail to the group. *)

\* The node names a routing, and for "explicit" maybe a topic; a bound
\* forward looks for the group first.
BeginForward(f) ==
    /\ forwards[f].pc = "idle"
    /\ \E b \in Box, routing \in Routing \intersect scene, t \in 0 .. topics.made :
         /\ routing # "explicit" => t = 0
         /\ forwards' = [forwards EXCEPT ![f] =
              [pc |-> IF routing = "bound" THEN "bound" ELSE "group",
               box |-> b, routing |-> routing, topic |-> t, again |-> FALSE]]
    /\ UNCHANGED <<links, bindingVars, topics, codes, updates, visits,
                   historyVars>>

EndForward(f) == forwards' = [forwards EXCEPT ![f] = IdleForward]

ReadBound(f) ==
    LET me == forwards[f] IN
    /\ me.pc = "bound"
    /\ IF manage[BoxOwner[me.box]].enabled
       THEN forwards' = [forwards EXCEPT ![f].pc = "group",
                                         ![f].routing = "mailboxTopic"]
       ELSE EndForward(f)
    /\ UNCHANGED <<links, bindingVars, topics, codes, updates, visits,
                   historyVars>>

\* Whether the node may send, and where: an explicit topic must be that of an
\* enabled row, everything else asks for the group's own row.
MaySend(me) ==
    LET o == BoxOwner[me.box] IN
    IF me.routing = "explicit" /\ me.topic # 0
    THEN \/ manage[o].enabled /\ manage[o].topic = me.topic
         \/ \E b \in Boxes(o) : notify[b].enabled /\ notify[b].topic = me.topic
    ELSE manage[o].enabled

ReadGroup(f) ==
    LET me == forwards[f] IN
    /\ me.pc = "group"
    /\ \/ ~MaySend(me) /\ EndForward(f)
       \/ /\ MaySend(me)
          /\ forwards' = [forwards EXCEPT
               ![f].pc = IF me.routing = "mailboxTopic" THEN "row" ELSE "send",
               ![f].topic = IF me.routing = "generalTopic"
                            THEN manage[BoxOwner[me.box]].topic ELSE @]
    /\ UNCHANGED <<links, bindingVars, topics, codes, updates, visits,
                   historyVars>>

ReadRow(f) ==
    LET row == notify[forwards[f].box] IN
    /\ forwards[f].pc = "row"
    /\ forwards' = [forwards EXCEPT
         ![f].pc = IF row.enabled THEN "send" ELSE "create",
         ![f].topic = IF row.enabled THEN row.topic ELSE 0]
    /\ UNCHANGED <<links, bindingVars, topics, codes, updates, visits,
                   historyVars>>

CreateTopic(f) ==
    /\ forwards[f].pc = "create"
    /\ MakeTopic
    /\ forwards' = [forwards EXCEPT ![f].pc = "store", ![f].topic = NewTopic]
    /\ UNCHANGED <<links, bindingVars, codes, updates, visits, historyVars>>

\* The row of a mailbox is written enabled, whatever it is by now; that of the
\* group only while it is enabled.
StoreTopic(f) ==
    LET me == forwards[f]
        o == BoxOwner[me.box]
    IN /\ me.pc = "store"
       /\ \/ /\ me.routing = "mailboxTopic"
             /\ notify' = [notify EXCEPT ![me.box] =
                  [there |-> TRUE, enabled |-> TRUE, topic |-> me.topic]]
             /\ UNCHANGED manage
          \/ /\ me.routing # "mailboxTopic"
             /\ manage' = IF manage[o].enabled
                          THEN [manage EXCEPT ![o].topic = me.topic] ELSE manage
             /\ UNCHANGED notify
       /\ forwards' = [forwards EXCEPT ![f].pc = "send"]
       /\ UNCHANGED <<links, bindings, topics, codes, updates, visits,
                      historyVars>>

\* A topic that was deleted is made again, once.
SendMessage(f) ==
    LET me == forwards[f] IN
    /\ me.pc = "send"
    /\ IF me.topic \in topics.live \union {0} \/ me.again
            \/ me.routing = "explicit"
       THEN EndForward(f)
       ELSE forwards' = [forwards EXCEPT ![f].pc = "create", ![f].again = TRUE]
    /\ UNCHANGED <<links, bindingVars, topics, codes, updates, visits,
                   historyVars>>

-----------------------------------------------------------------------------
(* The members of the group, and failures. *)

DeleteTopic(t) ==
    /\ topics' = [topics EXCEPT !.live = @ \ {t}]
    /\ UNCHANGED <<links, bindingVars, codes, taskVars, historyVars>>

\* Any await may throw, a policy may refuse, the server may restart: what was
\* written stays, and a handler is not begun again.
AbortHandler(u) ==
    /\ updates[u].pc # "idle" /\ Answer(u)
    /\ UNCHANGED <<links, bindingVars, topics, codes, forwards, visits,
                   historyVars>>

AbortVisit(v) ==
    /\ visits[v].op # "none" /\ EndVisit(v)
    /\ UNCHANGED <<links, bindingVars, topics, codes, updates, forwards,
                   historyVars>>

AbortForward(f) ==
    /\ forwards[f].pc # "idle" /\ EndForward(f)
    /\ UNCHANGED <<links, bindingVars, topics, codes, updates, visits,
                   historyVars>>

HandlerNext(u) ==
    \/ ReadLink(u) \/ FindCode(u) \/ MarkCode(u) \/ ReadExisting(u)
    \/ StoreLink(u) \/ CreateGeneralTopic(u) \/ StoreGroup(u)
    \/ RevokeLink(u) \/ DisableRows(u) \/ AbortHandler(u)

VisitNext(v) ==
    FindBinding(v) \/ SwitchBinding(v) \/ RemoveBinding(v) \/ AbortVisit(v)

ForwardNext(f) ==
    \/ BeginForward(f) \/ ReadBound(f) \/ ReadGroup(f) \/ ReadRow(f)
    \/ CreateTopic(f) \/ StoreTopic(f) \/ SendMessage(f) \/ AbortForward(f)

TelegramNext ==
    \/ \E c \in Code : IssueCode(c) \/ ExpireCode(c)
    \/ \E u \in Update : SendCommand(u) \/ Deliver(u) \/ HandlerNext(u)
    \/ \E v \in Visit : VisitNext(v)
    \/ \E f \in Forward : ForwardNext(f)
    \/ \E t \in topics.live : DeleteTopic(t)

TelegramSpec == TelegramInit /\ [][TelegramNext]_telegramVars

-----------------------------------------------------------------------------
(* Properties. *)

\* Once /unlink has answered, and no /bind or PATCH had read before that what
\* it acts on, the group stays disabled until somebody asks for it again.
\* Where no forward had found the group enabled by then either, the rows of
\* the topics stay disabled too, and no forward gets through by any routing.
Quiet ==
    \A o \in Owner :
        /\ quiet[o] # "no" => ~manage[o].enabled
        /\ quiet[o] = "all" => /\ \A b \in Boxes(o) : ~notify[b].enabled
                               /\ Admitted(o) = {}

ExpiredCodes == {c \in Code : codes[c].expired}

CodesOnce == INSTANCE OneTimeToken WITH
    Token <- Code, issued <- IssuedCodes, revoked <- ExpiredCodes, effects <- took

SentUpdates == {u \in Update : updates[u].command # "none"}

UpdatesOnce == INSTANCE OneTimeToken WITH
    Token <- Update, issued <- SentUpdates, revoked <- {}, effects <- handled

\* A bind code links or binds at most once, and only when it was redeemed
\* before it expired, however many commands bring it at the same time; and an
\* update is handled at most once, however often it is delivered.
DoneOnce == CodesOnce!Spec /\ UpdatesOnce!Spec
=============================================================================
