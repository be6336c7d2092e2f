---------------------------- MODULE ImapSession ----------------------------
(***************************************************************************)
(* One domain of the IMAP service: the mailbox on the server, the worker   *)
(* that connects, synchronizes and waits in IDLE (worker.ts), the two ways *)
(* of synchronizing (syncByUidRange and syncUnseenMessages of sync.ts) and *)
(* the callers of triggerSync, which wait for the lock of the worker's     *)
(* connection.  What a message becomes is the matter of MailDelivery: here *)
(* it is only handed to processMessage, which may fail without any effect  *)
(* on the synchronization.                                                 *)
(***************************************************************************)
EXTENDS Naturals, FiniteSets

CONSTANTS
    MaxUid,        \* bound: the number of messages of the mailbox
    MinMessages,   \* the mailbox never holds fewer messages than this
    MaxValidity,   \* bound: how often the mailbox is rebuilt, plus one
    MaxErrors,     \* maxConsecutiveErrors
    Personal,      \* sourceType is PERSONAL_IMAP
    RecentLimit,   \* PERSONAL_INITIAL_SYNC_LIMIT
    Trigger,       \* calls of triggerSync by the full sync or by hand
    Worker         \* the worker itself, as one who synchronizes

ASSUME BoundsAssumption ==
    /\ MaxUid \in Nat /\ MinMessages \in 0 .. MaxUid /\ MaxValidity \in Nat \ {0}
    /\ MaxErrors \in Nat \ {0} /\ RecentLimit \in Nat \ {0}
    /\ Personal \in BOOLEAN
    /\ Worker \notin Trigger

VARIABLES
    box,        \* the mailbox on the server
    imapConfig, \* the row of the domain: what it remembers of the mailbox
    worker,     \* the run loop of the worker and its connection
    opened,     \* client.mailbox: what the server said when INBOX was opened
    sync,       \* the synchronizations under way
    handled     \* history, since the last rebuild: messages that were handed to
                \* processMessage or that another client marked as seen

vars == <<box, imapConfig, worker, opened, sync, handled>>

Uid      == 1 .. MaxUid
Validity == 1 .. MaxValidity
Syncer   == Trigger \union {Worker}

\* What the client knows of the mailbox it opened.
Opened == [uidValidity : Validity, uidNext : 1 .. MaxUid + 1]

\* Messages have the uids below uidNext.
Box == [uidValidity : Validity, uidNext : 1 .. MaxUid + 1, unseen : SUBSET Uid]

\* 0 stands for null.
ImapConfig == [lastSyncedUid : 0 .. MaxUid, lastUidValidity : 0 .. MaxValidity,
               lastFullSync : BOOLEAN]

\* "down": before a connection; "failed": the session threw, and its connection
\* is not yet closed.  The displayed status of a worker is left out: the full
\* sync triggers a synchronization whatever it is.
WorkerState == [pc : {"down", "sync", "idle", "failed", "stopped"},
                up : BOOLEAN,            \* client.usable
                woken : BOOLEAN,         \* idleResolve was called
                aborted : BOOLEAN,       \* signal.aborted
                errors : 0 .. MaxErrors] \* consecutiveErrors

SyncMode == {"incremental", "recent", "backfill", "unseen"}

SyncState == [pc : {"off", "waiting", "state", "reset", "search", "last", "fetch",
                    "flags", "update"},
              mode : SyncMode, mailbox : Opened,
              current : BOOLEAN,        \* its client is the worker's present one
              last : 0 .. MaxUid,       \* lastSyncedUid as it was read
              rebuilt : BOOLEAN,        \* uidValidityChanged
              todo : SUBSET Uid, done : SUBSET Uid,
              highestUid : 0 .. MaxUid]

Off == [pc |-> "off", mode |-> "incremental", current |-> FALSE, last |-> 0,
        mailbox |-> [uidValidity |-> 1, uidNext |-> 1],
        rebuilt |-> FALSE, todo |-> {}, done |-> {}, highestUid |-> 0]
RangeSync(mailbox) == [Off EXCEPT !.pc = "state", !.current = TRUE,
                                  !.mailbox = mailbox]
UnseenSync == [Off EXCEPT !.pc = "search", !.mode = "unseen", !.current = TRUE]
NewWorker == [pc |-> "down", up |-> FALSE, woken |-> FALSE, aborted |-> FALSE,
              errors |-> 0]

TypeOK ==
    /\ box \in Box
    /\ imapConfig \in ImapConfig
    /\ worker \in WorkerState
    /\ opened \in Opened
    /\ sync \in [Syncer -> SyncState]
    /\ handled \subseteq Uid

Init ==
    /\ \E n \in MinMessages + 1 .. MaxUid + 1 : \E unseen \in SUBSET (1 .. n - 1) :
         /\ box = [uidValidity |-> 1, uidNext |-> n, unseen |-> unseen]
         /\ opened = [uidValidity |-> 1, uidNext |-> n]
    /\ imapConfig = [lastSyncedUid |-> 0, lastUidValidity |-> 0, lastFullSync |-> FALSE]
    /\ worker = NewWorker
    /\ sync = [s \in Syncer |-> Off]
    /\ handled = {}

-----------------------------------------------------------------------------
(* The server. *)

Arrived == 1 .. box.uidNext - 1

\* EXISTS breaks the IDLE of a worker that is in it; at any other time
\* idleResolve is null and the event is lost.
Arrive ==
    /\ box.uidNext <= MaxUid
    /\ box' = [box EXCEPT !.uidNext = @ + 1, !.unseen = @ \union {box.uidNext}]
    /\ worker' = [worker EXCEPT !.woken = worker.pc = "idle" /\ (@ \/ worker.up)]
    /\ UNCHANGED <<imapConfig, opened, sync, handled>>

\* Another mail client of the same account reads a message.
ReadElsewhere ==
    /\ \E u \in box.unseen :
         /\ box' = [box EXCEPT !.unseen = @ \ {u}]
         /\ handled' = handled \union {u}
    /\ UNCHANGED <<imapConfig, worker, opened, sync>>

\* The server rebuilds the mailbox, with new uids, and drops its clients.
Rebuild ==
    /\ box.uidValidity < MaxValidity
    /\ \E n \in MinMessages + 1 .. box.uidNext : \E unseen \in SUBSET (1 .. n - 1) :
         box' = [uidValidity |-> box.uidValidity + 1, uidNext |-> n,
                 unseen |-> unseen]
    /\ handled' = {}
    /\ worker' = [worker EXCEPT !.up = FALSE]
    /\ UNCHANGED <<imapConfig, opened, sync>>

LoseConnection ==
    /\ worker.up
    /\ worker' = [worker EXCEPT !.up = FALSE]
    /\ UNCHANGED <<box, imapConfig, opened, sync, handled>>

-----------------------------------------------------------------------------
(* Synchronization.  A step that needs the server needs the connection. *)

Connected(s) == sync[s].current /\ worker.up

\* A synchronization returns: the worker goes on to IDLE, a trigger gives the
\* lock back.
Return(s) ==
    /\ sync' = [sync EXCEPT ![s] = Off]
    /\ worker' = IF s = Worker THEN [worker EXCEPT !.pc = "idle", !.woken = FALSE]
                 ELSE worker

\* Any await of it throws.
Throw(s) ==
    /\ sync[s].pc \notin {"off", "waiting"}
    /\ sync' = [sync EXCEPT ![s] = Off]
    /\ worker' = IF s = Worker THEN [worker EXCEPT !.pc = "failed"]
                 ELSE worker
    /\ UNCHANGED <<box, imapConfig, opened, handled>>

\* syncByUidRange reads the row and compares the validities.
ReadState(s) ==
    LET rebuilt == imapConfig.lastUidValidity \notin {0, sync[s].mailbox.uidValidity}
        mode == IF ~Personal \/ rebuilt THEN "incremental"
                ELSE IF imapConfig.lastSyncedUid = 0 THEN "recent"
                ELSE IF ~imapConfig.lastFullSync THEN "backfill"
                ELSE "incremental"
    IN
    /\ sync[s].pc = "state"
    /\ sync' = [sync EXCEPT ![s] =
         [@ EXCEPT !.pc = IF rebuilt THEN "reset" ELSE "search",
                   !.last = imapConfig.lastSyncedUid, !.rebuilt = rebuilt,
                   !.mode = mode,
                   !.highestUid = IF rebuilt THEN 0 ELSE imapConfig.lastSyncedUid]]
    /\ UNCHANGED <<box, imapConfig, worker, opened, handled>>

WrongResetState(s) ==              \* the old uid is kept
    /\ sync[s].pc = "reset"
    /\ imapConfig' = [imapConfig EXCEPT !.lastUidValidity = sync[s].mailbox.uidValidity]
    /\ sync' = [sync EXCEPT ![s].pc = "search"]
    /\ UNCHANGED <<box, worker, opened, handled>>

\* A rebuilt mailbox is to be read from its first uid on.
ResetState(s) ==
    /\ sync[s].pc = "reset"
    /\ imapConfig' = [imapConfig EXCEPT !.lastSyncedUid = 0,
                                        !.lastUidValidity = sync[s].mailbox.uidValidity]
    /\ sync' = [sync EXCEPT ![s].pc = "search"]
    /\ UNCHANGED <<box, worker, opened, handled>>

\* The uids of the range, up to the uidNext of the opened mailbox.
UidRange(s) ==
    LET me == sync[s]
        from == IF me.rebuilt \/ me.mode \in {"recent", "backfill"} THEN 1
                ELSE me.last + 1
        uids == {u \in Arrived : from <= u /\ u < me.mailbox.uidNext}
    IN IF me.mode = "recent"
       THEN {u \in uids : Cardinality({v \in uids : v >= u}) <= RecentLimit}
       ELSE uids

\* A search that finds nothing, or fails, ends the synchronization well.
SearchRange(s) ==
    /\ sync[s].pc = "search" /\ sync[s].mode # "unseen"
    /\ \/ /\ Connected(s) /\ UidRange(s) # {}
          /\ sync' = [sync EXCEPT ![s] = [@ EXCEPT !.pc = "fetch", !.todo = UidRange(s)]]
          /\ UNCHANGED worker
       \/ /\ ~Connected(s) \/ UidRange(s) = {}
          /\ Return(s)
    /\ UNCHANGED <<box, imapConfig, opened, handled>>

SearchUnseen(s) ==
    /\ sync[s].pc = "search" /\ sync[s].mode = "unseen" /\ Connected(s)
    /\ \/ /\ box.unseen # {}
          /\ sync' = [sync EXCEPT ![s] = [@ EXCEPT !.pc = "last", !.todo = box.unseen]]
          /\ UNCHANGED worker
       \/ /\ box.unseen = {}
          /\ Return(s)
    /\ UNCHANGED <<box, imapConfig, opened, handled>>

ReadLast(s) ==
    /\ sync[s].pc = "last"
    /\ sync' = [sync EXCEPT ![s] = [@ EXCEPT !.pc = "fetch",
                   !.last = imapConfig.lastSyncedUid,
                   !.highestUid = imapConfig.lastSyncedUid]]
    /\ UNCHANGED <<box, imapConfig, worker, opened, handled>>

\* One message of the fetch, in any order, is handed to processMessage, whose
\* errors are counted and passed over.
Fetch(s) ==
    LET me == sync[s] IN
    /\ me.pc = "fetch" /\ Connected(s)
    /\ \E uid \in me.todo :
         /\ handled' = handled \union {uid}
         /\ sync' = [sync EXCEPT ![s] =
              [me EXCEPT !.todo = me.todo \ {uid}, !.done = me.done \union {uid},
                         !.highestUid = IF uid > me.highestUid THEN uid ELSE me.highestUid]]
    /\ UNCHANGED <<box, imapConfig, worker, opened>>

EndFetch(s) ==
    /\ sync[s].pc = "fetch" /\ sync[s].todo = {}
    /\ sync' = [sync EXCEPT ![s].pc =
                  IF sync[s].mode = "unseen" THEN "flags" ELSE "update"]
    /\ UNCHANGED <<box, imapConfig, worker, opened, handled>>

\* messageFlagsAdd: what was fetched is seen, processed or not.
MarkSeen(s) ==
    /\ sync[s].pc = "flags" /\ Connected(s)
    /\ box' = [box EXCEPT !.unseen = @ \ sync[s].done]
    /\ sync' = [sync EXCEPT ![s].pc = "update"]
    /\ UNCHANGED <<imapConfig, worker, opened, handled>>

WrongHistoryRead(mode) == TRUE     \* the first, short synchronization counts
\* After this synchronization the row has lastFullSync.
HistoryRead(mode) == mode # "recent"

\* The row remembers the highest uid that was fetched.
WriteState(s) ==
    LET me == sync[s]
        higher == me.highestUid > me.last
    IN
    /\ me.pc = "update"
    /\ imapConfig' =
         IF me.mode = "unseen"
         THEN [imapConfig EXCEPT !.lastSyncedUid = IF higher THEN me.highestUid ELSE @]
         ELSE [lastSyncedUid |-> IF me.highestUid > 0 THEN me.highestUid
                                 ELSE imapConfig.lastSyncedUid,
               lastUidValidity |-> me.mailbox.uidValidity,
               lastFullSync |-> imapConfig.lastFullSync \/ HistoryRead(me.mode)]
    /\ Return(s)
    /\ UNCHANGED <<box, opened, handled>>

SyncStep(s) ==
    \/ ReadState(s) \/ ResetState(s) \/ SearchRange(s) \/ SearchUnseen(s)
    \/ ReadLast(s) \/ Fetch(s) \/ EndFetch(s) \/ MarkSeen(s) \/ WriteState(s)

-----------------------------------------------------------------------------
(* The run loop of the worker. *)

\* The triggers once the connection is closed: who waits for the lock is refused.
Closed == [t \in Syncer |-> IF sync[t].pc = "waiting" THEN Off
                            ELSE [sync[t] EXCEPT !.current = FALSE]]

\* Connect, take the lock, open INBOX and begin the initial sync.
Connect ==
    LET mailbox == [uidValidity |-> box.uidValidity, uidNext |-> box.uidNext] IN
    /\ worker.pc = "down" /\ ~worker.aborted
    /\ worker' = [worker EXCEPT !.pc = "sync", !.up = TRUE]
    /\ opened' = mailbox
    /\ sync' = [sync EXCEPT ![Worker] = RangeSync(mailbox)]
    /\ UNCHANGED <<box, imapConfig, handled>>

WrongTooManyErrors(n) == n > MaxErrors     \* one too late
TooManyErrors(n) == n >= MaxErrors

\* An authentication error, or one error too many, stops the worker for good.
ConnectFails ==
    /\ worker.pc = "down" /\ ~worker.aborted
    /\ \E auth \in BOOLEAN :
         worker' = [worker EXCEPT !.errors = @ + 1, !.pc =
                      IF auth \/ TooManyErrors(worker.errors + 1) THEN "stopped" ELSE "down"]
    /\ UNCHANGED <<box, imapConfig, opened, sync, handled>>

\* What follows an IDLE over a connection that is still usable.
SyncAfterIdle ==
    /\ worker.pc = "idle" /\ worker.up
    /\ worker' = [worker EXCEPT !.pc = "sync", !.woken = FALSE]
    /\ sync' = [sync EXCEPT ![Worker] = UnseenSync]
    /\ UNCHANGED <<box, imapConfig, opened, handled>>

WrongIdleBroken == FALSE           \* only client.idle() is awaited
\* The race of client.idle() with the event is over.
IdleBroken == worker.woken

Wake == IdleBroken /\ SyncAfterIdle

\* client.idle() itself returns, as when the server refuses IDLE.  No timer makes it:
\* at maxIdleTime imapflow only issues IDLE again.
IdleReturns == SyncAfterIdle

\* The loop ends without an error when the connection is lost in it.
EndSession ==
    /\ worker.pc = "idle" /\ ~worker.up
    /\ worker' = [worker EXCEPT !.pc = IF worker.aborted THEN "stopped" ELSE "down",
                                !.woken = FALSE, !.errors = 0]
    /\ sync' = Closed
    /\ UNCHANGED <<box, imapConfig, opened, handled>>

\* The catch and the finally of the loop, up to logout.
Close ==
    /\ worker.pc = "failed"
    /\ worker' = [worker EXCEPT
         !.up = FALSE, !.errors = IF worker.aborted THEN @ ELSE @ + 1,
         !.pc = IF worker.aborted \/ TooManyErrors(worker.errors + 1)
                THEN "stopped" ELSE "down"]
    /\ sync' = Closed
    /\ UNCHANGED <<box, imapConfig, opened, handled>>

\* manager.reconcile stops the worker of a domain that is gone or changed, and
\* starts a new one once it is stopped.
Stop ==
    /\ ~worker.aborted
    /\ worker' = [worker EXCEPT !.aborted = TRUE, !.up = FALSE, !.woken = FALSE]
    /\ UNCHANGED <<box, imapConfig, opened, sync, handled>>

StopAsleep ==
    /\ worker.pc = "down" /\ worker.aborted
    /\ worker' = [worker EXCEPT !.pc = "stopped"]
    /\ UNCHANGED <<box, imapConfig, opened, sync, handled>>

StartWorker ==
    /\ worker.pc = "stopped" /\ worker.aborted
    /\ worker' = NewWorker
    /\ UNCHANGED <<box, imapConfig, opened, sync, handled>>

\* The process dies and is started again.
Restart ==
    /\ worker' = NewWorker
    /\ sync' = [s \in Syncer |-> Off]
    /\ UNCHANGED <<box, imapConfig, opened, handled>>

-----------------------------------------------------------------------------
(* triggerSync. *)

TriggerSync(t) ==
    /\ sync[t].pc = "off" /\ ~worker.aborted
    /\ worker.pc \in {"sync", "idle", "failed"}
    /\ sync' = [sync EXCEPT ![t].pc = "waiting"]
    /\ UNCHANGED <<box, imapConfig, worker, opened, handled>>

Running(s) == sync[s].current /\ sync[s].pc \notin {"off", "waiting"}

WrongLockFree ==                   \* the lock is released for IDLE
    worker.pc \in {"failed", "idle"} /\ \A t \in Trigger : ~Running(t)
\* The worker holds the lock for the whole session.
LockFree == worker.pc = "failed" /\ \A t \in Trigger : ~Running(t)

\* The lock of a connection that is still usable goes to one that waits for it.
Grant(t) ==
    /\ sync[t].pc = "waiting" /\ LockFree /\ worker.up
    /\ sync' = [sync EXCEPT ![t] = RangeSync(opened)]
    /\ UNCHANGED <<box, imapConfig, worker, opened, handled>>

-----------------------------------------------------------------------------
WorkerStep == Connect \/ Wake \/ EndSession \/ Close \/ StopAsleep \/ StartWorker

Next ==
    \/ Arrive \/ ReadElsewhere \/ Rebuild \/ LoseConnection
    \/ WorkerStep \/ IdleReturns \/ ConnectFails \/ Stop \/ Restart
    \/ \E s \in Syncer : SyncStep(s) \/ Throw(s)
    \/ \E t \in Trigger : TriggerSync(t) \/ Grant(t)

\* The event loop runs what can run; connecting is tried again and again.  Nothing is
\* assumed of failures, of the server, or of the end of an IDLE that no event breaks.
Spec ==
    /\ Init /\ [][Next]_vars
    /\ WF_vars(WorkerStep)
    /\ \A s \in Syncer : WF_vars(SyncStep(s))
    /\ \A t \in Trigger : WF_vars(Grant(t))

-----------------------------------------------------------------------------
(* Properties. *)

\* No message is passed over: where the row says that the mailbox, as it is now, is
\* synchronized up to a uid (and, for a personal account, that its history was read),
\* every message up to it was handed to processMessage, through failures, lost
\* connections, restarts and a rebuilt mailbox (sync.ts:595-642, 714-727).  Exempt is
\* only what another client read meanwhile: in a session only unseen messages are
\* searched, and lastSyncedUid passes over the others (sync.ts:548).
NothingSkipped ==
    imapConfig.lastUidValidity = box.uidValidity
      /\ (Personal => imapConfig.lastFullSync)
    => \A u \in Arrived : u <= imapConfig.lastSyncedUid => u \in handled

\* Two synchronizations never run over one connection, so that no message is
\* processed by both (worker.ts:160, 341-342).
OneSyncPerConnection ==
    \A s, t \in Syncer : Running(s) /\ Running(t) => s = t

\* A worker whose IDLE an event breaks processes every message that is unseen then,
\* also those whose own event was lost because the worker was not in IDLE
\* (worker.ts:300-308), unless it loses its connection.
WokenIsServed ==
    \A u \in Uid :
        worker.woken /\ u \in box.unseen \ handled ~> u \in handled \/ ~worker.up

\* "Race between IDLE timeout and break signal" (worker.ts:364): while the connection
\* holds, IDLE ends at its timeout (worker.ts:14) if no event breaks it, so that every
\* unseen message is processed in the end, whatever event was lost.
EventuallyHandled ==
    <>[]worker.up =>
        \A u \in Uid : u \in box.unseen \ handled ~> u \in handled

\* "/refresh: Sync inbound emails" (README.md:191): a synchronization that was asked
\* for by hand is carried out or fails.
TriggerServed == \A t \in Trigger : sync[t].pc = "waiting" ~> sync[t].pc # "waiting"

\* "UIDVALIDITY changed, forcing full sync" (sync.ts:612): once the worker has
\* connected to the rebuilt mailbox and is through its initial synchronization, no
\* message up to the remembered uid is passed over.
RebuildNoticed ==
    /\ worker.pc = "idle" /\ worker.up
    /\ opened.uidValidity = box.uidValidity /\ box.uidValidity > 1
    => \A u \in Arrived : u <= imapConfig.lastSyncedUid => u \in handled
=============================================================================
