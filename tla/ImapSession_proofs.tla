------------------------- MODULE ImapSession_proofs -------------------------
(***************************************************************************)
(* Proofs about ImapSession, for any number of messages, errors and        *)
(* triggers: the types, one synchronization at a time over a connection,   *)
(* and that no message is passed over, in two cases: by the worker of a    *)
(* domain which is not a personal account, and whose mailbox is never      *)
(* empty, however often it is rebuilt; and in a personal account, empty or *)
(* not, whose mailbox is not rebuilt.  Without these conditions it does    *)
(* not hold.                                                               *)
(***************************************************************************)
EXTENDS ImapSession, TLAPS

(***************************************************************************)
(* Part one: types, and who holds the lock.  The errors of a worker that   *)
(* goes on are below the maximum.                                          *)
(***************************************************************************)
ErrorsLeft == worker.pc # "stopped" => worker.errors < MaxErrors

\* The worker synchronizes exactly in the state "sync"; a trigger that runs over
\* the present connection runs after the worker gave its lock back.
LockInv ==
    /\ sync[Worker].pc # "waiting"
    /\ worker.pc = "sync" <=> sync[Worker].pc # "off"
    /\ sync[Worker].pc # "off" => sync[Worker].current
    /\ \A t \in Trigger : Running(t) => worker.pc = "failed"
    /\ \A t, u \in Trigger : Running(t) /\ Running(u) => t = u

TypeInv == TypeOK /\ ErrorsLeft /\ LockInv

Active(s) == sync[s].pc \notin {"off", "waiting"}

LEMMA OffType == Off \in SyncState /\ UnseenSync \in SyncState
                   /\ NewWorker \in WorkerState
<1>1. 0 \in 0 .. MaxUid /\ 1 \in Validity /\ 1 \in 1 .. MaxUid + 1 /\ 0 \in 0 .. MaxErrors
  BY BoundsAssumption DEF Validity
<1>2. [uidValidity |-> 1, uidNext |-> 1] \in Opened
  BY <1>1 DEF Opened
<1>3. Off \in SyncState
  BY <1>1, <1>2 DEF Off, SyncState, SyncMode
<1>4. UnseenSync \in SyncState
  BY <1>3 DEF UnseenSync, SyncState, SyncMode
<1>5. QED
  BY <1>1, <1>3, <1>4 DEF NewWorker, WorkerState

LEMMA RangeType == ASSUME NEW mailbox \in Opened PROVE RangeSync(mailbox) \in SyncState
  BY OffType DEF RangeSync, SyncState, SyncMode

\* A step of a synchronization that goes on keeps types and the lock.
LEMMA GoesOn ==
  ASSUME TypeInv, NEW s \in Syncer, Active(s), NEW new \in SyncState,
         new.pc \notin {"off", "waiting"}, new.current = sync[s].current,
         sync' = [sync EXCEPT ![s] = new], worker' = worker
  PROVE  /\ sync' \in [Syncer -> SyncState] /\ worker' \in WorkerState
         /\ ErrorsLeft' /\ LockInv'
<1>1. sync' \in [Syncer -> SyncState] /\ worker' \in WorkerState /\ ErrorsLeft'
  BY DEF TypeInv, TypeOK, ErrorsLeft
<1>2. \A t \in Syncer : /\ sync'[t] = IF t = s THEN new ELSE sync[t]
                        /\ Running(t)' <=> Running(t)
  BY DEF TypeInv, TypeOK, Running, Active
<1>3. Worker \in Syncer /\ Trigger \subseteq Syncer
  BY DEF Syncer
<1>4. QED
  BY <1>1, <1>2, <1>3 DEF TypeInv, LockInv, Active

\* So does one that ends, whether it returns or throws.
LEMMA Ends ==
  ASSUME TypeInv, NEW s \in Syncer, Active(s), NEW pc \in {"idle", "failed"},
         NEW woken \in BOOLEAN,
         sync' = [sync EXCEPT ![s] = Off],
         worker' = (IF s = Worker
                    THEN [worker EXCEPT !.pc = pc, !.woken = woken]
                    ELSE worker)
  PROVE  /\ sync' \in [Syncer -> SyncState] /\ worker' \in WorkerState
         /\ ErrorsLeft' /\ LockInv'
<1>1. sync' \in [Syncer -> SyncState] /\ worker' \in WorkerState /\ ErrorsLeft'
  <2>1. sync' \in [Syncer -> SyncState]
    BY OffType DEF TypeInv, TypeOK
  <2>2. worker' \in WorkerState
    BY DEF TypeInv, TypeOK, WorkerState
  <2>3. worker'.errors = worker.errors /\ (worker'.pc = "stopped" => worker.pc = "stopped")
        /\ (worker.pc = "stopped" => s # Worker)
    BY DEF TypeInv, TypeOK, WorkerState, LockInv, Active
  <2>4. QED
    BY <2>1, <2>2, <2>3 DEF TypeInv, ErrorsLeft, LockInv, Active
<1>2. \A t \in Syncer : /\ sync'[t] = IF t = s THEN Off ELSE sync[t]
                        /\ Running(t)' <=> Running(t) /\ t # s
  <2>1. \A t \in Syncer : sync'[t] = IF t = s THEN Off ELSE sync[t]
    BY DEF TypeInv, TypeOK
  <2>2. Off.pc = "off"
    BY DEF Off
  <2>3. QED
    BY <2>1, <2>2 DEF Running
<1>3. Worker \in Syncer /\ Trigger \subseteq Syncer /\ Worker \notin Trigger
  BY BoundsAssumption DEF Syncer
<1>4. worker'.pc = IF s = Worker THEN pc ELSE worker.pc
  BY DEF TypeInv, TypeOK, WorkerState
<1>5. worker.pc = "sync" <=> sync'[Worker].pc # "off" \/ s = Worker
  BY <1>2, <1>3 DEF TypeInv, LockInv, Off, Active
<1>6. s = Worker => \A t \in Trigger : ~Running(t)
  BY DEF TypeInv, LockInv, Active
<1>7. QED
  BY <1>1, <1>2, <1>3, <1>4, <1>5, <1>6 DEF TypeInv, LockInv, Off

\* Where the state of the synchronizations stays, types and the lock depend on
\* the run loop alone.
LEMMA LoopOnly ==
  ASSUME TypeInv, sync' = sync, worker' \in WorkerState, worker'.pc = worker.pc
  PROVE  LockInv'
  BY DEF TypeInv, LockInv, Running

LEMMA ServerKeepsTypes ==
  ASSUME TypeInv, Arrive \/ ReadElsewhere \/ Rebuild \/ LoseConnection
  PROVE  TypeInv'
<1>1. CASE Arrive
  <2>1. box' \in Box
    <3>1. box.uidNext \in Uid /\ box.uidNext + 1 \in 1 .. MaxUid + 1
      BY <1>1, BoundsAssumption DEF TypeInv, TypeOK, Box, Arrive, Uid
    <3>2. box.unseen \union {box.uidNext} \subseteq Uid
      BY <3>1 DEF TypeInv, TypeOK, Box
    <3> DEFINE unseen == box.unseen \union {box.uidNext}
    <3>3. box' = [box EXCEPT !.uidNext = box.uidNext + 1, !.unseen = unseen]
      BY <1>1 DEF Arrive
    <3>4. unseen \subseteq Uid
      BY <3>2
    <3> HIDE DEF unseen
    <3>5. QED
      BY <3>1, <3>3, <3>4 DEF TypeInv, TypeOK, Box
  <2>2. worker' \in WorkerState /\ worker'.pc = worker.pc /\ worker'.errors = worker.errors
    <3> DEFINE woken == worker.pc = "idle" /\ (worker.woken \/ worker.up)
    <3>1. woken \in BOOLEAN
      OBVIOUS
    <3>2. worker' = [worker EXCEPT !.woken = woken]
      BY <1>1 DEF Arrive
    <3> HIDE DEF woken
    <3>3. QED
      BY <3>1, <3>2 DEF TypeInv, TypeOK, WorkerState
  <2>3. sync' = sync /\ UNCHANGED <<imapConfig, opened, handled>>
    BY <1>1 DEF Arrive
  <2>4. QED
    BY <2>1, <2>2, <2>3, LoopOnly DEF TypeInv, TypeOK, ErrorsLeft
<1>2. CASE ReadElsewhere
  <2>1. PICK u \in box.unseen : /\ box' = [box EXCEPT !.unseen = @ \ {u}]
                               /\ handled' = handled \union {u}
    BY <1>2 DEF ReadElsewhere
  <2>2. box' \in Box
    <3> DEFINE rest == box.unseen \ {u}
    <3>1. rest \subseteq Uid
      BY DEF TypeInv, TypeOK, Box
    <3>2. box' = [box EXCEPT !.unseen = rest]
      BY <2>1
    <3> HIDE DEF rest
    <3>3. QED
      BY <3>1, <3>2 DEF TypeInv, TypeOK, Box
  <2>3. handled' \subseteq Uid
    BY <2>1 DEF TypeInv, TypeOK, Box
  <2>4. UNCHANGED <<imapConfig, worker, opened, sync>>
    BY <1>2 DEF ReadElsewhere
  <2>5. QED
    BY <2>2, <2>3, <2>4, LoopOnly DEF TypeInv, TypeOK, ErrorsLeft
<1>3. CASE Rebuild
  <2>1. PICK n \in MinMessages + 1 .. box.uidNext : \E unseen \in SUBSET (1 .. n - 1) :
          box' = [uidValidity |-> box.uidValidity + 1, uidNext |-> n, unseen |-> unseen]
    BY <1>3 DEF Rebuild
  <2>2. PICK unseen \in SUBSET (1 .. n - 1) :
          box' = [uidValidity |-> box.uidValidity + 1, uidNext |-> n, unseen |-> unseen]
    BY <2>1
  <2>3. box.uidValidity + 1 \in Validity /\ n \in 1 .. MaxUid + 1
    BY <1>3, BoundsAssumption DEF TypeInv, TypeOK, Box, Validity, Rebuild
  <2>4. unseen \subseteq Uid
    BY <2>3, BoundsAssumption DEF Uid
  <2>5. box' \in Box
    BY <2>2, <2>3, <2>4 DEF Box
  <2>6. worker' \in WorkerState /\ worker'.pc = worker.pc /\ worker'.errors = worker.errors
    BY <1>3 DEF Rebuild, TypeInv, TypeOK, WorkerState
  <2>7. sync' = sync /\ UNCHANGED <<imapConfig, opened>> /\ handled' = {}
    BY <1>3 DEF Rebuild
  <2>8. QED
    BY <2>5, <2>6, <2>7, LoopOnly DEF TypeInv, TypeOK, ErrorsLeft
<1>4. CASE LoseConnection
  <2>1. worker' \in WorkerState /\ worker'.pc = worker.pc /\ worker'.errors = worker.errors
    BY <1>4 DEF LoseConnection, TypeInv, TypeOK, WorkerState
  <2>2. sync' = sync /\ UNCHANGED <<box, imapConfig, opened, handled>>
    BY <1>4 DEF LoseConnection
  <2>3. QED
    BY <2>1, <2>2, LoopOnly DEF TypeInv, TypeOK, ErrorsLeft
<1>5. QED
  BY <1>1, <1>2, <1>3, <1>4

\* What a synchronization reads and changes, one step of it at a time.
LEMMA ReturnKeepsTypes ==
  ASSUME TypeInv, NEW s \in Syncer, Active(s), Return(s)
  PROVE  /\ sync' \in [Syncer -> SyncState] /\ worker' \in WorkerState
         /\ ErrorsLeft' /\ LockInv'
  BY Ends DEF Return

LEMMA ThrowKeepsTypes ==
  ASSUME TypeInv, NEW s \in Syncer, Throw(s)
  PROVE  TypeInv'
<1>1. worker.woken \in BOOLEAN /\ worker \in WorkerState
  BY DEF TypeInv, TypeOK, WorkerState
<1>2. worker' = IF s = Worker
                THEN [worker EXCEPT !.pc = "failed", !.woken = worker.woken]
                ELSE worker
  BY <1>1 DEF Throw, WorkerState
<1>3. Active(s) /\ sync' = [sync EXCEPT ![s] = Off]
        /\ UNCHANGED <<box, imapConfig, opened, handled>>
  BY DEF Throw, Active
<1>4. /\ sync' \in [Syncer -> SyncState] /\ worker' \in WorkerState
      /\ ErrorsLeft' /\ LockInv'
  BY <1>1, <1>2, <1>3, Ends
<1>5. QED
  BY <1>3, <1>4 DEF TypeInv, TypeOK

LEMMA UidRangeType ==
  ASSUME TypeInv, NEW s \in Syncer
  PROVE  UidRange(s) \subseteq Uid
<1>1. Arrived \subseteq Uid
  BY BoundsAssumption DEF TypeInv, TypeOK, Box, Arrived, Uid
<1>2. QED
  BY <1>1 DEF UidRange

LEMMA RangeSearchKeepsTypes ==
  ASSUME TypeInv, NEW s \in Syncer, ReadState(s) \/ ResetState(s) \/ SearchRange(s)
  PROVE  TypeInv'
<1> sync[s] \in SyncState
  BY DEF TypeInv, TypeOK
<1>1. CASE ReadState(s)
  <2> DEFINE rebuilt == imapConfig.lastUidValidity \notin {0, sync[s].mailbox.uidValidity}
             mode == IF ~Personal \/ rebuilt THEN "incremental"
                     ELSE IF imapConfig.lastSyncedUid = 0 THEN "recent"
                     ELSE IF ~imapConfig.lastFullSync THEN "backfill"
                     ELSE "incremental"
             pc == IF rebuilt THEN "reset" ELSE "search"
             uid == imapConfig.lastSyncedUid
             highest == IF rebuilt THEN 0 ELSE uid
             new == [sync[s] EXCEPT !.pc = pc, !.last = uid, !.rebuilt = rebuilt,
                                    !.mode = mode, !.highestUid = highest]
  <2>1. sync' = [sync EXCEPT ![s] = new]
    BY <1>1 DEF ReadState
  <2>2. /\ rebuilt \in BOOLEAN /\ mode \in SyncMode /\ pc \in {"reset", "search"}
        /\ uid \in 0 .. MaxUid /\ highest \in 0 .. MaxUid
    BY BoundsAssumption DEF TypeInv, TypeOK, ImapConfig, SyncMode
  <2>3. new \in SyncState /\ new.pc \notin {"off", "waiting"} /\ new.current = sync[s].current
    <3> HIDE DEF rebuilt, mode, pc, uid, highest
    <3>1. QED
      BY <2>2 DEF SyncState
  <2> HIDE DEF new
  <2>4. Active(s) /\ UNCHANGED <<box, imapConfig, worker, opened, handled>>
    BY <1>1 DEF ReadState, Active
  <2>5. QED
    BY <2>1, <2>3, <2>4, GoesOn DEF TypeInv, TypeOK
<1>2. CASE ResetState(s)
  <2> DEFINE new == [sync[s] EXCEPT !.pc = "search"]
  <2>1. sync' = [sync EXCEPT ![s] = new]
    BY <1>2 DEF ResetState
  <2>2. new \in SyncState /\ new.pc \notin {"off", "waiting"} /\ new.current = sync[s].current
    BY DEF SyncState
  <2>3. sync[s].mailbox.uidValidity \in 0 .. MaxValidity /\ 0 \in 0 .. MaxUid
    BY BoundsAssumption DEF SyncState, Opened, Validity
  <2>4. imapConfig' \in ImapConfig
    BY <1>2, <2>3 DEF ResetState, TypeInv, TypeOK, ImapConfig
  <2> HIDE DEF new
  <2>5. Active(s) /\ UNCHANGED <<box, worker, opened, handled>>
    BY <1>2 DEF ResetState, Active
  <2>6. QED
    BY <2>1, <2>2, <2>4, <2>5, GoesOn DEF TypeInv, TypeOK
<1>3. CASE SearchRange(s)
  <2>1. Active(s) /\ UNCHANGED <<box, imapConfig, opened, handled>>
    BY <1>3 DEF SearchRange, Active
  <2>2. CASE Return(s)
    BY <2>1, <2>2, ReturnKeepsTypes DEF TypeInv, TypeOK
  <2>3. CASE sync' = [sync EXCEPT ![s] = [@ EXCEPT !.pc = "fetch", !.todo = UidRange(s)]]
               /\ UNCHANGED worker
    <3> DEFINE range == UidRange(s)
               new == [sync[s] EXCEPT !.pc = "fetch", !.todo = range]
    <3>1. sync' = [sync EXCEPT ![s] = new]
      BY <2>3
    <3>2. range \subseteq Uid
      BY UidRangeType
    <3>3. new \in SyncState /\ new.pc \notin {"off", "waiting"} /\ new.current = sync[s].current
      <4> HIDE DEF range
      <4>1. QED
        BY <3>2 DEF SyncState
    <3> HIDE DEF new
    <3>4. QED
      BY <2>1, <2>3, <3>1, <3>3, GoesOn DEF TypeInv, TypeOK
  <2>4. QED
    BY <1>3, <2>2, <2>3 DEF SearchRange
<1>4. QED
  BY <1>1, <1>2, <1>3

LEMMA UnseenSearchKeepsTypes ==
  ASSUME TypeInv, NEW s \in Syncer, SearchUnseen(s) \/ ReadLast(s)
  PROVE  TypeInv'
<1> sync[s] \in SyncState
  BY DEF TypeInv, TypeOK
<1>1. CASE SearchUnseen(s)
  <2>1. Active(s) /\ UNCHANGED <<box, imapConfig, opened, handled>>
    BY <1>1 DEF SearchUnseen, Active
  <2>2. CASE Return(s)
    BY <2>1, <2>2, ReturnKeepsTypes DEF TypeInv, TypeOK
  <2>3. CASE sync' = [sync EXCEPT ![s] = [@ EXCEPT !.pc = "last", !.todo = box.unseen]]
               /\ UNCHANGED worker
    <3> DEFINE unseen == box.unseen
               new == [sync[s] EXCEPT !.pc = "last", !.todo = unseen]
    <3>1. sync' = [sync EXCEPT ![s] = new]
      BY <2>3
    <3>2. unseen \subseteq Uid
      BY DEF TypeInv, TypeOK, Box
    <3>3. new \in SyncState /\ new.pc \notin {"off", "waiting"} /\ new.current = sync[s].current
      <4> HIDE DEF unseen
      <4>1. QED
        BY <3>2 DEF SyncState
    <3> HIDE DEF new
    <3>4. QED
      BY <2>1, <2>3, <3>1, <3>3, GoesOn DEF TypeInv, TypeOK
  <2>4. QED
    BY <1>1, <2>2, <2>3 DEF SearchUnseen
<1>2. CASE ReadLast(s)
  <2> DEFINE uid == imapConfig.lastSyncedUid
             new == [sync[s] EXCEPT !.pc = "fetch", !.last = uid, !.highestUid = uid]
  <2>1. sync' = [sync EXCEPT ![s] = new]
    BY <1>2 DEF ReadLast
  <2>2. uid \in 0 .. MaxUid
    BY DEF TypeInv, TypeOK, ImapConfig
  <2>3. new \in SyncState /\ new.pc \notin {"off", "waiting"} /\ new.current = sync[s].current
    <3> HIDE DEF uid
    <3>1. QED
      BY <2>2 DEF SyncState
  <2> HIDE DEF new
  <2>4. Active(s) /\ UNCHANGED <<box, imapConfig, worker, opened, handled>>
    BY <1>2 DEF ReadLast, Active
  <2>5. QED
    BY <2>1, <2>3, <2>4, GoesOn DEF TypeInv, TypeOK
<1>3. QED
  BY <1>1, <1>2

LEMMA FetchKeepsTypes ==
  ASSUME TypeInv, NEW s \in Syncer,
         Fetch(s) \/ EndFetch(s) \/ MarkSeen(s) \/ WriteState(s)
  PROVE  TypeInv'
<1> sync[s] \in SyncState
  BY DEF TypeInv, TypeOK
<1>1. CASE Fetch(s)
  <2>1. PICK uid \in sync[s].todo :
          /\ handled' = handled \union {uid}
          /\ sync' = [sync EXCEPT ![s] =
               [sync[s] EXCEPT !.todo = sync[s].todo \ {uid},
                  !.done = sync[s].done \union {uid},
                  !.highestUid = IF uid > sync[s].highestUid THEN uid
                                 ELSE sync[s].highestUid]]
    BY <1>1 DEF Fetch
  <2> DEFINE todo == sync[s].todo \ {uid}
             done == sync[s].done \union {uid}
             highest == IF uid > sync[s].highestUid THEN uid ELSE sync[s].highestUid
             new == [sync[s] EXCEPT !.todo = todo, !.done = done, !.highestUid = highest]
  <2>2. sync' = [sync EXCEPT ![s] = new]
    BY <2>1
  <2>3. uid \in Uid
    BY DEF SyncState
  <2>4. todo \subseteq Uid /\ done \subseteq Uid /\ highest \in 0 .. MaxUid
    BY <2>3, BoundsAssumption DEF SyncState, Uid
  <2>5. Active(s) /\ UNCHANGED <<box, imapConfig, worker, opened>>
    BY <1>1 DEF Fetch, Active
  <2>6. new \in SyncState /\ new.pc \notin {"off", "waiting"} /\ new.current = sync[s].current
    <3> HIDE DEF todo, done, highest
    <3>1. QED
      BY <2>4, <2>5 DEF SyncState, Active
  <2> HIDE DEF new
  <2>7. QED
    BY <2>1, <2>2, <2>3, <2>5, <2>6, GoesOn DEF TypeInv, TypeOK
<1>2. CASE EndFetch(s)
  <2> DEFINE pc == IF sync[s].mode = "unseen" THEN "flags" ELSE "update"
             new == [sync[s] EXCEPT !.pc = pc]
  <2>1. sync' = [sync EXCEPT ![s] = new]
    BY <1>2 DEF EndFetch
  <2>2. pc \in {"flags", "update"}
    OBVIOUS
  <2>3. new \in SyncState /\ new.pc \notin {"off", "waiting"} /\ new.current = sync[s].current
    <3> HIDE DEF pc
    <3>1. QED
      BY <2>2 DEF SyncState
  <2> HIDE DEF new
  <2>4. Active(s) /\ UNCHANGED <<box, imapConfig, worker, opened, handled>>
    BY <1>2 DEF EndFetch, Active
  <2>5. QED
    BY <2>1, <2>3, <2>4, GoesOn DEF TypeInv, TypeOK
<1>3. CASE MarkSeen(s)
  <2> DEFINE unseen == box.unseen \ sync[s].done
             new == [sync[s] EXCEPT !.pc = "update"]
  <2>1. sync' = [sync EXCEPT ![s] = new] /\ box' = [box EXCEPT !.unseen = unseen]
    BY <1>3 DEF MarkSeen
  <2>2. unseen \subseteq Uid
    BY DEF TypeInv, TypeOK, Box
  <2>3. box' \in Box
    <3> HIDE DEF unseen
    <3>1. QED
      BY <2>1, <2>2 DEF TypeInv, TypeOK, Box
  <2>4. new \in SyncState /\ new.pc \notin {"off", "waiting"} /\ new.current = sync[s].current
    BY DEF SyncState
  <2> HIDE DEF new
  <2>5. Active(s) /\ UNCHANGED <<imapConfig, worker, opened, handled>>
    BY <1>3 DEF MarkSeen, Active
  <2>6. QED
    BY <2>1, <2>3, <2>4, <2>5, GoesOn DEF TypeInv, TypeOK
<1>4. CASE WriteState(s)
  <2>1. Active(s) /\ Return(s) /\ UNCHANGED <<box, opened, handled>>
    BY <1>4 DEF WriteState, Active
  <2>2. imapConfig' \in ImapConfig
    <3>1. /\ sync[s].highestUid \in 0 .. MaxUid
          /\ sync[s].mailbox.uidValidity \in 0 .. MaxValidity
          /\ (imapConfig.lastFullSync \/ HistoryRead(sync[s].mode)) \in BOOLEAN
      BY BoundsAssumption DEF SyncState, Opened, Validity, TypeInv, TypeOK, ImapConfig
    <3>2. QED
      BY <1>4, <3>1 DEF WriteState, TypeInv, TypeOK, ImapConfig
  <2>3. QED
    BY <2>1, <2>2, ReturnKeepsTypes DEF TypeInv, TypeOK
<1>5. QED
  BY <1>1, <1>2, <1>3, <1>4

LEMMA SyncKeepsTypes ==
  ASSUME TypeInv, NEW s \in Syncer, SyncStep(s)
  PROVE  TypeInv'
  BY RangeSearchKeepsTypes, UnseenSearchKeepsTypes, FetchKeepsTypes DEF SyncStep

\* Once the connection is closed nobody runs over it.
LEMMA CloseEndsRuns ==
  ASSUME TypeInv, sync' = Closed, sync[Worker].pc = "off"
  PROVE  /\ sync' \in [Syncer -> SyncState]
         /\ sync'[Worker].pc = "off"
         /\ \A s \in Syncer : ~Running(s)'
<1>1. \A t \in Syncer : sync'[t] = IF sync[t].pc = "waiting" THEN Off
                                  ELSE [sync[t] EXCEPT !.current = FALSE]
  BY DEF Closed
<1>2. \A t \in Syncer : [sync[t] EXCEPT !.current = FALSE] \in SyncState
  BY DEF TypeInv, TypeOK, SyncState
<1>3. sync' \in [Syncer -> SyncState]
  BY <1>1, <1>2, OffType DEF Closed
<1>4. \A x \in SyncState : /\ [x EXCEPT !.current = FALSE].current = FALSE
                           /\ [x EXCEPT !.current = FALSE].pc = x.pc
  BY DEF SyncState
<1>5. \A t \in Syncer : sync[t] \in SyncState
  BY DEF TypeInv, TypeOK
<1>6. Off.pc = "off" /\ Worker \in Syncer
  BY DEF Off, Syncer
<1>7. \A s \in Syncer : ~Running(s)'
  <2> TAKE s \in Syncer
  <2>1. CASE sync[s].pc = "waiting"
    BY <1>1, <1>6, <2>1 DEF Running
  <2>2. CASE sync[s].pc # "waiting"
    <3>1. sync'[s].current = FALSE
      BY <1>1, <1>4, <1>5, <2>2
    <3>2. QED
      BY <3>1 DEF Running
  <2>3. QED
    BY <2>1, <2>2
<1>8. sync'[Worker].pc = "off"
  BY <1>1, <1>4, <1>5, <1>6
<1>9. QED
  BY <1>3, <1>7, <1>8

LEMMA LoopKeepsTypes ==
  ASSUME TypeInv, WorkerStep \/ IdleReturns \/ ConnectFails \/ Stop \/ Restart
  PROVE  TypeInv'
<1> worker \in WorkerState /\ worker.errors \in 0 .. MaxErrors /\ Worker \in Syncer
    /\ Trigger \subseteq Syncer /\ Worker \notin Trigger
  BY BoundsAssumption DEF TypeInv, TypeOK, WorkerState, Syncer
<1>1. CASE Connect
  <2> DEFINE mailbox == [uidValidity |-> box.uidValidity, uidNext |-> box.uidNext]
  <2>1. mailbox \in Opened
    BY DEF TypeInv, TypeOK, Box, Opened
  <2>2. RangeSync(mailbox) \in SyncState /\ RangeSync(mailbox).pc = "state"
        /\ RangeSync(mailbox).current
    BY <2>1, RangeType DEF RangeSync, Off
  <2>3. /\ sync' = [sync EXCEPT ![Worker] = RangeSync(mailbox)] /\ opened' = mailbox
        /\ worker.pc = "down" /\ worker' = [worker EXCEPT !.pc = "sync", !.up = TRUE]
        /\ UNCHANGED <<box, imapConfig, handled>>
    BY <1>1 DEF Connect
  <2>4. worker' \in WorkerState /\ worker'.pc = "sync" /\ worker'.errors = worker.errors
    BY <2>3 DEF WorkerState
  <2> HIDE DEF mailbox
  <2>5. sync' \in [Syncer -> SyncState] /\ sync'[Worker] = RangeSync(mailbox)
        /\ \A t \in Trigger : sync'[t] = sync[t]
    BY <2>2, <2>3 DEF TypeInv, TypeOK
  <2>6. \A t \in Trigger : ~Running(t)'
    BY <2>3, <2>5 DEF TypeInv, LockInv, Running
  <2>7. LockInv'
    BY <2>2, <2>4, <2>5, <2>6 DEF LockInv
  <2>8. QED
    BY <2>1, <2>3, <2>4, <2>5, <2>7 DEF TypeInv, TypeOK, ErrorsLeft
<1>2. CASE SyncAfterIdle
  <2>1. UnseenSync \in SyncState /\ UnseenSync.pc = "search" /\ UnseenSync.current
    BY OffType DEF UnseenSync, Off
  <2>2. /\ sync' = [sync EXCEPT ![Worker] = UnseenSync] /\ worker.pc = "idle"
        /\ worker' = [worker EXCEPT !.pc = "sync", !.woken = FALSE]
        /\ UNCHANGED <<box, imapConfig, opened, handled>>
    BY <1>2 DEF SyncAfterIdle
  <2>3. worker' \in WorkerState /\ worker'.pc = "sync" /\ worker'.errors = worker.errors
    BY <2>2 DEF WorkerState
  <2>4. sync' \in [Syncer -> SyncState] /\ sync'[Worker] = UnseenSync
        /\ \A t \in Trigger : sync'[t] = sync[t]
    BY <2>1, <2>2 DEF TypeInv, TypeOK
  <2>5. \A t \in Trigger : ~Running(t)'
    BY <2>2, <2>4 DEF TypeInv, LockInv, Running
  <2>6. LockInv'
    BY <2>1, <2>3, <2>4, <2>5 DEF LockInv
  <2>7. QED
    BY <2>2, <2>3, <2>4, <2>6 DEF TypeInv, TypeOK, ErrorsLeft
<1>3. CASE EndSession \/ Close
  <2>1. worker.pc \in {"idle", "failed"} /\ sync' = Closed
        /\ UNCHANGED <<box, imapConfig, opened, handled>>
    BY <1>3 DEF EndSession, Close
  <2>2. sync[Worker].pc = "off"
    BY <2>1 DEF TypeInv, LockInv
  <2>3. /\ sync' \in [Syncer -> SyncState] /\ sync'[Worker].pc = "off"
        /\ \A s \in Syncer : ~Running(s)'
    BY <2>1, <2>2, CloseEndsRuns
  <2>4. worker.errors < MaxErrors
    BY <2>1 DEF TypeInv, ErrorsLeft
  <2>5. worker' \in WorkerState /\ worker'.pc \in {"down", "stopped"} /\ ErrorsLeft'
    <3>1. CASE EndSession
      <4> DEFINE pc == IF worker.aborted THEN "stopped" ELSE "down"
      <4>1. pc \in {"down", "stopped"} /\ 0 \in 0 .. MaxErrors /\ 0 < MaxErrors
        BY BoundsAssumption
      <4>2. worker' = [worker EXCEPT !.pc = pc, !.woken = FALSE, !.errors = 0]
        BY <3>1 DEF EndSession
      <4> HIDE DEF pc
      <4>3. QED
        BY <4>1, <4>2 DEF WorkerState, ErrorsLeft
    <3>2. CASE Close
      <4> DEFINE errors == IF worker.aborted THEN worker.errors ELSE worker.errors + 1
                 pc == IF worker.aborted \/ TooManyErrors(worker.errors + 1)
                       THEN "stopped" ELSE "down"
      <4>1. /\ pc \in {"down", "stopped"} /\ errors \in 0 .. MaxErrors
            /\ pc = "down" => errors < MaxErrors
        BY <2>4, BoundsAssumption DEF TooManyErrors
      <4>2. worker' = [worker EXCEPT !.up = FALSE, !.errors = errors, !.pc = pc]
        BY <3>2 DEF Close
      <4> HIDE DEF errors, pc
      <4>3. QED
        BY <4>1, <4>2 DEF WorkerState, ErrorsLeft
    <3>3. QED
      BY <1>3, <3>1, <3>2
  <2>6. LockInv'
    BY <2>3, <2>5 DEF LockInv
  <2>7. QED
    BY <2>1, <2>3, <2>5, <2>6 DEF TypeInv, TypeOK
<1>4. CASE StopAsleep \/ ConnectFails
  <2>1. worker.pc = "down" /\ UNCHANGED <<box, imapConfig, opened, sync, handled>>
    BY <1>4 DEF StopAsleep, ConnectFails
  <2>2. worker' \in WorkerState /\ worker'.pc \in {"down", "stopped"} /\ ErrorsLeft'
    <3>1. CASE StopAsleep
      BY <3>1 DEF StopAsleep, WorkerState, ErrorsLeft
    <3>2. CASE ConnectFails
      <4>1. PICK auth \in BOOLEAN : worker' = [worker EXCEPT !.errors = @ + 1, !.pc =
              IF auth \/ TooManyErrors(worker.errors + 1) THEN "stopped" ELSE "down"]
        BY <3>2 DEF ConnectFails
      <4> DEFINE errors == worker.errors + 1
                 pc == IF auth \/ TooManyErrors(errors) THEN "stopped" ELSE "down"
      <4>2. /\ pc \in {"down", "stopped"} /\ errors \in 0 .. MaxErrors
            /\ pc = "down" => errors < MaxErrors
        BY <2>1, BoundsAssumption DEF TooManyErrors, TypeInv, ErrorsLeft
      <4>3. worker' = [worker EXCEPT !.errors = errors, !.pc = pc]
        BY <4>1
      <4> HIDE DEF errors, pc
      <4>4. QED
        BY <4>2, <4>3 DEF WorkerState, ErrorsLeft
    <3>3. QED
      BY <1>4, <3>1, <3>2
  <2>3. LockInv'
    BY <2>1, <2>2 DEF TypeInv, LockInv, Running
  <2>4. QED
    BY <2>1, <2>2, <2>3 DEF TypeInv, TypeOK
<1>5. CASE StartWorker
  <2>1. worker.pc = "stopped" /\ worker' = NewWorker
        /\ UNCHANGED <<box, imapConfig, opened, sync, handled>>
    BY <1>5 DEF StartWorker
  <2>2. worker' \in WorkerState /\ worker'.pc = "down" /\ ErrorsLeft'
    BY <2>1, OffType, BoundsAssumption DEF NewWorker, ErrorsLeft
  <2>3. LockInv'
    BY <2>1, <2>2 DEF TypeInv, LockInv, Running
  <2>4. QED
    BY <2>1, <2>2, <2>3 DEF TypeInv, TypeOK
<1>6. CASE Stop
  <2>1. worker' \in WorkerState /\ worker'.pc = worker.pc /\ worker'.errors = worker.errors
        /\ UNCHANGED <<box, imapConfig, opened, sync, handled>>
    BY <1>6 DEF Stop, WorkerState
  <2>2. QED
    BY <2>1, LoopOnly DEF TypeInv, TypeOK, ErrorsLeft
<1>7. CASE Restart
  <2>1. worker' = NewWorker /\ sync' = [s \in Syncer |-> Off]
        /\ UNCHANGED <<box, imapConfig, opened, handled>>
    BY <1>7 DEF Restart
  <2>2. worker' \in WorkerState /\ worker'.pc = "down" /\ ErrorsLeft'
    BY <2>1, OffType, BoundsAssumption DEF NewWorker, ErrorsLeft
  <2>3. sync' \in [Syncer -> SyncState] /\ \A s \in Syncer : sync'[s].pc = "off"
    BY <2>1, OffType DEF Off
  <2>4. LockInv'
    BY <2>2, <2>3 DEF LockInv, Running
  <2>5. QED
    BY <2>1, <2>2, <2>3, <2>4 DEF TypeInv, TypeOK
<1>8. QED
  BY <1>1, <1>2, <1>3, <1>4, <1>5, <1>6, <1>7
  DEF WorkerStep, Wake, IdleReturns

LEMMA TriggersKeepTypes ==
  ASSUME TypeInv, NEW t \in Trigger, TriggerSync(t) \/ Grant(t)
  PROVE  TypeInv'
<1> t \in Syncer /\ t # Worker /\ sync[t] \in SyncState /\ Worker \in Syncer
    /\ Trigger \subseteq Syncer
  BY BoundsAssumption DEF Syncer, TypeInv, TypeOK
<1>1. CASE TriggerSync(t)
  <2> DEFINE new == [sync[t] EXCEPT !.pc = "waiting"]
  <2>1. new \in SyncState /\ new.pc = "waiting"
    BY DEF SyncState
  <2>2. sync' = [sync EXCEPT ![t] = new]
        /\ UNCHANGED <<box, imapConfig, worker, opened, handled>>
    BY <1>1 DEF TriggerSync
  <2> HIDE DEF new
  <2>3. sync' \in [Syncer -> SyncState]
        /\ \A s \in Syncer : sync'[s] = IF s = t THEN new ELSE sync[s]
    BY <2>1, <2>2 DEF TypeInv, TypeOK
  <2>4. ~Running(t)' /\ \A s \in Syncer : s # t => (Running(s)' <=> Running(s))
    BY <2>1, <2>3 DEF Running
  <2>5. LockInv'
    BY <2>2, <2>3, <2>4 DEF TypeInv, LockInv
  <2>6. QED
    BY <2>2, <2>3, <2>5 DEF TypeInv, TypeOK, ErrorsLeft
<1>2. CASE Grant(t)
  <2> DEFINE new == RangeSync(opened)
  <2>1. new \in SyncState
    BY RangeType DEF TypeInv, TypeOK
  <2>2. sync' = [sync EXCEPT ![t] = new] /\ LockFree
        /\ UNCHANGED <<box, imapConfig, worker, opened, handled>>
    BY <1>2 DEF Grant
  <2> HIDE DEF new
  <2>3. sync' \in [Syncer -> SyncState]
        /\ \A s \in Syncer : sync'[s] = IF s = t THEN new ELSE sync[s]
    BY <2>1, <2>2 DEF TypeInv, TypeOK
  <2>4. \A s \in Trigger : s # t => ~Running(s)'
    BY <2>2, <2>3 DEF Running, LockFree
  <2>5. worker.pc = "failed"
    BY <2>2 DEF LockFree
  <2>6. LockInv'
    BY <2>2, <2>3, <2>4, <2>5 DEF TypeInv, LockInv
  <2>7. QED
    BY <2>2, <2>3, <2>6 DEF TypeInv, TypeOK, ErrorsLeft
<1>3. QED
  BY <1>1, <1>2

LEMMA InitTypes == Init => TypeInv
<1> SUFFICES ASSUME Init PROVE TypeInv
  OBVIOUS
<1>1. PICK n \in MinMessages + 1 .. MaxUid + 1 : \E unseen \in SUBSET (1 .. n - 1) :
        /\ box = [uidValidity |-> 1, uidNext |-> n, unseen |-> unseen]
        /\ opened = [uidValidity |-> 1, uidNext |-> n]
  BY DEF Init
<1>2. PICK unseen \in SUBSET (1 .. n - 1) :
        /\ box = [uidValidity |-> 1, uidNext |-> n, unseen |-> unseen]
        /\ opened = [uidValidity |-> 1, uidNext |-> n]
  BY <1>1
<1>3. 1 \in Validity /\ n \in 1 .. MaxUid + 1 /\ unseen \subseteq Uid
      /\ 0 \in 0 .. MaxUid /\ 0 \in 0 .. MaxValidity
  BY BoundsAssumption DEF Validity, Uid
<1>4. box \in Box /\ opened \in Opened
  BY <1>2, <1>3 DEF Box, Opened
<1>5. imapConfig \in ImapConfig
  BY <1>3 DEF Init, ImapConfig
<1>6. worker \in WorkerState /\ worker.pc = "down" /\ ErrorsLeft
  BY OffType, BoundsAssumption DEF Init, NewWorker, ErrorsLeft
<1>7. sync \in [Syncer -> SyncState] /\ \A s \in Syncer : sync[s].pc = "off"
  BY OffType DEF Init, Off
<1>8. LockInv
  BY <1>6, <1>7 DEF LockInv, Running, Syncer
<1>9. QED
  BY <1>4, <1>5, <1>6, <1>7, <1>8 DEF Init, TypeInv, TypeOK

LEMMA StepKeepsTypes == TypeInv /\ [Next]_vars => TypeInv'
<1> SUFFICES ASSUME TypeInv, [Next]_vars PROVE TypeInv'
  OBVIOUS
<1>1. CASE UNCHANGED vars
  BY <1>1 DEF vars, TypeInv, TypeOK, ErrorsLeft, LockInv, Running
<1>2. CASE Next
  BY <1>2, ServerKeepsTypes, LoopKeepsTypes, SyncKeepsTypes, ThrowKeepsTypes,
     TriggersKeepTypes DEF Next
<1>3. QED
  BY <1>1, <1>2

\* The invariant of the first part.
THEOREM TypeInvariant == Spec => []TypeInv
<1>1. QED
  BY InitTypes, StepKeepsTypes, PTL DEF Spec

\* The row, the mailbox and the synchronizations are well-formed; the errors in a row
\* never exceed the maximum after which the worker stops (worker.ts:247-261).
THEOREM TypeCorrect == Spec => []TypeOK
<1>1. TypeInv => TypeOK
  BY DEF TypeInv
<1>2. QED
  BY <1>1, TypeInvariant, PTL

\* However many call triggerSync, and whenever the session throws, two synchronizations
\* never run over one connection (worker.ts:160, 341-342).
THEOREM OneSyncAtATime == Spec => []OneSyncPerConnection
<1>1. TypeInv => OneSyncPerConnection
  <2> SUFFICES ASSUME TypeInv, NEW s \in Syncer, NEW t \in Syncer,
                      Running(s), Running(t)
               PROVE  s = t
    BY DEF OneSyncPerConnection
  <2>1. QED
    BY DEF TypeInv, LockInv, Syncer, Running
<1>2. QED
  BY <1>1, TypeInvariant, PTL

(***************************************************************************)
(* Part two: nothing is passed over, in the mailbox of a domain that is    *)
(* not a personal account and that always holds a message.  The invariant  *)
(* says of the row and of each synchronization which messages were handed  *)
(* to processMessage if its mailbox is still the present one; a rebuild    *)
(* makes all of that vacuous, because validities only grow.                *)
(***************************************************************************)
Handled(u) == u \in handled

\* A search for unseen messages would find every message that is not handled.
Known == \A u \in Arrived : u \in box.unseen \/ Handled(u)

OpenedInv ==
    /\ box.uidNext > 1 /\ opened.uidNext > 1
    /\ box.unseen \subseteq Arrived
    /\ opened.uidValidity <= box.uidValidity
    /\ worker.up => opened.uidValidity = box.uidValidity
    /\ opened.uidValidity = box.uidValidity =>
         /\ opened.uidNext <= box.uidNext
         /\ \A u \in Arrived : u >= opened.uidNext => u \in box.unseen \/ Handled(u)

\* A row without a validity knows of no message, and has one by the time the
\* worker looks for unseen messages.
RowInv ==
    /\ imapConfig.lastUidValidity <= opened.uidValidity
    /\ imapConfig.lastUidValidity = 0 => imapConfig.lastSyncedUid = 0
    /\ imapConfig.lastUidValidity = box.uidValidity =>
         /\ imapConfig.lastSyncedUid < box.uidNext
         /\ \A u \in Arrived : u <= imapConfig.lastSyncedUid => Handled(u)
    /\ worker.pc = "idle" /\ worker.up => imapConfig.lastUidValidity # 0 /\ Known

Present(s) == sync[s].mailbox.uidValidity = box.uidValidity

\* A synchronization of a range: that has opened its mailbox,
RangeOpened(s) ==
    /\ sync[s].mode = "incremental"
    /\ sync[s].pc \in {"state", "reset", "search", "fetch", "update"}
    /\ sync[s].mailbox.uidNext > 1
    /\ sync[s].mailbox.uidValidity <= opened.uidValidity
    /\ s = Worker => sync[s].mailbox = opened
    /\ Present(s) => sync[s].mailbox.uidNext <= box.uidNext
    /\ imapConfig.lastUidValidity = 0 => ~sync[s].rebuilt

\* that has read the row,
RangeRead(s) ==
    /\ sync[s].pc = "reset" => sync[s].rebuilt
    /\ sync[s].pc \in {"reset", "search"} =>
         sync[s].highestUid = (IF sync[s].rebuilt THEN 0 ELSE sync[s].last)
    /\ sync[s].pc = "search" /\ imapConfig.lastUidValidity = 0 => sync[s].last = 0
    /\ sync[s].pc = "search" /\ Present(s) /\ ~sync[s].rebuilt =>
         /\ sync[s].last < box.uidNext
         /\ \A u \in Arrived : u <= sync[s].last => Handled(u)

\* and that is fetching.
RangeFetched(s) ==
    sync[s].pc \in {"fetch", "update"} =>
        /\ sync[s].pc = "update" => sync[s].todo = {}
        /\ sync[s].todo = {} => sync[s].highestUid > 0
        /\ Present(s) =>
             /\ sync[s].highestUid < box.uidNext
             /\ \A u \in sync[s].todo : u < sync[s].mailbox.uidNext
             /\ \A u \in Arrived :
                  u < sync[s].mailbox.uidNext \/ u <= sync[s].highestUid =>
                     u \in sync[s].todo \/ Handled(u)

RangeInv(s) ==
    Active(s) /\ sync[s].mode # "unseen" =>
        RangeOpened(s) /\ RangeRead(s) /\ RangeFetched(s)

\* Only the worker looks for unseen messages.
UnseenInv(s) ==
    sync[s].mode = "unseen" =>
        /\ s = Worker
        /\ sync[s].pc \in {"search", "last", "fetch", "flags", "update"}
        /\ imapConfig.lastUidValidity # 0
        /\ worker.up => Known
        /\ sync[s].pc = "search" => sync[s].todo = {}
        /\ sync[s].pc \in {"search", "last"} => sync[s].done = {}
        /\ sync[s].pc \in {"flags", "update"} => sync[s].todo = {}
        /\ sync[s].pc \in {"fetch", "flags", "update"} =>
             sync[s].highestUid = sync[s].last \/ sync[s].highestUid \in sync[s].done
        /\ opened.uidValidity = box.uidValidity =>
             \A x \in sync[s].todo \union sync[s].done :
                /\ x < box.uidNext
                /\ x \in sync[s].done => Handled(x)
                /\ \A u \in Arrived : u <= x => u \in sync[s].todo \/ Handled(u)

SkipInv ==
    /\ OpenedInv /\ RowInv
    /\ \A s \in Syncer : RangeInv(s) /\ UnseenInv(s)

LEMMA Facts ==
  ASSUME TypeInv
  PROVE  /\ box \in Box /\ imapConfig \in ImapConfig /\ worker \in WorkerState
         /\ opened \in Opened /\ sync \in [Syncer -> SyncState] /\ handled \subseteq Uid
         /\ box.uidValidity \in Nat /\ box.uidValidity > 0 /\ box.uidNext \in Nat
         /\ opened.uidValidity \in Nat /\ opened.uidValidity > 0 /\ opened.uidNext \in Nat
         /\ imapConfig.lastSyncedUid \in Nat /\ imapConfig.lastUidValidity \in Nat
         /\ \A s \in Syncer :
              /\ sync[s].mailbox.uidValidity \in Nat /\ sync[s].mailbox.uidValidity > 0
              /\ sync[s].mailbox.uidNext \in Nat
              /\ sync[s].last \in Nat /\ sync[s].highestUid \in Nat
              /\ sync[s].rebuilt \in BOOLEAN
              /\ sync[s].todo \subseteq Uid /\ sync[s].done \subseteq Uid
  BY BoundsAssumption
  DEF TypeInv, TypeOK, Box, Opened, Validity, ImapConfig, SyncState

\* A synchronization is not disturbed by a step of another one.
LEMMA OthersKept ==
  ASSUME TypeInv, SkipInv, NEW s \in Syncer, NEW t \in Syncer, s # t,
         sync' = [sync EXCEPT ![s] = sync'[s]],
         box'.uidValidity = box.uidValidity, box'.uidNext = box.uidNext,
         opened' = opened, handled \subseteq handled',
         imapConfig'.lastUidValidity = 0 => imapConfig.lastUidValidity = 0,
         s # Worker => worker' = worker /\ box' = box
  PROVE  RangeInv(t)' /\ UnseenInv(t)'
<1>1. sync'[t] = sync[t]
  BY DEF TypeInv, TypeOK
<1>2. Arrived' = Arrived
  BY DEF Arrived
<1>3. RangeInv(t) /\ UnseenInv(t)
  BY DEF SkipInv
<1>4. RangeInv(t)'
  <2> SUFFICES ASSUME Active(t), sync[t].mode # "unseen"
               PROVE  RangeOpened(t)' /\ RangeRead(t)' /\ RangeFetched(t)'
    BY <1>1 DEF RangeInv, Active
  <2>1. RangeOpened(t) /\ RangeRead(t) /\ RangeFetched(t)
    BY <1>3 DEF RangeInv
  <2>2. RangeOpened(t)'
    BY <1>1, <2>1 DEF RangeOpened, Present
  <2>3. RangeRead(t)'
    BY <1>1, <1>2, <2>1 DEF RangeRead, Present, Handled
  <2>4. RangeFetched(t)'
    BY <1>1, <1>2, <2>1 DEF RangeFetched, Present, Handled
  <2>5. QED
    BY <2>2, <2>3, <2>4
<1>5. UnseenInv(t)'
  <2> SUFFICES ASSUME sync[t].mode = "unseen" PROVE UnseenInv(t)'
    BY <1>1 DEF UnseenInv
  <2>1. t = Worker /\ s # Worker
    BY <1>3 DEF UnseenInv
  <2>2. worker' = worker /\ box' = box
    BY <2>1
  <2>3. Known => Known'
    BY <1>2, <2>2 DEF Known, Handled
  <2>4. QED
    BY <1>1, <1>2, <1>3, <2>2, <2>3 DEF UnseenInv, Handled
<1>6. QED
  BY <1>4, <1>5

\* A failure, a stop or a closed connection only ends synchronizations; those that
\* go on, over a connection that is gone, know what they knew.
GivesUp(s) == sync'[s].pc \in {"off", "waiting"} /\ sync'[s].mode # "unseen"

Continues(s) ==
    /\ sync'[s].pc = sync[s].pc /\ sync'[s].mode = sync[s].mode
    /\ sync'[s].mailbox = sync[s].mailbox /\ sync'[s].last = sync[s].last
    /\ sync'[s].rebuilt = sync[s].rebuilt /\ sync'[s].todo = sync[s].todo
    /\ sync'[s].done = sync[s].done /\ sync'[s].highestUid = sync[s].highestUid
    /\ sync'[s].current => sync[s].current

Weaker ==
    /\ UNCHANGED <<box, imapConfig, opened, handled>>
    /\ worker'.up => worker.up
    /\ worker'.pc = "idle" => worker.pc = "idle"
    /\ \A s \in Syncer : GivesUp(s) \/ Continues(s)

LEMMA Weakened ==
  ASSUME TypeInv, SkipInv, Weaker
  PROVE  SkipInv'
<1> USE DEF Weaker, GivesUp, Continues
<1>1. Arrived' = Arrived /\ (Known' <=> Known)
  BY DEF Arrived, Known, Handled
<1>2. OpenedInv'
  BY <1>1 DEF SkipInv, OpenedInv, Handled
<1>3. RowInv'
  BY <1>1 DEF SkipInv, RowInv, Handled
<1>4. ASSUME NEW s \in Syncer PROVE RangeInv(s)' /\ UnseenInv(s)'
  <2>1. RangeInv(s) /\ UnseenInv(s)
    BY DEF SkipInv
  <2>2. CASE sync'[s].pc \in {"off", "waiting"} /\ sync'[s].mode # "unseen"
    BY <2>2 DEF RangeInv, UnseenInv, Active
  <2>3. CASE /\ sync'[s].pc = sync[s].pc /\ sync'[s].mode = sync[s].mode
             /\ sync'[s].mailbox = sync[s].mailbox /\ sync'[s].last = sync[s].last
             /\ sync'[s].rebuilt = sync[s].rebuilt /\ sync'[s].todo = sync[s].todo
             /\ sync'[s].done = sync[s].done /\ sync'[s].highestUid = sync[s].highestUid
    <3>1. RangeInv(s)'
      <4> SUFFICES ASSUME Active(s), sync[s].mode # "unseen"
                   PROVE  RangeOpened(s)' /\ RangeRead(s)' /\ RangeFetched(s)'
        BY <2>3 DEF RangeInv, Active
      <4>1. RangeOpened(s) /\ RangeRead(s) /\ RangeFetched(s)
        BY <2>1 DEF RangeInv
      <4>2. RangeOpened(s)'
        BY <2>3, <4>1 DEF RangeOpened, Present
      <4>3. RangeRead(s)'
        BY <1>1, <2>3, <4>1 DEF RangeRead, Present, Handled
      <4>4. RangeFetched(s)'
        BY <1>1, <2>3, <4>1 DEF RangeFetched, Present, Handled
      <4>5. QED
        BY <4>2, <4>3, <4>4
    <3>2. UnseenInv(s)'
      BY <1>1, <2>1, <2>3 DEF UnseenInv, Handled
    <3>3. QED
      BY <3>1, <3>2
  <2>4. QED
    BY <2>2, <2>3
<1>5. QED
  BY <1>2, <1>3, <1>4 DEF SkipInv

LEMMA FailuresWeaken ==
  ASSUME TypeInv, \A t \in Trigger : sync[t].mode # "unseen",
         \/ LoseConnection \/ ConnectFails \/ Stop \/ StopAsleep \/ StartWorker
         \/ EndSession \/ Close \/ Restart
         \/ \E s \in Syncer : Throw(s)
         \/ \E t \in Trigger : TriggerSync(t)
  PROVE  Weaker
<1> worker \in WorkerState /\ sync \in [Syncer -> SyncState]
    /\ Trigger \subseteq Syncer /\ Worker \in Syncer /\ Worker \notin Trigger
  BY BoundsAssumption DEF TypeInv, TypeOK, Syncer
<1>1. CASE LoseConnection \/ ConnectFails \/ Stop \/ StopAsleep \/ StartWorker
  <2>1. UNCHANGED <<box, imapConfig, opened, sync, handled>>
    BY <1>1 DEF LoseConnection, ConnectFails, Stop, StopAsleep, StartWorker
  <2>2. (worker'.up => worker.up) /\ (worker'.pc = "idle" => worker.pc = "idle")
    <3>1. CASE LoseConnection
      BY <3>1 DEF LoseConnection, WorkerState
    <3>2. CASE ConnectFails
      BY <3>2 DEF ConnectFails, WorkerState
    <3>3. CASE Stop
      BY <3>3 DEF Stop, WorkerState
    <3>4. CASE StopAsleep
      BY <3>4 DEF StopAsleep, WorkerState
    <3>5. CASE StartWorker
      BY <3>5 DEF StartWorker, NewWorker
    <3>6. QED
      BY <1>1, <3>1, <3>2, <3>3, <3>4, <3>5
  <2>3. QED
    BY <2>1, <2>2 DEF Weaker, GivesUp, Continues
<1>2. CASE EndSession \/ Close
  <2>1. sync' = Closed /\ UNCHANGED <<box, imapConfig, opened, handled>>
    BY <1>2 DEF EndSession, Close
  <2>2. (worker'.up => worker.up) /\ (worker'.pc = "idle" => worker.pc = "idle")
    <3>1. CASE EndSession
      BY <3>1 DEF EndSession, WorkerState
    <3>2. CASE Close
      BY <3>2 DEF Close, WorkerState
    <3>3. QED
      BY <1>2, <3>1, <3>2
  <2>3. \A s \in Syncer : sync'[s] = IF sync[s].pc = "waiting" THEN Off
                                     ELSE [sync[s] EXCEPT !.current = FALSE]
    BY <2>1 DEF Closed
  <2>4. Off.pc = "off" /\ Off.mode = "incremental"
    BY DEF Off
  <2>5. \A x \in SyncState : LET y == [x EXCEPT !.current = FALSE] IN
          /\ y.pc = x.pc /\ y.mode = x.mode /\ y.mailbox = x.mailbox /\ y.last = x.last
          /\ y.rebuilt = x.rebuilt /\ y.todo = x.todo /\ y.done = x.done
          /\ y.highestUid = x.highestUid /\ ~y.current
    BY DEF SyncState
  <2>6. ASSUME NEW s \in Syncer
        PROVE  GivesUp(s) \/ Continues(s)
    <3>1. CASE sync[s].pc = "waiting"
      BY <2>3, <2>4, <3>1 DEF GivesUp
    <3>2. CASE sync[s].pc # "waiting"
      BY <2>3, <2>5, <3>2 DEF Continues
    <3>3. QED
      BY <3>1, <3>2
  <2>7. QED
    BY <2>1, <2>2, <2>6 DEF Weaker
<1>3. CASE Restart
  <2>1. worker' = NewWorker /\ \A s \in Syncer : sync'[s] = Off
    BY <1>3 DEF Restart
  <2>2. ~worker'.up /\ worker'.pc = "down" /\ Off.pc = "off" /\ Off.mode = "incremental"
    BY <2>1 DEF NewWorker, Off
  <2>3. UNCHANGED <<box, imapConfig, opened, handled>>
    BY <1>3 DEF Restart
  <2>4. QED
    BY <2>1, <2>2, <2>3 DEF Weaker, GivesUp, Continues
<1>4. ASSUME NEW s \in Syncer, Throw(s) PROVE Weaker
  <2>1. sync'[s] = Off /\ (\A t \in Syncer : t # s => sync'[t] = sync[t])
        /\ Off.pc = "off" /\ Off.mode = "incremental"
        /\ UNCHANGED <<box, imapConfig, opened, handled>>
    BY <1>4 DEF Throw, Off
  <2>2. (worker'.up => worker.up) /\ (worker'.pc = "idle" => worker.pc = "idle")
    BY <1>4 DEF Throw, WorkerState
  <2>3. QED
    BY <2>1, <2>2 DEF Weaker, GivesUp, Continues
<1>5. ASSUME NEW t \in Trigger, TriggerSync(t) PROVE Weaker
  <2>1. sync[t].mode # "unseen"
    OBVIOUS
  <2>2. /\ sync'[t].pc = "waiting" /\ sync'[t].mode = sync[t].mode
        /\ \A s \in Syncer : s # t => sync'[s] = sync[s]
        /\ UNCHANGED <<box, imapConfig, worker, opened, handled>>
    BY <1>5 DEF TriggerSync, SyncState
  <2>3. QED
    BY <2>1, <2>2 DEF Weaker, GivesUp, Continues
<1>6. QED
  BY <1>1, <1>2, <1>3, <1>4, <1>5

LEMMA FailuresSkipNothing ==
  ASSUME TypeInv, SkipInv,
         \/ LoseConnection \/ ConnectFails \/ Stop \/ StopAsleep \/ StartWorker
         \/ EndSession \/ Close \/ Restart
         \/ \E s \in Syncer : Throw(s)
         \/ \E t \in Trigger : TriggerSync(t)
  PROVE  SkipInv'
<1>1. \A t \in Trigger : sync[t].mode # "unseen"
  BY BoundsAssumption DEF SkipInv, UnseenInv, Syncer
<1>2. QED
  BY <1>1, FailuresWeaken, Weakened

LEMMA ArriveSkipsNothing ==
  ASSUME TypeInv, SkipInv, Arrive PROVE SkipInv'
<1> DEFINE new == box.uidNext
<1>1. /\ box'.uidValidity = box.uidValidity /\ box'.uidNext = new + 1
      /\ box'.unseen = box.unseen \union {new}
      /\ UNCHANGED <<imapConfig, opened, sync, handled>>
      /\ worker'.up = worker.up /\ worker'.pc = worker.pc
  BY Facts DEF Arrive, Box, WorkerState
<1>2. Arrived' = Arrived \union {new} /\ new \notin Arrived
  BY <1>1, Facts DEF Arrived, SkipInv, OpenedInv
<1>3. Known => Known'
  BY <1>1, <1>2 DEF Known, Handled
<1>4. OpenedInv'
  BY <1>1, <1>2, Facts DEF SkipInv, OpenedInv, Handled
<1>5. RowInv'
  BY <1>1, <1>2, <1>3, Facts DEF SkipInv, RowInv, Handled
<1>6. ASSUME NEW s \in Syncer PROVE RangeInv(s)' /\ UnseenInv(s)'
  <2>1. RangeInv(s) /\ UnseenInv(s)
    BY DEF SkipInv
  <2>2. RangeInv(s)'
    <3> SUFFICES ASSUME Active(s), sync[s].mode # "unseen"
                 PROVE  RangeOpened(s)' /\ RangeRead(s)' /\ RangeFetched(s)'
      BY <1>1 DEF RangeInv, Active
    <3>1. RangeOpened(s) /\ RangeRead(s) /\ RangeFetched(s)
      BY <2>1 DEF RangeInv
    <3>2. RangeOpened(s)'
      BY <1>1, <3>1, Facts DEF RangeOpened, Present
    <3>3. RangeRead(s)'
      BY <1>1, <1>2, <3>1, Facts DEF RangeRead, Present, Handled
    <3>4. RangeFetched(s)'
      BY <1>1, <1>2, <3>1, Facts DEF RangeOpened, RangeFetched, Present, Handled
    <3>5. QED
      BY <3>2, <3>3, <3>4
  <2>3. UnseenInv(s)'
    <3> SUFFICES ASSUME sync[s].mode = "unseen" PROVE UnseenInv(s)'
      BY <1>1 DEF UnseenInv
    <3>1. sync[s].todo \union sync[s].done \subseteq Nat
      BY Facts DEF Uid
    <3>2. QED
      BY <1>1, <1>2, <1>3, <2>1, <3>1, Facts DEF UnseenInv, Handled
  <2>4. QED
    BY <2>2, <2>3
<1>7. QED
  BY <1>4, <1>5, <1>6 DEF SkipInv

LEMMA ReadElsewhereSkipsNothing ==
  ASSUME TypeInv, SkipInv, ReadElsewhere PROVE SkipInv'
<1>1. PICK x \in box.unseen : /\ box' = [box EXCEPT !.unseen = @ \ {x}]
                             /\ handled' = handled \union {x}
  BY DEF ReadElsewhere
<1>2. /\ box'.uidValidity = box.uidValidity /\ box'.uidNext = box.uidNext
      /\ box'.unseen = box.unseen \ {x}
      /\ UNCHANGED <<imapConfig, worker, opened, sync>>
  BY <1>1, Facts DEF ReadElsewhere, Box
<1>3. Arrived' = Arrived
  BY <1>2 DEF Arrived
<1>4. Known => Known'
  BY <1>1, <1>2, <1>3 DEF Known, Handled
<1>5. OpenedInv'
  BY <1>1, <1>2, <1>3 DEF SkipInv, OpenedInv, Handled
<1>6. RowInv'
  BY <1>1, <1>2, <1>3, <1>4 DEF SkipInv, RowInv, Handled
<1>7. ASSUME NEW s \in Syncer PROVE RangeInv(s)' /\ UnseenInv(s)'
  <2>1. RangeInv(s) /\ UnseenInv(s)
    BY DEF SkipInv
  <2>2. RangeInv(s)'
    BY <1>1, <1>2, <1>3, <2>1
    DEF RangeInv, RangeOpened, RangeRead, RangeFetched, Present, Handled, Active
  <2>3. UnseenInv(s)'
    BY <1>1, <1>2, <1>3, <1>4, <2>1 DEF UnseenInv, Handled
  <2>4. QED
    BY <2>2, <2>3
<1>8. QED
  BY <1>5, <1>6, <1>7 DEF SkipInv

\* Whatever was known is of an earlier mailbox now.
LEMMA RebuildSkipsNothing ==
  ASSUME TypeInv, SkipInv, Rebuild, MinMessages > 0 PROVE SkipInv'
<1>1. PICK n \in MinMessages + 1 .. box.uidNext : \E unseen \in SUBSET (1 .. n - 1) :
        box' = [uidValidity |-> box.uidValidity + 1, uidNext |-> n, unseen |-> unseen]
  BY DEF Rebuild
<1>2. /\ box'.uidValidity = box.uidValidity + 1 /\ box'.uidNext = n /\ n > 1
      /\ box'.unseen \subseteq 1 .. n - 1
  BY <1>1, BoundsAssumption
<1>3. ~worker'.up /\ worker'.pc = worker.pc /\ UNCHANGED <<imapConfig, opened, sync>>
  BY Facts DEF Rebuild, WorkerState
<1>4. Arrived' = 1 .. n - 1
  BY <1>2 DEF Arrived
<1>5. opened'.uidValidity < box'.uidValidity /\ opened.uidValidity \in Nat
      /\ box'.uidValidity \in Nat
  BY <1>2, <1>3, Facts DEF SkipInv, OpenedInv
<1>6. OpenedInv'
  BY <1>2, <1>3, <1>4, <1>5 DEF SkipInv, OpenedInv
<1>7. RowInv'
  BY <1>3, <1>5, Facts DEF SkipInv, RowInv
<1>8. ASSUME NEW s \in Syncer PROVE RangeInv(s)' /\ UnseenInv(s)'
  <2>1. RangeInv(s) /\ UnseenInv(s)
    BY DEF SkipInv
  <2>2. RangeInv(s)'
    <3> SUFFICES ASSUME Active(s), sync[s].mode # "unseen"
                 PROVE  RangeOpened(s)' /\ RangeRead(s)' /\ RangeFetched(s)'
      BY <1>3 DEF RangeInv, Active
    <3>1. RangeOpened(s) /\ RangeRead(s) /\ RangeFetched(s)
      BY <2>1 DEF RangeInv
    <3>2. ~Present(s)'
      BY <1>3, <1>5, <3>1, Facts DEF RangeOpened, Present
    <3>3. QED
      BY <1>3, <3>1, <3>2 DEF RangeOpened, RangeRead, RangeFetched
  <2>3. UnseenInv(s)'
    BY <1>3, <1>5, <2>1 DEF UnseenInv
  <2>4. QED
    BY <2>2, <2>3
<1>9. QED
  BY <1>6, <1>7, <1>8 DEF SkipInv

\* Steps of a synchronization of a range.
LEMMA ReadStateSkipsNothing ==
  ASSUME TypeInv, SkipInv, NEW s \in Syncer, ReadState(s), ~Personal
  PROVE  SkipInv'
<1> DEFINE rebuilt == imapConfig.lastUidValidity \notin {0, sync[s].mailbox.uidValidity}
           uid == imapConfig.lastSyncedUid
<1>1. sync[s] \in SyncState
  BY Facts
<1>2. /\ sync'[s].pc = (IF rebuilt THEN "reset" ELSE "search")
      /\ sync'[s].last = uid /\ sync'[s].rebuilt = rebuilt
      /\ sync'[s].mode = "incremental" /\ sync'[s].mailbox = sync[s].mailbox
      /\ sync'[s].highestUid = (IF rebuilt THEN 0 ELSE uid)
  BY <1>1, Facts DEF ReadState, SyncState
<1>3. sync' = [sync EXCEPT ![s] = sync'[s]]
      /\ UNCHANGED <<box, imapConfig, worker, opened, handled>>
  BY <1>1, Facts DEF ReadState
<1>4. RangeInv(s) /\ sync[s].pc = "state" /\ OpenedInv /\ RowInv
  BY DEF SkipInv, ReadState
<1>5. sync[s].mode # "unseen" /\ RangeOpened(s)
  BY <1>4 DEF RangeInv, Active, SkipInv, UnseenInv
<1>6. RangeOpened(s)'
  BY <1>2, <1>3, <1>5 DEF RangeOpened, Present
<1>7. RangeRead(s)'
  <2>1. Arrived' = Arrived
    BY <1>3 DEF Arrived
  <2>2. ASSUME ~rebuilt, Present(s)
        PROVE  uid < box.uidNext /\ \A u \in Arrived : u <= uid => Handled(u)
    <3>1. CASE imapConfig.lastUidValidity = 0
      BY <1>4, <3>1, Facts DEF RowInv, OpenedInv, Arrived
    <3>2. CASE imapConfig.lastUidValidity = box.uidValidity
      BY <1>4, <3>2 DEF RowInv
    <3>3. QED
      BY <2>2, <3>1, <3>2 DEF Present
  <2>3. imapConfig.lastUidValidity = 0 => uid = 0
    BY <1>4 DEF RowInv
  <2> HIDE DEF rebuilt, uid
  <2>4. QED
    BY <1>2, <1>3, <2>1, <2>2, <2>3 DEF RangeRead, Present, Handled
<1>8. RangeFetched(s)' /\ UnseenInv(s)'
  BY <1>2 DEF RangeFetched, UnseenInv
<1>9. OpenedInv' /\ RowInv'
  BY <1>3, <1>4 DEF OpenedInv, RowInv, Arrived, Known, Handled
<1>10. \A t \in Syncer : t # s => RangeInv(t)' /\ UnseenInv(t)'
  BY <1>3, OthersKept
<1>11. QED
  BY <1>6, <1>7, <1>8, <1>9, <1>10 DEF SkipInv, RangeInv

LEMMA ResetStateSkipsNothing ==
  ASSUME TypeInv, SkipInv, NEW s \in Syncer, ResetState(s)
  PROVE  SkipInv'
<1> DEFINE validity == sync[s].mailbox.uidValidity
<1>1. sync[s] \in SyncState /\ validity \in Nat /\ validity > 0
  BY Facts
<1>2. /\ sync'[s] = [sync[s] EXCEPT !.pc = "search"]
      /\ sync' = [sync EXCEPT ![s] = sync'[s]]
      /\ imapConfig'.lastSyncedUid = 0 /\ imapConfig'.lastUidValidity = validity
      /\ UNCHANGED <<box, worker, opened, handled>>
  BY <1>1, Facts DEF ResetState, ImapConfig
<1>3. /\ sync'[s].pc = "search" /\ sync'[s].mode = sync[s].mode
      /\ sync'[s].mailbox = sync[s].mailbox /\ sync'[s].rebuilt = sync[s].rebuilt
      /\ sync'[s].highestUid = sync[s].highestUid
  BY <1>1, <1>2 DEF SyncState
<1>4. RangeInv(s) /\ sync[s].pc = "reset" /\ OpenedInv /\ RowInv
  BY DEF SkipInv, ResetState
<1>5. sync[s].mode # "unseen" /\ RangeOpened(s) /\ RangeRead(s)
  BY <1>4 DEF RangeInv, Active, SkipInv, UnseenInv
<1>6. RangeOpened(s)' /\ RangeRead(s)'
  BY <1>1, <1>2, <1>3, <1>4, <1>5 DEF RangeOpened, RangeRead, Present
<1>7. RangeFetched(s)' /\ UnseenInv(s)'
  BY <1>3, <1>5 DEF RangeFetched, UnseenInv
<1>8. OpenedInv'
  BY <1>2, <1>4 DEF OpenedInv, Arrived, Handled
<1>9. RowInv'
  <2>1. \A u \in Arrived : ~(u <= 0)
    BY Facts DEF Arrived
  <2>2. QED
    BY <1>1, <1>2, <1>4, <1>5, <2>1, Facts
    DEF RowInv, OpenedInv, RangeOpened, Arrived, Known, Handled
<1>10. \A t \in Syncer : t # s => RangeInv(t)' /\ UnseenInv(t)'
  BY <1>1, <1>2, OthersKept
<1>11. QED
  BY <1>6, <1>7, <1>8, <1>9, <1>10 DEF SkipInv, RangeInv

\* A synchronization that returns leaves the worker in IDLE, and then the row has a
\* validity and every message that is not handled is unseen.
LEMMA ReturnSkipsNothing ==
  ASSUME TypeInv, SkipInv, NEW s \in Syncer, Active(s), Return(s),
         UNCHANGED <<box, opened, handled>>,
         imapConfig'.lastUidValidity <= opened.uidValidity,
         imapConfig'.lastUidValidity = 0 =>
            imapConfig.lastUidValidity = 0 /\ imapConfig' = imapConfig,
         imapConfig'.lastUidValidity = box.uidValidity =>
            /\ imapConfig'.lastSyncedUid < box.uidNext
            /\ \A u \in Arrived : u <= imapConfig'.lastSyncedUid => Handled(u),
         s = Worker /\ worker.up => imapConfig'.lastUidValidity # 0 /\ Known
  PROVE  SkipInv'
<1>1. sync'[s] = Off /\ sync' = [sync EXCEPT ![s] = sync'[s]] /\ Off.pc = "off"
      /\ Off.mode = "incremental"
  BY Facts DEF Return, Off
<1>2. /\ worker'.up = worker.up
      /\ worker'.pc = "idle" => worker.pc = "idle" \/ s = Worker
      /\ s # Worker => worker' = worker
  BY Facts DEF Return, WorkerState
<1>3. Arrived' = Arrived /\ (Known' <=> Known)
  BY DEF Arrived, Known, Handled
<1>4. OpenedInv'
  BY <1>2, <1>3 DEF SkipInv, OpenedInv, Handled
<1>5. RowInv'
  BY <1>2, <1>3 DEF SkipInv, RowInv, Handled
<1>6. RangeInv(s)' /\ UnseenInv(s)'
  BY <1>1 DEF RangeInv, UnseenInv, Active
<1>7. \A t \in Syncer : t # s => RangeInv(t)' /\ UnseenInv(t)'
  BY <1>1, <1>2, OthersKept
<1>8. QED
  BY <1>4, <1>5, <1>6, <1>7 DEF SkipInv

LEMMA SearchRangeSkipsNothing ==
  ASSUME TypeInv, SkipInv, NEW s \in Syncer, SearchRange(s)
  PROVE  SkipInv'
<1> DEFINE me == sync[s]
           range == UidRange(s)
<1>1. sync[s] \in SyncState /\ OpenedInv /\ RowInv /\ RangeInv(s) /\ Active(s)
      /\ me.pc = "search" /\ me.mode # "unseen"
      /\ UNCHANGED <<box, imapConfig, opened, handled>>
  BY Facts DEF SkipInv, SearchRange, Active
<1>2. RangeOpened(s) /\ RangeRead(s)
  BY <1>1 DEF RangeInv
<1>3. \A u : u \in range <=>
         /\ u \in Arrived /\ u < me.mailbox.uidNext
         /\ (IF me.rebuilt THEN 1 ELSE me.last + 1) <= u
  BY <1>2 DEF UidRange, RangeOpened
<1> HIDE DEF range
<1>4. CASE sync' = [sync EXCEPT ![s] = [@ EXCEPT !.pc = "fetch", !.todo = range]]
           /\ UNCHANGED worker /\ range # {}
  <2>1. /\ sync' = [sync EXCEPT ![s] = sync'[s]]
        /\ sync'[s] = [me EXCEPT !.pc = "fetch", !.todo = range]
    BY <1>4, Facts
  <2>2. /\ sync'[s].pc = "fetch" /\ sync'[s].todo = range /\ sync'[s].mode = me.mode
        /\ sync'[s].mailbox = me.mailbox /\ sync'[s].rebuilt = me.rebuilt
        /\ sync'[s].highestUid = me.highestUid
    BY <1>1, <2>1 DEF SyncState
  <2>3. RangeOpened(s)'
    BY <1>1, <1>2, <2>2 DEF RangeOpened, Present
  <2>4. RangeRead(s)' /\ UnseenInv(s)'
    BY <1>1, <2>2 DEF RangeRead, UnseenInv
  <2>5. RangeFetched(s)'
    <3>1. Arrived' = Arrived
      BY <1>1 DEF Arrived
    <3>2. ASSUME Present(s)
          PROVE  /\ me.highestUid < box.uidNext
                 /\ \A u \in Arrived : u < me.mailbox.uidNext \/ u <= me.highestUid =>
                       u \in range \/ Handled(u)
      <4>1. CASE me.rebuilt
        BY <1>1, <1>2, <1>3, <4>1, Facts DEF RangeRead, OpenedInv, Arrived
      <4>2. CASE ~me.rebuilt
        BY <1>1, <1>2, <1>3, <3>2, <4>2, Facts DEF RangeRead, Arrived
      <4>3. QED
        BY <4>1, <4>2
    <3>3. QED
      BY <1>1, <1>3, <1>4, <2>2, <3>1, <3>2 DEF RangeFetched, Present, Handled
  <2>6. OpenedInv' /\ RowInv'
    BY <1>1, <1>4 DEF OpenedInv, RowInv, Arrived, Known, Handled
  <2>7. \A t \in Syncer : t # s => RangeInv(t)' /\ UnseenInv(t)'
    BY <1>1, <1>4, <2>1, OthersKept
  <2>8. QED
    BY <2>3, <2>4, <2>5, <2>6, <2>7 DEF SkipInv, RangeInv
<1>5. CASE Return(s) /\ (~Connected(s) \/ range = {})
  <2>1. ASSUME s = Worker, worker.up
        PROVE  imapConfig.lastUidValidity # 0 /\ Known
    <3>1. range = {}
      BY <1>1, <1>5, <2>1 DEF Connected, TypeInv, LockInv, Active
    <3>2. me.mailbox = opened /\ Present(s)
      BY <1>1, <1>2, <2>1 DEF RangeOpened, OpenedInv, Present
    <3>3. imapConfig.lastUidValidity # 0
      <4> SUFFICES ASSUME imapConfig.lastUidValidity = 0 PROVE FALSE
        OBVIOUS
      <4>1. ~me.rebuilt /\ me.last = 0
        BY <1>1, <1>2 DEF RangeOpened, RangeRead
      <4>2. 1 \in range
        BY <1>1, <1>2, <1>3, <4>1, Facts DEF RangeOpened, OpenedInv, Arrived
      <4>3. QED
        BY <3>1, <4>2
    <3>4. ASSUME NEW u \in Arrived PROVE u \in box.unseen \/ Handled(u)
      <4>1. CASE u >= opened.uidNext
        BY <1>1, <2>1, <4>1 DEF OpenedInv
      <4>2. CASE u < opened.uidNext
        BY <1>1, <1>2, <1>3, <3>1, <3>2, <4>2, Facts DEF RangeRead, Arrived
      <4>3. QED
        BY <4>1, <4>2, Facts DEF Arrived
    <3>5. QED
      BY <3>3, <3>4 DEF Known
  <2>2. QED
    BY <1>1, <1>5, <2>1, ReturnSkipsNothing DEF RowInv
<1>6. QED
  BY <1>4, <1>5 DEF SearchRange, range

LEMMA FetchSkipsNothing ==
  ASSUME TypeInv, SkipInv, NEW s \in Syncer, Fetch(s)
  PROVE  SkipInv'
<1> DEFINE me == sync[s]
<1>1. PICK uid \in me.todo :
        /\ handled' = handled \union {uid}
        /\ sync' = [sync EXCEPT ![s] =
             [me EXCEPT !.todo = me.todo \ {uid}, !.done = me.done \union {uid},
                        !.highestUid = IF uid > me.highestUid THEN uid ELSE me.highestUid]]
  BY DEF Fetch
<1>2. /\ sync[s] \in SyncState /\ OpenedInv /\ RowInv /\ RangeInv(s) /\ UnseenInv(s)
      /\ Active(s) /\ me.pc = "fetch" /\ UNCHANGED <<box, imapConfig, worker, opened>>
      /\ uid \in Nat /\ uid > 0
  BY Facts DEF SkipInv, Fetch, Active, Uid
<1>3. /\ sync' = [sync EXCEPT ![s] = sync'[s]]
      /\ sync'[s].pc = "fetch" /\ sync'[s].mode = me.mode
      /\ sync'[s].mailbox = me.mailbox /\ sync'[s].rebuilt = me.rebuilt
      /\ sync'[s].last = me.last
      /\ sync'[s].todo = me.todo \ {uid} /\ sync'[s].done = me.done \union {uid}
      /\ sync'[s].highestUid = (IF uid > me.highestUid THEN uid ELSE me.highestUid)
  BY <1>1, <1>2, Facts DEF SyncState
<1>4. Arrived' = Arrived /\ (Known => Known')
  BY <1>1, <1>2 DEF Arrived, Known, Handled
<1>5. OpenedInv'
  BY <1>1, <1>2, <1>4 DEF OpenedInv, Handled
<1>6. RowInv'
  BY <1>1, <1>2, <1>4 DEF RowInv, Handled
<1>7. RangeInv(s)'
  <2> SUFFICES ASSUME me.mode # "unseen"
               PROVE  RangeOpened(s)' /\ RangeRead(s)' /\ RangeFetched(s)'
    BY <1>3 DEF RangeInv
  <2>1. RangeOpened(s) /\ RangeFetched(s)
    BY <1>2 DEF RangeInv
  <2>2. RangeOpened(s)' /\ RangeRead(s)'
    BY <1>2, <1>3, <2>1 DEF RangeOpened, RangeRead, Present
  <2>3. sync'[s].highestUid > 0 /\ sync'[s].highestUid \in Nat
    BY <1>2, <1>3, Facts
  <2>4. ASSUME Present(s)
        PROVE  /\ sync'[s].highestUid < box.uidNext
               /\ \A u \in Arrived :
                    u < me.mailbox.uidNext \/ u <= sync'[s].highestUid =>
                       u \in me.todo \/ Handled(u)
    <3>1. uid < me.mailbox.uidNext /\ uid < box.uidNext
      BY <1>2, <2>1, <2>4, Facts DEF RangeOpened, RangeFetched
    <3>2. QED
      BY <1>2, <1>3, <2>1, <2>4, <3>1, Facts DEF RangeFetched, Arrived
  <2>5. RangeFetched(s)'
    BY <1>1, <1>2, <1>3, <1>4, <2>1, <2>3, <2>4 DEF RangeFetched, Present, Handled
  <2>6. QED
    BY <2>2, <2>5
<1>8. UnseenInv(s)'
  BY <1>1, <1>2, <1>3, <1>4 DEF UnseenInv, Handled
<1>9. \A t \in Syncer : t # s => RangeInv(t)' /\ UnseenInv(t)'
  BY <1>1, <1>2, <1>3, OthersKept
<1>10. QED
  BY <1>5, <1>6, <1>7, <1>8, <1>9 DEF SkipInv

LEMMA EndFetchSkipsNothing ==
  ASSUME TypeInv, SkipInv, NEW s \in Syncer, EndFetch(s)
  PROVE  SkipInv'
<1> DEFINE me == sync[s]
<1>1. /\ sync[s] \in SyncState /\ OpenedInv /\ RowInv /\ RangeInv(s) /\ UnseenInv(s)
      /\ Active(s) /\ me.pc = "fetch" /\ me.todo = {}
      /\ UNCHANGED <<box, imapConfig, worker, opened, handled>>
  BY Facts DEF SkipInv, EndFetch, Active
<1>2. /\ sync' = [sync EXCEPT ![s] = sync'[s]]
      /\ sync'[s].pc = (IF me.mode = "unseen" THEN "flags" ELSE "update")
      /\ sync'[s].mode = me.mode
      /\ sync'[s].mailbox = me.mailbox /\ sync'[s].rebuilt = me.rebuilt
      /\ sync'[s].last = me.last /\ sync'[s].todo = me.todo /\ sync'[s].done = me.done
      /\ sync'[s].highestUid = me.highestUid
  BY <1>1, Facts DEF EndFetch, SyncState
<1>3. Arrived' = Arrived /\ (Known' <=> Known)
  BY <1>1 DEF Arrived, Known, Handled
<1>4. OpenedInv' /\ RowInv'
  BY <1>1, <1>3 DEF OpenedInv, RowInv, Handled
<1>5. RangeInv(s)'
  BY <1>1, <1>2, <1>3
  DEF RangeInv, RangeOpened, RangeRead, RangeFetched, Present, Handled
<1>6. UnseenInv(s)'
  BY <1>1, <1>2, <1>3 DEF UnseenInv, Handled
<1>7. \A t \in Syncer : t # s => RangeInv(t)' /\ UnseenInv(t)'
  BY <1>1, <1>2, OthersKept
<1>8. QED
  BY <1>4, <1>5, <1>6, <1>7 DEF SkipInv

LEMMA WriteStateSkipsNothing ==
  ASSUME TypeInv, SkipInv, NEW s \in Syncer, WriteState(s)
  PROVE  SkipInv'
<1> DEFINE me == sync[s]
<1>1. /\ sync[s] \in SyncState /\ OpenedInv /\ RowInv /\ RangeInv(s) /\ UnseenInv(s)
      /\ Active(s) /\ me.pc = "update" /\ Return(s) /\ UNCHANGED <<box, opened, handled>>
  BY Facts DEF SkipInv, WriteState, Active
<1>2. CASE me.mode = "unseen"
  <2>1. /\ s = Worker /\ me.todo = {} /\ imapConfig.lastUidValidity # 0
        /\ me.highestUid = me.last \/ me.highestUid \in me.done
        /\ worker.up => Known
    BY <1>1, <1>2 DEF UnseenInv
  <2>2. /\ imapConfig'.lastUidValidity = imapConfig.lastUidValidity
        /\ imapConfig'.lastSyncedUid = IF me.highestUid > me.last THEN me.highestUid
                                       ELSE imapConfig.lastSyncedUid
    BY <1>2, Facts DEF WriteState, ImapConfig
  <2>3. ASSUME imapConfig.lastUidValidity = box.uidValidity
        PROVE  /\ imapConfig'.lastSyncedUid < box.uidNext
               /\ \A u \in Arrived : u <= imapConfig'.lastSyncedUid => Handled(u)
    <3>1. opened.uidValidity = box.uidValidity
      BY <1>1, <2>3, Facts DEF OpenedInv, RowInv
    <3>2. CASE me.highestUid > me.last
      <4>1. me.highestUid \in me.done
        BY <2>1, <3>2, Facts
      <4>2. QED
        BY <1>1, <1>2, <2>1, <2>2, <3>1, <3>2, <4>1 DEF UnseenInv
    <3>3. CASE ~(me.highestUid > me.last)
      BY <1>1, <2>2, <2>3, <3>3 DEF RowInv
    <3>4. QED
      BY <3>2, <3>3
  <2>4. QED
    BY <1>1, <2>1, <2>2, <2>3, ReturnSkipsNothing DEF RowInv
<1>3. CASE me.mode # "unseen"
  <2>1. RangeOpened(s) /\ RangeFetched(s)
    BY <1>1, <1>3 DEF RangeInv
  <2>2. me.todo = {} /\ me.highestUid > 0
    BY <1>1, <2>1 DEF RangeFetched
  <2>3. /\ imapConfig'.lastUidValidity = me.mailbox.uidValidity
        /\ imapConfig'.lastSyncedUid = me.highestUid
    BY <1>3, <2>2 DEF WriteState
  <2>4. me.mailbox.uidValidity <= opened.uidValidity /\ me.mailbox.uidValidity # 0
    BY <2>1, Facts DEF RangeOpened
  <2>5. ASSUME me.mailbox.uidValidity = box.uidValidity
        PROVE  /\ me.highestUid < box.uidNext
               /\ \A u \in Arrived :
                     u < me.mailbox.uidNext \/ u <= me.highestUid => Handled(u)
    BY <1>1, <2>1, <2>2, <2>5 DEF RangeFetched, Present
  <2>6. ASSUME s = Worker, worker.up PROVE Known
    <3>1. me.mailbox = opened /\ opened.uidValidity = box.uidValidity
      BY <1>1, <2>1, <2>6 DEF RangeOpened, OpenedInv
    <3>2. QED
      BY <1>1, <2>5, <3>1, Facts DEF OpenedInv, Known, Arrived
  <2>7. QED
    BY <1>1, <2>3, <2>4, <2>5, <2>6, ReturnSkipsNothing
<1>4. QED
  BY <1>2, <1>3

\* Steps of a search for unseen messages.
LEMMA SearchUnseenSkipsNothing ==
  ASSUME TypeInv, SkipInv, NEW s \in Syncer, SearchUnseen(s)
  PROVE  SkipInv'
<1> DEFINE me == sync[s]
           unseen == box.unseen
<1>1. /\ sync[s] \in SyncState /\ OpenedInv /\ RowInv /\ UnseenInv(s)
      /\ Active(s) /\ me.pc = "search" /\ me.mode = "unseen" /\ worker.up
      /\ UNCHANGED <<box, imapConfig, opened, handled>>
  BY Facts DEF SkipInv, SearchUnseen, Active, Connected
<1>2. /\ s = Worker /\ imapConfig.lastUidValidity # 0 /\ Known /\ me.done = {}
  BY <1>1 DEF UnseenInv
<1>3. CASE sync' = [sync EXCEPT ![s] = [@ EXCEPT !.pc = "last", !.todo = unseen]]
           /\ UNCHANGED worker
  <2> HIDE DEF unseen
  <2>1. /\ sync' = [sync EXCEPT ![s] = sync'[s]]
        /\ sync'[s].pc = "last" /\ sync'[s].mode = "unseen"
        /\ sync'[s].todo = unseen /\ sync'[s].done = {}
    BY <1>1, <1>2, <1>3, Facts DEF SyncState
  <2>2. Arrived' = Arrived /\ (Known' <=> Known)
    BY <1>1 DEF Arrived, Known, Handled
  <2>3. OpenedInv' /\ RowInv'
    BY <1>1, <1>3, <2>2 DEF OpenedInv, RowInv, Handled
  <2>4. UnseenInv(s)'
    <3>1. \A x \in unseen : /\ x < box.uidNext
                            /\ \A u \in Arrived : u <= x => u \in unseen \/ Handled(u)
      BY <1>1, <1>2, Facts DEF OpenedInv, Known, Arrived, unseen
    <3>2. QED
      BY <1>1, <1>2, <1>3, <2>1, <2>2, <3>1 DEF UnseenInv, Handled
  <2>5. RangeInv(s)'
    BY <2>1 DEF RangeInv
  <2>6. \A t \in Syncer : t # s => RangeInv(t)' /\ UnseenInv(t)'
    BY <1>1, <1>2, <2>1, OthersKept
  <2>7. QED
    BY <2>3, <2>4, <2>5, <2>6 DEF SkipInv
<1>4. CASE Return(s)
  BY <1>1, <1>2, <1>4, ReturnSkipsNothing DEF RowInv
<1>5. QED
  BY <1>3, <1>4 DEF SearchUnseen

LEMMA ReadLastSkipsNothing ==
  ASSUME TypeInv, SkipInv, NEW s \in Syncer, ReadLast(s)
  PROVE  SkipInv'
<1> DEFINE me == sync[s]
<1>1. /\ sync[s] \in SyncState /\ OpenedInv /\ RowInv /\ RangeInv(s) /\ UnseenInv(s)
      /\ Active(s) /\ me.pc = "last"
      /\ UNCHANGED <<box, imapConfig, worker, opened, handled>>
  BY Facts DEF SkipInv, ReadLast, Active
<1>2. me.mode = "unseen"
  BY <1>1 DEF RangeInv, RangeOpened
<1>3. /\ sync' = [sync EXCEPT ![s] = sync'[s]]
      /\ sync'[s].pc = "fetch" /\ sync'[s].mode = "unseen"
      /\ sync'[s].last = sync'[s].highestUid
      /\ sync'[s].todo = me.todo /\ sync'[s].done = me.done
  BY <1>1, <1>2, Facts DEF ReadLast, SyncState
<1>4. Arrived' = Arrived /\ (Known' <=> Known)
  BY <1>1 DEF Arrived, Known, Handled
<1>5. OpenedInv' /\ RowInv'
  BY <1>1, <1>4 DEF OpenedInv, RowInv, Handled
<1>6. RangeInv(s)' /\ UnseenInv(s)'
  BY <1>1, <1>2, <1>3, <1>4 DEF RangeInv, UnseenInv, Handled
<1>7. \A t \in Syncer : t # s => RangeInv(t)' /\ UnseenInv(t)'
  BY <1>1, <1>3, OthersKept
<1>8. QED
  BY <1>5, <1>6, <1>7 DEF SkipInv

LEMMA MarkSeenSkipsNothing ==
  ASSUME TypeInv, SkipInv, NEW s \in Syncer, MarkSeen(s)
  PROVE  SkipInv'
<1> DEFINE me == sync[s]
<1>1. /\ sync[s] \in SyncState /\ OpenedInv /\ RowInv /\ RangeInv(s) /\ UnseenInv(s)
      /\ Active(s) /\ me.pc = "flags" /\ worker.up
      /\ UNCHANGED <<imapConfig, worker, opened, handled>>
  BY Facts DEF SkipInv, MarkSeen, Active, Connected
<1>2. me.mode = "unseen"
  BY <1>1 DEF RangeInv, RangeOpened
<1>3. s = Worker /\ \A x \in me.done : Handled(x)
  BY <1>1, <1>2 DEF UnseenInv, OpenedInv
<1>4. /\ box'.uidValidity = box.uidValidity /\ box'.uidNext = box.uidNext
      /\ box'.unseen = box.unseen \ me.done
  BY Facts DEF MarkSeen, Box
<1>5. /\ sync' = [sync EXCEPT ![s] = sync'[s]]
      /\ sync'[s].pc = "update" /\ sync'[s].mode = "unseen"
      /\ sync'[s].last = me.last /\ sync'[s].highestUid = me.highestUid
      /\ sync'[s].todo = me.todo /\ sync'[s].done = me.done
  BY <1>1, <1>2, Facts DEF MarkSeen, SyncState
<1>6. Arrived' = Arrived
  BY <1>4 DEF Arrived
<1>7. Known => Known'
  BY <1>1, <1>3, <1>4, <1>6 DEF Known, Handled
<1>8. OpenedInv'
  BY <1>1, <1>3, <1>4, <1>6 DEF OpenedInv, Handled
<1>9. RowInv'
  BY <1>1, <1>4, <1>6, <1>7 DEF RowInv, Handled
<1>10. RangeInv(s)' /\ UnseenInv(s)'
  BY <1>1, <1>2, <1>4, <1>5, <1>6, <1>7 DEF RangeInv, UnseenInv, Handled
<1>11. \A t \in Syncer : t # s => RangeInv(t)' /\ UnseenInv(t)'
  BY <1>1, <1>3, <1>4, <1>5, OthersKept
<1>12. QED
  BY <1>8, <1>9, <1>10, <1>11 DEF SkipInv

\* A synchronization that begins has read nothing.
LEMMA BeginsRange ==
  ASSUME NEW mailbox
  PROVE  LET x == RangeSync(mailbox) IN
         /\ x.pc = "state" /\ x.mode = "incremental" /\ x.mailbox = mailbox
         /\ x.rebuilt = FALSE /\ x.current = TRUE
  BY DEF RangeSync, Off

LEMMA ConnectSkipsNothing ==
  ASSUME TypeInv, SkipInv, Connect
  PROVE  SkipInv'
<1> DEFINE mailbox == [uidValidity |-> box.uidValidity, uidNext |-> box.uidNext]
<1>1. /\ OpenedInv /\ RowInv /\ worker'.pc = "sync" /\ worker'.up
      /\ opened' = mailbox /\ sync' = [sync EXCEPT ![Worker] = RangeSync(mailbox)]
      /\ UNCHANGED <<box, imapConfig, handled>> /\ Worker \in Syncer
  BY Facts DEF SkipInv, Connect, WorkerState, Syncer
<1>2. opened'.uidValidity = box.uidValidity /\ opened'.uidNext = box.uidNext
  BY <1>1
<1>3. Arrived' = Arrived
  BY <1>1 DEF Arrived
<1>4. OpenedInv'
  BY <1>1, <1>2, <1>3, Facts DEF OpenedInv, Arrived
<1>5. RowInv'
  BY <1>1, <1>2, <1>3, Facts DEF OpenedInv, RowInv, Handled
<1> HIDE DEF mailbox
<1>6. sync'[Worker] = RangeSync(mailbox) /\ \A t \in Syncer : t # Worker => sync'[t] = sync[t]
  BY <1>1, Facts
<1>7. RangeInv(Worker)' /\ UnseenInv(Worker)'
  <2>1. /\ sync'[Worker].pc = "state" /\ sync'[Worker].mode = "incremental"
        /\ sync'[Worker].mailbox = opened' /\ sync'[Worker].rebuilt = FALSE
    <3>1. /\ RangeSync(mailbox).pc = "state" /\ RangeSync(mailbox).mode = "incremental"
          /\ RangeSync(mailbox).mailbox = mailbox /\ RangeSync(mailbox).rebuilt = FALSE
      BY BeginsRange
    <3>2. QED
      BY <1>1, <1>6, <3>1
  <2>2. box.uidNext > 1 /\ opened'.uidValidity <= opened'.uidValidity
        /\ box.uidNext <= box.uidNext
    BY <1>1, <1>2, Facts DEF OpenedInv
  <2>3. RangeOpened(Worker)'
    BY <1>1, <1>2, <2>1, <2>2 DEF RangeOpened
  <2>4. RangeRead(Worker)' /\ RangeFetched(Worker)' /\ UnseenInv(Worker)'
    BY <2>1 DEF RangeRead, RangeFetched, UnseenInv
  <2>5. QED
    BY <2>3, <2>4 DEF RangeInv
<1>8. ASSUME NEW t \in Syncer, t # Worker PROVE RangeInv(t)' /\ UnseenInv(t)'
  <2>1. RangeInv(t) /\ UnseenInv(t) /\ sync'[t] = sync[t]
    BY <1>6, <1>8 DEF SkipInv
  <2>2. RangeInv(t)'
    BY <1>1, <1>2, <1>3, <1>8, <2>1, Facts
    DEF RangeInv, RangeOpened, RangeRead, RangeFetched, Present, Handled, Active, OpenedInv
  <2>3. UnseenInv(t)'
    BY <1>8, <2>1 DEF UnseenInv
  <2>4. QED
    BY <2>2, <2>3
<1>9. QED
  BY <1>4, <1>5, <1>7, <1>8 DEF SkipInv

LEMMA SyncAfterIdleSkipsNothing ==
  ASSUME TypeInv, SkipInv, SyncAfterIdle
  PROVE  SkipInv'
<1>1. /\ OpenedInv /\ RowInv /\ worker.pc = "idle" /\ worker.up
      /\ worker'.pc = "sync" /\ worker'.up
      /\ sync' = [sync EXCEPT ![Worker] = UnseenSync]
      /\ UNCHANGED <<box, imapConfig, opened, handled>> /\ Worker \in Syncer
  BY Facts DEF SkipInv, SyncAfterIdle, WorkerState, Syncer
<1>2. Arrived' = Arrived /\ (Known' <=> Known)
  BY <1>1 DEF Arrived, Known, Handled
<1>3. OpenedInv' /\ RowInv'
  BY <1>1, <1>2 DEF OpenedInv, RowInv, Handled
<1>4. /\ UnseenSync.pc = "search" /\ UnseenSync.mode = "unseen"
      /\ UnseenSync.todo = {} /\ UnseenSync.done = {}
  BY DEF UnseenSync, Off
<1>5. sync'[Worker] = UnseenSync /\ sync' = [sync EXCEPT ![Worker] = sync'[Worker]]
  BY <1>1, Facts
<1>6. RangeInv(Worker)' /\ UnseenInv(Worker)'
  BY <1>1, <1>2, <1>4, <1>5 DEF RangeInv, UnseenInv, RowInv
<1>7. \A t \in Syncer : t # Worker => RangeInv(t)' /\ UnseenInv(t)'
  BY <1>1, <1>5, OthersKept
<1>8. QED
  BY <1>3, <1>6, <1>7 DEF SkipInv

LEMMA GrantSkipsNothing ==
  ASSUME TypeInv, SkipInv, NEW t \in Trigger, Grant(t)
  PROVE  SkipInv'
<1>1. /\ OpenedInv /\ RowInv /\ worker.up
      /\ sync' = [sync EXCEPT ![t] = RangeSync(opened)]
      /\ UNCHANGED <<box, imapConfig, worker, opened, handled>>
      /\ t \in Syncer /\ t # Worker
  BY BoundsAssumption DEF SkipInv, Grant, Syncer
<1>2. Arrived' = Arrived /\ (Known' <=> Known)
  BY <1>1 DEF Arrived, Known, Handled
<1>3. OpenedInv' /\ RowInv'
  BY <1>1, <1>2 DEF OpenedInv, RowInv, Handled
<1>4. sync'[t] = RangeSync(opened) /\ sync' = [sync EXCEPT ![t] = sync'[t]]
  BY <1>1, Facts
<1>5. RangeInv(t)' /\ UnseenInv(t)'
  BY <1>1, <1>4, BeginsRange, Facts
  DEF RangeInv, RangeOpened, RangeRead, RangeFetched, UnseenInv, Present, OpenedInv
<1>6. \A u \in Syncer : u # t => RangeInv(u)' /\ UnseenInv(u)'
  BY <1>1, <1>4, OthersKept
<1>7. QED
  BY <1>3, <1>5, <1>6 DEF SkipInv

LEMMA InitSkipsNothing == MinMessages > 0 /\ Init => SkipInv
<1> SUFFICES ASSUME MinMessages > 0, Init PROVE SkipInv
  OBVIOUS
<1>1. PICK n \in MinMessages + 1 .. MaxUid + 1 : \E unseen \in SUBSET (1 .. n - 1) :
        /\ box = [uidValidity |-> 1, uidNext |-> n, unseen |-> unseen]
        /\ opened = [uidValidity |-> 1, uidNext |-> n]
  BY DEF Init
<1>2. /\ box.uidValidity = 1 /\ box.uidNext = n /\ box.unseen \subseteq 1 .. n - 1
      /\ opened.uidValidity = 1 /\ opened.uidNext = n /\ n \in Nat /\ n > 1
  BY <1>1, BoundsAssumption
<1>3. OpenedInv
  BY <1>2 DEF OpenedInv, Arrived, Init, NewWorker
<1>4. RowInv
  BY <1>2 DEF RowInv, Init, NewWorker
<1>5. \A s \in Syncer : sync[s].pc = "off" /\ sync[s].mode = "incremental"
  BY DEF Init, Off
<1>6. QED
  BY <1>3, <1>4, <1>5 DEF SkipInv, RangeInv, UnseenInv, Active

LEMMA StepSkipsNothing ==
  ASSUME ~Personal, MinMessages > 0, TypeInv, SkipInv, [Next]_vars
  PROVE  SkipInv'
<1>1. CASE UNCHANGED vars
  BY <1>1 DEF vars, SkipInv, OpenedInv, RowInv, RangeInv, RangeOpened, RangeRead,
     RangeFetched, UnseenInv, Present, Active, Known, Handled, Arrived
<1>2. ASSUME NEW s \in Syncer, SyncStep(s) PROVE SkipInv'
  BY <1>2, ReadStateSkipsNothing, ResetStateSkipsNothing, SearchRangeSkipsNothing,
     SearchUnseenSkipsNothing, ReadLastSkipsNothing, FetchSkipsNothing,
     EndFetchSkipsNothing, MarkSeenSkipsNothing, WriteStateSkipsNothing DEF SyncStep
<1>3. CASE Next
  BY <1>2, <1>3, ArriveSkipsNothing, ReadElsewhereSkipsNothing, RebuildSkipsNothing,
     FailuresSkipNothing, ConnectSkipsNothing, SyncAfterIdleSkipsNothing,
     GrantSkipsNothing DEF Next, WorkerStep, Wake, IdleReturns
<1>4. QED
  BY <1>1, <1>3

LEMMA SkipImplies == TypeInv /\ SkipInv => NothingSkipped
  BY DEF SkipInv, RowInv, NothingSkipped, Handled

\* In the mailbox of a domain that is not a personal account, and that is never
\* empty, no message up to the remembered uid is passed over, through any number of
\* failures, restarts, rebuilds and concurrent synchronizations (sync.ts:595-642,
\* 714-727).
THEOREM SkipsNothing ==
  ASSUME ~Personal, MinMessages > 0
  PROVE  Spec => []NothingSkipped
<1>1. Init => TypeInv /\ SkipInv
  BY InitTypes, InitSkipsNothing
<1>2. (TypeInv /\ SkipInv) /\ [Next]_vars => (TypeInv /\ SkipInv)'
  BY StepKeepsTypes, StepSkipsNothing
<1>3. QED
  BY <1>1, <1>2, SkipImplies, PTL DEF Spec
(***************************************************************************)
(* Part three: nothing is passed over in a personal account either, as     *)
(* long as its mailbox is not rebuilt.  It synchronizes its recent         *)
(* messages first and its history later, while the row already has a       *)
(* lastSyncedUid.  So what the row promises depends on lastFullSync, and   *)
(* what matters is who may come to set it: a synchronization of the        *)
(* history that has found its messages, and that may be left over from a   *)
(* connection that is gone.                                                *)
(***************************************************************************)
FullSync == imapConfig.lastFullSync

Backfills(s) == sync[s].mode = "backfill" /\ sync[s].pc \in {"fetch", "update"}

\* The history is not read, and nobody is about to say so.
Unread == ~FullSync /\ \A s \in Syncer : ~Backfills(s)

InOrder == Unread \/ (FullSync /\ Known)

HandledBetween(m, n) == \A u \in Arrived : m <= u /\ u <= n => Handled(u)

HistoryInv ==
    /\ box.unseen \subseteq Arrived
    /\ opened.uidNext <= box.uidNext
    /\ \A u \in Arrived : u >= opened.uidNext => u \in box.unseen \/ Handled(u)
    /\ imapConfig.lastSyncedUid < box.uidNext
    /\ HandledBetween(opened.uidNext, imapConfig.lastSyncedUid)
    /\ FullSync =>
         imapConfig.lastSyncedUid > 0 /\ HandledBetween(1, imapConfig.lastSyncedUid)
    /\ worker.pc = "idle" /\ worker.up => InOrder

\* A synchronization of a range: that has opened its mailbox,
HistoryOpened(s) ==
    /\ sync[s].pc \in {"state", "search", "fetch", "update"} /\ ~sync[s].rebuilt
    /\ sync[s].mailbox.uidNext <= opened.uidNext
    /\ sync[s].current => sync[s].mailbox.uidNext = opened.uidNext

\* that has read the row (one whose connection is gone finds nothing any more),
HistoryKnown(s) ==
    sync[s].pc # "state" =>
        /\ sync[s].pc = "search" => sync[s].highestUid = sync[s].last
        /\ sync[s].highestUid < box.uidNext
        /\ sync[s].current \/ sync[s].pc # "search" =>
             HandledBetween(sync[s].mailbox.uidNext, sync[s].highestUid)
        /\ sync[s].mode = "recent" /\ sync[s].current => Unread
        /\ sync[s].mode = "backfill" => imapConfig.lastSyncedUid > 0
        /\ sync[s].mode = "incremental" => FullSync
        /\ sync[s].mode = "incremental" /\ sync[s].pc = "search" =>
             HandledBetween(1, sync[s].last)

\* and that is fetching: the recent messages, before all that read the history,
HistoryRecent(s) ==
    sync[s].mode = "recent" =>
        /\ FullSync => \A u \in Arrived : u < sync[s].mailbox.uidNext => Handled(u)
        /\ \A t \in Syncer : Backfills(t) =>
              sync[s].mailbox.uidNext <= sync[t].mailbox.uidNext

\* or all of them.
HistoryFetched(s) ==
    sync[s].pc \in {"fetch", "update"} =>
        /\ sync[s].mailbox.uidNext > 1
        /\ sync[s].pc = "update" => sync[s].todo = {}
        /\ sync[s].todo = {} => sync[s].highestUid > 0
        /\ \A u \in sync[s].todo : u < sync[s].mailbox.uidNext
        /\ sync[s].mode # "recent" => \A u \in Arrived :
              u < sync[s].mailbox.uidNext => u \in sync[s].todo \/ Handled(u)
        /\ HistoryRecent(s)

HistoryRange(s) ==
    Active(s) /\ sync[s].mode # "unseen" =>
        HistoryOpened(s) /\ HistoryKnown(s) /\ HistoryFetched(s)

\* Only the worker looks for unseen messages, which are all since it connected, and
\* all before if the history was read.
HistoryUnseen(s) ==
    sync[s].mode = "unseen" =>
        /\ s = Worker /\ InOrder
        /\ sync[s].pc \in {"search", "last", "fetch", "flags", "update"}
        /\ sync[s].pc = "search" => sync[s].todo = {}
        /\ sync[s].pc \in {"search", "last"} => sync[s].done = {}
        /\ sync[s].pc \in {"flags", "update"} => sync[s].todo = {}
        /\ sync[s].pc \in {"fetch", "flags", "update"} =>
             sync[s].highestUid = sync[s].last \/ sync[s].highestUid \in sync[s].done
        /\ \A x \in sync[s].todo \union sync[s].done :
             /\ x < box.uidNext
             /\ x \in sync[s].done => Handled(x)
             /\ \A u \in Arrived : u <= x /\ (FullSync \/ u >= opened.uidNext) =>
                   u \in sync[s].todo \/ Handled(u)

PersonalInv ==
    /\ HistoryInv
    /\ \A s \in Syncer : HistoryRange(s) /\ HistoryUnseen(s)

LEMMA OneRuns ==
  ASSUME TypeInv, NEW s \in Syncer, NEW t \in Syncer, Running(s), Running(t)
  PROVE  s = t
BY DEF TypeInv, LockInv, Syncer, Running

\* What the step of another one does to those that go on.
LEMMA OthersInHistory ==
  ASSUME TypeInv, PersonalInv, NEW s \in Syncer, NEW t \in Syncer, s # t,
         sync' = [sync EXCEPT ![s] = sync'[s]],
         box'.uidNext = box.uidNext, opened' = opened, handled \subseteq handled',
         FullSync => FullSync', Known => Known',
         imapConfig.lastSyncedUid > 0 => imapConfig'.lastSyncedUid > 0,
         Running(t) /\ Unread => Unread',
         FullSync' /\ ~FullSync /\ sync[t].mode = "recent"
           /\ sync[t].pc \in {"fetch", "update"} =>
              \A u \in Arrived : u < sync[t].mailbox.uidNext => Handled(u),
         Active(t) /\ sync[t].mode = "recent" /\ Backfills(s)' =>
           \/ sync[t].mailbox.uidNext <= sync'[s].mailbox.uidNext
           \/ Backfills(s) /\ sync'[s].mailbox = sync[s].mailbox
  PROVE  HistoryRange(t)' /\ HistoryUnseen(t)'
<1>1. sync'[t] = sync[t] /\ \A u \in Syncer : u # s => sync'[u] = sync[u]
  BY DEF TypeInv, TypeOK
<1>2. Arrived' = Arrived /\ \A u : Handled(u) => Handled(u)'
  BY DEF Arrived, Handled
<1>3. HistoryRange(t) /\ HistoryUnseen(t)
  BY DEF PersonalInv
<1>4. HistoryRange(t)'
  <2> SUFFICES ASSUME Active(t), sync[t].mode # "unseen"
               PROVE  HistoryOpened(t)' /\ HistoryKnown(t)' /\ HistoryFetched(t)'
    BY <1>1 DEF HistoryRange, Active
  <2>1. HistoryOpened(t) /\ HistoryKnown(t) /\ HistoryFetched(t)
    BY <1>3 DEF HistoryRange
  <2>2. HistoryOpened(t)'
    BY <1>1, <2>1 DEF HistoryOpened
  <2>3. \A m, n : HandledBetween(m, n) => HandledBetween(m, n)'
    BY <1>2 DEF HandledBetween
  <2>4. sync[t].current => Running(t)
    BY DEF Active, Running
  <2>5. HistoryKnown(t)'
    BY <1>1, <2>1, <2>3, <2>4 DEF HistoryKnown
  <2>6. HistoryRecent(t)' \/ sync[t].pc \notin {"fetch", "update"}
    <3> SUFFICES ASSUME sync[t].mode = "recent", sync[t].pc \in {"fetch", "update"}
                 PROVE  HistoryRecent(t)'
      BY <1>1 DEF HistoryRecent
    <3>1. HistoryRecent(t)
      BY <2>1 DEF HistoryFetched
    <3>2. FullSync' => \A u \in Arrived : u < sync[t].mailbox.uidNext => Handled(u)'
      BY <1>2, <3>1 DEF HistoryRecent
    <3>3. ASSUME NEW u \in Syncer, Backfills(u)'
          PROVE  sync[t].mailbox.uidNext <= sync'[u].mailbox.uidNext
      <4>1. CASE u = s
        BY <3>1, <3>3, <4>1 DEF HistoryRecent
      <4>2. CASE u # s
        BY <1>1, <3>1, <3>3, <4>2 DEF HistoryRecent, Backfills
      <4>3. QED
        BY <4>1, <4>2
    <3>4. QED
      BY <1>1, <1>2, <3>2, <3>3 DEF HistoryRecent
  <2>7. HistoryFetched(t)'
    BY <1>1, <1>2, <2>1, <2>6 DEF HistoryFetched
  <2>8. QED
    BY <2>2, <2>5, <2>7
<1>5. HistoryUnseen(t)'
  <2> SUFFICES ASSUME sync[t].mode = "unseen" PROVE HistoryUnseen(t)'
    BY <1>1 DEF HistoryUnseen
  <2>1. t = Worker /\ InOrder /\ Running(t)
    BY <1>3 DEF HistoryUnseen, TypeInv, LockInv, Running
  <2>2. InOrder' /\ (FullSync' => FullSync)
    <3>1. CASE Unread
      BY <2>1, <3>1 DEF InOrder, Unread
    <3>2. CASE FullSync /\ Known
      BY <3>2 DEF InOrder
    <3>3. QED
      BY <2>1, <3>1, <3>2 DEF InOrder
  <2>3. QED
    BY <1>1, <1>2, <1>3, <2>2 DEF HistoryUnseen
<1>6. QED
  BY <1>4, <1>5

\* Where there is one validity only, nothing is ever rebuilt.
LEMMA OneValidity ==
  ASSUME TypeInv, MaxValidity = 1
  PROVE  /\ box.uidValidity = 1 /\ imapConfig.lastUidValidity \in {0, 1}
         /\ \A s \in Syncer : sync[s].mailbox.uidValidity = 1
  BY DEF TypeInv, TypeOK, Box, Opened, Validity, ImapConfig, SyncState

LEMMA HistoryWeakened ==
  ASSUME TypeInv, PersonalInv, Weaker
  PROVE  PersonalInv'
<1>1. /\ UNCHANGED <<box, imapConfig, opened, handled>>
      /\ worker'.up => worker.up
      /\ worker'.pc = "idle" => worker.pc = "idle"
  BY DEF Weaker
<1>2. Arrived' = Arrived /\ (Known' <=> Known) /\ (FullSync' <=> FullSync)
      /\ \A m, n : HandledBetween(m, n)' <=> HandledBetween(m, n)
  BY <1>1 DEF Arrived, Known, Handled, HandledBetween, FullSync
<1>3. \A s \in Syncer : Backfills(s)' => Backfills(s) /\ Continues(s)
  BY DEF Weaker, GivesUp, Continues, Backfills
<1>4. (Unread => Unread') /\ (InOrder => InOrder')
  BY <1>2, <1>3 DEF Unread, InOrder
<1>5. HistoryInv'
  BY <1>1, <1>2, <1>4 DEF PersonalInv, HistoryInv, Handled
<1>6. ASSUME NEW s \in Syncer PROVE HistoryRange(s)' /\ HistoryUnseen(s)'
  <2>1. HistoryRange(s) /\ HistoryUnseen(s)
    BY DEF PersonalInv
  <2>2. CASE GivesUp(s)
    BY <2>2 DEF GivesUp, HistoryRange, HistoryUnseen, Active
  <2>3. CASE Continues(s)
    <3>1. HistoryRange(s)'
      <4> SUFFICES ASSUME Active(s), sync[s].mode # "unseen"
                   PROVE  HistoryOpened(s)' /\ HistoryKnown(s)' /\ HistoryFetched(s)'
        BY <2>3 DEF HistoryRange, Active, Continues
      <4>1. HistoryOpened(s) /\ HistoryKnown(s) /\ HistoryFetched(s)
        BY <2>1 DEF HistoryRange
      <4>2. HistoryOpened(s)'
        BY <1>1, <2>3, <4>1 DEF HistoryOpened, Continues
      <4>3. HistoryKnown(s)'
        BY <1>1, <1>2, <1>4, <2>3, <4>1 DEF HistoryKnown, Continues
      <4>4. HistoryRecent(s) => HistoryRecent(s)'
        BY <1>1, <1>2, <1>3, <2>3 DEF HistoryRecent, Continues, Handled
      <4>5. HistoryFetched(s)'
        BY <1>1, <1>2, <2>3, <4>1, <4>4 DEF HistoryFetched, Continues, Handled
      <4>6. QED
        BY <4>2, <4>3, <4>5
    <3>2. HistoryUnseen(s)'
      BY <1>1, <1>2, <1>4, <2>1, <2>3 DEF HistoryUnseen, Continues, Handled
    <3>3. QED
      BY <3>1, <3>2
  <2>4. QED
    BY <2>2, <2>3 DEF Weaker
<1>7. QED
  BY <1>5, <1>6 DEF PersonalInv

LEMMA FailuresKeepHistory ==
  ASSUME TypeInv, PersonalInv,
         \/ LoseConnection \/ ConnectFails \/ Stop \/ StopAsleep \/ StartWorker
         \/ EndSession \/ Close \/ Restart
         \/ \E s \in Syncer : Throw(s)
         \/ \E t \in Trigger : TriggerSync(t)
  PROVE  PersonalInv'
<1>1. \A t \in Trigger : sync[t].mode # "unseen"
  BY BoundsAssumption DEF PersonalInv, HistoryUnseen, Syncer
<1>2. QED
  BY <1>1, FailuresWeaken, HistoryWeakened

\* The server: a new message is beyond all that is remembered.
LEMMA ArriveKeepsHistory ==
  ASSUME TypeInv, PersonalInv, Arrive PROVE PersonalInv'
<1> DEFINE new == box.uidNext
<1>1. /\ box'.uidNext = new + 1 /\ box'.unseen = box.unseen \union {new}
      /\ UNCHANGED <<imapConfig, opened, sync, handled>>
      /\ worker'.up = worker.up /\ worker'.pc = worker.pc
  BY Facts DEF Arrive, Box, WorkerState
<1>2. Arrived' = Arrived \union {new} /\ new \notin Arrived /\ Arrived \subseteq Nat
  BY <1>1, Facts DEF Arrived, PersonalInv, HistoryInv
<1>3. (Known => Known') /\ (Unread <=> Unread') /\ (InOrder => InOrder')
  BY <1>1, <1>2 DEF Known, Handled, Unread, InOrder, FullSync, Backfills
<1>4. \A m \in Nat, n \in Nat : n < new /\ HandledBetween(m, n) => HandledBetween(m, n)'
  BY <1>1, <1>2, Facts DEF HandledBetween, Handled
<1>5. HistoryInv'
  BY <1>1, <1>2, <1>3, <1>4, Facts DEF PersonalInv, HistoryInv, Handled, FullSync
<1>6. ASSUME NEW s \in Syncer PROVE HistoryRange(s)' /\ HistoryUnseen(s)'
  <2>1. HistoryRange(s) /\ HistoryUnseen(s) /\ opened.uidNext <= new
    BY DEF PersonalInv, HistoryInv
  <2>2. HistoryRange(s)'
    <3> SUFFICES ASSUME Active(s), sync[s].mode # "unseen"
                 PROVE  HistoryOpened(s)' /\ HistoryKnown(s)' /\ HistoryFetched(s)'
      BY <1>1 DEF HistoryRange, Active
    <3>1. HistoryOpened(s) /\ HistoryKnown(s) /\ HistoryFetched(s)
      BY <2>1 DEF HistoryRange
    <3>2. HistoryOpened(s)'
      BY <1>1, <3>1 DEF HistoryOpened
    <3>3. HistoryKnown(s)'
      <4>1. sync[s].mailbox.uidNext \in Nat /\ sync[s].highestUid \in Nat
            /\ sync[s].last \in Nat /\ new \in Nat /\ 1 \in Nat
        BY Facts
      <4>2. sync[s].highestUid < new => sync[s].highestUid < new + 1
        BY <4>1
      <4> HIDE DEF new
      <4>3. QED
        BY <1>1, <1>3, <1>4, <3>1, <4>1, <4>2 DEF HistoryKnown, FullSync, new
    <3>4. \A u \in Arrived' : u < sync[s].mailbox.uidNext => u \in Arrived
      BY <1>2, <2>1, <3>1, Facts DEF HistoryOpened
    <3>5. HistoryRecent(s) => HistoryRecent(s)'
      BY <1>1, <3>4 DEF HistoryRecent, Handled, FullSync, Backfills
    <3>6. HistoryFetched(s)'
      BY <1>1, <3>1, <3>4, <3>5 DEF HistoryFetched, Handled
    <3>7. QED
      BY <3>2, <3>3, <3>6
  <2>3. HistoryUnseen(s)'
    <3> SUFFICES ASSUME sync[s].mode = "unseen" PROVE HistoryUnseen(s)'
      BY <1>1 DEF HistoryUnseen
    <3>1. sync[s].todo \union sync[s].done \subseteq Nat
      BY Facts DEF Uid
    <3>2. QED
      BY <1>1, <1>2, <1>3, <2>1, <3>1, Facts DEF HistoryUnseen, Handled, FullSync
  <2>4. QED
    BY <2>2, <2>3
<1>7. QED
  BY <1>5, <1>6 DEF PersonalInv

LEMMA ReadElsewhereKeepsHistory ==
  ASSUME TypeInv, PersonalInv, ReadElsewhere PROVE PersonalInv'
<1>1. PICK x \in box.unseen : /\ box' = [box EXCEPT !.unseen = @ \ {x}]
                             /\ handled' = handled \union {x}
  BY DEF ReadElsewhere
<1>2. /\ box'.uidNext = box.uidNext /\ box'.unseen = box.unseen \ {x}
      /\ UNCHANGED <<imapConfig, worker, opened, sync>>
  BY <1>1, Facts DEF ReadElsewhere, Box
<1>3. Arrived' = Arrived /\ \A u : Handled(u) => Handled(u)'
  BY <1>1, <1>2 DEF Arrived, Handled
<1>4. /\ Known => Known'
      /\ \A m, n : HandledBetween(m, n) => HandledBetween(m, n)'
      /\ Unread <=> Unread'
  BY <1>1, <1>2, <1>3 DEF Known, Handled, HandledBetween, Unread, FullSync, Backfills
<1>5. InOrder => InOrder'
  BY <1>2, <1>4 DEF InOrder, FullSync
<1>6. HistoryInv'
  BY <1>1, <1>2, <1>3, <1>4, <1>5 DEF PersonalInv, HistoryInv, Handled, FullSync
<1>7. ASSUME NEW s \in Syncer PROVE HistoryRange(s)' /\ HistoryUnseen(s)'
  <2>1. HistoryRange(s) /\ HistoryUnseen(s)
    BY DEF PersonalInv
  <2>2. HistoryRange(s)'
    BY <1>2, <1>3, <1>4, <2>1
    DEF HistoryRange, HistoryOpened, HistoryKnown, HistoryFetched, HistoryRecent,
        Active, FullSync, Backfills
  <2>3. HistoryUnseen(s)'
    BY <1>2, <1>3, <1>5, <2>1 DEF HistoryUnseen, FullSync
  <2>4. QED
    BY <2>2, <2>3
<1>8. QED
  BY <1>6, <1>7 DEF PersonalInv

\* Steps of a synchronization of a range.
LEMMA ReadStateKeepsHistory ==
  ASSUME TypeInv, PersonalInv, NEW s \in Syncer, ReadState(s), Personal, MaxValidity = 1
  PROVE  PersonalInv'
<1> DEFINE uid == imapConfig.lastSyncedUid
<1>1. sync[s] \in SyncState /\ sync[s].pc = "state" /\ HistoryInv
      /\ HistoryRange(s) /\ HistoryUnseen(s)
      /\ UNCHANGED <<box, imapConfig, worker, opened, handled>>
  BY Facts DEF ReadState, PersonalInv
<1>2. imapConfig.lastUidValidity \in {0, sync[s].mailbox.uidValidity}
  BY OneValidity
<1>3. /\ sync' = [sync EXCEPT ![s] = sync'[s]]
      /\ sync'[s].pc = "search" /\ sync'[s].last = uid /\ sync'[s].rebuilt = FALSE
      /\ sync'[s].mode = (IF uid = 0 THEN "recent"
                          ELSE IF ~FullSync THEN "backfill" ELSE "incremental")
      /\ sync'[s].mailbox = sync[s].mailbox /\ sync'[s].current = sync[s].current
      /\ sync'[s].highestUid = uid
  BY <1>1, <1>2, Facts DEF ReadState, SyncState, FullSync
<1>4. Arrived' = Arrived /\ (Known' <=> Known) /\ (FullSync' <=> FullSync)
      /\ \A m, n : HandledBetween(m, n)' <=> HandledBetween(m, n)
  BY <1>1 DEF Arrived, Known, Handled, HandledBetween, FullSync
<1>5. \A t \in Syncer : t # s => sync'[t] = sync[t]
  BY <1>3, Facts
<1>6. (Unread => Unread') /\ ~Backfills(s)'
  BY <1>3, <1>4, <1>5 DEF Unread, Backfills
<1>7. HistoryInv'
  BY <1>1, <1>4, <1>6 DEF HistoryInv, InOrder, Handled
<1>8. HistoryOpened(s)
  BY <1>1 DEF HistoryRange, HistoryUnseen, Active
<1>9. HistoryOpened(s)'
  BY <1>1, <1>3, <1>8 DEF HistoryOpened
<1>10. HistoryKnown(s)'
  <2>1. ASSUME uid = 0 PROVE Unread
    <3>1. ~FullSync
      BY <1>1, <2>1, Facts DEF HistoryInv
    <3>2. \A t \in Syncer : Backfills(t) => uid > 0
      BY DEF PersonalInv, HistoryRange, HistoryKnown, Backfills, Active
    <3>3. QED
      BY <2>1, <3>1, <3>2 DEF Unread
  <2>2. /\ sync'[s].current => HandledBetween(sync'[s].mailbox.uidNext, uid)
        /\ FullSync => HandledBetween(1, uid)
        /\ uid < box.uidNext /\ (uid # 0 => uid > 0)
    BY <1>1, <1>3, <1>8, Facts DEF HistoryInv, HistoryOpened
  <2> HIDE DEF uid
  <2>3. QED
    BY <1>1, <1>3, <1>4, <1>6, <2>1, <2>2 DEF HistoryKnown, uid
<1>11. HistoryFetched(s)' /\ HistoryUnseen(s)'
  BY <1>3 DEF HistoryFetched, HistoryUnseen
<1>12. \A t \in Syncer : t # s => HistoryRange(t)' /\ HistoryUnseen(t)'
  BY <1>1, <1>3, <1>4, <1>6, OthersInHistory
<1>13. QED
  BY <1>7, <1>9, <1>10, <1>11, <1>12 DEF PersonalInv, HistoryRange

\* The row after the return says what was handled, and only one that has read the
\* history comes to say so.
LEMMA ReturnKeepsHistory ==
  ASSUME TypeInv, PersonalInv, NEW s \in Syncer, Active(s), Return(s),
         UNCHANGED <<box, opened, handled>>,
         imapConfig'.lastSyncedUid < box.uidNext,
         HandledBetween(opened.uidNext, imapConfig'.lastSyncedUid),
         FullSync' =>
            imapConfig'.lastSyncedUid > 0 /\ HandledBetween(1, imapConfig'.lastSyncedUid),
         imapConfig.lastSyncedUid > 0 => imapConfig'.lastSyncedUid > 0,
         FullSync => FullSync',
         FullSync' /\ ~FullSync =>
            /\ Backfills(s)
            /\ \A t \in Syncer :
                 t # s /\ sync[t].mode = "recent" /\ sync[t].pc \in {"fetch", "update"} =>
                   \A u \in Arrived : u < sync[t].mailbox.uidNext => Handled(u),
         s = Worker /\ worker.up =>
            \/ ~FullSync' /\ \A t \in Syncer : t # s => ~Backfills(t)
            \/ FullSync' /\ Known
  PROVE  PersonalInv'
<1>1. sync'[s] = Off /\ sync' = [sync EXCEPT ![s] = sync'[s]] /\ Off.pc = "off"
      /\ Off.mode = "incremental" /\ \A t \in Syncer : t # s => sync'[t] = sync[t]
  BY Facts DEF Return, Off
<1>2. worker'.up = worker.up /\ (worker'.pc = "idle" => worker.pc = "idle" \/ s = Worker)
  BY Facts DEF Return, WorkerState
<1>3. Arrived' = Arrived /\ (Known' <=> Known)
      /\ \A m, n : HandledBetween(m, n)' <=> HandledBetween(m, n)
  BY DEF Arrived, Known, Handled, HandledBetween
<1>4. ~Backfills(s)' /\ \A t \in Syncer : t # s => (Backfills(t)' <=> Backfills(t))
  BY <1>1 DEF Backfills
<1>5. Unread => Unread'
  BY <1>4 DEF Unread
<1>6. HistoryInv'
  <2>1. worker'.pc = "idle" /\ worker'.up => InOrder'
    <3>1. CASE s = Worker
      BY <1>2, <1>3, <1>4, <3>1 DEF InOrder, Unread
    <3>2. CASE s # Worker
      BY <1>2, <1>3, <1>5, <3>2 DEF PersonalInv, HistoryInv, InOrder
    <3>3. QED
      BY <3>1, <3>2
  <2>2. QED
    BY <1>3, <2>1 DEF PersonalInv, HistoryInv, Handled
<1>7. HistoryRange(s)' /\ HistoryUnseen(s)'
  BY <1>1 DEF HistoryRange, HistoryUnseen, Active
<1>8. \A t \in Syncer : t # s => HistoryRange(t)' /\ HistoryUnseen(t)'
  BY <1>1, <1>3, <1>4, <1>5, OthersInHistory
<1>9. QED
  BY <1>6, <1>7, <1>8 DEF PersonalInv

LEMMA SearchRangeKeepsHistory ==
  ASSUME TypeInv, PersonalInv, NEW s \in Syncer, SearchRange(s)
  PROVE  PersonalInv'
<1> DEFINE me == sync[s]
           range == UidRange(s)
<1>1. sync[s] \in SyncState /\ HistoryInv /\ HistoryRange(s) /\ Active(s)
      /\ me.pc = "search" /\ me.mode # "unseen"
      /\ UNCHANGED <<box, imapConfig, opened, handled>>
  BY Facts DEF PersonalInv, SearchRange, Active
<1>2. HistoryOpened(s) /\ HistoryKnown(s) /\ me.mode \in SyncMode
  BY <1>1 DEF HistoryRange, SyncState
<1>3. /\ \A u \in range : u \in Arrived /\ u < me.mailbox.uidNext
      /\ me.mode = "backfill" =>
           \A u \in Arrived : u < me.mailbox.uidNext => u \in range
      /\ me.mode = "incremental" =>
           \A u \in Arrived : u < me.mailbox.uidNext /\ me.last < u => u \in range
  BY <1>2, Facts DEF UidRange, HistoryOpened, Arrived
<1>4. Arrived' = Arrived /\ (Known' <=> Known) /\ (FullSync' <=> FullSync)
      /\ \A m, n : HandledBetween(m, n)' <=> HandledBetween(m, n)
  BY <1>1 DEF Arrived, Known, Handled, HandledBetween, FullSync
<1> HIDE DEF range
<1>5. \A u \in Arrived : u \in Nat /\ u > 0
  BY Facts DEF Arrived
<1>6. CASE /\ Connected(s) /\ range # {} /\ UNCHANGED worker
           /\ sync' = [sync EXCEPT ![s] = [@ EXCEPT !.pc = "fetch", !.todo = range]]
  <2>1. /\ sync' = [sync EXCEPT ![s] = sync'[s]]
        /\ sync'[s] = [me EXCEPT !.pc = "fetch", !.todo = range]
        /\ \A t \in Syncer : t # s => sync'[t] = sync[t]
    BY <1>6, Facts
  <2>2. /\ sync'[s].pc = "fetch" /\ sync'[s].todo = range /\ sync'[s].mode = me.mode
        /\ sync'[s].mailbox = me.mailbox /\ sync'[s].rebuilt = me.rebuilt
        /\ sync'[s].highestUid = me.highestUid /\ sync'[s].last = me.last
        /\ sync'[s].current = me.current
    BY <1>1, <2>1 DEF SyncState
  <2>3. me.current /\ Running(s)
    BY <1>1, <1>6 DEF Connected, Running, Active
  <2>4. \A t \in Syncer : t # s => ~Running(t)
    BY <2>3, OneRuns
  <2>5. HistoryOpened(s)'
    BY <1>1, <1>2, <2>2 DEF HistoryOpened
  <2>6. ASSUME me.mode = "recent" PROVE Unread /\ Unread'
    <3>1. Unread
      BY <1>1, <1>2, <2>3, <2>6 DEF HistoryKnown
    <3>2. ~Backfills(s)'
      BY <2>2, <2>6 DEF Backfills
    <3>3. QED
      BY <1>4, <2>1, <3>1, <3>2 DEF Unread, Backfills
  <2>7. HistoryKnown(s)'
    BY <1>1, <1>2, <1>4, <2>2, <2>3, <2>6 DEF HistoryKnown
  <2>8. HistoryFetched(s)'
    <3>1. me.mailbox.uidNext > 1
      BY <1>3, <1>5, <1>6, Facts
    <3>2. ASSUME me.mode # "recent", NEW u \in Arrived, u < me.mailbox.uidNext
          PROVE  u \in range \/ Handled(u)
      <4>1. CASE me.mode = "backfill"
        BY <1>3, <3>2, <4>1
      <4>2. CASE me.mode = "incremental"
        BY <1>1, <1>2, <1>3, <1>5, <3>2, <4>2, Facts DEF HistoryKnown, HandledBetween
      <4>3. QED
        BY <1>1, <1>2, <3>2, <4>1, <4>2 DEF SyncMode
    <3>3. HistoryRecent(s)'
      BY <2>2, <2>6 DEF HistoryRecent, Unread
    <3>4. QED
      BY <1>1, <1>3, <1>4, <1>6, <2>2, <3>1, <3>2, <3>3 DEF HistoryFetched, Handled
  <2>9. HistoryInv'
    <3>1. worker.pc # "idle"
      BY <2>3 DEF TypeInv, LockInv, Running, Syncer
    <3>2. QED
      BY <1>1, <1>4, <1>6, <3>1 DEF HistoryInv, Handled
  <2>10. \A t \in Syncer : t # s => HistoryRange(t)' /\ HistoryUnseen(t)'
    <3>1. ASSUME NEW t \in Syncer, t # s, Active(t), sync[t].mode = "recent"
          PROVE  sync[t].mailbox.uidNext <= sync'[s].mailbox.uidNext
      BY <1>2, <2>2, <2>3, <3>1 DEF PersonalInv, HistoryRange, HistoryOpened
    <3>2. QED
      BY <1>1, <1>4, <2>1, <2>4, <3>1, OthersInHistory
  <2>11. HistoryUnseen(s)'
    BY <1>1, <2>2 DEF HistoryUnseen
  <2>12. QED
    BY <2>5, <2>7, <2>8, <2>9, <2>10, <2>11 DEF PersonalInv, HistoryRange
<1>7. CASE Return(s) /\ (~Connected(s) \/ range = {})
  <2>1. ASSUME s = Worker, worker.up
        PROVE  \/ ~FullSync /\ \A t \in Syncer : t # s => ~Backfills(t)
               \/ FullSync /\ Known
    <3>1. me.current
      BY <1>1, <2>1 DEF TypeInv, LockInv, Active
    <3>2. range = {} /\ me.mailbox.uidNext = opened.uidNext
      BY <1>2, <1>7, <2>1, <3>1 DEF Connected, HistoryOpened
    <3>3. CASE me.mode = "recent"
      BY <1>1, <1>2, <3>1, <3>3 DEF HistoryKnown, Unread, FullSync
    <3>4. CASE me.mode # "recent"
      <4>1. ASSUME NEW u \in Arrived, u < opened.uidNext PROVE Handled(u)
        <5>1. me.mode = "incremental" /\ ~(me.last < u)
          BY <1>1, <1>2, <1>3, <3>2, <3>4, <4>1 DEF SyncMode, HistoryKnown
        <5>2. QED
          BY <1>1, <1>2, <1>5, <5>1, Facts DEF HistoryKnown, HandledBetween
      <4>2. Known
        BY <1>1, <1>5, <4>1, Facts DEF HistoryInv, Known
      <4>3. CASE me.mode = "incremental"
        BY <1>1, <1>2, <4>2, <4>3 DEF HistoryKnown
      <4>4. CASE me.mode = "backfill"
        <5>1. ~(opened.uidNext > 1)
          BY <1>1, <1>3, <3>2, <4>4, Facts DEF HistoryInv, Arrived
        <5>2. \A t \in Syncer : ~Backfills(t)
          BY <5>1, Facts
          DEF PersonalInv, HistoryRange, HistoryOpened, HistoryFetched, Backfills, Active
        <5>3. QED
          BY <4>2, <5>2
      <4>5. QED
        BY <1>1, <1>2, <3>4, <4>3, <4>4 DEF SyncMode
    <3>5. QED
      BY <3>3, <3>4
  <2>2. QED
    BY <1>1, <1>4, <1>7, <2>1, ReturnKeepsHistory DEF HistoryInv
<1>8. QED
  BY <1>6, <1>7 DEF SearchRange, range

LEMMA FetchKeepsHistory ==
  ASSUME TypeInv, PersonalInv, NEW s \in Syncer, Fetch(s)
  PROVE  PersonalInv'
<1> DEFINE me == sync[s]
<1>1. PICK uid \in me.todo :
        /\ handled' = handled \union {uid}
        /\ sync' = [sync EXCEPT ![s] =
             [me EXCEPT !.todo = me.todo \ {uid}, !.done = me.done \union {uid},
                        !.highestUid = IF uid > me.highestUid THEN uid ELSE me.highestUid]]
  BY DEF Fetch
<1>2. /\ sync[s] \in SyncState /\ HistoryInv /\ HistoryRange(s) /\ HistoryUnseen(s)
      /\ Active(s) /\ me.pc = "fetch" /\ UNCHANGED <<box, imapConfig, worker, opened>>
      /\ uid \in Nat /\ uid > 0
  BY Facts DEF PersonalInv, Fetch, Active, Uid
<1>3. /\ sync' = [sync EXCEPT ![s] = sync'[s]]
      /\ sync'[s].pc = "fetch" /\ sync'[s].mode = me.mode
      /\ sync'[s].mailbox = me.mailbox /\ sync'[s].rebuilt = me.rebuilt
      /\ sync'[s].last = me.last /\ sync'[s].current = me.current
      /\ sync'[s].todo = me.todo \ {uid} /\ sync'[s].done = me.done \union {uid}
      /\ sync'[s].highestUid = (IF uid > me.highestUid THEN uid ELSE me.highestUid)
      /\ \A t \in Syncer : t # s => sync'[t] = sync[t]
  BY <1>1, <1>2, Facts DEF SyncState
<1>4. Arrived' = Arrived /\ (Known => Known') /\ (FullSync' <=> FullSync)
      /\ \A u : Handled(u)' <=> Handled(u) \/ u = uid
  BY <1>1, <1>2 DEF Arrived, Known, Handled, FullSync
<1>5. \A m, n : HandledBetween(m, n) => HandledBetween(m, n)'
  BY <1>4 DEF HandledBetween
<1>6. \A t \in Syncer : (Backfills(t)' <=> Backfills(t)) /\ sync'[t].mailbox = sync[t].mailbox
  BY <1>2, <1>3 DEF Backfills
<1>7. (Unread <=> Unread') /\ (InOrder => InOrder')
  BY <1>4, <1>6 DEF Unread, InOrder
<1>8. HistoryInv'
  BY <1>2, <1>4, <1>5, <1>7 DEF HistoryInv
<1>9. HistoryRange(s)'
  <2> SUFFICES ASSUME me.mode # "unseen"
               PROVE  HistoryOpened(s)' /\ HistoryKnown(s)' /\ HistoryFetched(s)'
    BY <1>3 DEF HistoryRange
  <2>1. HistoryOpened(s) /\ HistoryKnown(s) /\ HistoryFetched(s)
    BY <1>2 DEF HistoryRange
  <2>2. HistoryOpened(s)'
    BY <1>2, <1>3, <2>1 DEF HistoryOpened
  <2>3. uid < me.mailbox.uidNext /\ uid < box.uidNext
    BY <1>2, <2>1, Facts DEF HistoryOpened, HistoryFetched, HistoryInv
  <2>4. HandledBetween(me.mailbox.uidNext, sync'[s].highestUid)
    BY <1>2, <1>3, <2>1, <2>3, Facts DEF HistoryKnown, HandledBetween, Arrived
  <2>5. sync'[s].highestUid < box.uidNext /\ sync'[s].highestUid > 0
    BY <1>2, <1>3, <2>1, <2>3, Facts DEF HistoryKnown
  <2>6. HistoryKnown(s)'
    BY <1>2, <1>3, <1>4, <1>5, <1>7, <2>1, <2>4, <2>5 DEF HistoryKnown
  <2>7. HistoryRecent(s)'
    BY <1>2, <1>3, <1>4, <1>6, <2>1 DEF HistoryRecent, HistoryFetched
  <2>8. HistoryFetched(s)'
    BY <1>2, <1>3, <1>4, <2>1, <2>5, <2>7 DEF HistoryFetched
  <2>9. QED
    BY <2>2, <2>6, <2>8
<1>10. HistoryUnseen(s)'
  BY <1>2, <1>3, <1>4, <1>7 DEF HistoryUnseen
<1>11. \A t \in Syncer : t # s => HistoryRange(t)' /\ HistoryUnseen(t)'
  BY <1>1, <1>2, <1>3, <1>4, <1>6, <1>7, OthersInHistory
<1>12. QED
  BY <1>8, <1>9, <1>10, <1>11 DEF PersonalInv

LEMMA EndFetchKeepsHistory ==
  ASSUME TypeInv, PersonalInv, NEW s \in Syncer, EndFetch(s)
  PROVE  PersonalInv'
<1> DEFINE me == sync[s]
<1>1. /\ sync[s] \in SyncState /\ HistoryInv /\ HistoryRange(s) /\ HistoryUnseen(s)
      /\ Active(s) /\ me.pc = "fetch" /\ me.todo = {}
      /\ UNCHANGED <<box, imapConfig, worker, opened, handled>>
  BY Facts DEF PersonalInv, EndFetch, Active
<1>2. /\ sync' = [sync EXCEPT ![s] = sync'[s]]
      /\ sync'[s].pc = (IF me.mode = "unseen" THEN "flags" ELSE "update")
      /\ sync'[s].mode = me.mode /\ sync'[s].current = me.current
      /\ sync'[s].mailbox = me.mailbox /\ sync'[s].rebuilt = me.rebuilt
      /\ sync'[s].last = me.last /\ sync'[s].todo = me.todo /\ sync'[s].done = me.done
      /\ sync'[s].highestUid = me.highestUid
      /\ \A t \in Syncer : t # s => sync'[t] = sync[t]
  BY <1>1, Facts DEF EndFetch, SyncState
<1>3. Arrived' = Arrived /\ (Known' <=> Known) /\ (FullSync' <=> FullSync)
      /\ (\A u : Handled(u)' <=> Handled(u))
      /\ \A m, n : HandledBetween(m, n)' <=> HandledBetween(m, n)
  BY <1>1 DEF Arrived, Known, Handled, HandledBetween, FullSync
<1>4. \A t \in Syncer : (Backfills(t)' <=> Backfills(t)) /\ sync'[t].mailbox = sync[t].mailbox
  BY <1>1, <1>2 DEF Backfills
<1>5. (Unread <=> Unread') /\ (InOrder => InOrder')
  BY <1>3, <1>4 DEF Unread, InOrder
<1>6. HistoryInv'
  BY <1>1, <1>3, <1>5 DEF HistoryInv
<1>7. HistoryRange(s)'
  <2> SUFFICES ASSUME me.mode # "unseen"
               PROVE  HistoryOpened(s)' /\ HistoryKnown(s)' /\ HistoryFetched(s)'
    BY <1>2 DEF HistoryRange
  <2>1. HistoryOpened(s) /\ HistoryKnown(s) /\ HistoryFetched(s)
    BY <1>1 DEF HistoryRange
  <2>2. HistoryOpened(s)'
    BY <1>1, <1>2, <2>1 DEF HistoryOpened
  <2>3. HistoryKnown(s)'
    BY <1>1, <1>2, <1>3, <1>5, <2>1 DEF HistoryKnown
  <2>4. HistoryRecent(s)'
    BY <1>1, <1>2, <1>3, <1>4, <2>1 DEF HistoryRecent, HistoryFetched
  <2>5. HistoryFetched(s)'
    BY <1>1, <1>2, <1>3, <2>1, <2>4 DEF HistoryFetched
  <2>6. QED
    BY <2>2, <2>3, <2>5
<1>8. HistoryUnseen(s)'
  BY <1>1, <1>2, <1>3, <1>5 DEF HistoryUnseen
<1>9. \A t \in Syncer : t # s => HistoryRange(t)' /\ HistoryUnseen(t)'
  BY <1>1, <1>2, <1>3, <1>4, <1>5, OthersInHistory
<1>10. QED
  BY <1>6, <1>7, <1>8, <1>9 DEF PersonalInv

LEMMA WriteStateKeepsHistory ==
  ASSUME TypeInv, PersonalInv, NEW s \in Syncer, WriteState(s)
  PROVE  PersonalInv'
<1> DEFINE me == sync[s]
<1>1. /\ sync[s] \in SyncState /\ HistoryInv /\ HistoryRange(s) /\ HistoryUnseen(s)
      /\ Active(s) /\ me.pc = "update" /\ Return(s) /\ UNCHANGED <<box, opened, handled>>
  BY Facts DEF PersonalInv, WriteState, Active
<1>2. \A u \in Arrived : u \in Nat /\ u > 0
  BY Facts DEF Arrived
<1>3. CASE me.mode = "unseen"
  <2>1. /\ s = Worker /\ InOrder /\ me.todo = {}
        /\ me.highestUid = me.last \/ me.highestUid \in me.done
    BY <1>1, <1>3 DEF HistoryUnseen
  <2>2. /\ imapConfig'.lastFullSync = imapConfig.lastFullSync
        /\ imapConfig'.lastSyncedUid = IF me.highestUid > me.last THEN me.highestUid
                                       ELSE imapConfig.lastSyncedUid
    BY <1>3, Facts DEF WriteState, ImapConfig
  <2>3. /\ imapConfig'.lastSyncedUid < box.uidNext
        /\ HandledBetween(opened.uidNext, imapConfig'.lastSyncedUid)
        /\ FullSync => HandledBetween(1, imapConfig'.lastSyncedUid)
        /\ FullSync \/ imapConfig.lastSyncedUid > 0 => imapConfig'.lastSyncedUid > 0
    <3>1. CASE me.highestUid > me.last
      <4>1. me.highestUid \in me.done /\ me.highestUid > 0
        BY <2>1, <3>1, Facts
      <4>2. me.highestUid < box.uidNext
            /\ \A u \in Arrived :
                 u <= me.highestUid /\ (FullSync \/ u >= opened.uidNext) => Handled(u)
        BY <1>1, <1>3, <2>1, <4>1 DEF HistoryUnseen
      <4>3. QED
        BY <1>2, <2>2, <3>1, <4>1, <4>2, Facts DEF HandledBetween
    <3>2. CASE ~(me.highestUid > me.last)
      BY <1>1, <2>2, <3>2 DEF HistoryInv
    <3>3. QED
      BY <3>1, <3>2
  <2>4. (~FullSync /\ \A t \in Syncer : ~Backfills(t)) \/ (FullSync /\ Known)
    BY <2>1 DEF InOrder, Unread
  <2>5. FullSync' <=> FullSync
    BY <2>2 DEF FullSync
  <2>6. QED
    BY <1>1, <2>3, <2>4, <2>5, ReturnKeepsHistory
<1>4. CASE me.mode # "unseen"
  <2>1. HistoryOpened(s) /\ HistoryKnown(s) /\ HistoryFetched(s) /\ HistoryRecent(s)
    BY <1>1, <1>4 DEF HistoryRange, HistoryFetched
  <2>2. me.todo = {} /\ me.highestUid > 0 /\ me.highestUid < box.uidNext
    BY <1>1, <2>1 DEF HistoryFetched, HistoryKnown
  <2>3. /\ imapConfig'.lastSyncedUid = me.highestUid
        /\ FullSync' <=> FullSync \/ me.mode # "recent"
    BY <1>4, <2>2 DEF WriteState, HistoryRead, FullSync
  <2>4. HandledBetween(me.mailbox.uidNext, me.highestUid)
        /\ HandledBetween(opened.uidNext, me.highestUid)
    BY <1>1, <1>2, <2>1, Facts DEF HistoryOpened, HistoryKnown, HandledBetween
  <2>5. FullSync' => \A u \in Arrived : u < me.mailbox.uidNext => Handled(u)
    BY <1>1, <2>1, <2>2, <2>3 DEF HistoryFetched, HistoryRecent
  <2>6. FullSync' => HandledBetween(1, me.highestUid)
    BY <1>2, <2>4, <2>5, Facts DEF HandledBetween
  <2>7. ASSUME FullSync', ~FullSync
        PROVE  /\ Backfills(s)
               /\ \A t \in Syncer :
                    t # s /\ sync[t].mode = "recent" /\ sync[t].pc \in {"fetch", "update"} =>
                      \A u \in Arrived : u < sync[t].mailbox.uidNext => Handled(u)
    <3>1. Backfills(s)
      BY <1>1, <1>4, <2>1, <2>3, <2>7
      DEF HistoryKnown, Backfills, SyncState, SyncMode
    <3>2. ASSUME NEW t \in Syncer, sync[t].mode = "recent",
                 sync[t].pc \in {"fetch", "update"}
          PROVE  sync[t].mailbox.uidNext <= me.mailbox.uidNext
      BY <3>1, <3>2 DEF PersonalInv, HistoryRange, HistoryFetched, HistoryRecent, Active
    <3>3. QED
      BY <1>2, <2>5, <2>7, <3>1, <3>2, Facts
  <2>8. ASSUME s = Worker, worker.up
        PROVE  \/ ~FullSync' /\ \A t \in Syncer : t # s => ~Backfills(t)
               \/ FullSync' /\ Known
    <3>1. me.current /\ me.mailbox.uidNext = opened.uidNext
      BY <1>1, <2>1, <2>8 DEF TypeInv, LockInv, Active, HistoryOpened
    <3>2. CASE me.mode = "recent"
      BY <1>1, <2>1, <2>3, <3>1, <3>2 DEF HistoryKnown, Unread
    <3>3. CASE me.mode # "recent"
      BY <1>1, <1>2, <2>3, <2>5, <3>1, <3>3, Facts DEF HistoryInv, Known
    <3>4. QED
      BY <3>2, <3>3
  <2>9. QED
    BY <1>1, <2>2, <2>3, <2>4, <2>6, <2>7, <2>8, ReturnKeepsHistory
<1>5. QED
  BY <1>3, <1>4

\* Steps of a search for unseen messages.
LEMMA SearchUnseenKeepsHistory ==
  ASSUME TypeInv, PersonalInv, NEW s \in Syncer, SearchUnseen(s)
  PROVE  PersonalInv'
<1> DEFINE me == sync[s]
           unseen == box.unseen
<1>1. /\ sync[s] \in SyncState /\ HistoryInv /\ HistoryUnseen(s)
      /\ Active(s) /\ me.pc = "search" /\ me.mode = "unseen"
      /\ UNCHANGED <<box, imapConfig, opened, handled>>
  BY Facts DEF PersonalInv, SearchUnseen, Active
<1>2. s = Worker /\ InOrder /\ me.done = {}
  BY <1>1 DEF HistoryUnseen
<1>3. Arrived' = Arrived /\ (Known' <=> Known) /\ (FullSync' <=> FullSync)
      /\ (\A u : Handled(u)' <=> Handled(u))
      /\ \A m, n : HandledBetween(m, n)' <=> HandledBetween(m, n)
  BY <1>1 DEF Arrived, Known, Handled, HandledBetween, FullSync
<1>4. CASE sync' = [sync EXCEPT ![s] = [@ EXCEPT !.pc = "last", !.todo = unseen]]
           /\ UNCHANGED worker
  <2> HIDE DEF unseen
  <2>1. /\ sync' = [sync EXCEPT ![s] = sync'[s]]
        /\ sync'[s].pc = "last" /\ sync'[s].mode = "unseen"
        /\ sync'[s].todo = unseen /\ sync'[s].done = {}
        /\ \A t \in Syncer : t # s => sync'[t] = sync[t]
    BY <1>1, <1>2, <1>4, Facts DEF SyncState
  <2>2. ~Backfills(s)' /\ (Unread => Unread') /\ (InOrder => InOrder')
    BY <1>3, <2>1 DEF Backfills, Unread, InOrder
  <2>3. HistoryInv'
    BY <1>1, <1>3, <1>4, <2>2 DEF HistoryInv
  <2>4. HistoryUnseen(s)'
    <3>1. \A x \in unseen : /\ x < box.uidNext
                            /\ \A u \in Arrived :
                                 u <= x /\ (FullSync \/ u >= opened.uidNext) =>
                                    u \in unseen \/ Handled(u)
      BY <1>1, <1>2, Facts DEF HistoryInv, InOrder, Unread, Known, Arrived, unseen
    <3>2. QED
      BY <1>1, <1>2, <1>3, <2>1, <2>2, <3>1 DEF HistoryUnseen
  <2>5. HistoryRange(s)'
    BY <2>1 DEF HistoryRange
  <2>6. \A t \in Syncer : t # s => HistoryRange(t)' /\ HistoryUnseen(t)'
    BY <1>1, <1>3, <2>1, <2>2, OthersInHistory
  <2>7. QED
    BY <2>3, <2>4, <2>5, <2>6 DEF PersonalInv
<1>5. CASE Return(s)
  <2>1. (~FullSync /\ \A t \in Syncer : ~Backfills(t)) \/ (FullSync /\ Known)
    BY <1>2 DEF InOrder, Unread
  <2>2. QED
    BY <1>1, <1>2, <1>3, <1>5, <2>1, ReturnKeepsHistory DEF HistoryInv
<1>6. QED
  BY <1>4, <1>5 DEF SearchUnseen

LEMMA ReadLastKeepsHistory ==
  ASSUME TypeInv, PersonalInv, NEW s \in Syncer, ReadLast(s)
  PROVE  PersonalInv'
<1> DEFINE me == sync[s]
<1>1. /\ sync[s] \in SyncState /\ HistoryInv /\ HistoryRange(s) /\ HistoryUnseen(s)
      /\ Active(s) /\ me.pc = "last"
      /\ UNCHANGED <<box, imapConfig, worker, opened, handled>>
  BY Facts DEF PersonalInv, ReadLast, Active
<1>2. me.mode = "unseen"
  BY <1>1 DEF HistoryRange, HistoryOpened
<1>3. /\ sync' = [sync EXCEPT ![s] = sync'[s]]
      /\ sync'[s].pc = "fetch" /\ sync'[s].mode = "unseen"
      /\ sync'[s].last = sync'[s].highestUid
      /\ sync'[s].todo = me.todo /\ sync'[s].done = me.done
      /\ \A t \in Syncer : t # s => sync'[t] = sync[t]
  BY <1>1, <1>2, Facts DEF ReadLast, SyncState
<1>4. Arrived' = Arrived /\ (Known' <=> Known) /\ (FullSync' <=> FullSync)
      /\ (\A u : Handled(u)' <=> Handled(u))
      /\ \A m, n : HandledBetween(m, n)' <=> HandledBetween(m, n)
  BY <1>1 DEF Arrived, Known, Handled, HandledBetween, FullSync
<1>5. ~Backfills(s)' /\ (Unread => Unread') /\ (InOrder => InOrder')
  BY <1>3, <1>4 DEF Backfills, Unread, InOrder
<1>6. HistoryInv'
  BY <1>1, <1>4, <1>5 DEF HistoryInv
<1>7. HistoryRange(s)' /\ HistoryUnseen(s)'
  BY <1>1, <1>2, <1>3, <1>4, <1>5 DEF HistoryRange, HistoryUnseen
<1>8. \A t \in Syncer : t # s => HistoryRange(t)' /\ HistoryUnseen(t)'
  BY <1>1, <1>3, <1>4, <1>5, OthersInHistory
<1>9. QED
  BY <1>6, <1>7, <1>8 DEF PersonalInv

LEMMA MarkSeenKeepsHistory ==
  ASSUME TypeInv, PersonalInv, NEW s \in Syncer, MarkSeen(s)
  PROVE  PersonalInv'
<1> DEFINE me == sync[s]
<1>1. /\ sync[s] \in SyncState /\ HistoryInv /\ HistoryRange(s) /\ HistoryUnseen(s)
      /\ Active(s) /\ me.pc = "flags" /\ UNCHANGED <<imapConfig, worker, opened, handled>>
  BY Facts DEF PersonalInv, MarkSeen, Active
<1>2. me.mode = "unseen"
  BY <1>1 DEF HistoryRange, HistoryOpened
<1>3. \A x \in me.done : Handled(x)
  BY <1>1, <1>2 DEF HistoryUnseen
<1>4. box'.uidNext = box.uidNext /\ box'.unseen = box.unseen \ me.done
  BY Facts DEF MarkSeen, Box
<1>5. /\ sync' = [sync EXCEPT ![s] = sync'[s]]
      /\ sync'[s].pc = "update" /\ sync'[s].mode = "unseen"
      /\ sync'[s].last = me.last /\ sync'[s].highestUid = me.highestUid
      /\ sync'[s].todo = me.todo /\ sync'[s].done = me.done
      /\ \A t \in Syncer : t # s => sync'[t] = sync[t]
  BY <1>1, <1>2, Facts DEF MarkSeen, SyncState
<1>6. Arrived' = Arrived /\ (FullSync' <=> FullSync) /\ (\A u : Handled(u)' <=> Handled(u))
      /\ \A m, n : HandledBetween(m, n)' <=> HandledBetween(m, n)
  BY <1>1, <1>4 DEF Arrived, Handled, HandledBetween, FullSync
<1>7. Known => Known'
  BY <1>3, <1>4, <1>6 DEF Known
<1>8. ~Backfills(s)' /\ (Unread => Unread') /\ (InOrder => InOrder')
  BY <1>5, <1>6, <1>7 DEF Backfills, Unread, InOrder
<1>9. HistoryInv'
  BY <1>1, <1>3, <1>4, <1>6, <1>8 DEF HistoryInv
<1>10. HistoryRange(s)' /\ HistoryUnseen(s)'
  BY <1>1, <1>2, <1>4, <1>5, <1>6, <1>8 DEF HistoryRange, HistoryUnseen
<1>11. \A t \in Syncer : t # s => HistoryRange(t)' /\ HistoryUnseen(t)'
  BY <1>1, <1>4, <1>5, <1>6, <1>7, <1>8, OthersInHistory
<1>12. QED
  BY <1>9, <1>10, <1>11 DEF PersonalInv

\* A synchronization begins.
LEMMA ConnectKeepsHistory ==
  ASSUME TypeInv, PersonalInv, Connect
  PROVE  PersonalInv'
<1> DEFINE mailbox == [uidValidity |-> box.uidValidity, uidNext |-> box.uidNext]
<1>1. /\ HistoryInv /\ worker.pc = "down" /\ worker'.pc = "sync"
      /\ opened' = mailbox /\ sync' = [sync EXCEPT ![Worker] = RangeSync(mailbox)]
      /\ UNCHANGED <<box, imapConfig, handled>> /\ Worker \in Syncer
  BY Facts DEF PersonalInv, Connect, WorkerState, Syncer
<1>2. opened'.uidNext = box.uidNext /\ mailbox.uidNext = box.uidNext
  BY <1>1
<1> HIDE DEF mailbox
<1>3. Arrived' = Arrived /\ (FullSync' <=> FullSync) /\ (\A u : Handled(u)' <=> Handled(u))
      /\ \A m, n : HandledBetween(m, n)' <=> HandledBetween(m, n)
  BY <1>1 DEF Arrived, Handled, HandledBetween, FullSync
<1>4. sync'[Worker] = RangeSync(mailbox) /\ \A t \in Syncer : t # Worker => sync'[t] = sync[t]
  BY <1>1, Facts
<1>5. /\ sync'[Worker].pc = "state" /\ sync'[Worker].mode = "incremental"
      /\ sync'[Worker].mailbox = mailbox /\ sync'[Worker].rebuilt = FALSE
  <2>1. /\ RangeSync(mailbox).pc = "state" /\ RangeSync(mailbox).mode = "incremental"
        /\ RangeSync(mailbox).mailbox = mailbox /\ RangeSync(mailbox).rebuilt = FALSE
    BY BeginsRange
  <2>2. QED
    BY <1>4, <2>1
<1>6. HistoryInv'
  <2>1. HandledBetween(box.uidNext, imapConfig.lastSyncedUid)
    BY <1>1, Facts DEF HistoryInv, HandledBetween, Arrived
  <2>2. \A u \in Arrived : ~(u >= box.uidNext)
    BY Facts DEF Arrived
  <2>3. box.uidNext <= box.uidNext
    BY Facts
  <2>4. QED
    BY <1>1, <1>2, <1>3, <2>1, <2>2, <2>3 DEF HistoryInv
<1>7. HistoryRange(Worker)' /\ HistoryUnseen(Worker)'
  <2>1. HistoryOpened(Worker)'
    BY <1>1, <1>2, <1>5, Facts DEF HistoryOpened
  <2>2. HistoryKnown(Worker)' /\ HistoryFetched(Worker)' /\ HistoryUnseen(Worker)'
    BY <1>5 DEF HistoryKnown, HistoryFetched, HistoryUnseen
  <2>3. QED
    BY <2>1, <2>2 DEF HistoryRange
<1>8. ASSUME NEW t \in Syncer, t # Worker PROVE HistoryRange(t)' /\ HistoryUnseen(t)'
  <2>1. HistoryRange(t) /\ HistoryUnseen(t) /\ sync'[t] = sync[t]
    BY <1>4, <1>8 DEF PersonalInv
  <2>2. HistoryRange(t)'
    <3> SUFFICES ASSUME Active(t), sync[t].mode # "unseen"
                 PROVE  HistoryOpened(t)' /\ HistoryKnown(t)' /\ HistoryFetched(t)'
      BY <2>1 DEF HistoryRange, Active
    <3>1. HistoryOpened(t) /\ HistoryKnown(t) /\ HistoryFetched(t)
      BY <2>1 DEF HistoryRange
    <3>2. ~sync[t].current
      BY <1>1, <1>8 DEF TypeInv, LockInv, Running, Active, Syncer
    <3>3. HistoryOpened(t)'
      BY <1>1, <1>2, <2>1, <3>1, <3>2, Facts DEF HistoryOpened, HistoryInv
    <3>4. HistoryKnown(t)'
      BY <1>1, <1>3, <2>1, <3>1, <3>2 DEF HistoryKnown
    <3>5. \A u \in Syncer : Backfills(u)' => Backfills(u) /\ sync'[u] = sync[u]
      BY <1>4, <1>5 DEF Backfills
    <3>6. HistoryRecent(t) => HistoryRecent(t)'
      BY <1>3, <2>1, <3>5 DEF HistoryRecent
    <3>7. HistoryFetched(t)'
      BY <1>3, <2>1, <3>1, <3>6 DEF HistoryFetched
    <3>8. QED
      BY <3>3, <3>4, <3>7
  <2>3. HistoryUnseen(t)'
    BY <1>8, <2>1 DEF HistoryUnseen
  <2>4. QED
    BY <2>2, <2>3
<1>9. QED
  BY <1>6, <1>7, <1>8 DEF PersonalInv

LEMMA SyncAfterIdleKeepsHistory ==
  ASSUME TypeInv, PersonalInv, SyncAfterIdle
  PROVE  PersonalInv'
<1>1. /\ HistoryInv /\ worker.pc = "idle" /\ worker.up /\ worker'.pc = "sync"
      /\ sync' = [sync EXCEPT ![Worker] = UnseenSync]
      /\ UNCHANGED <<box, imapConfig, opened, handled>> /\ Worker \in Syncer
  BY Facts DEF PersonalInv, SyncAfterIdle, WorkerState, Syncer
<1>2. Arrived' = Arrived /\ (Known' <=> Known) /\ (FullSync' <=> FullSync)
      /\ (\A u : Handled(u)' <=> Handled(u))
      /\ \A m, n : HandledBetween(m, n)' <=> HandledBetween(m, n)
  BY <1>1 DEF Arrived, Known, Handled, HandledBetween, FullSync
<1>3. /\ UnseenSync.pc = "search" /\ UnseenSync.mode = "unseen"
      /\ UnseenSync.todo = {} /\ UnseenSync.done = {}
  BY DEF UnseenSync, Off
<1>4. sync'[Worker] = UnseenSync /\ sync' = [sync EXCEPT ![Worker] = sync'[Worker]]
      /\ \A t \in Syncer : t # Worker => sync'[t] = sync[t]
  BY <1>1, Facts
<1>5. ~Backfills(Worker)' /\ (Unread => Unread') /\ (InOrder => InOrder')
  BY <1>2, <1>3, <1>4 DEF Backfills, Unread, InOrder
<1>6. HistoryInv'
  BY <1>1, <1>2 DEF HistoryInv
<1>7. HistoryRange(Worker)' /\ HistoryUnseen(Worker)'
  BY <1>1, <1>3, <1>4, <1>5 DEF HistoryRange, HistoryUnseen, HistoryInv
<1>8. \A t \in Syncer : t # Worker => HistoryRange(t)' /\ HistoryUnseen(t)'
  BY <1>1, <1>2, <1>4, <1>5, OthersInHistory
<1>9. QED
  BY <1>6, <1>7, <1>8 DEF PersonalInv

LEMMA GrantKeepsHistory ==
  ASSUME TypeInv, PersonalInv, NEW t \in Trigger, Grant(t)
  PROVE  PersonalInv'
<1>1. /\ HistoryInv /\ sync' = [sync EXCEPT ![t] = RangeSync(opened)]
      /\ UNCHANGED <<box, imapConfig, worker, opened, handled>> /\ t \in Syncer
  BY DEF PersonalInv, Grant, Syncer
<1>2. Arrived' = Arrived /\ (Known' <=> Known) /\ (FullSync' <=> FullSync)
      /\ (\A u : Handled(u)' <=> Handled(u))
      /\ \A m, n : HandledBetween(m, n)' <=> HandledBetween(m, n)
  BY <1>1 DEF Arrived, Known, Handled, HandledBetween, FullSync
<1>3. sync'[t] = RangeSync(opened) /\ sync' = [sync EXCEPT ![t] = sync'[t]]
      /\ \A u \in Syncer : u # t => sync'[u] = sync[u]
  BY <1>1, Facts
<1>4. /\ sync'[t].pc = "state" /\ sync'[t].mode = "incremental"
      /\ sync'[t].mailbox = opened /\ sync'[t].rebuilt = FALSE
  <2>1. /\ RangeSync(opened).pc = "state" /\ RangeSync(opened).mode = "incremental"
        /\ RangeSync(opened).mailbox = opened /\ RangeSync(opened).rebuilt = FALSE
    BY BeginsRange
  <2>2. QED
    BY <1>3, <2>1
<1>5. ~Backfills(t)' /\ (Unread => Unread') /\ (InOrder => InOrder')
  BY <1>2, <1>3, <1>4 DEF Backfills, Unread, InOrder
<1>6. HistoryInv'
  BY <1>1, <1>2, <1>5 DEF HistoryInv
<1>7. HistoryRange(t)' /\ HistoryUnseen(t)'
  BY <1>1, <1>4, Facts
  DEF HistoryRange, HistoryOpened, HistoryKnown, HistoryFetched, HistoryUnseen
<1>8. \A u \in Syncer : u # t => HistoryRange(u)' /\ HistoryUnseen(u)'
  BY <1>1, <1>2, <1>3, <1>5, OthersInHistory
<1>9. QED
  BY <1>6, <1>7, <1>8 DEF PersonalInv

LEMMA InitInHistory == Init => PersonalInv
<1> SUFFICES ASSUME Init PROVE PersonalInv
  OBVIOUS
<1>1. PICK n \in MinMessages + 1 .. MaxUid + 1 : \E unseen \in SUBSET (1 .. n - 1) :
        /\ box = [uidValidity |-> 1, uidNext |-> n, unseen |-> unseen]
        /\ opened = [uidValidity |-> 1, uidNext |-> n]
  BY DEF Init
<1>2. /\ box.uidNext = n /\ box.unseen \subseteq 1 .. n - 1
      /\ opened.uidNext = n /\ n \in Nat /\ n > 0
  BY <1>1, BoundsAssumption
<1>3. HistoryInv
  BY <1>2 DEF HistoryInv, HandledBetween, Arrived, Init, NewWorker, FullSync
<1>4. \A s \in Syncer : sync[s].pc = "off" /\ sync[s].mode = "incremental"
  BY DEF Init, Off
<1>5. QED
  BY <1>3, <1>4 DEF PersonalInv, HistoryRange, HistoryUnseen, Active

LEMMA StepKeepsHistory ==
  ASSUME Personal, MaxValidity = 1, TypeInv, PersonalInv, [Next]_vars
  PROVE  PersonalInv'
<1>1. CASE UNCHANGED vars
  <2>1. Weaker
    BY <1>1 DEF vars, Weaker, Continues
  <2>2. QED
    BY <2>1, HistoryWeakened
<1>2. ~Rebuild
  BY OneValidity DEF Rebuild
<1>3. ASSUME NEW s \in Syncer, ResetState(s) PROVE FALSE
  BY <1>3 DEF ResetState, PersonalInv, HistoryRange, HistoryUnseen, HistoryOpened, Active
<1>4. ASSUME NEW s \in Syncer, SyncStep(s) PROVE PersonalInv'
  BY <1>3, <1>4, ReadStateKeepsHistory, SearchRangeKeepsHistory, SearchUnseenKeepsHistory,
     ReadLastKeepsHistory, FetchKeepsHistory, EndFetchKeepsHistory, MarkSeenKeepsHistory,
     WriteStateKeepsHistory DEF SyncStep
<1>5. CASE Next
  BY <1>2, <1>4, <1>5, ArriveKeepsHistory, ReadElsewhereKeepsHistory, FailuresKeepHistory,
     ConnectKeepsHistory, SyncAfterIdleKeepsHistory, GrantKeepsHistory
  DEF Next, WorkerStep, Wake, IdleReturns
<1>6. QED
  BY <1>1, <1>5

LEMMA HistoryImplies == Personal /\ TypeInv /\ PersonalInv => NothingSkipped
<1> SUFFICES ASSUME Personal, TypeInv, PersonalInv, FullSync,
                    NEW u \in Arrived, u <= imapConfig.lastSyncedUid
             PROVE  Handled(u)
  BY DEF NothingSkipped, FullSync, Handled
<1>1. 1 <= u
  BY Facts DEF Arrived
<1>2. QED
  BY <1>1 DEF PersonalInv, HistoryInv, HandledBetween

\* In a personal account whose mailbox is not rebuilt, no message up to the remembered
\* uid is passed over once the history was read: not even when a synchronization of the
\* recent messages, or of the history, is left over from an earlier connection and
\* writes the row between the steps of the present one (sync.ts:595-642, 714-727).
THEOREM PersonalSkipsNothing ==
  ASSUME Personal, MaxValidity = 1
  PROVE  Spec => []NothingSkipped
<1>1. Init => TypeInv /\ PersonalInv
  BY InitTypes, InitInHistory
<1>2. (TypeInv /\ PersonalInv) /\ [Next]_vars => (TypeInv /\ PersonalInv)'
  BY StepKeepsTypes, StepKeepsHistory
<1>3. TypeInv /\ PersonalInv => NothingSkipped
  BY HistoryImplies
<1>4. QED
  BY <1>1, <1>2, <1>3, PTL DEF Spec
=============================================================================
