--------------------------- MODULE CacheStore_proofs ---------------------------
(***************************************************************************)
(* Proofs about ValueCache, for any readers, writers and processes: its    *)
(* type invariant, and that a reader of the process that makes the changes *)
(* sees a change that was answered before it began; and about RateWindow,  *)
(* for any window and limits: how much is allowed in a time as long as the *)
(* window.                                                                 *)
(***************************************************************************)
EXTENDS CacheStore, TLAPS

USE CacheAssumption, WindowAssumption

-----------------------------------------------------------------------------
(* Types. *)

LEMMA AgedType == ASSUME NEW e \in [value : Value, left : Nat \ {0}] \union {NoEntry}
                  PROVE  Aged(e) \in [value : Value, left : Nat \ {0}] \union {NoEntry}
  BY DEF Aged, NoEntry

LEMMA IdleReaderType ==
    ASSUME NEW b \in BOOLEAN PROVE IdleReader(b) \in ReaderState
  BY DEF IdleReader, ReaderState

LEMMA AnsweredType == ASSUME TypeOK, NEW r \in Reader, NEW found
                      PROVE  Answered(r, found) \in ReaderState
  <1>1. (found \in readers[r].outdated) \in BOOLEAN
    OBVIOUS
  <1> QED BY <1>1, IdleReaderType DEF Answered

LEMMA AtType == ASSUME NEW p \in Proc PROVE At(p) \in Proc
  BY DEF At

LEMMA PutType ==
    ASSUME TypeOK, NEW p \in Proc, NEW v \in Value, NEW ttl \in Ttl, Put(p, v, ttl)
    PROVE  store' \in [Proc -> [value : Value, left : Nat \ {0}] \union {NoEntry}]
  BY AtType DEF TypeOK, Put

\* A step that gives one reader a new state, and touches none of the rest.
LEMMA ReadingType ==
    ASSUME TypeOK, NEW r \in Reader, NEW me \in ReaderState, Reading(r, me),
           me.pc = "loaded" => me.value # NoValue,
           store' \in [Proc -> [value : Value, left : Nat \ {0}] \union {NoEntry}],
           inFlight' \in [Proc -> Reader \union {NoReader}]
    PROVE  TypeOK'
  <1>1. readers' \in [Reader -> ReaderState]
    BY DEF TypeOK, Reading
  <1>2. \A q \in Reader : readers'[q].pc = "loaded" => readers'[q].value # NoValue
    BY DEF TypeOK, Reading
  <1> QED BY <1>1, <1>2 DEF TypeOK, Reading

LEMMA SettledType ==
    ASSUME TypeOK, NEW r \in Reader, NEW found, Settled(r, found)
    PROVE  TypeOK'
  <1>1. readers' \in [Reader -> ReaderState]
    BY AnsweredType DEF TypeOK, Settled
  <1>2. \A q \in Reader : readers'[q].pc = "loaded" => readers'[q].value # NoValue
    BY DEF TypeOK, Settled, Answered, IdleReader
  <1>3. inFlight' \in [Proc -> Reader \union {NoReader}]
    BY DEF TypeOK, Settled
  <1> QED BY <1>1, <1>2, <1>3 DEF TypeOK, Settled

\* A step that moves one writer.
LEMMA WritingType ==
    ASSUME TypeOK, NEW w \in Writer, NEW pc \in {"updating", "put", "done", "failed"},
           Writing(w, pc)
    PROVE  /\ writers' \in [Writer -> WriterState]
           /\ \A v \in Writer : writers'[v].pc = "committed" => writers'[v].carried # NoValue
           /\ mode' = mode /\ kind' = kind /\ readers' = readers
  <1>1. [pc |-> pc, carried |-> NoValue] \in WriterState
    BY DEF WriterState
  <1> QED BY <1>1 DEF TypeOK, Writing

LEMMA NextVersionType ==
    ASSUME TypeOK, NextVersion PROVE version' \in [Proc -> Nat]
  BY DEF TypeOK, NextVersion

LEMMA InitTypes == Init => TypeOK
<1> SUFFICES ASSUME Init PROVE TypeOK
  OBVIOUS
<1>1. readers \in [Reader -> ReaderState]
  BY IdleReaderType DEF Init
<1>2. writers \in [Writer -> WriterState]
  BY DEF Init, WriterState, Value
<1>3. db \in Value /\ written \subseteq Value
  BY DEF Init, Value
<1>4. \A r \in Reader : readers[r].pc = "idle"
  BY DEF Init, IdleReader
<1> QED BY <1>1, <1>2, <1>3, <1>4 DEF Init, TypeOK

LEMMA NextTypes == TypeOK /\ [Next]_vars => TypeOK'
<1> SUFFICES ASSUME TypeOK, [Next]_vars PROVE TypeOK'
  OBVIOUS
<1>0. CASE UNCHANGED vars
  BY <1>0 DEF TypeOK, vars
<1>1. CASE Tick
  BY <1>1, AgedType DEF Tick, TypeOK
<1>2. ASSUME NEW p \in Proc, Evict(p) PROVE TypeOK'
  BY <1>2, AtType DEF Evict, Delete, TypeOK
<1>3. ASSUME NEW r \in Reader, Begin(r) PROVE TypeOK'
  <2>1. [IdleReader(FALSE) EXCEPT !.pc = "getting", !.outdated = outdated] \in ReaderState
    BY DEF IdleReader, ReaderState, TypeOK
  <2>2. [IdleReader(FALSE) EXCEPT !.pc = "getting", !.outdated = outdated].pc # "loaded"
    BY DEF IdleReader
  <2> QED BY <1>3, <2>1, <2>2, ReadingType DEF Begin, TypeOK
<1>4. ASSUME NEW r \in Reader, Get(r) PROVE TypeOK'
  <2> DEFINE missed == [readers[r] EXCEPT !.pc = "missed"]
             hit == Answered(r, Got(ProcOf[r]).value)
  <2>0. readers[r] \in ReaderState
    BY DEF TypeOK
  <2>1. missed \in ReaderState /\ missed.pc # "loaded"
    BY <2>0 DEF ReaderState, TypeOK
  <2>2. hit \in ReaderState /\ hit.pc # "loaded"
    BY AnsweredType DEF Answered, IdleReader
  <2>3. Reading(r, missed) \/ Reading(r, hit)
    BY <1>4 DEF Get
  <2>4. store' = store /\ inFlight' = inFlight
    BY <1>4 DEF Get
  <2> HIDE DEF missed, hit
  <2> QED BY <2>1, <2>2, <2>3, <2>4, ReadingType DEF TypeOK
<1>5. ASSUME NEW r \in Reader, Join(r) PROVE TypeOK'
  <2> DEFINE me == [readers[r] EXCEPT !.pc = "waiting",
                                      !.owner = inFlight[ProcOf[r]]]
  <2>0. readers[r] \in ReaderState
    BY DEF TypeOK
  <2>1. me \in ReaderState /\ me.pc # "loaded"
    BY <2>0 DEF ReaderState, TypeOK
  <2>2. Reading(r, me) /\ store' = store /\ inFlight' = inFlight
    BY <1>5 DEF Join
  <2> HIDE DEF me
  <2> QED BY <2>1, <2>2, ReadingType DEF TypeOK
<1>6. ASSUME NEW r \in Reader, StartLoad(r) PROVE TypeOK'
  <2> DEFINE me == [readers[r] EXCEPT !.pc = "loading",
                                      !.version = version[ProcOf[r]]]
  <2>0. readers[r] \in ReaderState
    BY DEF TypeOK
  <2>1. me \in ReaderState /\ me.pc # "loaded"
    BY <2>0 DEF ReaderState, TypeOK
  <2>2. Reading(r, me) /\ store' = store
    BY <1>6 DEF StartLoad
  <2>3. inFlight' \in [Proc -> Reader \union {NoReader}]
    BY <1>6 DEF StartLoad, TypeOK
  <2> HIDE DEF me
  <2> QED BY <2>1, <2>2, <2>3, ReadingType DEF TypeOK
<1>7. ASSUME NEW r \in Reader, Load(r) PROVE TypeOK'
  <2> DEFINE me == [readers[r] EXCEPT !.pc = "loaded", !.value = db]
  <2>0. readers[r] \in ReaderState
    BY DEF TypeOK
  <2>1. me \in ReaderState /\ me.value # NoValue
    BY <2>0 DEF ReaderState, TypeOK
  <2>2. Reading(r, me) /\ store' = store /\ inFlight' = inFlight
    BY <1>7 DEF Load
  <2> HIDE DEF me
  <2> QED BY <2>1, <2>2, ReadingType DEF TypeOK
<1>8. ASSUME NEW r \in Reader, Keep(r) PROVE TypeOK'
  <2> DEFINE me == [readers[r] EXCEPT !.pc = "stored", !.version = 0]
  <2>0. readers[r] \in ReaderState
    BY DEF TypeOK
  <2>1. me \in ReaderState /\ me.pc # "loaded"
    BY <2>0 DEF ReaderState, TypeOK
  <2>2. readers[r].value \in Value
    BY <1>8 DEF Keep, Reads, TypeOK, ReaderState
  <2>3. store' \in [Proc -> [value : Value, left : Nat \ {0}] \union {NoEntry}]
    BY <1>8, <2>2, PutType DEF Keep, TypeOK
  <2>4. Reading(r, me) /\ inFlight' = inFlight
    BY <1>8 DEF Keep
  <2> HIDE DEF me
  <2> QED BY <2>1, <2>3, <2>4, ReadingType DEF TypeOK
<1>9. ASSUME NEW r \in Reader, Settle(r) \/ Reject(r) PROVE TypeOK'
  BY <1>9, SettledType DEF Settle, Reject
<1>10. ASSUME NEW w \in Writer, BeginChange(w) PROVE TypeOK'
  BY <1>10, WritingType DEF BeginChange, TypeOK
<1>11. ASSUME NEW w \in Writer, NEW changes \in BOOLEAN, Commit(w, changes)
       PROVE TypeOK'
  <2>1. db' \in Value /\ db' # NoValue
    BY <1>11 DEF Commit, TypeOK, Value
  <2>2. [pc |-> "committed", carried |-> db'] \in WriterState
    BY <2>1 DEF WriterState
  <2>3. /\ writers' \in [Writer -> WriterState]
        /\ \A v \in Writer : writers'[v].pc = "committed" => writers'[v].carried # NoValue
    BY <1>11, <2>1, <2>2 DEF Commit, TypeOK
  <2> QED BY <1>11, <2>1, <2>3 DEF Commit, TypeOK
<1>12. ASSUME NEW w \in Writer, PutChange(w) PROVE TypeOK'
  <2>1. writers[w].carried \in Value
    BY <1>12 DEF PutChange, Writes, TypeOK, WriterState
  <2>2. store' \in [Proc -> [value : Value, left : Nat \ {0}] \union {NoEntry}]
    BY <1>12, <2>1, PutType, AtType DEF PutChange, Delete, TypeOK
  <2> QED BY <1>12, <2>2, WritingType, NextVersionType DEF PutChange, TypeOK
<1>13. ASSUME NEW w \in Writer, EndChange(w) PROVE TypeOK'
  <2>1. inFlight' \in [Proc -> Reader \union {NoReader}]
    BY <1>13 DEF EndChange, DropInFlight, TypeOK
  <2>2. outdated' \subseteq Value
    BY <1>13 DEF EndChange, TypeOK
  <2> QED BY <1>13, <2>1, <2>2, WritingType DEF EndChange, TypeOK
<1>14. ASSUME NEW w \in Writer, FailChange(w) PROVE TypeOK'
  <2>1. version' \in [Proc -> Nat]
    BY <1>14, NextVersionType DEF FailChange, TypeOK
  <2> QED BY <1>14, <2>1, WritingType DEF FailChange, TypeOK
<1> QED BY <1>0, <1>1, <1>2, <1>3, <1>4, <1>5, <1>6, <1>7, <1>8, <1>9, <1>10,
           <1>11, <1>12, <1>13, <1>14 DEF Next, Read, Change

(* Every step of a reader, a writer, the clock and the eviction keeps the  *)
(* types of the cache: an entry is whole, and what is stored was loaded.   *)
THEOREM TypeCorrect == Spec => []TypeOK
<1> QED BY InitTypes, NextTypes, PTL DEF Spec

-----------------------------------------------------------------------------
(* Where nothing is counted as outdated, nobody is misled. *)

LEMMA GuardedFixed == [Next]_vars => (Guarded' <=> Guarded)
  BY DEF Next, vars, Guarded, Tick, Evict, Begin, Read, Get, Join, StartLoad, Load,
         Keep, Settle, Reject, Settled, Reading, BeginChange, Change, Commit,
         PutChange, EndChange, FailChange, Writing

LEMMA AnsweredFields ==
    ASSUME NEW r, NEW found
    PROVE  /\ Answered(r, found).pc = "idle"
           /\ Answered(r, found).version = 0
           /\ Answered(r, found).outdated = {}
           /\ Answered(r, found).misled => found \in readers[r].outdated
  BY DEF Answered, IdleReader

\* What a step does to the history of any one reader.
LEMMA Histories ==
    ASSUME TypeOK, [Next]_vars, NEW q \in Reader
    PROVE  \/ readers'[q].outdated = readers[q].outdated /\ (readers'[q].misled => readers[q].misled)
           \/ readers'[q].outdated = outdated /\ ~readers'[q].misled
           \/ readers'[q].outdated = {}
              /\ (readers[q].outdated = {} => ~readers'[q].misled)
  <1> DEFINE Goal ==
        \/ readers'[q].outdated = readers[q].outdated /\ (readers'[q].misled => readers[q].misled)
        \/ readers'[q].outdated = outdated /\ ~readers'[q].misled
        \/ readers'[q].outdated = {} /\ (readers[q].outdated = {} => ~readers'[q].misled)
  <1>1. CASE readers' = readers
    BY <1>1
  <1>2. ASSUME NEW r \in Reader, Begin(r) PROVE Goal
    BY <1>2 DEF Begin, Reading, IdleReader, TypeOK
  <1>3. ASSUME NEW r \in Reader, Get(r) PROVE Goal
    BY <1>3, AnsweredFields DEF Get, Reading, TypeOK, ReaderState
  <1>4. ASSUME NEW r \in Reader, Join(r) \/ StartLoad(r) \/ Load(r) \/ Keep(r)
        PROVE  Goal
    <2>1. readers[r] \in ReaderState /\ readers \in [Reader -> ReaderState]
      BY DEF TypeOK
    <2>2. CASE Join(r)
      BY <2>1, <2>2 DEF Join, Reading, ReaderState
    <2>3. CASE StartLoad(r)
      BY <2>1, <2>3 DEF StartLoad, Reading, ReaderState
    <2>4. CASE Load(r)
      BY <2>1, <2>4 DEF Load, Reading, ReaderState
    <2>5. CASE Keep(r)
      BY <2>1, <2>5 DEF Keep, Reading, ReaderState
    <2> QED BY <1>4, <2>2, <2>3, <2>4, <2>5
  <1>5. ASSUME NEW r \in Reader, Settle(r) \/ Reject(r) PROVE Goal
    BY <1>5, AnsweredFields DEF Settle, Reject, Settled, TypeOK
  <1>6. ASSUME NEW w \in Writer, BeginChange(w) \/ Change(w) \/ FailChange(w)
        PROVE  readers' = readers
    BY <1>6 DEF BeginChange, Change, Commit, PutChange, EndChange, FailChange, Writing
  <1> QED BY <1>1, <1>2, <1>3, <1>4, <1>5, <1>6 DEF Next, Read, Tick, Evict, vars

LEMMA UnguardedStep ==
    TypeOK /\ ~Guarded /\ UnguardedInv /\ [Next]_vars => UnguardedInv'
  <1> SUFFICES ASSUME TypeOK, ~Guarded, UnguardedInv, [Next]_vars PROVE UnguardedInv'
    OBVIOUS
  <1>1. outdated' = {}
    BY DEF Next, vars, UnguardedInv, Tick, Evict, Begin, Read, Get, Join, StartLoad,
           Load, Keep, Settle, Reject, Settled, Reading, BeginChange, Change, Commit,
           PutChange, EndChange, FailChange
  <1>2. ASSUME NEW q \in Reader
        PROVE  readers'[q].outdated = {} /\ ~readers'[q].misled
    BY Histories DEF UnguardedInv
  <1> QED BY <1>1, <1>2 DEF UnguardedInv

-----------------------------------------------------------------------------
(* Where versions guard the cache: GuardedInv is inductive, action by      *)
(* action.                                                                 *)

\* Everything but the readers and the stores is as it was.
Still == UNCHANGED <<mode, kind, db, written, version, writers, lone, outdated>>

LEMMA HistoryStill == ASSUME History, Still PROVE History'
  BY DEF History, Still, Writes

\* The readers of the web server, and what they look into, are as they were.
LEMMA OtherStep ==
    ASSUME TypeOK, Guarded, GuardedInv, Still,
           readers' \in [Reader -> ReaderState],
           \A q \in Reader : ProcOf[q] = Home => readers'[q] = readers[q],
           inFlight'[Home] = inFlight[Home],
           \/ store'[Home] = NoEntry
           \/ store[Home] # NoEntry /\ store'[Home].value = store[Home].value
    PROVE  GuardedInv'
  <1>1. History'
    BY HistoryStill DEF GuardedInv
  <1>2. \A q \in Reader : ProcOf[q] = Home => (MayKeep(q)' <=> MayKeep(q))
    BY DEF MayKeep, Still
  <1>3. NothingToFind'
    BY <1>2 DEF GuardedInv, NothingToFind, Still, Reads, TypeOK
  <1>4. LoneChange'
    BY <1>2 DEF GuardedInv, LoneChange, Still, Reads, Writes, Active, TypeOK
  <1>5. ASSUME NEW q \in Reader, ProcOf[q] = Home PROVE Fresh(q)'
    BY <1>5 DEF GuardedInv, Fresh, Still
  <1> QED BY <1>1, <1>3, <1>4, <1>5 DEF GuardedInv

LEMMA TickStep ==
    ASSUME TypeOK, Guarded, GuardedInv, Tick PROVE GuardedInv'
  <1>1. \/ store'[Home] = NoEntry
        \/ store[Home] # NoEntry /\ store'[Home].value = store[Home].value
    BY DEF Tick, Aged, NoEntry, TypeOK
  <1>2. Still /\ readers' = readers /\ inFlight' = inFlight
    BY DEF Tick, Still
  <1> QED BY <1>1, <1>2, OtherStep DEF TypeOK

LEMMA EvictStep ==
    ASSUME TypeOK, Guarded, GuardedInv, NEW p \in Proc, Evict(p) PROVE GuardedInv'
  <1>1. \/ store'[Home] = NoEntry
        \/ store[Home] # NoEntry /\ store'[Home].value = store[Home].value
    BY DEF Evict, Delete, At, Guarded, TypeOK
  <1>2. Still /\ readers' = readers /\ inFlight' = inFlight
    BY DEF Evict, Still
  <1> QED BY <1>1, <1>2, OtherStep DEF TypeOK

\* A step of a reader elsewhere.
LEMMA ElsewhereStep ==
    ASSUME TypeOK, TypeOK', Guarded, GuardedInv, NEW r \in Reader, ProcOf[r] # Home,
           Begin(r) \/ Read(r) \/ Reject(r)
    PROVE  GuardedInv'
  <1>1. ProcOf[r] \in Proc /\ readers' \in [Reader -> ReaderState]
    BY DEF TypeOK
  <1>2. CASE Begin(r) \/ Get(r) \/ Join(r) \/ Load(r)
    <2>1. \A q \in Reader : ProcOf[q] = Home => readers'[q] = readers[q]
      BY <1>2 DEF Begin, Get, Join, Load, Reading, TypeOK
    <2>2. Still /\ store' = store /\ inFlight' = inFlight
      BY <1>2 DEF Begin, Get, Join, Load, Reading, Still
    <2> QED BY <1>1, <2>1, <2>2, OtherStep
  <1>3. CASE StartLoad(r)
    <2>1. \A q \in Reader : ProcOf[q] = Home => readers'[q] = readers[q]
      BY <1>3 DEF StartLoad, Reading, TypeOK
    <2>2. Still /\ store' = store
      BY <1>3 DEF StartLoad, Reading, Still
    <2>3. inFlight'[Home] = inFlight[Home]
      BY <1>1, <1>3 DEF StartLoad, TypeOK
    <2> QED BY <1>1, <2>1, <2>2, <2>3, OtherStep
  <1>4. CASE Keep(r)
    <2>1. \A q \in Reader : ProcOf[q] = Home => readers'[q] = readers[q]
      BY <1>4 DEF Keep, Reading, TypeOK
    <2>2. Still /\ inFlight' = inFlight
      BY <1>4 DEF Keep, Reading, Still
    <2>3. store'[Home] = store[Home]
      BY <1>1, <1>4 DEF Keep, Put, At, Guarded, TypeOK
    <2> QED BY <1>1, <2>1, <2>2, <2>3, OtherStep
  <1>5. CASE Settle(r) \/ Reject(r)
    <2>1. PICK found : Settled(r, found)
      BY <1>5 DEF Settle, Reject
    <2>2. \A q \in Reader : ProcOf[q] = Home => readers'[q] = readers[q]
      BY <2>1 DEF Settled, GuardedInv, Fresh, Reads, TypeOK
    <2>3. Still /\ store' = store
      BY <2>1 DEF Settled, Still
    <2>4. inFlight'[Home] = inFlight[Home]
      BY <1>1, <2>1 DEF Settled, TypeOK
    <2> QED BY <1>1, <2>2, <2>3, <2>4, OtherStep
  <1> QED BY <1>2, <1>3, <1>4, <1>5 DEF Read

\* A step of a reader that neither was in a load nor is.
LEMMA QuietStep ==
    ASSUME TypeOK, Guarded, GuardedInv, Still, NEW r \in Reader, ProcOf[r] = Home,
           \A q \in Reader : q # r => readers'[q] = readers[q],
           readers[r].pc \notin {"loading", "loaded", "stored"},
           readers'[r].pc \notin {"loading", "loaded", "stored"},
           store' = store, inFlight' = inFlight, Fresh(r)'
    PROVE  GuardedInv'
  <1>1. History'
    BY HistoryStill DEF GuardedInv
  <1>2. \A q \in Reader : Reads(q, "loaded")' =>
           q # r /\ Reads(q, "loaded") /\ readers'[q] = readers[q]
    BY DEF Reads
  <1>3. \A q \in Reader : q # r => (MayKeep(q)' <=> MayKeep(q))
    BY DEF MayKeep, Still
  <1>4. inFlight[Home] # r
    BY DEF GuardedInv, NothingToFind
  <1>5. NothingToFind'
    BY <1>2, <1>3, <1>4 DEF GuardedInv, NothingToFind, Still, TypeOK
  <1>6. LoneChange'
    BY <1>2, <1>3 DEF GuardedInv, LoneChange, Still, Writes, Active, TypeOK
  <1>7. ASSUME NEW q \in Reader, ProcOf[q] = Home, q # r PROVE Fresh(q)'
    <2>1. Fresh(q) /\ readers'[q] = readers[q]
      BY <1>7 DEF GuardedInv
    <2>2. readers[q].pc = "waiting" => readers[q].owner # r
      BY <2>1 DEF Fresh
    <2> QED BY <2>1, <2>2 DEF Fresh, Still
  <1> QED BY <1>1, <1>5, <1>6, <1>7 DEF GuardedInv

LEMMA BeginStep ==
    ASSUME TypeOK, Guarded, GuardedInv, NEW r \in Reader, ProcOf[r] = Home, Begin(r)
    PROVE  GuardedInv'
  <1>1. readers[r].pc = "idle" /\ Still /\ store' = store /\ inFlight' = inFlight
    BY DEF Begin, Reads, Reading, Still
  <1>2. \A q \in Reader : q # r => readers'[q] = readers[q]
    BY DEF Begin, Reading, TypeOK
  <1>3. /\ readers'[r].pc = "getting" /\ readers'[r].version = 0
        /\ readers'[r].outdated = outdated /\ ~readers'[r].misled
    BY DEF Begin, Reading, IdleReader, TypeOK
  <1>4. Fresh(r)'
    BY <1>1, <1>3 DEF Fresh, Still, TypeOK
  <1> QED BY <1>1, <1>2, <1>3, <1>4, QuietStep

LEMMA GetStep ==
    ASSUME TypeOK, Guarded, GuardedInv, NEW r \in Reader, ProcOf[r] = Home, Get(r)
    PROVE  GuardedInv'
  <1>0. readers[r] \in ReaderState /\ Fresh(r)
    BY DEF TypeOK, GuardedInv
  <1>1. readers[r].pc = "getting" /\ Still /\ store' = store /\ inFlight' = inFlight
    BY DEF Get, Reads, Reading, Still
  <1>2. \A q \in Reader : q # r => readers'[q] = readers[q]
    BY DEF Get, Reading, TypeOK
  <1>3. CASE store[Home] = NoEntry
    <2>1. readers'[r] = [readers[r] EXCEPT !.pc = "missed"]
      BY <1>3 DEF Get, Got, At, Guarded, Reading, TypeOK
    <2>2. Fresh(r)' /\ readers'[r].pc = "missed"
      BY <1>0, <1>1, <2>1 DEF Fresh, Still, ReaderState
    <2> QED BY <1>1, <1>2, <2>2, QuietStep
  <1>4. CASE store[Home] # NoEntry
    <2>1. readers'[r] = Answered(r, store[Home].value)
      BY <1>4 DEF Get, Got, At, Guarded, Reading, TypeOK
    <2>2. store[Home].value \notin readers[r].outdated
      BY <1>0, <1>4 DEF GuardedInv, NothingToFind, Fresh
    <2>3. Fresh(r)' /\ readers'[r].pc = "idle"
      BY <1>1, <2>1, <2>2, AnsweredFields DEF Fresh, Still, TypeOK
    <2> QED BY <1>1, <1>2, <2>3, QuietStep
  <1> QED BY <1>3, <1>4

LEMMA JoinStep ==
    ASSUME TypeOK, Guarded, GuardedInv, NEW r \in Reader, ProcOf[r] = Home, Join(r)
    PROVE  GuardedInv'
  <1>0. readers[r] \in ReaderState /\ Fresh(r)
    BY DEF TypeOK, GuardedInv
  <1>1. readers[r].pc = "missed" /\ Still /\ store' = store /\ inFlight' = inFlight
    BY DEF Join, Reads, Reading, Still
  <1>2. \A q \in Reader : q # r => readers'[q] = readers[q]
    BY DEF Join, Reading, TypeOK
  <1>3. /\ readers'[r].pc = "waiting" /\ readers'[r].owner = inFlight[Home]
        /\ readers'[r].version = readers[r].version
        /\ readers'[r].outdated = readers[r].outdated
        /\ readers'[r].misled = readers[r].misled
    BY <1>0 DEF Join, Reading, TypeOK, ReaderState
  <1>4. inFlight[Home] \in Reader /\ inFlight[Home] # r
    BY <1>1 DEF Join, TypeOK, GuardedInv, NothingToFind
  <1>5. Fresh(r)'
    BY <1>0, <1>1, <1>2, <1>3, <1>4 DEF Fresh, Still, GuardedInv, NothingToFind
  <1> QED BY <1>1, <1>2, <1>3, <1>5, QuietStep

LEMMA StartLoadStep ==
    ASSUME TypeOK, Guarded, GuardedInv, NEW r \in Reader, ProcOf[r] = Home,
           StartLoad(r)
    PROVE  GuardedInv'
  <1>0. readers[r] \in ReaderState /\ Fresh(r)
    BY DEF TypeOK, GuardedInv
  <1>1. readers[r].pc = "missed" /\ Still /\ store' = store
    BY DEF StartLoad, Reads, Reading, Still
  <1>2. \A q \in Reader : q # r => readers'[q] = readers[q]
    BY DEF StartLoad, Reading, TypeOK
  <1>3. /\ readers'[r].pc = "loading" /\ readers'[r].version = version[Home]
        /\ readers'[r].outdated = readers[r].outdated
        /\ readers'[r].misled = readers[r].misled
    BY <1>0 DEF StartLoad, Reading, TypeOK, ReaderState
  <1>4. inFlight'[Home] = r
    BY DEF StartLoad, Guarded, TypeOK
  <1>5. \A q \in Reader : Reads(q, "loaded")' =>
           q # r /\ Reads(q, "loaded") /\ readers'[q] = readers[q]
    BY <1>2, <1>3 DEF Reads
  <1>6. \A q \in Reader : q # r => (MayKeep(q)' <=> MayKeep(q))
    BY <1>1, <1>2 DEF MayKeep, Still
  <1>7. NothingToFind'
    BY <1>1, <1>3, <1>4, <1>5, <1>6 DEF GuardedInv, NothingToFind, Still
  <1>8. LoneChange'
    BY <1>1, <1>5, <1>6 DEF GuardedInv, LoneChange, Still, Writes, Active, TypeOK
  <1>9. Fresh(r)'
    BY <1>0, <1>1, <1>3 DEF Fresh, Still, TypeOK
  <1>10. ASSUME NEW q \in Reader, ProcOf[q] = Home, q # r PROVE Fresh(q)'
    <2>1. Fresh(q) /\ readers'[q] = readers[q]
      BY <1>2, <1>10 DEF GuardedInv
    <2>2. readers[q].pc = "waiting" => readers[q].owner # r
      BY <1>1, <2>1 DEF Fresh
    <2> QED BY <1>1, <1>2, <2>1, <2>2 DEF Fresh, Still
  <1> QED BY <1>1, <1>7, <1>8, <1>9, <1>10, HistoryStill DEF GuardedInv

\* What is loaded is the value of the row, and that is never outdated.
LEMMA LoadStep ==
    ASSUME TypeOK, Guarded, GuardedInv, NEW r \in Reader, ProcOf[r] = Home, Load(r)
    PROVE  GuardedInv'
  <1>0. readers[r] \in ReaderState /\ Fresh(r) /\ db \notin outdated
    BY DEF TypeOK, GuardedInv, History
  <1>1. readers[r].pc = "loading" /\ Still /\ store' = store /\ inFlight' = inFlight
    BY DEF Load, Reads, Reading, Still
  <1>2. \A q \in Reader : q # r => readers'[q] = readers[q]
    BY DEF Load, Reading, TypeOK
  <1>3. /\ readers'[r].pc = "loaded" /\ readers'[r].value = db
        /\ readers'[r].version = readers[r].version
        /\ readers'[r].outdated = readers[r].outdated
        /\ readers'[r].misled = readers[r].misled
    BY <1>0 DEF Load, Reading, TypeOK, ReaderState
  <1>4. \A q \in Reader : MayKeep(q)' <=> MayKeep(q)
    BY <1>1, <1>2, <1>3 DEF MayKeep, Still
  <1>5. NothingToFind'
    <2>1. ASSUME NEW q \in Reader, ProcOf[q] = Home, Reads(q, "loaded")', MayKeep(q)'
          PROVE  readers'[q].value \notin outdated
      BY <1>0, <1>2, <1>3, <1>4, <2>1 DEF GuardedInv, NothingToFind, Reads
    <2>2. ASSUME inFlight[Home] # NoReader
          PROVE  LET o == inFlight[Home] IN
                 /\ ProcOf[o] = Home
                 /\ readers'[o].pc \in {"loading", "loaded", "stored"}
                 /\ readers'[o].pc # "loading" => readers'[o].value \notin outdated
      <3>1. inFlight[Home] \in Reader
        BY <2>2 DEF TypeOK
      <3> QED BY <1>0, <1>2, <1>3, <2>2, <3>1 DEF GuardedInv, NothingToFind
    <2>3. store[Home] # NoEntry => store[Home].value \notin outdated
      BY DEF GuardedInv, NothingToFind
    <2> QED BY <1>1, <2>1, <2>2, <2>3 DEF NothingToFind, Still
  <1>6. LoneChange'
    <2>1. \A q \in Reader : q = r \/ (Reads(q, "loaded")' <=> Reads(q, "loaded"))
      BY <1>2 DEF Reads
    <2> QED BY <1>1, <1>2, <1>3, <1>4, <2>1
            DEF GuardedInv, LoneChange, Still, Writes, Active, TypeOK
  <1>7. Fresh(r)'
    BY <1>0, <1>1, <1>3 DEF Fresh, Still
  <1>8. ASSUME NEW q \in Reader, ProcOf[q] = Home, q # r PROVE Fresh(q)'
    <2>1. Fresh(q) /\ readers'[q] = readers[q] /\ db \notin readers[q].outdated
      BY <1>0, <1>2, <1>8 DEF GuardedInv, Fresh
    <2> QED BY <1>1, <1>2, <1>3, <2>1 DEF Fresh, Still
  <1> QED BY <1>1, <1>5, <1>6, <1>7, <1>8, HistoryStill DEF GuardedInv

\* What may be kept is not outdated, and nor is the entry it replaces.
LEMMA KeepStep ==
    ASSUME TypeOK, Guarded, GuardedInv, NEW r \in Reader, ProcOf[r] = Home, Keep(r)
    PROVE  GuardedInv'
  <1>0. readers[r] \in ReaderState /\ Fresh(r)
    BY DEF TypeOK, GuardedInv
  <1>1. readers[r].pc = "loaded" /\ Still /\ inFlight' = inFlight
    BY DEF Keep, Reads, Reading, Still
  <1>2. \A q \in Reader : q # r => readers'[q] = readers[q]
    BY DEF Keep, Reading, TypeOK
  <1>3. /\ readers'[r].pc = "stored" /\ readers'[r].version = 0
        /\ readers'[r].value = readers[r].value
        /\ readers'[r].outdated = readers[r].outdated
        /\ readers'[r].misled = readers[r].misled
    BY <1>0 DEF Keep, Reading, TypeOK, ReaderState
  <1>4. \/ store'[Home] = store[Home]
        \/ MayKeep(r) /\ store'[Home].value = readers[r].value
    BY DEF Keep, Put, At, Guarded, TypeOK
  <1>5. \A q \in Reader : Reads(q, "loaded")' =>
           q # r /\ Reads(q, "loaded") /\ readers'[q] = readers[q]
    BY <1>2, <1>3 DEF Reads
  <1>6. \A q \in Reader : q # r => (MayKeep(q)' <=> MayKeep(q))
    BY <1>1, <1>2 DEF MayKeep, Still
  <1>7. store'[Home] # NoEntry =>
           store'[Home].value \notin outdated
    <2>1. store[Home] # NoEntry => store[Home].value \notin outdated
      BY DEF GuardedInv, NothingToFind
    <2>2. MayKeep(r) => readers[r].value \notin outdated
      BY <1>1 DEF GuardedInv, NothingToFind, Reads
    <2> QED BY <1>4, <2>1, <2>2
  <1>8. NothingToFind'
    <2>1. ASSUME NEW q \in Reader, ProcOf[q] = Home, Reads(q, "loaded")', MayKeep(q)'
          PROVE  readers'[q].value \notin outdated
      BY <1>5, <1>6, <2>1 DEF GuardedInv, NothingToFind
    <2>2. ASSUME inFlight[Home] # NoReader
          PROVE  LET o == inFlight[Home] IN
                 /\ ProcOf[o] = Home
                 /\ readers'[o].pc \in {"loading", "loaded", "stored"}
                 /\ readers'[o].pc # "loading" => readers'[o].value \notin outdated
      <3>1. inFlight[Home] \in Reader
        BY <2>2 DEF TypeOK
      <3> QED BY <1>1, <1>2, <1>3, <2>2, <3>1 DEF GuardedInv, NothingToFind
    <2> QED BY <1>1, <1>7, <2>1, <2>2 DEF NothingToFind, Still
  <1>9. LoneChange'
    <2>1. ASSUME lone, NEW w \in Writer, Writes(w, "put"), store'[Home] # NoEntry
          PROVE  store'[Home].value = db
      BY <1>1, <1>4, <2>1 DEF GuardedInv, LoneChange, Reads
    <2> QED BY <1>1, <1>5, <1>6, <2>1
            DEF GuardedInv, LoneChange, Still, Writes, Active
  <1>10. Fresh(r)'
    BY <1>0, <1>1, <1>3 DEF Fresh, Still, TypeOK
  <1>11. ASSUME NEW q \in Reader, ProcOf[q] = Home, q # r PROVE Fresh(q)'
    <2>1. Fresh(q) /\ readers'[q] = readers[q]
      BY <1>2, <1>11 DEF GuardedInv
    <2> QED BY <1>1, <1>2, <1>3, <2>1 DEF Fresh, Still
  <1> QED BY <1>1, <1>8, <1>9, <1>10, <1>11, HistoryStill DEF GuardedInv

\* An answer that is outdated for none of those who get it.
LEMMA SettledStep ==
    ASSUME TypeOK, Guarded, GuardedInv, NEW r \in Reader, ProcOf[r] = Home,
           NEW found, Settled(r, found),
           readers[r].pc \in {"loading", "stored"},
           \A q \in Reader :
              ProcOf[q] = Home /\ (q = r \/ (Reads(q, "waiting") /\ readers[q].owner = r))
              => found \notin readers[q].outdated
    PROVE  GuardedInv'
  <1> DEFINE Waits(q) == q = r \/ (Reads(q, "waiting") /\ readers[q].owner = r)
  <1>1. Still /\ store' = store
    BY DEF Settled, Still
  <1>2. \A q \in Reader : readers'[q] = IF Waits(q) THEN Answered(q, found)
                                        ELSE readers[q]
    BY DEF Settled
  <1>3. inFlight'[Home] # NoReader => inFlight'[Home] = inFlight[Home] /\ inFlight[Home] # r
    BY DEF Settled, TypeOK
  <1>4. \A q \in Reader : Waits(q) =>
           /\ readers'[q].pc = "idle" /\ readers'[q].version = 0
           /\ readers'[q].outdated = {}
           /\ readers'[q].misled => found \in readers[q].outdated
    BY <1>2, AnsweredFields
  <1>5. \A q \in Reader :
           readers[q].pc \in {"loading", "loaded", "stored"} /\ q # r => ~Waits(q)
    BY DEF Reads
  <1>6. \A q \in Reader : Reads(q, "loaded")' =>
           Reads(q, "loaded") /\ readers'[q] = readers[q] /\ (MayKeep(q)' <=> MayKeep(q))
    <2> SUFFICES ASSUME NEW q \in Reader, Reads(q, "loaded")'
                 PROVE  Reads(q, "loaded") /\ readers'[q] = readers[q] /\ (MayKeep(q)' <=> MayKeep(q))
      OBVIOUS
    <2>1. ~Waits(q)
      BY <1>4 DEF Reads
    <2>2. readers'[q] = readers[q]
      BY <1>2, <2>1
    <2> QED BY <1>1, <2>2 DEF Reads, MayKeep, Still
  <1> HIDE DEF Waits
  <1>7. NothingToFind'
    BY <1>1, <1>2, <1>3, <1>5, <1>6 DEF GuardedInv, NothingToFind, Still, TypeOK
  <1>8. LoneChange'
    BY <1>1, <1>6 DEF GuardedInv, LoneChange, Still, Writes, Active
  <1>9. ASSUME NEW q \in Reader, ProcOf[q] = Home PROVE Fresh(q)'
    <2>1. CASE Waits(q)
      <3>1. found \notin readers[q].outdated
        BY <1>9, <2>1 DEF Waits
      <3> QED BY <1>1, <1>4, <2>1, <3>1 DEF Fresh, Still, TypeOK
    <2>2. CASE ~Waits(q)
      <3>1. readers'[q] = readers[q] /\ Fresh(q)
        BY <1>2, <1>9, <2>2 DEF GuardedInv
      <3>2. readers[q].pc = "waiting" => readers[q].owner # r
        BY <2>2 DEF Waits, Reads
      <3>3. readers[q].pc = "waiting" =>
               readers'[readers[q].owner] = readers[readers[q].owner]
        BY <1>2, <1>5, <3>1, <3>2 DEF Fresh
      <3> QED BY <1>1, <3>1, <3>3 DEF Fresh, Still
    <2> QED BY <2>1, <2>2
  <1> QED BY <1>1, <1>7, <1>8, <1>9, HistoryStill DEF GuardedInv

LEMMA SettleStep ==
    ASSUME TypeOK, Guarded, GuardedInv, NEW r \in Reader, ProcOf[r] = Home,
           Settle(r) \/ Reject(r)
    PROVE  GuardedInv'
  <1>1. CASE Settle(r)
    <2>1. readers[r].pc = "stored" /\ Settled(r, readers[r].value)
      BY <1>1 DEF Settle, Reads
    <2>2. ASSUME NEW q \in Reader, ProcOf[q] = Home,
                 q = r \/ (Reads(q, "waiting") /\ readers[q].owner = r)
          PROVE  readers[r].value \notin readers[q].outdated
      BY <2>1, <2>2 DEF GuardedInv, Fresh, Reads
    <2> QED BY <2>1, <2>2, SettledStep
  <1>2. CASE Reject(r)
    <2>1. readers[r].pc = "loading" /\ Settled(r, NoValue)
      BY <1>2 DEF Reject, Reads, Guarded
    <2>2. \A q \in Reader : NoValue \notin readers[q].outdated
      BY DEF TypeOK, ReaderState
    <2> QED BY <2>1, <2>2, SettledStep
  <1> QED BY <1>1, <1>2

\* A step of a writer that touches no cache, and outdates nothing.
LEMMA WriterStep ==
    ASSUME TypeOK, Guarded, GuardedInv,
           UNCHANGED <<kind, readers, store, inFlight, version, outdated>>,
           History', LoneChange'
    PROVE  GuardedInv'
  <1>1. \A q \in Reader : MayKeep(q)' <=> MayKeep(q)
    BY DEF MayKeep
  <1>2. NothingToFind'
    BY <1>1 DEF GuardedInv, NothingToFind, Reads
  <1>3. \A q \in Reader : ProcOf[q] = Home => Fresh(q)'
    BY DEF GuardedInv, Fresh
  <1> QED BY <1>2, <1>3 DEF GuardedInv

LEMMA BeginChangeStep ==
    ASSUME TypeOK, Guarded, GuardedInv, NEW w \in Writer, BeginChange(w)
    PROVE  GuardedInv'
  <1>1. /\ UNCHANGED <<db, kind, written, readers, store, inFlight, version, outdated>>
        /\ lone' = (Active = {}) /\ writers[w].pc = "idle"
    BY DEF BeginChange, Writing, Writes
  <1>2. /\ writers'[w].pc = "updating"
        /\ \A v \in Writer : v # w => writers'[v] = writers[v]
    BY DEF BeginChange, Writing, TypeOK
  <1>3. History'
    BY <1>1, <1>2 DEF GuardedInv, History, Writes
  <1>4. LoneChange'
    BY <1>1, <1>2 DEF LoneChange, Active, Writes
  <1> QED BY <1>1, <1>3, <1>4, WriterStep

LEMMA CommitStep ==
    ASSUME TypeOK, Guarded, GuardedInv, NEW w \in Writer, NEW changes \in BOOLEAN,
           Commit(w, changes)
    PROVE  GuardedInv'
  <1>1. /\ UNCHANGED <<kind, readers, store, inFlight, version, lone, outdated>>
        /\ writers[w].pc = "updating" /\ w \notin written
    BY DEF Commit, Writes, GuardedInv, History
  <1>2. /\ writers'[w].pc = "committed" /\ writers'[w].carried = db'
        /\ \A v \in Writer : v # w => writers'[v] = writers[v]
    BY DEF Commit, TypeOK
  <1>3. db' \in {db, w} /\ written' = written \union {db'}
    BY DEF Commit
  <1>4. db' \notin outdated
    BY <1>1, <1>3 DEF GuardedInv, History
  <1>5. History'
    <2>1. ASSUME NEW v \in Writer, writers'[v].pc \in {"idle", "updating"}
          PROVE  v \notin written'
      BY <1>2, <1>3, <2>1 DEF GuardedInv, History
    <2>2. ASSUME NEW v \in Writer, writers'[v].pc = "committed"
          PROVE  writers'[v].carried \notin outdated
      BY <1>2, <1>4, <2>2 DEF GuardedInv, History, Writes
    <2> QED BY <1>1, <1>3, <1>4, <2>1, <2>2 DEF GuardedInv, History, Writes
  <1>6. LoneChange'
    <2> SUFFICES ASSUME lone PROVE LoneChange'
      BY <1>1 DEF LoneChange
    <2>1. \A v \in Active : v = w
      BY <1>1 DEF GuardedInv, LoneChange, Active
    <2>2. \A v \in Writer : v # w =>
             writers'[v].pc \notin {"updating", "committed", "put"}
      BY <1>2, <2>1 DEF Active
    <2> QED BY <1>2, <2>2 DEF LoneChange, Active, Writes
  <1> QED BY <1>1, <1>5, <1>6, WriterStep

LEMMA FailChangeStep ==
    ASSUME TypeOK, Guarded, GuardedInv, NEW w \in Writer, FailChange(w)
    PROVE  GuardedInv'
  <1>1. UNCHANGED <<db, kind, written, readers, store, inFlight, version, lone, outdated>>
    BY DEF FailChange, Writing, Guarded
  <1>2. /\ writers'[w].pc = "failed"
        /\ \A v \in Writer : v # w => writers'[v] = writers[v]
    BY DEF FailChange, Writing, TypeOK
  <1>3. History'
    BY <1>1, <1>2 DEF GuardedInv, History, Writes
  <1>4. \A q \in Reader : MayKeep(q)' <=> MayKeep(q)
    BY <1>1 DEF MayKeep
  <1>5. LoneChange'
    BY <1>1, <1>2, <1>4 DEF GuardedInv, LoneChange, Active, Writes, Reads
  <1> QED BY <1>1, <1>3, <1>5, WriterStep

\* The new version keeps every load under way from being kept.
LEMMA PutChangeStep ==
    ASSUME TypeOK, Guarded, GuardedInv, NEW w \in Writer, PutChange(w)
    PROVE  GuardedInv'
  <1>1. /\ UNCHANGED <<db, kind, written, readers, inFlight, lone, outdated>>
        /\ writers[w].pc = "committed"
    BY DEF PutChange, Writing, Writes
  <1>2. /\ writers'[w].pc = "put"
        /\ \A v \in Writer : v # w => writers'[v] = writers[v]
    BY DEF PutChange, Writing, TypeOK
  <1>3. version[Home] \in Nat /\ version'[Home] = version[Home] + 1
    BY DEF PutChange, NextVersion, Guarded, TypeOK
  <1>4. store'[Home].value = writers[w].carried
    BY DEF PutChange, Put, At, Guarded, TypeOK
  <1>5. ASSUME NEW q \in Reader, ProcOf[q] = Home PROVE ~MayKeep(q)'
    <2>1. readers[q].version \in Nat /\ readers[q].version <= version[Home]
      BY <1>5 DEF GuardedInv, Fresh, TypeOK, ReaderState
    <2> QED BY <1>1, <1>3, <1>5, <2>1 DEF MayKeep, Guarded
  <1>6. History'
    BY <1>1, <1>2 DEF GuardedInv, History, Writes
  <1>7. writers[w].carried \notin outdated
    BY <1>1 DEF GuardedInv, History, Writes
  <1>8. NothingToFind'
    BY <1>1, <1>4, <1>5, <1>7 DEF GuardedInv, NothingToFind
  <1>9. LoneChange'
    <2> SUFFICES ASSUME lone PROVE LoneChange'
      BY <1>1 DEF LoneChange
    <2>1. writers[w].carried = db /\ \A v \in Active : v = w
      BY <1>1 DEF GuardedInv, LoneChange, Active, Writes
    <2>2. \A v \in Writer : v # w =>
             writers'[v].pc \notin {"updating", "committed", "put"}
      BY <1>2, <2>1 DEF Active
    <2> QED BY <1>1, <1>2, <1>4, <1>5, <2>1, <2>2 DEF LoneChange, Active, Writes
  <1>10. ASSUME NEW q \in Reader, ProcOf[q] = Home PROVE Fresh(q)'
    <2>1. readers[q].version \in Nat
      BY DEF TypeOK, ReaderState
    <2> QED BY <1>1, <1>3, <1>10, <2>1 DEF GuardedInv, Fresh
  <1> QED BY <1>6, <1>8, <1>9, <1>10 DEF GuardedInv

\* A lone change that is answered leaves nothing but its value to be found.
LEMMA EndChangeStep ==
    ASSUME TypeOK, Guarded, GuardedInv, NEW w \in Writer, EndChange(w)
    PROVE  GuardedInv'
  <1>1. /\ UNCHANGED <<db, kind, written, readers, store, version, lone>>
        /\ writers[w].pc = "put"
    BY DEF EndChange, Writing, Writes
  <1>2. /\ writers'[w].pc = "done"
        /\ \A v \in Writer : v # w => writers'[v] = writers[v]
    BY DEF EndChange, Writing, TypeOK
  <1>3. inFlight'[Home] = NoReader
    BY DEF EndChange, DropInFlight, Guarded, TypeOK
  <1>4. outdated' = IF lone THEN written \ {db} ELSE outdated
    BY DEF EndChange, Guarded
  <1>5. outdated \subseteq outdated' /\ outdated' \subseteq written /\ db \notin outdated'
    BY <1>4 DEF GuardedInv, History
  <1>6. lone => \A v \in Writer : v # w =>
                   writers[v].pc \notin {"updating", "committed", "put"}
    BY <1>1 DEF GuardedInv, LoneChange, Active
  <1>7. \A q \in Reader : MayKeep(q)' <=> MayKeep(q)
    BY <1>1 DEF MayKeep
  <1>8. History'
    <2>1. ASSUME NEW v \in Writer, writers'[v].pc = "committed"
          PROVE  writers'[v].carried \notin outdated'
      BY <1>2, <1>4, <1>6, <2>1 DEF GuardedInv, History, Writes
    <2> QED BY <1>1, <1>2, <1>5, <2>1 DEF GuardedInv, History, Writes
  <1>9. NothingToFind'
    <2>1. store[Home] # NoEntry => store[Home].value \notin outdated'
      BY <1>1, <1>4, <1>5 DEF GuardedInv, NothingToFind, LoneChange, Writes
    <2>2. ASSUME NEW q \in Reader, ProcOf[q] = Home, Reads(q, "loaded"), MayKeep(q)
          PROVE  readers[q].value \notin outdated'
      BY <1>1, <1>4, <1>5, <2>2 DEF GuardedInv, NothingToFind, LoneChange, Writes
    <2> QED BY <1>1, <1>3, <1>7, <2>1, <2>2 DEF NothingToFind, Reads
  <1>10. LoneChange'
    BY <1>1, <1>2, <1>6 DEF LoneChange, Active, Writes
  <1>11. ASSUME NEW q \in Reader, ProcOf[q] = Home PROVE Fresh(q)'
    BY <1>1, <1>5, <1>11 DEF GuardedInv, Fresh
  <1> QED BY <1>8, <1>9, <1>10, <1>11 DEF GuardedInv

-----------------------------------------------------------------------------
LEMMA CacheInvHolds == Spec => []CacheInv
<1>1. Init => CacheInv
  <2> SUFFICES ASSUME Init PROVE CacheInv
    OBVIOUS
  <2>1. \A r \in Reader : readers[r].pc = "idle" /\ readers[r].version = 0
                          /\ readers[r].outdated = {} /\ ~readers[r].misled
    BY DEF Init, IdleReader
  <2>2. \A w \in Writer : writers[w].pc = "idle"
    BY DEF Init
  <2>3. History
    BY <2>2 DEF Init, History, Writes
  <2>4. NothingToFind
    BY <2>1 DEF Init, NothingToFind, Reads
  <2>5. LoneChange
    BY <2>2 DEF LoneChange, Active, Writes
  <2>6. \A r \in Reader : Fresh(r)
    <3>1. version[Home] = 0
      BY DEF Init
    <3> QED BY <2>1, <3>1 DEF Fresh
  <2>7. UnguardedInv
    BY <2>1 DEF Init, UnguardedInv
  <2> QED BY <2>3, <2>4, <2>5, <2>6, <2>7 DEF CacheInv, GuardedInv
<1>2. TypeOK /\ TypeOK' /\ CacheInv /\ [Next]_vars => CacheInv'
  <2> SUFFICES ASSUME TypeOK, TypeOK', CacheInv, [Next]_vars PROVE CacheInv'
    OBVIOUS
  <2>1. CASE ~Guarded
    BY <2>1, GuardedFixed, UnguardedStep DEF CacheInv
  <2>2. CASE Guarded
    <3> SUFFICES GuardedInv'
      BY <2>2, GuardedFixed DEF CacheInv
    <3>0. GuardedInv
      BY <2>2 DEF CacheInv
    <3>1. CASE UNCHANGED vars
      <4>1. Still /\ readers' = readers /\ inFlight' = inFlight /\ store' = store
        BY <3>1 DEF vars, Still
      <4> QED BY <2>2, <3>0, <4>1, OtherStep DEF TypeOK
    <3>2. CASE Tick
      BY <2>2, <3>0, <3>2, TickStep
    <3>3. ASSUME NEW p \in Proc, Evict(p) PROVE GuardedInv'
      BY <2>2, <3>0, <3>3, EvictStep
    <3>4. ASSUME NEW r \in Reader, Begin(r) \/ Read(r) \/ Reject(r)
          PROVE  GuardedInv'
      <4>1. CASE ProcOf[r] # Home
        BY <2>2, <3>0, <3>4, <4>1, ElsewhereStep
      <4>2. CASE ProcOf[r] = Home
        BY <2>2, <3>0, <3>4, <4>2, BeginStep, GetStep, JoinStep, StartLoadStep,
           LoadStep, KeepStep, SettleStep DEF Read
      <4> QED BY <4>1, <4>2
    <3>5. ASSUME NEW w \in Writer, BeginChange(w) \/ Change(w) \/ FailChange(w)
          PROVE  GuardedInv'
      BY <2>2, <3>0, <3>5, BeginChangeStep, CommitStep, PutChangeStep, EndChangeStep,
         FailChangeStep DEF Change
    <3> QED BY <3>1, <3>2, <3>3, <3>4, <3>5 DEF Next
  <2> QED BY <2>1, <2>2
<1> QED BY <1>1, <1>2, TypeCorrect, PTL DEF Spec

(* With the cache in memory a delivery of the web server that begins after *)
(* a lone change of the preference was answered never uses an older value  *)
(* (getUserMailContentStoragePreference).  Where the versions do not guard *)
(* the cache nothing is promised, and nothing counts as outdated.          *)
THEOREM AnsweredChangeSeen == Spec => []SeesAnsweredChange
<1>1. CacheInv => SeesAnsweredChange
  BY DEF CacheInv, GuardedInv, UnguardedInv, Fresh, SeesAnsweredChange
<1> QED BY <1>1, CacheInvHolds, PTL

-----------------------------------------------------------------------------
(* The limit of requests.  What was allowed since the window of the bucket    *)
(* started is in its count, and the rest of any time as long as the window is *)
(* at most one limit, and one more for each eviction.                         *)

Most == Max(Limits)

LEMMA MostLimit == Most \in Nat \ {0} /\ \A limit \in Limits : limit <= Most
<1>1. PICK most \in Limits : \A limit \in Limits : limit <= most
  OBVIOUS
<1>2. \A limit \in Limits : most >= limit
  BY <1>1
<1>3. Most \in Limits /\ \A limit \in Limits : Most >= limit
  BY <1>2, Zenon DEF Most, Max
<1>4. QED
  BY <1>3

WindowInv ==
  /\ LimitsTypeOK
  /\ bucket.count <= Most /\ bucket.seen <= bucket.started
  /\ bucket # NoBucket => \A t \in Span : t < bucket.started => allowed[t] <= bucket.count
  /\ \A t \in Span : allowed[t] <= bucket.count + Most * (1 + evicted[t])

LEMMA SpanIs == 0 \in Span /\ Window - 1 \in Span /\ BucketTtl \in Nat /\ BucketTtl > Window
BY DEF Span, BucketTtl

LEMMA CountedIs ==
  ASSUME NEW counts \in [Span -> Nat]
  PROVE  Counted(counts) \in [Span -> Nat] /\ \A t \in Span : Counted(counts)[t] = counts[t] + 1
BY DEF Counted

LEMMA PassedIs ==
  ASSUME NEW counts \in [Span -> Nat]
  PROVE  /\ Passed(counts) \in [Span -> Nat] /\ Passed(counts)[0] = 0
         /\ \A t \in Span : t # 0 => t - 1 \in Span /\ Passed(counts)[t] = counts[t - 1]
BY SpanIs DEF Passed, Span

LEMMA OlderIs ==
  ASSUME NEW ticks \in 0 .. BucketTtl
  PROVE  /\ Older(ticks) \in 0 .. BucketTtl
         /\ Older(ticks) = IF ticks + 1 <= BucketTtl THEN ticks + 1 ELSE BucketTtl
<1> DEFINE both == {ticks + 1, BucketTtl}
           least == IF ticks + 1 <= BucketTtl THEN ticks + 1 ELSE BucketTtl
<1>1. BucketTtl \in Nat /\ ticks \in Nat /\ ticks <= BucketTtl
  BY SpanIs
<1>2. least \in both /\ \A y \in both : least =< y
  BY <1>1
<1>3. Older(ticks) \in both /\ \A y \in both : Older(ticks) =< y
  BY <1>2, Zenon DEF Older, Min
<1>4. Older(ticks) = least
  BY <1>1, <1>2, <1>3
<1>5. QED
  BY <1>1, <1>4

\* A bucket in whose window nothing is left: what was allowed is one limit, and one
\* more for each eviction.
LEMMA OpensBound ==
  ASSUME WindowInv, Opens(Pruned), NEW t \in Span
  PROVE  allowed[t] <= Most * (1 + evicted[t])
<1>1. /\ Most \in Nat /\ allowed[t] \in Nat /\ evicted[t] \in Nat /\ bucket.count \in Nat
      /\ bucket.started \in Nat /\ bucket.seen \in Nat
  BY MostLimit, SpanIs DEF WindowInv, LimitsTypeOK
<1>2. Most * (1 + evicted[t]) \in Nat /\ Most <= Most * (1 + evicted[t])
  BY <1>1
<1>3. CASE bucket = NoBucket
  BY <1>1, <1>2, <1>3 DEF WindowInv, NoBucket
<1>4. CASE bucket # NoBucket
  <2>1. bucket.started >= Window
    BY <1>1, <1>4, SpanIs DEF Opens, Pruned, WindowInv
  <2>2. t < bucket.started
    BY <1>1, <2>1 DEF Span
  <2>3. allowed[t] <= bucket.count /\ bucket.count <= Most
    BY <1>4, <2>2 DEF WindowInv
  <2>4. QED
    BY <1>1, <1>2, <2>3
<1>5. QED
  BY <1>3, <1>4

LEMMA AskBound ==
  ASSUME WindowInv, NEW limit \in Limits, Ask(limit)
  PROVE  WindowInv'
<1>1. /\ LimitsTypeOK /\ bucket.count <= Most /\ bucket.seen <= bucket.started
      /\ bucket.count \in Nat /\ bucket.started \in 0 .. BucketTtl
      /\ bucket.seen \in 0 .. BucketTtl /\ Most \in Nat \ {0} /\ limit <= Most /\ limit \in Nat
  BY MostLimit DEF WindowInv, LimitsTypeOK
<1>2. /\ \A t \in Span : allowed[t] \in Nat /\ evicted[t] \in Nat
      /\ \A t \in Span : Most * (1 + evicted[t]) \in Nat
  <2>1. \A t \in Span : allowed[t] \in Nat /\ evicted[t] \in Nat
    BY DEF WindowInv, LimitsTypeOK
  <2>2. QED
    BY <1>1, <2>1
<1>3. Counted(allowed) \in [Span -> Nat] /\ \A t \in Span : Counted(allowed)[t] = allowed[t] + 1
  BY <1>1, CountedIs DEF LimitsTypeOK
<1>4. CASE Opens(Pruned) /\ Allow([started |-> 0, seen |-> 0, count |-> 1])
  <2>1. /\ bucket' = [started |-> 0, seen |-> 0, count |-> 1] /\ answer' = "allowed"
        /\ allowed' = Counted(allowed) /\ evicted' = evicted
    BY <1>4 DEF Allow
  <2>2. LimitsTypeOK'
    BY <1>1, <1>3, <2>1, SpanIs DEF LimitsTypeOK
  <2>3. \A t \in Span : allowed'[t] <= 1 + Most * (1 + evicted[t])
    <3> SUFFICES ASSUME NEW t \in Span
                 PROVE  allowed'[t] <= 1 + Most * (1 + evicted[t])
      OBVIOUS
    <3>1. allowed[t] <= Most * (1 + evicted[t])
      BY <1>4, OpensBound
    <3> DEFINE rest == Most * (1 + evicted[t])
    <3>2. rest \in Nat /\ allowed[t] \in Nat /\ allowed[t] <= rest /\ allowed'[t] = allowed[t] + 1
      BY <1>2, <1>3, <2>1, <3>1
    <3> HIDE DEF rest
    <3>3. allowed'[t] <= 1 + rest
      BY <3>2
    <3>4. QED
      BY <3>3 DEF rest
  <2>4. QED
    BY <1>1, <2>1, <2>2, <2>3 DEF WindowInv, Span
<1>5. CASE ~ Opens(Pruned)
  <2>1. Pruned = bucket /\ bucket # NoBucket
    BY <1>5 DEF Opens, Pruned
  <2> DEFINE seen == Seen(bucket)
             more == [seen EXCEPT !.count = @ + 1]
  <2>2. seen.started = bucket.started /\ seen.seen = 0 /\ seen.count = bucket.count
        /\ seen \in [started : 0 .. BucketTtl, seen : 0 .. BucketTtl, count : Nat]
    BY <1>1, SpanIs DEF Seen, LimitsTypeOK
  <2> HIDE DEF seen
  <2>3. more.started = bucket.started /\ more.seen = 0 /\ more.count = bucket.count + 1
        /\ more \in [started : 0 .. BucketTtl, seen : 0 .. BucketTtl, count : Nat]
    BY <1>1, <2>2
  <2>4. CASE ~ Full(bucket, limit) /\ Allow(more)
    <3>1. /\ bucket' = more /\ answer' = "allowed"
          /\ allowed' = Counted(allowed) /\ evicted' = evicted
      BY <2>4 DEF Allow
    <3> HIDE DEF more
    <3>2. bucket.count < limit
      BY <1>1, <2>4 DEF Full
    <3>3. LimitsTypeOK'
      BY <1>1, <1>3, <2>3, <3>1 DEF LimitsTypeOK
    <3>4. \A t \in Span : allowed'[t] = allowed[t] + 1
      BY <1>3, <3>1
    <3>5. \A t \in Span : t < bucket'.started => allowed'[t] <= bucket'.count
      BY <1>1, <1>2, <2>1, <2>3, <3>1, <3>4 DEF WindowInv
    <3>6. \A t \in Span : allowed'[t] <= bucket'.count + Most * (1 + evicted[t])
      <4> SUFFICES ASSUME NEW t \in Span
                   PROVE  allowed'[t] <= bucket'.count + Most * (1 + evicted[t])
        OBVIOUS
      <4> DEFINE rest == Most * (1 + evicted[t])
      <4>1. rest \in Nat /\ allowed[t] \in Nat /\ allowed[t] <= bucket.count + rest
        BY <1>2 DEF WindowInv
      <4> HIDE DEF rest
      <4>2. allowed'[t] <= bucket'.count + rest
        BY <1>1, <2>3, <3>1, <3>4, <4>1
      <4>3. QED
        BY <4>2 DEF rest
    <3>7. bucket'.count <= Most /\ bucket'.seen <= bucket'.started
      BY <1>1, <2>3, <3>1, <3>2, SpanIs
    <3>8. QED
      BY <3>1, <3>3, <3>5, <3>6, <3>7 DEF WindowInv
  <2>5. CASE bucket' = seen /\ answer' = "refused" /\ UNCHANGED <<allowed, evicted>>
    <3>1. LimitsTypeOK'
      BY <1>1, <2>2, <2>5 DEF LimitsTypeOK
    <3>2. QED
      BY <1>1, <2>1, <2>2, <2>5, <3>1, SpanIs DEF WindowInv
  <2>6. QED
    BY <1>5, <2>1, <2>4, <2>5 DEF Ask, seen
<1>6. QED
  BY <1>4, <1>5 DEF Ask

LEMMA ForgetBound ==
  ASSUME WindowInv, Forget
  PROVE  WindowInv'
<1>1. /\ LimitsTypeOK /\ bucket.count <= Most /\ bucket.count \in Nat /\ Most \in Nat \ {0}
  BY MostLimit DEF WindowInv, LimitsTypeOK
<1>2. /\ bucket' = NoBucket /\ evicted' = Counted(evicted) /\ UNCHANGED <<answer, allowed>>
  BY DEF Forget
<1>3. Counted(evicted) \in [Span -> Nat] /\ \A t \in Span : Counted(evicted)[t] = evicted[t] + 1
  BY <1>1, CountedIs DEF LimitsTypeOK
<1>4. /\ NoBucket \in [started : 0 .. BucketTtl, seen : 0 .. BucketTtl, count : Nat]
      /\ NoBucket.count = 0 /\ NoBucket.seen = 0 /\ NoBucket.started = 0
  BY SpanIs DEF NoBucket
<1>5. LimitsTypeOK'
  BY <1>1, <1>2, <1>3, <1>4 DEF LimitsTypeOK
<1>6. \A t \in Span : allowed'[t] <= Most * (1 + evicted'[t])
  <2> SUFFICES ASSUME NEW t \in Span
               PROVE  allowed'[t] <= Most * (1 + evicted'[t])
    OBVIOUS
  <2>1. allowed[t] \in Nat /\ evicted[t] \in Nat /\ evicted'[t] = evicted[t] + 1
    BY <1>1, <1>2, <1>3 DEF LimitsTypeOK
  <2> DEFINE g == evicted[t]
             rest == Most * (1 + g)
  <2>2. allowed[t] <= bucket.count + rest
    BY DEF WindowInv
  <2>3. rest \in Nat /\ Most * (1 + (g + 1)) = Most + rest
    BY <1>1, <2>1
  <2> HIDE DEF rest
  <2>4. allowed[t] <= Most + rest
    BY <1>1, <2>1, <2>2, <2>3
  <2>5. QED
    BY <1>2, <2>1, <2>3, <2>4
<1>7. \A t \in Span : allowed'[t] <= bucket'.count + Most * (1 + evicted'[t])
  <2>1. \A t \in Span : Most * (1 + evicted'[t]) \in Nat
    BY <1>1, <1>2, <1>3
  <2>2. QED
    BY <1>2, <1>4, <1>6, <2>1
<1>8. bucket'.count <= Most /\ bucket'.seen <= bucket'.started /\ bucket' = NoBucket
  BY <1>1, <1>2, <1>4
<1>9. QED
  BY <1>5, <1>7, <1>8 DEF WindowInv

LEMMA PassBound ==
  ASSUME WindowInv, Pass
  PROVE  WindowInv'
<1>1. /\ LimitsTypeOK /\ bucket.count <= Most /\ bucket.seen <= bucket.started
      /\ bucket.count \in Nat /\ bucket.started \in 0 .. BucketTtl
      /\ bucket.seen \in 0 .. BucketTtl /\ Most \in Nat \ {0}
  BY MostLimit DEF WindowInv, LimitsTypeOK
<1>2. /\ allowed' = Passed(allowed) /\ evicted' = Passed(evicted) /\ answer' = answer
  BY DEF Pass
<1>3. /\ allowed' \in [Span -> Nat] /\ evicted' \in [Span -> Nat]
      /\ allowed'[0] = 0 /\ evicted'[0] = 0
      /\ \A t \in Span : t # 0 => /\ t - 1 \in Span /\ allowed'[t] = allowed[t - 1]
                                  /\ evicted'[t] = evicted[t - 1]
  BY <1>1, <1>2, PassedIs DEF LimitsTypeOK
<1> DEFINE older == [bucket EXCEPT !.started = Older(@), !.seen = Older(@)]
<1>4. /\ older.started = Older(bucket.started) /\ older.seen = Older(bucket.seen)
      /\ older.count = bucket.count
  BY <1>1 DEF LimitsTypeOK
<1>5. /\ Older(bucket.started) \in 0 .. BucketTtl /\ Older(bucket.seen) \in 0 .. BucketTtl
      /\ Older(bucket.seen) <= Older(bucket.started)
      /\ Older(bucket.started) <= bucket.started + 1
  BY <1>1, SpanIs, OlderIs
<1>6. older \in [started : 0 .. BucketTtl, seen : 0 .. BucketTtl, count : Nat]
  BY <1>1, <1>5 DEF LimitsTypeOK
<1>7. bucket' = IF bucket = NoBucket THEN NoBucket ELSE older
  BY DEF Pass
<1> HIDE DEF older
<1>8. /\ bucket' \in [started : 0 .. BucketTtl, seen : 0 .. BucketTtl, count : Nat]
      /\ bucket'.count = bucket.count /\ bucket'.seen <= bucket'.started
      /\ bucket' # NoBucket => bucket # NoBucket /\ bucket'.started <= bucket.started + 1
  BY <1>1, <1>4, <1>5, <1>6, <1>7 DEF LimitsTypeOK
<1>9. LimitsTypeOK'
  BY <1>1, <1>2, <1>3, <1>8 DEF LimitsTypeOK
<1>10. ASSUME NEW t \in Span
       PROVE  /\ bucket' # NoBucket /\ t < bucket'.started => allowed'[t] <= bucket'.count
              /\ allowed'[t] <= bucket'.count + Most * (1 + evicted'[t])
  <2>1. t \in Nat /\ bucket'.started \in Nat /\ bucket.started \in Nat
    BY <1>1, <1>8 DEF Span
  <2>2. CASE t = 0
    <3>1. evicted'[t] = 0 /\ allowed'[t] = 0
      BY <1>3, <2>2
    <3>2. QED
      BY <1>1, <1>8, <3>1
  <2>3. CASE t # 0
    <3> DEFINE u == t - 1
    <3>1. u \in Span /\ allowed'[t] = allowed[u] /\ evicted'[t] = evicted[u]
      BY <1>3, <2>3
    <3>2. allowed[u] <= bucket.count + Most * (1 + evicted[u])
      BY <3>1 DEF WindowInv
    <3>3. bucket' # NoBucket /\ t < bucket'.started => bucket # NoBucket /\ u < bucket.started
      BY <1>8, <2>1
    <3> HIDE DEF u
    <3>4. bucket' # NoBucket /\ t < bucket'.started => allowed[u] <= bucket.count
      BY <3>1, <3>3 DEF WindowInv
    <3>5. QED
      BY <1>8, <3>1, <3>2, <3>4
  <2>4. QED
    BY <2>2, <2>3
<1>11. QED
  BY <1>1, <1>8, <1>9, <1>10 DEF WindowInv

LEMMA InitWindow == InitLimits => WindowInv
<1> SUFFICES ASSUME InitLimits PROVE WindowInv
  OBVIOUS
<1>1. /\ NoBucket \in [started : 0 .. BucketTtl, seen : 0 .. BucketTtl, count : Nat]
      /\ NoBucket.count = 0 /\ NoBucket.seen = 0 /\ NoBucket.started = 0
  BY SpanIs DEF NoBucket
<1>2. LimitsTypeOK
  BY <1>1 DEF InitLimits, LimitsTypeOK
<1>3. \A t \in Span : allowed[t] = 0 /\ evicted[t] = 0
  BY DEF InitLimits
<1>4. QED
  BY <1>1, <1>2, <1>3, MostLimit DEF InitLimits, WindowInv

LEMMA NextWindow == WindowInv /\ [NextLimits]_limitVars => WindowInv'
<1>1. WindowInv /\ UNCHANGED limitVars => WindowInv'
  BY DEF WindowInv, LimitsTypeOK, limitVars
<1>2. QED
  BY <1>1, AskBound, ForgetBound, PassBound DEF NextLimits

LEMMA WindowInvBound == WindowInv => WindowBound
<1> SUFFICES ASSUME WindowInv PROVE WindowBound
  OBVIOUS
<1> DEFINE t == Window - 1
           g == evicted[t]
           rest == Most * (1 + g)
<1>1. t \in Span /\ g \in Nat /\ allowed[t] \in Nat /\ Most \in Nat /\ bucket.count \in Nat
      /\ bucket.count <= Most /\ allowed[t] <= bucket.count + rest
  BY SpanIs, MostLimit DEF WindowInv, LimitsTypeOK
<1>2. rest \in Nat /\ Most * (2 + g) = Most + rest
  BY <1>1
<1> HIDE DEF rest
<1>3. allowed[t] <= Most * (2 + g)
  BY <1>1, <1>2
<1>4. QED
  BY <1>3 DEF WindowBound, Most

\* In a time as long as the window at most twice the highest limit is allowed, and
\* the limit once more for each eviction of the bucket in it; for any window, and
\* for limits that change between the requests.
THEOREM WindowBoundAlways == LimitsSpec => []WindowBound
<1>1. QED
  BY InitWindow, NextWindow, WindowInvBound, PTL DEF LimitsSpec

\* The store as a whole: the types of both parts.
THEOREM TypesCorrect == StoreSpec => []TypesOK
<1>1. StoreInit => TypeOK /\ WindowInv
  BY InitTypes, InitWindow DEF StoreInit
<1>2. TypeOK /\ WindowInv /\ [StoreNext]_storeVars => (TypeOK /\ WindowInv)'
  <2>1. [StoreNext]_storeVars => [Next]_vars /\ [NextLimits]_limitVars
    BY DEF StoreNext, storeVars, Values, Counts, vars, limitVars
  <2>2. QED
    BY <2>1, NextTypes, NextWindow
<1>3. TypeOK /\ WindowInv => TypesOK
  BY DEF TypesOK, WindowInv
<1>4. QED
  BY <1>1, <1>2, <1>3, PTL DEF StoreSpec
=============================================================================
