------------------------------ MODULE ValueCache ------------------------------
(***************************************************************************)
(* Values of the database that are read through a cache: the preference of *)
(* a user for keeping raw messages and attachments, which deliveries read  *)
(* and the profile route changes, and a system setting, which everybody    *)
(* reads and the administrator changes.  One key of each is modelled.  The *)
(* cache is in the memory of each process, or one Redis for all of them;   *)
(* what the preference keeps beside it, its versions and the loads under   *)
(* way, is always in the memory of the process.                            *)
(*                                                                         *)
(* A command to the store takes effect where it is issued: commands of one *)
(* process are carried out in the order they were issued, and what another *)
(* step sees in between it could have seen before.                         *)
(***************************************************************************)
EXTENDS Naturals, FiniteSets

CONSTANTS
    Reader,                     \* requests that read the value
    NoReader,
    Writer,                     \* requests that change it, once each
    Initial,                    \* the value before any change
    NoValue,
    Proc,                       \* processes: the web server, the IMAP service
    Home,                       \* the one that handles the changes
    ProcOf,                     \* where each reader runs
    MaxReading,                 \* bound: readers under way at the same time
    Ttl,                        \* lifetimes callers ask for, in ticks
    Modes,                      \* CACHE_MODE: "memory" or "redis"
    Kinds                       \* "preference", "setting"

Value == Writer \union {Initial}  \* every change writes a value of its own

ASSUME CacheAssumption ==
    /\ NoReader \notin Reader /\ Initial \notin Writer /\ NoValue \notin Value
    /\ Home \in Proc /\ ProcOf \in [Reader -> Proc]
    /\ Ttl \subseteq Nat \ {0} /\ Ttl # {}
    /\ Modes \subseteq {"memory", "redis"}
    /\ Kinds \subseteq {"preference", "setting"}

VARIABLES
    mode, kind,
    db,                         \* the column of the row
    written,                    \* history: values the column has had
    store,                      \* the entry of the key in each store
    inFlight,                   \* the load of each process that others join
    version,                    \* changes each process has seen pass
    readers,
    writers,
    lone,                       \* history: the change under way met no other
    outdated                    \* history: values that a lone change replaced

vars == <<mode, kind, db, written, store, inFlight, version, readers, writers,
          lone, outdated>>

NoEntry == [value |-> NoValue, left |-> 0]

ReaderState ==
    [pc : {"idle", "getting", "missed", "waiting", "loading", "loaded", "stored"},
     owner : Reader \union {NoReader},  \* whose load it waits for
     version : Nat,                     \* what it found before its load
     value : Value \union {NoValue},    \* what its load returned
     outdated : SUBSET Value,           \* history: outdated as it began
     misled : BOOLEAN]                  \* history: its answer was one of these

WriterState ==
    [pc : {"idle", "updating", "committed", "put", "done", "failed"},
     carried : Value \union {NoValue}]  \* the column as its update left it

TypeOK ==
    /\ mode \in Modes /\ kind \in Kinds
    /\ db \in Value /\ written \subseteq Value
    /\ store \in [Proc -> [value : Value, left : Nat \ {0}] \union {NoEntry}]
    /\ inFlight \in [Proc -> Reader \union {NoReader}]
    /\ version \in [Proc -> Nat]
    /\ readers \in [Reader -> ReaderState]
    /\ writers \in [Writer -> WriterState]
    /\ \A r \in Reader : readers[r].pc = "loaded" => readers[r].value # NoValue
    /\ \A w \in Writer : writers[w].pc = "committed" => writers[w].carried # NoValue
    /\ lone \in BOOLEAN
    /\ outdated \subseteq Value

-----------------------------------------------------------------------------
(* The store. *)

At(p) == IF mode = "memory" THEN p ELSE Home

Put(p, value, ttl) ==
    store' = [store EXCEPT ![At(p)] = [value |-> value, left |-> ttl]]

Delete(p) == store' = [store EXCEPT ![At(p)] = NoEntry]

\* Reading an entry makes it the youngest, and lets it live no longer.
Got(p) == store[At(p)]

WrongKept(entry) == entry  \* stored without a lifetime
WrongAged(entry) == [entry EXCEPT !.left = @ - 1]
Aged(entry) ==
    IF entry.left <= 1 THEN NoEntry ELSE [entry EXCEPT !.left = @ - 1]

\* Time passes: entries reach their expiresAt.
Tick ==
    /\ store' = [p \in Proc |-> Aged(store[p])]
    /\ UNCHANGED <<mode, kind, db, written, inFlight, version, readers, writers,
                   lone, outdated>>

\* Other keys fill the table of a process, and the oldest entry goes.
Evict(p) ==
    /\ mode = "memory" /\ store[p] # NoEntry
    /\ Delete(p)
    /\ UNCHANGED <<mode, kind, db, written, inFlight, version, readers, writers,
                   lone, outdated>>

-----------------------------------------------------------------------------
(* Reading. *)

Reads(r, pc) == readers[r].pc = pc

Reading(r, me) ==
    /\ readers' = [readers EXCEPT ![r] = me]
    /\ UNCHANGED <<mode, kind, db, written, version, writers, lone, outdated>>

IdleReader(misled) ==
    [pc |-> "idle", owner |-> NoReader, version |-> 0, value |-> NoValue,
     outdated |-> {}, misled |-> misled]

Answered(r, answer) == IdleReader(answer \in readers[r].outdated)

Begin(r) ==
    /\ Reads(r, "idle")
    /\ Cardinality({q \in Reader : ~Reads(q, "idle")}) < MaxReading
    /\ Reading(r, [IdleReader(FALSE) EXCEPT !.pc = "getting", !.outdated = outdated])
    /\ UNCHANGED <<store, inFlight>>

Get(r) ==
    LET entry == Got(ProcOf[r]) IN
    /\ Reads(r, "getting")
    /\ Reading(r, IF entry = NoEntry THEN [readers[r] EXCEPT !.pc = "missed"]
                  ELSE Answered(r, entry.value))
    /\ UNCHANGED <<store, inFlight>>

\* A reader of the preference joins the load of its process, or starts it; a
\* reader of a setting loads for itself.
Join(r) ==
    /\ Reads(r, "missed")
    /\ kind = "preference" /\ inFlight[ProcOf[r]] # NoReader
    /\ Reading(r, [readers[r] EXCEPT !.pc = "waiting",
                                     !.owner = inFlight[ProcOf[r]]])
    /\ UNCHANGED <<store, inFlight>>

StartLoad(r) ==
    LET p == ProcOf[r] IN
    /\ Reads(r, "missed")
    /\ \/ kind = "setting" /\ UNCHANGED inFlight
       \/ /\ kind = "preference" /\ inFlight[p] = NoReader
          /\ inFlight' = [inFlight EXCEPT ![p] = r]
    /\ Reading(r, [readers[r] EXCEPT !.pc = "loading", !.version = version[p]])
    /\ UNCHANGED store

Load(r) ==
    /\ Reads(r, "loading")
    /\ Reading(r, [readers[r] EXCEPT !.pc = "loaded", !.value = db])
    /\ UNCHANGED <<store, inFlight>>

\* The value of a preference is kept unless a change passed since.
WrongMayKeep(r) == TRUE
MayKeep(r) == kind = "preference" => version[ProcOf[r]] = readers[r].version

Keep(r) ==
    /\ Reads(r, "loaded")
    /\ IF MayKeep(r) THEN \E ttl \in Ttl : Put(ProcOf[r], readers[r].value, ttl)
       ELSE UNCHANGED store
    /\ Reading(r, [readers[r] EXCEPT !.pc = "stored", !.version = 0])
    /\ UNCHANGED inFlight

\* Everyone who waits for the load has its answer at once.
Settled(r, answer) ==
    LET p == ProcOf[r]
        Waits(q) == q = r \/ (Reads(q, "waiting") /\ readers[q].owner = r) IN
    /\ readers' = [q \in Reader |-> IF Waits(q)
                                    THEN Answered(q, answer) ELSE readers[q]]
    /\ inFlight' = IF inFlight[p] = r THEN [inFlight EXCEPT ![p] = NoReader]
                   ELSE inFlight
    /\ UNCHANGED <<mode, kind, db, written, store, version, writers, lone,
                   outdated>>

Settle(r) == Reads(r, "stored") /\ Settled(r, readers[r].value)

\* The database, or Redis, does not answer.
Reject(r) ==
    /\ \/ Reads(r, "loading")
       \/ mode = "redis" /\ (Reads(r, "getting") \/ Reads(r, "loaded"))
    /\ Settled(r, NoValue)

-----------------------------------------------------------------------------
(* Changing. *)

Writes(w, pc) == writers[w].pc = pc

Active == {w \in Writer : writers[w].pc \in {"updating", "committed", "put"}}

Writing(w, pc) ==
    /\ writers' = [writers EXCEPT ![w] = [pc |-> pc, carried |-> NoValue]]
    /\ UNCHANGED <<mode, kind, readers>>

BeginChange(w) ==
    /\ Writes(w, "idle")
    /\ lone' = (Active = {})
    /\ Writing(w, "updating")
    /\ UNCHANGED <<db, written, store, inFlight, version, outdated>>

\* The profile route puts the preference in the cache whatever it updated.
Commit(w, changes) ==
    /\ Writes(w, "updating")
    /\ kind = "setting" => changes
    /\ db' = IF changes THEN w ELSE db
    /\ written' = written \union {db'}
    /\ writers' = [writers EXCEPT ![w] = [pc |-> "committed", carried |-> db']]
    /\ UNCHANGED <<mode, kind, readers, store, inFlight, version, lone, outdated>>

NextVersion ==
    version' = IF kind = "preference"
               THEN [version EXCEPT ![Home] = version[Home] + 1] ELSE version

PutChange(w) ==
    /\ Writes(w, "committed")
    /\ NextVersion
    /\ IF kind = "preference"
       THEN \E ttl \in Ttl : Put(Home, writers[w].carried, ttl)
       ELSE Delete(Home)
    /\ Writing(w, "put")
    /\ UNCHANGED <<db, written, inFlight, lone, outdated>>

\* The process of the changes has a cache of its own, and keeps versions.
Guarded == mode = "memory" /\ kind = "preference"

DropInFlight == [inFlight EXCEPT ![Home] = NoReader]

EndChange(w) ==
    /\ Writes(w, "put")
    /\ inFlight' = IF kind = "preference" THEN DropInFlight ELSE inFlight
    /\ outdated' = IF lone /\ Guarded THEN written \ {db} ELSE outdated
    /\ Writing(w, "done")
    /\ UNCHANGED <<db, written, store, version, lone>>

FailChange(w) ==
    /\ \/ Writes(w, "updating") /\ UNCHANGED version
       \/ Writes(w, "committed") /\ mode = "redis" /\ NextVersion
    /\ Writing(w, "failed")
    /\ UNCHANGED <<db, written, store, inFlight, lone, outdated>>

-----------------------------------------------------------------------------
Init ==
    /\ mode \in Modes /\ kind \in Kinds
    /\ db = Initial /\ written = {Initial}
    /\ store = [p \in Proc |-> NoEntry]
    /\ inFlight = [p \in Proc |-> NoReader]
    /\ version = [p \in Proc |-> 0]
    /\ readers = [r \in Reader |-> IdleReader(FALSE)]
    /\ writers = [w \in Writer |-> [pc |-> "idle", carried |-> NoValue]]
    /\ lone = TRUE /\ outdated = {}

Read(r) ==
    Get(r) \/ Join(r) \/ StartLoad(r) \/ Load(r) \/ Keep(r) \/ Settle(r)

Change(w) ==
    \/ \E changes \in BOOLEAN : Commit(w, changes)
    \/ PutChange(w) \/ EndChange(w)

Next ==
    \/ Tick
    \/ \E p \in Proc : Evict(p)
    \/ \E r \in Reader : Begin(r) \/ Read(r) \/ Reject(r)
    \/ \E w \in Writer : BeginChange(w) \/ Change(w) \/ FailChange(w)

\* The clock runs, and whatever is awaited comes, or fails.
Fairness ==
    /\ WF_vars(Tick)
    /\ \A r \in Reader : WF_vars(Read(r) \/ Reject(r))
    /\ \A w \in Writer : WF_vars(Change(w) \/ FailChange(w))

Spec == Init /\ [][Next]_vars /\ Fairness

-----------------------------------------------------------------------------
(* With the cache in memory, a delivery of the web server that begins      *)
(* after a change of the preference was answered does not use an older     *)
(* value, unless another update of the profile was under way along with    *)
(* the change: no load that began before it leaves its value in the cache  *)
(* or is joined (user-mail-content-storage.ts).                            *)
SeesAnsweredChange ==
    \A r \in Reader : ProcOf[r] = Home => ~readers[r].misled

(* Whatever stale value was put into a cache, by a load that a change      *)
(* overtook, by changes that overtook each other, or in a process that no  *)
(* change reaches, it is gone some time after the last change: however     *)
(* often it is read, an entry lives no longer than it was stored for.      *)
ChangeSeen == <>[](\A p \in Proc : store[p] # NoEntry => store[p].value = db)

-----------------------------------------------------------------------------
(* The inductive invariant behind SeesAnsweredChange, part by part. *)

\* Each change writes a value of its own, once, and nothing outdates a change
\* that is still to reach the cache.
History ==
    /\ db \in written /\ db \notin outdated /\ outdated \subseteq written
    /\ \A w \in Writer :
         /\ writers[w].pc \in {"idle", "updating"} => w \notin written
         /\ Writes(w, "committed") => writers[w].carried \notin outdated

\* Nothing outdated is where a reader of the web server would find it: in the
\* entry, in a load that may be joined, or in a load that may be kept.
NothingToFind ==
    /\ store[Home] # NoEntry => store[Home].value \notin outdated
    /\ inFlight[Home] # NoReader =>
         LET o == inFlight[Home] IN
         /\ ProcOf[o] = Home
         /\ readers[o].pc \in {"loading", "loaded", "stored"}
         /\ readers[o].pc # "loading" => readers[o].value \notin outdated
    /\ \A r \in Reader :
         ProcOf[r] = Home /\ Reads(r, "loaded") /\ MayKeep(r) =>
            readers[r].value \notin outdated

\* What a reader has found was not outdated when it began.
Fresh(r) ==
    LET me == readers[r] IN
    /\ me.version <= version[Home] /\ me.outdated \subseteq outdated
    /\ me.pc \in {"loaded", "stored"} => me.value \notin me.outdated
    /\ me.pc = "waiting" =>
         /\ me.owner \in Reader /\ ProcOf[me.owner] = Home
         /\ readers[me.owner].pc \in {"loading", "loaded", "stored"}
         /\ readers[me.owner].pc # "loading" =>
              readers[me.owner].value \notin me.outdated
    /\ ~me.misled

\* From its PutChange on, a lone change's value is all that can be cached.
LoneChange ==
    lone =>
    /\ \A v, w \in Active : v = w
    /\ \A w \in Writer :
         /\ Writes(w, "committed") => writers[w].carried = db
         /\ Writes(w, "put") =>
              /\ store[Home] # NoEntry => store[Home].value = db
              /\ \A r \in Reader :
                   ProcOf[r] = Home /\ Reads(r, "loaded") /\ MayKeep(r) =>
                      readers[r].value = db

GuardedInv ==
    /\ History /\ NothingToFind /\ LoneChange
    /\ \A r \in Reader : ProcOf[r] = Home => Fresh(r)

\* Elsewhere nothing is ever counted as outdated.
UnguardedInv ==
    /\ outdated = {}
    /\ \A r \in Reader : readers[r].outdated = {} /\ ~readers[r].misled

CacheInv == IF Guarded THEN GuardedInv ELSE UnguardedInv

=============================================================================
