------------------------------ MODULE RateWindow ------------------------------
(***************************************************************************)
(* The limit of requests of one key: a bucket counts the requests of a     *)
(* window that starts with the first of them.  The store in memory and the *)
(* script that Redis runs keep the same bucket.  Time is in ticks, and a   *)
(* bucket holds how long ago its window started and it was last seen.      *)
(***************************************************************************)
EXTENDS Naturals, FiniteSetsExt

CONSTANTS
    Window,                     \* windowMs
    Limits,                     \* limits the policy may be set to
    MaxEvictions                \* bound: evictions of the bucket in one tick

ASSUME WindowAssumption ==
    /\ Window \in Nat \ {0} /\ MaxEvictions \in Nat
    /\ Limits \subseteq Nat \ {0}
    \* RATE_LIMIT_VALIDATION has a maximum.
    /\ \E most \in Limits : \A limit \in Limits : limit <= most

VARIABLES
    bucket,
    answer,                     \* of the last request
    allowed, evicted            \* history: how often, in the last t + 1 ticks

limitVars == <<bucket, answer, allowed, evicted>>

BucketTtl == 2 * Window

NoBucket == [started |-> 0, seen |-> 0, count |-> 0]

\* The ticks of a time as long as the window, the current one first, and what has
\* happened in the last of them.
Span == 0 .. Window - 1
Counted(counts) == [t \in Span |-> counts[t] + 1]
Passed(counts)  == [t \in Span |-> IF t = 0 THEN 0 ELSE counts[t - 1]]

LimitsTypeOK ==
    /\ bucket \in [started : 0 .. BucketTtl, seen : 0 .. BucketTtl, count : Nat]
    /\ answer \in {"none", "allowed", "refused"}
    /\ allowed \in [Span -> Nat]
    /\ evicted \in [Span -> Nat]

\* Buckets not seen for their lifetime are gone before a request is counted.
Pruned == IF bucket.seen >= BucketTtl THEN NoBucket ELSE bucket

Opens(b) == b = NoBucket \/ b.started >= Window

WrongFull(b, limit) == b.count > limit
Full(b, limit) == b.count >= limit

Allow(b) ==
    /\ bucket' = b /\ answer' = "allowed"
    /\ allowed' = Counted(allowed)
    /\ UNCHANGED evicted

WrongSeen(b) == [b EXCEPT !.seen = 0, !.started = 0]
Seen(b) == [b EXCEPT !.seen = 0]

Ask(limit) ==
    \/ Opens(Pruned) /\ Allow([started |-> 0, seen |-> 0, count |-> 1])
    \/ /\ ~Opens(Pruned) /\ ~Full(Pruned, limit)
       /\ Allow([Seen(Pruned) EXCEPT !.count = @ + 1])
    \/ /\ ~Opens(Pruned) /\ Full(Pruned, limit)
       /\ bucket' = Seen(Pruned) /\ answer' = "refused"
       /\ UNCHANGED <<allowed, evicted>>

\* The table of a process is full of other keys, and this one is the oldest.
Forget ==
    /\ bucket # NoBucket /\ evicted[0] < MaxEvictions
    /\ bucket' = NoBucket
    /\ evicted' = Counted(evicted)
    /\ UNCHANGED <<answer, allowed>>

Older(ticks) == Min({ticks + 1, BucketTtl})

\* The clock.
Pass ==
    /\ bucket' = IF bucket = NoBucket THEN NoBucket
                 ELSE [bucket EXCEPT !.started = Older(@), !.seen = Older(@)]
    /\ allowed' = Passed(allowed) /\ evicted' = Passed(evicted)
    /\ UNCHANGED answer

InitLimits ==
    /\ bucket = NoBucket /\ answer = "none"
    /\ allowed = [t \in Span |-> 0] /\ evicted = [t \in Span |-> 0]

NextLimits == (\E limit \in Limits : Ask(limit)) \/ Forget \/ Pass

LimitsSpec == InitLimits /\ [][NextLimits]_limitVars

-----------------------------------------------------------------------------
(* In any time as long as the window at most two windows overlap, so that  *)
(* at most twice the limit is allowed; each eviction of the bucket may add *)
(* the limit once more (memory-store.ts rateLimit, RATE_LIMIT_LUA).        *)
WindowBound ==
    allowed[Window - 1] <= Max(Limits) * (2 + evicted[Window - 1])

(* A client that goes on asking while the clock runs is let in again: what *)
(* is refused does not prolong the window.                                 *)
AskingIsServed == []<>(answer # "refused")

=============================================================================
