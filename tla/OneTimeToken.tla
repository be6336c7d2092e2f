---------------------------- MODULE OneTimeToken ----------------------------
(***************************************************************************)
(* What a one-time token promises: whatever requests race for it, it takes *)
(* effect at most once, only after it was issued, and never after it was   *)
(* revoked unspent.  AccountTokens implements it.                          *)
(***************************************************************************)
EXTENDS Naturals

CONSTANT Token

VARIABLES
    issued,                     \* tokens handed out
    revoked,                    \* those taken back before they were spent
    effects                     \* how often each took effect

vars == <<issued, revoked, effects>>

Init ==
    /\ issued = {} /\ revoked = {}
    /\ effects = [t \in Token |-> 0]

\* Tokens are handed out, and others taken back in the same transaction.
Replace(new, old) ==
    /\ new \subseteq Token \ issued
    /\ old \subseteq {t \in issued : effects[t] = 0}
    /\ issued' = issued \union new
    /\ revoked' = revoked \union old

Unspent == {t \in issued \ revoked : effects[t] = 0}

Spend(used) == effects' = [t \in Token |-> IF t \in used THEN 1 ELSE effects[t]]

\* One token may be exchanged for another in a single step.
Next ==
    \/ \E new, old \in SUBSET Token : Replace(new, old) /\ UNCHANGED effects
    \/ \E t \in Unspent, new \in SUBSET Token :
         Spend({t}) /\ Replace(new, {})

Spec == Init /\ [][Next]_vars

=============================================================================
