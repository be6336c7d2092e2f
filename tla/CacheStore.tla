------------------------------ MODULE CacheStore ------------------------------
(***************************************************************************)
(* The two things that are kept in one store, of which a behaviour uses    *)
(* one: they share no entry, and so nothing is lost by not mixing them.    *)
(***************************************************************************)
EXTENDS ValueCache, RateWindow

VARIABLE part

storeVars == <<vars, limitVars, part>>

Values(action) == part = "values" /\ action /\ UNCHANGED <<limitVars, part>>
Counts(action) == part = "limits" /\ action /\ UNCHANGED <<vars, part>>

StoreInit == Init /\ InitLimits /\ part \in {"values", "limits"}
StoreNext == Values(Next) \/ Counts(NextLimits)

\* In a behaviour of limits nothing of Fairness is ever enabled.
StoreFairness ==
    /\ Fairness
    /\ WF_storeVars(Counts(Pass))
    /\ WF_storeVars(Counts(\E limit \in Limits : Ask(limit)))

StoreSpec == StoreInit /\ [][StoreNext]_storeVars /\ StoreFairness

TypesOK == TypeOK /\ LimitsTypeOK
==============================================================================
