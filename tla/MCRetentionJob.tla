--------------------------- MODULE MCRetentionJob ---------------------------
(***************************************************************************)
(* Instances of RetentionJob for TLC.  A behaviour is about the mailboxes  *)
(* of one scene, the others were deleted before it: in "races" one job and *)
(* the handlers race over an email for four days; in "calls" two calls of  *)
(* the job meet under every policy for three, and no handler is called.    *)
(***************************************************************************)
EXTENDS RetentionJob

CONSTANTS
    Scene,                    \* the scenes of the run
    e1, e2, e3, b1, b2, b3, j1, j2

VARIABLE scene

BoxesOf == [races |-> {b3}, calls |-> {b1, b2}]
JobsOf  == [races |-> {j1}, calls |-> {j1, j2}]
DaysOf  == [races |-> 3, calls |-> 2]

\* b1 and its emails are deleted, b2 and its emails archived; b3 stays, and its
\* emails are deleted.
MCBoxOf       == [e \in Email |-> CASE e = e1 -> b1 [] e = e2 -> b2 [] e = e3 -> b3]
MCEmailPolicy == [b \in Box |->
                    [days |-> 1, action |-> IF b = b2 THEN "ARCHIVE" ELSE "DELETE"]]
MCBoxPolicy   == [MCEmailPolicy EXCEPT ![b3].days = 0]

\* No policy ends the time of a mailbox or an email.
NoPolicy == [b \in Box |-> [days |-> 0, action |-> "ARCHIVE"]]

MCInit ==
    /\ Init /\ scene \in Scene
    /\ \A b \in Box : mailboxes[b].there <=> b \in BoxesOf[scene]

MCNext ==
    /\ Next /\ UNCHANGED scene
    /\ \A j \in Job \ JobsOf[scene] : jobs'[j] = NoJob
    /\ today' <= DaysOf[scene]
    /\ scene = "calls" => UNCHANGED requests
    /\ scene = "races" => ~UpdateMailbox    \* it would only keep emails from arriving

MCSpec == MCInit /\ [][MCNext]_<<vars, scene>> /\ \A j \in Job : WF_vars(JobStep(j))
=============================================================================
