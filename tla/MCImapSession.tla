---------------------------- MODULE MCImapSession ----------------------------
(* Instances of ImapSession for TLC. *)
EXTENDS ImapSession, TLC

Symmetry == Permutations(Trigger)
=============================================================================
