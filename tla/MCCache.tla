------------------------------- MODULE MCCache -------------------------------
(***************************************************************************)
(* CacheStore for TLC: which process each reader runs in.                  *)
(***************************************************************************)
EXTENDS CacheStore

Runs == [r \in Reader |-> IF r = "sync" THEN "imap" ELSE "web"]
==============================================================================
