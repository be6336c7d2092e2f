--------------------------- MODULE MCMailDelivery ---------------------------
(* MailDelivery over small sets: see the cfg files for the sizes. *)
EXTENDS MailDelivery, TLC

\* Nothing tells the deliveries, the re-matches, the addresses or the mailbox ids
\* apart: recipients are taken in any order.
Symmetry == UNION {Permutations(S) : S \in {Delivery, Refresh, Address, MailboxId}}
=============================================================================
