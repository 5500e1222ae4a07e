---------------------------- MODULE MCOrderInbox ----------------------------
(* Small instances of OrderInbox. *)
EXTENDS OrderInboxProperties, TLC

\* Requests of the order page are interchangeable.
ClerkSymmetry == Permutations(Clerks)
=============================================================================
