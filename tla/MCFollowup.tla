------------------------------ MODULE MCFollowup -----------------------------
(* Instances of Followup for TLC. *)
EXTENDS FollowupProperties, TLC

WorkerSymmetry == Permutations(FollowupWorkers)
=============================================================================
