------------------------- MODULE MCCommentWorkflow -------------------------
(* Small instances of CommentWorkflow; the workers are interchangeable. *)
EXTENDS CommentWorkflow, TLC

WorkerSymmetry == Permutations(Workers)
=============================================================================
