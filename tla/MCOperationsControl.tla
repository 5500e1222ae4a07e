------------------------ MODULE MCOperationsControl ------------------------
(* A small instance of OperationsControl; its requests are interchangeable. *)
EXTENDS OperationsControl, TLC

Interchangeable == Permutations(Requests)
=============================================================================
