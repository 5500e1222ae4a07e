---------------------------- MODULE MCHybridLlm ----------------------------
(* Small instances of HybridLlm. *)
EXTENDS HybridLlm
=============================================================================
