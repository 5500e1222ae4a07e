------------------------- MODULE MCConversationTurn -------------------------
(* Small instances of ConversationTurn; the configurations set its constants. *)
EXTENDS ConversationTurnProperties, TLC

Symmetry == Permutations(Workers)
=============================================================================
