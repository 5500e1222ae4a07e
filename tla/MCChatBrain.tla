----------------------------- MODULE MCChatBrain -----------------------------
(***************************************************************************)
(* Bounds: a text says at most one thing, except where two together matter *)
(* (a style warning hides a missing welcome, a statement about the past, a *)
(* promise beside a missing topic); of the faults every guard treats alike *)
(* one stands for all.  Beside the order itself an outcome has one mark.   *)
(***************************************************************************)
EXTENDS ChatBrain

MCWritings ==
  {{}} \cup {{t} : t \in Thing \ {"commerce", "priceStory", "shapeless"}}
    \cup {{"rude", "contentless"}, {"created", "past"}, {"tracked", "past"},
          {"free", "offTopic"}, {"quantity", "offTopic"}}

MCOutcomes ==
  {d \in SUBSET Outcome :
     /\ Consistent(d)
     /\ Cardinality(d \ {"quantity", "created", "tracked", "multi"}) <= 1}
=============================================================================
