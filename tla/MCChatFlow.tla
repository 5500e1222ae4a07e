------------------------------ MODULE MCChatFlow -----------------------------
(* An order needs two fields; a customer reports a parcel that came damaged. *)
EXTENDS ChatFlow

MCFields == {"recipient", "address"}
MCModes == {"inbox", "sandbox"}
\* The demo of the dashboard only adds the operator's two actions.
MCMaxTurns == [mode \in MCModes |-> IF mode = "inbox" THEN 3 ELSE 2]
MCIssues == {"missing_or_damaged"}
=============================================================================
