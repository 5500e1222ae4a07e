------------------------------- MODULE CareCase ------------------------------
(***************************************************************************)
(* The customer-care case of a conversation (domain/customerCare.ts): what *)
(* it has been told, the question it asks next, and when it hands the      *)
(* customer to a person.  A case is a record; every operator returns the   *)
(* set of cases a message of the customer can lead to, since what the      *)
(* message says is the customer's choice.                                  *)
(*                                                                         *)
(* facts are the answers recorded: "night" and "dry" (used as instructed), *)
(* "fortnight" (used for two weeks), the three bank facts, "clip" and      *)
(* "photo" (evidence), "intact" and "noProcedure" (the skin), "phone",     *)
(* "channel", "order", "problem", "wish".  An answer that ends the         *)
(* questions (wrong usage, hurt skin, less than two weeks) leads to the    *)
(* follow-up stage and is not kept.                                        *)
(***************************************************************************)
EXTENDS Naturals

Issue == {"irritation", "ineffective", "missing_or_damaged", "delivery",
          "complaint", "counterfeit", "negative_review"}
Fact == {"night", "dry", "fortnight", "account", "bank", "beneficiary",
         "clip", "photo", "intact", "noProcedure", "phone", "channel",
         "order", "problem", "wish"}
Stage == {"current_skin", "recent_procedure", "used_at_night", "skin_dry",
          "usage_duration", "bank_account", "bank_name", "beneficiary_name",
          "phone", "purchase_channel", "order_id", "review_problem",
          "desired_resolution", "evidence", "human_review", "followup"}

NoCase == [issue |-> "none"]
Case == [issue : Issue, stage : Stage, facts : SUBSET Fact, paused : BOOLEAN]

\* What a stage asks for: the fact an answer adds.
Asks(i, st) ==
  CASE st = "current_skin" -> "intact"
    [] st = "recent_procedure" -> "noProcedure"
    [] st = "used_at_night" -> "night"
    [] st = "skin_dry" -> "dry"
    [] st = "usage_duration" -> "fortnight"
    [] st = "bank_account" -> "account"
    [] st = "bank_name" -> "bank"
    [] st = "beneficiary_name" -> "beneficiary"
    [] st = "phone" -> "phone"
    [] st = "purchase_channel" -> "channel"
    [] st = "order_id" -> "order"
    [] st = "review_problem" -> "problem"
    [] st = "desired_resolution" -> "wish"
    [] st = "evidence" -> IF i = "ineffective" THEN "clip" ELSE "photo"

\* advanceCareFlow: where the answer to a stage leads.
\* Mutant of AfterStage: the papers are not asked for.
AfterStageHasty(i, st) ==
  CASE st = "usage_duration" -> "evidence"
    [] st = "skin_dry" -> "usage_duration"
    [] st = "used_at_night" -> "skin_dry"
    [] OTHER -> "human_review"
AfterStage(i, st) ==
  CASE st = "current_skin" -> "recent_procedure"
    [] st \in {"recent_procedure", "used_at_night"} -> "skin_dry"
    [] st = "skin_dry" ->
         IF i = "ineffective" THEN "usage_duration" ELSE "human_review"
    [] st = "usage_duration" -> "bank_account"
    [] st = "bank_account" -> "bank_name"
    [] st = "bank_name" -> "beneficiary_name"
    [] st \in {"beneficiary_name", "phone"} -> "evidence"
    [] st \in {"purchase_channel", "review_problem"} -> "order_id"
    [] st = "order_id" ->
         IF i = "counterfeit" THEN "evidence" ELSE "desired_resolution"
    [] st \in {"desired_resolution", "evidence"} -> "human_review"

\* The stages an answer can end: the skin must heal, the product was used the
\* wrong way or not for long enough, and the customer is followed up.
EndsInFollowup == {"current_skin", "recent_procedure", "used_at_night",
                   "skin_dry", "usage_duration"}

\* next(): the case waits for a person exactly when it is handed over; the
\* answers are not read again once the customer is followed up.
At(c, st) ==
  [c EXCEPT !.stage = st, !.paused = (st = "human_review"),
            !.facts = IF st = "followup" THEN {} ELSE @]

\* advanceCareFlow.  A message that does not answer repeats the question; the
\* last two stages repeat theirs whatever the message says.
AdvanceCareFlow(c) ==
  {c} \cup
  IF c.stage \in {"human_review", "followup"} THEN {}
  ELSE {At([c EXCEPT !.facts = @ \cup {Asks(c.issue, c.stage)}],
           AfterStage(c.issue, c.stage))}
       \cup IF c.stage \in EndsInFollowup THEN {At(c, "followup")} ELSE {}

\* extractInitialCareFacts: what the first message may already say.
InitialFacts(i) ==
  CASE i = "ineffective" -> SUBSET {"night", "dry", "fortnight"}
    [] i = "irritation" -> SUBSET {"intact", "noProcedure", "dry"}
    [] i = "missing_or_damaged" -> SUBSET {"phone"}
    [] OTHER -> {{}}

\* startCareFlow: the first question the facts leave open.  With two weeks of
\* use but not both instructions known the questions start over.
FirstStage(i, f) ==
  CASE i = "irritation" ->
         IF "intact" \notin f THEN "current_skin"
         ELSE IF "noProcedure" \notin f THEN "recent_procedure"
         ELSE IF "dry" \notin f THEN "skin_dry" ELSE "human_review"
    [] i = "ineffective" ->
         IF "night" \notin f THEN "used_at_night"
         ELSE IF "dry" \notin f THEN "skin_dry"
         ELSE IF "fortnight" \notin f THEN "usage_duration" ELSE "bank_account"
    [] i = "missing_or_damaged" ->
         IF "phone" \in f THEN "evidence" ELSE "phone"
    [] i = "counterfeit" -> "purchase_channel"
    [] i = "negative_review" -> "review_problem"
    [] OTHER -> "human_review"     \* delivery, complaint: immediateHandoff

StartCareFlow(i) ==
  {At([issue |-> i, stage |-> "human_review", facts |-> f, paused |-> TRUE],
      FirstStage(i, f)) : f \in InitialFacts(i)}
  \cup IF i \notin {"irritation", "ineffective"} THEN {}
       ELSE {[issue |-> i, stage |-> "followup", facts |-> {},
              paused |-> FALSE]}

\* The file a person needs to decide the case.
Papers(i) ==
  CASE i = "ineffective" ->
         {"night", "dry", "fortnight", "account", "bank", "beneficiary", "clip"}
    [] i = "irritation" -> {"intact", "noProcedure", "dry"}
    [] i = "missing_or_damaged" -> {"phone", "photo"}
    [] i = "counterfeit" -> {"channel", "order", "photo"}
    [] i = "negative_review" -> {"problem", "order", "wish"}
    [] OTHER -> {}

\* The pipeline of the turn: waiting for a person, or under way.
CarePipe(c) == IF c.stage = "human_review" THEN "C3" ELSE "care"
=============================================================================
