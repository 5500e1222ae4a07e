----------------------------- MODULE ReplyGuards -----------------------------
(***************************************************************************)
(* What the guards of the reply make of a text (services/codexLlm.ts,      *)
(* domain/finalResponseValidator.ts, domain/responseConsistency.ts).       *)
(*                                                                         *)
(* A text is the set of the things in it that some guard looks for: what   *)
(* it says was done, what it asks of the customer, and its faults.  A      *)
(* fault that only counts in some turns (a lost question when the workflow *)
(* asked for the quantity, an unsourced answer when a source is required)  *)
(* is in a text only when it counts.  What the turn left behind is the set *)
(* of the things that were done.  A statement is worded so that every      *)
(* guard which looks for it recognises it.                                 *)
(***************************************************************************)
EXTENDS Naturals, FiniteSets

\* "quantity": a quantity was chosen; "created": the order exists; "tracked": it
\* has a tracking number; "handed": a person takes over; "free": free shipping.
Claim == {"quantity", "created", "tracked", "handed", "free"}
\* Asking again for the confirmation of a created order, or for the recipient;
\* "past": the statements are about an earlier order.
Request == {"confirmation", "details", "past"}
\* The rules of claims, sources, price changes, prices of its own, required facts,
\* the question of the workflow, style, helpfulness and shape; then the canonical
\* knowledge (unsupported, or in conflict), the required topics, the customer's
\* own facts, and a value which is not that of the order.
Fault == {"unsafe", "unsourced", "priceStory", "commerce", "lacking", "astray",
          "rude", "contentless", "shapeless",
          "unsupported", "conflicting", "offTopic", "misremembered", "misvalued"}
Thing == Claim \cup Request \cup Fault

\* What a turn leaves behind besides: the quantity was accepted in this very turn,
\* the action plan paused the order, the bot waits for a person, and the turn ran
\* with several actions.
Outcome == Claim \cup {"chosenNow", "held", "paused", "multi"}

\* An outcome the workflow can produce: a tracked order is created, a created one
\* has a quantity, and two pieces come without shipping costs or not.
Consistent(done) ==
  /\ "tracked" \in done => "created" \in done
  /\ "created" \in done \/ "chosenNow" \in done => "quantity" \in done

-----------------------------------------------------------------------------
(* The guards of the language model's wordings *)

\* assertActionClaimsGrounded: what is said was done, and what is asked for may
\* still be asked.
ActionClaimsGrounded(text, done) ==
  /\ text \cap Claim \subseteq done
  /\ "confirmation" \in text => "created" \notin done
  /\ "details" \in text => "held" \notin done

\* The checks every wording passes.
Grounded(text, done) ==
  /\ text \cap {"unsafe", "commerce", "priceStory", "lacking"} = {}
  /\ ActionClaimsGrounded(text, done)

\* adoptInterpretedDraft: style only warns, and the warning ends the checks.
DraftPasses(text, done) ==
  /\ Grounded(text, done)
  /\ text \cap {"unsourced", "astray"} = {}
  /\ "contentless" \in text => "rude" \in text

\* repairInterpretedDraft: style counts, sources and direction do not.
RepairPasses(text, done) ==
  /\ Grounded(text, done)
  /\ text \cap {"rude", "contentless", "shapeless"} = {}

\* composePostCommit.
PostCommitPasses(text, done) == RepairPasses(text, done) /\ "astray" \notin text

\* assertCanonicalFactApplicability and assertCanonicalClaimsSupported.
FollowsKnowledge(text) == text \cap {"unsupported", "conflicting"} = {}

-----------------------------------------------------------------------------
(* The final validation *)

\* The receipts of the turn: only what the order transaction accepted carries this
\* turn's number, the order and the shipment are good for a statement about the
\* past, an accepted hand-over is of unknown outcome.
Vouched(text, done) ==
  {c \in {"quantity"} : "chosenNow" \in done}
    \cup {c \in {"created", "tracked"} : "past" \in text /\ c \in done}

\* transactionClaims without a receipt.
Unvouched(text, done) == (text \cap (Claim \ {"free"})) \ Vouched(text, done)

\* validateFinalResponse.
Issues(text, done) ==
  Unvouched(text, done)
    \cup (text \cap {"unsupported", "conflicting", "lacking", "offTopic",
                     "misremembered"})

\* Issues another wording can mend: none asks for another context.
Mendable(issues) == issues \cap (Claim \cup {"conflicting"}) = {}

\* assertReplyMatchesConversationState.
MatchesState(text, done) ==
  /\ "misvalued" \notin text
  /\ "multi" \in done =>
       /\ "quantity" \in text => "quantity" \in done
       /\ text \cap {"created", "tracked"} # {} => "created" \in done
       /\ "details" \in text => "paused" \notin done
=============================================================================
