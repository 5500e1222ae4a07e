------------------------------- MODULE Routing -------------------------------
(***************************************************************************)
(* resolveConversationDecision (domain/conversationDecision.ts): the one   *)
(* route a turn takes, from what the patterns, the session and the model   *)
(* say of its message.                                                     *)
(*                                                                         *)
(* The signals i of a turn: optOut; activeCare, interrupts (a direct       *)
(* question may leave the open case); issue, scenario (of the incident, if *)
(* any); confirms (the complete order is said to be right); offer (the one *)
(* pending, or "none"), affirms, replyTo (the offer the model sees         *)
(* answered); selects (a quantity is bought outright); exact (the intent   *)
(* the rules settle on, or "none"), hard (and hold against the model);     *)
(* intent, ready, doubts (the model's: confident and sure what it means,   *)
(* or confident and asking back); collects (an order is being filled),     *)
(* data (the message may belong to it).  The trace, its reasons and the    *)
(* confidences beside the threshold are left out.                          *)
(***************************************************************************)
EXTENDS Naturals, Sequences

\* pendingIntent: what a customer wants who takes the offer up.
PendingIntent(o) ==
  CASE o = "usage" -> "usage_guidance"
    [] o = "price" -> "price_request"
    [] o = "legal" -> "authenticity_question"
    [] OTHER -> "buying"

\* pendingReplyTo: the legal papers are no offer the model can refer to.
PendingReplyTo(o) == IF o = "legal" THEN "none" ELSE o

\* An incident of any kind but a product that does not help.
Critical(i) == i.issue \notin {"none", "ineffective"}

Ordering == {"buying", "order_support"}

\* The pending offer is what the message answers: nothing is asked beside it and
\* no quantity is named.
TakesOffer(i) ==
  LET asks == i.ready /\ i.intent \notin Ordering \cup {PendingIntent(i.offer)}
      answers == \/ i.affirms
                 \/ i.replyTo # "none" /\ i.replyTo = PendingReplyTo(i.offer)
  IN  i.offer # "none" /\ ~asks /\ ~i.selects /\ answers

\* A product that does not help, which no confident reading explains otherwise.
Ineffective(i) ==
  /\ i.issue = "ineffective" /\ i.scenario # "hypothetical"
  /\ i.intent \in {"other", "ineffective"} \/ ~(i.ready \/ i.doubts)

\* The rules of the decision, the first that applies being the one that counts
\* (the one for a direct question beside an order asks for what "ready" asks, and
\* comes after it: it never applies).
RouteTable(i) ==
  << [to |-> "opt_out", if |-> i.optOut],
     [to |-> "active_care", if |-> i.activeCare /\ ~i.interrupts],
     [to |-> "start_care", if |-> Critical(i) /\ i.scenario # "hypothetical"],
     [to |-> "order_confirmation", if |-> i.confirms],
     [to |-> "pending_action", if |-> TakesOffer(i)],
     [to |-> "direct_intent", if |-> i.exact # "none" /\ i.hard],
     [to |-> "order_collection",
      if |-> i.ready /\ i.collects /\ i.data /\ i.intent \in Ordering],
     [to |-> "direct_intent", if |-> i.ready],
     [to |-> "order_collection", if |-> i.collects /\ i.data],
     [to |-> "direct_intent", if |-> i.collects /\ i.exact # "none"],
     [to |-> "start_care", if |-> Ineffective(i)],
     [to |-> "direct_intent", if |-> i.exact # "none"],
     [to |-> "clarification", if |-> i.collects],
     [to |-> "consultation", if |-> TRUE] >>

Route(i) ==
  LET table == RouteTable(i)
      first == CHOOSE k \in DOMAIN table :
                 table[k].if /\ \A j \in 1 .. k - 1 : ~table[j].if
  IN  table[first].to
=============================================================================
