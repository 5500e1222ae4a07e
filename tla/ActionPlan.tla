----------------------------- MODULE ActionPlan -----------------------------
(***************************************************************************)
(* reconcileConversationActions (domain/conversationActions.ts): the       *)
(* model's proposals and the patterns' findings become the actions of one  *)
(* turn.                                                                   *)
(*                                                                         *)
(* An action is [type, by, conf, ground, arg]: by "llm", "guardrail" or    *)
(* "state"; conf 0 below 0.65, 1 below 0.85, 2 from 0.85; ground "empty"   *)
(* (no evidence), "none" (not in the message), "words" (quoted from it) or *)
(* "verb" (quoted with a verb of buying); arg the quantity, the issue, the *)
(* topic, "none" when there is nothing to say, "empty" for an order update *)
(* none of whose fields is in the message, or "inapplicable" for a handoff *)
(* about returns or statistics the question does not raise.                *)
(* A text x is what the patterns find: explicit (the quantity bought       *)
(* outright, or "none"), counts (the quantities that appear), declines,    *)
(* last (which of buying and declining comes last), issue, stop, topic,    *)
(* lines (topics of a batch), exact (a topic held by a guard), effect (a   *)
(* purchase that hangs on the effect), policy ("price", "refund", "child"  *)
(* or "none").  A reading s is the model's: ready (an intent with          *)
(* confidence), sure (from 0.85), intent, aftersales, unsupported, aside   *)
(* (the subject is the product), actions, one of a type and argument.  Of  *)
(* the turn: own (the reaction is the customer's own and goes on),         *)
(* scenario, otherProduct, conditional (bought if no irritation follows).  *)
(* Intent labels, reasons and the texts of conflicts are left out.         *)
(***************************************************************************)
EXTENDS Naturals, FiniteSets

Quantity == {"one", "two", "three", "four", "five"}
Purchase == {"select_quantity", "continue_order_collection"}

\* The incidents of IssueType (domain/customerCare.ts).
Issue == {"ineffective", "irritation", "missing_or_damaged", "delivery", "counterfeit",
          "negative_review", "complaint"}
\* An action; a care case names its issue.
Action ==
  {a \in [type : {"stop_bot", "start_customer_care", "handoff_to_human",
                  "answer_question", "record_fact", "select_quantity", "update_order",
                  "continue_order_collection", "pause_order", "decline_purchase"},
          by : {"llm", "guardrail", "state"}, conf : 0..2,
          ground : {"empty", "none", "words", "verb"}, arg : STRING] :
     a.type = "start_customer_care" => a.arg \in Issue}

By(who, t, arg) == [type |-> t, by |-> who, conf |-> 2, ground |-> "words", arg |-> arg]
Of(as, t) == {a \in as : a.type = t}
Has(as, t) == Of(as, t) # {}
\* One of a kind is enough: deduplicate keeps what is there.
Unless(as, t, new) == IF Has(as, t) THEN as ELSE as \cup {new}

\* hasGroundedEvidence
Grounded(a) == a.ground \in {"words", "verb"}
\* A proposal of the model's that is certain and quoted.
Firm(a) == a.by = "llm" /\ a.conf = 2 /\ Grounded(a)

\* trustedLlmPurchaseQuantity: the one quantity the model is sure of, or "none".
Trusted(s, as, collecting) ==
  LET firm == {a \in Of(as, "select_quantity") : Firm(a) /\ a.arg \in Quantity}
      supports == \/ s.intent = "buying"
                  \/ collecting /\ s.intent = "order_support"
                  \/ s.intent = "decline_purchase"
                       /\ \E a \in Of(as, "decline_purchase") : Firm(a)
                  \/ \E a \in firm : a.ground = "verb"
      counts == {a.arg : a \in firm}
  IN IF s.sure /\ supports /\ Cardinality(counts) = 1
       THEN CHOOSE q \in counts : TRUE ELSE "none"

\* inferCareIssueFromSemanticHandoff
HandedIssue(s, as) ==
  IF s.aftersales /\ \E a \in Of(as, "handoff_to_human") : Firm(a)
    THEN "complaint" ELSE "none"

\* The proposals, with what the guards add about people and care.
WithCare(x, s, turn) ==
  LET asked == IF s.unsupported
                 THEN Unless(s.actions, "handoff_to_human",
                             By("state", "handoff_to_human", "none"))
                 ELSE s.actions
      held == IF x.exact # "none" /\ ~s.ready
                THEN Unless(asked \ {a \in Of(asked, "answer_question") :
                                       a.arg # x.exact},
                            "answer_question", By("guardrail", "answer_question", x.exact))
                ELSE asked
      stopped == IF x.stop THEN Unless(held, "stop_bot",
                                    By("guardrail", "stop_bot", "none"))
                 ELSE held
      issue == IF x.issue # "none" THEN x.issue ELSE HandedIssue(s, stopped)
      inScope == IF issue = "irritation"
                   THEN turn.scenario = "actual" /\ turn.own /\ ~s.aside
                 ELSE turn.scenario \notin {"hypothetical", "past"}
      care == By(IF x.issue # "none" THEN "guardrail" ELSE "state",
                 "start_customer_care", issue)
      opened == IF \E a \in Of(stopped, "start_customer_care") : a.arg = issue
                  THEN stopped ELSE stopped \cup {care}
  IN IF issue = "none" \/ ~inScope THEN stopped
     ELSE IF issue = "irritation"
       THEN Unless(opened, "answer_question",
                   By("guardrail", "answer_question", "irritation"))
       ELSE opened

\* A phrase that declines is an action of its own unless the model has one.
DeclineSaid(x, as) == x.declines /\ ~Has(as, "decline_purchase")

\* ... what they add about buying ...
WithPurchase(x, s, collecting, as) ==
  LET declined == IF DeclineSaid(x, as)
                    THEN as \cup {By("guardrail", "decline_purchase", "none")} ELSE as
      proposed == \E a \in Of(as, "select_quantity") : a.by = "llm"
  IN IF x.explicit # "none" /\ ~proposed
       THEN declined \cup {By("guardrail", "select_quantity", x.explicit),
                           By("state", "continue_order_collection", "none")}
     ELSE IF Trusted(s, as, collecting) # "none"
       THEN Unless(declined, "continue_order_collection",
                   By("state", "continue_order_collection", "none"))
     ELSE declined

\* ... and what they add about answering.
WithAnswers(x, s, collecting, as) ==
  LET topics == (IF s.ready THEN {} ELSE x.lines)
      batched == as \cup {By("state", "answer_question", t) :
                            t \in topics \ {a.arg : a \in Of(as, "answer_question")}}
      narrowed == IF x.explicit # "none" /\ x.effect
                    THEN batched \ {a \in Of(batched, "answer_question") :
                                      a.arg # "effectiveness"}
                    ELSE batched
      answered == IF x.topic = "none"
                       \/ \E a \in Of(narrowed, "answer_question") : a.arg = x.topic
                    THEN narrowed
                    ELSE narrowed \cup {By("state", "answer_question", x.topic)}
  IN IF collecting /\ x.topic # "none"
       THEN Unless(answered, "pause_order", By("state", "pause_order", "none"))
       ELSE answered

Candidates(x, s, turn, collecting) ==
  WithAnswers(x, s, collecting, WithPurchase(x, s, collecting, WithCare(x, s, turn)))

\* validateAction: an action that is wrong by itself.
Invalid(a, x, trusted) ==
  \/ a.by = "llm" /\ (a.conf = 0 \/ a.ground = "empty")
  \/ /\ a.type = "select_quantity"
     /\ \/ a.arg \notin Quantity
        \/ a.arg \notin x.counts /\ ~(a.by = "llm" /\ a.arg = trusted /\ Grounded(a))
  \/ a.type = "decline_purchase" /\ a.by = "llm" /\ ~Grounded(a)
  \/ a.type = "update_order" /\ a.arg = "empty"

\* Mutant of CareMisread: a reaction of somebody else may open a case.
CareMisreadScenario(a, turn) ==
  a.type = "start_customer_care" /\ turn.scenario \in {"hypothetical", "past"}
\* A care case over a reaction to another product, over one that is past or
\* imagined, or over somebody else's.
CareMisread(a, turn) ==
  /\ a.type = "start_customer_care"
  /\ \/ turn.otherProduct
     \/ turn.scenario \in {"hypothetical", "past"}
     \/ a.arg = "irritation" /\ ~turn.own

\* The candidates that stand, with the quantity trusted.
Accepted(x, s, turn, collecting, as, trusted) ==
  LET bought == x.explicit # "none" \/ trusted # "none"
      phrase == \E a \in Of(as, "select_quantity") : Firm(a) /\ a.ground = "verb"
      mere(a) == \* a number in a question, an order that nobody has begun
        \/ a.type = "select_quantity" /\ ~bought /\ ~phrase /\ a.arg \in x.counts
        \/ a.type = "continue_order_collection" /\ ~bought /\ ~collecting
      inapt(a) == a.type = "handoff_to_human" /\ a.arg = "inapplicable"
      conditional(a) == turn.conditional /\ a.type \in Purchase
      executes(a) == a.type \in Purchase \cup {"update_order"}
      allowed(a) ==
        \/ a.type = "select_quantity" /\ (trusted # "none" \/ a.arg = x.explicit \/ phrase)
        \/ a.type = "update_order" /\ a.arg # "empty"
        \/ /\ a.type = "continue_order_collection"
           /\ \/ bought \/ phrase
              \/ \E u \in Of(as, "update_order") : u.conf = 2 /\ Grounded(u)
  IN {a \in as : /\ ~mere(a) /\ ~inapt(a)
                 /\ ~CareMisread(a, turn) /\ ~conditional(a)
                 /\ ~Invalid(a, x, trusted)
                 /\ s.ready /\ executes(a) => allowed(a)}

\* The care issue of the turn: the model's before the guards'.
CareIssues(as) ==
  LET care == Of(as, "start_customer_care")
      first == {a \in care : a.by = "llm"}
  IN {a.arg : a \in IF first = {} THEN care ELSE first}

\* What stops a purchase: an incident, a child, a question to be verified, a
\* quantity inside a question about price or a refund.
Yields(x, issue, quoted) ==
  \/ issue \notin {"none", "ineffective"}
  \/ x.policy \in {"child", "refund"}
  \/ x.topic \in {"promotion", "other"}
  \/ x.policy = "price" /\ ~quoted

\* Mutant of Declined: what was bought stands whatever comes after it.
DeclinedOnlyAlone(as, x) ==
  Has(as, "decline_purchase") /\ ~Has(as, "select_quantity")
\* latestPurchaseDecision: with both a purchase and a refusal in one message, a
\* purchase stands when it comes last.
Declined(as, x) == Has(as, "decline_purchase") /\ x.last # "select"

NoPlan == [quantity |-> "none", declined |-> FALSE, paused |-> FALSE, stop |-> FALSE,
           handoff |-> FALSE, updates |-> FALSE, collects |-> FALSE,
           issue |-> "none", issues |-> {}]

\* The plans that follow from the candidates all, those that stand being as.
PlansFor(x, s, collecting, all, as) ==
  LET quoted == \/ collecting /\ Trusted(s, all, collecting) # "none"
                \/ \E a \in Of(all, "select_quantity") : Firm(a) /\ a.ground = "verb"
      issues == {a.arg : a \in Of(as, "start_customer_care")}
      drop(bs) == {a \in bs : a.type \notin Purchase}
      settle(bs) ==
        IF ~(Has(bs, "decline_purchase") /\ Has(bs, "select_quantity")) THEN bs
        ELSE IF Declined(bs, x) THEN drop(bs)
        ELSE bs \ Of(bs, "decline_purchase")
      final(issue) == settle(IF Yields(x, issue, quoted) THEN drop(as) ELSE as)
      stops(issue) == /\ issue \notin {"none", "ineffective"}
                      /\ \/ collecting \/ x.explicit # "none"
                         \/ \E a \in as : a.type \in Purchase
      plan(issue, q) ==
        LET bs == final(issue)
        IN [quantity |-> q, declined |-> Has(bs, "decline_purchase"),
            paused |-> Has(bs, "pause_order") \/ stops(issue),
            stop |-> Has(bs, "stop_bot"), handoff |-> Has(bs, "handoff_to_human"),
            updates |-> Has(bs, "update_order"),
            collects |-> Has(bs, "continue_order_collection"),
            issue |-> issue, issues |-> issues]
      quantities(issue) == {a.arg : a \in Of(final(issue), "select_quantity")}
  IN UNION {{plan(issue, q) : q \in IF quantities(issue) = {} THEN {"none"}
                                    ELSE quantities(issue)}
              : issue \in IF issues = {} THEN {"none"} ELSE CareIssues(as)}

\* reconcileConversationActions: the plans a turn may get (the order of the
\* model's proposals, which decides between two quantities or two issues of its
\* own, is not kept).
PlansOf(x, s, turn, collecting, all) ==
  PlansFor(x, s, collecting, all,
           Accepted(x, s, turn, collecting, all, Trusted(s, all, collecting)))
Plans(x, s, turn, collecting) ==
  PlansOf(x, s, turn, collecting, Candidates(x, s, turn, collecting))
=============================================================================
