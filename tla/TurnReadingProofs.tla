-------------------------- MODULE TurnReadingProofs --------------------------
(***************************************************************************)
(* Theorems of TurnReading, for any messages, texts, readings and bounds:  *)
(*                                                                         *)
(*   RefusalDecides       LastWordDecides, from what each stage of the     *)
(*                        reconciliation adds to the candidates;           *)
(*   ReactionsAreCared    CareFollowsReaction, from the same and from the  *)
(*                        first rule of the route that applies;            *)
(*   LedgerHoldsTogether  the inductive invariant LedgerInv: one current   *)
(*                        value per single-valued fact;                    *)
(*   SayableAgrees        SayableFactsAgree;                               *)
(*   RetriesAddNothing    RetryIsIdempotent, by following the ledger       *)
(*                        through the claims of a message read twice;      *)
(*   ReadingTypeCorrect   the types of the state.                          *)
(*                                                                         *)
(* The ledger is folded over the claims of a message.  What holds after    *)
(* every claim is shown with the set of the naturals after which it holds  *)
(* (SetInduction).                                                         *)
(***************************************************************************)
EXTENDS TurnReading, FiniteSetTheorems, SequenceTheorems, TLAPS

-----------------------------------------------------------------------------
(* The actions of a turn *)

\* An action that is added once is there, and takes nothing away.
LEMMA UnlessKeeps ==
  ASSUME NEW as, NEW t, NEW b PROVE as \subseteq Unless(as, t, b)
BY DEF Unless

\* The first candidates: nothing of the model's goes but answers, and nothing that
\* buys or refuses is added.
LEMMA WithCareAdds ==
  ASSUME NEW x, NEW s, NEW turn, NEW a,
         a.type \in Purchase \cup {"decline_purchase"}
  PROVE  a \in WithCare(x, s, turn) <=> a \in s.actions
<1> DEFINE asked == IF s.unsupported
                      THEN Unless(s.actions, "handoff_to_human",
                                  By("state", "handoff_to_human", "none"))
                      ELSE s.actions
           held == IF x.exact # "none" /\ ~s.ready
                     THEN Unless(asked \ {b \in Of(asked, "answer_question") :
                                            b.arg # x.exact},
                                 "answer_question",
                                 By("guardrail", "answer_question", x.exact))
                     ELSE asked
           stopped == IF x.stop THEN Unless(held, "stop_bot",
                                         By("guardrail", "stop_bot", "none"))
                      ELSE held
<1>1. \A as, t, b : b.type \notin Purchase \cup {"decline_purchase"} =>
        (a \in Unless(as, t, b) <=> a \in as)
  BY DEF Unless
<1>2. \A who, t, arg : By(who, t, arg).type = t
  BY DEF By
<1>3. {"handoff_to_human", "answer_question", "stop_bot", "start_customer_care"}
        \cap (Purchase \cup {"decline_purchase"}) = {}
  BY DEF Purchase
<1>4. a \in asked <=> a \in s.actions
  BY <1>1, <1>2, <1>3
<1>5. a \in held <=> a \in asked
  <2> HIDE DEF asked
  <2> QED BY <1>1, <1>2, <1>3 DEF Of
<1>6. a \in stopped <=> a \in held
  <2> HIDE DEF held
  <2> QED BY <1>1, <1>2, <1>3
<1>7. a \in WithCare(x, s, turn) <=> a \in stopped
  <2> DEFINE issue == IF x.issue # "none" THEN x.issue ELSE HandedIssue(s, stopped)
             case == By(IF x.issue # "none" THEN "guardrail" ELSE "state",
                        "start_customer_care", issue)
             opened == IF \E b \in Of(stopped, "start_customer_care") : b.arg = issue
                         THEN stopped ELSE stopped \cup {case}
  <2>1. WithCare(x, s, turn) \in
          {stopped, opened, Unless(opened, "answer_question",
                                   By("guardrail", "answer_question", "irritation"))}
    BY DEF WithCare
  <2> HIDE DEF stopped
  <2>2. a \in opened <=> a \in stopped
    BY <1>2, <1>3
  <2> HIDE DEF opened
  <2>3. a \in Unless(opened, "answer_question",
                     By("guardrail", "answer_question", "irritation"))
          <=> a \in opened
    BY <1>1, <1>2, <1>3
  <2> QED BY <2>1, <2>2, <2>3
<1> QED BY <1>4, <1>5, <1>6, <1>7

\* A refusal the patterns find is among the candidates, unless the model has one.
LEMMA RefusalIsCandidate ==
  ASSUME NEW x, NEW s, NEW turn, NEW collecting, x.declines,
         ~ \E a \in s.actions : a.type = "decline_purchase"
  PROVE  By("guardrail", "decline_purchase", "none")
           \in Candidates(x, s, turn, collecting)
<1> DEFINE no == By("guardrail", "decline_purchase", "none")
           as == WithCare(x, s, turn)
           bs == WithPurchase(x, s, collecting, as)
<1>1. no.type = "decline_purchase"
  BY DEF By
<1>2. \A a \in as : a.type # "decline_purchase"
  BY WithCareAdds
<1>3. DeclineSaid(x, as)
  BY <1>2 DEF DeclineSaid, Has, Of
<1>4. no \in bs
  <2> HIDE DEF as, no
  <2> QED BY <1>3, UnlessKeeps DEF WithPurchase, no
<1>5. no \in WithAnswers(x, s, collecting, bs)
  <2> HIDE DEF bs, no
  <2> QED BY <1>1, <1>4 DEF WithAnswers, Unless, Of
<1> QED BY <1>5 DEF Candidates

\* It stands: nothing is wrong with it.
LEMMA RefusalStands ==
  ASSUME NEW x, NEW s, NEW turn, NEW collecting, NEW all, NEW trusted,
         By("guardrail", "decline_purchase", "none") \in all
  PROVE  By("guardrail", "decline_purchase", "none")
           \in Accepted(x, s, turn, collecting, all, trusted)
BY DEF Accepted, By, CareMisread, Invalid, Purchase

\* What the plan of a turn says of buying and of incidents.
LEMMA PlanSettles ==
  ASSUME NEW x, NEW s, NEW collecting, NEW all, NEW as,
         NEW p \in PlansFor(x, s, collecting, all, as), p.quantity # "none"
  PROVE  /\ p.issue \in {"none", "ineffective"}
         /\ ~p.declined
         /\ Has(as, "decline_purchase") => x.last = "select"
<1> DEFINE quoted == \/ collecting /\ Trusted(s, all, collecting) # "none"
                     \/ \E a \in Of(all, "select_quantity") :
                          Firm(a) /\ a.ground = "verb"
           issues == {a.arg : a \in Of(as, "start_customer_care")}
           drop(bs) == {a \in bs : a.type \notin Purchase}
           settle(bs) ==
             IF ~(Has(bs, "decline_purchase") /\ Has(bs, "select_quantity")) THEN bs
             ELSE IF Declined(bs, x) THEN drop(bs)
             ELSE bs \ Of(bs, "decline_purchase")
           left(issue) == IF Yields(x, issue, quoted) THEN drop(as) ELSE as
           final(issue) == settle(left(issue))
           quantities(issue) == {a.arg : a \in Of(final(issue), "select_quantity")}
           stops(issue) == /\ issue \notin {"none", "ineffective"}
                           /\ \/ collecting \/ x.explicit # "none"
                              \/ \E a \in as : a.type \in Purchase
           of(issue, q) ==
             [quantity |-> q, declined |-> Has(final(issue), "decline_purchase"),
              paused |-> Has(final(issue), "pause_order") \/ stops(issue),
              stop |-> Has(final(issue), "stop_bot"),
              handoff |-> Has(final(issue), "handoff_to_human"),
              updates |-> Has(final(issue), "update_order"),
              collects |-> Has(final(issue), "continue_order_collection"),
              issue |-> issue, issues |-> issues]
           cases == IF issues = {} THEN {"none"} ELSE CareIssues(as)
           bought(issue) == IF quantities(issue) = {} THEN {"none"} ELSE quantities(issue)
<1>1. PICK issue \in cases : /\ p.issue = issue
                             /\ p.declined = Has(final(issue), "decline_purchase")
                             /\ p.quantity \in bought(issue)
  <2>1. p \in UNION {{of(i, q) : q \in bought(i)} : i \in cases}
    BY DEF PlansFor
  <2>2. \A i, q : /\ of(i, q).issue = i /\ of(i, q).quantity = q
                  /\ of(i, q).declined = Has(final(i), "decline_purchase")
    OBVIOUS
  <2> HIDE DEF of, cases, bought, final
  <2>3. PICK i \in cases : p \in {of(i, q) : q \in bought(i)}
    BY <2>1
  <2>4. PICK q \in bought(i) : p = of(i, q)
    BY <2>3
  <2> QED BY <2>2, <2>4
<1> DEFINE bs == left(issue)
<1>2. Has(final(issue), "select_quantity")
  BY <1>1 DEF Has
<1>3. /\ ~Has(drop(bs), "select_quantity") /\ ~Has(drop(as), "select_quantity")
      /\ Has(as, "decline_purchase") => Has(drop(as), "decline_purchase")
  BY DEF Has, Of, Purchase
<1>4. final(issue) = settle(bs)
  OBVIOUS
<1>5. ~Yields(x, issue, quoted) /\ bs = as
  <2>1. Has(bs, "select_quantity")
    <3> HIDE DEF bs
    <3> QED BY <1>2, <1>3, <1>4 DEF Has, Of
  <2> QED BY <2>1, <1>3
<1>6. p.issue \in {"none", "ineffective"}
  BY <1>1, <1>5 DEF Yields
<1>7. Has(as, "decline_purchase") => ~Declined(as, x)
  <2> HIDE DEF drop
  <2> QED BY <1>2, <1>3, <1>5, <1>4 DEF Has, Of
<1>8. ~Has(final(issue), "decline_purchase")
  <2> HIDE DEF drop
  <2> QED BY <1>2, <1>3, <1>4, <1>5, <1>7 DEF Has, Of
<1> QED BY <1>1, <1>6, <1>7, <1>8 DEF Declined

\* The issues of a plan, and the one that counts.
LEMMA PlanIssues ==
  ASSUME NEW x, NEW s, NEW collecting, NEW all, NEW as,
         NEW p \in PlansFor(x, s, collecting, all, as)
  PROVE  /\ p.issues = {a.arg : a \in Of(as, "start_customer_care")}
         /\ p.issue \in IF p.issues = {} THEN {"none"} ELSE CareIssues(as)
<1> DEFINE issues == {a.arg : a \in Of(as, "start_customer_care")}
<1>1. \E i \in IF issues = {} THEN {"none"} ELSE CareIssues(as) :
        p.issue = i /\ p.issues = issues
  <2> DEFINE quoted == \/ collecting /\ Trusted(s, all, collecting) # "none"
                       \/ \E a \in Of(all, "select_quantity") :
                            Firm(a) /\ a.ground = "verb"
             drop(bs) == {a \in bs : a.type \notin Purchase}
             settle(bs) ==
               IF ~(Has(bs, "decline_purchase") /\ Has(bs, "select_quantity")) THEN bs
               ELSE IF Declined(bs, x) THEN drop(bs)
               ELSE bs \ Of(bs, "decline_purchase")
             final(issue) == settle(IF Yields(x, issue, quoted) THEN drop(as) ELSE as)
             quantities(issue) == {a.arg : a \in Of(final(issue), "select_quantity")}
             stops(issue) == /\ issue \notin {"none", "ineffective"}
                             /\ \/ collecting \/ x.explicit # "none"
                                \/ \E a \in as : a.type \in Purchase
             of(issue, q) ==
               [quantity |-> q, declined |-> Has(final(issue), "decline_purchase"),
                paused |-> Has(final(issue), "pause_order") \/ stops(issue),
                stop |-> Has(final(issue), "stop_bot"),
                handoff |-> Has(final(issue), "handoff_to_human"),
                updates |-> Has(final(issue), "update_order"),
                collects |-> Has(final(issue), "continue_order_collection"),
                issue |-> issue, issues |-> issues]
             cases == IF issues = {} THEN {"none"} ELSE CareIssues(as)
             bought(issue) == IF quantities(issue) = {} THEN {"none"} ELSE quantities(issue)
  <2>1. p \in UNION {{of(i, q) : q \in bought(i)} : i \in cases}
    BY DEF PlansFor
  <2>2. \A i, q : of(i, q).issue = i /\ of(i, q).issues = issues
    OBVIOUS
  <2> HIDE DEF of, cases, bought, final, issues
  <2>3. PICK i \in cases : p \in {of(i, q) : q \in bought(i)}
    BY <2>1
  <2>4. PICK q \in bought(i) : p = of(i, q)
    BY <2>3
  <2>5. \E j \in cases : p.issue = j /\ p.issues = issues
    BY <2>2, <2>4
  <2> QED BY <2>5 DEF cases
<1> QED BY <1>1

\* The quantities of the actions that stand.
Counts(as) == {a.arg : a \in Of(as, "select_quantity")} \cup {"none"}
\* What is bought is one of them.
LEMMA PlanQuantity ==
  ASSUME NEW x, NEW s, NEW collecting, NEW all, NEW as,
         NEW p \in PlansFor(x, s, collecting, all, as)
  PROVE  p.quantity \in Counts(as)
<1> DEFINE issues == {a.arg : a \in Of(as, "start_customer_care")}
           quoted == \/ collecting /\ Trusted(s, all, collecting) # "none"
                     \/ \E a \in Of(all, "select_quantity") :
                          Firm(a) /\ a.ground = "verb"
           drop(bs) == {a \in bs : a.type \notin Purchase}
           settle(bs) ==
             IF ~(Has(bs, "decline_purchase") /\ Has(bs, "select_quantity")) THEN bs
             ELSE IF Declined(bs, x) THEN drop(bs)
             ELSE bs \ Of(bs, "decline_purchase")
           final(issue) == settle(IF Yields(x, issue, quoted) THEN drop(as) ELSE as)
           quantities(issue) == {a.arg : a \in Of(final(issue), "select_quantity")}
           stops(issue) == /\ issue \notin {"none", "ineffective"}
                           /\ \/ collecting \/ x.explicit # "none"
                              \/ \E a \in as : a.type \in Purchase
           of(issue, q) ==
             [quantity |-> q, declined |-> Has(final(issue), "decline_purchase"),
              paused |-> Has(final(issue), "pause_order") \/ stops(issue),
              stop |-> Has(final(issue), "stop_bot"),
              handoff |-> Has(final(issue), "handoff_to_human"),
              updates |-> Has(final(issue), "update_order"),
              collects |-> Has(final(issue), "continue_order_collection"),
              issue |-> issue, issues |-> issues]
           cases == IF issues = {} THEN {"none"} ELSE CareIssues(as)
           bought(issue) == IF quantities(issue) = {} THEN {"none"} ELSE quantities(issue)
<1>1. p \in UNION {{of(i, q) : q \in bought(i)} : i \in cases}
  BY DEF PlansFor
<1>2. \A i, q : of(i, q).quantity = q
  OBVIOUS
<1>3. \A i : final(i) \subseteq as
  <2>1. \A bs : settle(bs) \subseteq bs /\ drop(bs) \subseteq bs
    OBVIOUS
  <2> QED BY <2>1
<1>4. \A i : bought(i) \subseteq {a.arg : a \in Of(final(i), "select_quantity")} \cup {"none"}
  <2> HIDE DEF final
  <2> QED OBVIOUS
<1> HIDE DEF of, cases, bought, final
<1>5. PICK i \in cases : p \in {of(i, q) : q \in bought(i)}
  BY <1>1
<1>6. PICK q \in bought(i) : p = of(i, q)
  BY <1>5
<1>7. p.quantity \in {a.arg : a \in Of(final(i), "select_quantity")} \cup {"none"}
  BY <1>2, <1>4, <1>6
<1> QED BY <1>3, <1>7 DEF Counts, Of

\* The guards' case over a reaction.
Case == By("guardrail", "start_customer_care", "irritation")

\* What is added about buying and answering is no care case.
LEMMA LaterCandidates ==
  ASSUME NEW x, NEW s, NEW collecting, NEW as, NEW a, a.type = "start_customer_care"
  PROVE  a \in WithAnswers(x, s, collecting, WithPurchase(x, s, collecting, as))
           <=> a \in as
<1> DEFINE bs == WithPurchase(x, s, collecting, as)
<1>1. \A who, t, arg : t # "start_customer_care" => a # By(who, t, arg)
  BY DEF By
<1>2. a \in bs <=> a \in as
  BY <1>1 DEF WithPurchase, Unless
<1> HIDE DEF bs
<1>3. a \in WithAnswers(x, s, collecting, bs) <=> a \in bs
  BY <1>1 DEF WithAnswers, Unless, Of
<1> QED BY <1>2, <1>3 DEF bs

\* The customer's own present reaction is the one case among the candidates, if the
\* model proposed none.
LEMMA CaseIsCandidate ==
  ASSUME NEW x, NEW s, NEW turn, NEW collecting,
         x.issue = "irritation", turn.scenario = "actual", turn.own, ~s.aside,
         ~Has(s.actions, "start_customer_care")
  PROVE  Of(Candidates(x, s, turn, collecting), "start_customer_care") = {Case}
<1> DEFINE asked == IF s.unsupported
                      THEN Unless(s.actions, "handoff_to_human",
                                  By("state", "handoff_to_human", "none"))
                      ELSE s.actions
           held == IF x.exact # "none" /\ ~s.ready
                     THEN Unless(asked \ {b \in Of(asked, "answer_question") :
                                            b.arg # x.exact},
                                 "answer_question",
                                 By("guardrail", "answer_question", x.exact))
                     ELSE asked
           stopped == IF x.stop THEN Unless(held, "stop_bot",
                                         By("guardrail", "stop_bot", "none"))
                      ELSE held
           answer1 == By("guardrail", "answer_question", "irritation")
<1>1. \A who, t, arg : By(who, t, arg).type = t
  BY DEF By
<1>2. Of(asked, "start_customer_care") = {}
  BY <1>1 DEF Unless, Of, Has
<1>3. Of(held, "start_customer_care") = {}
  <2> HIDE DEF asked
  <2> QED BY <1>1, <1>2 DEF Unless, Of
<1>4. Of(stopped, "start_customer_care") = {}
  <2> HIDE DEF held
  <2> QED BY <1>1, <1>3 DEF Unless, Of
<1>5. WithCare(x, s, turn) = Unless(stopped \cup {Case}, "answer_question", answer1)
  <2>1. ~ \E a \in Of(stopped, "start_customer_care") : a.arg = "irritation"
    BY <1>4
  <2> HIDE DEF stopped
  <2> QED BY <2>1 DEF WithCare, Case, stopped
<1>6. Of(WithCare(x, s, turn), "start_customer_care") = {Case}
  <2> HIDE DEF stopped
  <2> QED BY <1>1, <1>4, <1>5 DEF Unless, Of, Case
<1>7. \A a : a \in Of(Candidates(x, s, turn, collecting), "start_customer_care")
               <=> a \in Of(WithCare(x, s, turn), "start_customer_care")
  BY LaterCandidates DEF Candidates, Of
<1> QED BY <1>6, <1>7

\* It stands, and is the issue of the plan.
LEMMA CaseIsPlanned ==
  ASSUME NEW x, NEW s, NEW turn, NEW collecting,
         x.issue = "irritation", turn.scenario = "actual", turn.own, ~s.aside,
         ~turn.otherProduct, ~Has(s.actions, "start_customer_care"),
         NEW p \in Plans(x, s, turn, collecting)
  PROVE  p.issue = "irritation"
<1> DEFINE all == Candidates(x, s, turn, collecting)
           as == Accepted(x, s, turn, collecting, all, Trusted(s, all, collecting))
<1>1. Of(all, "start_customer_care") = {Case}
  BY CaseIsCandidate
<1>2. Case \in all
  BY <1>1 DEF Of
<1>3. as \subseteq all /\ Case \in as
  <2> HIDE DEF all
  <2> QED BY <1>2 DEF Accepted, Case, By, CareMisread, Invalid, Purchase
<1>4. p \in PlansFor(x, s, collecting, all, as)
  BY DEF Plans, PlansOf
<1> HIDE DEF all, as
<1>5. Of(as, "start_customer_care") = {Case}
  BY <1>1, <1>3 DEF Of
<1>6. CareIssues(as) = {"irritation"}
  <2>1. Case.arg = "irritation" /\ Case.by # "llm"
    BY DEF Case, By
  <2>2. {a \in Of(as, "start_customer_care") : a.by = "llm"} = {}
    BY <1>5, <2>1
  <2>3. CareIssues(as) = {a.arg : a \in {Case}}
    BY <1>5, <2>2 DEF CareIssues
  <2> QED BY <2>1, <2>3
<1>7. {a.arg : a \in Of(as, "start_customer_care")} # {}
  BY <1>5
<1> QED BY <1>4, <1>6, <1>7, PlanIssues

\* A case over a reaction is the customer's own.
LEMMA PlannedCaseIsOwn ==
  ASSUME NEW x, NEW s, NEW turn, NEW collecting,
         NEW p \in Plans(x, s, turn, collecting), "irritation" \in p.issues
  PROVE  turn.own
<1> DEFINE all == Candidates(x, s, turn, collecting)
           as == Accepted(x, s, turn, collecting, all, Trusted(s, all, collecting))
<1>1. p \in PlansFor(x, s, collecting, all, as)
  BY DEF Plans, PlansOf
<1>2. \A a \in as : ~CareMisread(a, turn)
  BY DEF Accepted
<1> HIDE DEF all, as
<1>3. p.issues = {a.arg : a \in Of(as, "start_customer_care")}
  BY <1>1, PlanIssues
<1>4. PICK a \in Of(as, "start_customer_care") : a.arg = "irritation"
  BY <1>3
<1> QED BY <1>2, <1>4 DEF CareMisread, Of

-----------------------------------------------------------------------------
(* The route *)

\* The route is that of the first rule that applies.
LEMMA FirstRule ==
  ASSUME NEW i, NEW k \in 1..14,
         RouteTable(i)[k].if, \A j \in 1..(k - 1) : ~RouteTable(i)[j].if
  PROVE  Route(i) = RouteTable(i)[k].to
<1> DEFINE table == RouteTable(i)
           P(n) == table[n].if /\ \A j \in 1..(n - 1) : ~table[j].if
<1>1. DOMAIN table = 1..14
  BY DEF RouteTable
<1> HIDE DEF table
<1>2. \A n \in 1..14 : P(n) => n = k
  BY DEF table
<1>3. (CHOOSE n \in DOMAIN table : P(n)) = k
  BY <1>1, <1>2 DEF table
<1> QED BY <1>3 DEF Route, table

\* An incident goes to the open case, or opens one.
LEMMA IncidentIsCared ==
  ASSUME NEW i, ~i.optOut, Critical(i), i.scenario # "hypothetical", ~i.interrupts,
         i.activeCare \in BOOLEAN
  PROVE  Route(i) = IF i.activeCare THEN "active_care" ELSE "start_care"
<1>1. /\ RouteTable(i)[1].if <=> i.optOut
      /\ RouteTable(i)[2].if <=> (i.activeCare /\ ~i.interrupts)
      /\ RouteTable(i)[3].if <=> (Critical(i) /\ i.scenario # "hypothetical")
  BY DEF RouteTable
<1>2. RouteTable(i)[2].to = "active_care" /\ RouteTable(i)[3].to = "start_care"
  BY DEF RouteTable
<1>3. CASE i.activeCare
  <2>1. \A j \in 1..(2 - 1) : ~RouteTable(i)[j].if
    <3>1. 1..(2 - 1) = {1}
      OBVIOUS
    <3>2. ~RouteTable(i)[1].if
      BY <1>1
    <3> QED BY <3>1, <3>2
  <2>2. RouteTable(i)[2].if
    BY <1>1, <1>3
  <2>3. Route(i) = RouteTable(i)[2].to
    BY <2>1, <2>2, FirstRule
  <2> QED BY <1>2, <1>3, <2>3
<1>4. CASE ~i.activeCare
  <2>1. \A j \in 1..(3 - 1) : ~RouteTable(i)[j].if
    <3>1. 1..(3 - 1) = {1, 2}
      OBVIOUS
    <3>2. ~RouteTable(i)[1].if /\ ~RouteTable(i)[2].if
      BY <1>1, <1>4
    <3> QED BY <3>1, <3>2
  <2>2. RouteTable(i)[3].if
    BY <1>1
  <2>3. Route(i) = RouteTable(i)[3].to
    BY <2>1, <2>2, FirstRule
  <2> QED BY <1>2, <1>4, <2>3
<1> QED BY <1>3, <1>4

-----------------------------------------------------------------------------
(* A turn that is planned *)

\* What the planner is told keeps what the patterns found.
LEMMA DetectedFields ==
  ASSUME NEW x \in Texts
  PROVE  /\ Detected(x).last = x.last /\ Detected(x).declines = x.declines
         /\ Detected(x).issue = IF x.raw = "irritation" /\ ~OwnReaction(message)
                                  THEN "none" ELSE x.raw
         /\ x.last = "decline" => x.declines
BY ReadingAssumption DEF Findings, Detected

\* A plan that buys has no incident and no refusal, and its text no last word that
\* refuses unless the model proposed the refusal.
LEMMA PlannedPurchase ==
  ASSUME NEW x \in Texts, NEW s \in Readings,
         NEW p \in Plans(Detected(x), s, Turn(x), x.collecting), p.quantity # "none"
  PROVE  /\ p.issue \in {"none", "ineffective"}
         /\ ~p.declined
         /\ x.last = "decline" => \E a \in s.actions : a.type = "decline_purchase"
<1> DEFINE y == Detected(x)
           all == Candidates(y, s, Turn(x), x.collecting)
           as == Accepted(y, s, Turn(x), x.collecting, all, Trusted(s, all, x.collecting))
<1>1. /\ y.last = x.last /\ y.declines = x.declines
      /\ x.last = "decline" => x.declines
  BY DetectedFields
<1>2. p \in PlansFor(y, s, x.collecting, all, as)
  BY DEF Plans, PlansOf
<1>3. ASSUME x.last = "decline", ~ \E a \in s.actions : a.type = "decline_purchase"
      PROVE  Has(as, "decline_purchase")
  <2> DEFINE no == By("guardrail", "decline_purchase", "none")
  <2>1. y.declines
    BY <1>1, <1>3
  <2> HIDE DEF y
  <2>2. no \in all
    BY <1>3, <2>1, RefusalIsCandidate
  <2>3. no \in as
    <3> HIDE DEF all
    <3> QED BY <2>2, RefusalStands
  <2>4. no.type = "decline_purchase"
    BY DEF By
  <2> HIDE DEF as, no
  <2> QED BY <2>3, <2>4 DEF Has, Of
<1> HIDE DEF as, all
<1>4. /\ p.issue \in {"none", "ineffective"}
      /\ ~p.declined
      /\ Has(as, "decline_purchase") => y.last = "select"
  BY <1>2, PlanSettles
<1> QED BY <1>1, <1>3, <1>4

\* LastWordDecides: a customer whose last word is a refusal buys nothing, and
\* neither does one with an incident, whatever the model proposes
\* (conversationActions.ts:418-509).
THEOREM RefusalDecides == Spec => []LastWordDecides
<1>1. Init => LastWordDecides
  BY DEF Init, LastWordDecides, NoPlan
<1>2. LastWordDecides /\ [Next]_vars => LastWordDecides'
  <2>1. SUFFICES ASSUME LastWordDecides, [Next]_vars PROVE LastWordDecides'
    OBVIOUS
  <2>2. ASSUME NEW m, NEW fs, NEW d, Reads(m, fs, d) PROVE LastWordDecides'
    BY <2>2 DEF Reads, LastWordDecides, NoPlan
  <2>3. CASE Plan
    <3>1. PICK x \in Texts, s \in Readings :
            \E p \in Plans(Detected(x), s, Turn(x), x.collecting) :
              /\ plan' = p /\ heard'.word = x.last
              /\ heard'.denied = \E a \in s.actions : a.type = "decline_purchase"
      BY <2>3 DEF Plan
    <3> QED BY <3>1, PlannedPurchase DEF LastWordDecides
  <2>4. CASE End
    BY <2>4 DEF End, LastWordDecides, NoPlan
  <2>5. CASE UNCHANGED <<plan, heard>>
    BY <2>1, <2>5 DEF LastWordDecides
  <2> QED BY <2>1, <2>2, <2>3, <2>4, <2>5 DEF Next, Read, Retry, NextDay, vars
<1> QED BY <1>1, <1>2, PTL DEF Spec

\* A reaction of the customer's own that the patterns see, with nothing before its
\* route and no case of the model's, leaves a case open.
LEMMA PlannedReaction ==
  ASSUME NEW x \in Texts, NEW s \in Readings,
         NEW p \in Plans(Detected(x), s, Turn(x), x.collecting),
         OwnReaction(message), x.raw = "irritation", ~x.otherProduct,
         ~x.early, ~x.stop, ~s.aside, ~Has(s.actions, "start_customer_care"),
         answer = No
  PROVE  CareAfter(x, p, Route(Signals(x, s, p))) # "none"
<1> DEFINE i == Signals(x, s, p)
<1>1. Detected(x).issue = "irritation"
  BY DetectedFields
<1>2. /\ Turn(x).own /\ Turn(x).scenario = "actual"
      /\ Turn(x).otherProduct = x.otherProduct
  BY DEF Turn, Scenario
<1>3. p.issue = "irritation"
  BY <1>1, <1>2, CaseIsPlanned
<1>4. /\ i.issue = "irritation" /\ i.scenario = "actual" /\ ~i.interrupts /\ ~i.optOut
      /\ i.activeCare = (care # "none")
  BY <1>1, <1>2, <1>3 DEF Signals, Held
<1> HIDE DEF i
<1>5. Critical(i)
  BY <1>4 DEF Critical
<1>6. Route(i) = IF i.activeCare THEN "active_care" ELSE "start_care"
  BY <1>4, <1>5, IncidentIsCared
<1>7. CareAfter(x, p, Route(i)) = IF Route(i) = "start_care" THEN p.issue ELSE care
  BY DEF CareAfter, Held
<1> QED BY <1>3, <1>4, <1>6, <1>7 DEF i

\* CareFollowsReaction: a case over a reaction is the customer's own, and one the
\* patterns see is cared for unless something was answered before or the model
\* proposed a case itself (demoChat.ts:547-612, conversationActions.ts:141-176).
THEOREM ReactionsAreCared == Spec => []CareFollowsReaction
<1>1. Init => CareFollowsReaction
  BY DEF Init, CareFollowsReaction, NoPlan, NothingHeard
<1>2. CareFollowsReaction /\ [Next]_vars => CareFollowsReaction'
  <2>1. SUFFICES ASSUME CareFollowsReaction, [Next]_vars PROVE CareFollowsReaction'
    OBVIOUS
  <2>2. ASSUME NEW m, NEW fs, NEW d, Reads(m, fs, d) PROVE CareFollowsReaction'
    BY <2>2 DEF Reads, CareFollowsReaction, NoPlan, NothingHeard
  <2>3. CASE Plan
    <3>1. PICK x \in Texts, s \in Readings :
            \E p \in Plans(Detected(x), s, Turn(x), x.collecting) :
              /\ plan' = p /\ care' = CareAfter(x, p, Route(Signals(x, s, p)))
              /\ heard'.own = OwnReaction(message)
              /\ heard'.case = (x.raw = "irritation" /\ ~x.otherProduct)
              /\ heard'.astray = (s.aside \/ Has(s.actions, "start_customer_care"))
              /\ heard'.early = (x.early \/ x.stop \/ Has(s.actions, "stop_bot"))
      BY <2>3 DEF Plan
    <3>2. PICK p \in Plans(Detected(x), s, Turn(x), x.collecting) :
              /\ plan' = p /\ care' = CareAfter(x, p, Route(Signals(x, s, p)))
      BY <3>1
    <3>3. "irritation" \in plan'.issues => heard'.own
      <4>1. Turn(x).own = OwnReaction(message)
        BY DEF Turn
      <4> QED BY <3>1, <3>2, <4>1, PlannedCaseIsOwn
    <3>4. answer' = answer
      BY <2>3 DEF Plan
    <3>5. ASSUME heard'.case, heard'.own, care' = "none",
                 answer' = No, ~heard'.early, ~heard'.astray
          PROVE  FALSE
      <4>1. /\ OwnReaction(message) /\ x.raw = "irritation" /\ ~x.otherProduct
            /\ ~x.early /\ ~x.stop /\ ~s.aside /\ ~Has(s.actions, "start_customer_care")
        BY <3>1, <3>5
      <4> QED BY <3>2, <3>4, <3>5, <4>1, PlannedReaction
    <3> QED BY <3>3, <3>5 DEF CareFollowsReaction
  <2>4. CASE End
    BY <2>4 DEF End, CareFollowsReaction, NoPlan, NothingHeard
  <2>5. CASE UNCHANGED <<plan, heard, care, answer>>
    BY <2>1, <2>5 DEF CareFollowsReaction
  <2> QED BY <2>1, <2>2, <2>3, <2>4, <2>5 DEF Next, Read, Retry, NextDay, vars
<1> QED BY <1>1, <1>2, PTL DEF Spec

-----------------------------------------------------------------------------
(* Sequences and folds *)

\* Every set of naturals with zero and all successors is that of all naturals.
LEMMA SetInduction ==
  ASSUME NEW T, 0 \in T, \A n \in Nat : n \in T => n + 1 \in T
  PROVE  \A n \in Nat : n \in T
<1> DEFINE R == {ss \in Nat \X Nat : ss[1] < ss[2]}
           S == {n \in Nat : n \notin T}
<1>1. IsWellFoundedOn(R, Nat)
  BY NatLessThanWellFounded DEF OpToRel
<1>2. SUFFICES ASSUME S # {} PROVE FALSE
  OBVIOUS
<1>3. \E m \in S : \A n \in S : ~ (<<n, m>> \in R)
  <2>1. S \in SUBSET Nat
    OBVIOUS
  <2> HIDE DEF R, S
  <2> QED BY <1>1, <1>2, <2>1, WFMin, Zenon
<1>4. PICK m \in S : \A n \in S : ~ (<<n, m>> \in R)
  BY <1>3
<1>5. m # 0 /\ m - 1 \in Nat /\ m - 1 \notin S
  <2>1. m \in Nat /\ m # 0
    OBVIOUS
  <2>2. m - 1 \in Nat /\ m - 1 < m
    BY <2>1
  <2>3. <<m - 1, m>> \in R
    BY <2>1, <2>2
  <2> HIDE DEF R
  <2> QED BY <1>4, <2>1, <2>2, <2>3
<1>6. (m - 1) + 1 = m
  BY <1>5
<1> QED BY <1>5, <1>6

\* The positions of a finite set of them are ranked without gaps.
LEMMA RankExists ==
  ASSUME NEW L \in Nat, NEW I \in SUBSET (1..L), NEW n \in 1..Cardinality(I)
  PROVE  \E i \in I : Cardinality({j \in I : j < i}) = n - 1
<1> DEFINE below(i) == {j \in I : j < i}
           c == Cardinality(I)
           r == [i \in I |-> Cardinality(below(i))]
           Ranks == {r[i] : i \in I}
<1>1. IsFiniteSet(I) /\ c \in Nat
  <2>1. IsFiniteSet(1..L)
    BY FS_Interval
  <2> QED BY <2>1, FS_Subset, FS_CardinalityType
<1>2. \A i \in I : IsFiniteSet(below(i)) /\ r[i] \in Nat
  BY <1>1, FS_Subset, FS_CardinalityType
<1>3. \A i \in I : r[i] \in 0..(c - 1)
  <2>1. SUFFICES ASSUME NEW i \in I PROVE r[i] \in 0..(c - 1)
    OBVIOUS
  <2>2. below(i) \subseteq I /\ below(i) # I
    <3>1. i \notin below(i)
      OBVIOUS
    <3> QED BY <3>1
  <2>3. Cardinality(below(i)) < c
    <3> HIDE DEF below
    <3>1. Cardinality(below(i)) <= c /\ Cardinality(below(i)) # c
      BY <1>1, <2>2, FS_Subset
    <3>2. Cardinality(below(i)) \in Nat
      BY <1>2
    <3> QED BY <1>1, <3>1, <3>2
  <2> HIDE DEF below, c
  <2> QED BY <1>1, <1>2, <2>3
<1>4. \A i, k \in I : i < k => r[i] < r[k]
  <2>1. SUFFICES ASSUME NEW i \in I, NEW k \in I, i < k PROVE r[i] < r[k]
    OBVIOUS
  <2>2. below(i) \subseteq below(k) /\ i \in below(k) /\ i \notin below(i)
    <3>1. \A j \in I : j < i => j < k
      <4>1. SUFFICES ASSUME NEW j \in I, j < i PROVE j < k
        OBVIOUS
      <4>2. j \in Int /\ i \in Int /\ k \in Int
        OBVIOUS
      <4> QED BY <2>1, <4>1, <4>2
    <3>2. i \in Int /\ ~ (i < i)
      OBVIOUS
    <3>3. below(i) \subseteq below(k)
      BY <3>1
    <3>4. i \in below(k) /\ i \notin below(i)
      BY <2>1, <3>2
    <3> QED BY <3>3, <3>4
  <2>3. IsFiniteSet(below(k))
    BY <1>2
  <2>4. Cardinality(below(i)) < Cardinality(below(k))
    <3> HIDE DEF below
    <3>1. Cardinality(below(i)) <= Cardinality(below(k))
          /\ Cardinality(below(i)) # Cardinality(below(k))
      BY <2>2, <2>3, FS_Subset
    <3>2. Cardinality(below(i)) \in Nat /\ Cardinality(below(k)) \in Nat
      BY <1>2
    <3> QED BY <3>1, <3>2
  <2> QED BY <2>4
<1>5. Cardinality(0..(c - 1)) = c /\ IsFiniteSet(0..(c - 1))
  <2> HIDE DEF c
  <2>1. IsFiniteSet(0..(c - 1)) /\ Cardinality(0..(c - 1)) =
          IF 0 > c - 1 THEN 0 ELSE (c - 1) - 0 + 1
    BY <1>1, FS_Interval
  <2> QED BY <1>1, <2>1
<1>6. r \in Injection(I, 0..(c - 1))
  <2> HIDE DEF below, c
  <2>1. \A i, k \in I : r[i] = r[k] => i = k
    <3>1. SUFFICES ASSUME NEW i \in I, NEW k \in I, r[i] = r[k], i # k PROVE FALSE
      OBVIOUS
    <3>2. i < k \/ k < i
      BY <3>1
    <3> HIDE DEF r
    <3>3. r[i] < r[k] \/ r[k] < r[i]
      BY <1>4, <3>2
    <3>4. r[i] \in Nat /\ r[k] \in Nat
      BY <1>2
    <3> QED BY <3>1, <3>3, <3>4
  <2>2. r \in [I -> 0..(c - 1)]
    <3>1. r = [i \in I |-> r[i]]
      OBVIOUS
    <3> HIDE DEF r
    <3> QED BY <1>3, <3>1
  <2> HIDE DEF r
  <2> QED BY <2>1, <2>2 DEF Injection, IsInjective
<1>7. r \in Surjection(I, 0..(c - 1))
  <2> HIDE DEF r, c
  <2> QED BY <1>5, <1>6, FS_Injection DEF c
<1>8. \E i \in I : r[i] = n - 1
  <2>1. n - 1 \in 0..(c - 1)
    BY <1>1
  <2> HIDE DEF r, c
  <2> QED BY <1>7, <2>1 DEF Surjection
<1> QED BY <1>8

\* What is kept of a sequence is a sequence of its elements.
LEMMA KeptIsSeq ==
  ASSUME NEW S, NEW s \in Seq(S), NEW I \in SUBSET (1..Len(s))
  PROVE  /\ Kept(s, I) \in Seq(S)
         /\ \A n \in DOMAIN Kept(s, I) : \E i \in I : Kept(s, I)[n] = s[i]
<1> DEFINE c == Cardinality(I)
<1>1. c \in Nat
  <2>1. IsFiniteSet(1..Len(s))
    BY FS_Interval
  <2> QED BY <2>1, FS_Subset, FS_CardinalityType
<1>2. \A n \in 1..c : Nth(I, n) \in I
  <2>1. SUFFICES ASSUME NEW n \in 1..c PROVE Nth(I, n) \in I
    OBVIOUS
  <2>2. \E i \in I : Cardinality({j \in I : j < i}) = n - 1
    <3>1. Len(s) \in Nat /\ n \in 1..Cardinality(I)
      OBVIOUS
    <3> QED BY <3>1, RankExists
  <2> QED BY <2>2 DEF Nth
<1>3. Kept(s, I) = [n \in 1..c |-> s[Nth(I, n)]]
  BY DEF Kept
<1> HIDE DEF c
<1>4. \A n \in 1..c : s[Nth(I, n)] \in S
  <2>1. \A i \in 1..Len(s) : s[i] \in S
    BY ElementOfSeq
  <2>2. \A n \in 1..c : Nth(I, n) \in 1..Len(s)
    BY <1>2
  <2> QED BY <2>1, <2>2
<1>5. [n \in 1..c |-> s[Nth(I, n)]] \in Seq(S)
  BY <1>1, <1>4
<1> QED BY <1>2, <1>3, <1>5

-----------------------------------------------------------------------------
(* The claims of a message *)

Sources == {"self_report", "third_party_report", "copied_review", "hypothetical"}
Scenarios == {"actual", "hypothetical", "past"}

\* A claim, and a fact of the ledger.
ClaimSet ==
  [subject : Person, predicate : Predicate, value : Value,
   product : Product \cup {"none"}, temporal : Time, scenario : Scenarios,
   source : Sources, sure : {TRUE}]
Fact ==
  [subject : Person, predicate : Predicate, value : Value,
   product : Product \cup {"none"}, temporal : Time, scenario : Scenarios,
   source : Sources, day : Int, seen : Int, current : BOOLEAN]

\* Whose words a message is and when it holds.
LEMMA MessageReads ==
  ASSUME NEW m \in Message
  PROVE  /\ Scenario(m) \in Scenarios /\ Source(m) \in Sources
         /\ m.of \in Person /\ m.product \in Product
         /\ m.gym \in {"none", "morning", "evening"}
         /\ m.removed \in {"none", "today", "yesterday"}
BY DEF Message, Scenario, Source, Scenarios, Sources, Person

\* What Claim builds is a claim.
LEMMA ClaimIsClaim ==
  ASSUME NEW who \in Person, NEW p \in Predicate, NEW v \in Value, NEW when \in Time
  PROVE  Claim(who, p, v, when) \in ClaimSet
BY DEF Claim, ClaimSet, Scenarios, Sources

\* What is told, if it is, is a sequence of claims.
LEMMA ToldIsSeq ==
  ASSUME NEW found, NEW c, found => c \in ClaimSet
  PROVE  Told(found, c) \in Seq(ClaimSet)
<1>1. CASE found
  BY <1>1 DEF Told
<1>2. CASE ~found
  BY <1>2 DEF Told
<1> QED BY <1>1, <1>2

\* So is what the patterns make of a message,
LEMMA ExtractedAreClaims ==
  ASSUME NEW m \in Message PROVE Extracted(m) \in Seq(ClaimSet)
<1> DEFINE own(fact) == m.of = "self" /\ fact \in m.says
           when == IF Scenario(m) = "actual" THEN "current" ELSE "past"
           told == IF m.removed = "none" THEN "past" ELSE m.removed
           reaction == [Claim(m.of, "product_reaction", m.adverse, when)
                          EXCEPT !.product = m.product, !.scenario = Scenario(m),
                                 !.source = Source(m)]
           t1 == Told(own("sweat"), Claim("self", "sweat_concern", "yes", "habitual"))
           t2 == Told(own("mild"), Claim("self", "odor_severity", "mild", "habitual"))
           t3 == Told("normal" \in m.says,
                      Claim("self", "skin_type", "normal", "current"))
           t4 == Told("sensitive" \in m.says /\ "memory" \notin m.asks,
                      Claim("self", "skin_type", "sensitive", "current"))
           t5 == Told("sibling" \in m.says,
                      Claim("sibling", "skin_type", "sensitive", "current"))
           t6 == Told(own("after_hair_removal"),
                      Claim("self", "skin_sensitivity_context", "after_hair_removal",
                            "habitual"))
           t7 == Told(m.gym # "none",
                      Claim("self", "exercise_schedule", m.gym, "current"))
           t8 == Told(m.of = "self" /\ m.removed # "none",
                      Claim("self", "hair_removal_time", m.removed, m.removed))
           t9 == Told(own("unhurt"),
                      Claim("self", "hair_removal_reaction", "none", told))
           t10 == Told(m.adverse \in Reaction /\ m.asks \cap {"fact", "memory"} = {},
                       reaction)
<1>1. /\ {"self", "sibling"} \subseteq Person
      /\ {"sweat_concern", "odor_severity", "skin_type", "skin_sensitivity_context",
          "exercise_schedule", "hair_removal_time", "hair_removal_reaction",
          "product_reaction"} \subseteq Predicate
      /\ {"yes", "none", "mild", "normal", "sensitive", "after_hair_removal",
          "morning", "evening", "yesterday", "today"} \subseteq Value
      /\ {"habitual", "current", "past", "yesterday", "today"} \subseteq Time
      /\ Reaction \subseteq Value
  BY DEF Person, Predicate, Value, Time
<1>2. /\ t1 \in Seq(ClaimSet) /\ t2 \in Seq(ClaimSet) /\ t3 \in Seq(ClaimSet)
      /\ t4 \in Seq(ClaimSet) /\ t5 \in Seq(ClaimSet) /\ t6 \in Seq(ClaimSet)
  <2>1. /\ Claim("self", "sweat_concern", "yes", "habitual") \in ClaimSet
        /\ Claim("self", "odor_severity", "mild", "habitual") \in ClaimSet
        /\ Claim("self", "skin_type", "normal", "current") \in ClaimSet
        /\ Claim("self", "skin_type", "sensitive", "current") \in ClaimSet
        /\ Claim("sibling", "skin_type", "sensitive", "current") \in ClaimSet
        /\ Claim("self", "skin_sensitivity_context", "after_hair_removal", "habitual")
             \in ClaimSet
    BY <1>1, ClaimIsClaim
  <2> QED BY <2>1, ToldIsSeq
<1>3. t7 \in Seq(ClaimSet)
  <2>1. m.gym # "none" => m.gym \in Value
    BY <1>1, MessageReads
  <2>2. m.gym # "none" => Claim("self", "exercise_schedule", m.gym, "current") \in ClaimSet
    BY <1>1, <2>1, ClaimIsClaim
  <2> QED BY <2>2, ToldIsSeq
<1>4. t8 \in Seq(ClaimSet)
  <2>1. m.removed # "none" => m.removed \in Value /\ m.removed \in Time
    BY <1>1, MessageReads
  <2>2. m.removed # "none" =>
          Claim("self", "hair_removal_time", m.removed, m.removed) \in ClaimSet
    BY <1>1, <2>1, ClaimIsClaim
  <2> QED BY <2>2, ToldIsSeq
<1>5. t9 \in Seq(ClaimSet)
  <2>1. told \in Time
    BY <1>1, MessageReads
  <2>2. Claim("self", "hair_removal_reaction", "none", told) \in ClaimSet
    <3> HIDE DEF told
    <3> QED BY <1>1, <2>1, ClaimIsClaim
  <2> QED BY <2>2, ToldIsSeq
<1>6. t10 \in Seq(ClaimSet)
  <2>1. ASSUME m.adverse \in Reaction PROVE reaction \in ClaimSet
    <3>1. m.adverse \in Value /\ when \in Time
      BY <1>1, <2>1
    <3> HIDE DEF when
    <3>2. Claim(m.of, "product_reaction", m.adverse, when) \in ClaimSet
      BY <1>1, <3>1, MessageReads, ClaimIsClaim
    <3> QED BY <3>2, MessageReads DEF ClaimSet
  <2> HIDE DEF reaction
  <2> QED BY <2>1, ToldIsSeq
<1>7. Extracted(m) = t1 \o t2 \o t3 \o t4 \o t5 \o t6 \o t7 \o t8 \o t9 \o t10
  BY DEF Extracted
<1> HIDE DEF t1, t2, t3, t4, t5, t6, t7, t8, t9, t10
<1>8. t1 \o t2 \o t3 \o t4 \o t5 \in Seq(ClaimSet)
  BY <1>2
<1>9. t1 \o t2 \o t3 \o t4 \o t5 \o t6 \o t7 \o t8 \in Seq(ClaimSet)
  BY <1>2, <1>3, <1>4, <1>8
<1> QED BY <1>5, <1>6, <1>7, <1>9

\* and what is taken over from the model.
LEMMA SemanticsAreClaims ==
  ASSUME NEW m \in Message, NEW fs \in Seq(SemanticFact)
  PROVE  SemanticClaims(m, fs) \in Seq(ClaimSet)
<1> DEFINE about(f) == IF f.predicate = "product_reaction" \/ m.of # "self" THEN m.of
                       ELSE f.target
           taken(f) == /\ Backed(f)
                       /\ about(f) = "self"
                            => Source(m) # "hypothetical" /\ "memory" \notin m.asks
           kept == Kept(fs, {i \in DOMAIN fs : taken(fs[i])})
           c(f) == [Claim(about(f), f.predicate, f.value,
                          IF Scenario(m) = "past" THEN "past" ELSE "current")
                      EXCEPT !.product = IF f.predicate = "product_reaction"
                                           THEN m.product ELSE "none",
                             !.scenario = Scenario(m), !.source = Source(m)]
<1>1. kept \in Seq(SemanticFact)
  <2>1. {i \in DOMAIN fs : taken(fs[i])} \in SUBSET (1..Len(fs))
    OBVIOUS
  <2> HIDE DEF taken
  <2> QED BY <2>1, KeptIsSeq
<1>2. \A f \in SemanticFact : c(f) \in ClaimSet
  <2>1. SUFFICES ASSUME NEW f \in SemanticFact PROVE c(f) \in ClaimSet
    OBVIOUS
  <2>2. about(f) \in Person /\ f.predicate \in Predicate /\ f.value \in Value
        /\ (IF Scenario(m) = "past" THEN "past" ELSE "current") \in Time
    BY MessageReads DEF SemanticFact, Time
  <2> HIDE DEF about
  <2>3. Claim(about(f), f.predicate, f.value,
              IF Scenario(m) = "past" THEN "past" ELSE "current") \in ClaimSet
    BY <2>2, ClaimIsClaim
  <2> QED BY <2>3, MessageReads DEF ClaimSet
<1>3. SemanticClaims(m, fs) = [i \in DOMAIN kept |-> c(kept[i])]
  BY DEF SemanticClaims
<1> HIDE DEF kept, c
<1>4. Len(kept) \in Nat /\ DOMAIN kept = 1..Len(kept)
  BY <1>1
<1>5. \A i \in 1..Len(kept) : c(kept[i]) \in ClaimSet
  BY <1>1, <1>2
<1> QED BY <1>3, <1>4, <1>5

\* The claims of a message are claims.
LEMMA ClaimsAreClaims ==
  ASSUME NEW m \in Message, NEW fs \in Seq(SemanticFact)
  PROVE  Claims(m, fs) \in Seq(ClaimSet)
<1> DEFINE cs == Extracted(m) \o SemanticClaims(m, fs)
<1>1. cs \in Seq(ClaimSet)
  BY ExtractedAreClaims, SemanticsAreClaims
<1> HIDE DEF cs
<1>2. Distinct(cs) \in Seq(ClaimSet)
  BY <1>1, KeptIsSeq DEF Distinct
<1> QED BY <1>2 DEF Claims, cs

-----------------------------------------------------------------------------
(* The ledger after each claim *)

\* Stages is a recursive function: it exists, and takes the claims one by one.
LEMMA StagesStep ==
  ASSUME NEW l, NEW cs \in Seq(ClaimSet), NEW d
  PROVE  /\ Stages(l, cs, d)[0] = l
         /\ \A n \in 1..Len(cs) :
              Stages(l, cs, d)[n] = Record(Stages(l, cs, d)[n - 1], cs[n], d)
<1> DEFINE N == Len(cs)
           E(g, k) == [n \in 0..k |-> IF n = 0 THEN l ELSE Record(g[n - 1], cs[n], d)]
           T == {k \in Nat : \E g : g = E(g, k)}
<1>1. 0 \in T
  <2> DEFINE g == [n \in 0..0 |-> l]
  <2>1. g = E(g, 0)
    <3>1. \A n \in 0..0 : (IF n = 0 THEN l ELSE Record(g[n - 1], cs[n], d)) = l
      OBVIOUS
    <3> HIDE DEF g
    <3> QED BY <3>1 DEF g
  <2> QED BY <2>1
<1>2. \A k \in Nat : k \in T => k + 1 \in T
  <2>1. SUFFICES ASSUME NEW k \in Nat, NEW g, g = E(g, k) PROVE \E h : h = E(h, k + 1)
    OBVIOUS
  <2> DEFINE h == [n \in 0..(k + 1) |-> IF n <= k THEN g[n]
                                        ELSE Record(g[k], cs[k + 1], d)]
  <2>2. \A n \in 0..k : g[n] = IF n = 0 THEN l ELSE Record(g[n - 1], cs[n], d)
    BY <2>1
  <2>3. \A n \in 0..(k + 1) :
          h[n] = IF n = 0 THEN l ELSE Record(h[n - 1], cs[n], d)
    <3>1. SUFFICES ASSUME NEW n \in 0..(k + 1)
                   PROVE  h[n] = IF n = 0 THEN l ELSE Record(h[n - 1], cs[n], d)
      OBVIOUS
    <3>2. CASE n = 0
      BY <2>2, <3>2
    <3>3. CASE n \in 1..k
      <4>1. h[n] = g[n] /\ h[n - 1] = g[n - 1] /\ n # 0 /\ n \in 0..k
        BY <3>3
      <4> HIDE DEF h
      <4> QED BY <2>2, <4>1
    <3>4. CASE n = k + 1
      <4>1. h[n] = Record(g[k], cs[k + 1], d) /\ h[n - 1] = g[k] /\ n # 0
        BY <3>4
      <4> HIDE DEF h
      <4> QED BY <3>4, <4>1
    <3> QED BY <3>2, <3>3, <3>4
  <2>4. h = E(h, k + 1)
    <3>1. h = [n \in 0..(k + 1) |-> h[n]]
      OBVIOUS
    <3> HIDE DEF h
    <3> QED BY <2>3, <3>1
  <2> QED BY <2>4
<1>3. N \in T
  <2>1. N \in Nat
    BY LenProperties
  <2> HIDE DEF T
  <2> QED BY <1>1, <1>2, <2>1, SetInduction
<1>4. PICK g : g = E(g, N)
  BY <1>3
<1>5. Stages(l, cs, d) = CHOOSE f : f = E(f, N)
  BY DEF Stages
<1>6. Stages(l, cs, d) = E(Stages(l, cs, d), N)
  <2> HIDE DEF E
  <2> QED BY <1>4, <1>5
<1>7. N \in Nat
  BY LenProperties
<1> DEFINE f == Stages(l, cs, d)
<1>8. \A n \in 0..N : f[n] = IF n = 0 THEN l ELSE Record(f[n - 1], cs[n], d)
  <2> HIDE DEF f, N
  <2> QED BY <1>6 DEF f
<1> HIDE DEF f, N
<1>9. f[0] = l
  BY <1>7, <1>8
<1>10. \A n \in 1..N : f[n] = Record(f[n - 1], cs[n], d)
  BY <1>7, <1>8
<1> QED BY <1>9, <1>10 DEF f, N

\* What every claim preserves holds of the ledger after each of them.
LEMMA StagesKeep ==
  ASSUME NEW G, NEW l \in G, NEW cs \in Seq(ClaimSet), NEW d,
         \A x \in G, c \in ClaimSet : Record(x, c, d) \in G
  PROVE  \A n \in 0..Len(cs) : Stages(l, cs, d)[n] \in G
<1> DEFINE f == Stages(l, cs, d)
           T == {n \in Nat : n <= Len(cs) => f[n] \in G}
<1>1. /\ f[0] = l
      /\ \A n \in 1..Len(cs) : f[n] = Record(f[n - 1], cs[n], d)
  BY StagesStep
<1>2. Len(cs) \in Nat /\ \A n \in 1..Len(cs) : cs[n] \in ClaimSet
  BY LenProperties, ElementOfSeq
<1> HIDE DEF f
<1>3. 0 \in T
  BY <1>1
<1>4. \A n \in Nat : n \in T => n + 1 \in T
  <2>1. SUFFICES ASSUME NEW n \in Nat, n \in T, n + 1 <= Len(cs) PROVE f[n + 1] \in G
    BY <1>2
  <2>2. f[n] \in G
    BY <1>2, <2>1
  <2>3. n + 1 \in 1..Len(cs) /\ (n + 1) - 1 = n
    BY <1>2, <2>1
  <2>4. f[n + 1] = Record(f[n], cs[n + 1], d) /\ cs[n + 1] \in ClaimSet
    BY <1>1, <1>2, <2>3
  <2> QED BY <2>2, <2>4
<1>5. \A n \in Nat : n \in T
  <2> HIDE DEF T
  <2> QED BY <1>3, <1>4, SetInduction
<1> QED BY <1>2, <1>5 DEF f

-----------------------------------------------------------------------------
(* One current value of a single-valued fact *)

\* The current facts of one predicate about one person.
In(l, w, q) == {f \in Current(l) : f.subject = w /\ f.predicate = q}

OneCurrent(l) ==
  \A q \in SingleValued, w \in Person : \A f, g \in In(l, w, q) : f = g

Ledger == {l \in Seq(Fact) : OneCurrent(l)}

\* A claim takes one more place in a ledger, or none.
LEMMA RecordedIsFact ==
  ASSUME NEW c \in ClaimSet, NEW d \in Int
  PROVE  Recorded(c, d) \in Fact
<1>1. EventDay(c, d) \in Int
  BY DEF EventDay
<1> QED BY <1>1 DEF Recorded, ClaimSet, Fact

\* Recording a claim gives a sequence of facts again.
LEMMA RecordType ==
  ASSUME NEW l \in Seq(Fact), NEW c \in ClaimSet, NEW d \in Int
  PROVE  /\ Record(l, c, d) \in Seq(Fact)
         /\ Len(Record(l, c, d)) \in {Len(l), Len(l) + 1}
<1> DEFINE turned == [i \in DOMAIN l |-> IF Replaces(c, l[i])
                                           THEN [l[i] EXCEPT !.current = FALSE] ELSE l[i]]
           new == Recorded(c, d)
<1>1. Len(l) \in Nat /\ DOMAIN l = 1..Len(l) /\ \A i \in 1..Len(l) : l[i] \in Fact
  BY LenProperties, ElementOfSeq
<1>2. \A f \in Fact : [f EXCEPT !.current = FALSE] \in Fact
  BY DEF Fact
<1>3. \A i \in 1..Len(l) : turned[i] \in Fact
  BY <1>1, <1>2
<1>4. turned \in Seq(Fact) /\ Len(turned) = Len(l)
  <2>1. turned = [i \in 1..Len(l) |-> turned[i]]
    BY <1>1
  <2> HIDE DEF turned
  <2> QED BY <1>1, <1>3, <2>1
<1>5. new \in Fact
  BY RecordedIsFact
<1>6. Record(l, c, d) \in {l, Append(turned, new)}
  BY DEF Record
<1> HIDE DEF turned, new
<1>7. Append(turned, new) \in Seq(Fact) /\ Len(Append(turned, new)) = Len(l) + 1
  BY <1>4, <1>5
<1> QED BY <1>6, <1>7

\* A claim is known by a current fact of its own kind.
LEMMA KnownIn ==
  ASSUME NEW l \in Seq(Fact), NEW c \in ClaimSet, NEW d
  PROVE  Known(l, c, d) <=> \E f \in In(l, c.subject, c.predicate) :
                              Alike(f, c) /\ SameEvent(f, c, d)
<1>1. Known(l, c, d) <=> \E f \in Range(l) : f.current /\ Alike(f, c) /\ SameEvent(f, c, d)
  BY DEF Known, Range
<1>2. \A f : Alike(f, c) => f.subject = c.subject /\ f.predicate = c.predicate
  BY DEF Alike
<1> QED BY <1>1, <1>2 DEF In, Current

\* What a new claim does to the current facts of one kind.
LEMMA RecordIn ==
  ASSUME NEW l \in Seq(Fact), NEW c \in ClaimSet, NEW d \in Int, NEW w, NEW q
  PROVE  In(Record(l, c, d), w, q) =
           IF c.subject # w \/ c.predicate # q \/ Known(l, c, d) THEN In(l, w, q)
           ELSE (IF q \in SingleValued THEN {} ELSE In(l, w, q)) \cup {Recorded(c, d)}
<1> DEFINE turned == [i \in DOMAIN l |-> IF Replaces(c, l[i])
                                           THEN [l[i] EXCEPT !.current = FALSE] ELSE l[i]]
           new == Recorded(c, d)
<1>1. Len(l) \in Nat /\ DOMAIN l = 1..Len(l) /\ \A i \in 1..Len(l) : l[i] \in Fact
  BY LenProperties, ElementOfSeq
<1>2. CASE Known(l, c, d)
  BY <1>2 DEF Record
<1>3. CASE ~Known(l, c, d)
  <2> DEFINE r == Append(turned, new)
  <2>1. Record(l, c, d) = r
    BY <1>3 DEF Record, ClaimSet
  <2>2. \A f \in Fact : ~[f EXCEPT !.current = FALSE].current
    BY DEF Fact
  <2>3. DOMAIN turned = 1..Len(l)
    BY <1>1
  <2>4. \A i \in 1..Len(l) : turned[i].current => ~Replaces(c, l[i]) /\ turned[i] = l[i]
    BY <1>1, <2>2
  <2>5. \A i \in 1..Len(l) : ~Replaces(c, l[i]) => turned[i] = l[i]
    BY <1>1
  <2>6. new.current /\ new.subject = c.subject /\ new.predicate = c.predicate
    BY DEF Recorded
  <2> HIDE DEF turned, new
  <2>7. Range(r) = {turned[i] : i \in 1..Len(l)} \cup {new}
    <3>1. turned \in Seq({turned[i] : i \in 1..Len(l)}) /\ Len(turned) = Len(l)
      <4> DEFINE S == {turned[i] : i \in 1..Len(l)}
      <4>1. turned = [i \in 1..Len(l) |-> turned[i]]
        BY <2>3 DEF turned
      <4>2. \A i \in 1..Len(l) : turned[i] \in S
        OBVIOUS
      <4> HIDE DEF S
      <4> QED BY <1>1, <4>1, <4>2 DEF S
    <3>2. DOMAIN r = 1..(Len(l) + 1)
      BY <3>1, <1>1
    <3>3. /\ \A i \in 1..Len(l) : r[i] = turned[i]
          /\ r[Len(l) + 1] = new
      BY <3>1, <1>1
    <3> HIDE DEF r
    <3>4. 1..(Len(l) + 1) = 1..Len(l) \cup {Len(l) + 1}
      BY <1>1
    <3> QED BY <3>2, <3>3, <3>4 DEF Range
  <2>8. Range(l) = {l[i] : i \in 1..Len(l)}
    BY <1>1 DEF Range
  <2> HIDE DEF r
  <2>9. Current(r) = {f \in Current(l) : ~Replaces(c, f)} \cup {new}
    <3>1. ASSUME NEW f \in Current(r)
          PROVE  f = new \/ (f \in Current(l) /\ ~Replaces(c, f))
      BY <2>4, <2>7, <2>8 DEF Current
    <3>2. ASSUME NEW f \in Current(l), ~Replaces(c, f) PROVE f \in Current(r)
      BY <2>5, <2>7, <2>8, <3>2 DEF Current
    <3>3. new \in Current(r)
      BY <2>6, <2>7 DEF Current
    <3> QED BY <3>1, <3>2, <3>3
  <2>10. \A f \in Current(l) : Replaces(c, f) <=>
           f.subject = c.subject /\ f.predicate = c.predicate /\ c.predicate \in SingleValued
    BY DEF Replaces, Current
  <2>11. CASE c.subject # w \/ c.predicate # q
    BY <2>1, <2>6, <2>9, <2>10, <2>11 DEF In
  <2>12. CASE c.subject = w /\ c.predicate = q
    <3>1. In(r, w, q) = {f \in In(l, w, q) : ~Replaces(c, f)} \cup {new}
      BY <2>6, <2>9, <2>12 DEF In
    <3>2. \A f \in In(l, w, q) : Replaces(c, f) <=> q \in SingleValued
      BY <2>10, <2>12 DEF In
    <3>3. In(r, w, q) = (IF q \in SingleValued THEN {} ELSE In(l, w, q)) \cup {new}
      <4> HIDE DEF In
      <4> QED BY <3>1, <3>2
    <3> QED BY <1>3, <2>1, <2>12, <3>3 DEF new
  <2> QED BY <2>11, <2>12
<1> QED BY <1>2, <1>3

\* A claim leaves at most one value of each.
LEMMA RecordKeepsLedger ==
  ASSUME NEW l \in Ledger, NEW c \in ClaimSet, NEW d \in Int
  PROVE  Record(l, c, d) \in Ledger
<1>1. l \in Seq(Fact) /\ Record(l, c, d) \in Seq(Fact)
  BY RecordType DEF Ledger
<1>2. ASSUME NEW q \in SingleValued, NEW w \in Person
      PROVE  \A f, g \in In(Record(l, c, d), w, q) : f = g
  <2>1. In(Record(l, c, d), w, q) \in {In(l, w, q), {} \cup {Recorded(c, d)}}
    BY <1>1, <1>2, RecordIn
  <2>2. \A f, g \in In(l, w, q) : f = g
    BY <1>2 DEF Ledger, OneCurrent
  <2> HIDE DEF In
  <2> QED BY <2>1, <2>2
<1> QED BY <1>1, <1>2 DEF Ledger, OneCurrent

\* What is cut from a ledger leaves at most one value of each.
LEMMA NewestType ==
  ASSUME NEW l \in Seq(Fact)
  PROVE  /\ Newest(l) \in Seq(Fact)
         /\ Len(Newest(l)) = IF Len(l) <= MaxFacts THEN Len(l) ELSE MaxFacts
         /\ Current(Newest(l)) \subseteq Current(l)
<1>1. MaxFacts \in Nat \ {0} /\ Len(l) \in Nat /\ DOMAIN l = 1..Len(l)
      /\ \A i \in 1..Len(l) : l[i] \in Fact
  BY ReadingAssumption, LenProperties, ElementOfSeq
<1>2. CASE Len(l) <= MaxFacts
  BY <1>2 DEF Newest
<1>3. CASE ~ (Len(l) <= MaxFacts)
  <2> DEFINE a == Len(l) - MaxFacts + 1
             r == SubSeq(l, a, Len(l))
  <2>1. a \in Int /\ a \in 1..Len(l) /\ Len(l) - a + 1 = MaxFacts
    BY <1>1, <1>3
  <2>2. Newest(l) = r
    BY <1>3 DEF Newest
  <2> HIDE DEF a
  <2>3. \A i \in a..Len(l) : l[i] \in Fact
    BY <1>1, <2>1
  <2>4. /\ r \in Seq(Fact)
        /\ Len(r) = IF a <= Len(l) THEN Len(l) - a + 1 ELSE 0
        /\ \A i \in 1..(Len(l) - a + 1) : r[i] = l[a + i - 1]
    BY <1>1, <2>1, <2>3, SubSeqProperties
  <2>5. Len(r) = MaxFacts
    <3> HIDE DEF r
    <3> QED BY <1>1, <2>1, <2>4
  <2> HIDE DEF r
  <2>6. DOMAIN r = 1..MaxFacts
    BY <2>4, <2>5, LenProperties
  <2>7. \A i \in 1..MaxFacts : r[i] = l[a + i - 1] /\ a + i - 1 \in 1..Len(l)
    BY <1>1, <2>1, <2>4
  <2>8. Current(r) \subseteq Current(l)
    BY <1>1, <2>6, <2>7 DEF Current, Range
  <2> QED BY <1>3, <2>2, <2>4, <2>5, <2>8
<1> QED BY <1>2, <1>3

\* Dropping the oldest facts leaves a ledger that holds together.
LEMMA NewestKeepsLedger ==
  ASSUME NEW l \in Ledger PROVE Newest(l) \in Ledger
<1>1. l \in Seq(Fact)
  BY DEF Ledger
<1>2. Newest(l) \in Seq(Fact) /\ Current(Newest(l)) \subseteq Current(l)
  BY <1>1, NewestType
<1>3. \A w, q : In(Newest(l), w, q) \subseteq In(l, w, q)
  BY <1>2 DEF In
<1> QED BY <1>2, <1>3 DEF Ledger, OneCurrent

\* What a message makes of a ledger is a ledger.
LEMMA ReducedIsLedger ==
  ASSUME NEW l \in Ledger, NEW m \in Message, NEW fs \in Seq(SemanticFact),
         NEW d \in Int
  PROVE  /\ Reduced(l, m, fs, d) \in Ledger
         /\ Len(Reduced(l, m, fs, d)) <= MaxFacts
<1> DEFINE cs == Claims(m, fs)
           s == Stages(l, cs, d)[Len(cs)]
<1>1. cs \in Seq(ClaimSet)
  BY ClaimsAreClaims
<1> HIDE DEF cs
<1>2. Len(cs) \in 0..Len(cs)
  BY <1>1, LenProperties
<1>3. \A x \in Ledger, c \in ClaimSet : Record(x, c, d) \in Ledger
  BY RecordKeepsLedger
<1>4. \A n \in 0..Len(cs) : Stages(l, cs, d)[n] \in Ledger
  BY <1>1, <1>3, StagesKeep
<1>5. s \in Ledger /\ s \in Seq(Fact)
  BY <1>2, <1>4 DEF Ledger
<1>6. Reduced(l, m, fs, d) = Newest(s)
  BY DEF Reduced, cs
<1> HIDE DEF s
<1>7. Newest(s) \in Ledger
  BY <1>5, NewestKeepsLedger
<1>8. Len(Newest(s)) <= MaxFacts
  <2>1. Len(s) \in Nat /\ MaxFacts \in Nat
    BY <1>5, LenProperties, ReadingAssumption
  <2>2. Len(Newest(s)) = IF Len(s) <= MaxFacts THEN Len(s) ELSE MaxFacts
    BY <1>5, NewestType
  <2> QED BY <2>1, <2>2
<1> QED BY <1>6, <1>7, <1>8

\* The ledger holds together, and while a message is read or planned for, it is
\* what this message made of some ledger that held together.
LedgerInv ==
  /\ facts \in Ledger /\ Len(facts) <= MaxFacts
  /\ day \in Int /\ at \in Int
  /\ step # "idle" =>
       /\ message \in Messages /\ sem \in SemFacts
       /\ \E l \in Ledger : facts = Reduced(l, message, sem, at)

\* Reading a message, for the first time or again, keeps the invariant.
LEMMA ReadKeepsLedger ==
  ASSUME LedgerInv, NEW m \in Messages, NEW fs \in SemFacts, NEW d \in Int,
         Reads(m, fs, d)
  PROVE  LedgerInv'
<1>1. m \in Message /\ fs \in Seq(SemanticFact)
  BY ReadingAssumption
<1>2. /\ facts' = Reduced(facts, m, fs, d) /\ message' = m /\ sem' = fs /\ at' = d
      /\ day' = day
  BY DEF Reads
<1>3. facts' \in Ledger /\ Len(facts') <= MaxFacts
  BY <1>1, <1>2, ReducedIsLedger DEF LedgerInv
<1>4. \E l \in Ledger : facts' = Reduced(l, message', sem', at')
  BY <1>2 DEF LedgerInv
<1> QED BY <1>2, <1>3, <1>4 DEF LedgerInv

\* The ledger holds together in every state: typed, within its limit, and with at
\* most one current value of each single-valued fact of a person, whatever message
\* comes late, is read again or contradicts what was said before
\* (reduceConversationFactLedger, conversationFacts.ts:186-250).
THEOREM LedgerHoldsTogether == Spec => []LedgerInv
<1>1. Init => LedgerInv
  <2>1. SUFFICES ASSUME Init PROVE LedgerInv
    OBVIOUS
  <2>2. facts = <<>> /\ facts \in Seq(Fact) /\ Len(facts) = 0
    BY <2>1 DEF Init
  <2>3. Current(facts) = {}
    BY <2>2 DEF Current, Range
  <2>4. facts \in Ledger
    BY <2>2, <2>3 DEF Ledger, OneCurrent, In
  <2> QED BY <2>1, <2>2, <2>4, ReadingAssumption DEF Init, LedgerInv
<1>2. LedgerInv /\ [Next]_vars => LedgerInv'
  <2>1. SUFFICES ASSUME LedgerInv, [Next]_vars PROVE LedgerInv'
    OBVIOUS
  <2>2. CASE Read
    <3>1. PICK m \in Messages, fs \in SemFacts, d \in (day - MaxLate)..day :
            Reads(m, fs, d)
      BY <2>2 DEF Read
    <3>2. d \in Int
      BY <2>1, <3>1, ReadingAssumption DEF LedgerInv
    <3> QED BY <2>1, <3>1, <3>2, ReadKeepsLedger
  <2>3. CASE Retry
    <3>1. step # "idle" /\ Reads(message, sem, at)
      BY <2>3 DEF Retry
    <3>2. message \in Messages /\ sem \in SemFacts /\ at \in Int
      BY <2>1, <3>1 DEF LedgerInv
    <3> QED BY <2>1, <3>1, <3>2, ReadKeepsLedger
  <2>4. CASE Plan
    BY <2>1, <2>4 DEF Plan, LedgerInv
  <2>5. CASE End
    BY <2>1, <2>5 DEF End, LedgerInv
  <2>6. CASE NextDay
    BY <2>1, <2>6 DEF NextDay, LedgerInv
  <2>7. CASE UNCHANGED vars
    BY <2>1, <2>7 DEF vars, LedgerInv
  <2> QED BY <2>1, <2>2, <2>3, <2>4, <2>5, <2>6, <2>7 DEF Next
<1> QED BY <1>1, <1>2, PTL DEF Spec

\* SayableFactsAgree: what a reply may say of a person holds together, two current
\* values of one single-valued fact never being among it, nor a "today" or
\* "yesterday" of another day (projectMemoryForTurn, memoryProjection.ts:12).
THEOREM SayableAgrees == Spec => []SayableFactsAgree
<1>1. LedgerInv => SayableFactsAgree
  <2>1. SUFFICES ASSUME LedgerInv, step # "idle",
                        NEW f \in MaySay(facts, message, at),
                        NEW g \in MaySay(facts, message, at)
                 PROVE  /\ f.predicate \in SingleValued /\ f.predicate = g.predicate
                             /\ f.current /\ g.current => f.value = g.value
                        /\ f.temporal = "today" => f.day = at
                        /\ f.temporal = "yesterday" => f.day = at - 1
    BY DEF SayableFactsAgree
  <2>2. /\ f \in Range(facts) /\ g \in Range(facts)
        /\ f.subject = message.of /\ g.subject = message.of
        /\ ~Stale(f, at)
    BY DEF MaySay
  <2>3. f.temporal = "today" => f.day = at
    BY <2>2 DEF Stale, EventDay
  <2>4. f.temporal = "yesterday" => f.day = at - 1
    BY <2>2 DEF Stale, EventDay
  <2>5. ASSUME f.predicate \in SingleValued, f.predicate = g.predicate,
               f.current, g.current
        PROVE  f = g
    <3>1. message.of \in Person
      BY <2>1, ReadingAssumption DEF LedgerInv, Message
    <3>2. f \in In(facts, message.of, f.predicate) /\ g \in In(facts, message.of, f.predicate)
      BY <2>2, <2>5 DEF In, Current
    <3>3. OneCurrent(facts)
      BY <2>1 DEF LedgerInv, Ledger
    <3> QED BY <2>5, <3>1, <3>2, <3>3 DEF OneCurrent
  <2> QED BY <2>3, <2>4, <2>5
<1> QED BY <1>1, LedgerHoldsTogether, PTL

-----------------------------------------------------------------------------
(* A message that is read again *)

\* A fact that a claim need not add.
Matches(f, c, d) == Alike(f, c) /\ SameEvent(f, c, d)

\* Two claims of one single-valued fact that do not say the same.
Clash(c, e) ==
  /\ c.predicate \in SingleValued
  /\ c.subject = e.subject /\ c.predicate = e.predicate
  /\ ~Alike(c, e)

\* What was recorded for a claim matches it,
LEMMA RecordedMatches ==
  ASSUME NEW c \in ClaimSet, NEW d PROVE Matches(Recorded(c, d), c, d)
BY DEF Matches, Recorded, Alike, SameEvent

\* and matches another one exactly when the two claims are alike.
LEMMA MatchesAlike ==
  ASSUME NEW f, NEW c, NEW e, NEW d, Matches(f, c, d)
  PROVE  Matches(f, e, d) <=> Alike(c, e)
<1>1. Matches(f, e, d) => Alike(c, e)
  BY DEF Matches, Alike
<1>2. ASSUME Alike(c, e) PROVE Matches(f, e, d)
  <2>1. Alike(f, e)
    BY <1>2 DEF Matches, Alike
  <2>2. c.temporal = e.temporal
    BY <1>2 DEF Alike
  <2>3. EventDay(c, d) = EventDay(e, d)
    BY <2>2 DEF EventDay
  <2>4. SameEvent(f, e, d)
    BY <2>2, <2>3 DEF Matches, SameEvent
  <2> QED BY <2>1, <2>4 DEF Matches
<1> QED BY <1>1, <1>2

\* A claim is known once it was recorded.
LEMMA RecordKnows ==
  ASSUME NEW l \in Seq(Fact), NEW c \in ClaimSet, NEW d \in Int
  PROVE  Known(Record(l, c, d), c, d)
<1> DEFINE r == Record(l, c, d)
<1>1. r \in Seq(Fact)
  BY RecordType
<1>2. CASE Known(l, c, d)
  BY <1>2 DEF Record
<1>3. CASE ~Known(l, c, d)
  <2>1. Recorded(c, d) \in In(r, c.subject, c.predicate)
    BY <1>3, RecordIn
  <2>2. Alike(Recorded(c, d), c) /\ SameEvent(Recorded(c, d), c, d)
    BY RecordedMatches DEF Matches
  <2> HIDE DEF r
  <2> QED BY <1>1, <2>1, <2>2, KnownIn DEF r
<1> QED BY <1>2, <1>3

\* It stays known unless a claim that clashes with it is recorded.
LEMMA KnownStays ==
  ASSUME NEW l \in Seq(Fact), NEW c \in ClaimSet, NEW e \in ClaimSet, NEW d \in Int,
         Known(l, e, d), ~Clash(c, e)
  PROVE  Known(Record(l, c, d), e, d)
<1> DEFINE r == Record(l, c, d)
<1>1. r \in Seq(Fact)
  BY RecordType
<1>2. PICK f \in In(l, e.subject, e.predicate) : Matches(f, e, d)
  BY KnownIn DEF Matches
<1>3. f \in In(r, e.subject, e.predicate)
  <2>1. CASE c.subject # e.subject \/ c.predicate # e.predicate \/ Known(l, c, d)
    BY <1>2, <2>1, RecordIn
  <2>2. CASE c.subject = e.subject /\ c.predicate = e.predicate /\ ~Known(l, c, d)
    <3>1. ~Matches(f, c, d)
      BY <1>2, <2>2, KnownIn DEF Matches
    <3>2. ~Alike(e, c)
      BY <1>2, <3>1, MatchesAlike
    <3>3. c.predicate \notin SingleValued
      BY <2>2, <3>2 DEF Clash, Alike
    <3> QED BY <1>2, <2>2, <3>3, RecordIn
  <2> QED BY <2>1, <2>2
<1> HIDE DEF r
<1> QED BY <1>1, <1>2, <1>3, KnownIn DEF Matches, r

\* Claims that no other clashes with are known from when they are recorded, or
\* from the start.
LEMMA KnownThroughout ==
  ASSUME NEW l \in Seq(Fact), NEW cs \in Seq(ClaimSet), NEW d \in Int,
         NEW J \in SUBSET (1..Len(cs)),
         \A i \in 1..Len(cs), j \in J : ~Clash(cs[i], cs[j])
  PROVE  \A n \in 0..Len(cs), j \in J :
           j <= n \/ Known(l, cs[j], d) => Known(Stages(l, cs, d)[n], cs[j], d)
<1> DEFINE f == Stages(l, cs, d)
           T == {n \in Nat : n <= Len(cs) =>
                   \A j \in J : j <= n \/ Known(l, cs[j], d) => Known(f[n], cs[j], d)}
<1>1. /\ f[0] = l
      /\ \A n \in 1..Len(cs) : f[n] = Record(f[n - 1], cs[n], d)
  BY StagesStep
<1>2. Len(cs) \in Nat /\ \A n \in 1..Len(cs) : cs[n] \in ClaimSet
  BY LenProperties, ElementOfSeq
<1>3. \A n \in 0..Len(cs) : f[n] \in Seq(Fact)
  <2>1. \A x \in Seq(Fact), c \in ClaimSet : Record(x, c, d) \in Seq(Fact)
    BY RecordType
  <2> QED BY <2>1, StagesKeep
<1> HIDE DEF f
<1>4. 0 \in T
  BY <1>1
<1>5. \A n \in Nat : n \in T => n + 1 \in T
  <2>1. SUFFICES ASSUME NEW n \in Nat, n \in T, n + 1 <= Len(cs), NEW j \in J,
                        j <= n + 1 \/ Known(l, cs[j], d)
                 PROVE  Known(f[n + 1], cs[j], d)
    BY <1>2
  <2>2. n \in 0..Len(cs) /\ n + 1 \in 1..Len(cs) /\ (n + 1) - 1 = n /\ n <= Len(cs)
    BY <1>2, <2>1
  <2>3. /\ f[n + 1] = Record(f[n], cs[n + 1], d) /\ cs[n + 1] \in ClaimSet
        /\ f[n] \in Seq(Fact)
    BY <1>1, <1>2, <1>3, <2>2
  <2>4. j \in 1..Len(cs) /\ j \in Nat /\ cs[j] \in ClaimSet
    BY <1>2
  <2>5. CASE j = n + 1
    BY <2>3, <2>5, RecordKnows
  <2>6. CASE j # n + 1
    <3>1. j <= n \/ Known(l, cs[j], d)
      BY <2>1, <2>4, <2>6
    <3>2. Known(f[n], cs[j], d)
      BY <2>1, <2>2, <3>1
    <3>3. ~Clash(cs[n + 1], cs[j])
      BY <2>2
    <3> QED BY <2>3, <2>4, <3>2, <3>3, KnownStays
  <2> QED BY <2>5, <2>6
<1>6. \A n \in Nat : n \in T
  <2> HIDE DEF T
  <2> QED BY <1>4, <1>5, SetInduction
<1> QED BY <1>2, <1>6 DEF f

\* Claims that are all known change nothing.
LEMMA KnownChangesNothing ==
  ASSUME NEW l \in Seq(Fact), NEW cs \in Seq(ClaimSet), NEW d \in Int,
         \A j \in 1..Len(cs) : Known(l, cs[j], d)
  PROVE  Stages(l, cs, d)[Len(cs)] = l
<1> DEFINE f == Stages(l, cs, d)
           T == {n \in Nat : n <= Len(cs) => f[n] = l}
<1>1. /\ f[0] = l
      /\ \A n \in 1..Len(cs) : f[n] = Record(f[n - 1], cs[n], d)
  BY StagesStep
<1>2. Len(cs) \in Nat
  BY LenProperties
<1> HIDE DEF f
<1>3. 0 \in T
  BY <1>1
<1>4. \A n \in Nat : n \in T => n + 1 \in T
  <2>1. SUFFICES ASSUME NEW n \in Nat, n \in T, n + 1 <= Len(cs) PROVE f[n + 1] = l
    BY <1>2
  <2>2. n <= Len(cs) /\ n + 1 \in 1..Len(cs) /\ (n + 1) - 1 = n
    BY <1>2, <2>1
  <2>3. f[n + 1] = Record(l, cs[n + 1], d)
    BY <1>1, <2>1, <2>2
  <2> QED BY <2>2, <2>3 DEF Record
<1>5. \A n \in Nat : n \in T
  <2> HIDE DEF T
  <2> QED BY <1>3, <1>4, SetInduction
<1> QED BY <1>2, <1>5 DEF f

\* A fact of a ledger that is the only one of its kind decides what is known of it.
LEMMA OneIsKnown ==
  ASSUME NEW l \in Ledger, NEW c \in ClaimSet, NEW e \in ClaimSet, NEW d \in Int,
         c.predicate \in SingleValued, c.subject = e.subject, c.predicate = e.predicate,
         Known(l, e, d)
  PROVE  Known(l, c, d) <=> Alike(c, e)
<1>1. l \in Seq(Fact) /\ OneCurrent(l) /\ c.subject \in Person
  BY DEF Ledger, ClaimSet
<1> DEFINE A == In(l, e.subject, e.predicate)
<1>2. PICK f \in A : Matches(f, e, d)
  BY <1>1, KnownIn DEF Matches
<1>3. \A g \in A : g = f
  BY <1>1 DEF OneCurrent
<1>4. Known(l, c, d) <=> \E g \in A : Matches(g, c, d)
  BY <1>1, KnownIn DEF Matches
<1> HIDE DEF A
<1>5. Known(l, c, d) <=> Matches(f, c, d)
  BY <1>2, <1>3, <1>4
<1>6. Matches(f, c, d) <=> Alike(e, c)
  BY <1>2, MatchesAlike
<1> QED BY <1>5, <1>6 DEF Alike

\* Read twice, a message leaves the same current value of a single-valued fact:
\* the second reading follows the first from the first value that differs.
LEMMA SingleReread ==
  ASSUME NEW l \in Ledger, NEW cs \in Seq(ClaimSet), NEW d \in Int,
         NEW w \in Person, NEW q \in SingleValued
  PROVE  LET once == Stages(l, cs, d)[Len(cs)]
         IN  In(Stages(once, cs, d)[Len(cs)], w, q) = In(once, w, q)
<1> DEFINE N == Len(cs)
           f == Stages(l, cs, d)
           once == f[N]
           g == Stages(once, cs, d)
           Caught(n, c) == /\ c.subject = w /\ c.predicate = q
                           /\ Known(f[n], c, d) /\ Known(g[n], c, d) /\ ~Known(once, c, d)
           T == {n \in Nat : n <= N =>
                   \/ In(g[n], w, q) = In(once, w, q)
                   \/ In(g[n], w, q) = In(f[n], w, q)
                   \/ \E c \in ClaimSet : Caught(n, c)}
<1>1. N \in Nat /\ \A n \in 1..N : cs[n] \in ClaimSet
  BY LenProperties, ElementOfSeq
<1>2. \A x \in Ledger, c \in ClaimSet : Record(x, c, d) \in Ledger
  BY RecordKeepsLedger
<1>3. \A n \in 0..N : f[n] \in Ledger
  <2> HIDE DEF f
  <2> QED BY <1>2, StagesKeep DEF f
<1>4. once \in Ledger
  <2> HIDE DEF f, N
  <2> QED BY <1>1, <1>3
<1>5. \A n \in 0..N : g[n] \in Ledger
  <2> HIDE DEF g, once
  <2> QED BY <1>2, <1>4, StagesKeep DEF g
<1>6. \A n \in 1..N : f[n] = Record(f[n - 1], cs[n], d)
  BY StagesStep
<1>7. g[0] = once /\ \A n \in 1..N : g[n] = Record(g[n - 1], cs[n], d)
  BY StagesStep
<1>8. \A x \in Ledger : x \in Seq(Fact)
  BY DEF Ledger
<1> HIDE DEF f, g, N, once
<1>9. 0 \in T
  BY <1>7
<1>10. \A n \in Nat : n \in T => n + 1 \in T
  <2>1. SUFFICES ASSUME NEW n \in Nat, n \in T, n + 1 <= N PROVE n + 1 \in T
    BY <1>1
  <2> DEFINE c == cs[n + 1]
             x == f[n]
             y == g[n]
             x1 == Record(x, c, d)
             y1 == Record(y, c, d)
  <2>2. n \in 0..N /\ n + 1 \in 1..N /\ (n + 1) - 1 = n /\ n <= N
    BY <1>1, <2>1
  <2>3. /\ f[n + 1] = x1 /\ g[n + 1] = y1 /\ c \in ClaimSet
        /\ x \in Ledger /\ y \in Ledger
        /\ x \in Seq(Fact) /\ y \in Seq(Fact)
    BY <1>1, <1>3, <1>5, <1>6, <1>7, <1>8, <2>2
  <2>4. x1 \in Seq(Fact) /\ y1 \in Seq(Fact)
    BY <2>3, RecordType
  <2>5. \/ In(y, w, q) = In(once, w, q)
        \/ In(y, w, q) = In(x, w, q)
        \/ \E e \in ClaimSet : Caught(n, e)
    BY <2>1, <2>2
  <2>6. SUFFICES \/ In(y1, w, q) = In(once, w, q)
                 \/ In(y1, w, q) = In(x1, w, q)
                 \/ \E e \in ClaimSet : Caught(n + 1, e)
    BY <2>3
  <2> HIDE DEF c, x, y, x1, y1
  <2>7. CASE c.subject # w \/ c.predicate # q
    <3>1. In(y1, w, q) = In(y, w, q) /\ In(x1, w, q) = In(x, w, q)
      BY <2>3, <2>7, RecordIn DEF x1, y1
    <3>2. \A e \in ClaimSet : Caught(n, e) => Caught(n + 1, e)
      BY <2>3, <2>4, <3>1, KnownIn DEF x, y
    <3> QED BY <2>5, <3>1, <3>2
  <2>8. CASE c.subject = w /\ c.predicate = q
    <3>1. /\ In(x1, w, q) = IF Known(x, c, d) THEN In(x, w, q) ELSE {Recorded(c, d)}
          /\ In(y1, w, q) = IF Known(y, c, d) THEN In(y, w, q) ELSE {Recorded(c, d)}
      BY <2>3, <2>8, RecordIn DEF x1, y1
    <3>2. CASE In(y, w, q) = In(once, w, q)
      <4>1. CASE Known(y, c, d)
        BY <3>1, <3>2, <4>1
      <4>2. CASE ~Known(y, c, d)
        <5>1. ~Known(once, c, d)
          BY <1>4, <1>8, <2>3, <2>8, <3>2, <4>2, KnownIn
        <5>2. Known(x1, c, d) /\ Known(y1, c, d)
          BY <2>3, RecordKnows DEF x1, y1
        <5>3. Caught(n + 1, c)
          BY <2>3, <2>8, <5>1, <5>2
        <5> QED BY <2>3, <5>3
      <4> QED BY <4>1, <4>2
    <3>3. CASE In(y, w, q) = In(x, w, q)
      <4>1. Known(y, c, d) <=> Known(x, c, d)
        BY <2>3, <2>8, <3>3, KnownIn
      <4> QED BY <3>1, <3>3, <4>1
    <3>4. ASSUME NEW e \in ClaimSet, Caught(n, e)
          PROVE  \/ In(y1, w, q) = In(x1, w, q)
                 \/ Caught(n + 1, e)
      <4>1. e.subject = w /\ e.predicate = q /\ Known(x, e, d) /\ Known(y, e, d)
            /\ ~Known(once, e, d)
        BY <3>4 DEF x, y
      <4>2. /\ Known(x, c, d) <=> Alike(c, e)
            /\ Known(y, c, d) <=> Alike(c, e)
        BY <2>3, <2>8, <4>1, OneIsKnown
      <4>3. CASE Alike(c, e)
        <5>1. x1 = x /\ y1 = y
          BY <4>2, <4>3 DEF Record, x1, y1
        <5> QED BY <2>3, <4>1, <5>1
      <4>4. CASE ~Alike(c, e)
        BY <3>1, <4>2, <4>4
      <4> QED BY <4>3, <4>4
    <3> QED BY <2>5, <3>2, <3>3, <3>4
  <2> QED BY <2>7, <2>8
<1>11. \A n \in Nat : n \in T
  <2> HIDE DEF T
  <2> QED BY <1>9, <1>10, SetInduction
<1>12. \/ In(g[N], w, q) = In(once, w, q)
       \/ In(g[N], w, q) = In(f[N], w, q)
       \/ \E c \in ClaimSet : Caught(N, c)
  BY <1>1, <1>11
<1>13. \A c \in ClaimSet : ~Caught(N, c)
  BY DEF once
<1>14. In(g[N], w, q) = In(once, w, q)
  BY <1>12, <1>13 DEF once
<1> QED BY <1>14 DEF f, g, N, once

\* ... and the same current facts of the other kinds.
LEMMA OtherReread ==
  ASSUME NEW l \in Seq(Fact), NEW cs \in Seq(ClaimSet), NEW d \in Int,
         NEW w, NEW q, q \notin SingleValued
  PROVE  LET once == Stages(l, cs, d)[Len(cs)]
         IN  In(Stages(once, cs, d)[Len(cs)], w, q) = In(once, w, q)
<1> DEFINE N == Len(cs)
           once == Stages(l, cs, d)[N]
           g == Stages(once, cs, d)
           J == {j \in 1..N : cs[j].predicate = q}
           T == {n \in Nat : n <= N => In(g[n], w, q) = In(once, w, q)}
<1>1. N \in Nat /\ \A n \in 1..N : cs[n] \in ClaimSet
  BY LenProperties, ElementOfSeq
<1>2. \A x \in Seq(Fact), c \in ClaimSet : Record(x, c, d) \in Seq(Fact)
  BY RecordType
<1>3. once \in Seq(Fact)
  <2>1. N \in 0..N
    BY <1>1
  <2> QED BY <1>2, <2>1, StagesKeep
<1>4. \A n \in 0..N : g[n] \in Seq(Fact)
  <2> HIDE DEF once
  <2> QED BY <1>2, <1>3, StagesKeep
<1>5. J \in SUBSET (1..N) /\ \A i \in 1..N, j \in J : ~Clash(cs[i], cs[j])
  BY DEF Clash
<1>6. \A j \in J : Known(once, cs[j], d)
  <2>1. \A n \in 0..N, j \in J :
          j <= n \/ Known(l, cs[j], d) => Known(Stages(l, cs, d)[n], cs[j], d)
    <3> HIDE DEF J
    <3> QED BY <1>5, KnownThroughout
  <2>2. N \in 0..N /\ \A j \in J : j <= N
    BY <1>1
  <2> HIDE DEF J, N
  <2> QED BY <2>1, <2>2
<1>7. \A n \in 0..N, j \in J : Known(g[n], cs[j], d)
  <2> HIDE DEF J, once
  <2>1. \A n \in 0..N, j \in J :
          j <= n \/ Known(once, cs[j], d) => Known(g[n], cs[j], d)
    BY <1>3, <1>5, KnownThroughout
  <2> QED BY <1>6, <2>1
<1>8. g[0] = once /\ \A n \in 1..N : g[n] = Record(g[n - 1], cs[n], d)
  BY StagesStep
<1> HIDE DEF g, once, N
<1>9. 0 \in T
  BY <1>8
<1>10. \A n \in Nat : n \in T => n + 1 \in T
  <2>1. SUFFICES ASSUME NEW n \in Nat, n \in T, n + 1 <= N
                 PROVE  In(g[n + 1], w, q) = In(once, w, q)
    BY <1>1
  <2>2. n \in 0..N /\ n + 1 \in 1..N /\ (n + 1) - 1 = n /\ n <= N
    BY <1>1, <2>1
  <2>3. /\ g[n + 1] = Record(g[n], cs[n + 1], d) /\ cs[n + 1] \in ClaimSet
        /\ g[n] \in Seq(Fact)
    BY <1>1, <1>4, <1>8, <2>2
  <2>4. cs[n + 1].predicate = q => Known(g[n], cs[n + 1], d)
    BY <1>7, <2>2
  <2>5. In(g[n + 1], w, q) = In(g[n], w, q)
    BY <2>3, <2>4, RecordIn
  <2> QED BY <2>1, <2>2, <2>5
<1>11. \A n \in Nat : n \in T
  <2> HIDE DEF T
  <2> QED BY <1>9, <1>10, SetInduction
<1>12. In(g[N], w, q) = In(once, w, q)
  BY <1>1, <1>11
<1> QED BY <1>12 DEF g, once, N

\* A ledger never gets shorter before it is cut.
LEMMA StagesGrow ==
  ASSUME NEW l \in Seq(Fact), NEW cs \in Seq(ClaimSet), NEW d \in Int
  PROVE  /\ Stages(l, cs, d)[Len(cs)] \in Seq(Fact)
         /\ Len(Stages(l, cs, d)[Len(cs)]) >= Len(l)
<1> DEFINE G == {x \in Seq(Fact) : Len(x) >= Len(l)}
<1>1. l \in G
  <2>1. Len(l) \in Nat
    BY LenProperties
  <2> QED BY <2>1
<1>2. \A x \in G, c \in ClaimSet : Record(x, c, d) \in G
  <2>1. SUFFICES ASSUME NEW x \in G, NEW c \in ClaimSet PROVE Record(x, c, d) \in G
    OBVIOUS
  <2>2. x \in Seq(Fact) /\ Len(x) >= Len(l) /\ Len(x) \in Nat /\ Len(l) \in Nat
    BY LenProperties
  <2>3. Record(x, c, d) \in Seq(Fact) /\ Len(Record(x, c, d)) \in {Len(x), Len(x) + 1}
    BY <2>2, RecordType
  <2> QED BY <2>2, <2>3
<1>3. Len(cs) \in 0..Len(cs)
  BY LenProperties
<1>4. \A n \in 0..Len(cs) : Stages(l, cs, d)[n] \in G
  <2> HIDE DEF G
  <2> QED BY <1>1, <1>2, StagesKeep
<1> QED BY <1>3, <1>4

\* A message that is read a second time, at its own time.
LEMMA Reread ==
  ASSUME NEW l \in Ledger, NEW m \in Message, NEW fs \in Seq(SemanticFact), NEW d \in Int
  PROVE  LET once == Reduced(l, m, fs, d)
             twice == Reduced(once, m, fs, d)
         IN  \/ twice = once
             \/ Contradicts(m, fs) /\ Current(twice) = Current(once)
             \/ Len(twice) = MaxFacts
<1> DEFINE cs == Claims(m, fs)
           N == Len(cs)
           s1 == Stages(l, cs, d)[N]
           once == Newest(s1)
           s2 == Stages(once, cs, d)[N]
           twice == Newest(s2)
<1>1. cs \in Seq(ClaimSet)
  BY ClaimsAreClaims
<1>2. once = Reduced(l, m, fs, d) /\ twice = Reduced(once, m, fs, d)
  BY DEF Reduced
<1>3. Contradicts(m, fs) <=> \E i, j \in 1..N : Clash(cs[i], cs[j])
  <2>1. DOMAIN cs = 1..N
    BY <1>1, LenProperties
  <2> HIDE DEF cs, N
  <2> QED BY <2>1 DEF Contradicts, Clash, cs
<1> HIDE DEF cs
<1>4. l \in Seq(Fact)
  BY DEF Ledger
<1>5. s1 \in Seq(Fact) /\ N \in Nat /\ N \in 0..N
  BY <1>1, <1>4, StagesGrow, LenProperties
<1>6. MaxFacts \in Nat \ {0}
  BY ReadingAssumption
<1>7. once \in Seq(Fact) /\ Len(once) = IF Len(s1) <= MaxFacts THEN Len(s1) ELSE MaxFacts
  <2> HIDE DEF s1
  <2> QED BY <1>5, NewestType
<1>8. s2 \in Seq(Fact) /\ Len(s2) >= Len(once)
  <2> HIDE DEF once
  <2> QED BY <1>1, <1>7, StagesGrow
<1>9. Len(twice) = IF Len(s2) <= MaxFacts THEN Len(s2) ELSE MaxFacts
  <2> HIDE DEF s2
  <2> QED BY <1>8, NewestType
<1>10. Len(s1) \in Nat /\ Len(s2) \in Nat
  <2> HIDE DEF s1, s2
  <2> QED BY <1>5, <1>8, LenProperties
<1>11. CASE Len(s1) >= MaxFacts \/ Len(s2) >= MaxFacts
  <2> HIDE DEF s1, s2, once, twice
  <2>1. Len(twice) = MaxFacts
    BY <1>6, <1>7, <1>8, <1>9, <1>10, <1>11
  <2> QED BY <1>2, <2>1
<1>12. CASE Len(s1) < MaxFacts /\ Len(s2) < MaxFacts
  <2>1. once = s1 /\ twice = s2
    <3> HIDE DEF s1
    <3>1. once = s1
      BY <1>6, <1>10, <1>12 DEF Newest
    <3> HIDE DEF s2
    <3>2. twice = s2
      BY <1>6, <1>10, <1>12 DEF Newest
    <3> QED BY <3>1, <3>2
  <2>2. CASE ~Contradicts(m, fs)
    <3>1. \A i \in 1..N, j \in 1..N : ~Clash(cs[i], cs[j])
      BY <1>3, <2>2
    <3>2. \A n \in 0..N, j \in 1..N :
            j <= n \/ Known(l, cs[j], d) => Known(Stages(l, cs, d)[n], cs[j], d)
      BY <1>1, <1>4, <3>1, KnownThroughout
    <3>3. \A j \in 1..N : Known(s1, cs[j], d)
      <4>1. \A j \in 1..N : j <= N
        BY <1>5
      <4> HIDE DEF N
      <4> QED BY <1>5, <3>2, <4>1
    <3>4. Stages(s1, cs, d)[N] = s1
      <4> HIDE DEF s1
      <4> QED BY <1>1, <1>5, <3>3, KnownChangesNothing
    <3>5. s2 = s1
      <4>1. s2 = Stages(s1, cs, d)[N]
        <5> HIDE DEF s1, once
        <5> QED BY <2>1
      <4> QED BY <3>4, <4>1
    <3> QED BY <1>2, <2>1, <3>5
  <2>3. CASE Contradicts(m, fs)
    <3>1. s2 = Stages(s1, cs, d)[N]
      <4> HIDE DEF s1, once
      <4> QED BY <2>1
    <3>2. \A w \in Person, q \in Predicate : In(s2, w, q) = In(s1, w, q)
      <4>1. SUFFICES ASSUME NEW w \in Person, NEW q \in Predicate
                     PROVE  In(Stages(s1, cs, d)[N], w, q) = In(s1, w, q)
        BY <3>1
      <4>2. CASE q \in SingleValued
        BY <1>1, <4>2, SingleReread
      <4>3. CASE q \notin SingleValued
        <5>1. \A v, r : r \notin SingleValued =>
                In(Stages(s1, cs, d)[N], v, r) = In(s1, v, r)
          BY <1>1, <1>4, OtherReread
        <5> HIDE DEF s1, N
        <5> QED BY <4>3, <5>1
      <4> QED BY <4>2, <4>3
    <3>3. \A x \in Seq(Fact) : \A f \in Current(x) :
            f.subject \in Person /\ f.predicate \in Predicate
      <4>1. SUFFICES ASSUME NEW x \in Seq(Fact), NEW f \in Current(x)
                     PROVE  f \in Fact
        BY DEF Fact
      <4>2. DOMAIN x = 1..Len(x) /\ \A i \in 1..Len(x) : x[i] \in Fact
        BY LenProperties, ElementOfSeq
      <4> QED BY <4>2 DEF Current, Range
    <3>4. Current(s2) = Current(s1)
      <4> HIDE DEF s1, s2
      <4>1. \A f \in Current(s2) : f \in In(s2, f.subject, f.predicate)
        BY DEF In
      <4>2. \A f \in Current(s1) : f \in In(s1, f.subject, f.predicate)
        BY DEF In
      <4>3. \A f \in Current(s2) : f \in Current(s1)
        BY <1>8, <3>2, <3>3, <4>1 DEF In
      <4>4. \A f \in Current(s1) : f \in Current(s2)
        BY <1>5, <3>2, <3>3, <4>2 DEF In
      <4> QED BY <4>3, <4>4
    <3> QED BY <1>2, <2>1, <2>3, <3>4
  <2> QED BY <2>2, <2>3
<1>13. Len(s1) >= MaxFacts \/ Len(s2) >= MaxFacts \/ (Len(s1) < MaxFacts /\ Len(s2) < MaxFacts)
  <2> HIDE DEF s1, s2
  <2> QED BY <1>6, <1>10
<1> QED BY <1>11, <1>12, <1>13

\* RetryIsIdempotent: a message that is read again at its own time adds nothing to
\* the ledger; one that contradicts itself ends with the same current facts; a full
\* ledger may lose old facts instead (reduceConversationFactLedger,
\* conversationFacts.ts:186-250; a failed turn leaves what it wrote).
THEOREM RetriesAddNothing == Spec => RetryIsIdempotent
<1>1. LedgerInv /\ [Next]_vars =>
        [Retry => \/ facts' = facts
                  \/ Contradicts(message, sem) /\ Current(facts') = Current(facts)
                  \/ Len(facts') = MaxFacts]_vars
  <2>1. SUFFICES ASSUME LedgerInv, Retry
                 PROVE  \/ facts' = facts
                        \/ Contradicts(message, sem) /\ Current(facts') = Current(facts)
                        \/ Len(facts') = MaxFacts
    OBVIOUS
  <2>2. step # "idle" /\ facts' = Reduced(facts, message, sem, at)
    BY <2>1 DEF Retry, Reads
  <2>3. message \in Message /\ sem \in Seq(SemanticFact) /\ at \in Int
    BY <2>1, <2>2, ReadingAssumption DEF LedgerInv
  <2>4. PICK l \in Ledger : facts = Reduced(l, message, sem, at)
    BY <2>1, <2>2 DEF LedgerInv
  <2> QED BY <2>2, <2>3, <2>4, Reread
<1> QED BY <1>1, LedgerHoldsTogether, PTL DEF Spec, RetryIsIdempotent

-----------------------------------------------------------------------------
(* Types *)

\* A case among the candidates names an issue.
LEMMA CaseNamesIssue ==
  ASSUME NEW x, NEW s, NEW turn, NEW collecting,
         x.issue \in Issue \cup {"none"}, s.actions \subseteq Action,
         NEW a \in Candidates(x, s, turn, collecting), a.type = "start_customer_care"
  PROVE  a.arg \in Issue
<1> DEFINE asked == IF s.unsupported
                      THEN Unless(s.actions, "handoff_to_human",
                                  By("state", "handoff_to_human", "none"))
                      ELSE s.actions
           held == IF x.exact # "none" /\ ~s.ready
                     THEN Unless(asked \ {b \in Of(asked, "answer_question") :
                                            b.arg # x.exact},
                                 "answer_question",
                                 By("guardrail", "answer_question", x.exact))
                     ELSE asked
           stopped == IF x.stop THEN Unless(held, "stop_bot",
                                         By("guardrail", "stop_bot", "none"))
                      ELSE held
           issue == IF x.issue # "none" THEN x.issue ELSE HandedIssue(s, stopped)
           case == By(IF x.issue # "none" THEN "guardrail" ELSE "state",
                      "start_customer_care", issue)
           opened == IF \E b \in Of(stopped, "start_customer_care") : b.arg = issue
                       THEN stopped ELSE stopped \cup {case}
           told == By("guardrail", "answer_question", "irritation")
<1>1. \A who, t, arg : By(who, t, arg).type = t /\ By(who, t, arg).arg = arg
  BY DEF By
<1>2. a \in WithCare(x, s, turn)
  BY LaterCandidates DEF Candidates
<1>3. a \in asked => a \in s.actions
  BY <1>1 DEF Unless
<1>4. a \in held => a \in asked
  <2> HIDE DEF asked
  <2> QED BY <1>1 DEF Unless
<1>5. a \in stopped => a \in held
  <2> HIDE DEF held
  <2> QED BY <1>1 DEF Unless
<1>6. a \in stopped => a.arg \in Issue
  <2>1. a \in stopped => a \in Action
    <3> HIDE DEF stopped, held, asked
    <3> QED BY <1>3, <1>4, <1>5
  <2> HIDE DEF stopped
  <2> QED BY <2>1 DEF Action
<1>7. /\ issue \in Issue \cup {"none"}
      /\ \/ WithCare(x, s, turn) = stopped
         \/ /\ issue # "none"
            /\ WithCare(x, s, turn) \in {opened, Unless(opened, "answer_question", told)}
  <2>1. HandedIssue(s, stopped) \in Issue \cup {"none"}
    BY DEF HandedIssue, Issue
  <2>2. issue \in Issue \cup {"none"}
    <3> HIDE DEF stopped
    <3> QED BY <2>1
  <2>3. \/ WithCare(x, s, turn) = stopped
        \/ /\ issue # "none"
           /\ WithCare(x, s, turn) \in {opened, Unless(opened, "answer_question", told)}
    BY DEF WithCare
  <2> QED BY <2>2, <2>3
<1>8. a \in Unless(opened, "answer_question", told) => a \in opened
  <2> HIDE DEF opened
  <2> QED BY <1>1 DEF Unless
<1>9. a \in opened => a \in stopped \/ a = case
  <2> HIDE DEF stopped, issue
  <2> QED OBVIOUS
<1>10. case.arg = issue
  <2> HIDE DEF issue
  <2> QED BY <1>1
<1> HIDE DEF stopped, issue, opened, case, told
<1> QED BY <1>2, <1>6, <1>7, <1>8, <1>9, <1>10

\* What is planned is of the kinds the plan knows.
LEMMA PlanType ==
  ASSUME NEW x \in Texts, NEW s \in Readings,
         NEW p \in Plans(Detected(x), s, Turn(x), x.collecting)
  PROVE  /\ p.quantity \in Quantity \cup {"none"}
         /\ p.issue \in Issue \cup {"none"} /\ p.issues \subseteq Issue
<1> DEFINE y == Detected(x)
           all == Candidates(y, s, Turn(x), x.collecting)
           trusted == Trusted(s, all, x.collecting)
           as == Accepted(y, s, Turn(x), x.collecting, all, trusted)
<1>1. y.issue \in Issue \cup {"none"} /\ s.actions \subseteq Action
  <2>1. x.raw \in Issue \cup {"none"}
    BY ReadingAssumption DEF Findings
  <2>2. s.actions \subseteq Action
    BY ReadingAssumption DEF Interpretation
  <2> QED BY <2>1, <2>2, DetectedFields
<1>2. p \in PlansFor(y, s, x.collecting, all, as)
  BY DEF Plans, PlansOf
<1>3. \A a \in as : /\ a \in all
                    /\ a.type = "select_quantity" => a.arg \in Quantity
  BY DEF Accepted, Invalid
<1>4. \A a \in all : a.type = "start_customer_care" => a.arg \in Issue
  <2> HIDE DEF y
  <2> QED BY <1>1, CaseNamesIssue
<1> HIDE DEF as, all, trusted, y
<1> DEFINE cs == {a.arg : a \in Of(as, "start_customer_care")}
<1>5. p.issues = cs /\ p.issue \in IF p.issues = {} THEN {"none"} ELSE CareIssues(as)
  BY <1>2, PlanIssues
<1>6. p.issues \subseteq Issue
  BY <1>3, <1>4, <1>5 DEF Of
<1>7. p.issue \in Issue \cup {"none"}
  <2>1. CareIssues(as) \subseteq Issue
    BY <1>3, <1>4 DEF CareIssues, Of
  <2> QED BY <1>5, <2>1
<1>8. p.quantity \in Quantity \cup {"none"}
  <2>1. p.quantity \in Counts(as)
    BY <1>2, PlanQuantity
  <2> QED BY <1>3, <2>1 DEF Counts, Of
<1> QED BY <1>6, <1>7, <1>8

\* The state of a reading is of its kinds.
ReadingTypeOK ==
  /\ facts \in Seq(Fact) /\ Len(facts) <= MaxFacts
  /\ day \in Nat /\ at \in FirstDay..day
  /\ turns \in 0..MaxTurns /\ retries \in 0..MaxRetries
  /\ step \in {"idle", "read", "planned"}
  /\ message \in Messages \cup {NoMessage} /\ sem \in SemFacts \cup {<<>>}
  /\ plan.quantity \in Quantity \cup {"none"}
  /\ plan.issue \in Issue \cup {"none"} /\ plan.issues \subseteq Issue
  /\ care \in Issue \cup {"none"}

\* A message that is read keeps the types.
LEMMA ReadsType ==
  ASSUME LedgerInv, ReadingTypeOK, NEW m \in Messages, NEW fs \in SemFacts,
         NEW d \in FirstDay..day, Reads(m, fs, d),
         turns' \in 0..MaxTurns, retries' \in 0..MaxRetries
  PROVE  ReadingTypeOK'
<1>1. d \in Int
  BY ReadingAssumption DEF ReadingTypeOK
<1>2. LedgerInv'
  BY <1>1, ReadKeepsLedger
<1>3. facts' \in Seq(Fact) /\ Len(facts') <= MaxFacts
  BY <1>2 DEF LedgerInv, Ledger
<1> QED BY <1>3 DEF ReadingTypeOK, Reads, NoPlan

\* Every part of the state keeps its type: the ledger within its limit, days in
\* order, cases and quantities of the known kinds.
THEOREM ReadingTypeCorrect == Spec => []ReadingTypeOK
<1>1. Init => ReadingTypeOK
  <2>1. Init => facts \in Seq(Fact) /\ Len(facts) = 0
    BY DEF Init
  <2> QED BY <2>1, ReadingAssumption DEF Init, ReadingTypeOK, NoPlan
<1>2. LedgerInv /\ ReadingTypeOK /\ [Next]_vars => ReadingTypeOK'
  <2>1. SUFFICES ASSUME LedgerInv, ReadingTypeOK, [Next]_vars PROVE ReadingTypeOK'
    OBVIOUS
  <2>2. CASE Read
    <3>1. PICK m \in Messages, fs \in SemFacts, d \in (day - MaxLate)..day :
            d >= FirstDay /\ Reads(m, fs, d)
      BY <2>2 DEF Read
    <3>2. d \in FirstDay..day
      BY <2>1, <3>1, ReadingAssumption DEF ReadingTypeOK
    <3>3. turns' \in 0..MaxTurns /\ retries' \in 0..MaxRetries
      BY <2>1, <2>2, ReadingAssumption DEF Read, ReadingTypeOK
    <3> QED BY <2>1, <3>1, <3>2, <3>3, ReadsType
  <2>3. CASE Retry
    <3>1. step # "idle" /\ Reads(message, sem, at)
      BY <2>3 DEF Retry
    <3>2. message \in Messages /\ sem \in SemFacts /\ at \in FirstDay..day
      BY <2>1, <3>1 DEF LedgerInv, ReadingTypeOK
    <3>3. turns' \in 0..MaxTurns /\ retries' \in 0..MaxRetries
      BY <2>1, <2>3, ReadingAssumption DEF Retry, ReadingTypeOK
    <3> QED BY <2>1, <3>1, <3>2, <3>3, ReadsType
  <2>4. CASE Plan
    <3>1. PICK x \in Texts, s \in Readings :
            \E p \in Plans(Detected(x), s, Turn(x), x.collecting) :
              plan' = p /\ care' = CareAfter(x, p, Route(Signals(x, s, p)))
      BY <2>4 DEF Plan
    <3>2. PICK p \in Plans(Detected(x), s, Turn(x), x.collecting) :
              plan' = p /\ care' = CareAfter(x, p, Route(Signals(x, s, p)))
      BY <3>1
    <3>3. /\ p.quantity \in Quantity \cup {"none"}
          /\ p.issue \in Issue \cup {"none"} /\ p.issues \subseteq Issue
      BY PlanType
    <3>4. care' \in {"none", care, p.issue}
      BY <3>2 DEF CareAfter, Held
    <3> QED BY <2>1, <2>4, <3>2, <3>3, <3>4 DEF Plan, ReadingTypeOK
  <2>5. CASE End
    BY <2>1, <2>5, ReadingAssumption DEF End, ReadingTypeOK, NoPlan
  <2>6. CASE NextDay
    BY <2>1, <2>6, ReadingAssumption DEF NextDay, ReadingTypeOK
  <2>7. CASE UNCHANGED vars
    BY <2>1, <2>7 DEF vars, ReadingTypeOK
  <2> QED BY <2>1, <2>2, <2>3, <2>4, <2>5, <2>6, <2>7 DEF Next
<1> QED BY <1>1, <1>2, LedgerHoldsTogether, PTL DEF Spec
=============================================================================
