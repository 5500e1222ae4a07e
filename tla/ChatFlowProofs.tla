---------------------------- MODULE ChatFlowProofs ---------------------------
(***************************************************************************)
(* Theorems of ChatFlow for every value of its constants.                  *)
(*                                                                         *)
(* Some fifty branches write the session, all of them through the same few *)
(* operations.  A session that is Fit can become the next one; every       *)
(* operation keeps it Fit, so every branch commits a Fit session, and a    *)
(* branch that only answers one that also Keeps a pending order.  The four *)
(* properties of the model follow from that one fact (TurnCommits).        *)
(***************************************************************************)
EXTENDS ChatFlow, TLAPS

\* A case has come to its stage with the answers that lead there.
Reached(c) ==
  \/ c.stage = "followup"
  \/ c.issue \in {"delivery", "complaint"} /\ c.stage = "human_review"
  \/ c.stage = "human_review" /\ Papers(c.issue) \subseteq c.facts
  \/ /\ c.issue = "irritation"
     /\ \/ c.stage = "current_skin"
        \/ c.stage = "recent_procedure" /\ "intact" \in c.facts
        \/ c.stage = "skin_dry" /\ {"intact", "noProcedure"} \subseteq c.facts
  \/ /\ c.issue = "ineffective"
     /\ \/ c.stage = "used_at_night"
        \/ c.stage = "skin_dry" /\ "night" \in c.facts
        \/ c.stage = "usage_duration" /\ {"night", "dry"} \subseteq c.facts
        \/ /\ {"night", "dry", "fortnight"} \subseteq c.facts
           /\ \/ c.stage = "bank_account"
              \/ c.stage = "bank_name" /\ "account" \in c.facts
              \/ c.stage = "beneficiary_name" /\ {"account", "bank"} \subseteq c.facts
              \/ /\ c.stage = "evidence"
                 /\ {"account", "bank", "beneficiary"} \subseteq c.facts
  \/ /\ c.issue = "missing_or_damaged"
     /\ c.stage = "phone" \/ (c.stage = "evidence" /\ "phone" \in c.facts)
  \/ /\ c.issue = "counterfeit"
     /\ \/ c.stage = "purchase_channel"
        \/ c.stage = "order_id" /\ "channel" \in c.facts
        \/ c.stage = "evidence" /\ {"channel", "order"} \subseteq c.facts
  \/ /\ c.issue = "negative_review"
     /\ \/ c.stage = "review_problem"
        \/ c.stage = "order_id" /\ "problem" \in c.facts
        \/ c.stage = "desired_resolution" /\ {"problem", "order"} \subseteq c.facts

\* The open case, if any, is in order.
CareOK(p) == p.care = NoCase \/ (p.care \in Case /\ Reached(p.care))

\* What is confirmed has its quantity and its delivery data.
Filled(p) ==
  p.confirmed # "no" => p.qty > 0 /\ Fields \ {"address"} \subseteq p.got

\* A session the turn may end with.
Fit(p) ==
  /\ p \in Session /\ p.mode = s.mode
  /\ CareOK(p) /\ Filled(p)
  /\ Quoted(s) => Quoted(p)

\* ... and which leaves a pending order alone.
Keeps(p) == CanEdit => p.confirmed # "no" /\ p.qty = s.qty

-----------------------------------------------------------------------------
(* Care cases *)

\* advanceCareFlow moves a case along its path: an answer adds the fact the next
\* stage relies on, and no stage is passed over.
LEMMA CaseAdvances ==
  ASSUME NEW c \in Case, Reached(c), NEW d \in AdvanceCareFlow(c)
  PROVE  d \in Case /\ Reached(d)
<1> DEFINE f == c.facts \cup {Asks(c.issue, c.stage)}
<1>1. CASE d = c
  BY <1>1
<1>2. CASE d = At(c, "followup")
  <2>1. d \in Case
    BY <1>2 DEF At, Case, Stage
  <2>2. d.stage = "followup"
    BY <1>2 DEF At, Case
  <2> QED BY <2>1, <2>2 DEF Reached
<1>3. CASE /\ c.stage \notin {"human_review", "followup"}
           /\ d = At([c EXCEPT !.facts = f], AfterStage(c.issue, c.stage))
  <2>1. /\ c.issue \in Issue /\ c.stage \in Stage /\ c.facts \in SUBSET Fact
        /\ c = [issue |-> c.issue, stage |-> c.stage, facts |-> c.facts,
                paused |-> c.paused]
    BY DEF Case
  <2>2. Asks(c.issue, c.stage) \in Fact
    BY <1>3, <2>1 DEF Asks, Stage, Fact
  <2>3. AfterStage(c.issue, c.stage) \in Stage \ {"followup"}
    BY <1>3, <2>1 DEF AfterStage, Stage
  <2>4. d = [issue |-> c.issue, stage |-> AfterStage(c.issue, c.stage),
             facts |-> f, paused |-> AfterStage(c.issue, c.stage) = "human_review"]
    <3>1. [c EXCEPT !.facts = f] =
            [issue |-> c.issue, stage |-> c.stage, facts |-> f,
             paused |-> c.paused]
      BY <2>1
    <3> HIDE DEF f
    <3> QED BY <1>3, <2>3, <3>1 DEF At
  <2>5. d \in Case
    BY <2>1, <2>2, <2>3, <2>4 DEF Case
  <2>6. /\ d.issue = c.issue /\ d.stage = AfterStage(c.issue, c.stage)
        /\ d.facts = c.facts \cup {Asks(c.issue, c.stage)}
    BY <2>4
  <2>7. CASE c.issue = "irritation"
    <3>1. c.stage \in {"current_skin", "recent_procedure", "skin_dry"}
      BY <1>3, <2>7 DEF Reached
    <3> QED BY <2>5, <2>6, <2>7, <3>1 DEF Reached, Asks, AfterStage, Papers
  <2>8. CASE c.issue = "ineffective"
    <3>1. c.stage \in {"used_at_night", "skin_dry", "usage_duration",
                   "bank_account", "bank_name", "beneficiary_name", "evidence"}
      BY <1>3, <2>8 DEF Reached
    <3>2. CASE c.stage \in {"used_at_night", "skin_dry"}
      BY <2>5, <2>6, <2>8, <3>2 DEF Reached, Asks, AfterStage
    <3>3. CASE c.stage \notin {"used_at_night", "skin_dry"}
      <4>1. \/ /\ c.stage = "usage_duration" /\ d.stage = "bank_account"
               /\ d.facts = c.facts \cup {"fortnight"}
            \/ /\ c.stage = "bank_account" /\ d.stage = "bank_name"
               /\ d.facts = c.facts \cup {"account"}
            \/ /\ c.stage = "bank_name" /\ d.stage = "beneficiary_name"
               /\ d.facts = c.facts \cup {"bank"}
            \/ /\ c.stage = "beneficiary_name" /\ d.stage = "evidence"
               /\ d.facts = c.facts \cup {"beneficiary"}
            \/ /\ c.stage = "evidence" /\ d.stage = "human_review"
               /\ d.facts = c.facts \cup {"clip"}
        BY <2>6, <2>8, <3>1, <3>3 DEF Asks, AfterStage
      <4>2. {"night", "dry", "fortnight"} \subseteq d.facts
        BY <2>8, <3>3, <4>1 DEF Reached
      <4> QED BY <2>5, <2>6, <2>8, <4>1, <4>2 DEF Reached, Papers
    <3> QED BY <3>2, <3>3
  <2>9. CASE c.issue = "missing_or_damaged"
    <3>1. c.stage \in {"phone", "evidence"}
      BY <1>3, <2>9 DEF Reached
    <3> QED BY <2>5, <2>6, <2>9, <3>1 DEF Reached, Asks, AfterStage, Papers
  <2>10. CASE c.issue = "counterfeit"
    <3>1. c.stage \in {"purchase_channel", "order_id", "evidence"}
      BY <1>3, <2>10 DEF Reached
    <3>2. CASE c.stage = "purchase_channel"
      BY <2>5, <2>6, <2>10, <3>2 DEF Reached, Asks, AfterStage
    <3>3. CASE c.stage = "order_id"
      <4>1. d.stage = "evidence" /\ d.facts = c.facts \cup {"order"}
        BY <2>6, <2>10, <3>3 DEF Asks, AfterStage
      <4>2. "channel" \in c.facts
        BY <2>10, <3>3 DEF Reached
      <4> QED BY <2>5, <2>6, <2>10, <4>1, <4>2 DEF Reached
    <3>4. CASE c.stage = "evidence"
      BY <2>5, <2>6, <2>10, <3>4 DEF Reached, Asks, AfterStage, Papers
    <3> QED BY <3>1, <3>2, <3>3, <3>4
  <2>11. CASE c.issue = "negative_review"
    <3>1. c.stage \in {"review_problem", "order_id", "desired_resolution"}
      BY <1>3, <2>11 DEF Reached
    <3> QED BY <2>5, <2>6, <2>11, <3>1 DEF Reached, Asks, AfterStage, Papers
  <2>12. CASE c.issue \in {"delivery", "complaint"}
    BY <1>3, <2>12 DEF Reached
  <2> QED BY <2>1, <2>5, <2>7, <2>8, <2>9, <2>10, <2>11, <2>12 DEF Issue
<1> QED
  BY <1>1, <1>2, <1>3 DEF AdvanceCareFlow

\* startCareFlow asks the first question the message leaves open; what it skips
\* the message has answered.
LEMMA CaseStarts ==
  ASSUME NEW i \in Issue, NEW c \in StartCareFlow(i)
  PROVE  c \in Case /\ Reached(c)
<1>1. CASE c = [issue |-> i, stage |-> "followup", facts |-> {}, paused |-> FALSE]
  BY <1>1 DEF Case, Stage, Reached
<1>2. ASSUME NEW f \in InitialFacts(i),
             c = At([issue |-> i, stage |-> "human_review", facts |-> f,
                     paused |-> TRUE], FirstStage(i, f))
      PROVE  c \in Case /\ Reached(c)
  <2>1. f \in SUBSET Fact
    BY <1>2 DEF InitialFacts, Fact
  <2>2. FirstStage(i, f) \in Stage \ {"followup"}
    BY DEF FirstStage, Stage
  <2>3. c = [issue |-> i, stage |-> FirstStage(i, f), facts |-> f,
             paused |-> FirstStage(i, f) = "human_review"]
    BY <1>2, <2>2 DEF At
  <2>4. c \in Case
    BY <2>1, <2>2, <2>3 DEF Case
  <2>5. c.issue = i /\ c.stage = FirstStage(i, f) /\ c.facts = f
    BY <2>3
  <2>6. Reached(c)
    <3>1. CASE i = "irritation"
      BY <2>5, <3>1 DEF Reached, FirstStage, Papers
    <3>2. CASE i = "ineffective"
      BY <2>5, <3>2 DEF Reached, FirstStage, Papers
    <3>3. CASE i = "missing_or_damaged"
      BY <2>5, <3>3 DEF Reached, FirstStage, Papers
    <3>4. CASE i \in {"counterfeit", "negative_review"}
      BY <2>5, <3>4 DEF Reached, FirstStage, Papers
    <3>5. CASE i \in {"delivery", "complaint"}
      BY <2>5, <3>5 DEF Reached, FirstStage, Papers
    <3> QED BY <3>1, <3>2, <3>3, <3>4, <3>5 DEF Issue
  <2> QED BY <2>4, <2>6
<1> QED
  BY <1>1, <1>2 DEF StartCareFlow

-----------------------------------------------------------------------------
(* What the operators of a turn do to a session *)

\* Where the conversation stands, what is offered and who has it say nothing of
\* the order or the case.
LEMMA FitTouch ==
  ASSUME NEW p, Fit(p), NEW q \in Session,
         q.mode = p.mode, q.qty = p.qty, q.got = p.got, q.confirmed = p.confirmed,
         q.fee = p.fee, q.ship = p.ship, q.care = p.care
  PROVE  Fit(q) /\ (Keeps(p) => Keeps(q))
BY DEF Fit, CareOK, Filled, Quoted, Fee, Keeps

LEMMA FitPipe ==
  ASSUME NEW p, Fit(p), NEW to \in PipeTag
  PROVE  LET q == [p EXCEPT !.pipe = to] IN Fit(q) /\ (Keeps(p) => Keeps(q))
<1> DEFINE q == [p EXCEPT !.pipe = to]
<1>1. p \in Session
  BY DEF Fit
<1>2. q \in Session
  BY <1>1 DEF Session
<1>3. /\ q.mode = p.mode /\ q.qty = p.qty /\ q.got = p.got /\ q.fee = p.fee
      /\ q.confirmed = p.confirmed /\ q.ship = p.ship /\ q.care = p.care
  BY <1>1 DEF Session
<1> HIDE DEF q
<1> QED BY <1>2, <1>3, FitTouch DEF q

LEMMA FitPending ==
  ASSUME NEW p, Fit(p), NEW o \in {"-", "quantity", "confirm"}
  PROVE  LET q == [p EXCEPT !.pending = o] IN Fit(q) /\ (Keeps(p) => Keeps(q))
<1> DEFINE q == [p EXCEPT !.pending = o]
<1>1. p \in Session
  BY DEF Fit
<1>2. q \in Session
  BY <1>1 DEF Session
<1>3. /\ q.mode = p.mode /\ q.qty = p.qty /\ q.got = p.got /\ q.fee = p.fee
      /\ q.confirmed = p.confirmed /\ q.ship = p.ship /\ q.care = p.care
  BY <1>1 DEF Session
<1> HIDE DEF q
<1> QED BY <1>2, <1>3, FitTouch DEF q

\* A transaction leaves what is confirmed filled: it drops no more than the
\* address, and confirms a complete order.  Its total is the one of its quote.
LEMMA FitMutation ==
  ASSUME NEW p, Fit(p), ChatFlowAssumption,
         NEW m \in [qty : {0} \cup Quantity, set : SUBSET Fields,
                    drop : SUBSET {"address"}, confirm : BOOLEAN],
         m.confirm => Complete(p) /\ m = [NoMutation EXCEPT !.confirm = TRUE]
  PROVE  LET q == CommitOrderMutations(p, m)
         IN  Fit(q) /\ (m.qty = 0 /\ Keeps(p) => Keeps(q))
<1> DEFINE q == CommitOrderMutations(p, m)
<1>1. p \in Session /\ p.mode = s.mode /\ CareOK(p) /\ Filled(p)
      /\ (Quoted(s) => Quoted(p))
  BY DEF Fit
<1>2. Fee(p, m.qty) \in 0 .. 1
  BY DEF Fee
<1>3. /\ q.qty = IF m.qty = 0 THEN p.qty ELSE m.qty
      /\ q.fee = IF m.qty = 0 THEN p.fee ELSE Fee(p, m.qty)
      /\ q.got = (p.got \ m.drop) \cup m.set
      /\ q.confirmed = IF m.confirm THEN "new" ELSE p.confirmed
      /\ q.mode = p.mode /\ q.ship = p.ship /\ q.care = p.care
  BY <1>1 DEF CommitOrderMutations, ReduceOrderTransaction, Session
<1>4. q \in Session
  <2>1. /\ q.qty \in {0} \cup Quantity /\ q.fee \in 0 .. 1
        /\ q.got \in SUBSET Fields /\ q.confirmed \in {"no", "new", "pushed"}
    BY <1>1, <1>2, <1>3 DEF Session
  <2>2. q = [p EXCEPT !.qty = q.qty, !.fee = q.fee, !.got = q.got,
                      !.confirmed = q.confirmed]
    BY <1>1 DEF CommitOrderMutations, ReduceOrderTransaction, Session
  <2> HIDE DEF q
  <2> QED BY <1>1, <2>1, <2>2 DEF Session
<1> HIDE DEF q
<1>5. CareOK(q)
  BY <1>1, <1>3 DEF CareOK
<1>6. Filled(q)
  <2>1. CASE m.confirm
    BY <1>1, <1>3, <2>1 DEF Filled, Complete, NoMutation, Session, Quantity
  <2>2. CASE ~m.confirm
    BY <1>1, <1>3, <2>2 DEF Filled, Quantity
  <2> QED BY <2>1, <2>2
<1>7. Quoted(s) => Quoted(q)
  BY <1>1, <1>3 DEF Quoted, Fee
<1>8. m.qty = 0 /\ Keeps(p) => Keeps(q)
  BY <1>3 DEF Keeps
<1> QED
  BY <1>1, <1>3, <1>4, <1>5, <1>6, <1>7, <1>8 DEF Fit, q

LEMMA FitSelect ==
  ASSUME NEW p, Fit(p), ChatFlowAssumption, NEW n \in Quantity
  PROVE  Fit(SelectQuantity(p, n))
<1> DEFINE m == [NoMutation EXCEPT !.qty = n]
<1>1. /\ m \in [qty : {0} \cup Quantity, set : SUBSET Fields,
                drop : SUBSET {"address"}, confirm : BOOLEAN]
      /\ ~m.confirm
  BY DEF NoMutation
<1> HIDE DEF m
<1>2. Fit(CommitOrderMutations(p, m))
  BY <1>1, FitMutation
<1> QED BY <1>2 DEF SelectQuantity, m

\* Recording and dropping delivery data.
Data == [qty : {0}, set : SUBSET Fields, drop : SUBSET {"address"},
         confirm : {FALSE}]

LEMMA DataForms ==
  ASSUME NEW f \in SUBSET Fields, NEW d \in SUBSET {"address"}
  PROVE  /\ [NoMutation EXCEPT !.set = f] \in Data
         /\ [NoMutation EXCEPT !.drop = d] \in Data
         /\ [NoMutation EXCEPT !.set = f, !.drop = d] \in Data
BY DEF NoMutation, Data

LEMMA FitData ==
  ASSUME NEW p, Fit(p), ChatFlowAssumption, NEW m \in Data
  PROVE  LET q == CommitOrderMutations(p, m) IN Fit(q) /\ (Keeps(p) => Keeps(q))
<1>1. /\ m \in [qty : {0} \cup Quantity, set : SUBSET Fields,
                drop : SUBSET {"address"}, confirm : BOOLEAN]
      /\ ~m.confirm /\ m.qty = 0
  BY DEF Data
<1> QED BY <1>1, FitMutation

LEMMA FitConfirm ==
  ASSUME NEW p, Fit(p), ChatFlowAssumption, Complete(p)
  PROVE  Fit(Confirm(p)) /\ (Keeps(p) => Keeps(Confirm(p)))
<1> DEFINE m == [NoMutation EXCEPT !.confirm = TRUE]
           q == CommitOrderMutations(p, m)
<1>1. /\ m \in [qty : {0} \cup Quantity, set : SUBSET Fields,
                drop : SUBSET {"address"}, confirm : BOOLEAN]
      /\ m.qty = 0
  BY DEF NoMutation
<1>2. Fit(q) /\ (Keeps(p) => Keeps(q))
  BY <1>1, FitMutation
<1>3. Confirm(p) = [q EXCEPT !.pending = "-"]
  BY DEF Confirm
<1> HIDE DEF q
<1> QED BY <1>2, <1>3, FitPending

\* applySingleShipping: the total of one bottle follows the approval, two ship
\* free anyway.
LEMMA FitApprove ==
  ASSUME NEW p, Fit(p), ChatFlowAssumption
  PROVE  LET q == ApproveSingleShipping(p) IN Fit(q) /\ (Keeps(p) => Keeps(q))
<1> DEFINE a == [p EXCEPT !.ship = TRUE]
           q == SelectQuantity(a, 1)
<1>1. p \in Session /\ p.mode = s.mode /\ CareOK(p) /\ Filled(p)
      /\ (Quoted(s) => Quoted(p))
  BY DEF Fit
<1>2. a \in Session
  BY <1>1 DEF Session
<1>3. /\ a.mode = p.mode /\ a.qty = p.qty /\ a.got = p.got /\ a.fee = p.fee
      /\ a.confirmed = p.confirmed /\ a.ship = TRUE /\ a.care = p.care
  BY <1>1 DEF Session
<1> HIDE DEF a
<1>4. CASE p.qty # 1
  <2>1. p.qty \in {0, 2}
    BY <1>1, <1>4 DEF Session, Quantity
  <2>2. Quoted(p) => Quoted(a)
    BY <1>3, <2>1 DEF Quoted, Fee
  <2>3. Fit(a) /\ (Keeps(p) => Keeps(a))
    BY <1>1, <1>2, <1>3, <2>2 DEF Fit, CareOK, Filled, Keeps
  <2> QED BY <1>3, <1>4, <2>3 DEF ApproveSingleShipping, a
<1>5. CASE p.qty = 1
  <2>1. q \in Session
    <3>1. q = [a EXCEPT !.qty = 1, !.fee = Fee(a, 1), !.got = (@ \ {}) \cup {},
                        !.confirmed = @]
      BY DEF SelectQuantity, CommitOrderMutations, ReduceOrderTransaction, NoMutation
    <3>2. Fee(a, 1) \in 0 .. 1 /\ 1 \in {0} \cup Quantity
      BY DEF Fee, Quantity
    <3> HIDE DEF q
    <3> QED BY <1>2, <3>1, <3>2 DEF Session
  <2>2. /\ q.mode = a.mode /\ q.qty = 1 /\ q.got = a.got /\ q.fee = Fee(a, 1)
        /\ q.confirmed = a.confirmed /\ q.ship = a.ship /\ q.care = a.care
    BY <1>2 DEF SelectQuantity, CommitOrderMutations, ReduceOrderTransaction,
                NoMutation, Session
  <2> HIDE DEF q
  <2>3. Quoted(q)
    BY <2>2 DEF Quoted, Fee
  <2>4. Fit(q) /\ (Keeps(p) => Keeps(q))
    BY <1>1, <1>3, <1>5, <2>1, <2>2, <2>3 DEF Fit, CareOK, Filled, Keeps
  <2> QED BY <1>3, <1>5, <2>4 DEF ApproveSingleShipping, a, q
<1> QED
  BY <1>4, <1>5

\* A cleared draft has nothing to confirm and nothing to charge.
LEMMA FitClear ==
  ASSUME NEW p, Fit(p)
  PROVE  Fit(ClearOrderDraft(p))
<1> DEFINE q == ClearOrderDraft(p)
<1>1. p \in Session /\ p.mode = s.mode /\ CareOK(p)
  BY DEF Fit
<1>2. q \in Session
  <2>1. {} \in SUBSET Fields /\ 0 \in {0} \cup Quantity /\ 0 \in 0 .. 1
    OBVIOUS
  <2> DEFINE r == [p EXCEPT !.qty = 0, !.got = {}, !.fee = 0]
  <2>2. r \in Session
    BY <1>1, <2>1 DEF Session
  <2>3. q = [r EXCEPT !.confirmed = "no", !.ship = FALSE, !.pending = "-"]
    BY <1>1 DEF ClearOrderDraft, Session
  <2> HIDE DEF q, r
  <2> QED BY <2>2, <2>3 DEF Session
<1>3. /\ q.mode = p.mode /\ q.qty = 0 /\ q.confirmed = "no" /\ q.care = p.care
  BY <1>1 DEF ClearOrderDraft, Session
<1> HIDE DEF q
<1> QED BY <1>1, <1>2, <1>3 DEF Fit, CareOK, Filled, Quoted, q

-----------------------------------------------------------------------------
(* What a message says of the delivery                                       *)
(* The parsers and the model work on a draft that holds nothing but delivery *)
(* data; whatever they make of it, only the address can be lost.             *)

\* h is g with more data, and perhaps another address.
Grown(g, h) == h \in SUBSET Fields /\ g \ {"address"} \subseteq h

Holds(p, g) == "got" \in DOMAIN p /\ p.got \in SUBSET Fields /\ Grown(g, p.got)

LEMMA DataMutation ==
  ASSUME NEW g, NEW p, Holds(p, g),
         NEW m \in Data
  PROVE  Holds(CommitOrderMutations(p, m), g)
<1> DEFINE q == CommitOrderMutations(p, m)
<1>1. "got" \in DOMAIN q /\ q.got = (p.got \ m.drop) \cup m.set
  BY DEF CommitOrderMutations, ReduceOrderTransaction, Holds
<1> HIDE DEF q
<1>2. Holds(q, g)
  BY <1>1 DEF Holds, Grown, Data
<1> QED BY <1>2 DEF q

LEMMA DataRecorded ==
  ASSUME NEW g, NEW p, Holds(p, g), NEW q \in Recorded(p, Fields)
  PROVE  Holds(q, g)
<1>1. PICK f \in SUBSET Fields :
        q = CommitOrderMutations(p, [NoMutation EXCEPT !.set = f])
  BY DEF Recorded
<1>2. [NoMutation EXCEPT !.set = f] \in Data
  BY DataForms
<1> QED BY <1>1, <1>2, DataMutation

LEMMA DataAddress ==
  ASSUME NEW g, NEW p, Holds(p, g), ChatFlowAssumption, NEW op,
         NEW q \in CommitLegacyAddress(p, op)
  PROVE  Holds(q, g)
<1>1. {"address"} \in SUBSET Fields /\ {} \in SUBSET Fields
  BY DEF ChatFlowAssumption
<1>2. \/ q = p
      \/ q = CommitOrderMutations(p, [NoMutation EXCEPT !.set = {"address"}])
      \/ q = CommitOrderMutations(p, [NoMutation EXCEPT !.drop = {"address"}])
  BY DEF CommitLegacyAddress
<1>3. q = p \/ \E m \in Data : q = CommitOrderMutations(p, m)
  BY <1>1, <1>2, DataForms
<1> QED BY <1>3, DataMutation

LEMMA DraftHolds ==
  ASSUME NEW g \in SUBSET Fields
  PROVE  Holds(Draft(g), g)
BY DEF Draft, NewSession, Holds, Grown

LEMMA MergedGrows ==
  ASSUME ChatFlowAssumption, NEW g \in SUBSET Fields, NEW h \in MergedData[g]
  PROVE  Grown(g, h)
<1>1. PICK q \in Recorded(Draft(g), Fields) :
        \E m \in CommitLegacyAddress(q, "replace") : h = m.got
  BY DEF MergedData
<1> PICK m \in CommitLegacyAddress(q, "replace") : h = m.got
  BY <1>1
<1>2. Holds(q, g)
  BY DraftHolds, DataRecorded
<1>3. Holds(m, g)
  BY <1>2, DataAddress
<1> QED BY <1>3 DEF Holds

\* Whatever the model owns, the reconciliation drops only what the projection
\* dropped: the address.
LEMMA ObservedGrows ==
  ASSUME ChatFlowAssumption, NEW g \in SUBSET Fields, NEW h \in ObservedData[g]
  PROVE  Grown(g, h)
<1> DEFINE p == Draft(g)
<1>1. PICK o \in ObserveGlobalEntities(p) :
        \E q \in CommitReconciledObservations(p, o) :
          \E r \in ApplySemanticOrderUpdates(q) : h = r.got
  BY DEF ObservedData
<1>2. PICK q \in CommitReconciledObservations(p, o) :
        \E r \in ApplySemanticOrderUpdates(q) : h = r.got
  BY <1>1
<1> PICK r \in ApplySemanticOrderUpdates(q) : h = r.got
  BY <1>2
<1>3. Holds(p, g) /\ p.got = g
  BY DraftHolds DEF Draft, NewSession
<1> HIDE DEF p
<1>4. Holds(o, g)
  <2>1. PICK e \in Recorded(p, Fields) :
          \E op \in {"replace", "append"} : o \in CommitLegacyAddress(e, op)
    BY DEF ObserveGlobalEntities
  <2>2. Holds(e, g)
    BY <1>3, DataRecorded
  <2> QED BY <2>1, <2>2, DataAddress
<1>5. Holds(q, g)
  <2>1. PICK owned \in SUBSET Fields :
          q = CommitOrderMutations(p,
                [NoMutation EXCEPT !.set = o.got \ owned,
                                   !.drop = (p.got \ o.got) \ owned])
    BY DEF CommitReconciledObservations
  <2>2. /\ o.got \ owned \in SUBSET Fields
        /\ (p.got \ o.got) \ owned \in SUBSET {"address"}
    BY <1>3, <1>4 DEF Holds, Grown
  <2>3. [NoMutation EXCEPT !.set = o.got \ owned,
                           !.drop = (p.got \ o.got) \ owned] \in Data
    BY <2>2, DataForms
  <2> QED BY <1>3, <2>1, <2>3, DataMutation
<1>6. Holds(r, g)
  <2>1. PICK e \in Recorded(q, Fields) :
          \E op \in {"append", "replace"} : r \in CommitLegacyAddress(e, op)
    BY DEF ApplySemanticOrderUpdates
  <2>2. Holds(e, g)
    BY <1>5, DataRecorded
  <2> QED BY <2>1, <2>2, DataAddress
<1> QED BY <1>6 DEF Holds

\* Data replaced by more data leave the session fit.
LEMMA FitGot ==
  ASSUME NEW p, Fit(p), NEW g, Grown(p.got, g)
  PROVE  LET q == [p EXCEPT !.got = g] IN Fit(q) /\ (Keeps(p) => Keeps(q))
<1> DEFINE q == [p EXCEPT !.got = g]
<1>1. p \in Session /\ g \in SUBSET Fields
  BY DEF Fit, Grown
<1>2. q \in Session
  BY <1>1 DEF Session
<1>3. /\ q.mode = p.mode /\ q.qty = p.qty /\ q.got = g /\ q.fee = p.fee
      /\ q.confirmed = p.confirmed /\ q.ship = p.ship /\ q.care = p.care
  BY <1>1 DEF Session
<1> HIDE DEF q
<1>4. Fit(q)
  BY <1>2, <1>3 DEF Fit, CareOK, Filled, Quoted, Fee, Grown
<1>5. Keeps(p) => Keeps(q)
  BY <1>3 DEF Keeps
<1> QED BY <1>4, <1>5 DEF q

LEMMA FitMerge ==
  ASSUME ChatFlowAssumption, NEW p, Fit(p), NEW q \in MergeOrderData(p)
  PROVE  Fit(q) /\ (Keeps(p) => Keeps(q))
<1>1. PICK g \in MergedData[p.got] : q = [p EXCEPT !.got = g]
  BY DEF MergeOrderData
<1>2. p.got \in SUBSET Fields
  BY DEF Fit, Session
<1>3. Grown(p.got, g)
  BY <1>2, MergedGrows
<1> QED BY <1>1, <1>3, FitGot

LEMMA FitObserved ==
  ASSUME ChatFlowAssumption, NEW p, Fit(p), NEW q \in Observed(p)
  PROVE  Fit(q) /\ (Keeps(p) => Keeps(q))
<1>1. CASE q = p
  BY <1>1
<1>2. ASSUME NEW g \in ObservedData[p.got], q = [p EXCEPT !.got = g]
      PROVE  Fit(q) /\ (Keeps(p) => Keeps(q))
  <2>1. p.got \in SUBSET Fields
    BY DEF Fit, Session
  <2>2. Grown(p.got, g)
    BY <2>1, ObservedGrows
  <2> QED BY <1>2, <2>2, FitGot
<1> QED BY <1>1, <1>2 DEF Observed

\* The two writers that work on the session itself.
LEMMA FitAddress ==
  ASSUME ChatFlowAssumption, NEW p, Fit(p), NEW op,
         NEW q \in CommitLegacyAddress(p, op)
  PROVE  Fit(q) /\ (Keeps(p) => Keeps(q))
<1>1. {"address"} \in SUBSET Fields /\ {} \in SUBSET Fields
  BY DEF ChatFlowAssumption
<1>2. \/ q = p
      \/ q = CommitOrderMutations(p, [NoMutation EXCEPT !.set = {"address"}])
      \/ q = CommitOrderMutations(p, [NoMutation EXCEPT !.drop = {"address"}])
  BY DEF CommitLegacyAddress
<1>3. q = p \/ \E m \in Data : q = CommitOrderMutations(p, m)
  BY <1>1, <1>2, DataForms
<1> QED BY <1>3, FitData

LEMMA FitRecorded ==
  ASSUME ChatFlowAssumption, NEW p, Fit(p), NEW F \in SUBSET Fields,
         NEW q \in Recorded(p, F)
  PROVE  Fit(q) /\ (Keeps(p) => Keeps(q))
<1>1. PICK f \in SUBSET Fields :
        q = CommitOrderMutations(p, [NoMutation EXCEPT !.set = f])
  BY DEF Recorded
<1>2. [NoMutation EXCEPT !.set = f] \in Data
  BY DataForms
<1> QED BY <1>1, <1>2, FitData

-----------------------------------------------------------------------------
(* Handing over and coming back *)

\* A person gets the conversation with the order as it is.
LEMMA FitPause ==
  ASSUME NEW p, Fit(p),
         NEW why \in {"wholesale", "review"}
  PROVE  LET q == PauseForHumanReview(p, why) IN Fit(q) /\ (Keeps(p) => Keeps(q))
<1> DEFINE q == PauseForHumanReview(p, why)
<1>1. p \in Session
  BY DEF Fit
<1>2. q \in Session
  BY <1>1 DEF PauseForHumanReview, Session, PipeTag
<1>3. /\ q.mode = p.mode /\ q.qty = p.qty /\ q.got = p.got /\ q.fee = p.fee
      /\ q.confirmed = p.confirmed /\ q.ship = p.ship /\ q.care = p.care
  BY <1>1 DEF PauseForHumanReview, Session
<1> HIDE DEF q
<1> QED BY <1>2, <1>3, FitTouch DEF q

LEMMA FitCoverage ==
  ASSUME NEW p, Fit(p)
  PROVE  LET q == PauseForCoverage(p) IN Fit(q) /\ (Keeps(p) => Keeps(q))
BY FitPending, FitPause DEF PauseForCoverage

LEMMA BeforePipe ==
  ASSUME NEW p \in Session
  PROVE  Before(p) \in PipeTag
BY DEF Before, Session, PipeTag

LEMMA FitReturn ==
  ASSUME NEW p, Fit(p), NEW to \in PipeTag
  PROVE  LET q == [p EXCEPT !.pipe = to, !.prev = "-", !.handoff = "-"]
         IN  Fit(q) /\ (Keeps(p) => Keeps(q))
<1> DEFINE q == [p EXCEPT !.pipe = to, !.prev = "-", !.handoff = "-"]
<1>1. p \in Session
  BY DEF Fit
<1>2. q \in Session
  BY <1>1 DEF Session
<1>3. /\ q.mode = p.mode /\ q.qty = p.qty /\ q.got = p.got /\ q.fee = p.fee
      /\ q.confirmed = p.confirmed /\ q.ship = p.ship /\ q.care = p.care
  BY <1>1 DEF Session
<1> HIDE DEF q
<1> QED BY <1>2, <1>3, FitTouch DEF q

LEMMA FitResume ==
  ASSUME NEW p, Fit(p)
  PROVE  LET q == ResumeAfterSoftHandoff(p) IN Fit(q) /\ (Keeps(p) => Keeps(q))
<1>1. Before(p) \in PipeTag
  BY BeforePipe DEF Fit
<1> QED BY <1>1, FitReturn DEF ResumeAfterSoftHandoff

LEMMA FitLock ==
  ASSUME NEW p, Fit(p)
  PROVE  LET q == LockBoundary(p) IN Fit(q) /\ (Keeps(p) => Keeps(q))
<1> DEFINE to == IF p.pipe = "C3" THEN Before(p) ELSE p.pipe
<1>1. to \in PipeTag
  BY BeforePipe DEF Fit, Session
<1>2. CASE p.handoff = "-"
  BY <1>2 DEF LockBoundary
<1>3. CASE p.handoff # "-"
  <2>1. LockBoundary(p) = [p EXCEPT !.pipe = to, !.prev = "-", !.handoff = "-"]
    BY <1>3 DEF LockBoundary
  <2> HIDE DEF to
  <2> DEFINE r == [p EXCEPT !.pipe = to, !.prev = "-", !.handoff = "-"]
  <2>2. Fit(r) /\ (Keeps(p) => Keeps(r))
    BY <1>1, FitReturn
  <2> QED BY <2>1, <2>2
<1> QED BY <1>2, <1>3

\* A case that was never the customer's is forgotten.
LEMMA FitDismissable ==
  ASSUME NEW p, Fit(p), NEW q \in Dismissable(p)
  PROVE  Fit(q) /\ (Keeps(p) => Keeps(q))
<1>1. CASE q = p
  BY <1>1
<1>2. CASE q = DismissCare(p)
  <2>1. p \in Session /\ Before(p) \in PipeTag
    BY BeforePipe DEF Fit
  <2>2. q \in Session
    BY <1>2, <2>1 DEF DismissCare, Session
  <2>3. /\ q.mode = p.mode /\ q.qty = p.qty /\ q.got = p.got /\ q.fee = p.fee
        /\ q.confirmed = p.confirmed /\ q.ship = p.ship /\ q.care = NoCase
    BY <1>2, <2>1 DEF DismissCare, Session
  <2> QED BY <2>2, <2>3 DEF Fit, CareOK, Filled, Quoted, Fee, Keeps
<1> QED BY <1>1, <1>2 DEF Dismissable

LEMMA FitPast ==
  ASSUME NEW p, Fit(p)
  PROVE  LET q == Past(p) IN Fit(q) /\ (Keeps(p) => Keeps(q))
<1> DEFINE o == IF p.opted THEN [p EXCEPT !.opted = FALSE, !.pipe = "1"] ELSE p
<1>1. p \in Session /\ "1" \in PipeTag
  BY DEF Fit, PipeTag
<1>2. o \in Session
  BY <1>1 DEF Session
<1>3. /\ o.mode = p.mode /\ o.qty = p.qty /\ o.got = p.got /\ o.fee = p.fee
      /\ o.confirmed = p.confirmed /\ o.ship = p.ship /\ o.care = p.care
  BY <1>1 DEF Session
<1> HIDE DEF o
<1>4. Fit(o) /\ (Keeps(p) => Keeps(o))
  BY <1>2, <1>3, FitTouch
<1>5. Past(p) = ResumeAfterSoftHandoff(o)
  BY DEF Past, o
<1> QED BY <1>4, <1>5, FitResume

-----------------------------------------------------------------------------
(* Collecting an order *)

\* receiveCompleteInboxOrder.
LEMMA FitReceive ==
  ASSUME ChatFlowAssumption, NEW p, Fit(p), Complete(p)
  PROVE  Fit(Receive(p)) /\ (Keeps(p) => Keeps(Receive(p)))
<1> DEFINE c == IF p.confirmed = "no" THEN Confirm(p) ELSE p
           q == [c EXCEPT !.pending = "-", !.pipe = "6", !.editable = "yes"]
<1>1. Fit(c) /\ (Keeps(p) => Keeps(c))
  BY FitConfirm
<1>2. Receive(p) = q
  BY DEF Receive
<1> HIDE DEF c
<1>3. c \in Session /\ "6" \in PipeTag
  BY <1>1 DEF Fit, PipeTag
<1>4. q \in Session
  BY <1>3 DEF Session
<1>5. /\ q.mode = c.mode /\ q.qty = c.qty /\ q.got = c.got /\ q.fee = c.fee
      /\ q.confirmed = c.confirmed /\ q.ship = c.ship /\ q.care = c.care
  BY <1>3 DEF Session
<1> HIDE DEF q
<1> QED BY <1>1, <1>2, <1>4, <1>5, FitTouch

LEMMA FitProfileName ==
  ASSUME ChatFlowAssumption, NEW p, Fit(p), NEW q \in WithProfileName(p)
  PROVE  Fit(q) /\ (Keeps(p) => Keeps(q))
<1>1. CASE q = p
  BY <1>1
<1>2. CASE q = [p EXCEPT !.got = @ \cup {"recipient"}]
  <2>1. Grown(p.got, p.got \cup {"recipient"})
    BY DEF Grown, Fit, Session, ChatFlowAssumption
  <2>2. q = [p EXCEPT !.got = p.got \cup {"recipient"}]
    BY <1>2
  <2> QED BY <2>1, <2>2, FitGot
<1> QED BY <1>1, <1>2 DEF WithProfileName

\* A complete order is received, whoever completes it.
LEMMA FitReply ==
  ASSUME ChatFlowAssumption, NEW p, Fit(p), NEW q \in OrderCollectionReply(p)
  PROVE  Fit(q) /\ (Keeps(p) => Keeps(q))
<1>1. PICK n \in WithProfileName(p) :
        q = IF Complete(n) /\ n.mode = "inbox" THEN Receive(n) ELSE n
  BY DEF OrderCollectionReply
<1>2. Fit(n) /\ (Keeps(p) => Keeps(n))
  BY FitProfileName
<1> QED BY <1>1, <1>2, FitReceive

LEMMA FitCollect ==
  ASSUME ChatFlowAssumption, NEW p, Fit(p), NEW q \in CollectWith(p)
  PROVE  Fit(q) /\ (Keeps(p) => Keeps(q))
<1> DEFINE o == IF Complete(p) THEN [p EXCEPT !.pending = "confirm"] ELSE p
<1>1. Fit(o) /\ (Keeps(p) => Keeps(o))
  BY FitPending
<1>2. q \in OrderCollectionReply(o) \/ q \in WithProfileName(o)
  BY DEF CollectWith
<1> HIDE DEF o
<1> QED BY <1>1, <1>2, FitReply, FitProfileName

LEMMA FitMergeCollect ==
  ASSUME ChatFlowAssumption, NEW p, Fit(p), NEW q \in MergeAndCollect(p)
  PROVE  Fit(q) /\ (Keeps(p) => Keeps(q))
<1>1. PICK m \in MergeOrderData(p) : q \in CollectWith(m)
  BY DEF MergeAndCollect
<1> QED BY <1>1, FitMerge, FitCollect

LEMMA FitPrice ==
  ASSUME NEW p, Fit(p), NEW q \in ShowPrice(p)
  PROVE  Fit(q) /\ (Keeps(p) => Keeps(q))
<1>1. PICK o \in {"quantity", "-"} : q = [p EXCEPT !.pipe = "4", !.pending = o]
  BY DEF ShowPrice
<1>2. p \in Session /\ "4" \in PipeTag
  BY DEF Fit, PipeTag
<1>3. q \in Session
  BY <1>1, <1>2 DEF Session
<1>4. /\ q.mode = p.mode /\ q.qty = p.qty /\ q.got = p.got /\ q.fee = p.fee
      /\ q.confirmed = p.confirmed /\ q.ship = p.ship /\ q.care = p.care
  BY <1>1, <1>2 DEF Session
<1> QED BY <1>3, <1>4, FitTouch

-----------------------------------------------------------------------------
(* What a turn begins with and what it commits *)

\* The invariant: types, cases in order, nothing confirmed that is not filled.
ChatInv == ChatTypeOK /\ CareOK(s) /\ Filled(s)

LEMMA FitSession ==
  ASSUME ChatInv
  PROVE  Fit(s)
BY DEF ChatInv, ChatTypeOK, Fit

LEMMA FitGreeted ==
  ASSUME ChatFlowAssumption, ChatInv, Hears
  PROVE  Fit(Greeted) /\ Keeps(Greeted)
<1> DEFINE a == [s EXCEPT !.editable = IF ctx = "unset" THEN @ ELSE ctx]
<1>1. s \in Session /\ ctx \in {"unset", "yes", "no"}
  BY DEF ChatInv, ChatTypeOK, Hears
<1>2. a \in Session
  BY <1>1 DEF Session
<1>3. /\ a.mode = s.mode /\ a.qty = s.qty /\ a.got = s.got /\ a.fee = s.fee
      /\ a.confirmed = s.confirmed /\ a.ship = s.ship /\ a.care = s.care
  BY <1>1 DEF Session
<1>4. Greeted = IF a.pipe = "7" THEN ApproveSingleShipping(a) ELSE a
  BY DEF Greeted
<1> HIDE DEF a
<1>5. Fit(a)
  BY <1>2, <1>3, FitSession, FitTouch
<1>6. Fit(Greeted)
  BY <1>4, <1>5, FitApprove
<1>7. Greeted.qty = s.qty
  BY <1>2, <1>3, <1>4 DEF ApproveSingleShipping, SelectQuantity, Session,
     CommitOrderMutations, ReduceOrderTransaction, NoMutation
<1> QED BY <1>6, <1>7 DEF Keeps, CanEdit

LEMMA FitCounted ==
  ASSUME ChatFlowAssumption, ChatInv, Hears
  PROVE  Fit(Counted) /\ Keeps(Counted)
<1> DEFINE g == Greeted
           q == [g EXCEPT !.fresh = FALSE, !.pipe = "1"]
<1>1. Fit(g) /\ Keeps(g) /\ g \in Session /\ "1" \in PipeTag
  BY FitGreeted DEF Fit, PipeTag
<1>2. Counted = IF g.fresh THEN q ELSE g
  BY DEF Counted
<1> HIDE DEF g
<1>3. q \in Session
  BY <1>1 DEF Session
<1>4. /\ q.mode = g.mode /\ q.qty = g.qty /\ q.got = g.got /\ q.fee = g.fee
      /\ q.confirmed = g.confirmed /\ q.ship = g.ship /\ q.care = g.care
  BY <1>1 DEF Session
<1> HIDE DEF q
<1>5. Fit(q) /\ Keeps(q)
  BY <1>1, <1>3, <1>4, FitTouch
<1> QED BY <1>1, <1>2, <1>5

LEMMA FitNoticed ==
  ASSUME ChatFlowAssumption, ChatInv, Hears, NEW p \in Noticed
  PROVE  Fit(p) /\ Keeps(p)
BY FitCounted, FitDismissable DEF Noticed

LEMMA FitHeard ==
  ASSUME ChatFlowAssumption, ChatInv, Hears, NEW p \in Heard
  PROVE  Fit(p) /\ Keeps(p)
<1>1. PICK n \in Noticed : p \in Observed(n)
  BY DEF Heard
<1> QED BY <1>1, FitNoticed, FitObserved

LEMMA FitSales ==
  ASSUME ChatFlowAssumption, ChatInv, Hears, NEW p \in Sales
  PROVE  Fit(p) /\ Keeps(p)
<1>1. PICK n \in Heard : p = Past(n)
  BY DEF Sales
<1> QED BY <1>1, FitHeard, FitPast

\* Leaving a created order behind discards it only when it can no longer be
\* edited.
LEMMA FitOther ==
  ASSUME ChatFlowAssumption, ChatInv, Hears, NEW p \in Other
  PROVE  Fit(p) /\ Keeps(p)
<1>1. PICK n \in Sales : p = Detach(n)
  BY DEF Other
<1>2. Fit(n) /\ Keeps(n)
  BY FitSales
<1>3. CASE n.pipe # "6"
  BY <1>1, <1>2, <1>3 DEF Detach
<1>4. CASE n.pipe = "6" /\ CanEdit
  <2> DEFINE r == [n EXCEPT !.pipe = "4"]
  <2>1. p = [r EXCEPT !.pending = "-"]
    BY <1>1, <1>4 DEF Detach
  <2>2. Fit(r) /\ Keeps(r)
    BY <1>2, FitPipe DEF PipeTag
  <2> HIDE DEF r
  <2> QED BY <2>1, <2>2, FitPending
<1>5. CASE n.pipe = "6" /\ ~CanEdit
  <2> DEFINE r == ClearOrderDraft(n)
  <2>1. p = [r EXCEPT !.pipe = "1", !.editable = "unset"]
    BY <1>1, <1>5 DEF Detach
  <2>2. Fit(r)
    BY <1>2, FitClear
  <2> HIDE DEF r
  <2>3. r \in Session /\ "1" \in PipeTag
    BY <2>2 DEF Fit, PipeTag
  <2>4. p \in Session
    BY <2>1, <2>3 DEF Session
  <2>5. /\ p.mode = r.mode /\ p.qty = r.qty /\ p.got = r.got /\ p.fee = r.fee
        /\ p.confirmed = r.confirmed /\ p.ship = r.ship /\ p.care = r.care
    BY <2>1, <2>3 DEF Session
  <2> QED BY <1>5, <2>2, <2>4, <2>5, FitTouch DEF Keeps
<1> QED BY <1>3, <1>4, <1>5

\* Every turn commits a fit session; one that only answers keeps the order.
Committed ==
  \E p : Fit(p) /\ (Commit(p, FALSE) \/ (Keeps(p) /\ Commit(p, TRUE)))

LEMMA ActsCommit ==
  ASSUME NEW p, Fit(p), Acts(p)
  PROVE  Committed
BY FitCoverage DEF Acts, Committed

LEMMA AnswersCommit ==
  ASSUME NEW p, Fit(p), Keeps(p), Answers(p)
  PROVE  Committed
BY FitCoverage DEF Answers, Committed

-----------------------------------------------------------------------------
(* The branches *)

LEMMA OrderPipeTag == OrderPipe \in PipeTag
BY DEF OrderPipe, PipeTag

LEMMA FitClassified ==
  ASSUME NEW p, Fit(p)
  PROVE  LET q == Classified(p) IN Fit(q) /\ (Keeps(p) => Keeps(q))
BY FitPipe DEF Classified, PipeTag

\* A quantity is selected and the sale moves on.
LEMMA FitSelectPipe ==
  ASSUME ChatFlowAssumption, NEW p, Fit(p), NEW n \in Quantity, NEW to \in PipeTag
  PROVE  Fit([SelectQuantity(p, n) EXCEPT !.pipe = to])
<1>1. Fit(SelectQuantity(p, n))
  BY FitSelect
<1> QED BY <1>1, FitPipe

LEMMA HandsOverCommit ==
  ASSUME ChatFlowAssumption, NEW p, Fit(p), NEW why \in {"wholesale", "review"},
         HandsOver(p, why)
  PROVE  Committed
<1>1. CASE Acts(PauseForHumanReview(p, why))
  BY <1>1, FitPause, ActsCommit
<1>2. ASSUME NEW n \in Quantity,
             Acts(PauseForHumanReview([SelectQuantity(p, n) EXCEPT !.pipe = "5"], why))
      PROVE  Committed
  <2> DEFINE q == [SelectQuantity(p, n) EXCEPT !.pipe = "5"]
  <2>1. Fit(q)
    BY FitSelectPipe DEF PipeTag
  <2> HIDE DEF q
  <2>2. Fit(PauseForHumanReview(q, why))
    BY <2>1, FitPause
  <2> QED BY <1>2, <2>2, ActsCommit DEF q
<1> QED BY <1>1, <1>2 DEF HandsOver

\* Cases replaced along with the pipeline.
LEMMA FitCase ==
  ASSUME NEW p, Fit(p), NEW c \in Case, Reached(c), NEW q \in Session,
         q.mode = p.mode, q.qty = p.qty, q.got = p.got, q.confirmed = p.confirmed,
         q.fee = p.fee, q.ship = p.ship, q.care = c
  PROVE  Fit(q)
BY DEF Fit, CareOK, Filled, Quoted, Fee

LEMMA CarePipeTag ==
  ASSUME NEW c
  PROVE  CarePipe(c) \in PipeTag
BY DEF CarePipe, PipeTag

LEMMA EarlyCommits ==
  ASSUME ChatFlowAssumption, ChatInv,
         Reset \/ TurnFails \/ ConditionalPurchase \/ Boundary \/ SplitShipment
  PROVE  Committed
<1>1. CASE Reset
  <2> DEFINE f == NewSession(s.mode)
  <2>1. s.mode \in Modes
    BY DEF ChatInv, ChatTypeOK, Session
  <2>2. f \in Session
    BY <2>1 DEF NewSession, Session, PipeTag
  <2>3. f.mode = s.mode /\ f.qty = 0 /\ f.confirmed = "no" /\ f.care = NoCase
    BY DEF NewSession
  <2>4. Commit(f, FALSE)
    BY <1>1 DEF Reset
  <2> HIDE DEF f
  <2>5. Fit(f)
    BY <2>2, <2>3 DEF Fit, CareOK, Filled, Quoted
  <2> QED BY <2>4, <2>5 DEF Committed
<1>2. CASE TurnFails
  <2> DEFINE q == [s EXCEPT !.editable = IF ctx = "unset" THEN @ ELSE ctx,
                            !.fresh = FALSE]
  <2>1. s \in Session /\ ctx \in {"unset", "yes", "no"}
    BY <1>2 DEF TurnFails, Hears, ChatInv, ChatTypeOK
  <2>2. q \in Session
    BY <2>1 DEF Session
  <2>3. /\ q.mode = s.mode /\ q.qty = s.qty /\ q.got = s.got /\ q.fee = s.fee
        /\ q.confirmed = s.confirmed /\ q.ship = s.ship /\ q.care = s.care
    BY <2>1 DEF Session
  <2>4. Commit(q, TRUE)
    BY <1>2 DEF TurnFails
  <2> HIDE DEF q
  <2>5. Fit(q)
    BY <2>2, <2>3, FitSession, FitTouch
  <2>6. CanEdit => s.confirmed # "no"
    <3> DEFINE a == [s EXCEPT !.editable = IF ctx = "unset" THEN @ ELSE ctx]
    <3>1. a.confirmed = s.confirmed
      BY <2>1 DEF Session
    <3>2. Greeted.confirmed = a.confirmed
      <4>1. a \in Session
        BY <2>1 DEF Session
      <4> HIDE DEF a
      <4>2. Greeted = IF a.pipe = "7" THEN ApproveSingleShipping(a) ELSE a
        BY DEF Greeted, a
      <4> QED BY <4>1, <4>2 DEF ApproveSingleShipping, SelectQuantity, Session,
                CommitOrderMutations, ReduceOrderTransaction, NoMutation
    <3> QED BY <3>1, <3>2 DEF CanEdit
  <2>7. Keeps(q)
    BY <2>3, <2>6 DEF Keeps
  <2> QED BY <2>4, <2>5, <2>7 DEF Committed
<1>3. CASE ConditionalPurchase
  <2>1. PICK q \in MergeOrderData([ClearOrderDraft(Counted) EXCEPT !.pipe = "4"]) :
          \/ Acts(Past(q))
          \/ \E n \in Quantity :
               \E r \in OrderCollectionReply(
                          [SelectQuantity(Past(q), n) EXCEPT !.pipe = "5"]) : Acts(r)
    BY <1>3 DEF ConditionalPurchase
  <2>2. Fit(Counted)
    BY <1>3, FitCounted DEF ConditionalPurchase
  <2>3. Fit([ClearOrderDraft(Counted) EXCEPT !.pipe = "4"])
    BY <2>2, FitClear, FitPipe DEF PipeTag
  <2>4. Fit(Past(q))
    <3>1. Fit(q)
      BY <2>3, FitMerge
    <3> QED BY <3>1, FitPast
  <2>5. ASSUME NEW n \in Quantity,
               NEW r \in OrderCollectionReply(
                           [SelectQuantity(Past(q), n) EXCEPT !.pipe = "5"])
        PROVE  Fit(r)
    <3>1. Fit([SelectQuantity(Past(q), n) EXCEPT !.pipe = "5"])
      BY <2>4, FitSelectPipe DEF PipeTag
    <3> QED BY <3>1, <2>5, FitReply
  <2> QED BY <2>1, <2>4, <2>5, ActsCommit
<1>4. CASE Boundary
  <2>1. PICK p \in Heard : \E to \in {p.pipe, "2", "4"} :
          Commit(LockBoundary([p EXCEPT !.pipe = to]), TRUE)
    BY <1>4 DEF Boundary
  <2>2. PICK to \in {p.pipe, "2", "4"} :
          Commit(LockBoundary([p EXCEPT !.pipe = to]), TRUE)
    BY <2>1
  <2>3. Fit(p) /\ Keeps(p)
    BY <1>4, FitHeard DEF Boundary
  <2>4. to \in PipeTag
    BY <2>3 DEF Fit, Session, PipeTag
  <2> DEFINE q == [p EXCEPT !.pipe = to]
  <2>5. Fit(q) /\ Keeps(q)
    BY <2>3, <2>4, FitPipe
  <2> HIDE DEF q
  <2>6. Fit(LockBoundary(q)) /\ Keeps(LockBoundary(q))
    BY <2>5, FitLock
  <2> QED BY <2>2, <2>6 DEF Committed, q
<1>5. CASE SplitShipment
  <2>1. PICK p \in Noticed :
          Commit(LockBoundary([p EXCEPT !.pipe = "4", !.pending = "-"]), TRUE)
    BY <1>5 DEF SplitShipment
  <2>2. Fit(p) /\ Keeps(p)
    BY <1>5, FitNoticed DEF SplitShipment
  <2> DEFINE r == [p EXCEPT !.pipe = "4"]
             q == [p EXCEPT !.pipe = "4", !.pending = "-"]
  <2>3. Fit(r) /\ Keeps(r)
    BY <2>2, FitPipe DEF PipeTag
  <2>4. q = [r EXCEPT !.pending = "-"]
    OBVIOUS
  <2> HIDE DEF r, q
  <2>5. Fit(q) /\ Keeps(q)
    BY <2>3, <2>4, FitPending
  <2>6. Fit(LockBoundary(q)) /\ Keeps(LockBoundary(q))
    BY <2>5, FitLock
  <2> QED BY <2>1, <2>6 DEF Committed, q
<1> QED BY <1>1, <1>2, <1>3, <1>4, <1>5

LEMMA CareCommits ==
  ASSUME ChatFlowAssumption, ChatInv,
         RecapWithCorrection \/ FactLedger \/ ActiveCare \/ StartCare
  PROVE  Committed
<1>1. CASE RecapWithCorrection
  <2>1. PICK p \in Heard :
          \E q \in {p} \cup {[SelectQuantity(p, n) EXCEPT !.pipe = "5"] :
                               n \in Quantity} :
            \E city \in BOOLEAN :
              Commit(LockBoundary([q EXCEPT !.got =
                       IF city THEN @ \ {"address"} ELSE @]), FALSE)
    BY <1>1 DEF RecapWithCorrection
  <2>2. Fit(p)
    BY <1>1, FitHeard DEF RecapWithCorrection
  <2>3. PICK q \in {p} \cup {[SelectQuantity(p, n) EXCEPT !.pipe = "5"] :
                               n \in Quantity} :
          \E city \in BOOLEAN :
            Commit(LockBoundary([q EXCEPT !.got =
                     IF city THEN @ \ {"address"} ELSE @]), FALSE)
    BY <2>1
  <2>4. Fit(q)
    <3>1. CASE q = p
      BY <2>2, <3>1
    <3>2. ASSUME NEW n \in Quantity, q = [SelectQuantity(p, n) EXCEPT !.pipe = "5"]
          PROVE  Fit(q)
      BY <2>2, <3>2, FitSelectPipe DEF PipeTag
    <3> QED BY <2>3, <3>1, <3>2
  <2>5. PICK city \in BOOLEAN :
          Commit(LockBoundary([q EXCEPT !.got =
                   IF city THEN @ \ {"address"} ELSE @]), FALSE)
    BY <2>3
  <2> DEFINE g == IF city THEN q.got \ {"address"} ELSE q.got
             r == [q EXCEPT !.got = g]
  <2>6. Grown(q.got, g)
    BY <2>4 DEF Grown, Fit, Session
  <2>7. [q EXCEPT !.got = IF city THEN @ \ {"address"} ELSE @] = r
    OBVIOUS
  <2> HIDE DEF g
  <2>8. Fit(r)
    BY <2>4, <2>6, FitGot
  <2> HIDE DEF r
  <2>9. Fit(LockBoundary(r))
    BY <2>8, FitLock
  <2> QED BY <2>5, <2>7, <2>9 DEF Committed
<1>2. CASE FactLedger
  <2>1. PICK p \in Heard : \E q \in Dismissable(p) : Answers(q)
    BY <1>2 DEF FactLedger
  <2>2. Fit(p) /\ Keeps(p)
    BY <1>2, FitHeard DEF FactLedger
  <2> QED BY <2>1, <2>2, FitDismissable, AnswersCommit
<1>3. CASE ActiveCare
  <2>1. PICK p \in Heard :
          /\ p.care # NoCase
          /\ \E c \in AdvanceCareFlow(p.care) :
               Commit([p EXCEPT !.care = c, !.pipe = CarePipe(c)], FALSE)
    BY <1>3 DEF ActiveCare
  <2>2. PICK c \in AdvanceCareFlow(p.care) :
          Commit([p EXCEPT !.care = c, !.pipe = CarePipe(c)], FALSE)
    BY <2>1
  <2>3. Fit(p)
    BY <1>3, FitHeard DEF ActiveCare
  <2>4. c \in Case /\ Reached(c)
    BY <2>1, <2>3, CaseAdvances DEF Fit, CareOK
  <2> DEFINE q == [p EXCEPT !.care = c, !.pipe = CarePipe(c)]
  <2>5. p \in Session /\ CarePipe(c) \in PipeTag
    BY <2>3, CarePipeTag DEF Fit
  <2>6. q \in Session
    BY <2>4, <2>5 DEF Session
  <2>7. /\ q.mode = p.mode /\ q.qty = p.qty /\ q.got = p.got /\ q.fee = p.fee
        /\ q.confirmed = p.confirmed /\ q.ship = p.ship /\ q.care = c
    BY <2>5 DEF Session
  <2> HIDE DEF q
  <2>8. Fit(q)
    BY <2>3, <2>4, <2>6, <2>7, FitCase
  <2> QED BY <2>2, <2>8 DEF Committed, q
<1>4. CASE StartCare
  <2>1. PICK p \in Heard, i \in Issues : \E c \in StartCareFlow(i) :
          LET q == [p EXCEPT !.prev = p.pipe, !.care = c, !.pipe = CarePipe(c),
                      !.pending = IF i = "complaint" THEN "-" ELSE @]
          IN  \/ Commit(q, FALSE)
              \/ i # "complaint" /\ Commit(PauseForHumanReview(q, "review"), FALSE)
    BY <1>4 DEF StartCare
  <2>2. PICK c \in StartCareFlow(i) :
          LET q == [p EXCEPT !.prev = p.pipe, !.care = c, !.pipe = CarePipe(c),
                      !.pending = IF i = "complaint" THEN "-" ELSE @]
          IN  \/ Commit(q, FALSE)
              \/ i # "complaint" /\ Commit(PauseForHumanReview(q, "review"), FALSE)
    BY <2>1
  <2>3. Fit(p)
    BY <1>4, FitHeard DEF StartCare
  <2>4. c \in Case /\ Reached(c)
    BY CaseStarts DEF ChatFlowAssumption
  <2> DEFINE q == [p EXCEPT !.prev = p.pipe, !.care = c, !.pipe = CarePipe(c),
                     !.pending = IF i = "complaint" THEN "-" ELSE @]
  <2>5. p \in Session /\ CarePipe(c) \in PipeTag
    BY <2>3, CarePipeTag DEF Fit
  <2>6. q \in Session
    BY <2>4, <2>5 DEF Session
  <2>7. /\ q.mode = p.mode /\ q.qty = p.qty /\ q.got = p.got /\ q.fee = p.fee
        /\ q.confirmed = p.confirmed /\ q.ship = p.ship /\ q.care = c
    BY <2>5 DEF Session
  <2>8. Commit(q, FALSE) \/ Commit(PauseForHumanReview(q, "review"), FALSE)
    BY <2>2
  <2> HIDE DEF q
  <2>9. Fit(q)
    BY <2>3, <2>4, <2>6, <2>7, FitCase
  <2>10. Fit(PauseForHumanReview(q, "review"))
    BY <2>9, FitPause
  <2> QED BY <2>8, <2>9, <2>10 DEF Committed
<1> QED BY <1>1, <1>2, <1>3, <1>4

LEMMA FitMaybeSelect ==
  ASSUME ChatFlowAssumption, NEW p, Fit(p),
         NEW q \in {p} \cup {SelectQuantity(p, n) : n \in Quantity}
  PROVE  Fit(q)
BY FitSelect

LEMMA CancelCommits ==
  ASSUME ChatFlowAssumption, ChatInv, Cancellation \/ OptOut
  PROVE  Committed
<1>1. PICK p \in Heard :
        \/ Acts([ClearOrderDraft(p) EXCEPT !.pipe = "2"])
        \/ Acts([ClearOrderDraft(p) EXCEPT !.pipe = "2", !.opted = TRUE])
  BY DEF Cancellation, OptOut
<1> DEFINE r == [ClearOrderDraft(p) EXCEPT !.pipe = "2"]
           q == [ClearOrderDraft(p) EXCEPT !.pipe = "2", !.opted = TRUE]
<1>2. Fit(p)
  BY FitHeard DEF Cancellation, OptOut
<1>3. Fit(r)
  BY <1>2, FitClear, FitPipe DEF PipeTag
<1>4. q = [r EXCEPT !.opted = TRUE]
  OBVIOUS
<1>5. r \in Session
  BY <1>3 DEF Fit
<1>6. Acts(r) \/ Acts(q)
  BY <1>1
<1> HIDE DEF r, q
<1>7. q \in Session
  BY <1>4, <1>5 DEF Session
<1>8. /\ q.mode = r.mode /\ q.qty = r.qty /\ q.got = r.got /\ q.fee = r.fee
      /\ q.confirmed = r.confirmed /\ q.ship = r.ship /\ q.care = r.care
  BY <1>4, <1>5 DEF Session
<1>9. Fit(q)
  BY <1>3, <1>7, <1>8, FitTouch
<1> QED BY <1>3, <1>6, <1>9, ActsCommit

LEMMA OrderCommits ==
  ASSUME ChatFlowAssumption, ChatInv,
         \/ ChangeQuantity \/ OrderRecap \/ RestoreAddress \/ RecordData
         \/ ResumeRetail \/ RetailEscape
  PROVE  Committed
<1>1. CASE ChangeQuantity
  <2>1. PICK p \in Sales, n \in Quantity :
          LET q == [SelectQuantity(p, n) EXCEPT !.pipe = OrderPipe]
          IN  Acts(q) \/ \E r \in OrderCollectionReply(q) : Acts(r)
    BY <1>1 DEF ChangeQuantity
  <2> DEFINE q == [SelectQuantity(p, n) EXCEPT !.pipe = OrderPipe]
  <2>2. Fit(q)
    BY <1>1, FitSales, FitSelectPipe, OrderPipeTag DEF ChangeQuantity
  <2>3. Acts(q) \/ \E r \in OrderCollectionReply(q) : Acts(r)
    BY <2>1
  <2> HIDE DEF q
  <2> QED BY <2>2, <2>3, FitReply, ActsCommit
<1>2. CASE OrderRecap
  <2>1. PICK p \in Sales :
          \E q \in {p} \cup {SelectQuantity(p, n) : n \in Quantity} :
            \E r \in MergeAndCollect(q) : Acts(r)
    BY <1>2 DEF OrderRecap
  <2>2. Fit(p)
    BY <1>2, FitSales DEF OrderRecap
  <2> QED BY <2>1, <2>2, FitMaybeSelect, FitMergeCollect, ActsCommit
<1>3. CASE RestoreAddress
  <2>1. PICK p \in Sales :
          LET a == [p EXCEPT !.got = @ \cup {"address"}, !.pipe = OrderPipe]
              q == IF Complete(a) THEN [a EXCEPT !.pending = "confirm"] ELSE a
          IN  \E r \in OrderCollectionReply(q) : Acts(r)
    BY <1>3 DEF RestoreAddress
  <2> DEFINE g == p.got \cup {"address"}
             b == [p EXCEPT !.got = g]
             a == [p EXCEPT !.got = @ \cup {"address"}, !.pipe = OrderPipe]
             q == IF Complete(a) THEN [a EXCEPT !.pending = "confirm"] ELSE a
  <2>2. Fit(p)
    BY <1>3, FitSales DEF RestoreAddress
  <2>3. Grown(p.got, g)
    BY <2>2 DEF Grown, Fit, Session, ChatFlowAssumption
  <2>4. a = [b EXCEPT !.pipe = OrderPipe]
    OBVIOUS
  <2>5. \E r \in OrderCollectionReply(q) : Acts(r)
    BY <2>1
  <2> HIDE DEF g
  <2>6. Fit(b)
    BY <2>2, <2>3, FitGot
  <2> HIDE DEF b, a
  <2>7. Fit(a)
    BY <2>4, <2>6, FitPipe, OrderPipeTag
  <2>8. Fit(q)
    BY <2>7, FitPending
  <2> HIDE DEF q
  <2> QED BY <2>5, <2>8, FitReply, ActsCommit
<1>4. CASE RecordData
  <2>1. PICK p \in Sales : \E r \in CollectWith([p EXCEPT !.pipe = OrderPipe]) : Acts(r)
    BY <1>4 DEF RecordData
  <2>2. Fit([p EXCEPT !.pipe = OrderPipe])
    BY <1>4, FitSales, FitPipe, OrderPipeTag DEF RecordData
  <2> QED BY <2>1, <2>2, FitCollect, ActsCommit
<1>5. CASE ResumeRetail
  <2>1. PICK p \in Sales : Complete(p) /\ Acts([Confirm(p) EXCEPT !.pipe = "6"])
    BY <1>5 DEF ResumeRetail
  <2>2. Fit(Confirm(p))
    BY <1>5, <2>1, FitSales, FitConfirm DEF ResumeRetail
  <2>3. Fit([Confirm(p) EXCEPT !.pipe = "6"])
    BY <2>2, FitPipe DEF PipeTag
  <2> QED BY <2>1, <2>3, ActsCommit
<1>6. CASE RetailEscape
  <2>1. PICK p \in Sales, n \in Quantity :
          \E m \in MergeRetailEscapeOrderData(SelectQuantity(ClearOrderDraft(p), n)) :
            \E r \in OrderCollectionReply([m EXCEPT !.pipe = "5"]) : Acts(r)
    BY <1>6 DEF RetailEscape
  <2> DEFINE c == SelectQuantity(ClearOrderDraft(p), n)
  <2>2. Fit(c)
    BY <1>6, FitSales, FitClear, FitSelect DEF RetailEscape
  <2> HIDE DEF c
  <2>3. PICK m \in MergeRetailEscapeOrderData(c) :
          \E r \in OrderCollectionReply([m EXCEPT !.pipe = "5"]) : Acts(r)
    BY <2>1 DEF c
  <2>4. PICK q \in Recorded(c, Fields \cap {"phone"}) :
          m \in CommitLegacyAddress(q, "append")
    BY DEF MergeRetailEscapeOrderData
  <2>5. Fit(q)
    BY <2>2, FitRecorded
  <2>6. Fit(m)
    BY <2>4, <2>5, FitAddress
  <2>7. Fit([m EXCEPT !.pipe = "5"])
    BY <2>6, FitPipe DEF PipeTag
  <2> QED BY <2>3, <2>7, FitReply, ActsCommit
<1> QED BY <1>1, <1>2, <1>3, <1>4, <1>5, <1>6

LEMMA HandoffCommits ==
  ASSUME ChatFlowAssumption, ChatInv,
         Shipping \/ ModelFailed \/ BulkQuantity \/ AnswerAndHandOver
  PROVE  Committed
<1>1. CASE Shipping \/ AnswerAndHandOver
  <2>1. PICK p \in Sales : Answers(p) \/ HandsOver(p, "review")
    BY <1>1 DEF Shipping, AnswerAndHandOver
  <2>2. Fit(p) /\ Keeps(p)
    BY <1>1, FitSales DEF Shipping, AnswerAndHandOver
  <2> QED BY <2>1, <2>2, AnswersCommit, HandsOverCommit
<1>2. CASE ModelFailed
  <2>1. PICK p \in Sales :
          \/ HandsOver(p, "review")
          \/ Answers(Classified(p))
          \/ \E n \in Quantity : Acts([SelectQuantity(p, n) EXCEPT !.pipe = "5"])
    BY <1>2 DEF ModelFailed
  <2>2. Fit(p) /\ Keeps(p)
    BY <1>2, FitSales DEF ModelFailed
  <2>3. Fit(Classified(p)) /\ Keeps(Classified(p))
    BY <2>2, FitClassified
  <2>4. \A n \in Quantity : Fit([SelectQuantity(p, n) EXCEPT !.pipe = "5"])
    BY <2>2, FitSelectPipe DEF PipeTag
  <2> QED BY <2>1, <2>2, <2>3, <2>4, AnswersCommit, ActsCommit, HandsOverCommit
<1>3. CASE BulkQuantity
  <2>1. PICK p \in Sales : Acts(PauseForHumanReview(p, "wholesale"))
    BY <1>3 DEF BulkQuantity
  <2>2. Fit(PauseForHumanReview(p, "wholesale"))
    BY <1>3, FitSales, FitPause DEF BulkQuantity
  <2> QED BY <2>1, <2>2, ActsCommit
<1> QED BY <1>1, <1>2, <1>3

\* The sessions that only answers lead to: the conversation moves, the order not.
AnswerOnly(p) ==
  {p, Classified(p), [p EXCEPT !.pipe = "2"], [p EXCEPT !.pipe = "4"]} \cup ShowPrice(p)

LEMMA AnsweredCommits ==
  ASSUME NEW p, Fit(p), Keeps(p), NEW q \in AnswerOnly(p), Answers(q)
  PROVE  Committed
<1>1. Fit(q) /\ Keeps(q)
  BY FitClassified, FitPipe, FitPrice DEF AnswerOnly, PipeTag
<1> QED BY <1>1, AnswersCommit

LEMMA AnswerCommits ==
  ASSUME ChatFlowAssumption, ChatInv,
         \/ PricePolicy \/ PolicyAnswer \/ AgeAnswer \/ OpeningChoice
         \/ Recommend \/ ApprovedAnswer \/ TakeOffer \/ Opening
  PROVE  Committed
<1>1. Hears
  BY DEF PricePolicy, PolicyAnswer, AgeAnswer, OpeningChoice, Recommend,
         ApprovedAnswer, TakeOffer, Opening
<1>2. CASE Recommend
  <2>1. PICK p \in Sales :
          \/ Answers(p)
          \/ \E n \in Quantity : Acts([SelectQuantity(p, n) EXCEPT !.pipe = "5"])
    BY <1>2 DEF Recommend
  <2>2. Fit(p) /\ Keeps(p)
    BY <1>1, FitSales
  <2>3. \A n \in Quantity : Fit([SelectQuantity(p, n) EXCEPT !.pipe = "5"])
    BY <2>2, FitSelectPipe DEF PipeTag
  <2> QED BY <2>1, <2>2, <2>3, ActsCommit, AnswersCommit
<1>3. CASE ~Recommend
  <2>1. PICK p \in Sales : \E q \in AnswerOnly(p) : Answers(q)
    <3>1. CASE PricePolicy
      BY <3>1 DEF PricePolicy, AnswerOnly
    <3>2. CASE PolicyAnswer
      BY <3>2 DEF PolicyAnswer, AnswerOnly
    <3>3. CASE AgeAnswer
      BY <3>3 DEF AgeAnswer, AnswerOnly
    <3>4. CASE OpeningChoice
      BY <3>4 DEF OpeningChoice, AnswerOnly
    <3>5. CASE ApprovedAnswer
      BY <3>5 DEF ApprovedAnswer, AnswerOnly
    <3>6. CASE TakeOffer
      BY <3>6 DEF TakeOffer, AnswerOnly
    <3>7. CASE Opening
      BY <3>7 DEF Opening, AnswerOnly
    <3> QED BY <1>3, <3>1, <3>2, <3>3, <3>4, <3>5, <3>6, <3>7
  <2>2. Fit(p) /\ Keeps(p)
    BY <1>1, FitSales
  <2> QED BY <2>1, <2>2, AnsweredCommits
<1> QED BY <1>2, <1>3

\* A quantity is taken up, with free shipping where it was negotiated.
LEMMA FitNegotiated ==
  ASSUME ChatFlowAssumption, NEW p, Fit(p),
         NEW q \in {[r EXCEPT !.pending = "-"] : r \in {p, ApproveSingleShipping(p)}},
         NEW n \in Quantity, NEW to \in PipeTag
  PROVE  Fit(q) /\ Fit([SelectQuantity(q, n) EXCEPT !.pipe = to])
<1>1. PICK r \in {p, ApproveSingleShipping(p)} : q = [r EXCEPT !.pending = "-"]
  OBVIOUS
<1>2. Fit(r)
  BY FitApprove
<1>3. Fit(q)
  BY <1>1, <1>2, FitPending
<1> QED BY <1>3, FitSelectPipe

LEMMA ActionCommits ==
  ASSUME ChatFlowAssumption, ChatInv,
         \/ QuantityAction \/ AskQuantity \/ CompoundUpdate
         \/ ConfirmOrder \/ OrderCollection \/ QuantityAfterPrice
  PROVE  Committed
<1>1. CASE QuantityAction
  <2>1. PICK p \in Sales, n \in Quantity :
          LET a == {[q EXCEPT !.pending = "-"] : q \in {p, ApproveSingleShipping(p)}}
              b == {[SelectQuantity(q, n) EXCEPT !.pipe = IF CanEdit THEN @ ELSE "5"] :
                      q \in a}
          IN  \E r \in b \cup UNION {MergeAndCollect(q) : q \in b} : Acts(r)
    BY <1>1 DEF QuantityAction
  <2> DEFINE a == {[q EXCEPT !.pending = "-"] : q \in {p, ApproveSingleShipping(p)}}
             To(q) == [SelectQuantity(q, n) EXCEPT
                         !.pipe = IF CanEdit THEN @ ELSE "5"]
             b == {To(q) : q \in a}
  <2>2. Fit(p)
    BY <1>1, FitSales DEF QuantityAction
  <2>3. ASSUME NEW q \in a
        PROVE  Fit(To(q))
    <3> DEFINE c == SelectQuantity(q, n)
               to == IF CanEdit THEN c.pipe ELSE "5"
    <3>1. Fit(q)
      BY <2>2, <2>3, FitNegotiated DEF PipeTag
    <3> HIDE DEF a
    <3>2. Fit(c)
      BY <3>1, FitSelect
    <3>3. To(q) = [c EXCEPT !.pipe = to]
      OBVIOUS
    <3> HIDE DEF c
    <3>4. to \in PipeTag
      BY <3>2 DEF Fit, Session, PipeTag
    <3> HIDE DEF to, To
    <3> QED BY <3>2, <3>3, <3>4, FitPipe
  <2>4. \E r \in b \cup UNION {MergeAndCollect(q) : q \in b} : Acts(r)
    BY <2>1
  <2> HIDE DEF a, To
  <2>5. \A q \in b : Fit(q)
    BY <2>3
  <2> HIDE DEF b
  <2> QED BY <2>4, <2>5, FitMergeCollect, ActsCommit
<1>2. CASE AskQuantity
  <2>1. PICK p \in Sales : Acts([p EXCEPT !.pending = "quantity"])
    BY <1>2 DEF AskQuantity
  <2>2. Fit([p EXCEPT !.pending = "quantity"])
    BY <1>2, FitSales, FitPending DEF AskQuantity
  <2> QED BY <2>1, <2>2, ActsCommit
<1>3. CASE CompoundUpdate
  <2>1. PICK p \in Sales, n \in Quantity :
          \E q \in MergeOrderData(SelectQuantity([p EXCEPT !.pending = "-"], n)) :
            Acts([q EXCEPT !.pipe = OrderPipe])
    BY <1>3 DEF CompoundUpdate
  <2>2. Fit([p EXCEPT !.pending = "-"])
    BY <1>3, FitSales, FitPending DEF CompoundUpdate
  <2>3. Fit(SelectQuantity([p EXCEPT !.pending = "-"], n))
    BY <2>2, FitSelect
  <2>4. PICK q \in MergeOrderData(SelectQuantity([p EXCEPT !.pending = "-"], n)) :
          Acts([q EXCEPT !.pipe = OrderPipe])
    BY <2>1
  <2>5. Fit(q)
    BY <2>3, FitMerge
  <2>6. Fit([q EXCEPT !.pipe = OrderPipe])
    BY <2>5, FitPipe, OrderPipeTag
  <2> QED BY <2>4, <2>6, ActsCommit
<1>4. CASE ConfirmOrder
  <2>1. PICK p \in Sales : Complete(p) /\ Acts([Confirm(p) EXCEPT !.pipe = "6"])
    BY <1>4 DEF ConfirmOrder
  <2>2. Fit(Confirm(p))
    BY <1>4, <2>1, FitSales, FitConfirm DEF ConfirmOrder
  <2>3. Fit([Confirm(p) EXCEPT !.pipe = "6"])
    BY <2>2, FitPipe DEF PipeTag
  <2> QED BY <2>1, <2>3, ActsCommit
<1>5. CASE OrderCollection
  <2>1. PICK p \in Sales :
          LET q == [p EXCEPT !.pipe = OrderPipe]
          IN  Acts(q) \/ \E r \in MergeAndCollect(q) : Acts(r)
    BY <1>5 DEF OrderCollection
  <2>2. Fit([p EXCEPT !.pipe = OrderPipe])
    BY <1>5, FitSales, FitPipe, OrderPipeTag DEF OrderCollection
  <2> QED BY <2>1, <2>2, FitMergeCollect, ActsCommit
<1>6. CASE QuantityAfterPrice
  <2>1. PICK p \in Sales, n \in Quantity :
          LET a == {[q EXCEPT !.pending = "-"] : q \in {p, ApproveSingleShipping(p)}}
              b == {[SelectQuantity(q, n) EXCEPT !.pipe = "5"] : q \in a}
          IN  \E r \in b \cup UNION {MergeAndCollect(q) : q \in b} : Acts(r)
    BY <1>6 DEF QuantityAfterPrice
  <2> DEFINE a == {[q EXCEPT !.pending = "-"] : q \in {p, ApproveSingleShipping(p)}}
             b == {[SelectQuantity(q, n) EXCEPT !.pipe = "5"] : q \in a}
  <2>2. Fit(p)
    BY <1>6, FitSales DEF QuantityAfterPrice
  <2>3. \A q \in a : Fit([SelectQuantity(q, n) EXCEPT !.pipe = "5"])
    BY <2>2, FitNegotiated DEF PipeTag
  <2>4. \E r \in b \cup UNION {MergeAndCollect(q) : q \in b} : Acts(r)
    BY <2>1
  <2> HIDE DEF a
  <2>5. \A q \in b : Fit(q)
    BY <2>3
  <2> HIDE DEF b
  <2> QED BY <2>4, <2>5, FitMergeCollect, ActsCommit
<1> QED BY <1>1, <1>2, <1>3, <1>4, <1>5, <1>6

\* Two fields of the conversation at once.
LEMMA FitPipePending ==
  ASSUME NEW p, Fit(p), NEW to \in PipeTag, NEW o \in {"-", "quantity", "confirm"}
  PROVE  LET q == [p EXCEPT !.pipe = to, !.pending = o]
         IN  Fit(q) /\ (Keeps(p) => Keeps(q))
<1> DEFINE q == [p EXCEPT !.pipe = to, !.pending = o]
<1>1. p \in Session
  BY DEF Fit
<1>2. q \in Session
  BY <1>1 DEF Session
<1>3. /\ q.mode = p.mode /\ q.qty = p.qty /\ q.got = p.got /\ q.fee = p.fee
      /\ q.confirmed = p.confirmed /\ q.ship = p.ship /\ q.care = p.care
  BY <1>1 DEF Session
<1> HIDE DEF q
<1> QED BY <1>2, <1>3, FitTouch DEF q

\* The branches that only answer, whatever the session was about.
LEMMA OtherAnswerCommits ==
  ASSUME ChatFlowAssumption, ChatInv,
         Greeting \/ Usage \/ PriceObjection \/ Product \/ Discover
  PROVE  Committed
<1>1. Hears
  BY DEF Greeting, Usage, PriceObjection, Product, Discover
<1>2. CASE Greeting \/ Usage \/ PriceObjection
  <2>1. PICK p \in Other : \E q \in AnswerOnly(p) : Answers(q)
    <3>1. CASE Greeting
      BY <3>1 DEF Greeting, AnswerOnly
    <3>2. CASE Usage
      BY <3>2 DEF Usage, AnswerOnly
    <3>3. CASE PriceObjection
      BY <3>3 DEF PriceObjection, AnswerOnly
    <3> QED BY <1>2, <3>1, <3>2, <3>3
  <2>2. Fit(p) /\ Keeps(p)
    BY <1>1, FitOther
  <2> QED BY <2>1, <2>2, AnsweredCommits
<1>3. CASE Product
  <2>1. PICK p \in Other :
          \/ \E o \in {p.pending, "-"} :
               Answers([Classified(p) EXCEPT !.pending = o])
          \/ Answers([p EXCEPT !.pipe = "4", !.pending = "-"])
    BY <1>3 DEF Product
  <2>2. Fit(p) /\ Keeps(p)
    BY <1>1, FitOther
  <2>3. Fit(Classified(p)) /\ Keeps(Classified(p))
    BY <2>2, FitClassified
  <2>4. p.pending \in {"-", "quantity", "confirm"}
    BY <2>2 DEF Fit, Session
  <2>5. ASSUME NEW o \in {p.pending, "-"}
        PROVE  LET q == [Classified(p) EXCEPT !.pending = o] IN Fit(q) /\ Keeps(q)
    BY <2>3, <2>4, FitPending
  <2>6. LET q == [p EXCEPT !.pipe = "4", !.pending = "-"] IN Fit(q) /\ Keeps(q)
    BY <2>2, FitPipePending DEF PipeTag
  <2> QED BY <2>1, <2>5, <2>6, AnswersCommit
<1>4. CASE Discover
  <2> DEFINE Next4(p) == CASE p.pipe = "4" -> {"2", "4"} [] p.pipe = "7" -> {"4"}
                           [] p.pipe = "1" -> {"1", "2"} [] OTHER -> {p.pipe}
  <2>1. PICK p \in Other, o \in {"-", "quantity", "confirm"} :
          \E to \in Next4(p) : Answers([p EXCEPT !.pending = o, !.pipe = to])
    BY <1>4 DEF Discover
  <2>2. PICK to \in Next4(p) : Answers([p EXCEPT !.pending = o, !.pipe = to])
    BY <2>1
  <2>3. Fit(p) /\ Keeps(p)
    BY <1>1, FitOther
  <2>4. p.pipe \in PipeTag
    BY <2>3 DEF Fit, Session
  <2>5. to \in PipeTag
    BY <2>2, <2>4 DEF PipeTag
  <2> HIDE DEF Next4
  <2> DEFINE r == [p EXCEPT !.pending = o]
  <2>6. Fit(r) /\ Keeps(r)
    BY <2>3, FitPending
  <2>7. [p EXCEPT !.pending = o, !.pipe = to] = [r EXCEPT !.pipe = to]
    OBVIOUS
  <2> HIDE DEF r
  <2>8. LET q == [r EXCEPT !.pipe = to] IN Fit(q) /\ Keeps(q)
    BY <2>5, <2>6, FitPipe
  <2> QED BY <2>2, <2>7, <2>8, AnswersCommit
<1> QED BY <1>2, <1>3, <1>4

LEMMA OtherCommits ==
  ASSUME ChatFlowAssumption, ChatInv,
         \/ AboutOrder \/ ResumeBuying \/ BotIdentity \/ Unverified \/ PriceTalk
         \/ Terms \/ Decline \/ BuyNow
  PROVE  Committed
<1>1. CASE AboutOrder
  <2>1. PICK p \in Sales :
          \/ Acts(p)
          \/ Acts([ClearOrderDraft(p) EXCEPT !.pipe = "4", !.pending = "quantity"])
    BY <1>1 DEF AboutOrder
  <2>2. Fit(p) /\ Fit(ClearOrderDraft(p))
    BY <1>1, FitSales, FitClear DEF AboutOrder
  <2>3. Fit([ClearOrderDraft(p) EXCEPT !.pipe = "4", !.pending = "quantity"])
    BY <2>2, FitPipePending DEF PipeTag
  <2> QED BY <2>1, <2>2, <2>3, ActsCommit
<1>2. CASE ResumeBuying
  <2>1. PICK p \in Other :
          LET q == [p EXCEPT !.pipe = "5"]
          IN  IF Complete(q)
                THEN \E r \in OrderCollectionReply([q EXCEPT !.pending = "confirm"]) :
                       Acts(r)
                ELSE Acts(q)
    BY <1>2 DEF ResumeBuying
  <2> DEFINE q == [p EXCEPT !.pipe = "5"]
  <2>2. Fit(q)
    BY <1>2, FitOther, FitPipe DEF ResumeBuying, PipeTag
  <2>3. Acts(q) \/ \E r \in OrderCollectionReply([q EXCEPT !.pending = "confirm"]) :
                     Acts(r)
    BY <2>1
  <2> HIDE DEF q
  <2>4. Fit([q EXCEPT !.pending = "confirm"])
    BY <2>2, FitPending
  <2> QED BY <2>2, <2>3, <2>4, FitReply, ActsCommit
<1>3. CASE BotIdentity
  <2>1. PICK p \in Other :
          \/ Answers(p)
          \/ \E q \in {p} \cup {SelectQuantity(p, n) : n \in Quantity} :
               \E r \in UNION {OrderCollectionReply(a) : a \in
                          CommitLegacyAddress([q EXCEPT !.pipe = "5"], "append")} :
                 Acts(r)
    BY <1>3 DEF BotIdentity
  <2>2. Fit(p) /\ Keeps(p)
    BY <1>3, FitOther DEF BotIdentity
  <2>3. CASE Answers(p)
    BY <2>2, <2>3, AnswersCommit
  <2>4. ASSUME NEW q \in {p} \cup {SelectQuantity(p, n) : n \in Quantity},
               NEW a \in CommitLegacyAddress([q EXCEPT !.pipe = "5"], "append"),
               NEW r \in OrderCollectionReply(a), Acts(r)
        PROVE  Committed
    <3>1. Fit(q)
      BY <2>2, FitMaybeSelect
    <3>2. Fit([q EXCEPT !.pipe = "5"])
      BY <3>1, FitPipe DEF PipeTag
    <3>3. Fit(a)
      BY <3>2, FitAddress
    <3> QED BY <2>4, <3>3, FitReply, ActsCommit
  <2> QED BY <2>1, <2>3, <2>4
<1>4. CASE Unverified
  <2>1. PICK p \in Other :
          \/ Acts(PauseForHumanReview(p, "review"))
          \/ Answers(p)
          \/ \E q \in ShowPrice(p) : Answers(q)
    BY <1>4 DEF Unverified
  <2>2. Fit(p) /\ Keeps(p) /\ Fit(PauseForHumanReview(p, "review"))
    BY <1>4, FitOther, FitPause DEF Unverified
  <2> QED BY <2>1, <2>2, FitPrice, ActsCommit, AnswersCommit
<1>5. CASE PriceTalk
  <2>1. PICK p \in Other :
          \/ Answers([p EXCEPT !.pipe = "4", !.pending = "-"])
          \/ Acts([ApproveSingleShipping(p) EXCEPT !.pipe = "4"])
          \/ \E q \in ShowPrice(p) : Answers(q)
    BY <1>5 DEF PriceTalk
  <2>2. Fit(p) /\ Keeps(p)
    BY <1>5, FitOther DEF PriceTalk
  <2>3. Fit([ApproveSingleShipping(p) EXCEPT !.pipe = "4"])
    BY <2>2, FitApprove, FitPipe DEF PipeTag
  <2>4. LET q == [p EXCEPT !.pipe = "4", !.pending = "-"] IN Fit(q) /\ Keeps(q)
    BY <2>2, FitPipePending DEF PipeTag
  <2> QED BY <2>1, <2>2, <2>3, <2>4, FitPrice, ActsCommit, AnswersCommit
<1>6. CASE Terms
  <2>1. PICK p \in Other :
          \/ Answers(p)
          \/ \E why \in {"wholesale", "review"} : Acts(PauseForHumanReview(p, why))
    BY <1>6 DEF Terms
  <2>2. Fit(p) /\ Keeps(p)
    BY <1>6, FitOther DEF Terms
  <2> QED BY <2>1, <2>2, FitPause, ActsCommit, AnswersCommit
<1>7. CASE Decline
  <2>1. PICK p \in Other :
          \/ Answers([p EXCEPT !.pipe = "2"])
          \/ Acts([ClearOrderDraft(p) EXCEPT !.pipe = "2"])
    BY <1>7 DEF Decline
  <2>2. Fit(p) /\ Keeps(p)
    BY <1>7, FitOther DEF Decline
  <2>3. LET q == [p EXCEPT !.pipe = "2"] IN Fit(q) /\ Keeps(q)
    BY <2>2, FitPipe DEF PipeTag
  <2>4. Fit([ClearOrderDraft(p) EXCEPT !.pipe = "2"])
    BY <2>2, FitClear, FitPipe DEF PipeTag
  <2> QED BY <2>1, <2>3, <2>4, ActsCommit, AnswersCommit
<1>8. CASE BuyNow
  <2>1. PICK p \in Other, n \in Quantity :
          \E r \in UNION {OrderCollectionReply(q) : q \in
                     MergeOrderData([SelectQuantity(p, n) EXCEPT !.pipe = "5"])} :
            Acts(r)
    BY <1>8 DEF BuyNow
  <2> DEFINE c == [SelectQuantity(p, n) EXCEPT !.pipe = "5"]
  <2>2. Fit(c)
    BY <1>8, FitOther, FitSelectPipe DEF BuyNow, PipeTag
  <2>3. PICK q \in MergeOrderData(c) : \E r \in OrderCollectionReply(q) : Acts(r)
    BY <2>1
  <2> HIDE DEF c
  <2>4. Fit(q)
    BY <2>2, <2>3, FitMerge
  <2> QED BY <2>3, <2>4, FitReply, ActsCommit
<1> QED BY <1>1, <1>2, <1>3, <1>4, <1>5, <1>6, <1>7, <1>8

LEMMA TurnCommits ==
  ASSUME ChatFlowAssumption, ChatInv, Turn
  PROVE  Hears /\ Committed
<1>1. Committed
  BY EarlyCommits, CareCommits, CancelCommits, OrderCommits, HandoffCommits,
     AnswerCommits, ActionCommits, OtherAnswerCommits, OtherCommits DEF Turn
<1>2. Hears
  BY DEF Turn, Reset, TurnFails, ConditionalPurchase, Boundary, SplitShipment,
     RecapWithCorrection, FactLedger, ActiveCare, StartCare, Cancellation, OptOut,
     ChangeQuantity, OrderRecap, RestoreAddress, RecordData, ResumeRetail,
     RetailEscape, Shipping, ModelFailed, BulkQuantity, AnswerAndHandOver,
     PricePolicy, PolicyAnswer, AgeAnswer, OpeningChoice, Recommend,
     ApprovedAnswer, QuantityAction, AskQuantity, CompoundUpdate, TakeOffer,
     Opening, ConfirmOrder, OrderCollection, QuantityAfterPrice, AboutOrder,
     Greeting, ResumeBuying, BotIdentity, Unverified, PriceTalk, Terms, Product,
     Usage, Decline, PriceObjection, BuyNow, Discover
<1> QED BY <1>1, <1>2

-----------------------------------------------------------------------------
(* The invariant *)

\* What is written at the end of a turn: the push only changes how the
\* confirmation is known.
LEMMA CommitWrites ==
  ASSUME ChatFlowAssumption, ChatInv, Hears,
         NEW p, Fit(p), NEW a \in BOOLEAN, Commit(p, a)
  PROVE  /\ ChatInv'
         /\ s'.qty = p.qty /\ s'.fee = p.fee /\ s'.ship = p.ship
         /\ p.confirmed # "no" => s'.confirmed # "no"
         /\ ctx' = "unread" /\ answered' = a
<1>1. p \in Session /\ p.mode = s.mode /\ CareOK(p) /\ Filled(p)
  BY DEF Fit
<1> DEFINE k == IF Pushes(p) THEN "pushed" ELSE p.confirmed
           e == IF row' = "none" THEN p.editable ELSE "unset"
<1>2. s' = [p EXCEPT !.confirmed = k, !.editable = e]
  BY DEF Commit
<1>3. k \in {"no", "new", "pushed"} /\ (k # "no" <=> p.confirmed # "no")
  BY <1>1 DEF Pushes, Session
<1>4. e \in {"unset", "yes", "no"}
  BY <1>1 DEF Session
<1> HIDE DEF k, e
<1>5. s' \in Session
  BY <1>1, <1>2, <1>3, <1>4 DEF Session
<1>6. /\ s'.mode = p.mode /\ s'.qty = p.qty /\ s'.got = p.got /\ s'.fee = p.fee
      /\ s'.confirmed = k /\ s'.ship = p.ship /\ s'.care = p.care
  BY <1>1, <1>2 DEF Session
<1>7. CareOK(s)' /\ Filled(s)'
  BY <1>1, <1>3, <1>6 DEF CareOK, Filled
<1>8. ctx' = "unread" /\ answered' = a /\ turns' = turns
  BY DEF Commit
<1>9. row' \in {"none", "pending", "tracked", "cancelled"}
  BY DEF Commit, ChatInv, ChatTypeOK
<1>10. turns' \in 0 .. MaxTurns[s'.mode]
  BY <1>1, <1>6, <1>8 DEF ChatInv, ChatTypeOK
<1>11. ChatTypeOK'
  BY <1>5, <1>8, <1>9, <1>10 DEF ChatTypeOK
<1> QED BY <1>3, <1>6, <1>7, <1>8, <1>11 DEF ChatInv

LEMMA BetweenWrites ==
  ASSUME ChatInv, NEW p \in Session, p.mode = s.mode, CareOK(p), Filled(p),
         Between(p)
  PROVE  ChatInv'
<1>1. s' = p /\ UNCHANGED <<ctx, row, answered, turns>>
  BY DEF Between
<1>2. ChatTypeOK'
  BY <1>1 DEF ChatInv, ChatTypeOK
<1>3. CareOK(s)' /\ Filled(s)'
  BY <1>1 DEF CareOK, Filled
<1> QED BY <1>2, <1>3 DEF ChatInv

LEMMA ChatInit ==
  ASSUME ChatFlowAssumption, Init
  PROVE  ChatInv
<1>1. PICK mode \in Modes : s = NewSession(mode)
  BY DEF Init
<1>2. s \in Session
  BY <1>1 DEF NewSession, Session, PipeTag
<1>3. s.mode = mode /\ s.confirmed = "no" /\ s.care = NoCase
  BY <1>1 DEF NewSession
<1>4. turns \in 0 .. MaxTurns[s.mode]
  BY <1>3 DEF Init, ChatFlowAssumption
<1>5. ChatTypeOK
  BY <1>2, <1>4 DEF Init, ChatTypeOK
<1> QED BY <1>3, <1>5 DEF ChatInv, CareOK, Filled

LEMMA ChatStep ==
  ASSUME ChatFlowAssumption, ChatInv, [Next]_vars
  PROVE  ChatInv'
<1> s \in Session /\ s.mode \in Modes /\ CareOK(s) /\ Filled(s)
  BY DEF ChatInv, ChatTypeOK, Session
<1>1. CASE Turn
  <2>1. Hears /\ Committed
    BY <1>1, TurnCommits
  <2>2. PICK p : Fit(p) /\ (Commit(p, FALSE) \/ Commit(p, TRUE))
    BY <2>1 DEF Committed
  <2> QED BY <2>1, <2>2, CommitWrites
<1>2. CASE ReadContext
  <2>1. /\ turns' = turns + 1 /\ turns < MaxTurns[s.mode] /\ s' = s /\ row' = row
        /\ ctx' \in {"unread", "unset", "yes", "no"} /\ answered' = FALSE
    BY <1>2 DEF ReadContext, CanEditPending
  <2>2. turns' \in 0 .. MaxTurns[s'.mode]
    <3>1. MaxTurns[s.mode] \in Nat /\ turns \in 0 .. MaxTurns[s.mode]
      BY DEF ChatInv, ChatTypeOK, ChatFlowAssumption
    <3>2. s'.mode = s.mode
      BY <2>1
    <3> QED BY <2>1, <3>1, <3>2
  <2>3. ChatTypeOK'
    BY <2>1, <2>2 DEF ChatInv, ChatTypeOK
  <2> QED BY <2>1, <2>3 DEF ChatInv, CareOK, Filled
<1>3. CASE StaffSettle
  <2>1. row' \in {"tracked", "cancelled"} /\ UNCHANGED <<s, ctx, answered, turns>>
    BY <1>3 DEF StaffSettle
  <2>2. ChatTypeOK'
    BY <2>1 DEF ChatInv, ChatTypeOK
  <2> QED BY <2>1, <2>2 DEF ChatInv, CareOK, Filled
<1>4. CASE FollowupSent
  <2>1. PICK to \in {"7", "2"} : Between([s EXCEPT !.ship = TRUE, !.pipe = to])
    BY <1>4 DEF FollowupSent
  <2> DEFINE q == [s EXCEPT !.ship = TRUE, !.pipe = to]
  <2>2. q \in Session
    BY DEF Session, PipeTag
  <2>3. /\ q.mode = s.mode /\ q.qty = s.qty /\ q.got = s.got
        /\ q.confirmed = s.confirmed /\ q.care = s.care
    BY DEF Session
  <2> HIDE DEF q
  <2>4. CareOK(q) /\ Filled(q)
    BY <2>3 DEF CareOK, Filled
  <2> QED BY <2>1, <2>2, <2>3, <2>4, BetweenWrites DEF q
<1>5. CASE NewEpisode
  <2> DEFINE f == NewSession(s.mode)
             o == [f EXCEPT !.qty = s.qty, !.got = s.got, !.confirmed = s.confirmed,
                     !.fee = s.fee, !.editable = s.editable, !.pipe = s.pipe]
             k == IF s.qty > 0 \/ s.got # {} THEN o ELSE f
             q == [k EXCEPT !.care = s.care, !.pipe = s.pipe,
                            !.prev = s.prev, !.handoff = s.handoff]
  <2>1. Between(IF s.care = NoCase THEN k ELSE q)
    BY <1>5 DEF NewEpisode
  <2>2. /\ f \in Session /\ f.mode = s.mode /\ f.qty = 0 /\ f.confirmed = "no"
        /\ f.care = NoCase
    BY DEF NewSession, Session, PipeTag
  <2> HIDE DEF f
  <2>3. o \in Session
    BY <2>2 DEF Session
  <2>4. /\ o.mode = s.mode /\ o.qty = s.qty /\ o.got = s.got
        /\ o.confirmed = s.confirmed /\ o.care = NoCase
    BY <2>2 DEF Session
  <2> HIDE DEF o
  <2>5. k \in Session /\ k.mode = s.mode /\ k.care = NoCase /\ Filled(k)
    BY <2>2, <2>3, <2>4 DEF Filled
  <2> HIDE DEF k
  <2>6. q \in Session
    BY <2>5 DEF Session
  <2>7. /\ q.mode = s.mode /\ q.qty = k.qty /\ q.got = k.got
        /\ q.confirmed = k.confirmed /\ q.care = s.care
    BY <2>5 DEF Session
  <2> HIDE DEF q
  <2>8. CareOK(k) /\ CareOK(q) /\ Filled(q)
    BY <2>5, <2>7 DEF CareOK, Filled
  <2> QED BY <2>1, <2>5, <2>6, <2>7, <2>8, BetweenWrites
<1>6. CASE GrantShipping
  <2> DEFINE a == ApproveSingleShipping(s)
             q == [a EXCEPT !.pipe = "4"]
  <2>1. Between(IF s.qty = 0 THEN q ELSE a)
    BY <1>6 DEF GrantShipping
  <2>2. Fit(a)
    BY FitSession, FitApprove
  <2> HIDE DEF a
  <2>3. Fit(q)
    BY <2>2, FitPipe DEF PipeTag
  <2> HIDE DEF q
  <2>4. \A p : Fit(p) => p \in Session /\ p.mode = s.mode /\ CareOK(p) /\ Filled(p)
    BY DEF Fit
  <2> QED BY <2>1, <2>2, <2>3, <2>4, BetweenWrites
<1>7. CASE ResumeCareAfterHuman
  <2>1. s.care \in Case /\ Reached(s.care)
    BY <1>7 DEF ResumeCareAfterHuman, CareOK
  <2>2. CASE Between(DismissCare(s))
    <3>1. DismissCare(s) \in Dismissable(s)
      BY <1>7 DEF ResumeCareAfterHuman, Dismissable
    <3> Fit(DismissCare(s))
      BY <3>1, FitSession, FitDismissable
    <3>2. \A p : Fit(p) => p \in Session /\ p.mode = s.mode /\ CareOK(p) /\ Filled(p)
      BY DEF Fit
    <3> QED BY <2>2, <3>2, BetweenWrites
  <2>3. CASE Between([s EXCEPT !.care.stage = "followup", !.care.paused = FALSE,
                               !.pipe = "care"])
    <3> DEFINE c == [s.care EXCEPT !.stage = "followup", !.paused = FALSE]
               q == [s EXCEPT !.care = c, !.pipe = "care"]
    <3>1. [s EXCEPT !.care.stage = "followup", !.care.paused = FALSE,
                    !.pipe = "care"] = q
      BY DEF Session
    <3>2. c \in Case /\ Reached(c)
      BY <2>1 DEF Case, Stage, Reached
    <3> HIDE DEF c
    <3>3. q \in Session
      BY <3>2 DEF Session, PipeTag
    <3>4. /\ q.mode = s.mode /\ q.qty = s.qty /\ q.got = s.got
          /\ q.confirmed = s.confirmed /\ q.care = c
      BY DEF Session
    <3> HIDE DEF q
    <3>5. CareOK(q) /\ Filled(q)
      BY <3>2, <3>4 DEF CareOK, Filled
    <3> QED BY <2>3, <3>1, <3>3, <3>4, <3>5, BetweenWrites
  <2>4. CASE Between([s EXCEPT !.care.paused = TRUE])
    <3> DEFINE c == [s.care EXCEPT !.paused = TRUE]
               q == [s EXCEPT !.care = c]
    <3>1. [s EXCEPT !.care.paused = TRUE] = q
      BY DEF Session
    <3>2. c \in Case /\ c.issue = s.care.issue /\ c.stage = s.care.stage
          /\ c.facts = s.care.facts
      BY <2>1 DEF Case
    <3> HIDE DEF c
    <3>3. Reached(c)
      BY <2>1, <3>2 DEF Reached
    <3>4. q \in Session
      BY <3>2 DEF Session
    <3>5. /\ q.mode = s.mode /\ q.qty = s.qty /\ q.got = s.got
          /\ q.confirmed = s.confirmed /\ q.care = c
      BY DEF Session
    <3> HIDE DEF q
    <3>6. CareOK(q) /\ Filled(q)
      BY <3>2, <3>3, <3>5 DEF CareOK, Filled
    <3> QED BY <2>4, <3>1, <3>4, <3>5, <3>6, BetweenWrites
  <2> QED BY <1>7, <2>2, <2>3, <2>4 DEF ResumeCareAfterHuman
<1>8. CASE UNCHANGED vars
  <2>1. UNCHANGED <<s, ctx, row, answered, turns>>
    BY <1>8 DEF vars
  <2>2. ChatTypeOK'
    BY <2>1 DEF ChatInv, ChatTypeOK
  <2> QED BY <2>1, <2>2 DEF ChatInv, CareOK, Filled
<1> QED
  BY <1>1, <1>2, <1>3, <1>4, <1>5, <1>6, <1>7, <1>8 DEF Next

-----------------------------------------------------------------------------
(* Theorems *)

\* Every part of the state keeps its type, every case has come along its path,
\* and nothing is confirmed that is not filled.
THEOREM ChatInvariant == Spec => []ChatInv
<1>1. Init => ChatInv
  BY ChatFlowAssumption, ChatInit
<1>2. ChatInv /\ [Next]_vars => ChatInv'
  BY ChatFlowAssumption, ChatStep
<1> QED BY <1>1, <1>2, PTL DEF Spec

\* The session of demoChat.ts stays within its types through every branch.
THEOREM ChatTypeCorrect == Spec => []ChatTypeOK
<1>1. ChatInv => ChatTypeOK
  BY DEF ChatInv
<1> QED BY <1>1, ChatInvariant, PTL

\* A case that waits for a person has the papers that person decides by
\* (startCareFlow and advanceCareFlow of domain/customerCare.ts).
THEOREM PapersBeforeHandoff == Spec => []HandoffHasPapers
<1>1. ChatInv => HandoffHasPapers
  <2> SUFFICES ASSUME ChatInv, s.care # NoCase, s.care.stage = "human_review"
               PROVE  Papers(s.care.issue) \subseteq s.care.facts
    BY DEF HandoffHasPapers
  <2>1. Reached(s.care)
    BY DEF ChatInv, CareOK
  <2>2. CASE s.care.issue \in {"delivery", "complaint"}
    BY <2>2 DEF Papers
  <2>3. CASE s.care.issue \notin {"delivery", "complaint"}
    BY <2>1, <2>3 DEF Reached
  <2> QED BY <2>2, <2>3
<1> QED BY <1>1, ChatInvariant, PTL

\* An order that counts as confirmed is complete but for an address under
\* correction (customerConfirmedAt of demoChat.ts).
THEOREM ConfirmationIsFilled == Spec => []ConfirmedIsFilled
<1>1. ChatInv => ConfirmedIsFilled
  BY DEF ChatInv, Filled, ConfirmedIsFilled
<1> QED BY <1>1, ChatInvariant, PTL

\* Only a turn replies.
LEMMA RepliesCommit ==
  ASSUME ChatFlowAssumption, ChatInv, Next, Replies
  PROVE  Hears /\ Committed
<1>1. Hears /\ ctx' = "unread"
  BY DEF Replies
<1>2. CASE Turn
  BY <1>2, TurnCommits
<1>3. CASE ReadContext
  BY <1>1, <1>3 DEF ReadContext, Hears
<1>4. CASE StaffSettle
  BY <1>1, <1>4 DEF StaffSettle, Hears
<1>5. CASE FollowupSent \/ NewEpisode \/ GrantShipping \/ ResumeCareAfterHuman
  BY <1>1, <1>5 DEF FollowupSent, NewEpisode, GrantShipping, ResumeCareAfterHuman,
                    Between, Hears
<1> QED BY <1>2, <1>3, <1>4, <1>5 DEF Next

\* A turn that begins with the total of its quote ends with it
\* (reduceOrderTransaction and renderedQuote).
THEOREM QuoteSurvivesTurn == Spec => TotalIsQuoted
<1>1. ChatInv /\ [Next]_vars => [Replies /\ Quoted(s) => Quoted(s')]_vars
  <2> SUFFICES ASSUME ChatInv, Next, Replies, Quoted(s)
               PROVE  Quoted(s')
    OBVIOUS
  <2>1. Hears /\ Committed
    BY ChatFlowAssumption, RepliesCommit
  <2>2. PICK p : Fit(p) /\ (Commit(p, FALSE) \/ Commit(p, TRUE))
    BY <2>1 DEF Committed
  <2>3. s'.qty = p.qty /\ s'.fee = p.fee /\ s'.ship = p.ship
    BY <2>1, <2>2, ChatFlowAssumption, CommitWrites
  <2>4. Quoted(p)
    BY <2>2 DEF Fit
  <2> QED BY <2>3, <2>4 DEF Quoted, Fee
<1> QED BY <1>1, ChatInvariant, PTL DEF Spec, TotalIsQuoted

\* A message that is only answered leaves an order the staff still wait for as
\* it is (demoChat.ts 2271-2275).
THEOREM PendingOrderSurvives == Spec => PendingOrderIsKept
<1>1. ChatInv /\ [Next]_vars
        => [Replies /\ answered' /\ CanEdit
              => s'.confirmed # "no" /\ s'.qty = s.qty]_vars
  <2> SUFFICES ASSUME ChatInv, Next, Replies, answered', CanEdit
               PROVE  s'.confirmed # "no" /\ s'.qty = s.qty
    OBVIOUS
  <2>1. Hears /\ Committed
    BY ChatFlowAssumption, RepliesCommit
  <2>2. PICK p : Fit(p) /\ (Commit(p, FALSE) \/ (Keeps(p) /\ Commit(p, TRUE)))
    BY <2>1 DEF Committed
  <2>3. ~Commit(p, FALSE)
    BY DEF Commit
  <2>4. Keeps(p) /\ Commit(p, TRUE)
    BY <2>2, <2>3
  <2>5. s'.qty = p.qty /\ (p.confirmed # "no" => s'.confirmed # "no")
    BY <2>1, <2>2, <2>4, ChatFlowAssumption, CommitWrites
  <2> QED BY <2>4, <2>5 DEF Keeps
<1> QED BY <1>1, ChatInvariant, PTL DEF Spec, PendingOrderIsKept
=============================================================================
