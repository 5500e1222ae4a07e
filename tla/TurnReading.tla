----------------------------- MODULE TurnReading -----------------------------
(***************************************************************************)
(* How one message is understood (chat() of services/demoChat.ts, lines    *)
(* 445-632 and 969-1048): the ledger records what it says, the actions are *)
(* reconciled, the turn is routed, and the ledger's own answer, a care     *)
(* case or the sale goes on.  A turn that fails leaves the ledger changed  *)
(* and is read again at the time of its message (metaInboundProcessor.ts,  *)
(* latestInboundAt).                                                       *)
(*                                                                         *)
(* The session around it is ChatFlow's: of it, only the open case is kept. *)
(* A text tells besides what ActionPlan and Routing read of it:            *)
(*   raw (the incident the patterns see), direct (the intent the rules     *)
(*   settle on), early (answered before the ledger) and interrupts (an     *)
(*   explicit question that an open case does not hold back).              *)
(***************************************************************************)
EXTENDS FactLedger, ActionPlan, Routing

CONSTANTS
  Messages,   \* what the ledger's patterns may find in a message
  Texts,      \* what the planner's patterns may find in it
  Readings,   \* what the model may make of it
  SemFacts,   \* sequences of facts the model may propose
  FirstDay, MaxDay,
  MaxTurns, MaxRetries,   \* bounds
  MaxLate                 \* how many days late a message may come

\* What the planner's patterns may find: a message that ends on a refusal has one.
Findings ==
  {x \in [explicit : Quantity \cup {"none"}, counts : SUBSET Quantity,
          declines : BOOLEAN, last : {"none", "select", "decline"},
          raw : Issue \cup {"none"}, issue : Issue \cup {"none"}, scenario : STRING,
          stop : BOOLEAN, topic : STRING, lines : SUBSET STRING, exact : STRING,
          effect : BOOLEAN, policy : STRING, otherProduct : BOOLEAN,
          conditional : BOOLEAN, collecting : BOOLEAN, early : BOOLEAN,
          interrupts : BOOLEAN, direct : STRING, hard : BOOLEAN, confirms : BOOLEAN,
          offer : STRING, affirms : BOOLEAN, data : BOOLEAN] :
     x.last = "decline" => x.declines}

Interpretation ==
  [ready : BOOLEAN, sure : BOOLEAN, intent : STRING, aftersales : BOOLEAN,
   unsupported : BOOLEAN, aside : BOOLEAN, actions : SUBSET Action,
   scenario : STRING, replyTo : STRING, doubts : BOOLEAN]

\* Day 0 is no day, and the eve of the first one is a day.
ASSUME ReadingAssumption ==
  /\ Messages \subseteq Message /\ SemFacts \subseteq Seq(SemanticFact)
  /\ Texts \subseteq Findings /\ Readings \subseteq Interpretation
  /\ FirstDay \in Nat /\ FirstDay > 1
  /\ MaxFacts \in Nat \ {0} /\ MaxDay \in Nat
  /\ MaxTurns \in Nat /\ MaxRetries \in Nat /\ MaxLate \in Nat

VARIABLES
  facts,    \* session.conversationMemory.factLedger
  day,
  turns, retries,
  message, sem, at,  \* the message being answered, its facts and its day
  step,     \* "idle", "read" (not planned for) or "planned"
  answer,   \* factResponsePlan
  plan,     \* actionPlan
  heard,    \* of the text planned for, what the properties speak of
  care      \* the issue of the open case

vars == <<facts, day, turns, retries, message, sem, at, step, answer, plan,
          heard, care>>

NoMessage == [of |-> "nobody"]
NothingHeard == [own |-> FALSE, case |-> FALSE, word |-> "none", denied |-> FALSE,
                 astray |-> FALSE, early |-> FALSE]

Init ==
  /\ facts = <<>> /\ day = FirstDay /\ turns = 0 /\ retries = 0
  /\ message = NoMessage /\ sem = <<>> /\ at = FirstDay
  /\ step = "idle" /\ answer = No /\ plan = NoPlan /\ heard = NothingHeard
  /\ care = "none"

\* The ledger takes the message in, and may have the answer.
Reads(m, fs, d) ==
  /\ facts' = Reduced(facts, m, fs, d)
  /\ answer' = FactAnswer(facts', m, Claims(m, fs))
  /\ message' = m /\ sem' = fs /\ at' = d
  /\ step' = "read" /\ plan' = NoPlan /\ heard' = NothingHeard
  /\ UNCHANGED <<day, care>>

Read ==
  /\ step = "idle" /\ turns < MaxTurns
  /\ \E m \in Messages, fs \in SemFacts, d \in (day - MaxLate)..day :
       d >= FirstDay /\ Reads(m, fs, d)
  /\ turns' = turns + 1 /\ retries' = 0

\* The turn failed after the ledger was written.
Retry ==
  /\ step # "idle" /\ retries < MaxRetries
  /\ Reads(message, sem, at)
  /\ retries' = retries + 1 /\ UNCHANGED turns

\* What the reconciler is told of the message.  A reaction the pattern detects is
\* dropped when the ledger's reading says it is not the customer's own.
Turn(x) ==
  [own |-> OwnReaction(message),
   scenario |-> IF x.raw = "irritation" THEN Scenario(message) ELSE x.scenario,
   otherProduct |-> x.otherProduct, conditional |-> x.conditional]
Detected(x) ==
  [x EXCEPT !.issue = IF x.raw = "irritation" /\ ~OwnReaction(message)
                        THEN "none" ELSE x.raw]

\* The case the turn finds open: dismissMisattributedCare, for a reaction to what
\* was used before.
Held(x) == IF x.otherProduct THEN "none" ELSE care

\* What the decision is made from.
Signals(x, s, p) ==
  [optOut |-> x.stop, activeCare |-> Held(x) # "none",
   interrupts |-> x.interrupts /\ Detected(x).issue = "none",
   issue |-> p.issue,
   scenario |-> IF Detected(x).issue = "none" THEN s.scenario ELSE Turn(x).scenario,
   confirms |-> x.confirms, offer |-> x.offer, affirms |-> x.affirms,
   replyTo |-> s.replyTo, selects |-> x.explicit # "none" \/ p.quantity # "none",
   exact |-> x.direct, hard |-> x.hard, intent |-> s.intent, ready |-> s.ready,
   doubts |-> s.doubts, collects |-> x.collecting,
   data |-> x.data /\ x.direct = "none" /\ p.issue = "none"]

\* dismissMisattributedCare, with the ledger's answer.
Dismisses == \/ answer.dismiss \/ message.of # "self"
             \/ message.product = "other_rollon"

\* The case open after the turn: an answer of the ledger's or a boundary's comes
\* before its route.
CareAfter(x, p, route) ==
  CASE x.early -> Held(x)
    [] ~x.early /\ answer # No -> IF Dismisses THEN "none" ELSE Held(x)
    [] OTHER -> IF route = "start_care" THEN p.issue ELSE Held(x)

\* The actions are reconciled and the turn takes its route.
Plan ==
  /\ step = "read"
  /\ \E x \in Texts, s \in Readings :
       \E p \in Plans(Detected(x), s, Turn(x), x.collecting) :
         /\ plan' = p
         /\ care' = CareAfter(x, p, Route(Signals(x, s, p)))
         /\ heard' = [own |-> OwnReaction(message),
                      case |-> x.raw = "irritation" /\ ~x.otherProduct,
                      word |-> x.last,
                      denied |-> \E a \in s.actions : a.type = "decline_purchase",
                      astray |-> s.aside \/ Has(s.actions, "start_customer_care"),
                      early |-> x.early \/ x.stop \/ Has(s.actions, "stop_bot")]
  /\ step' = "planned"
  /\ UNCHANGED <<facts, day, turns, retries, message, sem, at, answer>>

\* The turn is committed: what was understood is kept by the ledger and the case.
End ==
  /\ step = "planned"
  /\ step' = "idle" /\ answer' = No /\ plan' = NoPlan /\ heard' = NothingHeard
  /\ message' = NoMessage /\ sem' = <<>> /\ at' = day /\ retries' = 0
  /\ UNCHANGED <<facts, day, turns, care>>

NextDay ==
  /\ step = "idle" /\ day < MaxDay
  /\ day' = day + 1 /\ at' = day'
  /\ UNCHANGED <<facts, turns, retries, message, sem, step, answer, plan,
                 heard, care>>

Next == Read \/ Retry \/ Plan \/ End \/ NextDay

Spec == Init /\ [][Next]_vars

-----------------------------------------------------------------------------
(* Properties *)

\* A message that tells one single-valued fact in two ways: with two values, or as
\* something that is and that was.
Contradicts(m, fs) ==
  LET cs == Claims(m, fs)
  IN \E i, j \in DOMAIN cs :
       /\ cs[i].predicate \in SingleValued
       /\ cs[i].subject = cs[j].subject /\ cs[i].predicate = cs[j].predicate
       /\ ~Alike(cs[i], cs[j])

\* A message that is read again at its own time, with the same facts proposed, adds
\* nothing to the ledger (reduceConversationFactLedger, conversationFacts.ts:186; the
\* failed turn of metaInboundProcessor.ts leaves what it wrote).  One that
\* contradicts itself may turn its facts over again but ends with the same ones.  A
\* ledger that is full may lose old facts instead.
RetryIsIdempotent ==
  [][Retry => \/ facts' = facts
              \/ Contradicts(message, sem) /\ Current(facts') = Current(facts)
              \/ Len(facts') = MaxFacts]_vars

\* What a reply may say of a person holds together: no two current values of one
\* single-valued fact, and nothing that was so "today" or "yesterday" of another
\* day, whatever came late, was read again or was corrected
\* (projectMemoryForTurn, memoryProjection.ts:12).
SayableFactsAgree ==
  step # "idle" => \A f, g \in MaySay(facts, message, at) :
    /\ f.predicate \in SingleValued /\ f.predicate = g.predicate
         /\ f.current /\ g.current => f.value = g.value
    /\ f.temporal = "today" => f.day = at
    /\ f.temporal = "yesterday" => f.day = at - 1

\* A case over a reaction is opened for the customer's own and present one only; and
\* one that the patterns see is cared for, unless another rule or the ledger
\* answered first, or the model proposed a case itself or took the product for the
\* subject (demoChat.ts:547-612 and 969-1048, conversationActions.ts:141-176).
CareFollowsReaction ==
  /\ "irritation" \in plan.issues => heard.own
  /\ heard.case /\ heard.own /\ care = "none"
       => answer # No \/ heard.early \/ heard.astray

\* A customer whose last word is a refusal buys nothing, and neither does one with
\* an incident to care for, however the model reads the message, unless the model
\* itself had proposed the refusal and was not believed
\* (conversationActions.ts:418-509).
LastWordDecides ==
  plan.quantity # "none" =>
    /\ plan.issue \in {"none", "ineffective"}
    /\ ~plan.declined
    /\ heard.word = "decline" => heard.denied
=============================================================================
