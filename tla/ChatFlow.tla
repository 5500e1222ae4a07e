------------------------------- MODULE ChatFlow ------------------------------
(***************************************************************************)
(* The turns of one conversation in DemoChatService (services/demoChat.ts) *)
(* and the order the staff see in the order inbox.                         *)
(*                                                                         *)
(* chat() is some ninety branches tried in order.  What makes it take one  *)
(* is mostly the text of the message, which is the customer's choice; a    *)
(* branch is an alternative below, with the conditions the session puts    *)
(* on it and what it does to the session.  Branches that do the same are   *)
(* one alternative.  A turn reads whether the order may still be edited    *)
(* (canEditPending), composes its answer, and pushes the order to the      *)
(* inbox; meanwhile the staff go on working.                               *)
(*                                                                         *)
(* Left out: the wording of replies, the consultation slots and questions, *)
(* the facts remembered about the customer, orderCollectionPaused (it      *)
(* words replies), orderId (nothing of the chat sets it), and the offers   *)
(* that are only answered (usage, price, legal papers).  Stages are merged *)
(* where the branches hardly tell them apart: "1" stands for 0 and 1, "2"  *)
(* for 2, N and R, "4" for 3 and 4, "care" for C0, C1, C2 and C4.          *)
(***************************************************************************)
EXTENDS CareCase, FiniteSets

CONSTANTS
  Fields,     \* delivery data an order needs: recipient, address, phone
  Issues,     \* the care issues of the customers
  Modes,      \* orderConfirmationMode: "inbox" on Messenger, "sandbox" in the
              \* demo of the dashboard
  MaxTurns    \* bound: the messages of a conversation in each mode

ASSUME ChatFlowAssumption ==
  /\ {"recipient", "address"} \subseteq Fields
  /\ Issues \subseteq Issue
  /\ Modes \subseteq {"inbox", "sandbox"}
  /\ MaxTurns \in [Modes -> Nat]

VARIABLES
  s,        \* the session
  ctx,      \* orderEditable as the turn read it, "unread" between turns
  row,      \* the row of order_inbox with the latest confirmation
  answered, \* the last turn only answered a question
  turns     \* the messages so far

vars == <<s, ctx, row, answered, turns>>

PipeTag == {"1", "2", "4", "5", "6", "7", "care", "C3"}
Quantity == 1 .. 2     \* one bottle pays shipping; from two it is free

Session ==
  [mode : Modes, pipe : PipeTag,
   prev : PipeTag \cup {"-"},                  \* previousSalesPipeline
   handoff : {"-", "wholesale", "review"},     \* manualHandoffReason
   qty : {0} \cup Quantity, got : SUBSET Fields,
   confirmed : {"no", "new", "pushed"},        \* customerConfirmedAt
   fee : 0 .. 1,                               \* shipping in order.totalVnd
   ship : BOOLEAN,                             \* freeShippingApproved
   pending : {"-", "quantity", "confirm"},  \* pendingOffer
   opted : BOOLEAN, editable : {"unset", "yes", "no"},
   care : Case \cup {NoCase}, fresh : BOOLEAN]  \* fresh: messages = 0

NewSession(mode) ==
  [mode |-> mode, pipe |-> "1", prev |-> "-", handoff |-> "-", qty |-> 0,
   got |-> {}, confirmed |-> "no", fee |-> 0, ship |-> FALSE, pending |-> "-",
   opted |-> FALSE, editable |-> "unset", care |-> NoCase, fresh |-> TRUE]

Init ==
  /\ \E mode \in Modes : s = NewSession(mode)
  /\ ctx = "unread" /\ row = "none" /\ answered = FALSE /\ turns = 0

-----------------------------------------------------------------------------
(* The order of the session: domain/conversationTransaction.ts *)

\* orderHasAllFields.
Complete(p) == p.qty > 0 /\ Fields \subseteq p.got

\* renderedQuote: shipping is charged for one bottle unless it was approved.
Fee(p, q) == IF q = 1 /\ ~p.ship THEN 1 ELSE 0

\* The mutations of one transaction: the quantity set (0: none), the fields
\* recorded, those whose new value is only a part of one, and the confirmation.
NoMutation == [qty |-> 0, set |-> {}, drop |-> {}, confirm |-> FALSE]

\* reduceOrderTransaction, the only writer of the order: a quantity is stored
\* with its total, a replaced field with the value it is replaced by.
ReduceOrderTransaction(p, m, total) ==
  [p EXCEPT !.qty = IF m.qty = 0 THEN @ ELSE m.qty,
            !.fee = IF m.qty = 0 THEN @ ELSE total,
            !.got = (@ \ m.drop) \cup m.set,
            !.confirmed = IF m.confirm THEN "new" ELSE @]

\* commitOrderMutations: the total is the one the quote of the session shows.
CommitOrderMutations(p, m) == ReduceOrderTransaction(p, m, Fee(p, m.qty))

\* Mutant of SelectQuantity: the total is left as it was.
SelectCountOnly(p, q) == [p EXCEPT !.qty = q]

SelectQuantity(p, q) == CommitOrderMutations(p, [NoMutation EXCEPT !.qty = q])

ApproveSingleShipping(p) ==
  LET a == [p EXCEPT !.ship = TRUE]
  IN  IF p.qty = 1 THEN SelectQuantity(a, 1) ELSE a

\* Mutant of ClearOrderDraft: the confirmation stays.
ClearQuantityOnly(p) ==
  [p EXCEPT !.qty = 0, !.got = {}, !.fee = 0, !.ship = FALSE, !.pending = "-"]

\* clearOrderDraft; orderEditable stays.
ClearOrderDraft(p) ==
  [p EXCEPT !.qty = 0, !.got = {}, !.confirmed = "no", !.fee = 0,
            !.ship = FALSE, !.pending = "-"]

\* commitLegacyAddress: what is appended may complete the address; what
\* replaces it may also be a part of one.
CommitLegacyAddress(p, operation) ==
  {p, CommitOrderMutations(p, [NoMutation EXCEPT !.set = {"address"}])}
  \cup IF operation = "append" THEN {}
       ELSE {CommitOrderMutations(p, [NoMutation EXCEPT !.drop = {"address"}])}

\* The customer's name and number, in any combination.
Recorded(p, fields) ==
  {CommitOrderMutations(p, [NoMutation EXCEPT !.set = f]) :
     f \in SUBSET (fields \ {"address"})}

\* The delivery data of a session with none but these, as operators change it.
Draft(got) == [NewSession("inbox") EXCEPT !.got = got]

\* mergeOrderData: everything the message says of the delivery; an earlier
\* address it refers to, or a new one, replaces the address.  It changes nothing
\* else of the session.
MergedData ==
  [got \in SUBSET Fields |->
     {m.got : m \in UNION {CommitLegacyAddress(q, "replace") :
                              q \in Recorded(Draft(got), Fields)}}]
MergeOrderData(p) == {[p EXCEPT !.got = g] : g \in MergedData[p.got]}

\* mergeRetailEscapeOrderData, then the destination of the message.
MergeRetailEscapeOrderData(p) ==
  UNION {CommitLegacyAddress(q, "append") :
           q \in Recorded(p, Fields \cap {"phone"})}

Confirm(p) ==
  [CommitOrderMutations(p, [NoMutation EXCEPT !.confirm = TRUE])
     EXCEPT !.pending = "-"]

\* receiveCompleteInboxOrder: the first confirmation is kept.
Receive(p) ==
  [(IF p.confirmed = "no" THEN Confirm(p) ELSE p)
     EXCEPT !.pending = "-", !.pipe = "6", !.editable = "yes"]

\* applyProfileRecipientFallback: the profile's name, when it looks like one.
WithProfileName(p) ==
  {p} \cup IF p.qty = 0 THEN {} ELSE {[p EXCEPT !.got = @ \cup {"recipient"}]}

\* orderCollectionReply: a complete order is received; until then the reply
\* asks for the rest.
OrderCollectionReply(p) ==
  {IF Complete(n) /\ n.mode = "inbox" THEN Receive(n) ELSE n :
     n \in WithProfileName(p)}

\* ... with the message at hand, a question about the total or a note for the
\* courier is answered first.
CollectWith(p) ==
  LET q == IF Complete(p) THEN [p EXCEPT !.pending = "confirm"] ELSE p
  IN  OrderCollectionReply(q) \cup {n \in WithProfileName(q) : Complete(n)}

\* ... and with the data of the message merged first.
MergeAndCollect(p) == UNION {CollectWith(m) : m \in MergeOrderData(p)}

-----------------------------------------------------------------------------
(* Handing over to a person and coming back *)

\* pauseForHumanReview.
PauseForHumanReview(p, why) ==
  [p EXCEPT !.prev = p.pipe, !.pipe = "C3", !.handoff = why]

\* replaceLatestAssistantTurnsAndPauseForCoverage: the answer leaves a question
\* open, the conversation waits for a person with the order it has.
PauseForCoverage(p) == PauseForHumanReview([p EXCEPT !.pending = "-"], "review")

Before(p) == IF p.prev = "-" THEN "2" ELSE p.prev

ResumeAfterSoftHandoff(p) ==
  IF p.handoff # "-" /\ p.pipe = "C3"
    THEN [p EXCEPT !.pipe = Before(p), !.prev = "-", !.handoff = "-"]
    ELSE p

\* lockBoundaryDecision.
LockBoundary(p) ==
  IF p.handoff = "-" THEN p
  ELSE [p EXCEPT !.pipe = IF @ = "C3" THEN Before(p) ELSE @,
                 !.prev = "-", !.handoff = "-"]

\* dismissMisattributedCare, where the message shows the case to be another
\* person's or product's.
DismissCare(p) ==
  [p EXCEPT !.care = NoCase, !.pipe = Before(p), !.prev = "-"]
Dismissable(p) == IF p.care = NoCase THEN {p} ELSE {p, DismissCare(p)}

-----------------------------------------------------------------------------
(* What every turn does first *)

\* applyChatContext; the answer to a follow-up carries its free shipping.
Greeted ==
  LET a == [s EXCEPT !.editable = IF ctx = "unset" THEN @ ELSE ctx]
  IN  IF a.pipe = "7" THEN ApproveSingleShipping(a) ELSE a

\* canEditCreatedInboxOrder and orderMutationAllowed, as the turn begins.
CanEdit ==
  Greeted.mode = "inbox" /\ Greeted.editable = "yes" /\ Greeted.confirmed # "no"
Allowed == Greeted.pipe # "6" \/ CanEdit

\* move("first_reply"): the first message of an episode is classified.
Counted == IF Greeted.fresh
             THEN [Greeted EXCEPT !.fresh = FALSE, !.pipe = "1"] ELSE Greeted

\* observeGlobalEntities: what the parsers find, on a projection of the session;
\* an address is replaced by the destination named, or completed.
ObserveGlobalEntities(p) ==
  UNION {CommitLegacyAddress(q, op) :
           q \in Recorded(p, Fields), op \in {"replace", "append"}}

\* commitReconciledObservations: the session takes the changes of the projection
\* o, but for the fields the language model read itself.
CommitReconciledObservations(p, o) ==
  {CommitOrderMutations(p, [NoMutation EXCEPT !.set = o.got \ owned,
                                              !.drop = (p.got \ o.got) \ owned]) :
     owned \in SUBSET Fields}

\* applySemanticOrderUpdates: what it read, once validated; the address replaces
\* one only when there is none or the message says that it changes.
ApplySemanticOrderUpdates(p) ==
  LET op == IF "address" \in p.got THEN {"append", "replace"} ELSE {"replace"}
  IN  UNION {CommitLegacyAddress(q, o) : q \in Recorded(p, Fields), o \in op}

\* What the message says of the delivery, for each of the data there may be
\* already; it changes nothing else of the session.
ObservedData ==
  [got \in SUBSET Fields |->
     LET p == Draft(got)
     IN  {r.got : r \in UNION {ApplySemanticOrderUpdates(q) :
            q \in UNION {CommitReconciledObservations(p, o) :
                           o \in ObserveGlobalEntities(p)}}}]
Observed(p) ==
  IF Allowed THEN {[p EXCEPT !.got = g] : g \in ObservedData[p.got]} ELSE {p}

Noticed == Dismissable(Counted)
Heard == UNION {Observed(p) : p \in Noticed}

\* Past the care branches: writing again lifts an opt-out, and a question put
\* to a person no longer holds the conversation.
Past(p) ==
  ResumeAfterSoftHandoff(
    IF p.opted THEN [p EXCEPT !.opted = FALSE, !.pipe = "1"] ELSE p)
Sales == {Past(p) : p \in Heard}
OrderPipe == IF CanEdit THEN "6" ELSE "5"
Classified(p) == IF p.pipe = "1" THEN [p EXCEPT !.pipe = "2"] ELSE p

\* pushCreatedOrder: the row of this confirmation is made, or updated while it
\* is open.
Pushes(p) == p.mode = "inbox" /\ p.pipe = "6" /\ p.confirmed # "no"

\* respond, commit and push.  Once the inbox has a row every context sets
\* orderEditable: it is not kept then.
Commit(p, answer) ==
  /\ row' = IF Pushes(p) /\ p.confirmed = "new" THEN "pending" ELSE row
  /\ s' = [p EXCEPT !.confirmed = IF Pushes(p) THEN "pushed" ELSE @,
                     !.editable = IF row' = "none" THEN @ ELSE "unset"]
  /\ answered' = answer
  /\ ctx' = "unread"
  /\ UNCHANGED turns

\* The turn acts on the order, or only answers; either may leave a question of
\* the message open.
Acts(p) == Commit(p, FALSE) \/ Commit(PauseForCoverage(p), FALSE)
Answers(p) == Commit(p, TRUE) \/ Commit(PauseForCoverage(p), TRUE)

\* In a turn: the context has been read.
Hears == ctx # "unread"

-----------------------------------------------------------------------------
(* The branches before and at customer care; their replies are final *)

\* The customer asks to start again: a new session; it knows no mode until the
\* next message, and no branch runs before that.
Reset == Hears /\ Commit(NewSession(s.mode), FALSE)

\* chat() gave up: recoverFailedTurn restores the session of before the turn.
TurnFails ==
  /\ Hears
  /\ Commit([s EXCEPT !.editable = IF ctx = "unset" THEN @ ELSE ctx,
                      !.fresh = FALSE], TRUE)

\* A purchase on the condition that nothing itches starts the draft over; a
\* quantity in the same message may be taken up by the last branches.
ConditionalPurchase ==
  /\ Hears
  /\ \E q \in MergeOrderData([ClearOrderDraft(Counted) EXCEPT !.pipe = "4"]) :
       \/ Acts(Past(q))
       \/ \E n \in Quantity :
            \E r \in OrderCollectionReply(
                       [SelectQuantity(Past(q), n) EXCEPT !.pipe = "5"]) : Acts(r)

\* Thanks, sensitive skin, another brand, fabric, a rumour, someone else's data.
Boundary ==
  /\ Hears
  /\ \E p \in Heard : \E to \in {p.pipe, "2", "4"} :
       Commit(LockBoundary([p EXCEPT !.pipe = to]), TRUE)

\* A quote for several addresses.
SplitShipment ==
  /\ Hears
  /\ \E p \in Noticed :
       Commit(LockBoundary([p EXCEPT !.pipe = "4", !.pending = "-"]), TRUE)

\* The order is read back with a correction in the same message: this branch
\* does not look at orderMutationAllowed.
RecapWithCorrection ==
  /\ Hears
  /\ \E p \in Heard :
       \E q \in {p} \cup {[SelectQuantity(p, n) EXCEPT !.pipe = "5"] : n \in Quantity} :
         \E city \in BOOLEAN :
           Commit(LockBoundary([q EXCEPT !.got =
                    IF city THEN @ \ {"address"} ELSE @]), FALSE)

\* What the fact ledger knows is answered from it.
FactLedger ==
  Hears /\ \E p \in Heard : \E q \in Dismissable(p) : Answers(q)

\* The open case goes on, unless the message asks about something else: then
\* the branches below answer it, and the case stays as it is.
ActiveCare ==
  /\ Hears
  /\ \E p \in Heard :
       /\ p.care # NoCase
       /\ \E c \in AdvanceCareFlow(p.care) :
            Commit([p EXCEPT !.care = c, !.pipe = CarePipe(c)], FALSE)

\* An incident opens a case; what of the message no source answers goes to a
\* person as well.
StartCare ==
  /\ Hears
  /\ \E p \in Heard, i \in Issues : \E c \in StartCareFlow(i) :
       LET q == [p EXCEPT !.prev = p.pipe, !.care = c,
                   !.pipe = CarePipe(c),
                   !.pending = IF i = "complaint" THEN "-" ELSE @]
       IN  \/ Commit(q, FALSE)
           \/ i # "complaint" /\ Commit(PauseForHumanReview(q, "review"), FALSE)

-----------------------------------------------------------------------------
(* The branches that act on the order *)

Cancellation ==
  Hears /\ \E p \in Heard : Acts([ClearOrderDraft(p) EXCEPT !.pipe = "2"])
OptOut ==
  /\ Hears
  /\ \E p \in Heard :
       Acts([ClearOrderDraft(p) EXCEPT !.pipe = "2", !.opted = TRUE])

\* Another quantity: the last of several, or an operation on the one it has.
ChangeQuantity ==
  /\ Hears /\ Allowed
  /\ \E p \in Sales, n \in Quantity :
       LET q == [SelectQuantity(p, n) EXCEPT !.pipe = OrderPipe]
       IN  \/ Acts(q)
           \/ p.qty > 0 /\ \E r \in OrderCollectionReply(q) : Acts(r)

\* The order is read back, with a new quantity or without.
OrderRecap ==
  /\ Hears /\ Allowed
  /\ \E p \in Sales :
       /\ p.qty > 0
       /\ \E q \in {p} \cup {SelectQuantity(p, n) : n \in Quantity} :
            \E r \in MergeAndCollect(q) : Acts(r)

\* An earlier address is taken again.
RestoreAddress ==
  /\ Hears /\ Allowed
  /\ \E p \in Sales :
       /\ p.qty > 0
       /\ LET a == [p EXCEPT !.got = @ \cup {"address"}, !.pipe = OrderPipe]
              q == IF Complete(a) THEN [a EXCEPT !.pending = "confirm"] ELSE a
          IN  \E r \in OrderCollectionReply(q) : Acts(r)

\* Nothing but delivery data.
RecordData ==
  /\ Hears /\ Allowed
  /\ \E p \in Sales :
       /\ p.qty > 0
       /\ \E r \in CollectWith([p EXCEPT !.pipe = OrderPipe]) : Acts(r)

\* The retail order goes on after a wholesale question: it is confirmed now.
ResumeRetail ==
  /\ Hears
  /\ \E p \in Sales :
       Complete(p) /\ Acts([Confirm(p) EXCEPT !.pipe = "6"])

\* A customer handed over for a wholesale quantity settles for a retail order.
RetailEscape ==
  /\ Hears /\ s.handoff = "wholesale"
  /\ \E p \in Sales, n \in Quantity :
       \E m \in MergeRetailEscapeOrderData(SelectQuantity(ClearOrderDraft(p), n)) :
         \E r \in OrderCollectionReply([m EXCEPT !.pipe = "5"]) : Acts(r)

-----------------------------------------------------------------------------
(* Handing over, whatever the order's state *)

\* Also with a quantity beside the question, which is selected first.
HandsOver(p, why) ==
  \/ Acts(PauseForHumanReview(p, why))
  \/ \E n \in Quantity :
       Acts(PauseForHumanReview([SelectQuantity(p, n) EXCEPT !.pipe = "5"], why))

\* Express delivery or a shop: answered.  Abroad: a person prices it.
Shipping ==
  Hears /\ \E p \in Sales : Answers(p) \/ HandsOver(p, "review")

\* The language model did not answer: what the approved fallback knows, the
\* quantity if it is certain, or a person.
ModelFailed ==
  /\ Hears
  /\ \E p \in Sales :
       \/ HandsOver(p, "review")
       \/ Answers(Classified(p))
       \/ \E n \in Quantity : Acts([SelectQuantity(p, n) EXCEPT !.pipe = "5"])

\* More than five bottles.
BulkQuantity ==
  Hears /\ \E p \in Sales : Acts(PauseForHumanReview(p, "wholesale"))

\* Known topics are answered, the rest of the message goes to a person.
AnswerAndHandOver ==
  /\ Hears
  /\ \E p \in Sales : Answers(p) \/ HandsOver(p, "review")

-----------------------------------------------------------------------------
(* Answers known before any routing *)

\* showPrice: asks for the quantity, or first for the symptom.
ShowPrice(p) ==
  {[p EXCEPT !.pipe = "4", !.pending = q] : q \in {"quantity", "-"}}

PricePolicy ==
  Hears /\ \E p \in Sales : \E q \in ShowPrice(p) : Answers(q)
PolicyAnswer ==
  /\ Hears
  /\ \E p \in Sales : \E q \in {p, Classified(p), [p EXCEPT !.pipe = "2"]} :
       Answers(q)
AgeAnswer ==
  /\ Hears
  /\ \E p \in Sales :
       \E q \in {p, [p EXCEPT !.pipe = "2"]} :
         Answers(q)
OpeningChoice ==
  /\ Hears
  /\ \E p \in Sales : \E q \in {p, Classified(p)} \cup ShowPrice(p) : Answers(q)

\* A recommended quantity is selected when the customer takes it.
Recommend ==
  /\ Hears
  /\ \E p \in Sales :
       \/ Answers(p)
       \/ /\ p.qty = 0
          /\ \E n \in Quantity : Acts([SelectQuantity(p, n) EXCEPT !.pipe = "5"])

\* The approved answer, or the one question that settles a contradiction.
ApprovedAnswer ==
  Hears /\ \E p \in Sales : Answers(p) \/ Answers(Classified(p))

-----------------------------------------------------------------------------
(* The actions the language model proposed, and the offer that is open *)

\* A quantity, alone or beside a question; negotiated, shipping is free.
QuantityAction ==
  /\ Hears /\ Allowed
  /\ \E p \in Sales, n \in Quantity :
       LET a == {[q EXCEPT !.pending = "-"] : q \in {p, ApproveSingleShipping(p)}}
           b == {[SelectQuantity(q, n) EXCEPT !.pipe = IF CanEdit THEN @ ELSE "5"] :
                   q \in a}
       IN  \E r \in b \cup UNION {MergeAndCollect(q) : q \in b} : Acts(r)

AskQuantity ==
  /\ Hears /\ Allowed
  /\ \E p \in Sales :
       p.qty = 0 /\ Acts([p EXCEPT !.pending = "quantity"])

\* A new quantity and address beside a question about the delivery.
CompoundUpdate ==
  /\ Hears /\ Allowed
  /\ \E p \in Sales, n \in Quantity :
       /\ p.qty > 0
       /\ \E q \in MergeOrderData(SelectQuantity([p EXCEPT !.pending = "-"], n)) :
            Acts([q EXCEPT !.pipe = OrderPipe])

\* The customer takes up what was offered, or is asked for it again.
TakeOffer ==
  /\ Hears
  /\ \E p \in Sales :
       \/ /\ p.pending = "-"
          /\ \E q \in {p, [p EXCEPT !.pipe = "2"]} \cup ShowPrice(p) : Answers(q)
       \/ p.pending # "-" /\ Answers(p)

Opening ==
  /\ Hears
  /\ \E p \in Sales : \E q \in {p, Classified(p)} \cup ShowPrice(p) : Answers(q)

\* The customer says that the complete order is right: it is confirmed now.
\* Whether it had been confirmed before is not asked, only where the sale is.
ConfirmOrder ==
  /\ Hears
  /\ \E p \in Sales :
       /\ Counted.pipe # "6" /\ Complete(p)
       /\ Acts([Confirm(p) EXCEPT !.pipe = "6"])

\* Delivery data, or a message that was meant to be.
OrderCollection ==
  /\ Hears /\ Allowed
  /\ \E p \in Sales :
       /\ p.qty > 0
       /\ LET q == [p EXCEPT !.pipe = OrderPipe]
          IN  Acts(q) \/ \E r \in MergeAndCollect(q) : Acts(r)

\* A quantity after a price.
QuantityAfterPrice ==
  /\ Hears
  /\ \E p \in Sales, n \in Quantity :
       LET a == {[q EXCEPT !.pending = "-"] : q \in {p, ApproveSingleShipping(p)}}
           b == {[SelectQuantity(q, n) EXCEPT !.pipe = "5"] : q \in a}
       IN  /\ p.pipe \in {"4", "7"} \/ p.pending = "quantity"
           /\ \E r \in b \cup UNION {MergeAndCollect(q) : q \in b} : Acts(r)

-----------------------------------------------------------------------------
(* The message is about something else than a created order *)

\* Mutant of Detach: the draft is discarded, editable or not.
DetachAll(p) ==
  IF p.pipe # "6" THEN p
  ELSE [ClearOrderDraft(p) EXCEPT !.pipe = "1", !.editable = "unset"]

\* While the order may be edited it is parked; afterwards the session starts a
\* new one.
Detach(p) ==
  IF p.pipe # "6" THEN p
  ELSE IF CanEdit THEN [p EXCEPT !.pipe = "4", !.pending = "-"]
  ELSE [ClearOrderDraft(p) EXCEPT !.pipe = "1", !.editable = "unset"]

Other == {Detach(p) : p \in Sales}

\* The message is about the created order, or buys another one.
AboutOrder ==
  /\ Hears
  /\ \E p \in Sales :
       /\ p.pipe = "6"
       /\ \/ Acts(p)
          \/ Acts([ClearOrderDraft(p) EXCEPT !.pipe = "4", !.pending = "quantity"])

Greeting == Hears /\ ~Counted.fresh /\ \E p \in Other : Answers(p)

ResumeBuying ==
  /\ Hears
  /\ \E p \in Other :
       /\ p.qty > 0
       /\ LET q == [p EXCEPT !.pipe = "5"]
          IN  IF Complete(q)
                THEN \E r \in OrderCollectionReply([q EXCEPT !.pending = "confirm"]) :
                       Acts(r)
                ELSE Acts(q)

\* A question outside the shop, with part of an order in it.
BotIdentity ==
  /\ Hears
  /\ \E p \in Other :
       \/ Answers(p)
       \/ \E q \in {p} \cup {SelectQuantity(p, n) : n \in Quantity} :
            \E r \in UNION {OrderCollectionReply(a) : a \in
                       CommitLegacyAddress([q EXCEPT !.pipe = "5"], "append")} :
              Acts(r)

\* An unverified promotion or question goes to a person.
Unverified ==
  /\ Hears
  /\ \E p \in Other :
       \/ Acts(PauseForHumanReview(p, "review"))
       \/ Answers(p)
       \/ \E q \in ShowPrice(p) : Answers(q)

\* The price changed, free shipping is negotiated, the price is asked.
PriceTalk ==
  /\ Hears
  /\ \E p \in Other :
       \/ Answers([p EXCEPT !.pipe = "4", !.pending = "-"])
       \/ Acts([ApproveSingleShipping(p) EXCEPT !.pipe = "4"])
       \/ \E q \in ShowPrice(p) : Answers(q)

\* Returns, a dealer's questions, a known allergy.
Terms ==
  /\ Hears
  /\ \E p \in Other :
       \/ Answers(p)
       \/ \E why \in {"wholesale", "review"} : Acts(PauseForHumanReview(p, why))

\* Safety, efficacy, comparison, authenticity.
Product ==
  /\ Hears
  /\ \E p \in Other :
       \/ \E o \in {p.pending, "-"} :
            Answers([Classified(p) EXCEPT !.pending = o])
       \/ Answers([p EXCEPT !.pipe = "4", !.pending = "-"])

\* Effect and use.
Usage ==
  /\ Hears
  /\ \E p \in Other : \E q \in {p, Classified(p), [p EXCEPT !.pipe = "2"]} :
       Answers(q)

\* Not now, or no.
Decline ==
  /\ Hears
  /\ \E p \in Other :
       \/ Answers([p EXCEPT !.pipe = "2"])
       \/ Acts([ClearOrderDraft(p) EXCEPT !.pipe = "2"])

PriceObjection ==
  /\ Hears
  /\ \E p \in Other :
       \E q \in {p, [p EXCEPT !.pipe = "4"]} \cup ShowPrice(p) : Answers(q)

\* The quantity the keywords find when nothing else took the message.
BuyNow ==
  /\ Hears
  /\ \E p \in Other, n \in Quantity :
       \E r \in UNION {OrderCollectionReply(q) : q \in
                  MergeOrderData([SelectQuantity(p, n) EXCEPT !.pipe = "5"])} :
         Acts(r)

\* The consultation goes on; a price or a follow-up has been answered.
Discover ==
  /\ Hears
  /\ \E p \in Other, o \in {"-", "quantity", "confirm"} :
       /\ o \in {p.pending, "-"}
       /\ \E to \in CASE p.pipe = "4" -> {"2", "4"} [] p.pipe = "7" -> {"4"}
                     [] p.pipe = "1" -> {"1", "2"} [] OTHER -> {p.pipe} :
            Answers([p EXCEPT !.pending = o, !.pipe = to])

-----------------------------------------------------------------------------
(* Beside the turns *)

\* canEditPending, of the latest confirmation.
CanEditPending ==
  CASE row = "none" -> "unset" [] row = "pending" -> "yes" [] OTHER -> "no"

\* A turn begins: its context says whether the order may still be edited.
ReadContext ==
  /\ ctx = "unread" /\ turns < MaxTurns[s.mode]
  /\ turns' = turns + 1
  /\ ctx' = IF s.mode = "inbox" THEN CanEditPending ELSE "unset"
  /\ answered' = FALSE
  /\ UNCHANGED <<s, row>>

\* The staff enter the tracking number, or cancel the order.
StaffSettle ==
  /\ row = "pending" /\ row' \in {"tracked", "cancelled"}
  /\ UNCHANGED <<s, ctx, answered, turns>>

Between(p) ==
  /\ ctx = "unread"
  /\ s' = p
  /\ UNCHANGED <<ctx, row, answered, turns>>

\* FollowupRepository.markSent: the follow-up promised free shipping; after the
\* last one the customer is left alone.
FollowupSent ==
  /\ s.mode = "inbox"
  /\ \E to \in {"7", "2"} : Between([s EXCEPT !.ship = TRUE, !.pipe = to])

\* restoreSessionForNewEpisode, after a day of silence: the order and an open
\* case are kept, the conversation starts over.
NewEpisode ==
  /\ s.mode = "inbox"
  /\ LET f == NewSession(s.mode)
         o == [f EXCEPT !.qty = s.qty, !.got = s.got, !.confirmed = s.confirmed,
                 !.fee = s.fee, !.editable = s.editable, !.pipe = s.pipe]
         kept == IF s.qty > 0 \/ s.got # {} THEN o ELSE f
     IN  Between(IF s.care = NoCase THEN kept
                 ELSE [kept EXCEPT !.care = s.care, !.pipe = s.pipe,
                         !.prev = s.prev, !.handoff = s.handoff])

\* The dashboard's demo: an operator grants free shipping, or gives a case back.
GrantShipping ==
  /\ s.mode = "sandbox"
  /\ LET a == ApproveSingleShipping(s)
     IN  Between(IF s.qty = 0 THEN [a EXCEPT !.pipe = "4"] ELSE a)
ResumeCareAfterHuman ==
  /\ s.mode = "sandbox" /\ s.care # NoCase
  /\ \/ Between(DismissCare(s))
     \/ Between([s EXCEPT !.care.stage = "followup", !.care.paused = FALSE,
                  !.pipe = "care"])
     \/ Between([s EXCEPT !.care.paused = TRUE])

Turn ==
  \/ Reset \/ TurnFails \/ ConditionalPurchase
  \/ Boundary \/ SplitShipment \/ RecapWithCorrection \/ FactLedger
  \/ ActiveCare \/ StartCare \/ Cancellation \/ OptOut
  \/ ChangeQuantity \/ OrderRecap \/ RestoreAddress \/ RecordData
  \/ ResumeRetail \/ RetailEscape
  \/ Shipping \/ ModelFailed \/ BulkQuantity \/ AnswerAndHandOver
  \/ PricePolicy \/ PolicyAnswer \/ AgeAnswer \/ OpeningChoice \/ Recommend
  \/ ApprovedAnswer \/ QuantityAction \/ AskQuantity \/ CompoundUpdate
  \/ TakeOffer \/ Opening \/ ConfirmOrder \/ OrderCollection
  \/ QuantityAfterPrice \/ AboutOrder \/ Greeting \/ ResumeBuying
  \/ BotIdentity \/ Unverified \/ PriceTalk \/ Terms \/ Product \/ Usage
  \/ Decline \/ PriceObjection \/ BuyNow \/ Discover

Next ==
  \/ ReadContext \/ Turn
  \/ StaffSettle \/ FollowupSent \/ NewEpisode
  \/ GrantShipping \/ ResumeCareAfterHuman

Spec == Init /\ [][Next]_vars

-----------------------------------------------------------------------------
(* Properties *)

\* Every part of the state has its type.
ChatTypeOK ==
  /\ s \in Session
  /\ ctx \in {"unread", "unset", "yes", "no"}
  /\ row \in {"none", "pending", "tracked", "cancelled"}
  /\ answered \in BOOLEAN
  /\ turns \in 0 .. MaxTurns[s.mode]

\* A case waits for a person only with the papers that person decides by:
\* whatever the customer answers, repeats or adds, no stage is passed over
\* (startCareFlow, advanceCareFlow and the branches of chat() between them).
HandoffHasPapers ==
  s.care # NoCase /\ s.care.stage = "human_review"
    => Papers(s.care.issue) \subseteq s.care.facts

\* An order that counts as confirmed has a quantity and everything but the
\* address, which a correction may have left incomplete: no branch confirms or
\* keeps the confirmation of less, through clearing, replacing and refilling the
\* draft (customerConfirmedAt, demoChat.ts 7498-7521 and 8843-8995).
ConfirmedIsFilled ==
  s.confirmed # "no" => s.qty > 0 /\ Fields \ {"address"} \subseteq s.got

\* The total stored with the order is the one its quote shows.
Quoted(p) == p.qty > 0 => p.fee = Fee(p, p.qty)

Replies == Hears /\ ctx' = "unread"

\* A turn that begins with the total its quote shows ends so, whatever branches
\* select a quantity, approve free shipping or clear the draft on the way.
\* Between turns it is not kept: FollowupSent and NewEpisode change the approval
\* and leave the total.
TotalIsQuoted == [][Replies /\ Quoted(s) => Quoted(s')]_vars

\* "Do not erase a pending operational order just because the active
\* conversational goal changed" (demoChat.ts 2271-2275): a message that is only
\* answered leaves an order the staff still wait for confirmed, with its
\* quantity, also when they settle it while the turn runs.
PendingOrderIsKept ==
  [][Replies /\ answered' /\ CanEdit
       => s'.confirmed # "no" /\ s'.qty = s.qty]_vars
=============================================================================
