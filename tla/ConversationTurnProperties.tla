--------------------- MODULE ConversationTurnProperties ---------------------
(***************************************************************************)
(* What ConversationTurn promises: invariants, action properties, liveness.*)
(***************************************************************************)
EXTENDS ConversationTurn

\* The cursor stored in the outbox is never ahead of Meta: every part it counts
\* was accepted, so a resumed turn loses none (dispatchOutbound).
CursorMatchesMeta ==
  \A e \in Event : \A p \in 1..outbox[e].sent : accepted[e][p] > 0

\* Meta gets a part again only if something failed meanwhile: each crash, failed
\* call or expired lease accounts for one copy at most.  And once the conversation
\* has moved past a reply's version (takeover or another turn), each worker that
\* could hold the turn sends one more part at most, the one it had checked before
\* (canDispatchConversationOutbound, then sendText in dispatchOutbound).
DuplicatesArePaidFor ==
  \A e \in Event :
    /\ \A p \in 1..MaxParts : accepted[e][p] <= 1 + faults + stalls
    /\ Cardinality(late[e]) <= 1 + stalls

\* No customer hears of a confirmed order that the order inbox does not hold, a
\* resumed turn included (pushCreatedOrder before dispatchOutbound).
OrderBeforeReply ==
  \A e \in Event : (outbox[e].order # 0 /\ accepted[e][1] > 0)
                     => outbox[e].order \in inbox

\* The queue forgets a customer message only after processed_at is set
\* (markProcessed, commitConversationTurn, then acknowledge), with one exception:
\* a text in the batch of an image, which the hand-over answers without marking it.
NoSilentAck ==
  \A e \in Content : stage[e] = "acked" =>
    e \in processed \/ \E t \in Event : e \in served[t] \ Images /\ outbox[t].ack

\* Bot turns never take a conversation back from staff, whether an echo or the
\* hand-over of an image gave it to them: the swap on state_version, the owner
\* check and the conflict retry see every change of owner.
HumanKeepsConversation ==
  [][conv.human = "human" => conv'.human = "human"]_vars

\* The stored cursor of a reply only advances, and a reply whose outcome is unknown
\* gets no further part, whoever retries, crashes or resumes.  Only a holder that
\* outlived its lease may be past the check, or write an older cursor
\* (deliveryUnknownPartIndex in processBatch, markConversationTurnOutboundSent).
UnknownNeverResent ==
  [][stalls = 0 => \A e \in Event :
       /\ outbox'[e].sent >= outbox[e].sent
       /\ outbox[e].unknown => accepted'[e] = accepted[e]]_vars

\* An event on the stream is settled unless a later event came: retries are
\* bounded, leases of dead workers end, and superseding needs a newer message.
LatestEventSettles ==
  \A e \in Event :
    stage[e] = "live" ~> (stage[e] \in {"acked", "dead"} \/ ingested > e)

Delivery == INSTANCE ReplyDelivery WITH
  Turns  <- Event,
  parts  <- [e \in Event |-> outbox[e].parts],
  copies <- accepted,
  halted <- [e \in Event |-> outbox[e].unknown
               \/ \E w \in Workers : pc[w] = "unknown" /\ turn[w] = e]

\* With no failure but those Meta reports, committed replies are delivered as
\* ReplyDelivery says: in order, each part once, none after one in doubt.
DeliversReplies == Delivery!Spec

=============================================================================
