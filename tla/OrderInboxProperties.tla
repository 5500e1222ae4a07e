------------------------ MODULE OrderInboxProperties ------------------------
(* What the order inbox owes the customer and the staff. *)
EXTENDS OrderInbox

\* A row that is sending belongs to one request of the order page, or to one
\* that died; no two requests send a message for the same order.
ClaimHasOneOwner ==
  /\ \A c, d \in Clerks : at[c] = at[d] /\ at[c] # NoOrder => c = d
  /\ \A o \in Order : send[o] = "sending" =>
       faults > 0 \/ \E c \in Clerks : at[c] = o

\* The tracking message reaches the customer once, and again only for an
\* answer of Meta that was lost and counted as a failure.
TrackingSentOnce == \A o \in Order : accepted[o] <= 1 + lost

\* An order is completed only by a tracking message that Meta accepted, and
\* such an order is completed or was cancelled since.
CompletedIsSent ==
  \A o \in Order :
    /\ status[o] = "completed" => send[o] = "sent" /\ accepted[o] > 0
    /\ send[o] = "sent" => status[o] \in {"completed", "cancelled"}

\* A cancelled order is cancelled for good, except that a tracking message
\* which was under way, and which Meta accepted, completes it.
CancelledStays ==
  [][\A o \in Order : status[o] = "cancelled" =>
       \/ status'[o] = "cancelled"
       \/ /\ status'[o] = "completed" /\ send[o] = "sending"
          /\ accepted[o] > 0]_vars

\* A reply confirms only what the inbox holds, unless staff claimed or cancelled
\* the order in the middle of a turn: the answer of canEditPending is used after
\* the brain has run.
ToldIsRecordedUnlessRaced == \A o \in Order : told[o] <= held[o] \/ o \in raced

=============================================================================
