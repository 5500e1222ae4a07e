----------------------------- MODULE OrderInbox -----------------------------
(***************************************************************************)
(* The orders of one Messenger conversation, from the customer's words to  *)
(* the tracking number.                                                    *)
(*                                                                         *)
(*   turns  (metaInboundProcessor.ts, demoChat.ts) ask whether the latest  *)
(*          order may still be edited, let the brain place or change an    *)
(*          order, commit the draft with the conversation, push it to the  *)
(*          inbox and then reply; one at a time, under the lease that      *)
(*          ConversationTurn has in detail;                                *)
(*   clerks (http/server.ts) are requests of the order page, any number at *)
(*          once: cancel an order, or claim it, send the tracking number   *)
(*          to the customer and record the outcome;                        *)
(*   rows   (orderInbox.ts) of order_inbox are all they share.             *)
(*                                                                         *)
(* Abstracted: what a draft says is its version. Orders are numbered by    *)
(* confirmed_at, which with the session is their idempotency key. Left     *)
(* out: notes, the change history, and what the brain does with a parked   *)
(* order after it was locked.                                              *)
(***************************************************************************)
EXTENDS Naturals

CONSTANTS
  Clerks,        \* requests of the order page that may overlap
  MaxOrders,     \* bound: orders a conversation places
  MaxVersions,   \* bound: drafts the brain writes
  MaxLost,       \* bound: answers of the Send API that are lost
  MaxFaults      \* bound: crashes and failed calls of the store

ASSUME OrderAssumption ==
  /\ MaxOrders \in Nat \ {0} /\ MaxVersions \in Nat \ {0}
  /\ MaxLost \in Nat /\ MaxFaults \in Nat

Order == 1..MaxOrders
NoOrder == 0
Version == 0..MaxVersions
\* The transaction part of conversations.runtime_state: the confirmed order it
\* holds, and whether the pipeline is still at "6.Đã tạo đơn".
Draft == [order : Order \cup {NoOrder}, version : Version, created : BOOLEAN]
NoDraft == [order |-> NoOrder, version |-> 0, created |-> FALSE]

VARIABLES
  status,    \* order_inbox.status, "none" before the first push
  send,      \* order_inbox.tracking_send_status; tracking_sent_at is set with
             \* "sent" and never without
  numbered,  \* order_inbox.tracking_number IS NOT NULL
  held,      \* the draft in the row
  draft,     \* the draft in the conversation
  versions,  \* drafts written so far
  placed,    \* orders placed so far
  tpc,       \* control of the turn
  editable,  \* what the turn read from the inbox
  said,      \* the draft its reply confirms, or NoDraft
  told,      \* per order: the latest version a reply that was sent confirmed
  raced,     \* orders staff claimed or cancelled in the middle of a turn
  pc,        \* per clerk: control
  at,        \* per clerk: the order claimed
  accepted,  \* per order: tracking messages Meta accepted
  lost, faults   \* bounded counters

rowVars  == <<status, send, numbered, held>>
turnVars == <<draft, versions, placed, tpc, editable, said, told>>
sendVars == <<pc, at, accepted, lost>>
vars == <<rowVars, turnVars, raced, sendVars, faults>>

\* Every variable has its type.
OrderTypeOK ==
  /\ status \in [Order -> {"none", "pending", "completed", "cancelled"}]
  /\ send \in [Order -> {"not_sent", "sending", "sent", "failed"}]
  /\ numbered \in [Order -> BOOLEAN]
  /\ held \in [Order -> Version]
  /\ draft \in Draft
  /\ versions \in Version
  /\ placed \in 0..MaxOrders
  /\ tpc \in {"idle", "compose", "push", "reply"}
  /\ editable \in BOOLEAN
  /\ said \in Draft
  /\ told \in [Order -> Version]
  /\ raced \subseteq Order
  /\ pc \in [Clerks -> {"idle", "send", "accepted", "refused"}]
  /\ at \in [Clerks -> Order \cup {NoOrder}]
  /\ accepted \in [Order -> Nat]
  /\ lost \in 0..MaxLost
  /\ faults \in 0..MaxFaults

Init ==
  /\ status = [o \in Order |-> "none"]
  /\ send = [o \in Order |-> "not_sent"]
  /\ numbered = [o \in Order |-> FALSE]
  /\ held = [o \in Order |-> 0]
  /\ draft = NoDraft /\ versions = 0 /\ placed = 0
  /\ tpc = "idle" /\ editable = FALSE /\ said = NoDraft
  /\ told = [o \in Order |-> 0]
  /\ raced = {}
  /\ pc = [c \in Clerks |-> "idle"]
  /\ at = [c \in Clerks |-> NoOrder]
  /\ accepted = [o \in Order |-> 0]
  /\ lost = 0 /\ faults = 0

Fault == faults < MaxFaults /\ faults' = faults + 1

-----------------------------------------------------------------------------
(* The turn of one message of the customer *)

Pushed == {o \in Order : status[o] # "none"}
\* The row of the session with the latest confirmed_at.
Latest == {o \in Pushed : \A p \in Pushed : p <= o}
Open(o) == status[o] = "pending" /\ ~numbered[o]

\* canEditPending; with no row the session keeps its own answer, which is TRUE
\* since the order was placed.
\* Mutant: the tracking number is not looked at.
EditableWhilePending == \A o \in Latest : status[o] = "pending"
CanEditPending == \A o \in Latest : Open(o)

ReadEditable ==
  /\ tpc = "idle"
  /\ editable' = CanEditPending
  /\ tpc' = "compose"
  /\ UNCHANGED <<rowVars, draft, versions, placed, said, told, raced,
                 sendVars, faults>>

\* Compose and commit: the draft of the turn is the conversation's. With the
\* pipeline at "created" an order is pushed, said or not.
Commit(d, reply) ==
  /\ tpc = "compose"
  /\ draft' = d /\ said' = reply
  /\ tpc' = IF d.created THEN "push" ELSE "idle"
  /\ UNCHANGED <<rowVars, editable, told, raced, sendVars, faults>>

\* receiveCompleteInboxOrder: all the data are there, confirmed now.
PlaceOrder ==
  /\ draft.order = NoOrder /\ placed < MaxOrders /\ versions < MaxVersions
  /\ placed' = placed + 1 /\ versions' = versions + 1
  /\ LET d == [order |-> placed', version |-> versions', created |-> TRUE]
     IN Commit(d, d)

\* orderUpdatedReply: "the changes are saved on the system".
ChangeOrder ==
  /\ draft.order # NoOrder /\ editable /\ versions < MaxVersions
  /\ versions' = versions + 1
  /\ LET d == [draft EXCEPT !.version = versions', !.created = TRUE]
     IN Commit(d, d)
  /\ UNCHANGED placed

\* The customer turns to something else: an open order is parked, a closed one
\* forgotten.
LeaveOrder ==
  /\ draft.created
  /\ Commit(IF editable THEN [draft EXCEPT !.created = FALSE] ELSE NoDraft,
            NoDraft)
  /\ UNCHANGED <<versions, placed>>

\* "mua thêm" (one more) clears the order that was created.
BuyMore ==
  /\ draft.created
  /\ Commit(NoDraft, NoDraft)
  /\ UNCHANGED <<versions, placed>>

Talk == Commit(draft, NoDraft) /\ UNCHANGED <<versions, placed>>

\* push: insert, or update a row that is still open; any other row is left as
\* it is, and the call succeeds.
\* Mutant: the order is taken up again, whatever became of it.
PushReopens(o, v) ==
  /\ held' = [held EXCEPT ![o] = v]
  /\ status' = [status EXCEPT ![o] = "pending"]
Push(o, v) ==
  /\ held' = [held EXCEPT ![o] =
       IF status[o] = "none" \/ Open(o) THEN v ELSE @]
  /\ status' = [status EXCEPT ![o] = IF @ = "none" THEN "pending" ELSE @]

PushCreatedOrder ==
  /\ tpc = "push"
  /\ Push(draft.order, draft.version)
  /\ tpc' = IF said = NoDraft THEN "idle" ELSE "reply"
  /\ UNCHANGED <<send, numbered, draft, versions, placed, editable, said, told,
                 raced, sendVars, faults>>

\* The guard blocks the reply that was composed: the draft is committed, and
\* neither push nor reply follows.
PayloadBlocked ==
  /\ tpc = "push"
  /\ tpc' = "idle" /\ said' = NoDraft
  /\ UNCHANGED <<rowVars, draft, versions, placed, editable, told, raced,
                 sendVars, faults>>

\* dispatchOutbound sends the reply or, after a takeover or for a newer
\* message, does not.
Reply ==
  /\ tpc = "reply"
  /\ told' = [told EXCEPT ![said.order] = said.version]
  /\ tpc' = "idle" /\ said' = NoDraft
  /\ UNCHANGED <<rowVars, draft, versions, placed, editable, raced, sendVars,
                 faults>>

ReplySuppressed ==
  /\ tpc = "reply"
  /\ tpc' = "idle" /\ said' = NoDraft
  /\ UNCHANGED <<rowVars, draft, versions, placed, editable, told, raced,
                 sendVars, faults>>

\* A call throws and the turn is not resumed; a retry of the push that does
\* resume it is the push happening later.
TurnFails ==
  /\ tpc # "idle" /\ Fault
  /\ tpc' = "idle" /\ said' = NoDraft
  /\ UNCHANGED <<rowVars, draft, versions, placed, editable, told, raced,
                 sendVars>>

-----------------------------------------------------------------------------
(* The order page *)

\* History: a turn that read the rows before this has not replied yet.
NoteRace(o) == raced' = IF tpc = "idle" THEN raced ELSE raced \cup {o}

\* updateStatus, only ever called to cancel.
CancelOrder(o) ==
  /\ status[o] # "none"
  /\ status' = [status EXCEPT ![o] = "cancelled"]
  /\ NoteRace(o)
  /\ UNCHANGED <<send, numbered, held, turnVars, sendVars, faults>>

Claimable(o) == status[o] = "pending" /\ send[o] \in {"not_sent", "failed"}

\* claimTrackingSend: number and claim in one statement.
ClaimRow(o) ==
  /\ send' = [send EXCEPT ![o] = "sending"]
  /\ numbered' = [numbered EXCEPT ![o] = TRUE]
  /\ UNCHANGED status

ClaimTrackingSend(c, o) ==
  /\ pc[c] = "idle" /\ Claimable(o)
  /\ ClaimRow(o)
  /\ pc' = [pc EXCEPT ![c] = "send"]
  /\ at' = [at EXCEPT ![c] = o]
  /\ NoteRace(o)
  /\ UNCHANGED <<held, turnVars, accepted, lost, faults>>

SendAccepted(c) ==
  /\ pc[c] = "send"
  /\ accepted' = [accepted EXCEPT ![at[c]] = @ + 1]
  /\ pc' = [pc EXCEPT ![c] = "accepted"]
  /\ UNCHANGED <<rowVars, turnVars, raced, at, lost, faults>>

\* Meta refuses, or the session has no recipient to send to.
SendRefused(c) ==
  /\ pc[c] = "send"
  /\ pc' = [pc EXCEPT ![c] = "refused"]
  /\ UNCHANGED <<rowVars, turnVars, raced, at, accepted, lost, faults>>

\* network_error is an outcome that is not ok, like the others.
SendAnswerLost(c) ==
  /\ pc[c] = "send" /\ lost < MaxLost
  /\ lost' = lost + 1
  /\ accepted' \in {accepted, [accepted EXCEPT ![at[c]] = @ + 1]}
  /\ pc' = [pc EXCEPT ![c] = "refused"]
  /\ UNCHANGED <<rowVars, turnVars, raced, at, faults>>

Answer(c) ==
  /\ pc' = [pc EXCEPT ![c] = "idle"]
  /\ at' = [at EXCEPT ![c] = NoOrder]

\* Both outcomes are written only to a row that is sending.
\* Mutant: the message is recorded, but the order stays claimable.
SentButFailed(o) == send' = [send EXCEPT ![o] = "failed"] /\ UNCHANGED status
RecordSent(o) ==
  IF send[o] = "sending"
  THEN /\ send' = [send EXCEPT ![o] = "sent"]
       /\ status' = [status EXCEPT ![o] = "completed"]
  ELSE UNCHANGED <<send, status>>

MarkTrackingSent(c) ==
  /\ pc[c] = "accepted"
  /\ RecordSent(at[c])
  /\ Answer(c)
  /\ UNCHANGED <<numbered, held, turnVars, raced, accepted, lost, faults>>

MarkTrackingFailed(c) ==
  /\ pc[c] = "refused"
  /\ send' = [send EXCEPT ![at[c]] = IF @ = "sending" THEN "failed" ELSE @]
  /\ Answer(c)
  /\ UNCHANGED <<status, numbered, held, turnVars, raced, accepted, lost,
                 faults>>

\* The API dies, or the store fails when the outcome is written: the request
\* is over and its claim stays on the row.
RequestDies(c) ==
  /\ pc[c] # "idle" /\ Fault
  /\ Answer(c)
  /\ UNCHANGED <<rowVars, turnVars, raced, accepted, lost>>

-----------------------------------------------------------------------------
Turn ==
  \/ ReadEditable \/ PlaceOrder \/ ChangeOrder \/ LeaveOrder \/ BuyMore \/ Talk
  \/ PushCreatedOrder \/ PayloadBlocked \/ Reply \/ ReplySuppressed
  \/ TurnFails

Request(c) ==
  \/ \E o \in Order : ClaimTrackingSend(c, o)
  \/ SendAccepted(c) \/ SendRefused(c) \/ SendAnswerLost(c)
  \/ MarkTrackingSent(c) \/ MarkTrackingFailed(c) \/ RequestDies(c)

Next ==
  \/ Turn
  \/ \E o \in Order : CancelOrder(o)
  \/ \E c \in Clerks : Request(c)

Spec == Init /\ [][Next]_vars
=============================================================================
