-------------------------- MODULE OrderInboxProofs --------------------------
(***************************************************************************)
(* Proofs about OrderInbox: type correctness, that one request at a time   *)
(* sends an order's tracking message, and that a reply confirms what the   *)
(* inbox holds.                                                            *)
(***************************************************************************)
EXTENDS OrderInboxProperties, TLAPS

USE OrderAssumption

-----------------------------------------------------------------------------
(* Type correctness *)

RowsOK ==
  /\ status \in [Order -> {"none", "pending", "completed", "cancelled"}]
  /\ send \in [Order -> {"not_sent", "sending", "sent", "failed"}]
  /\ numbered \in [Order -> BOOLEAN]
  /\ held \in [Order -> Version]
TurnOK ==
  /\ draft \in Draft
  /\ versions \in Version
  /\ placed \in 0..MaxOrders
  /\ tpc \in {"idle", "compose", "push", "reply"}
  /\ editable \in BOOLEAN
  /\ said \in Draft
  /\ told \in [Order -> Version]
RequestsOK ==
  /\ raced \subseteq Order
  /\ pc \in [Clerks -> {"idle", "send", "accepted", "refused"}]
  /\ at \in [Clerks -> Order \cup {NoOrder}]
  /\ accepted \in [Order -> Nat]
  /\ lost \in 0..MaxLost
  /\ faults \in 0..MaxFaults

\* What a control point says of the order it is about.
TurnHasOrder ==
  /\ draft.created => draft.order # NoOrder
  /\ tpc = "push" => draft.created
  /\ tpc = "reply" => said.order # NoOrder
  /\ said = NoDraft \/ said.order # NoOrder
RequestHasOrder == \A c \in Clerks : pc[c] # "idle" <=> at[c] # NoOrder

TypeInv ==
  RowsOK /\ TurnOK /\ RequestsOK /\ TurnHasOrder /\ RequestHasOrder

\* The type invariant is the conjunction of its parts.
LEMMA Parts == OrderTypeOK <=> RowsOK /\ TurnOK /\ RequestsOK
  BY DEF OrderTypeOK, RowsOK, TurnOK, RequestsOK

\* A draft that is committed keeps the turn's types.
LEMMA CommitType ==
  ASSUME TypeInv, NEW d \in Draft, NEW reply \in Draft, Commit(d, reply),
         d.created => d.order # NoOrder,
         reply = NoDraft \/ reply.order # NoOrder,
         versions' \in Version, placed' \in 0..MaxOrders
  PROVE  TypeInv'
<1>1. RowsOK' BY DEF TypeInv, RowsOK, Commit, rowVars
<1>2. RequestsOK'
  BY DEF TypeInv, RequestsOK, Commit, sendVars
<1>3. TurnOK' BY DEF TypeInv, TurnOK, Commit
<1>4. TurnHasOrder' BY DEF TypeInv, TurnHasOrder, Commit
<1>5. RequestHasOrder' BY DEF TypeInv, RequestHasOrder, Commit, sendVars
<1> QED BY <1>1, <1>2, <1>3, <1>4, <1>5 DEF TypeInv

\* NoDraft and the drafts the brain writes are drafts.
LEMMA DraftTypes ==
  /\ NoDraft \in Draft
  /\ \A o \in Order \cup {NoOrder}, v \in Version, b \in BOOLEAN :
       [order |-> o, version |-> v, created |-> b] \in Draft
  BY DEF NoDraft, Draft, NoOrder, Version

\* Every step of a turn preserves the type invariant.
LEMMA TurnType ==
  ASSUME TypeInv, Turn
  PROVE  TypeInv'
<1> USE DEF TypeInv
<1>1. CASE ReadEditable
  BY <1>1 DEF ReadEditable, RowsOK, TurnOK, RequestsOK, TurnHasOrder,
     RequestHasOrder, rowVars, sendVars, CanEditPending, Open
<1>2. CASE PlaceOrder
  <2> DEFINE d == [order |-> placed + 1, version |-> versions + 1,
                   created |-> TRUE]
  <2>1. /\ placed + 1 \in Order /\ placed + 1 # NoOrder
        /\ versions + 1 \in Version
    BY <1>2 DEF PlaceOrder, TurnOK, Order, Version, NoOrder
  <2>2. d \in Draft /\ d.created = TRUE /\ d.order # NoOrder
    BY <2>1, DraftTypes
  <2>3. Commit(d, d) /\ versions' \in Version /\ placed' \in 0..MaxOrders
    BY <1>2, <2>1 DEF PlaceOrder, Order
  <2> QED BY <2>2, <2>3, CommitType
<1>3. CASE ChangeOrder
  <2> DEFINE d == [draft EXCEPT !.version = versions + 1, !.created = TRUE]
  <2>1. versions + 1 \in Version
    BY <1>3 DEF ChangeOrder, TurnOK, Version
  <2>2. d \in Draft /\ d.order # NoOrder
    BY <1>3, <2>1 DEF ChangeOrder, TurnOK, Draft
  <2>3. Commit(d, d) /\ versions' \in Version /\ placed' \in 0..MaxOrders
    BY <1>3, <2>1 DEF ChangeOrder, TurnOK
  <2> QED BY <2>2, <2>3, CommitType
<1>4. CASE LeaveOrder
  <2> DEFINE d ==
        IF editable THEN [draft EXCEPT !.created = FALSE] ELSE NoDraft
  <2>1. d \in Draft /\ ~d.created
    BY DraftTypes DEF TurnOK, Draft, NoDraft
  <2>2. Commit(d, NoDraft) /\ versions' \in Version /\ placed' \in 0..MaxOrders
    BY <1>4 DEF LeaveOrder, TurnOK
  <2> QED BY <2>1, <2>2, CommitType, DraftTypes
<1>5. CASE BuyMore
  <2>1. Commit(NoDraft, NoDraft) /\ versions' \in Version
        /\ placed' \in 0..MaxOrders /\ ~NoDraft.created
    BY <1>5 DEF BuyMore, TurnOK, NoDraft
  <2> QED BY <2>1, CommitType, DraftTypes
<1>6. CASE Talk
  <2>1. Commit(draft, NoDraft) /\ versions' \in Version
        /\ placed' \in 0..MaxOrders /\ draft \in Draft
    BY <1>6 DEF Talk, TurnOK
  <2> QED BY <2>1, CommitType, DraftTypes DEF TurnHasOrder
<1>7. CASE PushCreatedOrder
  <2>1. draft.order \in Order /\ draft.version \in Version
    BY <1>7 DEF PushCreatedOrder, TurnHasOrder, TurnOK, Draft
  <2>2. RowsOK' BY <1>7, <2>1 DEF PushCreatedOrder, Push, RowsOK
  <2>3. TurnOK' /\ RequestsOK'
    BY <1>7 DEF PushCreatedOrder, TurnOK, RequestsOK, sendVars
  <2>4. TurnHasOrder' /\ RequestHasOrder'
    BY <1>7 DEF PushCreatedOrder, TurnHasOrder, RequestHasOrder, sendVars
  <2> QED BY <2>2, <2>3, <2>4
<1>8. CASE Reply
  <2>1. said.order \in Order /\ said.version \in Version
    BY <1>8 DEF Reply, TurnHasOrder, TurnOK, Draft
  <2>2. RowsOK' /\ RequestsOK'
    BY <1>8 DEF Reply, RowsOK, RequestsOK, rowVars, sendVars
  <2>3. TurnOK' BY <1>8, <2>1, DraftTypes DEF Reply, TurnOK
  <2>4. TurnHasOrder' /\ RequestHasOrder'
    BY <1>8 DEF Reply, TurnHasOrder, RequestHasOrder, sendVars
  <2> QED BY <2>2, <2>3, <2>4
<1>9. CASE PayloadBlocked \/ ReplySuppressed \/ TurnFails
  <2>1. RowsOK' /\ RequestsOK'
    BY <1>9 DEF PayloadBlocked, ReplySuppressed, TurnFails, Fault, RowsOK,
       RequestsOK,
       rowVars, sendVars
  <2>2. TurnOK'
    BY <1>9, DraftTypes DEF PayloadBlocked, ReplySuppressed, TurnFails, TurnOK
  <2>3. TurnHasOrder' /\ RequestHasOrder'
    BY <1>9 DEF PayloadBlocked, ReplySuppressed, TurnFails, TurnHasOrder,
       RequestHasOrder,
       sendVars
  <2> QED BY <2>1, <2>2, <2>3
<1> QED BY <1>1, <1>2, <1>3, <1>4, <1>5, <1>6, <1>7, <1>8, <1>9 DEF Turn

\* So does every step of staff.
LEMMA StaffType ==
  ASSUME TypeInv,
         (\E o \in Order : CancelOrder(o)) \/ (\E c \in Clerks : Request(c))
  PROVE  TypeInv'
<1> USE DEF TypeInv
<1>1. CASE \E o \in Order : CancelOrder(o)
  BY <1>1 DEF CancelOrder, NoteRace, RowsOK, TurnOK, RequestsOK,
     TurnHasOrder, RequestHasOrder, turnVars, sendVars
<1>2. ASSUME NEW c \in Clerks, Request(c) PROVE TypeInv'
  <2>0. at[c] \in Order \cup {NoOrder} /\ (pc[c] # "idle" => at[c] \in Order)
    BY DEF RequestsOK, RequestHasOrder
  <2>1. CASE \E o \in Order : ClaimTrackingSend(c, o)
    <3>1. PICK o \in Order : ClaimTrackingSend(c, o) BY <2>1
    <3>2. o # NoOrder BY DEF Order, NoOrder
    <3>3. RowsOK' /\ TurnOK' /\ TurnHasOrder'
      BY <3>1 DEF ClaimTrackingSend, ClaimRow, RowsOK, TurnOK,
         TurnHasOrder, turnVars
    <3>4. RequestsOK' /\ RequestHasOrder'
      BY <3>1, <3>2 DEF ClaimTrackingSend, NoteRace, RequestsOK,
         RequestHasOrder
    <3> QED BY <3>3, <3>4
  <2>2. CASE SendAccepted(c) \/ SendRefused(c) \/ SendAnswerLost(c)
    <3>1. RowsOK' /\ TurnOK' /\ TurnHasOrder'
      BY <2>2 DEF SendAccepted, SendRefused, SendAnswerLost, RowsOK,
         TurnOK, TurnHasOrder, rowVars, turnVars
    <3>2. RequestsOK' /\ RequestHasOrder'
      BY <2>2, <2>0 DEF SendAccepted, SendRefused, SendAnswerLost,
         RequestsOK, RequestHasOrder
    <3> QED BY <3>1, <3>2
  <2>3. CASE MarkTrackingSent(c) \/ MarkTrackingFailed(c) \/ RequestDies(c)
    <3>1. RowsOK'
      BY <2>3, <2>0 DEF MarkTrackingSent, MarkTrackingFailed,
         RequestDies, RecordSent, RowsOK, rowVars
    <3>2. TurnOK' /\ TurnHasOrder'
      BY <2>3 DEF MarkTrackingSent, MarkTrackingFailed, RequestDies,
         TurnOK, TurnHasOrder, turnVars
    <3>3. RequestsOK' /\ RequestHasOrder'
      BY <2>3 DEF MarkTrackingSent, MarkTrackingFailed, RequestDies,
         Answer, Fault, RequestsOK, RequestHasOrder
    <3> QED BY <3>1, <3>2, <3>3
  <2> QED BY <1>2, <2>1, <2>2, <2>3 DEF Request
<1> QED BY <1>1, <1>2

\* The type invariant holds in every behaviour.
LEMMA TypesHold == Spec => []TypeInv
<1>1. Init => TypeInv
  <2> SUFFICES ASSUME Init PROVE TypeInv OBVIOUS
  <2>1. RowsOK BY DEF Init, RowsOK, Version
  <2>2. TurnOK
    <3>1. draft \in Draft /\ said \in Draft BY DraftTypes DEF Init
    <3>2. editable \in BOOLEAN BY DEF Init
    <3>3. told \in [Order -> Version] BY DEF Init, Version
    <3>4. versions \in Version /\ placed \in 0..MaxOrders /\ tpc = "idle"
      BY DEF Init, Version
    <3> QED BY <3>1, <3>2, <3>3, <3>4 DEF TurnOK
  <2>3. RequestsOK BY DEF Init, RequestsOK
  <2>4. TurnHasOrder /\ RequestHasOrder
    BY DEF Init, TurnHasOrder, RequestHasOrder, NoDraft
  <2> QED BY <2>1, <2>2, <2>3, <2>4 DEF TypeInv
<1>2. TypeInv /\ [Next]_vars => TypeInv'
  <2>1. TypeInv /\ UNCHANGED vars => TypeInv'
    BY DEF TypeInv, RowsOK, TurnOK, RequestsOK, TurnHasOrder, RequestHasOrder,
       vars, rowVars, turnVars, sendVars
  <2> QED BY <2>1, TurnType, StaffType DEF Next
<1> QED BY <1>1, <1>2, PTL DEF Spec

\* Every row and every local of turns and requests keeps its type, for any
\* number of requests, orders and versions.
THEOREM OrdersTypeCorrect == Spec => []OrderTypeOK
<1>1. TypeInv => OrderTypeOK BY Parts DEF TypeInv
<1> QED BY <1>1, TypesHold, PTL

-----------------------------------------------------------------------------
(* One tracking message *)

\* A request that is under way has the claim of its order, alone.
Owners ==
  /\ \A c, d \in Clerks : at[c] = at[d] /\ at[c] # NoOrder => c = d
  /\ \A c \in Clerks : at[c] # NoOrder => send[at[c]] = "sending"
  /\ \A o \in Order : send[o] = "sending" =>
       faults > 0 \/ \E c \in Clerks : at[c] = o

\* What the send status of a row says of the messages Meta accepted: before
\* the outcome of a request is known, only lost answers count.
Counted ==
  /\ \A o \in Order :
       /\ accepted[o] <= 1 + lost
       /\ send[o] \in {"not_sent", "failed"} => accepted[o] <= lost
       /\ send[o] = "sent" => accepted[o] > 0
  /\ \A c \in Clerks :
       /\ pc[c] \in {"send", "refused"} => accepted[at[c]] <= lost
       /\ pc[c] = "accepted" => accepted[at[c]] > 0

\* What it says of the order.
Completed ==
  \A o \in Order :
    /\ status[o] = "completed" => send[o] = "sent"
    /\ send[o] = "sent" => status[o] \in {"completed", "cancelled"}
    /\ status[o] = "none" => send[o] = "not_sent"

SendInv == Owners /\ Counted /\ Completed

\* A turn writes statuses only, and only a first one.
LEMMA TurnSends ==
  ASSUME TypeInv, SendInv, Turn
  PROVE  SendInv'
<1>1. /\ UNCHANGED <<send, pc, at, accepted, lost>>
      /\ faults' \in Nat /\ faults <= faults'
  BY DEF Turn, ReadEditable, PlaceOrder, ChangeOrder, LeaveOrder, BuyMore,
     Talk, Commit, PushCreatedOrder, Reply, PayloadBlocked,
     ReplySuppressed, TurnFails, Fault,
     rowVars, sendVars, TypeInv, RequestsOK
<1>2. \A o \in Order :
        \/ status'[o] = status[o]
        \/ status[o] = "none" /\ status'[o] = "pending"
  <2>1. CASE PushCreatedOrder
    BY <2>1 DEF PushCreatedOrder, Push, TypeInv, RowsOK
  <2>2. CASE ~PushCreatedOrder
    BY <2>2 DEF Turn, ReadEditable, PlaceOrder, ChangeOrder, LeaveOrder,
       BuyMore, Talk, Commit, Reply, PayloadBlocked,
     ReplySuppressed, TurnFails, rowVars
  <2> QED BY <2>1, <2>2
<1>3. Owners' BY <1>1 DEF SendInv, Owners, TypeInv, RequestsOK
<1>4. Counted' BY <1>1 DEF SendInv, Counted
<1>5. Completed' BY <1>1, <1>2 DEF SendInv, Completed
<1> QED BY <1>3, <1>4, <1>5 DEF SendInv

\* Staff's requests keep owners, counts and completions in step.
LEMMA StaffSends ==
  ASSUME TypeInv, SendInv,
         (\E o \in Order : CancelOrder(o)) \/ (\E c \in Clerks : Request(c))
  PROVE  SendInv'
<1> USE DEF TypeInv, RowsOK, RequestsOK, SendInv
<1>1. CASE \E o \in Order : CancelOrder(o)
  BY <1>1 DEF CancelOrder, sendVars, Owners, Counted, Completed
<1>2. ASSUME NEW c \in Clerks, Request(c) PROVE SendInv'
  <2>0. /\ at[c] \in Order \cup {NoOrder}
        /\ pc[c] # "idle" => at[c] \in Order /\ send[at[c]] = "sending"
        /\ \A d \in Clerks : d # c /\ at[c] # NoOrder => at[d] # at[c]
    BY DEF RequestHasOrder, Owners
  <2>1. CASE \E o \in Order : ClaimTrackingSend(c, o)
    <3>1. PICK o \in Order : ClaimTrackingSend(c, o) BY <2>1
    <3>2. /\ status[o] = "pending" /\ send[o] \in {"not_sent", "failed"}
          /\ send' = [send EXCEPT ![o] = "sending"] /\ UNCHANGED status
          /\ pc[c] = "idle" /\ pc' = [pc EXCEPT ![c] = "send"]
          /\ at' = [at EXCEPT ![c] = o] /\ UNCHANGED <<accepted, lost, faults>>
      BY <3>1 DEF ClaimTrackingSend, Claimable, ClaimRow
    <3>a. o # NoOrder BY DEF Order, NoOrder
    <3>3. \A d \in Clerks : at[d] # o
      <4> SUFFICES ASSUME NEW d \in Clerks, at[d] = o PROVE FALSE OBVIOUS
      <4>1. send[o] = "sending" BY <3>a DEF Owners
      <4> QED BY <4>1, <3>2
    <3>4. Owners'
      <4>1. at'[c] = o /\ \A d \in Clerks : d # c => at'[d] = at[d]
        BY <3>2
      <4>2. \A d, e \in Clerks :
              at'[d] = at'[e] /\ at'[d] # NoOrder => d = e
        BY <4>1, <3>3 DEF Owners
      <4>3. \A d \in Clerks : at'[d] # NoOrder => send'[at'[d]] = "sending"
        BY <4>1, <3>2, <3>3 DEF Owners
      <4>4. \A p \in Order : send'[p] = "sending" =>
              faults' > 0 \/ \E d \in Clerks : at'[d] = p
        <5> SUFFICES ASSUME NEW p \in Order, p # o, send[p] = "sending",
                            faults = 0
                     PROVE  \E d \in Clerks : at'[d] = p
          BY <4>1, <3>2
        <5>1. PICK d \in Clerks : at[d] = p BY DEF Owners
        <5>2. d # c
          BY <5>1, <2>0, <3>2, <3>a DEF RequestHasOrder, Order, NoOrder
        <5> QED BY <5>1, <5>2, <4>1
      <4> QED BY <4>2, <4>3, <4>4 DEF Owners
    <3>5. Counted' BY <3>2, <3>3 DEF Counted
    <3>6. Completed' BY <3>2 DEF Completed
    <3> QED BY <3>4, <3>5, <3>6
  <2>2. CASE SendAccepted(c)
    <3>1. Owners' /\ Completed'
      BY <2>2 DEF SendAccepted, rowVars, Owners, Completed
    <3>2. Counted'
      BY <2>0, <2>2 DEF SendAccepted, rowVars, Counted, RequestHasOrder,
         NoOrder
    <3> QED BY <3>1, <3>2
  <2>3. CASE SendRefused(c)
    BY <2>3 DEF SendRefused, rowVars, Owners, Completed, Counted
  <2>4. CASE SendAnswerLost(c)
    <3>1. Owners' /\ Completed'
      BY <2>4 DEF SendAnswerLost, rowVars, Owners, Completed
    <3>2. Counted'
      BY <2>0, <2>4 DEF SendAnswerLost, rowVars, Counted, RequestHasOrder,
         NoOrder
    <3> QED BY <3>1, <3>2
  <2>5. CASE MarkTrackingSent(c)
    <3>1. /\ pc[c] = "accepted" /\ at[c] \in Order /\ send[at[c]] = "sending"
          /\ send' = [send EXCEPT ![at[c]] = "sent"]
          /\ status' = [status EXCEPT ![at[c]] = "completed"]
          /\ pc' = [pc EXCEPT ![c] = "idle"]
          /\ at' = [at EXCEPT ![c] = NoOrder]
          /\ UNCHANGED <<accepted, lost, faults>>
      BY <2>0, <2>5 DEF MarkTrackingSent, RecordSent, Answer
    <3>2. Owners' BY <2>0, <3>1 DEF Owners
    <3>3. Counted' BY <3>1 DEF Counted
    <3>4. Completed' BY <3>1 DEF Completed
    <3> QED BY <3>2, <3>3, <3>4
  <2>6. CASE MarkTrackingFailed(c)
    <3>1. /\ pc[c] = "refused" /\ at[c] \in Order /\ send[at[c]] = "sending"
          /\ send' = [send EXCEPT ![at[c]] = "failed"]
          /\ pc' = [pc EXCEPT ![c] = "idle"]
          /\ at' = [at EXCEPT ![c] = NoOrder]
          /\ UNCHANGED <<status, accepted, lost, faults>>
      BY <2>0, <2>6 DEF MarkTrackingFailed, Answer
    <3>2. Owners' BY <2>0, <3>1 DEF Owners
    <3>3. Counted' BY <3>1 DEF Counted
    <3>4. Completed' BY <3>1 DEF Completed
    <3> QED BY <3>2, <3>3, <3>4
  <2>7. CASE RequestDies(c)
    <3>1. /\ faults' = faults + 1 /\ UNCHANGED <<rowVars, accepted, lost>>
          /\ pc' = [pc EXCEPT ![c] = "idle"]
          /\ at' = [at EXCEPT ![c] = NoOrder]
      BY <2>7 DEF RequestDies, Fault, Answer
    <3>2. Owners' BY <2>0, <3>1 DEF Owners, rowVars
    <3>3. Counted' /\ Completed' BY <3>1 DEF Counted, Completed, rowVars
    <3> QED BY <3>2, <3>3
  <2> QED BY <1>2, <2>1, <2>2, <2>3, <2>4, <2>5, <2>6, <2>7 DEF Request
<1> QED BY <1>1, <1>2

\* The invariant of the send holds in every behaviour.
LEMMA SendsHold == Spec => []SendInv
<1>1. Init => SendInv
  BY DEF Init, SendInv, Owners, Counted, Completed
<1>2. TypeInv /\ SendInv /\ [Next]_vars => SendInv'
  <2>1. SendInv /\ UNCHANGED vars => SendInv'
    BY DEF SendInv, Owners, Counted, Completed, vars, rowVars, sendVars
  <2> QED BY <2>1, TurnSends, StaffSends DEF Next
<1> QED BY <1>1, <1>2, TypesHold, PTL DEF Spec

\* Whatever requests overlap, die or lose their answer: a claim has one owner,
\* the customer gets one tracking message but for lost answers, and orders are
\* completed by a message that was accepted.
THEOREM TrackingIsSafe ==
  Spec => [](ClaimHasOneOwner /\ TrackingSentOnce /\ CompletedIsSent)
<1>1. TypeInv /\ SendInv =>
        ClaimHasOneOwner /\ TrackingSentOnce /\ CompletedIsSent
  BY DEF SendInv, Owners, Counted, Completed, ClaimHasOneOwner,
     TrackingSentOnce, CompletedIsSent
<1> QED BY <1>1, TypesHold, SendsHold, PTL

\* A cancelled order is left only by the outcome of a message that was under
\* way, whichever turn or request comes late.
THEOREM CancellationHolds == Spec => CancelledStays
<1> DEFINE A == \A o \in Order : status[o] = "cancelled" =>
       \/ status'[o] = "cancelled"
       \/ /\ status'[o] = "completed" /\ send[o] = "sending"
          /\ accepted[o] > 0
<1>1. TypeInv /\ SendInv /\ [Next]_vars => [A]_vars
  <2> SUFFICES ASSUME TypeInv, SendInv, Next,
                      NEW o \in Order, status[o] = "cancelled"
               PROVE  \/ status'[o] = "cancelled"
                      \/ /\ status'[o] = "completed" /\ send[o] = "sending"
                         /\ accepted[o] > 0
    OBVIOUS
  <2>1. CASE Turn
    <3>1. CASE PushCreatedOrder
      BY <3>1 DEF PushCreatedOrder, Push, TypeInv, RowsOK
    <3>2. CASE ~PushCreatedOrder
      BY <2>1, <3>2 DEF Turn, ReadEditable, PlaceOrder, ChangeOrder,
         LeaveOrder, BuyMore, Talk, Commit, Reply, PayloadBlocked,
     ReplySuppressed, TurnFails,
         rowVars
    <3> QED BY <3>1, <3>2
  <2>2. CASE \E p \in Order : CancelOrder(p)
    BY <2>2 DEF CancelOrder, TypeInv, RowsOK
  <2>3. ASSUME NEW c \in Clerks, Request(c)
        PROVE  \/ status'[o] = "cancelled"
               \/ /\ status'[o] = "completed" /\ send[o] = "sending"
                  /\ accepted[o] > 0
    <3>1. CASE MarkTrackingSent(c)
      <4>1. at[c] = o => accepted[o] > 0
        BY <3>1 DEF MarkTrackingSent, SendInv, Counted
      <4>2. status' = status \/ ( /\ send[at[c]] = "sending"
              /\ status' = [status EXCEPT ![at[c]] = "completed"])
        BY <3>1 DEF MarkTrackingSent, RecordSent
      <4> QED BY <4>1, <4>2 DEF TypeInv, RowsOK
    <3>2. CASE ~MarkTrackingSent(c)
      BY <2>3, <3>2 DEF Request, ClaimTrackingSend, ClaimRow, SendAccepted,
         SendRefused, SendAnswerLost, MarkTrackingFailed, RequestDies, rowVars
    <3> QED BY <3>1, <3>2
  <2> QED BY <2>1, <2>2, <2>3 DEF Next
<1> QED BY <1>1, TypesHold, SendsHold, PTL DEF Spec, CancelledStays

-----------------------------------------------------------------------------
(* What replies confirm *)

\* The draft in the conversation is that of the order placed last, which no
\* row of the inbox runs ahead of.
DraftIsLast ==
  /\ \A o \in Order : o > placed => status[o] = "none"
  /\ \A o \in Order : status[o] = "none" => held[o] = 0
  /\ \A o \in Order : send[o] # "not_sent" => numbered[o]
  /\ draft.version <= versions
  /\ draft.order # NoOrder =>
       draft.order = placed /\ held[draft.order] <= draft.version

\* A push of this order writes its draft, unless staff came in between.
Pushable(o) == status[o] = "none" \/ Open(o) \/ o \in raced

\* What the turn has still to do keeps its reply true.
ReplyBacked ==
  /\ tpc = "compose" /\ editable /\ draft.order # NoOrder =>
       Pushable(draft.order)
  /\ tpc = "push" /\ said # NoDraft => said = draft /\ Pushable(draft.order)
  /\ tpc = "reply" =>
       said.version <= held[said.order] \/ said.order \in raced

RecordInv == DraftIsLast /\ ReplyBacked /\ ToldIsRecordedUnlessRaced

\* Reading, composing and committing.
LEMMA ComposeRecords ==
  ASSUME TypeInv, RecordInv,
         ReadEditable \/ PlaceOrder \/ ChangeOrder \/ LeaveOrder \/ BuyMore
           \/ Talk
  PROVE  RecordInv'
<1> USE DEF TypeInv, RowsOK, TurnOK, RequestsOK, RecordInv
<1>0. UNCHANGED <<status, send, numbered, held, told, raced>>
  BY DEF ReadEditable, PlaceOrder, ChangeOrder, LeaveOrder, BuyMore,
     Talk, Commit, rowVars
<1>1. ToldIsRecordedUnlessRaced' BY <1>0 DEF ToldIsRecordedUnlessRaced
<1>2. CASE ReadEditable
  <2>1. DraftIsLast' BY <1>0, <1>2 DEF ReadEditable, DraftIsLast
  <2>2. editable' /\ draft.order # NoOrder => Pushable(draft.order)
    <3> SUFFICES ASSUME editable', draft.order # NoOrder,
                        status[draft.order] # "none"
                 PROVE  Open(draft.order)
      BY DEF Pushable
    <3>1. draft.order \in Order /\ draft.order = placed
      BY DEF DraftIsLast, Draft
    <3>2. \A p \in Pushed : p <= placed
      BY DEF Pushed, Order, DraftIsLast
    <3>3. draft.order \in Latest BY <3>1, <3>2 DEF Latest, Pushed
    <3> QED BY <3>3, <1>2 DEF ReadEditable, CanEditPending
  <2>3. ReplyBacked'
    BY <1>0, <1>2, <2>2 DEF ReadEditable, ReplyBacked, Pushable, Open
  <2> QED BY <1>1, <2>1, <2>3
<1>3. CASE PlaceOrder
  <2> DEFINE d == [order |-> placed + 1, version |-> versions + 1,
                   created |-> TRUE]
  <2>1. /\ tpc' = "push" /\ draft' = d /\ said' = d
        /\ placed' = placed + 1 /\ versions' = versions + 1
        /\ placed + 1 \in Order
    BY <1>3 DEF PlaceOrder, Commit, Order
  <2>2. status[placed + 1] = "none" /\ held[placed + 1] = 0
    BY <2>1 DEF DraftIsLast, Order
  <2>3. DraftIsLast' BY <1>0, <2>1, <2>2 DEF DraftIsLast, Order, Version
  <2>4. ReplyBacked' BY <1>0, <2>1, <2>2 DEF ReplyBacked, Pushable
  <2> QED BY <1>1, <2>3, <2>4
<1>4. CASE ChangeOrder
  <2> DEFINE d == [draft EXCEPT !.version = versions + 1, !.created = TRUE]
  <2>1. /\ tpc' = "push" /\ draft' = d /\ said' = d /\ UNCHANGED placed
        /\ versions' = versions + 1 /\ tpc = "compose" /\ editable
        /\ d.order = draft.order /\ d.version = versions + 1
        /\ draft.order # NoOrder /\ draft.order \in Order
    BY <1>4 DEF ChangeOrder, Commit, Draft
  <2>2. held[draft.order] <= versions + 1
    BY <2>1 DEF DraftIsLast, Draft, Version
  <2>3. DraftIsLast' BY <1>0, <2>1, <2>2 DEF DraftIsLast, Version
  <2>4. ReplyBacked' BY <1>0, <2>1 DEF ReplyBacked, Pushable, Open
  <2> QED BY <1>1, <2>3, <2>4
<1>5. CASE LeaveOrder \/ BuyMore \/ Talk
  <2>1. /\ \/ draft' = NoDraft
           \/ draft'.order = draft.order /\ draft'.version = draft.version
        /\ said' = NoDraft
        /\ UNCHANGED <<versions, placed>>
    <3>1. CASE LeaveOrder
      <4>1. CASE editable BY <3>1, <4>1 DEF LeaveOrder, Commit, Draft
      <4>2. CASE ~editable BY <3>1, <4>2 DEF LeaveOrder, Commit
      <4> QED BY <4>1, <4>2
    <3>2. CASE BuyMore BY <3>2 DEF BuyMore, Commit
    <3>3. CASE Talk BY <3>3 DEF Talk, Commit
    <3> QED BY <1>5, <3>1, <3>2, <3>3
  <2>a. tpc' \in {"push", "idle"}
    BY <1>5 DEF LeaveOrder, BuyMore, Talk, Commit
  <2>2. DraftIsLast'
    BY <1>0, <2>1 DEF DraftIsLast, NoDraft, NoOrder, Version
  <2>3. ReplyBacked' BY <2>1, <2>a DEF ReplyBacked
  <2> QED BY <1>1, <2>2, <2>3
<1> QED BY <1>2, <1>3, <1>4, <1>5

\* Pushing and replying.
LEMMA PushRecords ==
  ASSUME TypeInv, RecordInv,
         PushCreatedOrder \/ Reply \/ PayloadBlocked
           \/ ReplySuppressed \/ TurnFails
  PROVE  RecordInv'
<1> USE DEF TypeInv, RowsOK, TurnOK, RequestsOK, RecordInv
<1>1. CASE PushCreatedOrder
  <2> DEFINE o == draft.order
  <2>1. /\ o \in Order /\ o = placed /\ draft.version \in Version
        /\ held[o] <= draft.version
    BY <1>1 DEF PushCreatedOrder, TurnHasOrder, DraftIsLast, Draft
  <2>2. /\ held' = [held EXCEPT ![o] =
             IF status[o] = "none" \/ Open(o) THEN draft.version ELSE @]
        /\ status' = [status EXCEPT ![o] = IF @ = "none" THEN "pending" ELSE @]
        /\ UNCHANGED <<send, numbered, draft, versions, placed, said, told,
                       raced>>
        /\ tpc = "push" /\ tpc' = IF said = NoDraft THEN "idle" ELSE "reply"
    BY <1>1 DEF PushCreatedOrder, Push
  <2>3. DraftIsLast' BY <2>1, <2>2 DEF DraftIsLast, Version
  <2>4. \A p \in Order : held[p] <= held'[p] /\ held'[p] \in Nat
    BY <2>1, <2>2 DEF Version
  <2>5. ToldIsRecordedUnlessRaced'
    <3> SUFFICES ASSUME NEW p \in Order, p \notin raced
                 PROVE  told[p] <= held'[p]
      BY <2>2 DEF ToldIsRecordedUnlessRaced
    <3>1. told[p] \in Nat /\ held[p] \in Nat /\ told[p] <= held[p]
      BY DEF ToldIsRecordedUnlessRaced, Version
    <3> QED BY <3>1, <2>4
  <2>6. ReplyBacked'
    BY <2>1, <2>2 DEF ReplyBacked, Pushable, Version
  <2> QED BY <2>3, <2>5, <2>6
<1>2. CASE Reply
  <2>1. said.order \in Order /\ said.version \in Version
    BY <1>2 DEF Reply, TurnHasOrder, Draft
  <2>2. DraftIsLast' BY <1>2 DEF Reply, rowVars, DraftIsLast
  <2>3. ReplyBacked' BY <1>2 DEF Reply, ReplyBacked
  <2>4. ToldIsRecordedUnlessRaced'
    BY <1>2, <2>1 DEF Reply, rowVars, ReplyBacked, ToldIsRecordedUnlessRaced
  <2> QED BY <2>2, <2>3, <2>4
<1>3. CASE PayloadBlocked \/ ReplySuppressed \/ TurnFails
  BY <1>3 DEF PayloadBlocked, ReplySuppressed, TurnFails, rowVars,
     DraftIsLast, ReplyBacked,
     ToldIsRecordedUnlessRaced
<1> QED BY <1>1, <1>2, <1>3

\* Staff close an order only in rows that say so, and are remembered if a turn
\* was under way.
LEMMA StaffRecords ==
  ASSUME TypeInv, SendInv, RecordInv,
         (\E o \in Order : CancelOrder(o)) \/ (\E c \in Clerks : Request(c))
  PROVE  RecordInv'
<1> USE DEF TypeInv, RowsOK, TurnOK, RequestsOK, RecordInv
<1>1. /\ UNCHANGED <<held, draft, versions, placed, tpc, editable, said, told>>
      /\ raced \subseteq raced'
  BY DEF CancelOrder, NoteRace, Request, ClaimTrackingSend, SendAccepted,
     SendRefused, SendAnswerLost, MarkTrackingSent, MarkTrackingFailed,
     RequestDies, turnVars, rowVars
<1> DEFINE RowsKeep ==
      /\ \A o \in Order : status'[o] = "none" <=> status[o] = "none"
      /\ \A o \in Order : send'[o] # "not_sent" => numbered'[o]
      /\ tpc # "idle" => \A o \in Order : Pushable(o) => Pushable(o)'
<1>2. RowsKeep
  <2>1. ASSUME NEW o \in Order, CancelOrder(o) PROVE RowsKeep
    <3>1. /\ status[o] # "none" /\ UNCHANGED <<send, numbered>>
          /\ status' = [status EXCEPT ![o] = "cancelled"]
          /\ tpc # "idle" => raced' = raced \cup {o}
      BY <2>1 DEF CancelOrder, NoteRace
    <3> QED BY <3>1, <1>1 DEF Pushable, Open, DraftIsLast
  <2>2. ASSUME NEW c \in Clerks, NEW o \in Order, ClaimTrackingSend(c, o)
        PROVE  RowsKeep
    <3>1. /\ UNCHANGED status
          /\ send' = [send EXCEPT ![o] = "sending"]
          /\ numbered' = [numbered EXCEPT ![o] = TRUE]
          /\ tpc # "idle" => raced' = raced \cup {o}
      BY <2>2 DEF ClaimTrackingSend, ClaimRow, NoteRace
    <3> QED BY <3>1, <1>1 DEF Pushable, Open, DraftIsLast
  <2>3. ASSUME NEW c \in Clerks, MarkTrackingSent(c) \/ MarkTrackingFailed(c)
        PROVE  RowsKeep
    <3> DEFINE o == at[c]
    <3>1. o \in Order /\ send[o] = "sending" /\ numbered[o]
          /\ status[o] # "none"
      BY <2>3 DEF MarkTrackingSent, MarkTrackingFailed, RequestHasOrder,
         SendInv, Owners, Completed, DraftIsLast
    <3>2. UNCHANGED numbered /\ raced' = raced
          /\ status' \in {status, [status EXCEPT ![o] = "completed"]}
          /\ \E new \in {"sent", "failed"} : send' = [send EXCEPT ![o] = new]
      BY <2>3, <3>1 DEF MarkTrackingSent, MarkTrackingFailed, RecordSent
    <3> QED BY <3>1, <3>2 DEF Pushable, Open, DraftIsLast
  <2>4. ASSUME NEW c \in Clerks, SendAccepted(c) \/ SendRefused(c)
               \/ SendAnswerLost(c) \/ RequestDies(c)
        PROVE  RowsKeep
    <3>1. UNCHANGED <<status, send, numbered, raced>>
      BY <2>4 DEF SendAccepted, SendRefused, SendAnswerLost, RequestDies,
         rowVars
    <3> QED BY <3>1 DEF Pushable, Open, DraftIsLast
  <2> QED BY <2>1, <2>2, <2>3, <2>4 DEF Request
<1>3. DraftIsLast' BY <1>1, <1>2 DEF DraftIsLast, Draft
<1>4. ReplyBacked'
  <2>1. tpc \in {"compose", "push"} /\ draft.order # NoOrder
          => (Pushable(draft.order) => Pushable(draft.order)')
    BY <1>1, <1>2 DEF Draft, Pushable, Open
  <2>2. tpc = "push" => draft.order # NoOrder BY DEF TurnHasOrder
  <2> QED BY <1>1, <2>1, <2>2 DEF ReplyBacked, Pushable, Open
<1>5. ToldIsRecordedUnlessRaced'
  BY <1>1 DEF ToldIsRecordedUnlessRaced
<1> QED BY <1>3, <1>4, <1>5

\* However turns and staff interleave, a reply confirms only a draft the inbox
\* holds, unless staff claimed or cancelled the order in the middle of a turn.
THEOREM RepliesAreRecorded == Spec => []ToldIsRecordedUnlessRaced
<1>1. Init => RecordInv
  BY DEF Init, RecordInv, DraftIsLast, ReplyBacked, ToldIsRecordedUnlessRaced,
     NoDraft, NoOrder
<1>2. TypeInv /\ SendInv /\ RecordInv /\ [Next]_vars => RecordInv'
  <2>1. RecordInv /\ UNCHANGED vars => RecordInv'
    BY DEF RecordInv, DraftIsLast, ReplyBacked, Pushable, Open,
       ToldIsRecordedUnlessRaced, vars, rowVars, turnVars
  <2> QED BY <2>1, ComposeRecords, PushRecords, StaffRecords DEF Next, Turn
<1>3. RecordInv => ToldIsRecordedUnlessRaced BY DEF RecordInv
<1> QED BY <1>1, <1>2, <1>3, TypesHold, SendsHold, PTL DEF Spec
=============================================================================
