----------------------- MODULE ConversationTurnProofs -----------------------
(***************************************************************************)
(* Theorems of ConversationTurn for every value of its constants.  In      *)
(* order: types; a takeover by staff survives bot turns; the stored cursor *)
(* never passes Meta; orders are recorded before the reply that confirms   *)
(* them; an acknowledged message was dealt with; a part in doubt is never  *)
(* sent again; without stalls and faults the turns implement ReplyDelivery;*)
(* and every duplicate and every late part is paid for by one of these.    *)
(***************************************************************************)
EXTENDS ConversationTurnProperties, FiniteSetTheorems, WellFoundedInduction,
        TLAPS

\* Every non-empty set of naturals has a least element.
LEMMA LeastElement ==
  ASSUME NEW S \in SUBSET Nat, S # {}
  PROVE  \E m \in S : \A n \in S : m <= n
<1> DEFINE R == {ss \in Nat \X Nat : ss[1] < ss[2]}
<1>1. IsWellFoundedOn(R, Nat)
  BY NatLessThanWellFounded DEF OpToRel
<1>2. \E m \in S : \A n \in S : ~ (<<n, m>> \in R)
  <2> HIDE DEF R
  <2> QED BY <1>1, WFMin, Zenon
<1>3. PICK m \in S : \A n \in S : ~ (<<n, m>> \in R)
  BY <1>2
<1>4. \A n \in S : m <= n
  <2>1. SUFFICES ASSUME NEW n \in S PROVE m <= n
    OBVIOUS
  <2>2. ~ (n < m)
    BY <1>3
  <2> QED BY <2>2
<1> QED BY <1>4

-----------------------------------------------------------------------------
(* Type correctness *)

\* A worker that reads or processes holds entries; one that sends or settles a
\* send has a part of its reply ahead of the cursor.
Working ==
  \A w \in Workers :
    /\ pc[w] # "idle" => batch[w] # {}
    /\ pc[w] \in {"send", "record", "unknown"} => cursor[w] < outbox[turn[w]].parts

TypeInv == TypeOK /\ Working

\* The key of a turn is one of its events.
LEMMA FirstIsEvent ==
  ASSUME WorkerOK, NEW w \in Workers, batch[w] # {}
  PROVE  First(Events(w)) \in Event
<1>1. Events(w) \subseteq Event
  BY DEF WorkerOK, Events
<1>2. Events(w) # {}
  BY DEF WorkerOK, Events
<1>3. Events(w) \in SUBSET Nat
  BY <1>1, ConstantsAssumption DEF Event
<1>4. \E e \in Events(w) : \A f \in Events(w) : e <= f
  BY <1>2, <1>3, LeastElement
<1> QED BY <1>1, <1>4 DEF First

\* A worker back at its loop has its initial locals.
LEMMA ForgetType ==
  ASSUME TypeInv, NEW w \in Workers, Forget(w),
         lease' \in Workers \cup {NoWorker}, UNCHANGED outbox
  PROVE  WorkerOK' /\ Working'
<1>1. WorkerOK'
  BY ConstantsAssumption
     DEF TypeInv, TypeOK, WorkerOK, Forget, Goto, PC, Event, Conversation, NewConversation
<1>2. Working'
  BY DEF TypeInv, TypeOK, WorkerOK, Working, Forget, Goto
<1> QED BY <1>1, <1>2

\* Retrying or dead-lettering a batch keeps every attempt below the limit.
LEMMA RetryType ==
  ASSUME TypeInv, NEW w \in Workers, NEW max \in Nat, max <= MaxAttempts,
         RetryOrDeadLetter(w, max), UNCHANGED outbox
  PROVE  QueueOK' /\ WorkerOK' /\ Working'
<1>1. QueueOK'
  BY ConstantsAssumption
     DEF TypeInv, TypeOK, QueueOK, RetryOrDeadLetter, Exhausted
<1>2. lease' \in Workers \cup {NoWorker}
  BY DEF TypeInv, TypeOK, WorkerOK, RetryOrDeadLetter, Release
<1> QED BY <1>1, <1>2, ForgetType DEF RetryOrDeadLetter

\* The initial state has the types.
LEMMA TypeInit == Init => TypeInv
<1> SUFFICES ASSUME Init PROVE TypeInv
  OBVIOUS
<1> USE ConstantsAssumption DEF Init
<1>1. QueueOK
  BY DEF QueueOK
<1>2. StoreOK
  BY DEF StoreOK, Plan, NoPlan, NewPlan, Conversation, NewConversation
<1>3. MetaOK
  BY DEF MetaOK
<1>4. WorkerOK
  BY DEF WorkerOK, PC, Conversation, NewConversation, Event
<1>5. EnvOK
  BY DEF EnvOK
<1>6. Working
  BY DEF Working
<1> QED BY <1>1, <1>2, <1>3, <1>4, <1>5, <1>6 DEF TypeInv, TypeOK

\* The webhook and staff touch no worker.
LEMMA TypeWebhook ==
  ASSUME TypeInv, Webhook \/ MarkHumanTakeover
  PROVE  TypeInv'
<1> USE DEF TypeInv, TypeOK
<1>1. CASE Webhook
  <2>1. QueueOK'
    <3>1. CASE PersistInbound
      BY <3>1, ConstantsAssumption, ingested + 1 \in 0..NEvents
         DEF PersistInbound, QueueOK
    <3>2. ASSUME NEW e \in Event, Enqueue(e) \/ LoseEnqueue(e) PROVE QueueOK'
      BY <3>2 DEF Enqueue, LoseEnqueue, QueueOK
    <3> QED BY <1>1, <3>1, <3>2 DEF Webhook
  <2>2. UNCHANGED <<storeVars, accepted, lease, pc, localVars, envVars, ghostVars>>
    BY <1>1 DEF Webhook, PersistInbound, Enqueue, LoseEnqueue
  <2>3. StoreOK' /\ MetaOK' /\ WorkerOK' /\ EnvOK' /\ Working'
    BY <2>2 DEF storeVars, localVars, envVars, ghostVars, StoreOK, MetaOK, WorkerOK,
                EnvOK, Working
  <2> QED BY <2>1, <2>3
<1>2. CASE MarkHumanTakeover
  <2>1. StoreOK'
    <3>1. conv' \in Conversation
      <4>1. conv.version + 1 \in Nat /\ conv.order \in Event \cup {0}
        BY DEF StoreOK, Conversation
      <4>2. conv' = [human |-> "human", version |-> conv.version + 1,
                     order |-> conv.order]
        BY <1>2 DEF MarkHumanTakeover, StoreOK, Conversation
      <4> QED BY <4>1, <4>2 DEF Conversation
    <3>2. \A e \in Event : [outbox[e] EXCEPT !.status = "failed"] \in Plan
      BY DEF StoreOK, Plan
    <3>3. outbox' \in [Event -> Plan]
      BY <1>2, <3>2 DEF MarkHumanTakeover, StoreOK
    <3> QED BY <1>2, <3>1, <3>3 DEF MarkHumanTakeover, StoreOK
  <2>2. QueueOK' /\ MetaOK' /\ WorkerOK'
    BY <1>2 DEF MarkHumanTakeover, queueVars, localVars, ghostVars, QueueOK, MetaOK,
                WorkerOK
  <2>3. EnvOK'
    BY <1>2, ConstantsAssumption DEF MarkHumanTakeover, EnvOK
  <2>4. \A e \in Event : outbox'[e].parts = outbox[e].parts
    BY <1>2 DEF MarkHumanTakeover, StoreOK, Plan
  <2>5. Working'
    BY <1>2, <2>4 DEF MarkHumanTakeover, localVars, Working, WorkerOK
  <2> QED BY <2>1, <2>2, <2>3, <2>5
<1> QED BY <1>1, <1>2

\* The part a worker sends or records is one of its reply.
LEMMA NextPartExists ==
  ASSUME TypeInv, NEW w \in Workers, pc[w] \in {"send", "record", "unknown"}
  PROVE  turn[w] \in Event /\ cursor[w] + 1 \in 1..MaxParts
<1>1. cursor[w] < outbox[turn[w]].parts
  BY DEF TypeInv, Working
<1>2. turn[w] \in Event /\ cursor[w] \in 0..MaxParts
      /\ outbox[turn[w]].parts \in 0..MaxParts
  BY DEF TypeInv, TypeOK, WorkerOK, StoreOK, Plan
<1> QED BY <1>1, <1>2, ConstantsAssumption

\* Counting one more acceptance keeps the types of what Meta holds.
LEMMA AcceptType ==
  ASSUME MetaOK, NEW w \in Workers, Accept(w), turn[w] \in Event,
         cursor[w] + 1 \in 1..MaxParts
  PROVE  MetaOK'
<1>1. accepted' \in [Event -> [1..MaxParts -> Nat]]
  <2>1. PICK p \in 1..MaxParts : p = cursor[w] + 1
    OBVIOUS
  <2>2. PICK row \in [1..MaxParts -> Nat] : row = accepted[turn[w]]
    BY DEF MetaOK
  <2>3. row[p] + 1 \in Nat
    <3>1. row[p] \in Nat
      BY Zenon
    <3> QED BY <3>1
  <2>4. [row EXCEPT ![p] = row[p] + 1] \in [1..MaxParts -> Nat]
    BY <2>3
  <2>5. accepted' = [accepted EXCEPT ![turn[w]] = [row EXCEPT ![p] = row[p] + 1]]
    BY <2>1, <2>2 DEF Accept, MetaOK
  <2> QED BY <2>4, <2>5 DEF MetaOK
<1>2. late' \in [Event -> SUBSET (1..MaxParts)]
  BY DEF Accept, MetaOK
<1> QED BY <1>1, <1>2 DEF Accept, MetaOK

\* AcquireLease keeps the types and Working.
LEMMA TypeAcquireLease ==
  ASSUME TypeInv, NEW w \in Workers, AcquireLease(w)
  PROVE  TypeInv'
<1> USE AcquireLease(w) DEF TypeInv, TypeOK
<1>1. WorkerOK'
  <2>1. First(Events(w)) \in Event
    BY FirstIsEvent DEF AcquireLease, Working
  <2> QED BY <2>1 DEF AcquireLease, WorkerOK, Goto, PC
<1>2. Working'
  BY DEF AcquireLease, Goto, Working, WorkerOK, StoreOK, Plan, storeVars, localVars
<1>3. QueueOK' /\ StoreOK' /\ MetaOK' /\ EnvOK'
  BY DEF AcquireLease, queueVars, storeVars, ghostVars, envVars, QueueOK, StoreOK, MetaOK, EnvOK
<1> QED BY <1>1, <1>2, <1>3

\* LeaseBusy keeps the types and Working.
LEMMA TypeLeaseBusy ==
  ASSUME TypeInv, NEW w \in Workers, LeaseBusy(w)
  PROVE  TypeInv'
<1> USE LeaseBusy(w) DEF TypeInv, TypeOK
<1>1. lease' \in Workers \cup {NoWorker}
  BY DEF LeaseBusy, Release, WorkerOK
<1>2. WorkerOK' /\ Working'
  BY <1>1, ForgetType DEF LeaseBusy, storeVars
<1>3. QueueOK' /\ StoreOK' /\ MetaOK' /\ EnvOK'
  BY DEF LeaseBusy, queueVars, storeVars, ghostVars, envVars, QueueOK, StoreOK, MetaOK, EnvOK
<1> QED BY <1>2, <1>3

\* EnsureConversation keeps the types and Working.
LEMMA TypeEnsureConversation ==
  ASSUME TypeInv, NEW w \in Workers, EnsureConversation(w)
  PROVE  TypeInv'
<1> USE EnsureConversation(w) DEF TypeInv, TypeOK
<1>1. StoreOK'
  BY ConstantsAssumption DEF EnsureConversation, AllProcessed, Events, StoreOK, WorkerOK,
     Conversation
<1>2. WorkerOK'
  BY ConstantsAssumption DEF EnsureConversation, AllProcessed, Events, WorkerOK, Goto, PC,
     StoreOK, localVars
<1>3. Working'
  BY DEF EnsureConversation, AllProcessed, Events, Goto, Working, WorkerOK, StoreOK,
     Plan, storeVars, localVars
<1>4. QueueOK' /\ MetaOK' /\ EnvOK'
  BY DEF EnsureConversation, queueVars, ghostVars, envVars, QueueOK, MetaOK, EnvOK
<1> QED BY <1>1, <1>2, <1>3, <1>4

\* NoTurnOutbound keeps the types and Working.
LEMMA TypeNoTurnOutbound ==
  ASSUME TypeInv, NEW w \in Workers, NoTurnOutbound(w)
  PROVE  TypeInv'
<1> USE NoTurnOutbound(w) DEF TypeInv, TypeOK
<1>1. WorkerOK'
  BY ConstantsAssumption DEF NoTurnOutbound, WorkerOK, Goto, PC, StoreOK, localVars
<1>2. Working'
  BY DEF NoTurnOutbound, Goto, Working, WorkerOK, StoreOK, Plan, storeVars, localVars
<1>3. QueueOK' /\ StoreOK' /\ MetaOK' /\ EnvOK'
  BY DEF NoTurnOutbound, queueVars, storeVars, ghostVars, envVars, QueueOK, StoreOK, MetaOK, EnvOK
<1> QED BY <1>1, <1>2, <1>3

\* ResumeOutbound keeps the types and Working.
LEMMA TypeResumeOutbound ==
  ASSUME TypeInv, NEW w \in Workers, ResumeOutbound(w)
  PROVE  TypeInv'
<1> USE ResumeOutbound(w) DEF TypeInv, TypeOK
<1>1. StoreOK'
  BY ConstantsAssumption DEF ResumeOutbound, RecordOrder, ResumeAt, StoreOK, WorkerOK, Conversation
<1>2. WorkerOK'
  <2>1. outbox[turn[w]].sent \in 0..MaxParts /\ seen[w].version \in Nat
    BY DEF WorkerOK, StoreOK, Plan, Conversation
  <2> QED BY <2>1 DEF ResumeOutbound, ResumeAt, WorkerOK, Goto, PC
<1>3. Working'
  BY DEF ResumeOutbound, RecordOrder, ResumeAt, Goto, Working, WorkerOK, StoreOK,
     Plan, storeVars, localVars
<1>4. QueueOK' /\ MetaOK' /\ EnvOK'
  BY DEF ResumeOutbound, queueVars, ghostVars, envVars, QueueOK, MetaOK, EnvOK
<1> QED BY <1>1, <1>2, <1>3, <1>4

\* FetchProfile keeps the types and Working.
LEMMA TypeFetchProfile ==
  ASSUME TypeInv, NEW w \in Workers, FetchProfile(w)
  PROVE  TypeInv'
<1> USE FetchProfile(w) DEF TypeInv, TypeOK
<1>1. StoreOK'
  BY ConstantsAssumption DEF FetchProfile, StoreOK, WorkerOK, Conversation
<1>2. WorkerOK'
  BY ConstantsAssumption DEF FetchProfile, WorkerOK, Goto, PC, StoreOK, localVars
<1>3. Working'
  BY DEF FetchProfile, Goto, Working, WorkerOK, StoreOK, Plan, storeVars, localVars
<1>4. QueueOK' /\ MetaOK' /\ EnvOK'
  BY DEF FetchProfile, queueVars, ghostVars, envVars, QueueOK, MetaOK, EnvOK
<1> QED BY <1>1, <1>2, <1>3, <1>4

\* Compose keeps the types and Working.
LEMMA TypeCompose ==
  ASSUME TypeInv, NEW w \in Workers, Compose(w)
  PROVE  TypeInv'
<1> USE Compose(w) DEF TypeInv, TypeOK
<1>1. WorkerOK'
  BY ConstantsAssumption DEF Compose, WorkerOK, Goto, PC, StoreOK, localVars
<1>2. Working'
  BY DEF Compose, Goto, Working, WorkerOK, StoreOK, Plan, storeVars, localVars
<1>3. QueueOK' /\ StoreOK' /\ MetaOK' /\ EnvOK'
  BY DEF Compose, queueVars, storeVars, ghostVars, envVars, QueueOK, StoreOK, MetaOK, EnvOK
<1> QED BY <1>1, <1>2, <1>3

\* PushCreatedOrder keeps the types and Working.
LEMMA TypePushCreatedOrder ==
  ASSUME TypeInv, NEW w \in Workers, PushCreatedOrder(w)
  PROVE  TypeInv'
<1> USE PushCreatedOrder(w) DEF TypeInv, TypeOK
<1>1. StoreOK'
  BY ConstantsAssumption DEF PushCreatedOrder, RecordOrder, StoreOK, WorkerOK, Conversation
<1>2. WorkerOK'
  BY ConstantsAssumption DEF PushCreatedOrder, RecordOrder, WorkerOK, Goto, PC, StoreOK, localVars
<1>3. Working'
  BY DEF PushCreatedOrder, RecordOrder, Goto, Working, WorkerOK, StoreOK, Plan, storeVars, localVars
<1>4. QueueOK' /\ MetaOK' /\ EnvOK'
  BY DEF PushCreatedOrder, queueVars, ghostVars, envVars, QueueOK, MetaOK, EnvOK
<1> QED BY <1>1, <1>2, <1>3, <1>4

\* GuardPart keeps the types and Working.
LEMMA TypeGuardPart ==
  ASSUME TypeInv, NEW w \in Workers, GuardPart(w)
  PROVE  TypeInv'
<1> USE GuardPart(w) DEF TypeInv, TypeOK
<1>1. WorkerOK'
  BY DEF GuardPart, AfterDispatch, WorkerOK, Goto, PC, localVars
<1>2. Working'
  <2>1. cursor[w] \in Nat /\ outbox[turn[w]].parts \in Nat
    BY ConstantsAssumption DEF WorkerOK, StoreOK, Plan
  <2>2. pc'[w] = "send" => cursor[w] < outbox[turn[w]].parts
    BY <2>1 DEF GuardPart, AfterDispatch, Goto, WorkerOK
  <2>3. pc'[w] \notin {"record", "unknown"}
    BY DEF GuardPart, AfterDispatch, Goto, WorkerOK
  <2> QED BY <2>2, <2>3 DEF GuardPart, Goto, Working, WorkerOK, storeVars, localVars
<1>3. QueueOK' /\ StoreOK' /\ MetaOK' /\ EnvOK'
  BY DEF GuardPart, queueVars, storeVars, ghostVars, envVars, QueueOK, StoreOK, MetaOK, EnvOK
<1> QED BY <1>1, <1>2, <1>3

\* SendAccepted keeps the types and Working.
LEMMA TypeSendAccepted ==
  ASSUME TypeInv, NEW w \in Workers, SendAccepted(w)
  PROVE  TypeInv'
<1> USE SendAccepted(w) DEF TypeInv, TypeOK
<1>1. MetaOK'
  <2>1. turn[w] \in Event /\ cursor[w] + 1 \in 1..MaxParts
    BY NextPartExists DEF SendAccepted
  <2> QED BY <2>1, AcceptType DEF SendAccepted
<1>2. WorkerOK'
  BY ConstantsAssumption DEF SendAccepted, Accept, WorkerOK, Goto, PC, StoreOK, localVars
<1>3. Working'
  BY DEF SendAccepted, Accept, Goto, Working, WorkerOK, StoreOK, Plan, storeVars, localVars
<1>4. QueueOK' /\ StoreOK' /\ EnvOK'
  BY DEF SendAccepted, queueVars, storeVars, envVars, QueueOK, StoreOK, EnvOK
<1> QED BY <1>1, <1>2, <1>3, <1>4

\* SendAmbiguous keeps the types and Working.
LEMMA TypeSendAmbiguous ==
  ASSUME TypeInv, NEW w \in Workers, SendAmbiguous(w)
  PROVE  TypeInv'
<1> USE SendAmbiguous(w) DEF TypeInv, TypeOK
<1>1. MetaOK'
  <2>1. turn[w] \in Event /\ cursor[w] + 1 \in 1..MaxParts
    BY NextPartExists DEF SendAmbiguous
  <2>2. CASE Accept(w)
    BY <2>1, <2>2, AcceptType
  <2>3. CASE UNCHANGED <<accepted, ghostVars>>
    BY <2>3 DEF ghostVars, MetaOK
  <2> QED BY <2>2, <2>3 DEF SendAmbiguous
<1>2. WorkerOK'
  BY ConstantsAssumption DEF SendAmbiguous, Accept, WorkerOK, Goto, PC, StoreOK, localVars
<1>3. Working'
  BY DEF SendAmbiguous, Accept, Goto, Working, WorkerOK, StoreOK, Plan, storeVars, localVars
<1>4. QueueOK' /\ StoreOK' /\ EnvOK'
  BY DEF SendAmbiguous, queueVars, storeVars, envVars, QueueOK, StoreOK, EnvOK
<1> QED BY <1>1, <1>2, <1>3, <1>4

\* MarkPartSent keeps the types and Working.
LEMMA TypeMarkPartSent ==
  ASSUME TypeInv, NEW w \in Workers, MarkPartSent(w)
  PROVE  TypeInv'
<1> USE MarkPartSent(w) DEF TypeInv, TypeOK
<1>1. StoreOK'
  <2>1. turn[w] \in Event /\ cursor[w] + 1 \in 0..MaxParts
    BY NextPartExists DEF MarkPartSent
  <2>2. outbox' \in [Event -> Plan]
    BY <2>1 DEF MarkPartSent, StoreOK, Plan
  <2> QED BY <2>2 DEF MarkPartSent, StoreOK
<1>2. WorkerOK'
  <2>1. cursor[w] + 1 \in 0..MaxParts
    BY NextPartExists DEF MarkPartSent
  <2> QED BY <2>1 DEF MarkPartSent, WorkerOK, Goto, PC
<1>3. Working'
  BY DEF MarkPartSent, Goto, Working, WorkerOK, StoreOK, Plan, storeVars, localVars
<1>4. QueueOK' /\ MetaOK' /\ EnvOK'
  BY DEF MarkPartSent, queueVars, ghostVars, envVars, QueueOK, MetaOK, EnvOK
<1> QED BY <1>1, <1>2, <1>3, <1>4

\* MarkProcessed keeps the types and Working.
LEMMA TypeMarkProcessed ==
  ASSUME TypeInv, NEW w \in Workers, MarkProcessed(w)
  PROVE  TypeInv'
<1> USE MarkProcessed(w) DEF TypeInv, TypeOK
<1>1. StoreOK'
  BY ConstantsAssumption DEF MarkProcessed, AllProcessed, Events, StoreOK, WorkerOK, Conversation
<1>2. WorkerOK'
  BY ConstantsAssumption DEF MarkProcessed, AllProcessed, Events, WorkerOK, Goto, PC,
     StoreOK, localVars
<1>3. Working'
  BY DEF MarkProcessed, AllProcessed, Events, Goto, Working, WorkerOK, StoreOK,
     Plan, storeVars, localVars
<1>4. QueueOK' /\ MetaOK' /\ EnvOK'
  BY DEF MarkProcessed, queueVars, ghostVars, envVars, QueueOK, MetaOK, EnvOK
<1> QED BY <1>1, <1>2, <1>3, <1>4

\* Acknowledge keeps the types and Working.
LEMMA TypeAcknowledge ==
  ASSUME TypeInv, NEW w \in Workers, Acknowledge(w)
  PROVE  TypeInv'
<1> USE Acknowledge(w) DEF TypeInv, TypeOK
<1>1. lease' \in Workers \cup {NoWorker}
  BY DEF Acknowledge, Release, WorkerOK
<1>2. WorkerOK' /\ Working'
  BY <1>1, ForgetType DEF Acknowledge, storeVars
<1>3. QueueOK'
  BY ConstantsAssumption DEF Acknowledge, QueueOK
<1>4. StoreOK' /\ MetaOK' /\ EnvOK'
  BY DEF Acknowledge, storeVars, ghostVars, envVars, StoreOK, MetaOK, EnvOK
<1> QED BY <1>2, <1>3, <1>4

\* LeavePending keeps the types and Working.
LEMMA TypeLeavePending ==
  ASSUME TypeInv, NEW w \in Workers, LeavePending(w)
  PROVE  TypeInv'
<1> USE LeavePending(w) DEF TypeInv, TypeOK
<1>1. lease' \in Workers \cup {NoWorker}
  BY DEF LeavePending, Release, WorkerOK
<1>2. WorkerOK' /\ Working'
  BY <1>1, ForgetType DEF LeavePending, storeVars
<1>3. QueueOK' /\ StoreOK' /\ MetaOK' /\ EnvOK'
  BY DEF LeavePending, queueVars, storeVars, ghostVars, envVars, QueueOK, StoreOK, MetaOK, EnvOK
<1> QED BY <1>2, <1>3

\* AbandonTurn keeps the types and Working.
LEMMA TypeAbandonTurn ==
  ASSUME TypeInv, NEW w \in Workers, AbandonTurn(w)
  PROVE  TypeInv'
<1> USE AbandonTurn(w) DEF TypeInv, TypeOK
<1>1. lease' \in Workers \cup {NoWorker}
  BY DEF AbandonTurn, Release, WorkerOK
<1>2. WorkerOK' /\ Working'
  BY <1>1, ForgetType DEF AbandonTurn, storeVars
<1>3. QueueOK' /\ StoreOK' /\ MetaOK' /\ EnvOK'
  BY DEF AbandonTurn, queueVars, storeVars, ghostVars, envVars, QueueOK, StoreOK, MetaOK, EnvOK
<1> QED BY <1>2, <1>3

\* ExpireLease keeps the types and Working.
LEMMA TypeExpireLease ==
  ASSUME TypeInv, NEW w \in Workers, ExpireLease(w)
  PROVE  TypeInv'
<1> USE ExpireLease(w) DEF TypeInv, TypeOK
<1>1. WorkerOK'
  BY ConstantsAssumption DEF ExpireLease, WorkerOK, Goto, PC, StoreOK, localVars
<1>2. EnvOK'
  BY ConstantsAssumption DEF ExpireLease, EnvOK
<1>3. Working'
  BY DEF ExpireLease, Goto, Working, WorkerOK, StoreOK, Plan, storeVars, localVars
<1>4. QueueOK' /\ StoreOK' /\ MetaOK'
  BY DEF ExpireLease, queueVars, storeVars, ghostVars, QueueOK, StoreOK, MetaOK
<1> QED BY <1>1, <1>2, <1>3, <1>4

\* StopWorker keeps the types and Working.
LEMMA TypeStopWorker ==
  ASSUME TypeInv, NEW w \in Workers, StopWorker(w)
  PROVE  TypeInv'
<1> USE StopWorker(w) DEF TypeInv, TypeOK
<1>1. lease' \in Workers \cup {NoWorker}
  BY DEF StopWorker, Release, WorkerOK
<1>2. WorkerOK' /\ Working'
  BY <1>1, ForgetType DEF StopWorker, storeVars
<1>3. EnvOK'
  BY ConstantsAssumption DEF StopWorker, Fault, EnvOK
<1>4. QueueOK' /\ StoreOK' /\ MetaOK'
  BY DEF StopWorker, queueVars, storeVars, ghostVars, QueueOK, StoreOK, MetaOK
<1> QED BY <1>2, <1>3, <1>4

\* CrashWorker keeps the types and Working.
LEMMA TypeCrashWorker ==
  ASSUME TypeInv, NEW w \in Workers, CrashWorker(w)
  PROVE  TypeInv'
<1> USE CrashWorker(w) DEF TypeInv, TypeOK
<1>1. lease' \in Workers \cup {NoWorker}
  BY DEF CrashWorker, Release, WorkerOK
<1>2. WorkerOK' /\ Working'
  BY <1>1, ForgetType DEF CrashWorker, storeVars
<1>3. EnvOK'
  BY ConstantsAssumption DEF CrashWorker, Fault, EnvOK
<1>4. QueueOK' /\ StoreOK' /\ MetaOK'
  BY DEF CrashWorker, queueVars, storeVars, ghostVars, QueueOK, StoreOK, MetaOK
<1> QED BY <1>2, <1>3, <1>4

\* LeaseLostAtEnd keeps the types and Working.
LEMMA TypeLeaseLostAtEnd ==
  ASSUME TypeInv, NEW w \in Workers, LeaseLostAtEnd(w)
  PROVE  TypeInv'
<1> USE LeaseLostAtEnd(w) DEF TypeInv, TypeOK
<1>1. QueueOK' /\ WorkerOK' /\ Working'
  BY RetryType, ConstantsAssumption DEF LeaseLostAtEnd, storeVars
<1>2. StoreOK' /\ MetaOK' /\ EnvOK'
  BY DEF LeaseLostAtEnd, storeVars, ghostVars, envVars, StoreOK, MetaOK, EnvOK
<1> QED BY <1>1, <1>2

\* SendRejected keeps the types and Working.
LEMMA TypeSendRejected ==
  ASSUME TypeInv, NEW w \in Workers, SendRejected(w)
  PROVE  TypeInv'
<1> USE SendRejected(w) DEF TypeInv, TypeOK
<1>1. QueueOK' /\ WorkerOK' /\ Working'
  BY RetryType, ConstantsAssumption DEF SendRejected, storeVars
<1>2. StoreOK' /\ MetaOK' /\ EnvOK'
  BY DEF SendRejected, storeVars, ghostVars, envVars, StoreOK, MetaOK, EnvOK
<1> QED BY <1>1, <1>2

\* CallFails keeps the types and Working.
LEMMA TypeCallFails ==
  ASSUME TypeInv, NEW w \in Workers, CallFails(w)
  PROVE  TypeInv'
<1> USE CallFails(w) DEF TypeInv, TypeOK
<1>1. QueueOK' /\ WorkerOK' /\ Working'
  BY RetryType, ConstantsAssumption DEF CallFails, storeVars
<1>2. EnvOK'
  BY ConstantsAssumption DEF CallFails, Fault, EnvOK
<1>3. StoreOK' /\ MetaOK'
  BY DEF CallFails, storeVars, ghostVars, StoreOK, MetaOK
<1> QED BY <1>1, <1>2, <1>3

\* The commits: the conversation, the row of the turn, the cursor.
LEMMA SwapType ==
  ASSUME TypeInv, NEW w \in Workers, NEW human \in {"bot", "human", "paused"},
         NEW order \in OrderAfter(w), SwapConversation(w, human, order)
  PROVE  conv' \in Conversation /\ order \in Event \cup {0}
<1>1. order \in Event \cup {0} /\ conv.version + 1 \in Nat
  BY DEF TypeInv, TypeOK, StoreOK, WorkerOK, Conversation, OrderAfter
<1> QED BY <1>1 DEF SwapConversation, Conversation

\* A commit keeps the store, worker and history types, and leaves parts to send.
LEMMA CommitPlanType ==
  ASSUME TypeInv, NEW w \in Workers, NEW human \in {"bot", "human", "paused"},
         NEW order \in OrderAfter(w), NEW plan \in Plan,
         NEW l \in PC \ {"send", "record", "unknown"}, CommitPlan(w, human, order, plan),
         Goto(w, l), UNCHANGED <<named, inbox, lease, batch, turn, resumed, retried>>,
         UNCHANGED <<accepted, late>>, plan.parts > 0, pc[w] = "commit"
  PROVE  StoreOK' /\ MetaOK' /\ WorkerOK' /\ Working'
<1> USE DEF TypeInv, TypeOK
<1>1. conv' \in Conversation /\ order \in Event \cup {0}
  BY SwapType DEF CommitPlan
<1>2. outbox' \in [Event -> Plan]
  BY DEF CommitPlan, StoreOK, WorkerOK
<1>3. StoreOK'
  BY <1>1, <1>2 DEF CommitPlan, StoreOK, Plan
<1>4. MetaOK'
  BY DEF CommitPlan, MetaOK, WorkerOK, BatchContent, Events, Content
<1>5. seen' \in [Workers -> Conversation]
  BY <1>1 DEF CommitPlan, WorkerOK, Conversation
<1>6. conv.version + 1 \in Nat /\ outbox'[turn[w]].sent \in 0..MaxParts
  BY <1>2 DEF StoreOK, WorkerOK, Conversation, Plan
<1>7. WorkerOK'
  BY <1>5, <1>6 DEF CommitPlan, WorkerOK, Goto
<1>8. \A e \in Event : outbox[e].parts > 0 => outbox'[e].parts = outbox[e].parts
  BY DEF CommitPlan, StoreOK
<1>9. \A v \in Workers : pc[v] \in {"send", "record", "unknown"}
         => outbox[turn[v]].parts > 0 /\ turn[v] \in Event
  BY ConstantsAssumption DEF Working, WorkerOK, StoreOK, Plan
<1>10. Working'
  <2> SUFFICES ASSUME NEW v \in Workers
               PROVE  /\ pc'[v] # "idle" => batch'[v] # {}
                      /\ pc'[v] \in {"send", "record", "unknown"}
                           => cursor'[v] < outbox'[turn'[v]].parts
    BY DEF Working
  <2>1. CASE v = w
    BY <2>1 DEF Goto, WorkerOK, Working
  <2>2. CASE v # w
    BY <2>2, <1>8, <1>9 DEF Goto, WorkerOK, Working, CommitPlan
  <2> QED BY <2>1, <2>2
<1> QED BY <1>3, <1>4, <1>7, <1>10

\* ReadGroup keeps the types and Working.
LEMMA TypeReadGroup ==
  ASSUME TypeInv, NEW w \in Workers, NEW claimed \in SUBSET Event, ReadGroup(w, claimed)
  PROVE  TypeInv'
<1> USE ReadGroup(w, claimed) DEF TypeInv, TypeOK
<1> DEFINE own   == {e \in Event : stage[e] = "live" /\ owner[e] = w} \cup claimed
           fresh == {e \in Event : stage[e] = "live" /\ owner[e] = NoWorker}
           read  == IF own = {} \/ own \cap Content # {} THEN own \cup fresh ELSE own
<1>1. /\ read # {} /\ read \subseteq Event
      /\ owner' = [e \in Event |-> IF e \in read THEN w ELSE owner[e]]
      /\ batch' = [batch EXCEPT ![w] = {<<e, attempt[e]>> : e \in read}]
  BY DEF ReadGroup
<1> HIDE DEF read
<1>2. QueueOK'
  BY <1>1 DEF ReadGroup, QueueOK
<1>3. {<<e, attempt[e]>> : e \in read} \in SUBSET (Event \X Nat)
  <2>1. \A e \in read : e \in Event /\ attempt[e] \in Nat
    BY <1>1, ConstantsAssumption DEF QueueOK
  <2> QED BY <2>1
<1>4. WorkerOK'
  BY <1>1, <1>3 DEF ReadGroup, WorkerOK, Goto, PC
<1>5. {<<e, attempt[e]>> : e \in read} # {}
  BY <1>1
<1>6. Working'
  BY <1>1, <1>5 DEF ReadGroup, Goto, Working, WorkerOK, storeVars
<1>7. StoreOK' /\ MetaOK' /\ EnvOK'
  BY DEF ReadGroup, storeVars, ghostVars, envVars, StoreOK, MetaOK, EnvOK
<1> QED BY <1>2, <1>4, <1>6, <1>7

\* CommitTurnBlocked keeps the types and Working.
LEMMA TypeCommitTurnBlocked ==
  ASSUME TypeInv, NEW w \in Workers, CommitTurnBlocked(w)
  PROVE  TypeInv'
<1> USE CommitTurnBlocked(w) DEF TypeInv, TypeOK
<1>1. conv' \in Conversation
  BY SwapType DEF CommitTurnBlocked
<1>2. BatchContent(w) \subseteq Event
  BY DEF BatchContent, Events, WorkerOK
<1>3. StoreOK'
  BY <1>1, <1>2 DEF CommitTurnBlocked, StoreOK
<1>4. MetaOK'
  <2>1. UNCHANGED <<accepted, late>>
    BY DEF CommitTurnBlocked
  <2>2. served' \in [Event -> SUBSET Event]
    <3>1. turn[w] \in Event /\ served \in [Event -> SUBSET Event]
      BY DEF WorkerOK, MetaOK
    <3>2. served' = [served EXCEPT ![turn[w]] = served[turn[w]] \cup BatchContent(w)]
      BY DEF CommitTurnBlocked
    <3>3. served[turn[w]] \cup BatchContent(w) \in SUBSET Event
      BY <1>2, <3>1
    <3> QED BY <3>1, <3>2, <3>3
  <2> QED BY <2>1, <2>2 DEF MetaOK
<1>5. WorkerOK' /\ Working'
  BY DEF CommitTurnBlocked, Goto, localVars, WorkerOK, Working, PC
<1>6. QueueOK' /\ EnvOK'
  BY DEF CommitTurnBlocked, queueVars, envVars, QueueOK, EnvOK
<1> QED BY <1>3, <1>4, <1>5, <1>6

\* CommitTurn keeps the types and Working.
LEMMA TypeCommitTurn ==
  ASSUME TypeInv, NEW w \in Workers, CommitTurn(w)
  PROVE  TypeInv'
<1> USE CommitTurn(w) DEF TypeInv, TypeOK
<1>1. PICK parts \in 1..MaxParts, human \in {"bot", "paused"}, order \in OrderAfter(w) :
        CommitPlan(w, human, order,
          NewPlan(parts, conv.version + 1, BatchContent(w), FALSE, order))
  BY DEF CommitTurn
<1> DEFINE plan == NewPlan(parts, conv.version + 1, BatchContent(w), FALSE, order)
<1>2. /\ BatchContent(w) \subseteq Event
      /\ conv.version + 1 \in Nat /\ order \in Event \cup {0}
  BY DEF BatchContent, Events, WorkerOK, StoreOK, Conversation, OrderAfter
<1>3. plan \in Plan /\ plan.parts > 0
  <2>1. parts \in 0..MaxParts /\ 0 \in 0..MaxParts /\ parts > 0
    BY ConstantsAssumption
  <2> QED BY <1>2, <2>1 DEF Plan, NewPlan
<1> HIDE DEF plan
<1>4. StoreOK' /\ MetaOK' /\ WorkerOK' /\ Working'
  BY <1>1, <1>3, CommitPlanType, "push" \in PC \ {"send", "record", "unknown"}
     DEF CommitTurn, PC, plan
<1>5. QueueOK' /\ EnvOK'
  BY DEF CommitTurn, queueVars, envVars, QueueOK, EnvOK
<1> QED BY <1>4, <1>5

\* CommitImageTurn keeps the types and Working.
LEMMA TypeCommitImageTurn ==
  ASSUME TypeInv, NEW w \in Workers, CommitImageTurn(w)
  PROVE  TypeInv'
<1> USE CommitImageTurn(w) DEF TypeInv, TypeOK
<1> DEFINE plan == NewPlan(1, conv.version + 1, BatchContent(w) \cap Images, TRUE, 0)
<1>1. CommitPlan(w, "human", conv.order, plan) /\ conv.order \in OrderAfter(w)
  BY DEF CommitImageTurn, OrderAfter
<1>2. BatchContent(w) \subseteq Event /\ conv.version + 1 \in Nat
  BY DEF BatchContent, Events, WorkerOK, StoreOK, Conversation
<1>3. plan \in Plan /\ plan.parts > 0
  <2>1. 1 \in 0..MaxParts /\ 0 \in 0..MaxParts
    BY ConstantsAssumption
  <2> QED BY <1>2, <2>1 DEF Plan, NewPlan
<1> HIDE DEF plan
<1>4. StoreOK' /\ MetaOK' /\ WorkerOK' /\ Working'
  BY <1>1, <1>3, CommitPlanType, "guard" \in PC \ {"send", "record", "unknown"}
     DEF CommitImageTurn, PC
<1>5. QueueOK' /\ EnvOK'
  BY DEF CommitImageTurn, queueVars, envVars, QueueOK, EnvOK
<1> QED BY <1>4, <1>5

\* StateConflict keeps the types and Working.
LEMMA TypeStateConflict ==
  ASSUME TypeInv, NEW w \in Workers, StateConflict(w)
  PROVE  TypeInv'
<1> USE StateConflict(w) DEF TypeInv, TypeOK
<1>1. UNCHANGED <<storeVars, accepted, envVars, ghostVars>>
  BY DEF StateConflict
<1>2. StoreOK' /\ MetaOK' /\ EnvOK'
  BY <1>1 DEF storeVars, ghostVars, envVars, StoreOK, MetaOK, EnvOK
<1>3. CASE RetryOrDeadLetter(w, MaxAttempts)
  BY <1>1, <1>2, <1>3, RetryType, ConstantsAssumption DEF storeVars
<1>4. CASE /\ retried' = [retried EXCEPT ![w] = TRUE]
           /\ Goto(w, "load")
           /\ UNCHANGED <<queueVars, lease, batch, seen, turn, expected, cursor, resumed>>
  <2>1. QueueOK'
    BY <1>4 DEF queueVars, QueueOK
  <2>2. WorkerOK'
    BY <1>4 DEF WorkerOK, Goto, PC
  <2>3. Working'
    BY <1>1, <1>4 DEF StateConflict, storeVars, Working, WorkerOK, Goto
  <2> QED BY <1>2, <2>1, <2>2, <2>3
<1> QED BY <1>3, <1>4 DEF StateConflict

\* MarkOutboundUnknown keeps the types and Working.
LEMMA TypeMarkOutboundUnknown ==
  ASSUME TypeInv, NEW w \in Workers, MarkOutboundUnknown(w)
  PROVE  TypeInv'
<1> USE MarkOutboundUnknown(w) DEF TypeInv, TypeOK
<1>1. turn[w] \in Event /\ cursor[w] \in 0..MaxParts
  BY DEF WorkerOK
<1>2. outbox' \in [Event -> Plan]
  BY <1>1 DEF MarkOutboundUnknown, HeldAt, StoreOK, Plan
<1>3. \A e \in Event : outbox'[e].parts = outbox[e].parts
  BY DEF MarkOutboundUnknown, StoreOK, Plan
<1>4. QueueOK'
  BY ConstantsAssumption
     DEF MarkOutboundUnknown, QueueOK, RetryOrDeadLetter, Exhausted
<1>5. Forget(w) /\ lease' \in Workers \cup {NoWorker}
  BY DEF MarkOutboundUnknown, RetryOrDeadLetter, Release, WorkerOK
<1>6. WorkerOK'
  BY <1>5, ConstantsAssumption
     DEF WorkerOK, Forget, Goto, PC, Event, Conversation, NewConversation
<1>7. Working'
  BY <1>3, <1>5 DEF Working, WorkerOK, Forget, Goto
<1>8. StoreOK' /\ MetaOK' /\ EnvOK'
  BY <1>2 DEF MarkOutboundUnknown, ghostVars, envVars, StoreOK, MetaOK, EnvOK
<1> QED BY <1>4, <1>6, <1>7, <1>8

\* Each step keeps the types.
LEMMA TypeStep == TypeInv /\ [Next]_vars => TypeInv'
<1> SUFFICES ASSUME TypeInv, [Next]_vars PROVE TypeInv'
  OBVIOUS
<1>1. CASE Webhook \/ MarkHumanTakeover
  BY <1>1, TypeWebhook
<1>2. ASSUME NEW w \in Workers, Turn(w) PROVE TypeInv'
  BY <1>2, TypeReadGroup, TypeAcquireLease, TypeLeaseBusy, TypeEnsureConversation,
     TypeResumeOutbound, TypeNoTurnOutbound, TypeFetchProfile, TypeCompose,
     TypeCommitTurnBlocked, TypeCommitTurn, TypeCommitImageTurn, TypeStateConflict,
     TypePushCreatedOrder, TypeGuardPart, TypeSendAccepted, TypeSendAmbiguous,
     TypeSendRejected, TypeMarkPartSent, TypeMarkOutboundUnknown, TypeMarkProcessed,
     TypeAcknowledge, TypeLeavePending, TypeLeaseLostAtEnd, TypeAbandonTurn
     DEF Turn
<1>3. ASSUME NEW w \in Workers, Disturb(w) PROVE TypeInv'
  BY <1>3, TypeExpireLease, TypeStopWorker, TypeCrashWorker, TypeCallFails DEF Disturb
<1>4. CASE UNCHANGED vars
  BY <1>4 DEF vars, queueVars, storeVars, localVars, envVars, ghostVars, TypeInv, TypeOK,
              QueueOK, StoreOK, MetaOK, WorkerOK, EnvOK, Working
<1> QED BY <1>1, <1>2, <1>3, <1>4 DEF Next

\* Type correctness: whatever the interleaving, crash or lost lease, every
\* variable keeps its type and no attempt number reaches the limit.
THEOREM TypeCorrect == Spec => []TypeOK
<1>1. Spec => []TypeInv
  BY TypeInit, TypeStep, PTL DEF Spec
<1>2. TypeInv => TypeOK
  BY DEF TypeInv
<1> QED BY <1>1, <1>2, PTL
-----------------------------------------------------------------------------
(* Staff keep the conversation. A worker may overwrite the conversation row  *)
(* only if the row it loaded was the bot's and is still current. The profile *)
(* lookup reloads the row without looking at its owner again, so the theorem *)
(* needs a customer whose name is known.                                     *)

\* The steps between loading the conversation row and committing the turn.
Loaded == {"find", "compose", "block", "commit"}

\* A loaded row is not from the future; while it is current the bot owns it.
FreshOrStale(w) ==
  pc[w] \in Loaded =>
    /\ seen[w].version <= conv.version
    /\ seen[w].version = conv.version => conv.human = "bot"

KnowsOwner ==
  /\ named
  /\ \A w \in Workers : pc[w] # "profile" /\ FreshOrStale(w)

\* A step keeps KnowsOwner if it loads nothing and leaves the row alone or
\* moves its version.
LEMMA OwnerKept ==
  ASSUME TypeInv, KnowsOwner, named' = named,
         conv' = conv \/ conv'.version = conv.version + 1,
         \A v \in Workers : pc'[v] \in Loaded => pc[v] \in Loaded /\ seen'[v] = seen[v],
         \A v \in Workers : pc'[v] # "profile"
  PROVE  KnowsOwner'
<1>1. conv.version \in Nat /\ \A v \in Workers : seen[v].version \in Nat
  BY DEF TypeInv, TypeOK, StoreOK, WorkerOK, Conversation
<1>2. ASSUME NEW v \in Workers, pc'[v] \in Loaded
      PROVE  /\ seen'[v].version <= conv'.version
             /\ seen'[v].version = conv'.version => conv'.human = "bot"
  <2>1. /\ seen'[v] = seen[v]
        /\ seen[v].version <= conv.version
        /\ seen[v].version = conv.version => conv.human = "bot"
    BY <1>2 DEF KnowsOwner, FreshOrStale
  <2> QED BY <1>1, <2>1
<1> QED BY <1>2 DEF KnowsOwner, FreshOrStale

\* A step that sends a worker to a place where it holds no row.
LEMMA OwnerKeptByExit ==
  ASSUME TypeInv, KnowsOwner, named' = named,
         conv' = conv \/ conv'.version = conv.version + 1,
         NEW w \in Workers, NEW l \in PC \ (Loaded \cup {"profile"}), Goto(w, l),
         \A v \in Workers \ {w} : seen'[v] = seen[v]
  PROVE  KnowsOwner'
<1>1. pc'[w] = l /\ \A v \in Workers \ {w} : pc'[v] = pc[v]
  BY DEF Goto, TypeInv, TypeOK, WorkerOK
<1>2. \A v \in Workers : pc'[v] \in Loaded => pc[v] \in Loaded /\ seen'[v] = seen[v]
  BY <1>1
<1>3. \A v \in Workers : pc'[v] # "profile"
  BY <1>1 DEF KnowsOwner
<1> QED BY <1>2, <1>3, OwnerKept

\* A worker that forgets its turn holds no row.
LEMMA OwnerKeptByForget ==
  ASSUME TypeInv, KnowsOwner, NEW w \in Workers, Forget(w), UNCHANGED <<named, conv>>
  PROVE  KnowsOwner'
<1>1. "idle" \in PC \ (Loaded \cup {"profile"})
  BY DEF PC, Loaded
<1>2. \A v \in Workers \ {w} : seen'[v] = seen[v]
  BY DEF Forget, TypeInv, TypeOK, WorkerOK
<1> QED BY <1>1, <1>2, OwnerKeptByExit DEF Forget

\* Loading the conversation row keeps it only while the bot owns it.
LEMMA OwnerKeptByLoad ==
  ASSUME TypeInv, KnowsOwner, NEW w \in Workers, EnsureConversation(w)
  PROVE  KnowsOwner'
<1> USE EnsureConversation(w)
<1>1. seen' = [seen EXCEPT ![w] = conv] /\ UNCHANGED <<conv, named>>
  BY DEF EnsureConversation
<1>2. seen'[w] = conv /\ \A v \in Workers \ {w} : seen'[v] = seen[v]
  BY <1>1 DEF TypeInv, TypeOK, WorkerOK
<1>3. CASE Muted(w)
  BY <1>1, <1>2, <1>3, OwnerKeptByExit, "done" \in PC \ (Loaded \cup {"profile"})
     DEF EnsureConversation, PC, Loaded
<1>4. CASE ~Muted(w)
  <2>1. conv.human = "bot" /\ Goto(w, "find")
    BY <1>4 DEF EnsureConversation, Muted
  <2>2. pc'[w] = "find" /\ \A v \in Workers \ {w} : pc'[v] = pc[v]
    BY <2>1 DEF Goto, TypeInv, TypeOK, WorkerOK
  <2>3. conv.version \in Nat
    BY DEF TypeInv, TypeOK, StoreOK, Conversation
  <2>4. ASSUME NEW v \in Workers PROVE (pc[v] # "profile" /\ FreshOrStale(v))'
    <3>1. CASE v = w
      BY <1>1, <1>2, <2>1, <2>2, <2>3, <3>1 DEF FreshOrStale
    <3>2. CASE v # w
      BY <1>1, <1>2, <2>2, <3>2 DEF KnowsOwner, FreshOrStale
    <3> QED BY <3>1, <3>2
  <2> QED BY <1>1, <2>4 DEF KnowsOwner
<1> QED BY <1>3, <1>4

\* A worker between load and commit keeps the row it loaded.
LEMMA OwnerKeptOnTheWay ==
  ASSUME TypeInv, KnowsOwner, NEW w \in Workers, NoTurnOutbound(w) \/ Compose(w)
  PROVE  KnowsOwner'
<1>1. UNCHANGED <<named, conv, seen>> /\ pc[w] \in Loaded
  BY DEF NoTurnOutbound, Compose, storeVars, localVars, Loaded
<1>2. PICK l \in PC \ {"profile"} : Goto(w, l)
  <2>1. CASE NoTurnOutbound(w)
    BY <2>1 DEF NoTurnOutbound, KnowsOwner, PC
  <2>2. CASE Compose(w)
    BY <2>2 DEF Compose, PC
  <2> QED BY <2>1, <2>2
<1>3. pc'[w] = l /\ \A v \in Workers \ {w} : pc'[v] = pc[v]
  BY <1>2 DEF Goto, TypeInv, TypeOK, WorkerOK
<1>4. \A v \in Workers : pc'[v] \in Loaded => pc[v] \in Loaded /\ seen'[v] = seen[v]
  BY <1>1, <1>3
<1>5. \A v \in Workers : pc'[v] # "profile"
  BY <1>2, <1>3 DEF KnowsOwner
<1> QED BY <1>1, <1>4, <1>5, OwnerKept

\* A commit moves the version, so no other loaded row stays current.
LEMMA OwnerKeptByCommit ==
  ASSUME TypeInv, KnowsOwner, NEW w \in Workers,
         CommitTurnBlocked(w) \/ CommitTurn(w) \/ CommitImageTurn(w)
  PROVE  KnowsOwner'
<1>1. conv'.version = conv.version + 1 /\ named' = named
  <2>1. \A human, order : SwapConversation(w, human, order)
                           => conv'.version = conv.version + 1
    BY DEF SwapConversation
  <2>2. \A human, order, plan : CommitPlan(w, human, order, plan)
                                 => conv'.version = conv.version + 1
    BY <2>1 DEF CommitPlan
  <2> QED BY <2>1, <2>2 DEF CommitTurnBlocked, CommitTurn, CommitImageTurn
<1>2. PICK l \in PC \ (Loaded \cup {"profile"}) : Goto(w, l)
  BY DEF CommitTurnBlocked, CommitTurn, CommitImageTurn, PC, Loaded
<1>3. \A v \in Workers \ {w} : seen'[v] = seen[v]
  BY DEF CommitTurnBlocked, CommitTurn, CommitImageTurn, CommitPlan, localVars,
         TypeInv, TypeOK, WorkerOK
<1> QED BY <1>1, <1>2, <1>3, OwnerKeptByExit

\* The steps of a worker that neither load the row nor change it.
LEMMA OwnerKeptElsewhere ==
  ASSUME TypeInv, KnowsOwner, NEW w \in Workers,
         \/ \E claimed \in SUBSET Event : ReadGroup(w, claimed)
         \/ AcquireLease(w) \/ ResumeOutbound(w) \/ PushCreatedOrder(w)
         \/ GuardPart(w) \/ SendAccepted(w) \/ SendAmbiguous(w)
         \/ MarkPartSent(w) \/ MarkProcessed(w)
  PROVE  KnowsOwner'
<1>1. UNCHANGED <<named, conv, seen>>
  BY DEF ReadGroup, AcquireLease, ResumeOutbound, PushCreatedOrder, GuardPart,
         SendAccepted, SendAmbiguous, MarkPartSent, MarkProcessed, storeVars, localVars
<1>2. PICK l \in PC \ (Loaded \cup {"profile"}) : Goto(w, l)
  BY DEF ReadGroup, AcquireLease, ResumeOutbound, PushCreatedOrder, GuardPart,
         SendAccepted, SendAmbiguous, MarkPartSent, MarkProcessed, AfterDispatch,
         PC, Loaded
<1> QED BY <1>1, <1>2, OwnerKeptByExit

\* The steps that end a turn.
LEMMA OwnerKeptAtEnd ==
  ASSUME TypeInv, KnowsOwner, NEW w \in Workers,
         \/ LeaseBusy(w) \/ Acknowledge(w) \/ LeavePending(w) \/ LeaseLostAtEnd(w)
         \/ AbandonTurn(w) \/ StopWorker(w) \/ CrashWorker(w) \/ CallFails(w)
         \/ SendRejected(w) \/ MarkOutboundUnknown(w)
  PROVE  KnowsOwner'
<1>1. Forget(w)
  BY DEF LeaseBusy, Acknowledge, LeavePending, LeaseLostAtEnd, AbandonTurn, StopWorker,
         CrashWorker, CallFails, SendRejected, MarkOutboundUnknown, RetryOrDeadLetter
<1>2. UNCHANGED <<named, conv>>
  BY DEF LeaseBusy, Acknowledge, LeavePending, LeaseLostAtEnd, AbandonTurn, StopWorker,
         CrashWorker, CallFails, SendRejected, MarkOutboundUnknown, storeVars
<1> QED BY <1>1, <1>2, OwnerKeptByForget

\* A conflict sends the worker back to loading, or ends its turn.
LEMMA OwnerKeptByConflict ==
  ASSUME TypeInv, KnowsOwner, NEW w \in Workers, StateConflict(w)
  PROVE  KnowsOwner'
<1>1. UNCHANGED <<named, conv>>
  BY DEF StateConflict, storeVars
<1>2. CASE RetryOrDeadLetter(w, MaxAttempts)
  BY <1>1, <1>2, OwnerKeptByForget DEF RetryOrDeadLetter
<1>3. CASE Goto(w, "load") /\ UNCHANGED seen
  BY <1>1, <1>3, OwnerKeptByExit, "load" \in PC \ (Loaded \cup {"profile"})
     DEF PC, Loaded
<1> QED BY <1>2, <1>3 DEF StateConflict

\* Every step keeps KnowsOwner.
LEMMA OwnerStep == TypeInv /\ KnowsOwner /\ [Next]_vars => KnowsOwner'
<1> SUFFICES ASSUME TypeInv, KnowsOwner, [Next]_vars PROVE KnowsOwner'
  OBVIOUS
<1>1. CASE Webhook
  BY <1>1 DEF Webhook, PersistInbound, Enqueue, LoseEnqueue, storeVars, localVars,
              KnowsOwner, FreshOrStale
<1>2. CASE MarkHumanTakeover
  <2>1. conv'.version = conv.version + 1 /\ UNCHANGED <<named, pc, seen>>
    BY <1>2 DEF MarkHumanTakeover, localVars, TypeInv, TypeOK, StoreOK, Conversation
  <2> QED BY <2>1, OwnerKept DEF KnowsOwner
<1>3. ASSUME NEW w \in Workers, Turn(w) PROVE KnowsOwner'
  <2>1. CASE FetchProfile(w)
    BY <2>1 DEF FetchProfile, KnowsOwner
  <2> QED BY <1>3, <2>1, OwnerKeptByLoad, OwnerKeptOnTheWay, OwnerKeptByCommit,
             OwnerKeptElsewhere, OwnerKeptAtEnd, OwnerKeptByConflict DEF Turn
<1>4. ASSUME NEW w \in Workers, Disturb(w) PROVE KnowsOwner'
  <2>1. CASE ExpireLease(w)
    BY <2>1 DEF ExpireLease, storeVars, localVars, KnowsOwner, FreshOrStale
  <2> QED BY <1>4, <2>1, OwnerKeptAtEnd DEF Disturb
<1>5. CASE UNCHANGED vars
  BY <1>5 DEF vars, storeVars, localVars, KnowsOwner, FreshOrStale
<1> QED BY <1>1, <1>2, <1>3, <1>4, <1>5 DEF Next

\* No step takes the conversation back from staff.
LEMMA HumanStays ==
  ASSUME TypeInv, KnowsOwner, [Next]_vars, conv.human = "human"
  PROVE  conv'.human = "human"
<1>1. ASSUME NEW w \in Workers, pc[w] \in Loaded PROVE conv.version # seen[w].version
  BY <1>1 DEF KnowsOwner, FreshOrStale
<1>2. ASSUME NEW w \in Workers, Turn(w) \/ Disturb(w) PROVE conv' = conv
  <2>1. ~CommitTurnBlocked(w) /\ ~CommitTurn(w) /\ ~CommitImageTurn(w)
    BY <1>1 DEF CommitTurnBlocked, CommitTurn, CommitImageTurn, CommitPlan,
                SwapConversation, Loaded
  <2>2. CASE Turn(w)
    BY <2>1, <2>2
       DEF Turn, ReadGroup, AcquireLease, LeaseBusy, EnsureConversation, ResumeOutbound,
           NoTurnOutbound, FetchProfile, Compose, StateConflict, PushCreatedOrder,
           GuardPart, SendAccepted, SendAmbiguous, SendRejected, MarkPartSent,
           MarkOutboundUnknown, MarkProcessed, Acknowledge, LeavePending,
           LeaseLostAtEnd, AbandonTurn, storeVars
  <2>3. CASE Disturb(w)
    BY <2>3 DEF Disturb, ExpireLease, StopWorker, CrashWorker, CallFails, storeVars
  <2> QED BY <1>2, <2>2, <2>3
<1>3. Webhook => conv' = conv
  BY DEF Webhook, PersistInbound, Enqueue, LoseEnqueue, storeVars
<1>4. MarkHumanTakeover => conv'.human = "human"
  BY DEF MarkHumanTakeover, TypeInv, TypeOK, StoreOK, Conversation
<1> QED BY <1>2, <1>3, <1>4 DEF Next, vars, storeVars

\* Once staff own a conversation whose customer's name is known, no turn of any
\* worker, however late or retried, hands it back to the bot.
THEOREM TakeoverHolds == NameKnown => (Spec => HumanKeepsConversation)
<1> SUFFICES ASSUME NameKnown PROVE Spec => HumanKeepsConversation
  OBVIOUS
<1>1. Init => TypeInv /\ KnowsOwner
  BY TypeInit DEF Init, KnowsOwner, FreshOrStale, Loaded
<1>2. TypeInv /\ KnowsOwner /\ [Next]_vars => (TypeInv /\ KnowsOwner)'
  BY TypeStep, OwnerStep
<1>3. TypeInv /\ KnowsOwner /\ [Next]_vars
        => [conv.human = "human" => conv'.human = "human"]_vars
  BY HumanStays
<1> QED BY <1>1, <1>2, <1>3, PTL DEF Spec, HumanKeepsConversation

-----------------------------------------------------------------------------
(* The stored cursor of a reply counts only parts Meta accepted. The worker's *)
(* cursor in memory is part of the invariant: it is what gets stored.         *)

\* From the committed plan to the last part.
Dispatching == {"push", "guard", "send", "record", "unknown"}

\* Meta accepted the first n parts of the reply of turn e.
Backed(e, n) == \A p \in 1..n : accepted[e][p] > 0

CursorInv ==
  /\ \A e \in Event : Backed(e, outbox[e].sent)
  /\ \A w \in Workers : pc[w] \in Dispatching => Backed(turn[w], cursor[w])
  /\ \A w \in Workers : pc[w] = "record" => Backed(turn[w], cursor[w] + 1)

\* What Meta accepted stays accepted.
Grows ==
  \A e \in Event : \A p \in 1..MaxParts : accepted[e][p] > 0 => accepted'[e][p] > 0

\* One more acceptance of the next part.
LEMMA AcceptGrows ==
  ASSUME TypeInv, NEW w \in Workers, Accept(w), NEW t \in Event, t = turn[w],
         NEW p \in 1..MaxParts, p = cursor[w] + 1
  PROVE  Grows /\ accepted'[t][p] > 0
<1>1. accepted \in [Event -> [1..MaxParts -> Nat]]
  BY DEF TypeInv, TypeOK, MetaOK
<1>2. \A e \in Event : \A q \in 1..MaxParts : accepted[e][q] \in Nat
  <2>1. \A e \in Event : accepted[e] \in [1..MaxParts -> Nat]
    BY <1>1
  <2> QED BY <2>1, Zenon
<1>3. PICK row \in [1..MaxParts -> Nat] : row = accepted[t]
  BY <1>1
<1>4. accepted' = [accepted EXCEPT ![t] = [row EXCEPT ![p] = row[p] + 1]]
  BY <1>1, <1>3 DEF Accept
<1>5. /\ accepted'[t] = [row EXCEPT ![p] = row[p] + 1]
      /\ \A e \in Event \ {t} : accepted'[e] = accepted[e]
  BY <1>1, <1>4
<1>6. /\ accepted'[t][p] = row[p] + 1
      /\ \A q \in 1..MaxParts \ {p} : accepted'[t][q] = row[q]
  BY <1>5
<1>7. row[p] \in Nat
  BY <1>2, <1>3
<1>8. Grows
  <2> SUFFICES ASSUME NEW e \in Event, NEW q \in 1..MaxParts,
                      accepted[e][q] > 0
               PROVE  accepted'[e][q] > 0
    BY DEF Grows
  <2>2. CASE e # t
    BY <1>5, <2>2
  <2>3. CASE e = t /\ q # p
    BY <1>3, <1>6, <2>3
  <2>4. CASE e = t /\ q = p
    BY <1>3, <1>6, <1>7, <2>4
  <2> QED BY <2>2, <2>3, <2>4
<1> QED BY <1>6, <1>7, <1>8

\* Parts beyond what was backed before stay backed.
LEMMA BackedGrows ==
  ASSUME TypeInv, Grows, NEW e \in Event, NEW n \in 0..MaxParts, Backed(e, n)
  PROVE  Backed(e, n)'
<1> SUFFICES ASSUME NEW p \in 1..n PROVE accepted'[e][p] > 0
  BY DEF Backed
<1>1. p \in 1..MaxParts
  BY ConstantsAssumption
<1> QED BY <1>1 DEF Backed, Grows

\* Nothing is stored, and every worker that dispatches did so before, with the
\* same turn and cursor.
LEMMA CursorKept ==
  ASSUME TypeInv, CursorInv, Grows,
         \A e \in Event : outbox'[e].sent = outbox[e].sent,
         \A v \in Workers : pc'[v] \in Dispatching =>
           pc[v] \in Dispatching /\ turn'[v] = turn[v] /\ cursor'[v] = cursor[v],
         \A v \in Workers : pc'[v] = "record" => pc[v] = "record"
  PROVE  CursorInv'
<1>1. \A e \in Event : outbox[e].sent \in 0..MaxParts
  BY DEF TypeInv, TypeOK, StoreOK, Plan
<1>2. \A v \in Workers : turn[v] \in Event /\ cursor[v] \in 0..MaxParts
  BY DEF TypeInv, TypeOK, WorkerOK
<1>3. ASSUME NEW e \in Event PROVE Backed(e, outbox[e].sent)'
  <2>1. Backed(e, outbox[e].sent) /\ outbox'[e].sent = outbox[e].sent
    BY DEF CursorInv
  <2>2. \A n \in 0..MaxParts : Backed(e, n) => Backed(e, n)'
    BY BackedGrows
  <2> QED BY <1>1, <2>1, <2>2 DEF Backed
<1>4. ASSUME NEW v \in Workers, pc'[v] \in Dispatching
      PROVE  Backed(turn[v], cursor[v])'
  <2>1. Backed(turn[v], cursor[v]) /\ turn'[v] = turn[v] /\ cursor'[v] = cursor[v]
    BY <1>4 DEF CursorInv
  <2>2. \A e \in Event, n \in 0..MaxParts : Backed(e, n) => Backed(e, n)'
    BY BackedGrows
  <2> QED BY <1>2, <2>1, <2>2 DEF Backed
<1>5. ASSUME NEW v \in Workers, pc'[v] = "record"
      PROVE  Backed(turn[v], cursor[v] + 1)'
  <2>1. /\ pc[v] = "record" /\ Backed(turn[v], cursor[v] + 1)
        /\ turn'[v] = turn[v] /\ cursor'[v] = cursor[v]
    BY <1>5 DEF CursorInv, Dispatching
  <2>2. \A e \in Event, n \in 0..MaxParts : Backed(e, n) => Backed(e, n)'
    BY BackedGrows
  <2>3. cursor[v] + 1 \in 0..MaxParts
    BY <2>1, NextPartExists
  <2> QED BY <1>2, <2>1, <2>2, <2>3 DEF Backed
<1> QED BY <1>3, <1>4, <1>5 DEF CursorInv

\* A worker moves on with its turn and cursor, or leaves the dispatch.
LEMMA CursorKeptByMove ==
  ASSUME TypeInv, CursorInv, NEW w \in Workers, NEW l \in PC, Goto(w, l),
         l # "record", l \in Dispatching => pc[w] \in Dispatching,
         UNCHANGED accepted, \A e \in Event : outbox'[e].sent = outbox[e].sent,
         l \in Dispatching => UNCHANGED <<turn, cursor>>,
         \A v \in Workers \ {w} : turn'[v] = turn[v] /\ cursor'[v] = cursor[v]
  PROVE  CursorInv'
<1>1. pc'[w] = l /\ \A v \in Workers \ {w} : pc'[v] = pc[v]
  BY DEF Goto, TypeInv, TypeOK, WorkerOK
<1>2. Grows
  BY DEF Grows
<1>3. \A v \in Workers : pc'[v] \in Dispatching =>
        pc[v] \in Dispatching /\ turn'[v] = turn[v] /\ cursor'[v] = cursor[v]
  BY <1>1
<1>4. \A v \in Workers : pc'[v] = "record" => pc[v] = "record"
  BY <1>1
<1> QED BY <1>2, <1>3, <1>4, CursorKept

\* A worker that forgets its turn.
LEMMA CursorKeptByForget ==
  ASSUME TypeInv, CursorInv, NEW w \in Workers, Forget(w), UNCHANGED accepted,
         \A e \in Event : outbox'[e].sent = outbox[e].sent
  PROVE  CursorInv'
<1>1. "idle" \in PC \ Dispatching
  BY DEF PC, Dispatching
<1>2. \A v \in Workers \ {w} : turn'[v] = turn[v] /\ cursor'[v] = cursor[v]
  BY DEF Forget, TypeInv, TypeOK, WorkerOK
<1> QED BY <1>1, <1>2, CursorKeptByMove DEF Forget

\* Steps that leave the outbox and Meta alone.
LEMMA CursorKeptElsewhere ==
  ASSUME TypeInv, CursorInv, NEW w \in Workers,
         \/ \E claimed \in SUBSET Event : ReadGroup(w, claimed)
         \/ AcquireLease(w) \/ EnsureConversation(w) \/ NoTurnOutbound(w)
         \/ FetchProfile(w) \/ Compose(w) \/ CommitTurnBlocked(w)
         \/ PushCreatedOrder(w) \/ GuardPart(w) \/ MarkProcessed(w)
  PROVE  CursorInv'
<1>1. UNCHANGED <<outbox, accepted, cursor>>
  BY DEF ReadGroup, AcquireLease, EnsureConversation, NoTurnOutbound, FetchProfile,
         Compose, CommitTurnBlocked, PushCreatedOrder, GuardPart, MarkProcessed,
         storeVars, localVars
<1>2. \A v \in Workers \ {w} : turn'[v] = turn[v]
  BY DEF ReadGroup, AcquireLease, EnsureConversation, NoTurnOutbound, FetchProfile,
         Compose, CommitTurnBlocked, PushCreatedOrder, GuardPart, MarkProcessed,
         localVars, TypeInv, TypeOK, WorkerOK
<1>3. PICK l \in PC : /\ Goto(w, l) /\ l # "record"
                      /\ l \in Dispatching => pc[w] \in Dispatching
                      /\ l \in Dispatching => UNCHANGED turn
  BY DEF ReadGroup, AcquireLease, EnsureConversation, NoTurnOutbound, FetchProfile,
         Compose, CommitTurnBlocked, PushCreatedOrder, GuardPart, MarkProcessed,
         AfterDispatch, localVars, PC, Dispatching
<1> QED BY <1>1, <1>2, <1>3, CursorKeptByMove

\* The steps that end a turn, but for a send in doubt.
LEMMA CursorKeptAtEnd ==
  ASSUME TypeInv, CursorInv, NEW w \in Workers,
         \/ LeaseBusy(w) \/ Acknowledge(w) \/ LeavePending(w) \/ LeaseLostAtEnd(w)
         \/ AbandonTurn(w) \/ StopWorker(w) \/ CrashWorker(w) \/ CallFails(w)
         \/ SendRejected(w)
  PROVE  CursorInv'
<1>1. Forget(w) /\ UNCHANGED <<outbox, accepted>>
  BY DEF LeaseBusy, Acknowledge, LeavePending, LeaseLostAtEnd, AbandonTurn, StopWorker,
         CrashWorker, CallFails, SendRejected, RetryOrDeadLetter, storeVars
<1> QED BY <1>1, CursorKeptByForget

\* A conflict sends the worker back to loading, or ends its turn.
LEMMA CursorKeptByConflict ==
  ASSUME TypeInv, CursorInv, NEW w \in Workers, StateConflict(w)
  PROVE  CursorInv'
<1>1. UNCHANGED <<outbox, accepted>>
  BY DEF StateConflict, storeVars
<1>2. CASE RetryOrDeadLetter(w, MaxAttempts)
  BY <1>1, <1>2, CursorKeptByForget DEF RetryOrDeadLetter
<1>3. CASE Goto(w, "load") /\ UNCHANGED <<turn, cursor>>
  BY <1>1, <1>3, CursorKeptByMove, "load" \in PC \ Dispatching DEF PC, Dispatching
<1> QED BY <1>2, <1>3 DEF StateConflict

\* A worker whose new cursor, and whatever was stored, is backed.
LEMMA CursorSet ==
  ASSUME TypeInv, CursorInv, Grows, NEW w \in Workers,
         \A e \in Event : Backed(e, outbox[e].sent)',
         \A v \in Workers \ {w} :
           pc'[v] = pc[v] /\ turn'[v] = turn[v] /\ cursor'[v] = cursor[v],
         (pc[w] \in Dispatching => Backed(turn[w], cursor[w]))',
         (pc[w] = "record" => Backed(turn[w], cursor[w] + 1))'
  PROVE  CursorInv'
<1>1. \A v \in Workers : turn[v] \in Event /\ cursor[v] \in 0..MaxParts
  BY DEF TypeInv, TypeOK, WorkerOK
<1>2. \A e \in Event, n \in 0..MaxParts : Backed(e, n) => Backed(e, n)'
  BY BackedGrows
<1>3. ASSUME NEW v \in Workers, v # w, pc'[v] \in Dispatching
      PROVE  Backed(turn[v], cursor[v])'
  <2>1. Backed(turn[v], cursor[v]) /\ turn'[v] = turn[v] /\ cursor'[v] = cursor[v]
    BY <1>3 DEF CursorInv
  <2> QED BY <1>1, <1>2, <2>1 DEF Backed
<1>4. ASSUME NEW v \in Workers, v # w, pc'[v] = "record"
      PROVE  Backed(turn[v], cursor[v] + 1)'
  <2>1. /\ pc[v] = "record" /\ Backed(turn[v], cursor[v] + 1)
        /\ turn'[v] = turn[v] /\ cursor'[v] = cursor[v]
    BY <1>4 DEF CursorInv
  <2>2. cursor[v] + 1 \in 0..MaxParts
    BY <2>1, NextPartExists
  <2> QED BY <1>1, <1>2, <2>1, <2>2 DEF Backed
<1> QED BY <1>3, <1>4 DEF CursorInv

\* A resumed turn starts from the stored cursor.
LEMMA CursorKeptByResume ==
  ASSUME TypeInv, CursorInv, NEW w \in Workers, ResumeOutbound(w)
  PROVE  CursorInv'
<1> USE ResumeOutbound(w)
<1>1. UNCHANGED <<outbox, accepted, turn>> /\ turn[w] \in Event
  BY DEF ResumeOutbound, TypeInv, TypeOK, WorkerOK
<1>2. /\ cursor'[w] = outbox[turn[w]].sent
      /\ \A v \in Workers \ {w} : pc'[v] = pc[v] /\ cursor'[v] = cursor[v]
      /\ pc'[w] \in {"guard", "settle"}
  BY DEF ResumeOutbound, ResumeAt, Goto, TypeInv, TypeOK, WorkerOK
<1>3. \A e \in Event : Backed(e, outbox[e].sent)'
  BY <1>1 DEF CursorInv, Backed
<1>4. Backed(turn[w], cursor[w])'
  BY <1>1, <1>2 DEF CursorInv, Backed
<1> QED BY <1>1, <1>2, <1>3, <1>4, CursorSet DEF Grows

\* A committed plan starts where its row stands, a new row at zero.
LEMMA CursorKeptByCommit ==
  ASSUME TypeInv, CursorInv, NEW w \in Workers, CommitTurn(w) \/ CommitImageTurn(w)
  PROVE  CursorInv'
<1>1. PICK human, order, n, version, sources, ack, kept :
        CommitPlan(w, human, order, NewPlan(n, version, sources, ack, kept))
  BY DEF CommitTurn, CommitImageTurn
<1>2. UNCHANGED <<accepted, turn>> /\ turn[w] \in Event
  BY DEF CommitTurn, CommitImageTurn, TypeInv, TypeOK, WorkerOK
<1>3. NewPlan(n, version, sources, ack, kept).sent = 0
  BY DEF NewPlan
<1>4. \A e \in Event : outbox'[e].sent \in {outbox[e].sent, 0}
  BY <1>1, <1>3 DEF CommitPlan, TypeInv, TypeOK, StoreOK
<1>5. \A e \in Event : Backed(e, outbox[e].sent)'
  BY <1>2, <1>4 DEF CursorInv, Backed
<1>6. /\ cursor'[w] = outbox'[turn[w]].sent
      /\ \A v \in Workers \ {w} : cursor'[v] = cursor[v]
  BY <1>1 DEF CommitPlan, TypeInv, TypeOK, WorkerOK
<1>7. pc'[w] \in {"push", "guard"} /\ \A v \in Workers \ {w} : pc'[v] = pc[v]
  BY DEF CommitTurn, CommitImageTurn, Goto, TypeInv, TypeOK, WorkerOK
<1>8. Backed(turn[w], cursor[w])'
  BY <1>2, <1>5, <1>6 DEF Backed
<1> QED BY <1>2, <1>5, <1>6, <1>7, <1>8, CursorSet DEF Grows

\* An accepted part backs the cursor that counts it; one in doubt is not counted.
LEMMA CursorKeptBySend ==
  ASSUME TypeInv, CursorInv, NEW w \in Workers, SendAccepted(w) \/ SendAmbiguous(w)
  PROVE  CursorInv'
<1>1. pc[w] = "send" /\ UNCHANGED <<outbox, turn, cursor>>
  BY DEF SendAccepted, SendAmbiguous, storeVars, localVars
<1>2. turn[w] \in Event /\ cursor[w] \in 0..MaxParts /\ cursor[w] + 1 \in 1..MaxParts
  BY <1>1, NextPartExists DEF TypeInv, TypeOK, WorkerOK
<1>3. /\ Grows
      /\ Accept(w) => accepted'[turn[w]][cursor[w] + 1] > 0
  <2>1. CASE Accept(w)
    BY <1>2, <2>1, AcceptGrows
  <2>2. CASE UNCHANGED accepted /\ ~Accept(w)
    BY <2>2 DEF Grows
  <2> QED BY <2>1, <2>2 DEF SendAccepted, SendAmbiguous
<1>4. /\ pc'[w] \in {"record", "unknown"}
      /\ pc'[w] = "record" => Accept(w)
      /\ \A v \in Workers \ {w} : pc'[v] = pc[v]
  BY DEF SendAccepted, SendAmbiguous, Goto, TypeInv, TypeOK, WorkerOK
<1>5. \A e \in Event, n \in 0..MaxParts : Backed(e, n) => Backed(e, n)'
  BY <1>3, BackedGrows
<1>6. \A e \in Event : Backed(e, outbox[e].sent)'
  <2>1. \A e \in Event : outbox[e].sent \in 0..MaxParts /\ Backed(e, outbox[e].sent)
    BY DEF CursorInv, TypeInv, TypeOK, StoreOK, Plan
  <2> QED BY <1>1, <1>5, <2>1 DEF Backed
<1>7. Backed(turn[w], cursor[w])'
  <2>1. Backed(turn[w], cursor[w])
    BY <1>1 DEF CursorInv, Dispatching
  <2> QED BY <1>1, <1>2, <1>5, <2>1 DEF Backed
<1>8. pc'[w] = "record" => Backed(turn[w], cursor[w] + 1)'
  <2> SUFFICES ASSUME pc'[w] = "record", NEW p \in 1..(cursor[w] + 1)
               PROVE  accepted'[turn[w]][p] > 0
    BY <1>1 DEF Backed
  <2>1. CASE p = cursor[w] + 1
    BY <1>3, <1>4, <2>1
  <2>2. CASE p # cursor[w] + 1
    BY <1>1, <1>2, <1>7, <2>2 DEF Backed
  <2> QED BY <2>1, <2>2
<1> QED BY <1>1, <1>3, <1>4, <1>6, <1>7, <1>8, CursorSet

\* The stored cursor is the worker's, moved past the accepted part.
LEMMA CursorKeptByRecord ==
  ASSUME TypeInv, CursorInv, NEW w \in Workers, MarkPartSent(w)
  PROVE  CursorInv'
<1> USE MarkPartSent(w)
<1>1. UNCHANGED <<accepted, turn>> /\ turn[w] \in Event /\ pc[w] = "record"
  BY DEF MarkPartSent, TypeInv, TypeOK, WorkerOK
<1>2. Backed(turn[w], cursor[w] + 1)
  BY <1>1 DEF CursorInv
<1>3. /\ cursor'[w] = cursor[w] + 1
      /\ \A v \in Workers \ {w} : cursor'[v] = cursor[v]
      /\ pc'[w] = "guard" /\ \A v \in Workers \ {w} : pc'[v] = pc[v]
  BY DEF MarkPartSent, Goto, TypeInv, TypeOK, WorkerOK
<1>4. /\ outbox'[turn[w]].sent = cursor[w] + 1
      /\ \A e \in Event \ {turn[w]} : outbox'[e] = outbox[e]
  BY <1>1 DEF MarkPartSent, TypeInv, TypeOK, StoreOK, Plan
<1>5. \A e \in Event : Backed(e, outbox[e].sent)'
  BY <1>1, <1>2, <1>4 DEF CursorInv, Backed
<1>6. Backed(turn[w], cursor[w])'
  BY <1>1, <1>2, <1>3 DEF Backed
<1> QED BY <1>1, <1>3, <1>5, <1>6, CursorSet DEF Grows

\* A reply in doubt is held before the part in doubt.
LEMMA CursorKeptByUnknown ==
  ASSUME TypeInv, CursorInv, NEW w \in Workers, MarkOutboundUnknown(w)
  PROVE  CursorInv'
<1> USE MarkOutboundUnknown(w)
<1>1. UNCHANGED accepted /\ turn[w] \in Event /\ pc[w] = "unknown"
  BY DEF MarkOutboundUnknown, TypeInv, TypeOK, WorkerOK
<1>2. Backed(turn[w], cursor[w])
  BY <1>1 DEF CursorInv, Dispatching
<1>3. Forget(w)
  BY DEF MarkOutboundUnknown, RetryOrDeadLetter
<1>4. /\ pc'[w] = "idle"
      /\ \A v \in Workers \ {w} :
           pc'[v] = pc[v] /\ turn'[v] = turn[v] /\ cursor'[v] = cursor[v]
  BY <1>3 DEF Forget, Goto, TypeInv, TypeOK, WorkerOK
<1>5. /\ outbox'[turn[w]].sent = cursor[w]
      /\ \A e \in Event \ {turn[w]} : outbox'[e] = outbox[e]
  BY <1>1 DEF MarkOutboundUnknown, HeldAt, TypeInv, TypeOK, StoreOK, Plan
<1>6. \A e \in Event : Backed(e, outbox[e].sent)'
  BY <1>1, <1>2, <1>5 DEF CursorInv, Backed
<1> QED BY <1>1, <1>4, <1>6, CursorSet DEF Grows, Dispatching

\* Every step keeps CursorInv.
LEMMA CursorStep == TypeInv /\ CursorInv /\ [Next]_vars => CursorInv'
<1> SUFFICES ASSUME TypeInv, CursorInv, [Next]_vars PROVE CursorInv'
  OBVIOUS
<1>1. CASE Webhook
  BY <1>1 DEF Webhook, PersistInbound, Enqueue, LoseEnqueue, storeVars, localVars,
              CursorInv, Backed
<1>2. CASE MarkHumanTakeover
  <2>1. UNCHANGED <<accepted, pc, turn, cursor>>
    BY <1>2 DEF MarkHumanTakeover, localVars
  <2>2. \A e \in Event : outbox'[e].sent = outbox[e].sent
    BY <1>2 DEF MarkHumanTakeover, TypeInv, TypeOK, StoreOK, Plan
  <2> QED BY <2>1, <2>2, CursorKept DEF Grows
<1>3. ASSUME NEW w \in Workers, Turn(w) PROVE CursorInv'
  BY <1>3, CursorKeptElsewhere, CursorKeptAtEnd, CursorKeptByConflict,
     CursorKeptByResume, CursorKeptByCommit, CursorKeptBySend, CursorKeptByRecord,
     CursorKeptByUnknown DEF Turn
<1>4. ASSUME NEW w \in Workers, Disturb(w) PROVE CursorInv'
  <2>1. CASE ExpireLease(w)
    BY <2>1 DEF ExpireLease, storeVars, localVars, CursorInv, Backed
  <2> QED BY <1>4, <2>1, CursorKeptAtEnd DEF Disturb
<1>5. CASE UNCHANGED vars
  BY <1>5 DEF vars, storeVars, localVars, CursorInv, Backed
<1> QED BY <1>1, <1>2, <1>3, <1>4, <1>5 DEF Next

\* A resumed turn never skips a part: the cursor it starts from counts only parts
\* Meta accepted, through crashes, failed calls, takeovers and lost leases.
THEOREM CursorBacked == Spec => []CursorMatchesMeta
<1>1. Init => TypeInv /\ CursorInv
  BY TypeInit DEF Init, CursorInv, Backed, NoPlan, NewPlan, Dispatching
<1>2. TypeInv /\ CursorInv /\ [Next]_vars => (TypeInv /\ CursorInv)'
  BY TypeStep, CursorStep
<1>3. CursorInv => CursorMatchesMeta
  BY DEF CursorInv, Backed, CursorMatchesMeta
<1> QED BY <1>1, <1>2, <1>3, PTL DEF Spec

-----------------------------------------------------------------------------
(* What a step of a worker leaves alone. *)

\* A worker's step leaves the locals of the others alone.
LEMMA OthersKept ==
  ASSUME TypeInv, NEW w \in Workers, Turn(w) \/ Disturb(w)
  PROVE  \A v \in Workers \ {w} :
           /\ pc'[v] = pc[v] /\ batch'[v] = batch[v] /\ seen'[v] = seen[v]
           /\ turn'[v] = turn[v] /\ expected'[v] = expected[v]
           /\ cursor'[v] = cursor[v] /\ resumed'[v] = resumed[v]
<1> USE DEF TypeInv, TypeOK, WorkerOK
<1>1. ASSUME Forget(w)
      PROVE  \A v \in Workers \ {w} :
           /\ pc'[v] = pc[v] /\ batch'[v] = batch[v] /\ seen'[v] = seen[v]
           /\ turn'[v] = turn[v] /\ expected'[v] = expected[v]
           /\ cursor'[v] = cursor[v] /\ resumed'[v] = resumed[v]
  BY <1>1 DEF Forget, Goto
<1>2. CASE Disturb(w)
  BY <1>1, <1>2 DEF Disturb, ExpireLease, StopWorker, CrashWorker, CallFails,
                    RetryOrDeadLetter, localVars
<1>3. CASE \/ LeaseBusy(w) \/ SendRejected(w) \/ MarkOutboundUnknown(w)
           \/ Acknowledge(w) \/ LeavePending(w) \/ LeaseLostAtEnd(w) \/ AbandonTurn(w)
  BY <1>1, <1>3 DEF LeaseBusy, SendRejected, MarkOutboundUnknown, Acknowledge,
                    LeavePending, LeaseLostAtEnd, AbandonTurn, RetryOrDeadLetter
<1>4. CASE StateConflict(w)
  BY <1>1, <1>4 DEF StateConflict, RetryOrDeadLetter, Goto
<1>5. CASE CommitTurnBlocked(w) \/ CommitTurn(w) \/ CommitImageTurn(w)
  BY <1>5 DEF CommitTurnBlocked, CommitTurn, CommitImageTurn, CommitPlan, Goto, localVars
<1>6. CASE \E claimed \in SUBSET Event : ReadGroup(w, claimed)
  BY <1>6 DEF ReadGroup, Goto
<1>7. CASE AcquireLease(w) \/ EnsureConversation(w) \/ ResumeOutbound(w) \/ FetchProfile(w)
  BY <1>7 DEF AcquireLease, EnsureConversation, ResumeOutbound, FetchProfile, Goto
<1>8. CASE NoTurnOutbound(w) \/ Compose(w) \/ PushCreatedOrder(w) \/ GuardPart(w)
  BY <1>8 DEF NoTurnOutbound, Compose, PushCreatedOrder, GuardPart, Goto, localVars
<1>9. CASE SendAccepted(w) \/ SendAmbiguous(w) \/ MarkPartSent(w) \/ MarkProcessed(w)
  BY <1>9 DEF SendAccepted, SendAmbiguous, MarkPartSent, MarkProcessed, Goto, localVars
<1> QED BY <1>2, <1>3, <1>4, <1>5, <1>6, <1>7, <1>8, <1>9 DEF Turn

\* The steps that write neither the store nor Meta's side.
Quiet(w) ==
  \/ \E claimed \in SUBSET Event : ReadGroup(w, claimed)
  \/ AcquireLease(w) \/ LeaseBusy(w) \/ NoTurnOutbound(w) \/ Compose(w)
  \/ StateConflict(w) \/ GuardPart(w) \/ SendRejected(w)
  \/ Acknowledge(w) \/ LeavePending(w) \/ LeaseLostAtEnd(w) \/ AbandonTurn(w)
  \/ ExpireLease(w) \/ StopWorker(w) \/ CrashWorker(w) \/ CallFails(w)

\* A quiet step stores nothing and gives the worker no new reply.
LEMMA QuietKeeps ==
  ASSUME NEW w \in Workers, Quiet(w)
  PROVE  UNCHANGED <<storeVars, accepted, ghostVars>>
BY DEF Quiet, ReadGroup, AcquireLease, LeaseBusy, NoTurnOutbound, Compose, StateConflict,
       GuardPart, SendRejected, Acknowledge, LeavePending, LeaseLostAtEnd, AbandonTurn,
       ExpireLease, StopWorker, CrashWorker, CallFails

\* A turn that ends leaves its worker with empty hands.
LEMMA ForgetEffect ==
  ASSUME TypeInv, NEW w \in Workers, Forget(w)
  PROVE  /\ pc'[w] = "idle" /\ batch'[w] = {} /\ seen'[w] = NewConversation
         /\ turn'[w] = 1 /\ expected'[w] = 0 /\ cursor'[w] = 0 /\ ~resumed'[w]
BY DEF Forget, Goto, TypeInv, TypeOK, WorkerOK

\* Where a quiet step takes its worker.
LEMMA QuietMoves ==
  ASSUME TypeInv, NEW w \in Workers, Quiet(w)
  PROVE  \/ Forget(w)
         \/ /\ UNCHANGED <<seen, expected, cursor, resumed>>
            /\ \/ pc[w] = "idle" /\ pc'[w] = "lease"
               \/ pc[w] = "lease" /\ pc'[w] = "load" /\ UNCHANGED batch
               \/ /\ UNCHANGED <<batch, turn>>
                  /\ \/ /\ pc[w] = "find" /\ outbox[turn[w]].parts = 0
                        /\ \/ pc'[w] = "commit" /\ BatchContent(w) \cap Images # {}
                           \/ /\ pc'[w] \in {"settle", "compose", "profile"}
                              /\ BatchContent(w) \cap Images = {}
                     \/ /\ pc[w] = "compose"
                        /\ pc'[w] \in {"superseded", "block", "commit"}
                     \/ pc[w] \in {"block", "commit"} /\ pc'[w] = "load"
                     \/ /\ pc[w] = "guard" /\ pc'[w] \in {"send", AfterDispatch(w)}
                        /\ pc'[w] = "send" =>
                             /\ cursor[w] < outbox[turn[w]].parts
                             /\ Authorized(outbox[turn[w]], expected[w])
                             /\ ReceiptsSatisfied(w) /\ lease = w
                             /\ CanDispatch(outbox[turn[w]], expected[w])
                     \/ UNCHANGED pc
<1> USE DEF TypeInv, TypeOK, WorkerOK
<1>1. CASE \/ LeaseBusy(w) \/ SendRejected(w) \/ Acknowledge(w) \/ LeavePending(w)
           \/ LeaseLostAtEnd(w) \/ AbandonTurn(w) \/ StopWorker(w) \/ CrashWorker(w)
           \/ CallFails(w)
  BY <1>1 DEF LeaseBusy, SendRejected, Acknowledge, LeavePending, LeaseLostAtEnd,
              AbandonTurn, StopWorker, CrashWorker, CallFails, RetryOrDeadLetter
<1>2. CASE ExpireLease(w)
  BY <1>2 DEF ExpireLease, localVars
<1>3. CASE \E claimed \in SUBSET Event : ReadGroup(w, claimed)
  BY <1>3 DEF ReadGroup, Goto
<1>4. CASE AcquireLease(w)
  BY <1>4 DEF AcquireLease, Goto
<1>5. CASE NoTurnOutbound(w)
  BY <1>5 DEF NoTurnOutbound, Goto, localVars
<1>6. CASE Compose(w)
  BY <1>6 DEF Compose, Goto, localVars
<1>7. CASE StateConflict(w)
  BY <1>7 DEF StateConflict, RetryOrDeadLetter, Goto
<1>8. CASE GuardPart(w)
  <2>1. cursor[w] \in Nat /\ outbox[turn[w]].parts \in Nat
    BY DEF StoreOK, Plan
  <2>2. pc[w] = "guard" /\ UNCHANGED <<seen, expected, cursor, resumed, batch, turn>>
    BY <1>8 DEF GuardPart, localVars
  <2>3. \A l : Goto(w, l) => pc'[w] = l
    BY DEF Goto
  <2>4. AfterDispatch(w) # "send"
    BY DEF AfterDispatch
  <2> QED BY <1>8, <2>1, <2>2, <2>3, <2>4 DEF GuardPart
<1> QED BY <1>1, <1>2, <1>3, <1>4, <1>5, <1>6, <1>7, <1>8 DEF Quiet

\* A commit puts its row in place unless there is one, and moves the version.
LEMMA CommitEffect ==
  ASSUME TypeInv, NEW w \in Workers, CommitTurn(w) \/ CommitImageTurn(w)
  PROVE  \E human \in {"bot", "human", "paused"}, order \in OrderAfter(w) :
         \E plan \in Plan :
           /\ CommitPlan(w, human, order, plan)
           /\ plan.sent = 0 /\ plan.parts > 0 /\ ~plan.unknown
           /\ plan.version = conv.version + 1 /\ plan.order \in {0, order}
           /\ pc[w] = "commit" /\ pc'[w] = IF CommitTurn(w) THEN "push" ELSE "guard"
           /\ CommitTurn(w) => plan.sources = BatchContent(w)
           /\ ~CommitTurn(w) => /\ BatchContent(w) \cap Images # {}
                                /\ plan.sources = BatchContent(w) \cap Images
                                /\ plan.ack /\ plan.order = 0
           /\ UNCHANGED <<queueVars, named, inbox, accepted, lease, batch, turn, resumed,
                          envVars, late>>
<1> USE DEF TypeInv, TypeOK, WorkerOK, StoreOK
<1>1. BatchContent(w) \subseteq Event /\ conv.version + 1 \in Nat /\ conv.order \in Event \cup {0}
      /\ turn[w] \in Event
  BY DEF BatchContent, Content, Conversation
<1>2. \A n \in 1..MaxParts, S \in SUBSET Event, ack \in BOOLEAN, order \in Event \cup {0} :
        NewPlan(n, conv.version + 1, S, ack, order) \in Plan
  BY <1>1, ConstantsAssumption DEF NewPlan, Plan
<1>3. CASE CommitTurn(w)
  <2>1. PICK n \in 1..MaxParts, human \in {"bot", "paused"}, order \in OrderAfter(w) :
          CommitPlan(w, human, order, NewPlan(n, conv.version + 1, BatchContent(w), FALSE, order))
    BY <1>3 DEF CommitTurn
  <2> DEFINE plan == NewPlan(n, conv.version + 1, BatchContent(w), FALSE, order)
  <2>2. plan \in Plan
    BY <1>1, <1>2 DEF OrderAfter
  <2>3. /\ plan.sent = 0 /\ plan.parts = n /\ ~plan.unknown /\ plan.order = order
        /\ plan.version = conv.version + 1 /\ plan.sources = BatchContent(w)
    BY DEF NewPlan
  <2>4. pc[w] = "commit" /\ pc'[w] = "push"
    BY <1>3 DEF CommitTurn, Goto
  <2>5. UNCHANGED <<queueVars, named, inbox, accepted, lease, batch, turn, resumed,
                    envVars, late>>
    BY <1>3 DEF CommitTurn
  <2>6. CommitPlan(w, human, order, plan)
    BY <2>1
  <2> HIDE DEF plan
  <2> QED BY <1>3, <2>2, <2>3, <2>4, <2>5, <2>6
<1>4. CASE CommitImageTurn(w) /\ ~CommitTurn(w)
  <2> DEFINE plan == NewPlan(1, conv.version + 1, BatchContent(w) \cap Images, TRUE, 0)
  <2>1. CommitPlan(w, "human", conv.order, plan)
    BY <1>4 DEF CommitImageTurn
  <2>2. plan \in Plan
    <3>1. 1 \in 1..MaxParts /\ BatchContent(w) \cap Images \in SUBSET Event
      BY <1>1, ConstantsAssumption
    <3> QED BY <1>2, <3>1
  <2>3. /\ plan.sent = 0 /\ plan.parts = 1 /\ ~plan.unknown /\ plan.order = 0 /\ plan.ack
        /\ plan.version = conv.version + 1 /\ plan.sources = BatchContent(w) \cap Images
    BY DEF NewPlan
  <2>4. pc[w] = "commit" /\ pc'[w] = "guard" /\ BatchContent(w) \cap Images # {}
    BY <1>4 DEF CommitImageTurn, Goto
  <2>5. UNCHANGED <<queueVars, named, inbox, accepted, lease, batch, turn, resumed,
                    envVars, late>>
    BY <1>4 DEF CommitImageTurn
  <2>6. conv.order \in OrderAfter(w)
    BY DEF OrderAfter
  <2> HIDE DEF plan
  <2> QED BY <1>4, <2>1, <2>2, <2>3, <2>4, <2>5, <2>6
<1> QED BY <1>3, <1>4

\* A send in doubt and a finished part write their row's cursor, nothing else of it.
LEMMA RecordEffect ==
  ASSUME TypeInv, NEW w \in Workers, MarkPartSent(w) \/ MarkOutboundUnknown(w)
  PROVE  LET t == turn[w]  row == outbox'[turn[w]] IN
         /\ t \in Event
         /\ UNCHANGED <<processed, conv, named, inbox, accepted, envVars, ghostVars>>
         /\ \A e \in Event \ {t} : outbox'[e] = outbox[e]
         /\ row.parts = outbox[t].parts /\ row.version = outbox[t].version
         /\ row.sources = outbox[t].sources /\ row.ack = outbox[t].ack
         /\ row.order = outbox[t].order /\ (outbox[t].unknown => row.unknown)
         /\ MarkPartSent(w) =>
              /\ pc[w] = "record" /\ pc'[w] = "guard" /\ row.sent = cursor[w] + 1
              /\ cursor'[w] = cursor[w] + 1 /\ row.unknown = outbox[t].unknown
              /\ UNCHANGED <<queueVars, lease, batch, seen, turn, expected, resumed>>
         /\ ~MarkPartSent(w) =>
              pc[w] = "unknown" /\ Forget(w) /\ row.sent = cursor[w] /\ row.unknown
<1> DEFINE t == turn[w]
<1>1. t \in Event /\ outbox \in [Event -> Plan] /\ cursor[w] \in Nat
  BY DEF TypeInv, TypeOK, WorkerOK, StoreOK
<1>2. CASE MarkPartSent(w)
  <2>1. /\ outbox' = [outbox EXCEPT ![t].sent = cursor[w] + 1,
             ![t].status = IF cursor[w] + 1 >= outbox[t].parts THEN "sent" ELSE "pending"]
        /\ cursor'[w] = cursor[w] + 1 /\ pc[w] = "record" /\ pc'[w] = "guard"
    BY <1>2 DEF MarkPartSent, Goto, TypeInv, TypeOK, WorkerOK
  <2>2. UNCHANGED <<processed, conv, named, inbox, accepted, envVars, ghostVars>>
    BY <1>2 DEF MarkPartSent
  <2>3. UNCHANGED <<queueVars, lease, batch, seen, turn, expected, resumed>>
    BY <1>2 DEF MarkPartSent
  <2> QED BY <1>1, <1>2, <2>1, <2>2, <2>3 DEF Plan
<1>3. CASE MarkOutboundUnknown(w) /\ ~MarkPartSent(w)
  <2>1. /\ outbox' = [outbox EXCEPT ![t].sent = cursor[w],
             ![t].unknown = TRUE, ![t].status = "failed"]
        /\ pc[w] = "unknown" /\ Forget(w)
    BY <1>3 DEF MarkOutboundUnknown, HeldAt, RetryOrDeadLetter
  <2>2. UNCHANGED <<processed, conv, named, inbox, accepted, envVars, ghostVars>>
    BY <1>3 DEF MarkOutboundUnknown
  <2> QED BY <1>1, <1>3, <2>1, <2>2 DEF Plan
<1> QED BY <1>2, <1>3

\* Meta's side of a send.
LEMMA SendEffect ==
  ASSUME TypeInv, NEW w \in Workers, SendAccepted(w) \/ SendAmbiguous(w)
  PROVE  LET t == turn[w]  p == cursor[w] + 1 IN
         /\ t \in Event /\ p \in 1..MaxParts /\ p <= outbox[t].parts
         /\ pc[w] = "send" /\ pc'[w] = IF SendAccepted(w) THEN "record" ELSE "unknown"
         /\ UNCHANGED <<queueVars, storeVars, lease, localVars, envVars, served>>
         /\ \A e \in Event \ {t} : accepted'[e] = accepted[e] /\ late'[e] = late[e]
         /\ \A q \in (1..MaxParts) \ {p} : accepted'[t][q] = accepted[t][q]
         /\ \/ /\ accepted'[t][p] = accepted[t][p] + 1
               /\ late'[t] = IF conv.version = outbox[t].version THEN late[t]
                             ELSE late[t] \cup {p}
            \/ ~SendAccepted(w) /\ UNCHANGED <<accepted, late>>
<1> DEFINE t == turn[w]  p == cursor[w] + 1
<1>1. pc[w] = "send" /\ UNCHANGED <<queueVars, storeVars, lease, localVars, envVars, served>>
  BY DEF SendAccepted, SendAmbiguous, Accept, ghostVars
<1>2. t \in Event /\ p \in 1..MaxParts /\ p <= outbox[t].parts
  <2>1. cursor[w] < outbox[t].parts /\ cursor[w] \in Nat /\ outbox[t].parts \in Nat
    BY <1>1 DEF TypeInv, TypeOK, Working, WorkerOK, StoreOK, Plan
  <2> QED BY <1>1, <2>1, NextPartExists DEF TypeInv, TypeOK, WorkerOK
<1>3. pc'[w] = IF SendAccepted(w) THEN "record" ELSE "unknown"
  BY DEF SendAccepted, SendAmbiguous, Goto, TypeInv, TypeOK, WorkerOK
<1>4. accepted \in [Event -> [1..MaxParts -> Nat]] /\ late \in [Event -> SUBSET (1..MaxParts)]
  BY DEF TypeInv, TypeOK, MetaOK
<1>5. ASSUME Accept(w)
      PROVE  /\ \A e \in Event \ {t} : accepted'[e] = accepted[e] /\ late'[e] = late[e]
             /\ \A q \in (1..MaxParts) \ {p} : accepted'[t][q] = accepted[t][q]
             /\ accepted'[t][p] = accepted[t][p] + 1
             /\ late'[t] = IF conv.version = outbox[t].version THEN late[t]
                           ELSE late[t] \cup {p}
  <2>1. accepted' = [accepted EXCEPT ![t] = [accepted[t] EXCEPT ![p] = accepted[t][p] + 1]]
    BY <1>5 DEF Accept
  <2>2. late' = IF conv.version = outbox[t].version THEN late
                ELSE [late EXCEPT ![t] = @ \cup {p}]
    BY <1>5 DEF Accept
  <2> QED BY <1>2, <1>4, <2>1, <2>2
<1>6. Accept(w) \/ (~SendAccepted(w) /\ UNCHANGED <<accepted, late>>)
  BY DEF SendAccepted, SendAmbiguous, ghostVars
<1> QED BY <1>1, <1>2, <1>3, <1>5, <1>6

-----------------------------------------------------------------------------
(* Rows of the outbox and versions. A row once inserted keeps what it was    *)
(* committed with, and no version is ahead of the conversation's.            *)

\* A worker that has called Meta, or is about to.
Sending == {"send", "record", "unknown"}

RowsOK ==
  /\ \A e \in Event :
       /\ outbox[e].version <= conv.version
       /\ outbox[e].parts = 0 =>
            outbox[e] = NoPlan /\ \A p \in 1..MaxParts : accepted[e][p] = 0

HeldOK(w) ==
  /\ seen[w].version <= conv.version /\ expected[w] <= conv.version
  /\ pc[w] \in Dispatching => outbox[turn[w]].parts > 0
  /\ pc[w] \in Sending => outbox[turn[w]].version = expected[w]

RowInv == RowsOK /\ \A w \in Workers : HeldOK(w)

\* What a row keeps.
Same(row, old) ==
  /\ row.parts = old.parts /\ row.version = old.version /\ row.sources = old.sources
  /\ row.ack = old.ack /\ row.order = old.order /\ (old.unknown => row.unknown)

RowsStay ==
  /\ \A e \in Event : outbox[e].parts > 0 => Same(outbox'[e], outbox[e])
  /\ \A e \in Event : outbox[e].parts = 0 =>
       outbox'[e] = outbox[e] \/ outbox'[e].version = conv.version + 1
  /\ conv'.version >= conv.version

\* The row a commit leaves at its key, and the version it moves to.
LEMMA CommitRows ==
  ASSUME TypeInv, NEW w \in Workers, NEW human \in {"bot", "human", "paused"},
         NEW order \in OrderAfter(w), NEW plan \in Plan,
         CommitPlan(w, human, order, plan)
  PROVE  /\ turn[w] \in Event /\ conv.version \in Nat
         /\ conv.version = seen[w].version
         /\ conv' = [human |-> human, version |-> conv.version + 1, order |-> order]
         /\ \A e \in Event \ {turn[w]} : outbox'[e] = outbox[e]
         /\ outbox[turn[w]].parts > 0 => outbox'[turn[w]] = outbox[turn[w]]
         /\ outbox[turn[w]].parts = 0 => outbox'[turn[w]] = plan
         /\ seen'[w] = [seen[w] EXCEPT !.order = order]
         /\ expected'[w] = conv.version + 1 /\ cursor'[w] = outbox'[turn[w]].sent
         /\ processed' = processed \cup plan.sources
         /\ served' = [served EXCEPT ![turn[w]] = @ \cup BatchContent(w)]
<1>1. turn[w] \in Event /\ conv.version \in Nat /\ outbox[turn[w]].parts \in Nat
  BY DEF TypeInv, TypeOK, WorkerOK, StoreOK, Conversation, Plan
<1>2. /\ conv.version = seen[w].version
      /\ conv' = [human |-> human, version |-> conv.version + 1, order |-> order]
  BY DEF CommitPlan, SwapConversation
<1>3. outbox' = IF outbox[turn[w]].parts > 0 THEN outbox ELSE [outbox EXCEPT ![turn[w]] = plan]
  BY DEF CommitPlan
<1>4. /\ seen' = [seen EXCEPT ![w].order = order]
      /\ expected' = [expected EXCEPT ![w] = conv.version + 1]
      /\ cursor' = [cursor EXCEPT ![w] = outbox'[turn[w]].sent]
      /\ processed' = processed \cup plan.sources
      /\ served' = [served EXCEPT ![turn[w]] = @ \cup BatchContent(w)]
  BY DEF CommitPlan
<1>5. /\ \A e \in Event \ {turn[w]} : outbox'[e] = outbox[e]
      /\ outbox[turn[w]].parts > 0 => outbox'[turn[w]] = outbox[turn[w]]
      /\ outbox[turn[w]].parts = 0 => outbox'[turn[w]] = plan
  BY <1>1, <1>3 DEF TypeInv, TypeOK, StoreOK
<1>6. /\ seen'[w] = [seen[w] EXCEPT !.order = order]
      /\ expected'[w] = conv.version + 1 /\ cursor'[w] = outbox'[turn[w]].sent
  BY <1>4 DEF TypeInv, TypeOK, WorkerOK
<1> QED BY <1>1, <1>2, <1>4, <1>5, <1>6

\* Steps of a worker that touch neither a row nor the conversation.
Bystands(w) ==
  \/ Quiet(w) \/ EnsureConversation(w) \/ ResumeOutbound(w) \/ FetchProfile(w)
  \/ PushCreatedOrder(w) \/ SendAccepted(w) \/ SendAmbiguous(w) \/ MarkProcessed(w)

\* A step is a worker's, staff's takeover, or one that bystands every worker.
LEMMA StepKinds ==
  ASSUME NEW w \in Workers, Turn(w) \/ Disturb(w)
  PROVE  \/ Bystands(w) \/ CommitTurnBlocked(w)
         \/ CommitTurn(w) \/ CommitImageTurn(w)
         \/ MarkPartSent(w) \/ MarkOutboundUnknown(w)
BY DEF Turn, Disturb, Bystands, Quiet

\* A bystander leaves replies, inbox, Meta and the conversation alone.
LEMMA BystandsKeeps ==
  ASSUME NEW w \in Workers, Bystands(w)
  PROVE  UNCHANGED <<outbox, conv>>
BY QuietKeeps DEF Bystands, storeVars, EnsureConversation, ResumeOutbound, FetchProfile,
   PushCreatedOrder, SendAccepted, SendAmbiguous, MarkProcessed

\* A takeover raises the version and fails every unfinished reply.
LEMMA TakeoverEffect ==
  ASSUME TypeInv, MarkHumanTakeover
  PROVE  /\ conv'.human = "human" /\ conv'.version = conv.version + 1
         /\ conv'.order = conv.order
         /\ \A e \in Event :
              /\ Same(outbox'[e], outbox[e]) /\ outbox'[e].sent = outbox[e].sent
              /\ outbox'[e].unknown = outbox[e].unknown
              /\ outbox[e].parts = 0 => outbox'[e] = outbox[e]
         /\ UNCHANGED <<queueVars, processed, named, inbox, accepted, lease, pc,
                        localVars, faults, stalls, ghostVars>>
<1>1. conv'.human = "human" /\ conv'.version = conv.version + 1 /\ conv'.order = conv.order
  BY DEF MarkHumanTakeover, TypeInv, TypeOK, StoreOK, Conversation
<1>2. ASSUME NEW e \in Event
      PROVE  outbox'[e] \in {outbox[e], [outbox[e] EXCEPT !.status = "failed"]}
             /\ (outbox[e].parts = 0 => outbox'[e] = outbox[e])
  BY DEF MarkHumanTakeover, TypeInv, TypeOK, StoreOK, Plan
<1>3. ASSUME NEW e \in Event
      PROVE  /\ Same(outbox'[e], outbox[e]) /\ outbox'[e].sent = outbox[e].sent
             /\ outbox'[e].unknown = outbox[e].unknown
  <2>1. outbox[e] \in Plan
    BY DEF TypeInv, TypeOK, StoreOK
  <2> QED BY <1>2, <2>1 DEF Same, Plan
<1> QED BY <1>1, <1>2, <1>3 DEF MarkHumanTakeover

\* Every step leaves what a committed reply was committed with.
LEMMA RowsStayStep == TypeInv /\ RowInv /\ [Next]_vars => RowsStay
<1> SUFFICES ASSUME TypeInv, RowInv, [Next]_vars PROVE RowsStay
  OBVIOUS
<1>1. conv.version \in Nat /\ conv \in Conversation /\ outbox \in [Event -> Plan]
  BY DEF TypeInv, TypeOK, StoreOK, Conversation
<1>2. ASSUME UNCHANGED <<conv, outbox>> PROVE RowsStay
  BY <1>1, <1>2 DEF RowsStay, Same
<1>3. CASE Webhook \/ UNCHANGED vars
  BY <1>2, <1>3 DEF Webhook, PersistInbound, Enqueue, LoseEnqueue, vars, storeVars
<1>4. CASE MarkHumanTakeover
  BY <1>1, <1>4, TakeoverEffect DEF RowsStay
<1>5. ASSUME NEW w \in Workers, Turn(w) \/ Disturb(w) PROVE RowsStay
  <2>1. CASE Bystands(w)
    BY <1>2, <2>1, BystandsKeeps
  <2>2. CASE CommitTurnBlocked(w)
    <3>1. conv'.version = conv.version + 1 /\ outbox' = outbox
      BY <2>2 DEF CommitTurnBlocked, SwapConversation
    <3> QED BY <1>1, <3>1 DEF RowsStay, Same
  <2>3. CASE CommitTurn(w) \/ CommitImageTurn(w)
    <3>1. PICK human \in {"bot", "human", "paused"}, order \in OrderAfter(w), plan \in Plan :
            CommitPlan(w, human, order, plan) /\ plan.version = conv.version + 1
      BY <2>3, CommitEffect
    <3>2. /\ conv.version = seen[w].version
          /\ conv' = [human |-> human, version |-> conv.version + 1, order |-> order]
          /\ \A e \in Event \ {turn[w]} : outbox'[e] = outbox[e]
          /\ outbox[turn[w]].parts > 0 => outbox'[turn[w]] = outbox[turn[w]]
          /\ outbox[turn[w]].parts = 0 => outbox'[turn[w]] = plan
          /\ seen'[w] = [seen[w] EXCEPT !.order = order]
          /\ expected'[w] = conv.version + 1
      BY <3>1, CommitRows
    <3> QED BY <1>1, <3>1, <3>2 DEF RowsStay, Same, Plan
  <2>4. CASE MarkPartSent(w) \/ MarkOutboundUnknown(w)
    <3>1. outbox[turn[w]].parts > 0
      BY <2>4, RecordEffect DEF RowInv, HeldOK, Dispatching
    <3>2. \A e \in Event : Same(outbox'[e], outbox[e])
      BY <1>1, <2>4, RecordEffect DEF Same
    <3>3. \A e \in Event : outbox[e].parts = 0 => outbox'[e] = outbox[e]
      BY <2>4, <3>1, RecordEffect
    <3> QED BY <1>1, <2>4, <3>2, <3>3, RecordEffect DEF RowsStay
  <2> QED BY <1>5, <2>1, <2>2, <2>3, <2>4, StepKinds
<1> QED BY <1>3, <1>4, <1>5 DEF Next

\* The row at a worker's turn, or the lack of one, before and after a step.
LEMMA HeldStays ==
  ASSUME TypeInv, RowInv, RowsStay, NEW v \in Workers,
         pc'[v] = pc[v] \/ pc'[v] \notin Dispatching,
         seen'[v] = seen[v], turn'[v] = turn[v], expected'[v] = expected[v],
         conv'.version \in Nat
  PROVE  HeldOK(v)'
<1>1. /\ conv.version \in Nat /\ conv'.version \in Nat /\ turn[v] \in Event
      /\ seen[v].version \in Nat /\ expected[v] \in Nat
  BY DEF TypeInv, TypeOK, StoreOK, WorkerOK, Conversation
<1>2. HeldOK(v) /\ conv'.version >= conv.version
  BY DEF RowInv, RowsStay
<1>3. outbox[turn[v]].parts > 0 => outbox'[turn[v]].parts > 0
                                    /\ outbox'[turn[v]].version = outbox[turn[v]].version
  BY <1>1 DEF RowsStay, Same
<1>4. Sending \subseteq Dispatching
  BY DEF Sending, Dispatching
<1> QED BY <1>1, <1>2, <1>3, <1>4 DEF HeldOK

\* A worker's step without a write to rows or versions.
LEMMA HeldByBystander ==
  ASSUME TypeInv, RowInv, NEW w \in Workers, Bystands(w)
  PROVE  HeldOK(w)'
<1>1. /\ conv.version \in Nat /\ turn[w] \in Event /\ outbox \in [Event -> Plan]
      /\ seen[w].version \in Nat /\ expected[w] \in Nat /\ conv.version <= conv.version
      /\ 0 <= conv.version
  BY DEF TypeInv, TypeOK, StoreOK, WorkerOK, Conversation
<1>2. UNCHANGED <<outbox, conv>> /\ HeldOK(w)
  BY BystandsKeeps DEF RowInv
<1> USE DEF Sending, Dispatching
<1>3. CASE Forget(w)
  BY <1>1, <1>2, <1>3, ForgetEffect DEF HeldOK, NewConversation
<1>4. CASE Quiet(w) /\ ~Forget(w)
  BY <1>1, <1>2, <1>4, QuietMoves DEF HeldOK, AfterDispatch, Authorized
<1>5. CASE EnsureConversation(w)
  BY <1>1, <1>2, <1>5 DEF HeldOK, EnsureConversation, Goto, TypeInv, TypeOK, WorkerOK
<1>6. CASE ResumeOutbound(w)
  BY <1>1, <1>2, <1>6
     DEF HeldOK, ResumeOutbound, Goto, TypeInv, TypeOK, WorkerOK
<1>7. CASE FetchProfile(w)
  BY <1>1, <1>2, <1>7 DEF HeldOK, FetchProfile, Goto, TypeInv, TypeOK, WorkerOK
<1>8. CASE PushCreatedOrder(w) \/ MarkProcessed(w)
  BY <1>1, <1>2, <1>8
     DEF HeldOK, PushCreatedOrder, MarkProcessed, Goto, localVars, TypeInv, TypeOK, WorkerOK
<1>9. CASE SendAccepted(w) \/ SendAmbiguous(w)
  BY <1>1, <1>2, <1>9, SendEffect DEF HeldOK, localVars
<1> QED BY <1>3, <1>4, <1>5, <1>6, <1>7, <1>8, <1>9 DEF Bystands

\* No row exists at the start.
LEMMA RowInit == Init => RowInv
BY DEF Init, RowInv, RowsOK, HeldOK, NewConversation, NoPlan, NewPlan, Dispatching, Sending

\* Every step keeps RowInv.
LEMMA RowStep == TypeInv /\ TypeInv' /\ RowInv /\ [Next]_vars => RowInv'
<1> SUFFICES ASSUME TypeInv, TypeInv', RowInv, [Next]_vars PROVE RowInv'
  OBVIOUS
<1>0. RowsStay
  BY RowsStayStep
<1>1. /\ conv.version \in Nat /\ conv'.version \in Nat /\ outbox \in [Event -> Plan]
      /\ \A e \in Event : outbox[e].parts \in Nat /\ outbox[e].version \in Nat
      /\ \A w \in Workers : turn[w] \in Event
  BY DEF TypeInv, TypeOK, StoreOK, Conversation, WorkerOK, Plan
<1>2. ASSUME UNCHANGED <<conv, outbox>>,
             \A e \in Event : outbox[e].parts = 0 => accepted'[e] = accepted[e]
      PROVE  RowsOK'
  BY <1>2 DEF RowInv, RowsOK
<1>3. ASSUME UNCHANGED <<pc, seen, turn, expected>> PROVE \A v \in Workers : HeldOK(v)'
  BY <1>0, <1>1, <1>3, HeldStays
<1>4. CASE Webhook \/ UNCHANGED vars
  <2>1. UNCHANGED <<conv, outbox, accepted, pc, seen, turn, expected>>
    BY <1>4 DEF Webhook, PersistInbound, Enqueue, LoseEnqueue, vars, storeVars, localVars
  <2> QED BY <1>2, <1>3, <2>1 DEF RowInv
<1>5. CASE MarkHumanTakeover
  <2>1. RowsOK'
    <3>1. ASSUME NEW e \in Event PROVE outbox'[e].version = outbox[e].version
      BY <1>5, TakeoverEffect DEF Same
    <3>2. ASSUME NEW e \in Event, outbox'[e].parts = 0
          PROVE  outbox'[e] = NoPlan /\ \A p \in 1..MaxParts : accepted'[e][p] = 0
      BY <1>5, <3>2, TakeoverEffect DEF Same, RowInv, RowsOK
    <3> QED BY <1>0, <1>1, <3>1, <3>2 DEF RowsOK, RowInv, RowsStay
  <2> QED BY <1>3, <1>5, <2>1, TakeoverEffect DEF RowInv, localVars
<1>6. ASSUME NEW w \in Workers, Turn(w) \/ Disturb(w) PROVE RowInv'
  <2>1. \A v \in Workers \ {w} : HeldOK(v)'
    BY <1>0, <1>1, <1>6, OthersKept, HeldStays
  <2>2. CASE Bystands(w)
    <3>1. \A e \in Event : outbox[e].parts = 0 => accepted'[e] = accepted[e]
      <4>1. CASE SendAccepted(w) \/ SendAmbiguous(w)
        <5>1. outbox[turn[w]].parts > 0 /\ \A e \in Event \ {turn[w]} : accepted'[e] = accepted[e]
          BY <4>1, SendEffect DEF RowInv, HeldOK, Sending, Dispatching
        <5> QED BY <5>1
      <4>2. CASE ~SendAccepted(w) /\ ~SendAmbiguous(w)
        BY <2>2, <4>2, QuietKeeps DEF Bystands, EnsureConversation, ResumeOutbound,
           FetchProfile, PushCreatedOrder, MarkProcessed
      <4> QED BY <4>1, <4>2
    <3> QED BY <1>2, <2>1, <2>2, <3>1, BystandsKeeps, HeldByBystander DEF RowInv
  <2>3. CASE CommitTurnBlocked(w)
    <3>1. /\ conv'.version = conv.version + 1
          /\ UNCHANGED <<outbox, accepted, seen, turn, expected>>
          /\ pc'[w] = "done"
      BY <2>3 DEF CommitTurnBlocked, SwapConversation, Goto, localVars, TypeInv, TypeOK, WorkerOK
    <3>2. HeldOK(w)'
      BY <1>0, <1>1, <3>1, HeldStays DEF Dispatching
    <3> QED BY <1>1, <2>1, <3>1, <3>2 DEF RowInv, RowsOK
  <2>4. CASE CommitTurn(w) \/ CommitImageTurn(w)
    <3>1. PICK human \in {"bot", "human", "paused"}, order \in OrderAfter(w), plan \in Plan :
            /\ CommitPlan(w, human, order, plan)
            /\ plan.parts > 0 /\ plan.version = conv.version + 1
            /\ pc'[w] \in {"push", "guard"} /\ UNCHANGED <<accepted, turn>>
      BY <2>4, CommitEffect
    <3>2. /\ conv'.version = conv.version + 1
          /\ \A e \in Event : outbox'[e] \in {outbox[e], plan}
          /\ outbox'[turn[w]].parts > 0
          /\ seen'[w].version = conv.version /\ expected'[w] = conv.version + 1
      <4>1. seen[w] \in Conversation
        BY DEF TypeInv, TypeOK, WorkerOK
      <4>2. /\ conv.version = seen[w].version
            /\ conv' = [human |-> human, version |-> conv.version + 1, order |-> order]
            /\ \A e \in Event \ {turn[w]} : outbox'[e] = outbox[e]
            /\ outbox[turn[w]].parts > 0 => outbox'[turn[w]] = outbox[turn[w]]
            /\ outbox[turn[w]].parts = 0 => outbox'[turn[w]] = plan
            /\ seen'[w] = [seen[w] EXCEPT !.order = order]
            /\ expected'[w] = conv.version + 1
        BY <3>1, CommitRows
      <4> QED BY <1>1, <3>1, <4>1, <4>2 DEF Conversation
    <3>3. HeldOK(w)'
      BY <1>1, <3>1, <3>2 DEF HeldOK, Sending
    <3>4. RowsOK'
      BY <1>1, <3>1, <3>2 DEF RowInv, RowsOK
    <3> QED BY <2>1, <3>3, <3>4 DEF RowInv
  <2>5. CASE MarkPartSent(w) \/ MarkOutboundUnknown(w)
    <3>1. UNCHANGED <<conv, accepted>>
      BY <2>5, RecordEffect
    <3>2. RowsOK'
      <4>1. outbox[turn[w]].parts > 0
        BY <2>5, RecordEffect DEF RowInv, HeldOK, Dispatching
      <4> QED BY <1>1, <2>5, <3>1, <4>1, RecordEffect DEF RowInv, RowsOK
    <3>3. HeldOK(w)'
      <4>1. CASE MarkPartSent(w)
        BY <1>0, <1>1, <3>1, <4>1, RecordEffect DEF RowInv, HeldOK, Sending, Dispatching
      <4>2. CASE ~MarkPartSent(w)
        BY <1>1, <2>5, <3>1, <4>2, RecordEffect, ForgetEffect
           DEF RowInv, HeldOK, NewConversation, Sending, Dispatching
      <4> QED BY <4>1, <4>2
    <3> QED BY <2>1, <3>2, <3>3 DEF RowInv
  <2> QED BY <1>6, <2>2, <2>3, <2>4, <2>5, StepKinds
<1> QED BY <1>4, <1>5, <1>6 DEF Next

-----------------------------------------------------------------------------
(* Orders. The row that goes out carries the order of the version it was     *)
(* committed with, which is the order the worker records before it sends.    *)

OrderHeld(w) ==
  /\ pc[w] \in Loaded \cup {"profile"} =>
       \A e \in Event : outbox[e].version = seen[w].version /\ outbox[e].order # 0
                          => outbox[e].order = seen[w].order
  /\ LET row == outbox[turn[w]] IN row.version = expected[w] /\ row.order # 0 =>
       /\ pc[w] = "push" => row.order = seen[w].order
       /\ pc[w] \in Dispatching \ {"push"} => row.order \in inbox

OrderInv ==
  /\ OrderBeforeReply
  /\ \A e \in Event : outbox[e].version = conv.version /\ outbox[e].order # 0
                         => outbox[e].order = conv.order
  /\ \A w \in Workers : OrderHeld(w)

\* A worker that stays where it was, or goes where nothing is asked of it.
LEMMA OrderHeldStays ==
  ASSUME TypeInv, RowInv, OrderInv, RowsStay, inbox \subseteq inbox', NEW v \in Workers,
         \/ pc'[v] = pc[v]
         \/ pc'[v] \notin Loaded \cup Dispatching \cup {"profile"}
         \/ pc'[v] \in Loaded \cup {"profile"} /\ pc[v] \in Loaded \cup {"profile"}
         \/ pc'[v] \in Sending \cup {"guard"} /\ pc[v] \in Sending \cup {"guard"},
         seen'[v] = seen[v], turn'[v] = turn[v], expected'[v] = expected[v]
  PROVE  OrderHeld(v)'
<1> USE DEF Dispatching, Sending, Loaded
<1>1. /\ conv.version \in Nat /\ turn[v] \in Event
      /\ seen[v].version \in Nat /\ expected[v] \in Nat /\ outbox \in [Event -> Plan]
  BY DEF TypeInv, TypeOK, StoreOK, WorkerOK, Conversation
<1>2. OrderHeld(v) /\ HeldOK(v)
  BY DEF OrderInv, RowInv
<1>3. ASSUME NEW e \in Event, outbox'[e].version <= conv.version, outbox'[e].order # 0
      PROVE  outbox'[e].order = outbox[e].order /\ outbox'[e].version = outbox[e].version
  <2>1. outbox[e].parts = 0 => outbox'[e] = outbox[e]
    BY <1>1, <1>3 DEF RowsStay
  <2>2. outbox[e].parts \in Nat
    BY <1>1 DEF Plan
  <2> QED BY <2>1, <2>2 DEF RowsStay, Same
<1>4. ASSUME pc'[v] \in Loaded \cup {"profile"},
             NEW e \in Event, outbox'[e].version = seen'[v].version, outbox'[e].order # 0
      PROVE  outbox'[e].order = seen'[v].order
  <2>1. outbox'[e].version <= conv.version
    BY <1>2, <1>4 DEF HeldOK
  <2> QED BY <1>2, <1>3, <1>4, <2>1 DEF OrderHeld
<1>5. ASSUME pc'[v] \in Dispatching
      PROVE  LET row == outbox'[turn[v]] IN row.version = expected'[v] /\ row.order # 0 =>
               /\ pc'[v] = "push" => row.order = seen'[v].order
               /\ pc'[v] \in Dispatching \ {"push"} => row.order \in inbox'
  <2>1. pc[v] \in Dispatching
    BY <1>5
  <2>2. Same(outbox'[turn[v]], outbox[turn[v]])
    BY <1>1, <1>2, <2>1 DEF HeldOK, RowsStay
  <2> QED BY <1>2, <1>5, <2>1, <2>2 DEF OrderHeld, Same
<1> QED BY <1>4, <1>5 DEF OrderHeld

\* What is recorded of the rows, of the conversation and of the inbox.
OrderedRows ==
  /\ OrderBeforeReply
  /\ \A e \in Event : outbox[e].version = conv.version /\ outbox[e].order # 0
                         => outbox[e].order = conv.order

\* Nothing is sent, no row comes, the order of the conversation stays its version's.
LEMMA OrderedRowsStay ==
  ASSUME TypeInv, RowInv, OrderInv, RowsStay, inbox \subseteq inbox',
         UNCHANGED accepted, \A e \in Event : outbox[e].parts = 0 => outbox'[e] = outbox[e],
         conv'.version = conv.version => conv' = conv
  PROVE  OrderedRows'
<1>1. conv.version \in Nat /\ outbox \in [Event -> Plan]
  BY DEF TypeInv, TypeOK, StoreOK, Conversation
<1>2. ASSUME NEW e \in Event
      PROVE  outbox'[e].order = outbox[e].order /\ outbox'[e].version = outbox[e].version
  <2>1. outbox[e].parts \in Nat
    BY <1>1 DEF Plan
  <2> QED BY <2>1 DEF RowsStay, Same
<1>3. OrderBeforeReply'
  BY <1>2 DEF OrderInv, OrderBeforeReply
<1>4. ASSUME NEW e \in Event, outbox'[e].version = conv'.version, outbox'[e].order # 0
      PROVE  outbox'[e].order = conv'.order
  <2>1. outbox[e].version <= conv.version /\ conv'.version >= conv.version
    BY DEF RowInv, RowsOK, RowsStay
  <2>2. outbox[e].version \in Nat
    BY <1>1 DEF Plan
  <2>3. conv'.version = conv.version
    BY <1>1, <1>2, <1>4, <2>1, <2>2
  <2> QED BY <1>2, <1>4, <2>3 DEF OrderInv
<1> QED BY <1>3, <1>4 DEF OrderedRows

\* A step that commits and sends nothing keeps a worker's part of OrderInv.
LEMMA OrderByBystander ==
  ASSUME TypeInv, RowInv, OrderInv, RowsStay, NEW w \in Workers, Bystands(w)
  PROVE  OrderHeld(w)' /\ inbox \subseteq inbox'
<1> USE DEF Dispatching, Sending, Loaded
<1>1. /\ UNCHANGED <<outbox, conv>> /\ OrderHeld(w) /\ HeldOK(w) /\ turn[w] \in Event
  BY BystandsKeeps DEF OrderInv, RowInv, TypeInv, TypeOK, WorkerOK
<1>2. ASSUME pc'[w] \notin Loaded \cup Dispatching \cup {"profile"} PROVE OrderHeld(w)'
  BY <1>2 DEF OrderHeld
<1>3. CASE Quiet(w)
  <2>1. UNCHANGED inbox
    BY <1>3, QuietKeeps DEF storeVars
  <2>2. CASE Forget(w)
    BY <1>2, <2>1, <2>2, ForgetEffect
  <2>3. CASE ~Forget(w)
    BY <1>2, <1>3, <2>1, <2>3, QuietMoves, OrderHeldStays DEF AfterDispatch
  <2> QED BY <2>2, <2>3
<1>4. CASE EnsureConversation(w)
  <2>1. /\ UNCHANGED <<inbox, turn, expected>> /\ seen'[w] = conv
        /\ pc'[w] \in {"done", "find"}
    BY <1>4 DEF EnsureConversation, Goto, TypeInv, TypeOK, WorkerOK
  <2> QED BY <1>1, <2>1 DEF OrderHeld, OrderInv
<1>5. CASE ResumeOutbound(w)
  <2>1. /\ pc[w] = "find" /\ UNCHANGED <<turn, seen>> /\ expected'[w] = seen[w].version
        /\ pc'[w] \in {"guard", "settle"} /\ inbox' = inbox \cup ({seen[w].order} \ {0})
    BY <1>5 DEF ResumeOutbound, RecordOrder, Goto, TypeInv, TypeOK, WorkerOK
  <2> QED BY <1>1, <2>1 DEF OrderHeld
<1>6. CASE FetchProfile(w)
  <2>1. /\ UNCHANGED <<inbox, turn, expected>> /\ seen'[w] \in {seen[w], conv}
        /\ pc[w] = "profile" /\ pc'[w] = "compose"
    BY <1>6 DEF FetchProfile, Goto, TypeInv, TypeOK, WorkerOK
  <2> QED BY <1>1, <2>1 DEF OrderHeld, OrderInv
<1>7. CASE PushCreatedOrder(w)
  <2>1. /\ pc[w] = "push" /\ UNCHANGED <<turn, seen, expected>> /\ pc'[w] = "guard"
        /\ inbox' = inbox \cup ({seen[w].order} \ {0})
    BY <1>7 DEF PushCreatedOrder, RecordOrder, Goto, localVars, TypeInv, TypeOK, WorkerOK
  <2> QED BY <1>1, <2>1 DEF OrderHeld
<1>8. CASE SendAccepted(w) \/ SendAmbiguous(w)
  BY <1>8, SendEffect, OrderHeldStays DEF localVars, storeVars
<1>9. CASE MarkProcessed(w)
  BY <1>2, <1>9 DEF MarkProcessed, Goto, TypeInv, TypeOK, WorkerOK
<1> QED BY <1>3, <1>4, <1>5, <1>6, <1>7, <1>8, <1>9 DEF Bystands

\* A part goes out only once its order is in the inbox.
LEMMA OrderedSend ==
  ASSUME TypeInv, RowInv, OrderInv, NEW w \in Workers, SendAccepted(w) \/ SendAmbiguous(w)
  PROVE  OrderedRows'
<1> DEFINE t == turn[w]
<1>1. /\ pc[w] = "send" /\ UNCHANGED <<outbox, inbox, conv>> /\ t \in Event
      /\ \A e \in Event \ {t} : accepted'[e] = accepted[e]
  BY SendEffect DEF storeVars
<1>2. outbox[t].order # 0 => outbox[t].order \in inbox
  BY <1>1 DEF OrderInv, OrderHeld, RowInv, HeldOK, Sending, Dispatching
<1>3. \A e \in Event \ {t} : outbox[e].order # 0 /\ accepted'[e][1] > 0 => outbox[e].order \in inbox
  BY <1>1 DEF OrderInv, OrderBeforeReply
<1> QED BY <1>1, <1>2, <1>3 DEF OrderedRows, OrderBeforeReply, OrderInv

\* A commit leaves the committer with the order to push before it sends.
LEMMA OrderByCommit ==
  ASSUME TypeInv, RowInv, OrderInv, NEW w \in Workers, CommitTurn(w) \/ CommitImageTurn(w)
  PROVE  OrderHeld(w)' /\ OrderedRows' /\ inbox' = inbox
<1> DEFINE t == turn[w]
<1>1. PICK human \in {"bot", "human", "paused"}, order \in OrderAfter(w), plan \in Plan :
        /\ CommitPlan(w, human, order, plan)
        /\ plan.version = conv.version + 1 /\ plan.order \in {0, order}
        /\ pc'[w] = IF CommitTurn(w) THEN "push" ELSE "guard"
        /\ ~CommitTurn(w) => plan.order = 0
        /\ UNCHANGED <<inbox, accepted, turn>>
  BY CommitEffect
<1>2. /\ t \in Event /\ conv.version \in Nat
      /\ conv' = [human |-> human, version |-> conv.version + 1, order |-> order]
      /\ \A e \in Event \ {t} : outbox'[e] = outbox[e]
      /\ outbox[t].parts > 0 => outbox'[t] = outbox[t]
      /\ outbox[t].parts = 0 => outbox'[t] = plan
      /\ seen'[w] = [seen[w] EXCEPT !.order = order]
      /\ expected'[w] = conv.version + 1
  BY <1>1, CommitRows
<1>3. seen'[w].order = order
  BY <1>2 DEF TypeInv, TypeOK, WorkerOK, Conversation
<1>4. \A e \in Event : outbox[e].parts \in Nat /\ outbox[e].version \in Nat
                      /\ outbox[e].version <= conv.version
  BY DEF TypeInv, TypeOK, StoreOK, Plan, RowInv, RowsOK
<1>5. \A e \in Event : outbox'[e].version = conv.version + 1 => e = t /\ outbox'[e] = plan
  BY <1>2, <1>4
<1>6. OrderHeld(w)'
  <2>1. pc'[w] \notin Loaded \cup {"profile"}
    BY <1>1 DEF Loaded
  <2>2. outbox'[t].version = expected'[w] => outbox'[t] = plan
    BY <1>2, <1>5
  <2> QED BY <1>1, <1>3, <2>1, <2>2 DEF OrderHeld
<1>7. OrderBeforeReply'
  <2>1. ASSUME NEW e \in Event, outbox'[e].order # 0, accepted'[e][1] > 0
        PROVE  outbox'[e].order \in inbox'
    <3>1. 1 \in 1..MaxParts
      BY ConstantsAssumption
    <3>2. outbox[e].parts > 0
      BY <1>1, <1>4, <2>1, <3>1 DEF RowInv, RowsOK
    <3> QED BY <1>1, <1>2, <2>1, <3>2 DEF OrderInv, OrderBeforeReply
  <2> QED BY <2>1 DEF OrderBeforeReply
<1>8. \A e \in Event : outbox'[e].version = conv'.version /\ outbox'[e].order # 0
                      => outbox'[e].order = conv'.order
  BY <1>1, <1>2, <1>5
<1> QED BY <1>1, <1>6, <1>7, <1>8 DEF OrderedRows

\* Every step keeps OrderInv.
LEMMA OrderStep == TypeInv /\ RowInv /\ OrderInv /\ [Next]_vars => OrderInv'
<1> SUFFICES ASSUME TypeInv, RowInv, OrderInv, [Next]_vars PROVE OrderInv'
  OBVIOUS
<1>0. RowsStay
  BY RowsStayStep
<1> SUFFICES OrderedRows' /\ \A v \in Workers : OrderHeld(v)'
  BY DEF OrderInv, OrderedRows
<1>1. CASE Webhook \/ UNCHANGED vars
  <2>1. UNCHANGED <<conv, outbox, accepted, inbox, pc, seen, turn, expected>>
    BY <1>1 DEF Webhook, PersistInbound, Enqueue, LoseEnqueue, vars, storeVars, localVars
  <2> QED BY <1>0, <2>1, OrderHeldStays, OrderedRowsStay
<1>2. CASE MarkHumanTakeover
  <2>1. /\ UNCHANGED <<accepted, inbox, pc, seen, turn, expected>>
        /\ conv'.version = conv.version + 1 /\ conv.version \in Nat
        /\ \A e \in Event : outbox[e].parts = 0 => outbox'[e] = outbox[e]
    BY <1>2, TakeoverEffect DEF localVars, TypeInv, TypeOK, StoreOK, Conversation
  <2> QED BY <1>0, <2>1, OrderHeldStays, OrderedRowsStay
<1>3. ASSUME NEW w \in Workers, Turn(w) \/ Disturb(w)
      PROVE  OrderedRows' /\ \A v \in Workers : OrderHeld(v)'
  <2>1. ASSUME inbox \subseteq inbox' PROVE \A v \in Workers \ {w} : OrderHeld(v)'
    BY <1>0, <1>3, <2>1, OthersKept, OrderHeldStays
  <2>2. CASE Bystands(w)
    <3>1. OrderHeld(w)' /\ inbox \subseteq inbox'
      BY <1>0, <2>2, OrderByBystander
    <3>2. OrderedRows'
      <4>1. CASE SendAccepted(w) \/ SendAmbiguous(w)
        BY <4>1, OrderedSend
      <4>2. CASE ~SendAccepted(w) /\ ~SendAmbiguous(w)
        <5>1. UNCHANGED <<accepted, outbox, conv>>
          BY <2>2, <4>2, BystandsKeeps, QuietKeeps
             DEF Bystands, EnsureConversation, ResumeOutbound, FetchProfile,
                 PushCreatedOrder, MarkProcessed
        <5> QED BY <1>0, <3>1, <5>1, OrderedRowsStay
      <4> QED BY <4>1, <4>2
    <3> QED BY <2>1, <3>1, <3>2
  <2>3. CASE CommitTurnBlocked(w)
    <3>1. /\ UNCHANGED <<outbox, accepted, inbox>> /\ conv'.version = conv.version + 1
          /\ pc'[w] = "done" /\ conv.version \in Nat
      BY <2>3 DEF CommitTurnBlocked, SwapConversation, Goto, TypeInv, TypeOK, WorkerOK,
                  StoreOK, Conversation
    <3>2. OrderHeld(w)'
      BY <3>1 DEF OrderHeld, Loaded, Dispatching
    <3> QED BY <1>0, <2>1, <3>1, <3>2, OrderedRowsStay
  <2>4. CASE CommitTurn(w) \/ CommitImageTurn(w)
    BY <2>1, <2>4, OrderByCommit
  <2>5. CASE MarkPartSent(w) \/ MarkOutboundUnknown(w)
    <3>1. /\ UNCHANGED <<conv, accepted, inbox>>
          /\ \A e \in Event : outbox[e].parts = 0 => outbox'[e] = outbox[e]
      <4>1. outbox[turn[w]].parts > 0
        BY <2>5, RecordEffect DEF RowInv, HeldOK, Dispatching
      <4> QED BY <2>5, <4>1, RecordEffect
    <3>2. OrderHeld(w)'
      <4>1. CASE MarkPartSent(w)
        BY <1>0, <3>1, <4>1, RecordEffect, OrderHeldStays DEF Sending
      <4>2. CASE ~MarkPartSent(w)
        <5>1. pc'[w] = "idle"
          BY <2>5, <4>2, RecordEffect, ForgetEffect
        <5> QED BY <5>1 DEF OrderHeld, Loaded, Dispatching
      <4> QED BY <4>1, <4>2
    <3> QED BY <1>0, <2>1, <3>1, <3>2, OrderedRowsStay
  <2> QED BY <1>3, <2>2, <2>3, <2>4, <2>5, StepKinds
<1> QED BY <1>1, <1>2, <1>3 DEF Next

\* A confirmed order is in the inbox before the customer reads that it is, on the
\* first path and on the resumed one, whatever version or row the worker holds.
THEOREM OrderPrecedesReply == Spec => []OrderBeforeReply
<1>1. Init => TypeInv /\ RowInv /\ OrderInv
  <2> SUFFICES ASSUME Init PROVE TypeInv /\ RowInv /\ OrderInv
    OBVIOUS
  <2>1. RowInv
    BY RowInit
  <2>2. OrderInv
    BY DEF Init, OrderInv, OrderHeld, OrderBeforeReply, NoPlan, NewPlan, Loaded, Dispatching
  <2> QED BY <2>1, <2>2, TypeInit
<1>2. TypeInv /\ RowInv /\ OrderInv /\ [Next]_vars => (TypeInv /\ RowInv /\ OrderInv)'
  BY TypeStep, RowStep, OrderStep
<1>3. OrderInv => OrderBeforeReply
  BY DEF OrderInv
<1> QED BY <1>1, <1>2, <1>3, PTL DEF Spec

-----------------------------------------------------------------------------
(* Acknowledged messages. A worker at the end of its turn has settled every  *)
(* message of its batch, each in the way its path does.                      *)

Settled(e) ==
  e \in processed \/ \E t \in Event : e \in served[t] \ Images /\ outbox[t].ack

AckHeld(w) ==
  /\ pc[w] = "done" \/ (pc[w] \in Dispatching /\ ~resumed[w]) =>
       \A e \in BatchContent(w) : Settled(e)
  /\ pc[w] \in {"profile", "compose"} => BatchContent(w) \cap Images = {}
  /\ /\ pc[w] = "commit" /\ seen[w].version = conv.version
     /\ BatchContent(w) \cap Images # {}
     => outbox[turn[w]].parts = 0

AckInv ==
  /\ \A e \in Content : stage[e] = "acked" => Settled(e)
  /\ \A w \in Workers : AckHeld(w)

\* Nothing that settles a message is taken back.
SettlesMore ==
  processed \subseteq processed' /\ \A t \in Event : served[t] \subseteq served'[t]

\* What is settled stays settled as long as replies and marks only grow.
LEMMA SettledStays ==
  ASSUME TypeInv, RowInv, RowsStay, SettlesMore, NEW e, Settled(e)
  PROVE  Settled(e)'
<1>1. CASE e \in processed
  BY <1>1 DEF Settled, SettlesMore
<1>2. ASSUME NEW t \in Event, e \in served[t] \ Images, outbox[t].ack PROVE Settled(e)'
  <2>1. outbox[t].parts > 0
    BY <1>2 DEF RowInv, RowsOK, NoPlan, NewPlan, TypeInv, TypeOK, StoreOK, Plan
  <2>2. outbox'[t].ack
    BY <1>2, <2>1 DEF RowsStay, Same
  <2> QED BY <1>2, <2>2 DEF Settled, SettlesMore
<1> QED BY <1>1, <1>2 DEF Settled

\* No step takes back a mark or a committed reply.
LEMMA SettlesMoreStep == TypeInv /\ [Next]_vars => SettlesMore
<1> SUFFICES ASSUME TypeInv, [Next]_vars PROVE SettlesMore
  OBVIOUS
<1>1. ASSUME UNCHANGED <<processed, served>> PROVE SettlesMore
  BY <1>1 DEF SettlesMore
<1>2. CASE Webhook \/ UNCHANGED vars
  BY <1>1, <1>2 DEF Webhook, PersistInbound, Enqueue, LoseEnqueue, vars, storeVars, ghostVars
<1>3. CASE MarkHumanTakeover
  BY <1>1, <1>3, TakeoverEffect DEF ghostVars
<1>4. ASSUME NEW w \in Workers, Turn(w) \/ Disturb(w) PROVE SettlesMore
  <2>1. CASE Quiet(w)
    BY <1>1, <2>1, QuietKeeps DEF storeVars, ghostVars
  <2>2. CASE EnsureConversation(w) \/ MarkProcessed(w)
    BY <2>2 DEF EnsureConversation, MarkProcessed, AllProcessed, ghostVars, SettlesMore
  <2>3. CASE ResumeOutbound(w) \/ FetchProfile(w) \/ PushCreatedOrder(w)
    BY <1>1, <2>3 DEF ResumeOutbound, FetchProfile, PushCreatedOrder, ghostVars
  <2>4. CASE SendAccepted(w) \/ SendAmbiguous(w)
    BY <1>1, <2>4, SendEffect DEF storeVars
  <2>5. CASE MarkPartSent(w) \/ MarkOutboundUnknown(w)
    BY <1>1, <2>5, RecordEffect DEF ghostVars
  <2>6. CASE CommitTurnBlocked(w)
    BY <2>6 DEF CommitTurnBlocked, SettlesMore, TypeInv, TypeOK, MetaOK
  <2>7. CASE CommitTurn(w) \/ CommitImageTurn(w)
    <3>1. PICK human \in {"bot", "human", "paused"}, order \in OrderAfter(w), plan \in Plan :
            CommitPlan(w, human, order, plan)
      BY <2>7, CommitEffect
    <3>2. /\ processed' = processed \cup plan.sources
          /\ served' = [served EXCEPT ![turn[w]] = @ \cup BatchContent(w)]
      BY <3>1 DEF CommitPlan
    <3> QED BY <3>2 DEF SettlesMore, TypeInv, TypeOK, MetaOK
  <2> QED BY <1>4, <2>1, <2>2, <2>3, <2>4, <2>5, <2>6, <2>7, StepKinds DEF Bystands
<1> QED BY <1>2, <1>3, <1>4 DEF Next

\* A worker whose locals stay as they were.
LEMMA AckHeldStays ==
  ASSUME TypeInv, RowInv, RowInv', AckInv, RowsStay, SettlesMore, conv'.version \in Nat,
         NEW v \in Workers,
         pc'[v] = pc[v], batch'[v] = batch[v], seen'[v] = seen[v], turn'[v] = turn[v],
         resumed'[v] = resumed[v]
  PROVE  AckHeld(v)'
<1>1. /\ conv.version \in Nat /\ turn[v] \in Event /\ seen[v].version \in Nat
      /\ outbox \in [Event -> Plan]
  BY DEF TypeInv, TypeOK, StoreOK, WorkerOK, Conversation
<1>2. AckHeld(v) /\ seen[v].version <= conv.version
  BY DEF AckInv, RowInv, HeldOK
<1>3. BatchContent(v)' = BatchContent(v)
  BY DEF BatchContent, Events
<1>4. \A e \in BatchContent(v) : Settled(e) => Settled(e)'
  BY SettledStays
<1>5. ASSUME seen'[v].version = conv'.version, outbox[turn[v]].parts = 0
      PROVE  seen[v].version = conv.version /\ outbox'[turn'[v]].parts = 0
  <2>1. conv'.version = conv.version
    BY <1>1, <1>2, <1>5 DEF RowsStay
  <2>2. outbox'[turn[v]].version <= conv'.version
    BY <1>1 DEF RowInv, RowsOK
  <2>3. outbox'[turn[v]] = outbox[turn[v]]
    BY <1>1, <1>5, <2>1, <2>2 DEF RowsStay
  <2> QED BY <1>5, <2>1, <2>3
<1>6. conv'.version = seen'[v].version => conv.version = seen[v].version
  BY <1>1, <1>2 DEF RowsStay
<1> QED BY <1>2, <1>3, <1>4, <1>5, <1>6 DEF AckHeld

\* A step that neither commits nor acknowledges keeps a worker's part of AckInv.
LEMMA AckByBystander ==
  ASSUME TypeInv, RowInv, RowInv', AckInv, RowsStay, SettlesMore, conv'.version \in Nat,
         NEW w \in Workers, Bystands(w)
  PROVE  AckHeld(w)'
<1> USE DEF Dispatching
<1>1. UNCHANGED <<outbox, conv>> /\ AckHeld(w)
  BY BystandsKeeps DEF AckInv
<1>2. ASSUME UNCHANGED batch
      PROVE  /\ BatchContent(w)' = BatchContent(w)
             /\ \A e \in BatchContent(w) : Settled(e) => Settled(e)'
  BY <1>2, SettledStays DEF BatchContent, Events
<1>3. ASSUME pc'[w] \notin Dispatching \cup {"done", "profile", "compose", "commit"}
      PROVE  AckHeld(w)'
  BY <1>3 DEF AckHeld
<1>4. CASE Quiet(w)
  <2>1. CASE Forget(w)
    BY <1>3, <2>1, ForgetEffect
  <2>2. CASE ~Forget(w) /\ UNCHANGED <<batch, turn>>
    <3>1. UNCHANGED <<seen, resumed>>
      BY <1>4, <2>2, QuietMoves
    <3>2. CASE UNCHANGED pc
      BY <1>1, <1>2, <2>2, <3>1, <3>2 DEF AckHeld
    <3>3. CASE pc[w] = "guard" /\ pc'[w] \in {"send", AfterDispatch(w)}
      BY <1>1, <1>2, <2>2, <3>1, <3>3 DEF AckHeld, AfterDispatch
    <3>4. CASE pc[w] = "compose" /\ pc'[w] \in {"superseded", "block", "commit"}
      BY <1>1, <1>2, <2>2, <3>1, <3>4 DEF AckHeld
    <3>5. CASE pc[w] = "find" /\ pc'[w] \in {"commit", "settle", "compose", "profile"}
      <4>1. /\ outbox[turn[w]].parts = 0
            /\ pc'[w] # "commit" => BatchContent(w) \cap Images = {}
        BY <1>4, <2>2, <3>5, QuietMoves
      <4> QED BY <1>1, <1>2, <2>2, <3>5, <4>1 DEF AckHeld
    <3>6. CASE pc'[w] \in {"lease", "load"}
      BY <1>3, <3>6
    <3> QED BY <1>4, <2>2, <3>2, <3>3, <3>4, <3>5, <3>6, QuietMoves
  <2>3. CASE ~Forget(w) /\ ~(UNCHANGED <<batch, turn>>)
    BY <1>3, <1>4, <2>3, QuietMoves
  <2> QED BY <2>1, <2>2, <2>3
<1>5. CASE EnsureConversation(w)
  <2>1. /\ UNCHANGED batch /\ pc'[w] \in {"done", "find"}
        /\ pc'[w] = "done" => processed' = AllProcessed(w)
    BY <1>5 DEF EnsureConversation, Goto, TypeInv, TypeOK, WorkerOK
  <2>2. BatchContent(w) \subseteq AllProcessed(w)
    BY DEF BatchContent, AllProcessed
  <2> QED BY <1>2, <2>1, <2>2 DEF AckHeld, Settled
<1>6. CASE ResumeOutbound(w)
  BY <1>6 DEF ResumeOutbound, Goto, TypeInv, TypeOK, WorkerOK, AckHeld
<1>7. CASE FetchProfile(w)
  <2>1. pc[w] = "profile" /\ pc'[w] = "compose" /\ UNCHANGED batch
    BY <1>7 DEF FetchProfile, Goto, TypeInv, TypeOK, WorkerOK
  <2> QED BY <1>1, <1>2, <2>1 DEF AckHeld
<1>8. CASE PushCreatedOrder(w)
  <2>1. pc[w] = "push" /\ pc'[w] = "guard" /\ UNCHANGED <<batch, resumed>>
    BY <1>8 DEF PushCreatedOrder, Goto, localVars, TypeInv, TypeOK, WorkerOK
  <2> QED BY <1>1, <1>2, <2>1 DEF AckHeld
<1>9. CASE SendAccepted(w) \/ SendAmbiguous(w)
  <2>1. pc[w] = "send" /\ pc'[w] \in {"record", "unknown"} /\ UNCHANGED <<batch, resumed>>
    BY <1>9, SendEffect DEF localVars
  <2> QED BY <1>1, <1>2, <2>1 DEF AckHeld
<1>10. CASE MarkProcessed(w)
  <2>1. /\ UNCHANGED batch /\ pc'[w] = "done" /\ processed' = AllProcessed(w)
    BY <1>10 DEF MarkProcessed, Goto, localVars, TypeInv, TypeOK, WorkerOK
  <2>2. BatchContent(w) \subseteq AllProcessed(w)
    BY DEF BatchContent, AllProcessed
  <2> QED BY <1>2, <2>1, <2>2 DEF AckHeld, Settled
<1> QED BY <1>4, <1>5, <1>6, <1>7, <1>8, <1>9, <1>10 DEF Bystands

\* A commit settles the batch: a text turn marks all of it, the hand-over of an
\* image marks the images and serves the rest by the acknowledgement it inserts.
LEMMA AckByCommit ==
  ASSUME TypeInv, RowInv, AckInv, NEW w \in Workers, CommitTurn(w) \/ CommitImageTurn(w)
  PROVE  AckHeld(w)'
<1> DEFINE t == turn[w]
<1>1. PICK human \in {"bot", "human", "paused"}, order \in OrderAfter(w), plan \in Plan :
        /\ CommitPlan(w, human, order, plan)
        /\ pc[w] = "commit" /\ pc'[w] \in {"push", "guard"}
        /\ CommitTurn(w) => plan.sources = BatchContent(w)
        /\ ~CommitTurn(w) => /\ BatchContent(w) \cap Images # {}
                             /\ plan.sources = BatchContent(w) \cap Images /\ plan.ack
        /\ UNCHANGED <<batch, turn>>
  BY CommitEffect
<1>2. /\ t \in Event /\ conv.version = seen[w].version
      /\ conv' = [human |-> human, version |-> conv.version + 1, order |-> order]
      /\ outbox[t].parts > 0 => outbox'[t] = outbox[t]
      /\ outbox[t].parts = 0 => outbox'[t] = plan
      /\ seen'[w] = [seen[w] EXCEPT !.order = order]
      /\ processed' = processed \cup plan.sources
      /\ served' = [served EXCEPT ![t] = @ \cup BatchContent(w)]
  BY <1>1, CommitRows
<1>3. BatchContent(w)' = BatchContent(w)
  BY <1>1 DEF BatchContent, Events
<1>4. BatchContent(w) \subseteq served'[t]
  BY <1>2 DEF TypeInv, TypeOK, MetaOK
<1>5. ~CommitTurn(w) => outbox'[t].ack
  BY <1>1, <1>2 DEF AckInv, AckHeld
<1>6. ASSUME NEW e \in BatchContent(w) PROVE Settled(e)'
  BY <1>1, <1>2, <1>4, <1>5 DEF Settled
<1> QED BY <1>1, <1>3, <1>6 DEF AckHeld

\* Only Acknowledge takes an entry from the queue, and its worker has settled it.
LEMMA AckedStay ==
  ASSUME TypeInv, RowInv, AckInv, RowsStay, SettlesMore, [Next]_vars
  PROVE  \A e \in Content : stage'[e] = "acked" => Settled(e)'
<1> SUFFICES ASSUME NEW e \in Content, stage'[e] = "acked" PROVE Settled(e)
  BY SettledStays
<1>1. stage \in [Event -> {"none", "stored", "lost", "live", "acked", "dead"}]
      /\ e \in Event /\ ingested \in Nat
  BY ConstantsAssumption DEF TypeInv, TypeOK, QueueOK, Content
<1>2. CASE stage[e] = "acked"
  BY <1>2 DEF AckInv
<1>3. CASE stage[e] # "acked"
  <2>1. \A w \in Workers : \A max : ~RetryOrDeadLetter(w, max)
    BY <1>1, <1>3 DEF RetryOrDeadLetter
  <2>2. ~Webhook /\ ~MarkHumanTakeover /\ ~(UNCHANGED vars)
    BY <1>1, <1>3 DEF Webhook, PersistInbound, Enqueue, LoseEnqueue, MarkHumanTakeover,
                      vars, queueVars
  <2>3. PICK w \in Workers : Turn(w) \/ Disturb(w)
    BY <2>2 DEF Next
  <2>4. CASE Acknowledge(w)
    <3>1. pc[w] = "done" /\ <<e, attempt[e]>> \in batch[w]
      BY <1>1, <1>3, <2>4 DEF Acknowledge
    <3>2. e \in BatchContent(w)
      BY <3>1 DEF BatchContent, Events
    <3> QED BY <3>1, <3>2 DEF AckInv, AckHeld
  <2>5. CASE ~Acknowledge(w)
    <3>1. UNCHANGED stage
      BY <2>1, <2>3, <2>5
         DEF Turn, Disturb, ReadGroup, AcquireLease, LeaseBusy, EnsureConversation,
             ResumeOutbound, NoTurnOutbound, FetchProfile, Compose, CommitTurnBlocked,
             CommitTurn, CommitImageTurn, StateConflict, PushCreatedOrder, GuardPart,
             SendAccepted, SendAmbiguous, SendRejected, MarkPartSent,
             MarkOutboundUnknown, MarkProcessed, LeavePending, LeaseLostAtEnd,
             AbandonTurn, ExpireLease, StopWorker, CrashWorker, CallFails, queueVars
    <3> QED BY <1>3, <3>1
  <2> QED BY <2>4, <2>5
<1> QED BY <1>2, <1>3

\* Every step keeps AckInv.
LEMMA AckStep ==
  TypeInv /\ TypeInv' /\ RowInv /\ RowInv' /\ AckInv /\ [Next]_vars => AckInv'
<1> SUFFICES ASSUME TypeInv, TypeInv', RowInv, RowInv', AckInv, [Next]_vars PROVE AckInv'
  OBVIOUS
<1>1. RowsStay /\ SettlesMore /\ conv'.version \in Nat
  BY RowsStayStep, SettlesMoreStep DEF TypeInv, TypeOK, StoreOK, Conversation
<1>2. \A e \in Content : stage'[e] = "acked" => Settled(e)'
  BY <1>1, AckedStay
<1>3. CASE Webhook \/ UNCHANGED vars \/ MarkHumanTakeover
  <2>1. UNCHANGED <<pc, batch, seen, turn, resumed>>
    BY <1>3 DEF Webhook, PersistInbound, Enqueue, LoseEnqueue, MarkHumanTakeover, vars, localVars
  <2> QED BY <1>1, <1>2, <2>1, AckHeldStays DEF AckInv
<1>4. ASSUME NEW w \in Workers, Turn(w) \/ Disturb(w) PROVE \A v \in Workers : AckHeld(v)'
  <2>1. \A v \in Workers \ {w} : AckHeld(v)'
    BY <1>1, <1>4, OthersKept, AckHeldStays
  <2>2. CASE Bystands(w)
    BY <1>1, <2>1, <2>2, AckByBystander
  <2>3. CASE CommitTurn(w) \/ CommitImageTurn(w)
    BY <2>1, <2>3, AckByCommit
  <2>4. CASE CommitTurnBlocked(w)
    <3>1. pc'[w] = "done" /\ UNCHANGED batch /\ processed' = processed \cup BatchContent(w)
      BY <2>4 DEF CommitTurnBlocked, Goto, localVars, TypeInv, TypeOK, WorkerOK
    <3>2. BatchContent(w)' = BatchContent(w)
      BY <3>1 DEF BatchContent, Events
    <3> QED BY <2>1, <3>1, <3>2 DEF AckHeld, Settled
  <2>5. CASE MarkPartSent(w)
    <3>1. pc[w] = "record" /\ pc'[w] = "guard" /\ UNCHANGED <<batch, resumed>>
      BY <2>5, RecordEffect
    <3>2. BatchContent(w)' = BatchContent(w)
      BY <3>1 DEF BatchContent, Events
    <3>3. \A e \in BatchContent(w) : Settled(e) => Settled(e)'
      BY <1>1, SettledStays
    <3> QED BY <2>1, <3>1, <3>2, <3>3 DEF AckInv, AckHeld, Dispatching
  <2>6. CASE MarkOutboundUnknown(w) /\ ~MarkPartSent(w)
    <3>1. pc'[w] = "idle"
      BY <2>6, RecordEffect, ForgetEffect
    <3> QED BY <2>1, <3>1 DEF AckHeld, Dispatching
  <2> QED BY <1>4, <2>2, <2>3, <2>4, <2>5, <2>6, StepKinds
<1> QED BY <1>2, <1>3, <1>4 DEF AckInv, Next

\* No message leaves the queue without being answered, marked or handed over,
\* whoever read it, retried it, resumed its turn or committed beside the others.
THEOREM NoMessageIsForgotten == Spec => []NoSilentAck
<1>1. Init => TypeInv /\ RowInv /\ AckInv
  <2> SUFFICES ASSUME Init PROVE TypeInv /\ RowInv /\ AckInv
    OBVIOUS
  <2>1. RowInv
    BY RowInit
  <2>2. AckInv
    BY DEF Init, AckInv, AckHeld, Content, Dispatching
  <2> QED BY <2>1, <2>2, TypeInit
<1>2. TypeInv /\ RowInv /\ AckInv /\ [Next]_vars => (TypeInv /\ RowInv /\ AckInv)'
  BY TypeStep, RowStep, AckStep
<1>3. AckInv => NoSilentAck
  BY DEF AckInv, NoSilentAck, Settled
<1> QED BY <1>1, <1>2, <1>3, PTL DEF Spec

-----------------------------------------------------------------------------
(* While no lease ran out under its holder, the lease keeps every other      *)
(* worker out of the turn, and the holder's cursor is the stored one.        *)

Alone(w) == pc[w] \notin {"idle", "lease"} => lease = w

InStep(w) ==
  LET row == outbox[turn[w]] IN
  pc[w] \in Dispatching =>
    cursor[w] = row.sent /\ (row.version = expected[w] => ~row.unknown)

AloneInv == stalls = 0 => \A w \in Workers : Alone(w) /\ InStep(w)

\* Who changes the lease, and how.
LEMMA LeaseMoves ==
  ASSUME NEW w \in Workers, Turn(w) \/ Disturb(w)
  PROVE  \/ UNCHANGED <<lease, stalls>>
         \/ AcquireLease(w) /\ lease = NoWorker /\ lease' = w /\ UNCHANGED stalls
         \/ Forget(w) /\ lease = w /\ lease' = NoWorker /\ UNCHANGED stalls
         \/ ExpireLease(w) /\ lease = w /\ lease' = NoWorker
<1>1. CASE AcquireLease(w)
  BY <1>1 DEF AcquireLease, envVars
<1>2. CASE ExpireLease(w)
  BY <1>2 DEF ExpireLease
<1>3. CASE \/ LeaseBusy(w) \/ SendRejected(w) \/ MarkOutboundUnknown(w)
           \/ Acknowledge(w) \/ LeavePending(w) \/ LeaseLostAtEnd(w) \/ AbandonTurn(w)
           \/ StateConflict(w)
  BY <1>3 DEF LeaseBusy, SendRejected, MarkOutboundUnknown, Acknowledge, LeavePending,
              LeaseLostAtEnd, AbandonTurn, StateConflict, RetryOrDeadLetter, Release, envVars
<1>4. CASE StopWorker(w) \/ CrashWorker(w) \/ CallFails(w)
  BY <1>4 DEF StopWorker, CrashWorker, CallFails, RetryOrDeadLetter, Release
<1>5. CASE \/ \E claimed \in SUBSET Event : ReadGroup(w, claimed)
           \/ EnsureConversation(w) \/ ResumeOutbound(w) \/ NoTurnOutbound(w)
           \/ FetchProfile(w) \/ Compose(w) \/ CommitTurnBlocked(w) \/ CommitTurn(w)
           \/ CommitImageTurn(w)
  BY <1>5 DEF ReadGroup, EnsureConversation, ResumeOutbound, NoTurnOutbound, FetchProfile,
              Compose, CommitTurnBlocked, CommitTurn, CommitImageTurn, envVars
<1>6. CASE \/ PushCreatedOrder(w) \/ GuardPart(w) \/ SendAccepted(w) \/ SendAmbiguous(w)
           \/ MarkPartSent(w) \/ MarkProcessed(w)
  BY <1>6 DEF PushCreatedOrder, GuardPart, SendAccepted, SendAmbiguous, MarkPartSent,
              MarkProcessed, envVars
<1> QED BY <1>1, <1>2, <1>3, <1>4, <1>5, <1>6 DEF Turn, Disturb

\* A worker goes on to work only from work, or with the lease.
LEMMA WorkStarts ==
  ASSUME TypeInv, NEW w \in Workers, Turn(w) \/ Disturb(w), pc'[w] \notin {"idle", "lease"}
  PROVE  pc[w] \notin {"idle", "lease"} \/ AcquireLease(w)
<1>1. ~Forget(w)
  BY ForgetEffect
<1>2. CASE Quiet(w)
  <2>1. CASE \E claimed \in SUBSET Event : ReadGroup(w, claimed)
    BY <2>1 DEF ReadGroup, Goto, TypeInv, TypeOK, WorkerOK
  <2>2. CASE AcquireLease(w)
    BY <2>2
  <2>3. CASE ExpireLease(w)
    BY <2>3 DEF ExpireLease
  <2> QED BY <1>1, <1>2, <2>1, <2>2, <2>3
          DEF Quiet, LeaseBusy, NoTurnOutbound, Compose, StateConflict, GuardPart,
              SendRejected, Acknowledge, LeavePending, LeaseLostAtEnd, AbandonTurn,
              StopWorker, CrashWorker, CallFails, RetryOrDeadLetter
<1>3. CASE ~Quiet(w)
  BY <1>3, StepKinds
     DEF Bystands, EnsureConversation, ResumeOutbound, FetchProfile, PushCreatedOrder,
         SendAccepted, SendAmbiguous, MarkProcessed, CommitTurnBlocked, CommitTurn,
         CommitImageTurn, MarkPartSent, MarkOutboundUnknown
<1> QED BY <1>2, <1>3

\* No stall is taken back.
LEMMA StallsStay ==
  TypeInv /\ [Next]_vars => stalls' >= stalls /\ faults' >= faults
<1> SUFFICES ASSUME TypeInv, [Next]_vars PROVE stalls' >= stalls /\ faults' >= faults
  OBVIOUS
<1>1. stalls \in Nat /\ faults \in Nat
  BY ConstantsAssumption DEF TypeInv, TypeOK, EnvOK
<1>2. CASE Webhook \/ MarkHumanTakeover \/ UNCHANGED vars
  <2>1. UNCHANGED <<stalls, faults>>
    BY <1>2 DEF Webhook, PersistInbound, Enqueue, LoseEnqueue, MarkHumanTakeover, vars, envVars
  <2> QED BY <1>1, <2>1
<1>3. ASSUME NEW w \in Workers, Disturb(w) PROVE stalls' >= stalls /\ faults' >= faults
  BY <1>1, <1>3 DEF Disturb, ExpireLease, StopWorker, CrashWorker, CallFails, Fault
<1>4. ASSUME NEW w \in Workers, Turn(w) PROVE UNCHANGED <<stalls, faults>>
  BY <1>4 DEF Turn, ReadGroup, AcquireLease, LeaseBusy, EnsureConversation, ResumeOutbound,
              NoTurnOutbound, FetchProfile, Compose, CommitTurnBlocked, CommitTurn,
              CommitImageTurn, StateConflict, PushCreatedOrder, GuardPart, SendAccepted,
              SendAmbiguous, SendRejected, MarkPartSent, MarkOutboundUnknown, MarkProcessed,
              Acknowledge, LeavePending, LeaseLostAtEnd, AbandonTurn, envVars
<1> QED BY <1>1, <1>2, <1>3, <1>4 DEF Next

\* A worker that keeps its control point and its lease stays alone.
LEMMA AloneStays ==
  ASSUME TypeInv, NEW w \in Workers, Turn(w) \/ Disturb(w), stalls = 0, stalls' = 0,
         \A v \in Workers : Alone(v)
  PROVE  \A v \in Workers : Alone(v)'
<1>1. ASSUME NEW v \in Workers, v # w PROVE Alone(v)'
  <2>1. pc'[v] = pc[v]
    BY <1>1, OthersKept
  <2>2. lease = v => lease' = v
    BY <1>1, LeaseMoves, ConstantsAssumption
  <2> QED BY <2>1, <2>2 DEF Alone
<1>2. ASSUME pc'[w] \notin {"idle", "lease"} PROVE lease' = w
  <2>1. CASE AcquireLease(w)
    BY <2>1 DEF AcquireLease
  <2>2. CASE ~AcquireLease(w)
    <3>1. pc[w] \notin {"idle", "lease"} /\ lease = w
      BY <1>2, <2>2, WorkStarts DEF Alone
    <3>2. ~Forget(w)
      BY <1>2, ForgetEffect
    <3>3. ~ExpireLease(w)
      BY <3>1 DEF ExpireLease
    <3> QED BY <2>2, <3>1, <3>2, <3>3, LeaseMoves
  <2> QED BY <2>1, <2>2
<1> QED BY <1>1, <1>2 DEF Alone

\* How a worker comes to dispatch, and goes on with it.
LEMMA DispatchMoves ==
  ASSUME TypeInv, NEW w \in Workers, Turn(w) \/ Disturb(w), pc'[w] \in Dispatching
  PROVE  /\ turn'[w] = turn[w]
         /\ \/ /\ UNCHANGED <<outbox, conv, accepted, late, expected, cursor>>
               /\ \/ pc'[w] = pc[w]
                  \/ pc[w] = "push" /\ pc'[w] = "guard" /\ UNCHANGED <<lease, faults, stalls>>
                  \/ /\ pc[w] = "guard" /\ pc'[w] = "send" /\ lease = w
                     /\ Authorized(outbox[turn[w]], expected[w])
                     /\ CanDispatch(outbox[turn[w]], expected[w])
                     /\ UNCHANGED <<lease, faults, stalls>>
            \/ /\ UNCHANGED <<outbox, conv, accepted, late, lease, faults, stalls>>
               /\ pc[w] = "find" /\ pc'[w] = "guard" /\ lease = w
               /\ cursor'[w] = outbox[turn[w]].sent /\ ~outbox[turn[w]].unknown
               /\ outbox[turn[w]].version = expected'[w]
            \/ CommitTurn(w) \/ CommitImageTurn(w)
            \/ SendAccepted(w) \/ SendAmbiguous(w)
            \/ MarkPartSent(w)
<1> USE DEF Dispatching
<1>1. ~Forget(w)
  BY ForgetEffect
<1>2. CASE Quiet(w)
  <2>1. UNCHANGED <<outbox, conv, accepted, late>>
    BY <1>2, QuietKeeps DEF storeVars, ghostVars
  <2>2. UNCHANGED <<expected, cursor>> /\ turn'[w] = turn[w]
    BY <1>1, <1>2, QuietMoves
  <2>3. CASE GuardPart(w)
    BY <1>1, <1>2, <2>1, <2>2, <2>3, QuietMoves DEF AfterDispatch, GuardPart, envVars
  <2>4. CASE ~GuardPart(w)
    <3>1. pc'[w] = pc[w] \/ pc[w] = "guard"
      BY <1>1, <1>2, QuietMoves
    <3>2. ~(pc[w] = "guard" /\ pc'[w] = "send")
      <4>1. pc[w] # "guard" \/ UNCHANGED pc
        BY <1>1, <1>2, <2>4
           DEF Quiet, ReadGroup, AcquireLease, LeaseBusy, NoTurnOutbound, Compose,
               StateConflict, SendRejected, Acknowledge, LeavePending, LeaseLostAtEnd,
               AbandonTurn, ExpireLease, StopWorker, CrashWorker, CallFails,
               RetryOrDeadLetter
      <4> QED BY <4>1
    <3> QED BY <1>1, <1>2, <2>1, <2>2, <3>1, <3>2, QuietMoves DEF AfterDispatch
  <2> QED BY <2>3, <2>4
<1>3. CASE ResumeOutbound(w)
  <2>1. /\ UNCHANGED <<outbox, conv, accepted, late, lease, faults, stalls, turn>>
        /\ pc[w] = "find" /\ lease = w
        /\ cursor'[w] = outbox[turn[w]].sent /\ expected'[w] = seen[w].version
    BY <1>3 DEF ResumeOutbound, ResumeAt, envVars, ghostVars, TypeInv, TypeOK, WorkerOK
  <2>2. Resumable(outbox[turn[w]], seen[w].version) /\ pc'[w] = "guard"
    BY <1>3 DEF ResumeOutbound, Goto, TypeInv, TypeOK, WorkerOK
  <2> QED BY <2>1, <2>2 DEF Resumable, Authorized
<1>4. CASE PushCreatedOrder(w)
  BY <1>4 DEF PushCreatedOrder, Goto, localVars, envVars, ghostVars, TypeInv, TypeOK, WorkerOK
<1>5. CASE EnsureConversation(w) \/ FetchProfile(w) \/ MarkProcessed(w) \/ CommitTurnBlocked(w)
  BY <1>5 DEF EnsureConversation, FetchProfile, MarkProcessed, CommitTurnBlocked, Goto,
              TypeInv, TypeOK, WorkerOK
<1>6. CASE MarkOutboundUnknown(w)
  BY <1>1, <1>6 DEF MarkOutboundUnknown, RetryOrDeadLetter
<1>7. CASE CommitTurn(w) \/ CommitImageTurn(w) \/ MarkPartSent(w)
  BY <1>7 DEF CommitTurn, CommitImageTurn, MarkPartSent
<1>8. CASE SendAccepted(w) \/ SendAmbiguous(w)
  BY <1>8, SendEffect DEF localVars
<1> QED BY <1>2, <1>3, <1>4, <1>5, <1>6, <1>7, <1>8, StepKinds DEF Bystands

\* Rows are written by commits and by the record of a send.
LEMMA RowWriters ==
  ASSUME TypeInv, RowInv, NEW w \in Workers, Turn(w) \/ Disturb(w), NEW e \in Event,
         outbox[e].parts > 0, outbox'[e] # outbox[e]
  PROVE  /\ turn[w] = e
         /\ \/ MarkPartSent(w) /\ pc[w] = "record"
            \/ MarkOutboundUnknown(w) /\ pc[w] = "unknown"
<1>1. ~Bystands(w)
  BY BystandsKeeps
<1>2. ~CommitTurnBlocked(w)
  BY DEF CommitTurnBlocked
<1>3. CASE CommitTurn(w) \/ CommitImageTurn(w)
  <2>1. PICK human \in {"bot", "human", "paused"}, order \in OrderAfter(w), plan \in Plan :
          CommitPlan(w, human, order, plan)
    BY <1>3, CommitEffect
  <2>2. /\ \A f \in Event \ {turn[w]} : outbox'[f] = outbox[f]
        /\ outbox[turn[w]].parts > 0 => outbox'[turn[w]] = outbox[turn[w]]
    BY <2>1, CommitRows
  <2> QED BY <2>2
<1>4. CASE MarkPartSent(w) \/ MarkOutboundUnknown(w)
  BY <1>4, RecordEffect
<1> QED BY <1>1, <1>2, <1>3, <1>4, StepKinds

\* A commit starts a row where an absent one stands: at zero, and not in doubt.
LEMMA StoredCursorStays ==
  ASSUME TypeInv, RowInv, NEW w \in Workers, Turn(w) \/ Disturb(w),
         ~MarkPartSent(w), ~MarkOutboundUnknown(w), NEW e \in Event
  PROVE  outbox'[e].sent = outbox[e].sent /\ outbox'[e].unknown = outbox[e].unknown
<1>1. CASE outbox[e].parts > 0
  BY <1>1, RowWriters
<1>2. CASE outbox[e].parts = 0
  <2>1. outbox[e].sent = 0 /\ outbox[e].unknown = FALSE
    BY <1>2 DEF RowInv, RowsOK, NoPlan, NewPlan
  <2>2. CASE Bystands(w) \/ CommitTurnBlocked(w)
    BY <2>2, BystandsKeeps DEF CommitTurnBlocked
  <2>3. CASE CommitTurn(w) \/ CommitImageTurn(w)
    <3>1. PICK human \in {"bot", "human", "paused"}, order \in OrderAfter(w), plan \in Plan :
            CommitPlan(w, human, order, plan) /\ plan.sent = 0 /\ ~plan.unknown
      BY <2>3, CommitEffect
    <3>2. outbox'[e] \in {outbox[e], plan} /\ plan.unknown = FALSE
      BY <3>1 DEF CommitPlan, TypeInv, TypeOK, StoreOK, WorkerOK, Plan
    <3> QED BY <2>1, <3>1, <3>2
  <2> QED BY <2>2, <2>3, StepKinds
<1> QED BY <1>1, <1>2 DEF TypeInv, TypeOK, StoreOK, Plan

\* While the lease keeps the others out, they do not see their row change.
LEMMA InStepElsewhere ==
  ASSUME TypeInv, RowInv, NEW w \in Workers, Turn(w) \/ Disturb(w),
         \A v \in Workers : Alone(v) /\ InStep(v),
         NEW v \in Workers, v # w
  PROVE  InStep(v)'
<1>1. /\ pc'[v] = pc[v] /\ turn'[v] = turn[v] /\ expected'[v] = expected[v]
      /\ cursor'[v] = cursor[v]
  BY OthersKept
<1>2. CASE pc[v] \in Dispatching
  <2>1. outbox[turn[v]].parts > 0 /\ turn[v] \in Event
    BY <1>2 DEF RowInv, HeldOK, TypeInv, TypeOK, WorkerOK
  <2>2. pc[w] \in {"idle", "lease"}
    BY <1>2 DEF Alone, Dispatching
  <2>3. outbox'[turn[v]] = outbox[turn[v]]
    BY <2>1, <2>2, RowWriters
  <2> QED BY <1>1, <2>3 DEF InStep
<1>3. CASE pc[v] \notin Dispatching
  BY <1>1, <1>3 DEF InStep
<1> QED BY <1>2, <1>3

\* A worker's own step keeps its cursor in step with the stored one.
LEMMA InStepHere ==
  ASSUME TypeInv, RowInv, NEW w \in Workers, Turn(w) \/ Disturb(w), InStep(w)
  PROVE  InStep(w)'
<1> SUFFICES ASSUME pc'[w] \in Dispatching PROVE InStep(w)'
  BY DEF InStep
<1> USE DEF Dispatching
<1>1. turn'[w] = turn[w] /\ turn[w] \in Event
  BY DispatchMoves DEF TypeInv, TypeOK, WorkerOK
<1>2. CASE CommitTurn(w) \/ CommitImageTurn(w)
  <2>1. PICK human \in {"bot", "human", "paused"}, order \in OrderAfter(w), plan \in Plan :
          CommitPlan(w, human, order, plan) /\ plan.sent = 0 /\ ~plan.unknown
    BY <1>2, CommitEffect
  <2>2. /\ conv.version \in Nat /\ conv.version = seen[w].version
        /\ conv' = [human |-> human, version |-> conv.version + 1, order |-> order]
        /\ \A e \in Event \ {turn[w]} : outbox'[e] = outbox[e]
        /\ outbox[turn[w]].parts > 0 => outbox'[turn[w]] = outbox[turn[w]]
        /\ outbox[turn[w]].parts = 0 => outbox'[turn[w]] = plan
        /\ seen'[w] = [seen[w] EXCEPT !.order = order]
        /\ expected'[w] = conv.version + 1 /\ cursor'[w] = outbox'[turn[w]].sent
    BY <2>1, CommitRows
  <2>3. /\ outbox[turn[w]].parts \in Nat /\ outbox[turn[w]].version \in Nat
        /\ outbox[turn[w]].version <= conv.version
    BY <1>1 DEF TypeInv, TypeOK, StoreOK, Plan, RowInv, RowsOK
  <2>4. CASE outbox[turn[w]].parts > 0
    BY <1>1, <2>2, <2>3, <2>4 DEF InStep
  <2>5. CASE outbox[turn[w]].parts = 0
    BY <1>1, <2>1, <2>2, <2>5 DEF InStep
  <2> QED BY <2>3, <2>4, <2>5
<1>3. CASE SendAccepted(w) \/ SendAmbiguous(w)
  BY <1>1, <1>3, SendEffect DEF InStep, storeVars, localVars
<1>4. CASE MarkPartSent(w)
  BY <1>1, <1>4, RecordEffect DEF InStep
<1>5. CASE /\ UNCHANGED <<outbox, expected, cursor>> /\ pc[w] \in Dispatching
  BY <1>1, <1>5 DEF InStep
<1>6. CASE /\ UNCHANGED outbox /\ cursor'[w] = outbox[turn[w]].sent
           /\ ~outbox[turn[w]].unknown
  BY <1>1, <1>6 DEF InStep
<1> QED BY <1>2, <1>3, <1>4, <1>5, <1>6, DispatchMoves

\* Every step keeps AloneInv.
LEMMA AloneStep ==
  TypeInv /\ TypeInv' /\ RowInv /\ AloneInv /\ [Next]_vars => AloneInv'
<1> SUFFICES ASSUME TypeInv, TypeInv', RowInv, AloneInv, [Next]_vars, stalls' = 0
             PROVE  \A v \in Workers : Alone(v)' /\ InStep(v)'
  BY DEF AloneInv
<1>1. stalls = 0
  BY StallsStay, ConstantsAssumption DEF TypeInv, TypeOK, EnvOK
<1>2. \A v \in Workers : Alone(v) /\ InStep(v)
  BY <1>1 DEF AloneInv
<1>3. CASE Webhook \/ UNCHANGED vars
  BY <1>2, <1>3 DEF Webhook, PersistInbound, Enqueue, LoseEnqueue, vars, storeVars,
                    localVars, Alone, InStep
<1>4. CASE MarkHumanTakeover
  <2>1. UNCHANGED <<lease, pc, turn, expected, cursor>>
    BY <1>4, TakeoverEffect DEF localVars
  <2>2. \A v \in Workers : turn[v] \in Event
    BY DEF TypeInv, TypeOK, WorkerOK
  <2>3. \A e \in Event : /\ outbox'[e].version = outbox[e].version
                         /\ outbox'[e].sent = outbox[e].sent
                         /\ outbox'[e].unknown = outbox[e].unknown
    BY <1>4, TakeoverEffect DEF Same
  <2> QED BY <1>2, <2>1, <2>2, <2>3 DEF Alone, InStep
<1>5. ASSUME NEW w \in Workers, Turn(w) \/ Disturb(w)
      PROVE  \A v \in Workers : Alone(v)' /\ InStep(v)'
  BY <1>1, <1>2, <1>5, AloneStays, InStepElsewhere, InStepHere
<1> QED BY <1>3, <1>4, <1>5 DEF Next

\* With every worker alone, no step sends a part that is in doubt.
LEMMA NeverResentStep ==
  ASSUME TypeInv, TypeInv', RowInv, AloneInv, [Next]_vars, stalls = 0, NEW e \in Event
  PROVE  /\ outbox'[e].sent >= outbox[e].sent
         /\ outbox[e].unknown => accepted'[e] = accepted[e]
<1>1. outbox[e].sent \in Nat /\ outbox'[e].sent \in Nat /\ outbox[e].parts \in Nat
  BY ConstantsAssumption DEF TypeInv, TypeOK, StoreOK, Plan
<1>2. ASSUME outbox'[e].sent = outbox[e].sent, UNCHANGED accepted
      PROVE  /\ outbox'[e].sent >= outbox[e].sent
             /\ outbox[e].unknown => accepted'[e] = accepted[e]
  BY <1>1, <1>2
<1>3. CASE Webhook \/ UNCHANGED vars
  BY <1>2, <1>3 DEF Webhook, PersistInbound, Enqueue, LoseEnqueue, vars, storeVars
<1>4. CASE MarkHumanTakeover
  BY <1>2, <1>4, TakeoverEffect
<1>5. ASSUME NEW w \in Workers, Turn(w) \/ Disturb(w)
      PROVE  /\ outbox'[e].sent >= outbox[e].sent
             /\ outbox[e].unknown => accepted'[e] = accepted[e]
  <2>1. CASE outbox[e].parts = 0
    <3>1. outbox[e].sent = 0 /\ ~outbox[e].unknown
      BY <2>1 DEF RowInv, RowsOK, NoPlan, NewPlan
    <3> QED BY <1>1, <3>1
  <2>2. CASE outbox[e].parts > 0 /\ outbox'[e] # outbox[e]
    <3>1. /\ turn[w] = e /\ pc[w] \in {"record", "unknown"}
          /\ MarkPartSent(w) \/ MarkOutboundUnknown(w)
      BY <1>5, <2>2, RowWriters
    <3>2. cursor[w] = outbox[e].sent
      BY <3>1 DEF AloneInv, InStep, Dispatching
    <3> QED BY <1>1, <3>1, <3>2, RecordEffect
  <2>3. CASE outbox'[e] = outbox[e]
    <3>1. CASE SendAccepted(w) \/ SendAmbiguous(w)
      <4>1. /\ pc[w] = "send" /\ \A f \in Event \ {turn[w]} : accepted'[f] = accepted[f]
        BY <3>1, SendEffect
      <4>2. ~outbox[turn[w]].unknown
        BY <4>1 DEF AloneInv, InStep, RowInv, HeldOK, Sending, Dispatching
      <4> QED BY <1>1, <2>3, <4>1, <4>2
    <3>2. CASE Bystands(w) /\ ~SendAccepted(w) /\ ~SendAmbiguous(w)
      <4>1. UNCHANGED accepted
        BY <3>2, QuietKeeps DEF Bystands, EnsureConversation, ResumeOutbound, FetchProfile,
                                PushCreatedOrder, MarkProcessed
      <4> QED BY <1>2, <2>3, <4>1
    <3>3. CASE CommitTurnBlocked(w)
      BY <1>2, <2>3, <3>3 DEF CommitTurnBlocked
    <3>4. CASE CommitTurn(w) \/ CommitImageTurn(w)
      BY <1>2, <2>3, <3>4 DEF CommitTurn, CommitImageTurn
    <3>5. CASE MarkPartSent(w) \/ MarkOutboundUnknown(w)
      BY <1>2, <2>3, <3>5, RecordEffect
    <3> QED BY <1>5, <3>1, <3>2, <3>3, <3>4, <3>5, StepKinds
  <2> QED BY <1>1, <2>1, <2>2, <2>3
<1> QED BY <1>3, <1>4, <1>5 DEF Next

\* A reply in doubt gets no further part and no cursor goes back, whatever crashed
\* and whoever resumed, as long as no worker outlived its lease.
THEOREM DoubtIsFinal == Spec => UnknownNeverResent
<1>1. Init => TypeInv /\ RowInv /\ AloneInv
  BY TypeInit, RowInit DEF Init, AloneInv, Alone, InStep, Dispatching
<1>2. TypeInv /\ RowInv /\ AloneInv /\ [Next]_vars => (TypeInv /\ RowInv /\ AloneInv)'
  BY TypeStep, RowStep, AloneStep
<1>3. TypeInv /\ TypeInv' /\ RowInv /\ AloneInv /\ [Next]_vars =>
        [stalls = 0 => \A e \in Event :
           /\ outbox'[e].sent >= outbox[e].sent
           /\ outbox[e].unknown => accepted'[e] = accepted[e]]_vars
  BY NeverResentStep
<1> QED BY <1>1, <1>2, <1>3, PTL DEF Spec, UnknownNeverResent

-----------------------------------------------------------------------------
(* ConversationTurn implements ReplyDelivery while nothing fails: Meta holds *)
(* the parts up to the stored cursor once, and at most the one after it.     *)

Calm == stalls = 0 /\ faults = 0

\* The outcome of the part after the cursor is not stored yet.
Pending(e) == \E w \in Workers : turn[w] = e /\ pc[w] \in {"record", "unknown"}

PartExact(e, q) ==
  /\ q <= outbox[e].sent => accepted[e][q] = 1
  /\ q > outbox[e].sent =>
       \/ accepted[e][q] = 0
       \/ /\ accepted[e][q] = 1 /\ q = outbox[e].sent + 1
          /\ outbox[e].unknown \/ Pending(e)

ExactInv == Calm =>
  /\ \A e \in Event, q \in 1..MaxParts : PartExact(e, q)
  /\ \A w \in Workers : pc[w] = "record" => accepted[turn[w]][cursor[w] + 1] = 1

\* A worker that knows what Meta said writes it down next.
LEMMA OutcomeIsStored ==
  ASSUME TypeInv, NEW w \in Workers, Turn(w) \/ Disturb(w), pc[w] \in {"record", "unknown"},
         faults' = faults
  PROVE  \/ MarkPartSent(w) /\ pc[w] = "record"
         \/ MarkOutboundUnknown(w) /\ pc[w] = "unknown"
         \/ UNCHANGED <<pc, turn, cursor>>
<1>1. ~Fault
  BY ConstantsAssumption DEF Fault, TypeInv, TypeOK, EnvOK
<1>2. CASE ExpireLease(w)
  BY <1>2 DEF ExpireLease, localVars, storeVars
<1> QED
  BY <1>1, <1>2
     DEF Turn, Disturb, ReadGroup, AcquireLease, LeaseBusy, EnsureConversation,
         ResumeOutbound, NoTurnOutbound, FetchProfile, Compose, CommitTurnBlocked,
         CommitTurn, CommitImageTurn, StateConflict, PushCreatedOrder, GuardPart,
         SendAccepted, SendAmbiguous, SendRejected, MarkPartSent, MarkOutboundUnknown,
         MarkProcessed, Acknowledge, LeavePending, LeaseLostAtEnd, AbandonTurn, Asserting,
         StopWorker, CrashWorker, CallFails

\* The part a worker sends is the next one, and Meta has not seen it.
LEMMA SendIsNext ==
  ASSUME TypeInv, RowInv, AloneInv, ExactInv, Calm, NEW w \in Workers, pc[w] = "send"
  PROVE  LET t == turn[w]  p == cursor[w] + 1 IN
         /\ t \in Event /\ p \in 1..MaxParts /\ p = outbox[t].sent + 1 /\ p <= outbox[t].parts
         /\ accepted[t][p] = 0 /\ \A q \in 1..(p - 1) : accepted[t][q] = 1
         /\ ~outbox[t].unknown /\ ~Pending(t)
<1> DEFINE t == turn[w]  p == cursor[w] + 1
<1>1. t \in Event /\ p \in 1..MaxParts
  BY NextPartExists
<1>2. outbox[t].sent \in 0..MaxParts /\ cursor[w] \in Nat /\ outbox[t].parts \in Nat
      /\ cursor[w] < outbox[t].parts
  BY <1>1, ConstantsAssumption DEF TypeInv, TypeOK, StoreOK, Plan, WorkerOK, Working
<1>3. p = outbox[t].sent + 1 /\ ~outbox[t].unknown
  BY DEF AloneInv, InStep, Calm, Dispatching, RowInv, HeldOK, Sending
<1>4. ~Pending(t)
  BY DEF Pending, AloneInv, Alone, Calm
<1>5. \A q \in 1..MaxParts : PartExact(t, q)
  BY <1>1 DEF ExactInv
<1>6. accepted[t][p] = 0
  BY <1>1, <1>2, <1>3, <1>4, <1>5 DEF PartExact
<1>7. ASSUME NEW q \in 1..(p - 1) PROVE accepted[t][q] = 1
  <2>1. q \in 1..MaxParts /\ q <= outbox[t].sent
    BY <1>1, <1>2, <1>3, ConstantsAssumption
  <2> QED BY <1>5, <2>1 DEF PartExact
<1> QED BY <1>1, <1>2, <1>3, <1>4, <1>6, <1>7

\* Steps that neither send nor store an outcome.
LEMMA ExactByOthers ==
  ASSUME TypeInv, ExactInv, Calm, UNCHANGED accepted,
         \A e \in Event : /\ outbox'[e].sent = outbox[e].sent
                          /\ outbox[e].unknown => outbox'[e].unknown,
         \A v \in Workers : pc'[v] = "record" => pc[v] = "record" /\ cursor'[v] = cursor[v]
                                                  /\ turn'[v] = turn[v],
         \A v \in Workers : pc[v] \in {"record", "unknown"} =>
                              pc'[v] = pc[v] /\ turn'[v] = turn[v]
  PROVE  ExactInv'
<1>1. \A e \in Event : Pending(e) => Pending(e)'
  BY DEF Pending
<1>2. \A e \in Event, q \in 1..MaxParts : PartExact(e, q)'
  BY <1>1 DEF ExactInv, PartExact
<1> QED BY <1>2 DEF ExactInv

\* Every step keeps ExactInv.
LEMMA ExactStep ==
  TypeInv /\ TypeInv' /\ RowInv /\ AloneInv /\ ExactInv /\ [Next]_vars => ExactInv'
<1> SUFFICES ASSUME TypeInv, TypeInv', RowInv, AloneInv, ExactInv, [Next]_vars, Calm'
             PROVE  ExactInv'
  BY DEF ExactInv
<1>1. Calm
  BY StallsStay, ConstantsAssumption DEF TypeInv, TypeOK, EnvOK, Calm
<1>2. CASE Webhook \/ UNCHANGED vars \/ MarkHumanTakeover
  <2>1. UNCHANGED <<accepted, pc, cursor, turn>>
    BY <1>2 DEF Webhook, PersistInbound, Enqueue, LoseEnqueue, MarkHumanTakeover, vars, localVars
  <2>2. \A e \in Event : /\ outbox'[e].sent = outbox[e].sent
                         /\ outbox[e].unknown => outbox'[e].unknown
    <3>1. CASE MarkHumanTakeover
      BY <3>1, TakeoverEffect
    <3>2. CASE Webhook \/ UNCHANGED vars
      BY <3>2 DEF Webhook, PersistInbound, Enqueue, LoseEnqueue, vars, storeVars
    <3> QED BY <1>2, <3>1, <3>2
  <2> QED BY <1>1, <2>1, <2>2, ExactByOthers
<1>3. ASSUME NEW w \in Workers, Turn(w) \/ Disturb(w) PROVE ExactInv'
  <2> DEFINE t == turn[w]  p == cursor[w] + 1
  <2>0. \A v \in Workers \ {w} : pc'[v] = pc[v] /\ turn'[v] = turn[v] /\ cursor'[v] = cursor[v]
    BY <1>3, OthersKept
  <2>1. CASE SendAccepted(w) \/ SendAmbiguous(w)
    <3>1. /\ pc[w] = "send" /\ pc'[w] \in {"record", "unknown"}
          /\ UNCHANGED <<outbox, turn, cursor>>
          /\ \A e \in Event \ {t} : accepted'[e] = accepted[e]
          /\ \A q \in (1..MaxParts) \ {p} : accepted'[t][q] = accepted[t][q]
          /\ \/ accepted'[t][p] = accepted[t][p] + 1
             \/ accepted'[t][p] = accepted[t][p] /\ pc'[w] = "unknown"
      BY <2>1, SendEffect DEF storeVars, localVars
    <3>2. /\ t \in Event /\ p \in 1..MaxParts /\ p = outbox[t].sent + 1
          /\ accepted[t][p] = 0 /\ \A q \in 1..(p - 1) : accepted[t][q] = 1
          /\ ~outbox[t].unknown /\ ~Pending(t)
      BY <1>1, <3>1, SendIsNext
    <3>3. \A e \in Event : Pending(e) => Pending(e)'
      <4>1. \A v \in Workers : pc[v] \in {"record", "unknown"} =>
                                 pc'[v] = pc[v] /\ turn'[v] = turn[v]
        BY <2>0, <3>1
      <4> QED BY <4>1 DEF Pending
    <3>4. ASSUME NEW e \in Event, e = t PROVE Pending(e)'
      BY <3>1, <3>4 DEF Pending
    <3>5. ASSUME NEW e \in Event, NEW q \in 1..MaxParts PROVE PartExact(e, q)'
      <4>1. PartExact(e, q)
        BY <1>1 DEF ExactInv
      <4>2. CASE e # t \/ q # p
        <5>1. accepted'[e][q] = accepted[e][q]
          BY <3>1, <4>2
        <5> QED BY <3>1, <3>3, <4>1, <5>1 DEF PartExact
      <4>3. CASE e = t /\ q = p
        <5>1. accepted'[e][q] \in {0, 1}
          BY <3>1, <3>2, <4>3
        <5>2. outbox'[e].sent \in 0..MaxParts /\ outbox[t].sent = outbox'[e].sent
          BY <3>1, <4>3 DEF TypeInv, TypeOK, StoreOK, Plan
        <5>3. Pending(e)'
          BY <3>4, <4>3
        <5>4. q = outbox'[e].sent + 1 /\ ~(q <= outbox'[e].sent)
          BY <3>2, <4>3, <5>2, ConstantsAssumption
        <5> QED BY <5>1, <5>3, <5>4 DEF PartExact
      <4> QED BY <4>2, <4>3
    <3>6. ASSUME NEW v \in Workers, pc'[v] = "record"
          PROVE  accepted'[turn'[v]][cursor'[v] + 1] = 1
      <4>1. CASE v = w
        BY <3>1, <3>2, <3>6, <4>1
      <4>2. CASE v # w
        BY <1>1, <2>0, <3>1, <3>6, <4>2 DEF AloneInv, Alone, Calm
      <4> QED BY <4>1, <4>2
    <3> QED BY <3>5, <3>6 DEF ExactInv
  <2>2. CASE MarkPartSent(w)
    <3>1. /\ t \in Event /\ pc[w] = "record" /\ pc'[w] = "guard"
          /\ UNCHANGED <<accepted, turn>>
          /\ \A e \in Event \ {t} : outbox'[e] = outbox[e]
          /\ outbox'[t].sent = p /\ outbox'[t].unknown = outbox[t].unknown
      BY <2>2, RecordEffect
    <3>2. p = outbox[t].sent + 1 /\ p \in 1..MaxParts /\ accepted[t][p] = 1
      BY <1>1, <3>1, NextPartExists DEF AloneInv, InStep, Calm, Dispatching, ExactInv
    <3>3. \A v \in Workers \ {w} : pc[v] \in {"idle", "lease"}
      BY <1>1, <3>1 DEF AloneInv, Alone, Calm
    <3>4. ASSUME NEW e \in Event, NEW q \in 1..MaxParts PROVE PartExact(e, q)'
      <4>1. PartExact(e, q)
        BY <1>1 DEF ExactInv
      <4>2. CASE e # t
        <5>1. ~Pending(e)
          BY <3>1, <3>3, <4>2 DEF Pending
        <5> QED BY <3>1, <4>1, <4>2, <5>1 DEF PartExact
      <4>3. CASE e = t
        <5>1. outbox[t].sent \in 0..MaxParts
          BY <3>1 DEF TypeInv, TypeOK, StoreOK, Plan
        <5> QED BY <3>1, <3>2, <4>1, <4>3, <5>1, ConstantsAssumption DEF PartExact
      <4> QED BY <4>2, <4>3
    <3>5. \A v \in Workers : pc'[v] # "record"
      BY <2>0, <3>1, <3>3
    <3> QED BY <3>4, <3>5 DEF ExactInv
  <2>3. CASE MarkOutboundUnknown(w) /\ ~MarkPartSent(w)
    <3>1. /\ t \in Event /\ pc[w] = "unknown" /\ Forget(w)
          /\ UNCHANGED accepted
          /\ \A e \in Event \ {t} : outbox'[e] = outbox[e]
          /\ outbox'[t].sent = cursor[w] /\ outbox'[t].unknown
      BY <2>3, RecordEffect
    <3>2. cursor[w] = outbox[t].sent
      BY <1>1, <3>1 DEF AloneInv, InStep, Calm, Dispatching
    <3>3. \A v \in Workers \ {w} : pc[v] \in {"idle", "lease"}
      BY <1>1, <3>1 DEF AloneInv, Alone, Calm
    <3>4. ASSUME NEW e \in Event, NEW q \in 1..MaxParts PROVE PartExact(e, q)'
      <4>1. PartExact(e, q)
        BY <1>1 DEF ExactInv
      <4>2. CASE e # t
        <5>1. ~Pending(e)
          BY <3>1, <3>3, <4>2 DEF Pending
        <5> QED BY <3>1, <4>1, <4>2, <5>1 DEF PartExact
      <4>3. CASE e = t
        BY <3>1, <3>2, <4>1, <4>3 DEF PartExact
      <4> QED BY <4>2, <4>3
    <3>5. \A v \in Workers : pc'[v] # "record"
      BY <2>0, <3>1, <3>3, ForgetEffect
    <3> QED BY <3>4, <3>5 DEF ExactInv
  <2>4. CASE /\ ~SendAccepted(w) /\ ~SendAmbiguous(w)
             /\ ~MarkPartSent(w) /\ ~MarkOutboundUnknown(w)
    <3>1. UNCHANGED accepted
      <4>1. CASE Bystands(w)
        BY <2>4, <4>1, QuietKeeps DEF Bystands, EnsureConversation, ResumeOutbound,
           FetchProfile, PushCreatedOrder, MarkProcessed
      <4>2. CASE CommitTurnBlocked(w) \/ CommitTurn(w) \/ CommitImageTurn(w)
        BY <4>2 DEF CommitTurnBlocked, CommitTurn, CommitImageTurn
      <4> QED BY <1>3, <2>4, <4>1, <4>2, StepKinds
    <3>2. \A e \in Event : /\ outbox'[e].sent = outbox[e].sent
                           /\ outbox[e].unknown => outbox'[e].unknown
      BY <1>3, <2>4, StoredCursorStays
    <3>3. pc[w] \in {"record", "unknown"} => UNCHANGED <<pc, turn, cursor>>
      BY <1>1, <1>3, <2>4, OutcomeIsStored DEF Calm
    <3>4. pc'[w] = "record" => pc[w] = "record" /\ UNCHANGED <<turn, cursor>>
      <4>1. pc'[w] = "record" => pc'[w] = pc[w]
        <5>1. ~(CommitTurn(w) \/ CommitImageTurn(w)) \/ pc'[w] # "record"
          BY DEF CommitTurn, CommitImageTurn, Goto, TypeInv, TypeOK, WorkerOK
        <5> QED BY <1>3, <2>4, <5>1, DispatchMoves DEF Dispatching
      <4> QED BY <3>3, <4>1
    <3> QED BY <1>1, <2>0, <3>1, <3>2, <3>3, <3>4, ExactByOthers
  <2> QED BY <2>1, <2>2, <2>3, <2>4
<1> QED BY <1>2, <1>3 DEF Next

\* What ReplyDelivery sees as halted.
Doubted(e) ==
  outbox[e].unknown \/ \E w \in Workers : pc[w] = "unknown" /\ turn[w] = e

\* The variables of ReplyDelivery as this specification maps them.
PlannedParts == [e \in Event |-> outbox[e].parts]
Halted == [e \in Event |-> Doubted(e)]

\* The initial state maps to the abstract initial state.
LEMMA DeliveryInit == Init => Delivery!Init
<1> SUFFICES ASSUME Init PROVE Delivery!Init
  OBVIOUS
<1>1. \A e \in Event : outbox[e].parts = 0 /\ outbox[e].unknown = FALSE
  BY DEF Init, NoPlan, NewPlan
<1>2. \A w \in Workers : pc[w] = "idle"
  BY DEF Init
<1>3. accepted = [e \in Event |-> [p \in 1..MaxParts |-> 0]]
  BY DEF Init
<1>4. [e \in Event |-> outbox[e].parts] = [t \in Event |-> 0]
  BY <1>1
<1>5. [e \in Event |-> outbox[e].unknown \/ \E w \in Workers : pc[w] = "unknown" /\ turn[w] = e]
        = [t \in Event |-> FALSE]
  BY <1>1, <1>2, Zenon
<1> QED BY <1>3, <1>4, <1>5 DEF Delivery!Init

\* The mapping, step by step, in terms of the mapped variables.
PlansReply(e) ==
  /\ outbox[e].parts = 0
  /\ \E n \in 1..MaxParts : PlannedParts' = [PlannedParts EXCEPT ![e] = n]
  /\ accepted' = accepted /\ Halted' = Halted

SendsNext(e) ==
  /\ ~Doubted(e)
  /\ \E p \in 1..MaxParts :
       /\ p <= outbox[e].parts /\ accepted[e][p] = 0
       /\ \A q \in 1..(p - 1) : accepted[e][q] = 1
       /\ \/ accepted' = [accepted EXCEPT ![e][p] = 1] /\ Halted' = Halted
          \/ /\ accepted' \in {accepted, [accepted EXCEPT ![e][p] = 1]}
             /\ Halted' = [Halted EXCEPT ![e] = TRUE]
  /\ PlannedParts' = PlannedParts

\* The order in which a committed plan, a send and its record change the mapped
\* variables is the one ReplyDelivery allows.
LEMMA MappedStep ==
  ASSUME NEW e \in Event, PlansReply(e) \/ SendsNext(e)
  PROVE  Delivery!Next
<1>1. CASE PlansReply(e)
  <2>1. Delivery!PlanReply(e)
    BY <1>1 DEF PlansReply, Delivery!PlanReply, PlannedParts, Halted, Doubted
  <2> QED BY <2>1 DEF Delivery!Next
<1>2. CASE SendsNext(e)
  <2>1. PICK p \in 1..MaxParts :
          /\ p <= outbox[e].parts /\ accepted[e][p] = 0
          /\ \A q \in 1..(p - 1) : accepted[e][q] = 1
          /\ \/ accepted' = [accepted EXCEPT ![e][p] = 1] /\ Halted' = Halted
             \/ /\ accepted' \in {accepted, [accepted EXCEPT ![e][p] = 1]}
                /\ Halted' = [Halted EXCEPT ![e] = TRUE]
    BY <1>2 DEF SendsNext
  <2>2. Delivery!IsNext(e, p) /\ ~Doubted(e) /\ PlannedParts' = PlannedParts
    BY <1>2, <2>1 DEF SendsNext, Delivery!IsNext
  <2>3. CASE accepted' = [accepted EXCEPT ![e][p] = 1] /\ Halted' = Halted
    <3>1. Delivery!Deliver(e)
      BY <2>2, <2>3 DEF Delivery!Deliver, PlannedParts, Halted, Doubted
    <3> QED BY <3>1 DEF Delivery!Next
  <2>4. CASE /\ accepted' \in {accepted, [accepted EXCEPT ![e][p] = 1]}
             /\ Halted' = [Halted EXCEPT ![e] = TRUE]
    <3>1. Delivery!Doubt(e)
      BY <2>2, <2>4 DEF Delivery!Doubt, PlannedParts, Halted, Doubted
    <3> QED BY <3>1 DEF Delivery!Next
  <2> QED BY <2>1, <2>3, <2>4
<1> QED BY <1>1, <1>2

\* A reply in doubt stays so.
LEMMA HaltedStays ==
  ASSUME \A e \in Event : outbox'[e].unknown = outbox[e].unknown,
         \A v \in Workers : /\ pc'[v] = "unknown" <=> pc[v] = "unknown"
                            /\ pc[v] = "unknown" => turn'[v] = turn[v]
  PROVE  UNCHANGED Halted
<1>1. \A e \in Event : Doubted(e)' = Doubted(e)
  BY Zenon DEF Doubted
<1> QED BY <1>1 DEF Halted

\* Without stalls and faults every step maps to an abstract step or a stutter.
LEMMA CalmStep ==
  ASSUME TypeInv, TypeInv', RowInv, AloneInv, ExactInv, [Next]_vars, Calm, Calm'
  PROVE  [Delivery!Next]_(Delivery!vars)
<1> SUFFICES \/ \E e \in Event : PlansReply(e) \/ SendsNext(e)
             \/ UNCHANGED <<PlannedParts, accepted, Halted>>
  BY MappedStep DEF Delivery!vars, PlannedParts, Halted, Doubted
<1>1. \A e \in Event : outbox[e].parts \in Nat
  BY DEF TypeInv, TypeOK, StoreOK, Plan
<1>2. CASE Webhook \/ UNCHANGED vars \/ MarkHumanTakeover
  <2>1. UNCHANGED <<accepted, pc, turn>>
    BY <1>2 DEF Webhook, PersistInbound, Enqueue, LoseEnqueue, MarkHumanTakeover, vars, localVars
  <2>2. \A e \in Event : /\ outbox'[e].parts = outbox[e].parts
                         /\ outbox'[e].unknown = outbox[e].unknown
    <3>1. CASE MarkHumanTakeover
      BY <3>1, TakeoverEffect DEF Same
    <3>2. CASE Webhook \/ UNCHANGED vars
      BY <3>2 DEF Webhook, PersistInbound, Enqueue, LoseEnqueue, vars, storeVars
    <3> QED BY <1>2, <3>1, <3>2
  <2>3. UNCHANGED PlannedParts
    BY <2>2 DEF PlannedParts
  <2>5. UNCHANGED Halted
    BY <2>1, <2>2, HaltedStays
  <2> QED BY <2>1, <2>3, <2>5
<1>3. ASSUME NEW w \in Workers, Turn(w) \/ Disturb(w)
      PROVE  \/ \E e \in Event : PlansReply(e) \/ SendsNext(e)
             \/ UNCHANGED <<PlannedParts, accepted, Halted>>
  <2> DEFINE t == turn[w]
  <2>0. \A v \in Workers \ {w} : pc'[v] = pc[v] /\ turn'[v] = turn[v]
    BY <1>3, OthersKept
  <2>1. CASE SendAccepted(w) \/ SendAmbiguous(w)
    <3> DEFINE p == cursor[w] + 1
    <3>1. /\ pc[w] = "send" /\ pc'[w] = IF SendAccepted(w) THEN "record" ELSE "unknown"
          /\ UNCHANGED <<outbox, turn>>
      BY <2>1, SendEffect DEF storeVars, localVars
    <3>2. /\ t \in Event /\ p \in 1..MaxParts /\ p <= outbox[t].parts
          /\ accepted[t][p] = 0 /\ \A q \in 1..(p - 1) : accepted[t][q] = 1
          /\ ~outbox[t].unknown /\ ~Pending(t)
      BY <3>1, SendIsNext
    <3>3. ~Doubted(t)
      BY <3>2 DEF Doubted, Pending
    <3>4. Accept(w) => accepted' = [accepted EXCEPT ![t][p] = 1]
      <4>1. Accept(w) => accepted' = [accepted EXCEPT ![t][p] = accepted[t][p] + 1]
        BY DEF Accept
      <4> QED BY <3>2, <4>1
    <3>5. CASE SendAccepted(w)
      <4>1. Halted' = Halted
        BY <2>0, <3>1, <3>5, HaltedStays
      <4>2. accepted' = [accepted EXCEPT ![t][p] = 1]
        BY <3>4, <3>5 DEF SendAccepted
      <4> QED BY <3>1, <3>2, <3>3, <4>1, <4>2 DEF SendsNext, PlannedParts
    <3>6. CASE ~SendAccepted(w)
      <4>1. Halted' = [Halted EXCEPT ![t] = TRUE]
        <5>1. ASSUME NEW e \in Event PROVE Doubted(e)' = IF e = t THEN TRUE ELSE Doubted(e)
          <6>1. CASE e = t
            BY <3>1, <3>6, <6>1 DEF Doubted
          <6>2. CASE e # t
            BY <2>0, <3>1, <6>2, Zenon DEF Doubted
          <6> QED BY <6>1, <6>2
        <5> QED BY <5>1 DEF Halted
      <4>2. accepted' \in {accepted, [accepted EXCEPT ![t][p] = 1]}
        BY <2>1, <3>4, <3>6 DEF SendAmbiguous
      <4> QED BY <3>1, <3>2, <3>3, <4>1, <4>2 DEF SendsNext, PlannedParts
    <3> QED BY <3>5, <3>6
  <2>2. CASE CommitTurn(w) \/ CommitImageTurn(w)
    <3>1. PICK human \in {"bot", "human", "paused"}, order \in OrderAfter(w), plan \in Plan :
            /\ CommitPlan(w, human, order, plan) /\ plan.parts > 0 /\ ~plan.unknown
            /\ pc[w] = "commit" /\ pc'[w] \in {"push", "guard"} /\ UNCHANGED <<accepted, turn>>
      BY <2>2, CommitEffect
    <3>2. /\ turn[w] \in Event
          /\ \A e \in Event \ {turn[w]} : outbox'[e] = outbox[e]
          /\ outbox[turn[w]].parts > 0 => outbox'[turn[w]] = outbox[turn[w]]
          /\ outbox[turn[w]].parts = 0 => outbox'[turn[w]] = plan
      BY <3>1 DEF CommitPlan, TypeInv, TypeOK, StoreOK, WorkerOK
    <3>3. outbox[t].parts = 0 => ~outbox[t].unknown
      BY <3>2 DEF RowInv, RowsOK, NoPlan, NewPlan
    <3>4. \A e \in Event : outbox'[e].unknown = outbox[e].unknown
      <4>1. outbox[t].unknown \in BOOLEAN /\ plan.unknown \in BOOLEAN
        BY <3>2 DEF TypeInv, TypeOK, StoreOK, Plan
      <4> QED BY <1>1, <3>1, <3>2, <3>3, <4>1
    <3>5. UNCHANGED Halted
      BY <2>0, <3>1, <3>4, HaltedStays
    <3>6. CASE outbox[t].parts > 0
      <4>1. UNCHANGED PlannedParts
        BY <3>2, <3>6 DEF PlannedParts
      <4> QED BY <3>1, <3>5, <4>1
    <3>7. CASE outbox[t].parts = 0
      <4>1. PlannedParts' = [PlannedParts EXCEPT ![t] = plan.parts]
        BY <3>2, <3>7 DEF PlannedParts
      <4>2. plan.parts \in 1..MaxParts
        BY <3>1, ConstantsAssumption DEF Plan
      <4> QED BY <3>1, <3>2, <3>5, <3>7, <4>1, <4>2 DEF PlansReply
    <3> QED BY <1>1, <3>2, <3>6, <3>7
  <2>3. CASE MarkPartSent(w)
    <3>1. /\ t \in Event /\ pc[w] = "record" /\ pc'[w] = "guard" /\ UNCHANGED <<accepted, turn>>
          /\ \A e \in Event \ {t} : outbox'[e] = outbox[e]
          /\ outbox'[t].parts = outbox[t].parts /\ outbox'[t].unknown = outbox[t].unknown
      BY <2>3, RecordEffect
    <3>2. UNCHANGED Halted
      BY <2>0, <3>1, HaltedStays
    <3>3. \A e \in Event : outbox'[e].parts = outbox[e].parts
      BY <3>1
    <3> QED BY <3>1, <3>2, <3>3 DEF PlannedParts
  <2>4. CASE MarkOutboundUnknown(w) /\ ~MarkPartSent(w)
    <3>1. /\ t \in Event /\ pc[w] = "unknown" /\ Forget(w) /\ UNCHANGED accepted
          /\ \A e \in Event \ {t} : outbox'[e] = outbox[e]
          /\ outbox'[t].parts = outbox[t].parts /\ outbox'[t].unknown
      BY <2>4, RecordEffect
    <3>2. pc'[w] = "idle"
      BY <3>1, ForgetEffect
    <3>3. ASSUME NEW e \in Event PROVE Doubted(e)' = Doubted(e)
      <4>1. CASE e = t
        <5>1. Doubted(e) /\ Doubted(e)'
          BY <3>1, <4>1 DEF Doubted
        <5> QED BY <5>1, Zenon DEF Doubted
      <4>2. CASE e # t
        BY <2>0, <3>1, <3>2, <4>2, Zenon DEF Doubted
      <4> QED BY <4>1, <4>2
    <3>4. UNCHANGED Halted
      BY <3>3 DEF Halted
    <3>5. \A e \in Event : outbox'[e].parts = outbox[e].parts
      BY <3>1
    <3> QED BY <3>1, <3>4, <3>5 DEF PlannedParts
  <2>5. CASE /\ ~SendAccepted(w) /\ ~SendAmbiguous(w) /\ ~CommitTurn(w) /\ ~CommitImageTurn(w)
             /\ ~MarkPartSent(w) /\ ~MarkOutboundUnknown(w)
    <3>1. UNCHANGED <<outbox, accepted>>
      <4>1. Bystands(w) \/ CommitTurnBlocked(w)
        BY <1>3, <2>5, StepKinds
      <4> QED BY <2>5, <4>1, BystandsKeeps, QuietKeeps
         DEF Bystands, EnsureConversation, ResumeOutbound, FetchProfile, PushCreatedOrder,
             MarkProcessed, CommitTurnBlocked
    <3>3. pc[w] = "unknown" => UNCHANGED <<pc, turn>>
      BY <1>3, <2>5, OutcomeIsStored DEF Calm
    <3>4. pc'[w] = "unknown" => pc[w] = "unknown"
      BY <1>3, <2>5, DispatchMoves DEF Dispatching
    <3>5. UNCHANGED Halted
      BY <2>0, <3>1, <3>3, <3>4, HaltedStays
    <3> QED BY <3>1, <3>5 DEF PlannedParts
  <2> QED BY <1>3, <2>1, <2>2, <2>3, <2>4, <2>5, StepKinds
<1> QED BY <1>2, <1>3 DEF Next

\* With no failure but those Meta reports, a conversation's replies are delivered
\* in order, each part once, none after one in doubt: as long as no worker crashes,
\* stops, loses a call or outlives its lease, every step is one of ReplyDelivery.
THEOREM RepliesAreDelivered == Spec /\ []Calm => DeliversReplies
<1>1. Init => TypeInv /\ RowInv /\ AloneInv /\ ExactInv
  <2> SUFFICES ASSUME Init PROVE TypeInv /\ RowInv /\ AloneInv /\ ExactInv
    OBVIOUS
  <2>1. AloneInv
    BY DEF Init, AloneInv, Alone, InStep, Dispatching
  <2>2. ExactInv
    BY DEF Init, ExactInv, PartExact, NoPlan, NewPlan
  <2> QED BY <2>1, <2>2, TypeInit, RowInit
<1>2. TypeInv /\ RowInv /\ AloneInv /\ ExactInv /\ [Next]_vars =>
        (TypeInv /\ RowInv /\ AloneInv /\ ExactInv)'
  BY TypeStep, RowStep, AloneStep, ExactStep
<1>3. (TypeInv /\ RowInv /\ AloneInv /\ ExactInv /\ Calm) /\ (TypeInv /\ Calm)' /\ [Next]_vars
        => [Delivery!Next]_(Delivery!vars)
  BY CalmStep
<1> QED BY <1>1, <1>2, <1>3, DeliveryInit, PTL DEF Spec, DeliversReplies, Delivery!Spec

-----------------------------------------------------------------------------
(* Duplicates are paid for. A part has one copy to give away: to the holder  *)
(* of the lease while the part is not stored, or to a worker that lost its   *)
(* lease on the way to it. Only a fault or a stall makes another.            *)

Stored(e, p) == outbox[e].unknown \/ outbox[e].sent >= p

\* On its way to the part, past the last check of the lease.
Ahead(w, e, p) ==
  /\ turn[w] = e
  /\ \/ pc[w] = "send" /\ cursor[w] < p
     \/ pc[w] = "record" /\ cursor[w] + 1 < p

\* The holder has the part, or the doubt, and has still to store it.
Shut(w, e, p) ==
  /\ lease = w /\ turn[w] = e
  /\ pc[w] = "unknown" \/ (pc[w] = "record" /\ cursor[w] + 1 >= p)

\* The holder goes on with the reply and may come to the part.
Reach(w, e, p) ==
  /\ lease = w
  /\ \/ Ahead(w, e, p)
     \/ /\ turn[w] = e /\ pc[w] \in {"push", "guard"}
        /\ outbox[e].version = expected[w] /\ cursor[w] < p

Open(e, p) ==
  \/ ~Stored(e, p) /\ \A w \in Workers : ~Shut(w, e, p)
  \/ \E w \in Workers : Reach(w, e, p)

Loose(e, p) == {w \in Workers : lease # w /\ Ahead(w, e, p)}

\* Cardinalities of sets that differ in one element at most.
LEMMA OneApart ==
  ASSUME NEW S, NEW T, IsFiniteSet(T), NEW w
  PROVE  /\ Cardinality(T) \in Nat
         /\ S \subseteq T => IsFiniteSet(S) /\ Cardinality(S) <= Cardinality(T)
         /\ S \subseteq T \cup {w} => IsFiniteSet(S) /\ Cardinality(S) <= Cardinality(T) + 1
         /\ w \in T /\ S \subseteq T \ {w} => Cardinality(S) + 1 <= Cardinality(T)
<1>1. Cardinality(T) \in Nat
  BY FS_CardinalityType
<1>2. ASSUME S \subseteq T PROVE IsFiniteSet(S) /\ Cardinality(S) <= Cardinality(T)
  BY <1>2, FS_Subset
<1>3. ASSUME S \subseteq T \cup {w}
      PROVE  IsFiniteSet(S) /\ Cardinality(S) <= Cardinality(T) + 1
  <2> DEFINE U == T \cup {w}
  <2>0. /\ IsFiniteSet(U)
        /\ Cardinality(U) = IF w \in T THEN Cardinality(T) ELSE Cardinality(T) + 1
    BY FS_AddElement
  <2> HIDE DEF U
  <2>1. /\ IsFiniteSet(U) /\ Cardinality(U) <= Cardinality(T) + 1
        /\ Cardinality(U) \in Nat
    BY <1>1, <2>0
  <2>2. IsFiniteSet(S) /\ Cardinality(S) <= Cardinality(U)
    BY <1>3, <2>1, FS_Subset DEF U
  <2>3. Cardinality(S) \in Nat
    BY <2>2, FS_CardinalityType
  <2> QED BY <1>1, <2>1, <2>2, <2>3
<1>4. ASSUME w \in T, S \subseteq T \ {w} PROVE Cardinality(S) + 1 <= Cardinality(T)
  <2>1. IsFiniteSet(T \ {w}) /\ Cardinality(T \ {w}) = Cardinality(T) - 1
    BY <1>4, FS_RemoveElement
  <2>2. IsFiniteSet(S) /\ Cardinality(S) <= Cardinality(T \ {w})
    BY <1>4, <2>1, FS_Subset
  <2>3. Cardinality(S) \in Nat
    BY <2>2, FS_CardinalityType
  <2> QED BY <1>1, <2>1, <2>2, <2>3
<1> QED BY <1>1, <1>2, <1>3, <1>4

\* The ways in which a step leaves an account in balance: a copies, T the loose
\* workers, x whether the account is open and m what was paid, before; b, S, y and n
\* after; w the worker that moves.
Balanced(a, b, T, S, x, y, m, n, w) ==
  \/ n >= m /\ b = a /\ S \subseteq T /\ (y => x)
  \/ n >= m /\ b = a /\ w \in T /\ S \subseteq T \ {w}
  \/ n >= m /\ b <= a + 1 /\ w \in T /\ S \subseteq T \ {w} /\ (y => x)
  \/ n >= m /\ b <= a + 1 /\ S \subseteq T /\ x /\ ~y
  \/ n >= m + 1 /\ b = a /\ S \subseteq T
  \/ n >= m + 1 /\ b = a /\ S \subseteq T \cup {w} /\ (y => x)

\* c copies, and those still to come, are paid for by m and the first one.
Account(c, T, x, m) ==
  /\ IsFiniteSet(T) /\ Cardinality(T) \in Nat
  /\ c + Cardinality(T) + (IF x THEN 1 ELSE 0) <= 1 + m

Budget == \A e \in Event, p \in 1..MaxParts :
  Account(accepted[e][p], Loose(e, p), Open(e, p), faults + stalls)

\* Tokens that move between the three counts of an account keep it balanced.
LEMMA Balance ==
  ASSUME NEW a \in Nat, NEW b \in Nat, NEW m \in Nat, NEW n \in Nat, NEW T, NEW S,
         NEW x \in BOOLEAN, NEW y \in BOOLEAN, NEW w, Account(a, T, x, m),
         Balanced(a, b, T, S, x, y, m, n, w)
  PROVE  Account(b, S, y, n)
<1>0. IsFiniteSet(T) /\ a + Cardinality(T) + (IF x THEN 1 ELSE 0) <= 1 + m
  BY DEF Account
<1>1. /\ Cardinality(T) \in Nat
      /\ S \subseteq T => IsFiniteSet(S) /\ Cardinality(S) <= Cardinality(T)
      /\ S \subseteq T \cup {w} => IsFiniteSet(S) /\ Cardinality(S) <= Cardinality(T) + 1
      /\ w \in T /\ S \subseteq T \ {w} => Cardinality(S) + 1 <= Cardinality(T)
  BY <1>0, OneApart
<1>2. S \subseteq T \/ S \subseteq T \cup {w}
  BY DEF Balanced
<1>3. IsFiniteSet(S) /\ Cardinality(S) \in Nat
  BY <1>1, <1>2, FS_CardinalityType
<1> DEFINE c == Cardinality(T)  d == Cardinality(S)
<1>4. \/ n >= m /\ b = a /\ d <= c /\ (y => x)
      \/ n >= m /\ b = a /\ d + 1 <= c
      \/ n >= m /\ b <= a + 1 /\ d + 1 <= c /\ (y => x)
      \/ n >= m /\ b <= a + 1 /\ d <= c /\ x /\ ~y
      \/ n >= m + 1 /\ b = a /\ d <= c
      \/ n >= m + 1 /\ b = a /\ d <= c + 1 /\ (y => x)
  BY <1>1 DEF Balanced
<1>5. c \in Nat /\ d \in Nat /\ a + c + (IF x THEN 1 ELSE 0) <= 1 + m
  BY <1>0, <1>1, <1>3
<1> HIDE DEF c, d
<1>6. b + d + (IF y THEN 1 ELSE 0) <= 1 + n
  BY <1>4, <1>5
<1> QED BY <1>3, <1>6 DEF d, Account

\* Only SendAccepted and SendAmbiguous change what Meta accepted.
LEMMA OnlySendsReachMeta ==
  ASSUME NEW w \in Workers, Turn(w) \/ Disturb(w), ~SendAccepted(w), ~SendAmbiguous(w)
  PROVE  UNCHANGED <<accepted, late>>
<1>1. CASE Bystands(w)
  BY <1>1, QuietKeeps DEF Bystands, EnsureConversation, ResumeOutbound, FetchProfile,
                          PushCreatedOrder, MarkProcessed, ghostVars
<1>2. CASE \/ CommitTurnBlocked(w) \/ CommitTurn(w) \/ CommitImageTurn(w)
           \/ MarkPartSent(w) \/ MarkOutboundUnknown(w)
  BY <1>2 DEF CommitTurnBlocked, CommitTurn, CommitImageTurn, MarkPartSent,
              MarkOutboundUnknown, ghostVars
<1> QED BY <1>1, <1>2, StepKinds

\* A step of one worker changes the part of no other in the account.
LEMMA RolesElsewhere ==
  ASSUME TypeInv, TypeInv', RowInv, NEW w \in Workers, Turn(w) \/ Disturb(w),
         NEW v \in Workers, v # w, NEW e \in Event, NEW p \in 1..MaxParts
  PROVE  /\ lease' = v <=> lease = v
         /\ Ahead(v, e, p)' <=> Ahead(v, e, p)
         /\ Shut(v, e, p)' <=> Shut(v, e, p)
         /\ Reach(v, e, p)' <=> Reach(v, e, p)
<1>1. /\ pc'[v] = pc[v] /\ turn'[v] = turn[v] /\ expected'[v] = expected[v]
      /\ cursor'[v] = cursor[v]
  BY OthersKept
<1>2. lease' = v <=> lease = v
  BY LeaseMoves, ConstantsAssumption
<1>3. Ahead(v, e, p)' <=> Ahead(v, e, p)
  BY <1>1 DEF Ahead
<1>4. Shut(v, e, p)' <=> Shut(v, e, p)
  BY <1>1, <1>2 DEF Shut
<1>5. turn[v] = e /\ pc[v] \in {"push", "guard"} => outbox'[e].version = outbox[e].version
  <2> SUFFICES ASSUME turn[v] = e, pc[v] \in {"push", "guard"}
               PROVE  outbox'[e].version = outbox[e].version
    OBVIOUS
  <2>1. outbox[e].parts > 0
    BY DEF RowInv, HeldOK, Dispatching
  <2>2. CASE MarkPartSent(w) \/ MarkOutboundUnknown(w)
    BY <2>2, RecordEffect
  <2>3. CASE ~MarkPartSent(w) /\ ~MarkOutboundUnknown(w)
    BY <2>1, <2>3, RowWriters
  <2> QED BY <2>2, <2>3
<1>6. Reach(v, e, p)' <=> Reach(v, e, p)
  BY <1>1, <1>2, <1>3, <1>5 DEF Reach
<1> QED BY <1>2, <1>3, <1>4, <1>6

\* A step of w changes the loose workers by w and by the holder it replaces.
LEMMA LooseMoves ==
  ASSUME TypeInv, TypeInv', RowInv, NEW w \in Workers, Turn(w) \/ Disturb(w),
         NEW e \in Event, NEW p \in 1..MaxParts
  PROVE  /\ Loose(e, p)' \subseteq Loose(e, p) \cup {w}
         /\ w \notin Loose(e, p)' => Loose(e, p)' \subseteq Loose(e, p) \ {w}
         /\ w \in Loose(e, p) => Loose(e, p)' \subseteq Loose(e, p)
         /\ w \in Loose(e, p) <=> lease # w /\ Ahead(w, e, p)
         /\ w \in Loose(e, p)' <=> lease' # w /\ Ahead(w, e, p)'
<1>1. \A v \in Workers \ {w} : v \in Loose(e, p)' <=> v \in Loose(e, p)
  BY RolesElsewhere DEF Loose
<1>2. Loose(e, p) \subseteq Workers /\ Loose(e, p)' \subseteq Workers
  BY DEF Loose
<1>3. /\ w \in Loose(e, p) <=> lease # w /\ Ahead(w, e, p)
      /\ w \in Loose(e, p)' <=> lease' # w /\ Ahead(w, e, p)'
  BY DEF Loose
<1> QED BY <1>1, <1>2, <1>3

\* An account that was closed to the worker that moves stays closed.
LEMMA OpenStays ==
  ASSUME TypeInv, TypeInv', RowInv, NEW w \in Workers, Turn(w) \/ Disturb(w),
         NEW e \in Event, NEW p \in 1..MaxParts,
         Reach(w, e, p)' => Open(e, p),
         ~Stored(e, p)' /\ ~Shut(w, e, p)' =>
           Reach(w, e, p) \/ (~Stored(e, p) /\ ~Shut(w, e, p))
  PROVE  Open(e, p)' => Open(e, p)
<1>1. \A v \in Workers \ {w} : /\ Shut(v, e, p)' <=> Shut(v, e, p)
                               /\ Reach(v, e, p)' <=> Reach(v, e, p)
  BY RolesElsewhere
<1>2. CASE \E v \in Workers : Reach(v, e, p)'
  BY <1>1, <1>2 DEF Open
<1>3. CASE ~Stored(e, p)' /\ \A v \in Workers : ~Shut(v, e, p)'
  BY <1>1, <1>3 DEF Open
<1> QED BY <1>2, <1>3 DEF Open

\* An open part is ahead of a worker that holds the lease.
LEMMA OpenToHolder ==
  ASSUME NEW w \in Workers, lease = w, NEW e, NEW p
  PROVE  Open(e, p) <=> Reach(w, e, p) \/ (~Stored(e, p) /\ ~Shut(w, e, p))
BY DEF Open, Shut, Reach

\* A worker that holds no part of the reply leaves its accounts as they are.
LEMMA Uninvolved ==
  ASSUME TypeInv, TypeInv', RowInv, NEW w \in Workers, Turn(w) \/ Disturb(w),
         NEW e \in Event, NEW p \in 1..MaxParts,
         turn[w] = e => pc[w] \notin Dispatching /\ pc'[w] \notin Dispatching
  PROVE  /\ accepted'[e] = accepted[e] /\ late'[e] = late[e]
         /\ Loose(e, p)' \subseteq Loose(e, p)
         /\ Open(e, p)' => Open(e, p)
<1>1. accepted'[e] = accepted[e] /\ late'[e] = late[e]
  <2>1. CASE SendAccepted(w) \/ SendAmbiguous(w)
    <3>1. /\ pc[w] = "send"
          /\ \A f \in Event \ {turn[w]} : accepted'[f] = accepted[f] /\ late'[f] = late[f]
      BY <2>1, SendEffect
    <3> QED BY <3>1 DEF Dispatching
  <2>2. CASE ~SendAccepted(w) /\ ~SendAmbiguous(w)
    BY <2>2, OnlySendsReachMeta
  <2> QED BY <2>1, <2>2
<1>2. Stored(e, p)' <=> Stored(e, p)
  <2>1. CASE MarkPartSent(w) \/ MarkOutboundUnknown(w)
    BY <2>1, RecordEffect DEF Stored, Dispatching
  <2>2. CASE ~MarkPartSent(w) /\ ~MarkOutboundUnknown(w)
    BY <2>2, StoredCursorStays DEF Stored
  <2> QED BY <2>1, <2>2
<1>3. ~Ahead(w, e, p) /\ ~Shut(w, e, p)
  BY DEF Ahead, Shut, Dispatching
<1>4. ~Ahead(w, e, p)' /\ ~Reach(w, e, p)'
  <2>1. CASE pc'[w] \in Dispatching
    BY <2>1, DispatchMoves DEF Ahead, Reach
  <2>2. CASE pc'[w] \notin Dispatching
    BY <2>2 DEF Ahead, Reach, Dispatching
  <2> QED BY <2>1, <2>2
<1> QED BY <1>1, <1>2, <1>3, <1>4, OpenStays, LooseMoves

InBalance(e, p, w) ==
  Balanced(accepted[e][p], accepted'[e][p], Loose(e, p), Loose(e, p)',
           Open(e, p), Open(e, p)', faults + stalls, faults' + stalls', w)

\* What was paid stays paid, and a fault or a stall pays one more.
LEMMA PaidStays ==
  ASSUME TypeInv, TypeInv', [Next]_vars
  PROVE  /\ faults' + stalls' >= faults + stalls
         /\ (faults' = faults + 1 \/ stalls' = stalls + 1) =>
              faults' + stalls' >= faults + stalls + 1
<1>1. /\ faults \in Nat /\ stalls \in Nat /\ faults' \in Nat /\ stalls' \in Nat
      /\ faults' >= faults /\ stalls' >= stalls
  BY StallsStay, ConstantsAssumption DEF TypeInv, TypeOK, EnvOK
<1>2. ASSUME NEW a \in Nat, NEW b \in Nat, NEW c \in Nat, NEW d \in Nat, c >= a, d >= b
      PROVE  c + d >= a + b /\ (c = a + 1 \/ d = b + 1 => c + d >= a + b + 1)
  BY <1>2
<1> QED BY <1>1, <1>2

\* The reply a worker reads or commits: nothing of it is on its way yet.
LEMMA AccountByStart ==
  ASSUME TypeInv, TypeInv', RowInv, NEW w \in Workers, Turn(w) \/ Disturb(w),
         NEW e \in Event, NEW p \in 1..MaxParts, turn[w] = e,
         pc[w] \notin Dispatching, pc'[w] \in Dispatching
  PROVE  InBalance(e, p, w)
<1>0. faults' + stalls' >= faults + stalls
  BY PaidStays DEF Next
<1>1. ~SendAccepted(w) /\ ~SendAmbiguous(w) /\ ~MarkPartSent(w) /\ ~MarkOutboundUnknown(w)
  BY SendEffect, RecordEffect DEF Dispatching
<1>2. UNCHANGED accepted /\ (Stored(e, p)' <=> Stored(e, p))
  BY <1>0, <1>1, OnlySendsReachMeta, StoredCursorStays, DispatchMoves DEF Stored
<1>3. /\ pc[w] \in {"find", "commit"} /\ pc'[w] \in {"push", "guard"} /\ lease' = lease
      /\ turn'[w] = e
      /\ Reach(w, e, p)' => ~Stored(e, p)
  <2>1. CASE CommitTurn(w) \/ CommitImageTurn(w)
    <3>1. PICK human \in {"bot", "human", "paused"}, order \in OrderAfter(w), plan \in Plan :
            /\ CommitPlan(w, human, order, plan) /\ plan.sent = 0 /\ ~plan.unknown
            /\ pc[w] = "commit" /\ pc'[w] \in {"push", "guard"} /\ UNCHANGED <<lease, turn>>
      BY <2>1, CommitEffect
    <3>2. /\ conv.version \in Nat /\ conv.version = seen[w].version
          /\ conv' = [human |-> human, version |-> conv.version + 1, order |-> order]
          /\ \A f \in Event \ {e} : outbox'[f] = outbox[f]
          /\ outbox[e].parts > 0 => outbox'[e] = outbox[e]
          /\ outbox[e].parts = 0 => outbox'[e] = plan
          /\ seen'[w] = [seen[w] EXCEPT !.order = order]
          /\ expected'[w] = conv.version + 1 /\ cursor'[w] = outbox'[e].sent
      BY <3>1, CommitRows
    <3>3. /\ outbox[e].parts \in Nat /\ outbox[e].version \in Nat
          /\ outbox[e].version <= conv.version
      BY <1>0 DEF TypeInv, TypeOK, StoreOK, Plan, RowInv, RowsOK
    <3>4. outbox[e].parts > 0 => outbox'[e].version # expected'[w]
      BY <3>2, <3>3
    <3>5. outbox[e].parts = 0 => ~Stored(e, p)
      BY <1>0, <3>3 DEF RowInv, RowsOK, NoPlan, NewPlan, Stored
    <3>6. Reach(w, e, p)' => outbox'[e].version = expected'[w]
      BY <3>1 DEF Reach, Ahead
    <3> QED BY <3>1, <3>3, <3>4, <3>5, <3>6
  <2>2. CASE ~CommitTurn(w) /\ ~CommitImageTurn(w)
    <3>1. /\ UNCHANGED <<outbox, lease>> /\ turn'[w] = e
          /\ pc[w] = "find" /\ pc'[w] = "guard"
          /\ cursor'[w] = outbox[e].sent /\ ~outbox[e].unknown
      BY <1>1, <2>2, DispatchMoves DEF Dispatching
    <3>2. cursor'[w] \in Nat
      BY ConstantsAssumption DEF TypeInv, TypeOK, WorkerOK
    <3> QED BY <3>1, <3>2 DEF Reach, Ahead, Stored
  <2> QED BY <2>1, <2>2
<1>4. ~Ahead(w, e, p) /\ ~Ahead(w, e, p)' /\ ~Shut(w, e, p)
  BY <1>3 DEF Ahead, Shut
<1>5. Reach(w, e, p)' => Open(e, p)
  <2>1. Reach(w, e, p)' => lease = w
    BY <1>3 DEF Reach
  <2> QED BY <1>0, <1>3, <1>4, <2>1, OpenToHolder
<1>6. Open(e, p)' => Open(e, p)
  BY <1>0, <1>2, <1>3, <1>4, <1>5, OpenStays
<1>7. Loose(e, p)' \subseteq Loose(e, p)
  BY <1>0, <1>3, <1>4, LooseMoves
<1> QED BY <1>0, <1>2, <1>3, <1>6, <1>7 DEF InBalance, Balanced

\* Between two parts the worker only looks; its lease may run out.
LEMMA AccountByWait ==
  ASSUME TypeInv, TypeInv', RowInv, NEW w \in Workers, Turn(w) \/ Disturb(w),
         NEW e \in Event, NEW p \in 1..MaxParts, turn[w] = e,
         pc[w] \in Dispatching, pc'[w] \in Dispatching,
         ~SendAccepted(w), ~SendAmbiguous(w), ~MarkPartSent(w)
  PROVE  InBalance(e, p, w)
<1>0. faults' + stalls' >= faults + stalls
  BY PaidStays DEF Next
<1>1. /\ turn'[w] = e /\ UNCHANGED <<outbox, accepted, expected, cursor>>
      /\ \/ pc'[w] = pc[w]
         \/ pc[w] = "push" /\ pc'[w] = "guard" /\ UNCHANGED lease
         \/ /\ pc[w] = "guard" /\ pc'[w] = "send" /\ lease = w
            /\ outbox[e].version = expected[w] /\ UNCHANGED lease
  <2>1. ~CommitTurn(w) /\ ~CommitImageTurn(w) /\ pc[w] # "find"
    BY DEF CommitTurn, CommitImageTurn, Dispatching
  <2> QED BY <2>1, DispatchMoves DEF Authorized
<1>2. Stored(e, p)' <=> Stored(e, p)
  BY <1>1 DEF Stored
<1>3. CASE UNCHANGED lease
  <2>1. w \in Loose(e, p)' => w \in Loose(e, p)
    <3>1. lease # w /\ Ahead(w, e, p)' => Ahead(w, e, p)
      BY <1>1 DEF Ahead
    <3> QED BY <1>3, <3>1, LooseMoves
  <2>2. Loose(e, p)' \subseteq Loose(e, p)
    BY <2>1, LooseMoves
  <2>3. Reach(w, e, p)' => Reach(w, e, p)
    BY <1>1, <1>3 DEF Reach, Ahead
  <2>4. Shut(w, e, p) <=> Shut(w, e, p)'
    BY <1>1, <1>3 DEF Shut
  <2>5. Open(e, p)' => Open(e, p)
    BY <1>2, <2>3, <2>4, OpenStays DEF Open
  <2> QED BY <1>0, <1>1, <2>2, <2>5 DEF InBalance, Balanced
<1>4. CASE ExpireLease(w) /\ lease = w /\ lease' = NoWorker
  <2>1. stalls' = stalls + 1 /\ faults' + stalls' >= faults + stalls + 1
    <3>1. stalls' = stalls + 1
      BY <1>4 DEF ExpireLease, Dispatching
    <3> QED BY <3>1, PaidStays DEF Next
  <2>2. pc'[w] = pc[w]
    BY <1>4 DEF ExpireLease
  <2>3. CASE Ahead(w, e, p)
    <3>1. Open(e, p)
      BY <1>4, <2>3 DEF Open, Reach
    <3> QED BY <1>1, <2>1, <3>1, LooseMoves DEF InBalance, Balanced
  <2>4. CASE ~Ahead(w, e, p)
    <3>1. ~Ahead(w, e, p)'
      BY <1>1, <2>2, <2>4 DEF Ahead
    <3>2. Loose(e, p)' \subseteq Loose(e, p)
      BY <3>1, LooseMoves
    <3> QED BY <1>1, <2>1, <3>2 DEF InBalance, Balanced
  <2> QED BY <2>3, <2>4
<1>5. ~AcquireLease(w) /\ ~Forget(w)
  BY ForgetEffect DEF AcquireLease, Dispatching
<1> QED BY <1>3, <1>4, <1>5, LeaseMoves

\* Meta's answer: the copy comes out of the account of the part, whose holder is shut
\* until it has stored it; a loose worker hands in its own.
LEMMA AccountBySend ==
  ASSUME TypeInv, TypeInv', RowInv, NEW w \in Workers, SendAccepted(w) \/ SendAmbiguous(w),
         NEW e \in Event, NEW p \in 1..MaxParts, turn[w] = e
  PROVE  InBalance(e, p, w)
<1>0. faults' + stalls' >= faults + stalls /\ (Turn(w) \/ Disturb(w))
  BY PaidStays DEF Next, Turn
<1>1. /\ cursor[w] + 1 \in 1..MaxParts /\ pc[w] = "send" /\ pc'[w] \in {"record", "unknown"}
      /\ UNCHANGED <<outbox, lease, turn, cursor, expected>>
      /\ \A q \in (1..MaxParts) \ {cursor[w] + 1} : accepted'[e][q] = accepted[e][q]
      /\ \/ accepted'[e][cursor[w] + 1] = accepted[e][cursor[w] + 1] + 1
         \/ UNCHANGED accepted
  BY SendEffect DEF storeVars, localVars
<1>2. outbox[e].version = expected[w] /\ cursor[w] \in Nat /\ accepted[e][p] \in Nat
  <2>1. cursor[w] \in Nat /\ accepted[e][p] \in Nat
    BY ConstantsAssumption DEF TypeInv, TypeOK, WorkerOK, MetaOK
  <2> QED BY <1>1, <2>1 DEF RowInv, HeldOK, Sending
<1>3. Stored(e, p)' <=> Stored(e, p)
  BY <1>1 DEF Stored
<1>4. /\ accepted'[e][p] <= accepted[e][p] + 1
      /\ p # cursor[w] + 1 => accepted'[e][p] = accepted[e][p]
  BY <1>1, <1>2
<1>5. Ahead(w, e, p) <=> cursor[w] < p
  BY <1>1 DEF Ahead
<1>6. Ahead(w, e, p)' => cursor[w] + 1 < p
  BY <1>1 DEF Ahead
<1>7. CASE lease = w
  <2>1. Loose(e, p)' \subseteq Loose(e, p)
    BY <1>0, <1>1, <1>7, LooseMoves
  <2>2. Open(e, p)' => cursor[w] + 1 < p
    <3>1. Reach(w, e, p)' => cursor[w] + 1 < p
      BY <1>1, <1>6 DEF Reach
    <3>2. cursor[w] + 1 >= p => Shut(w, e, p)'
      BY <1>1, <1>7 DEF Shut
    <3>3. \A v \in Workers \ {w} : ~Reach(v, e, p)'
      BY <1>1, <1>7 DEF Reach
    <3> QED BY <1>1, <1>2, <3>1, <3>2, <3>3 DEF Open
  <2>3. cursor[w] < p => Open(e, p)
    BY <1>5, <1>7 DEF Open, Reach
  <2>4. CASE p = cursor[w] + 1
    BY <1>0, <1>2, <1>4, <2>1, <2>2, <2>3, <2>4 DEF InBalance, Balanced
  <2>5. CASE p # cursor[w] + 1
    <3>1. Open(e, p)' => Open(e, p)
      BY <1>2, <2>2, <2>3
    <3> QED BY <1>0, <1>4, <2>1, <2>5, <3>1 DEF InBalance, Balanced
  <2> QED BY <2>4, <2>5
<1>8. CASE lease # w
  <2>1. Open(e, p)' => Open(e, p)
    <3>1. ~Reach(w, e, p)' /\ ~Shut(w, e, p)
      BY <1>1, <1>8 DEF Reach, Shut
    <3> QED BY <1>0, <1>3, <3>1, OpenStays
  <2>2. CASE p = cursor[w] + 1
    <3>1. w \in Loose(e, p) /\ w \notin Loose(e, p)'
      BY <1>0, <1>2, <1>5, <1>6, <1>8, <2>2, LooseMoves
    <3> QED BY <1>0, <1>4, <2>1, <3>1, LooseMoves DEF InBalance, Balanced
  <2>3. CASE p # cursor[w] + 1
    <3>1. w \in Loose(e, p)' => w \in Loose(e, p)
      BY <1>0, <1>1, <1>2, <1>5, <1>6, LooseMoves
    <3>2. Loose(e, p)' \subseteq Loose(e, p)
      BY <1>0, <3>1, LooseMoves
    <3> QED BY <1>0, <1>4, <2>1, <2>3, <3>2 DEF InBalance, Balanced
  <2> QED BY <2>2, <2>3
<1> QED BY <1>7, <1>8

\* Storing the cursor: it covers the part that was sent. A worker that lost its lease
\* may uncover later ones, and gives up its way to them.
LEMMA AccountByRecord ==
  ASSUME TypeInv, TypeInv', RowInv, NEW w \in Workers, MarkPartSent(w),
         NEW e \in Event, NEW p \in 1..MaxParts, turn[w] = e
  PROVE  InBalance(e, p, w)
<1>0. faults' + stalls' >= faults + stalls /\ (Turn(w) \/ Disturb(w))
  BY PaidStays DEF Next, Turn
<1>1. /\ pc[w] = "record" /\ pc'[w] = "guard" /\ cursor'[w] = cursor[w] + 1
      /\ UNCHANGED <<accepted, lease, turn, expected>>
      /\ outbox'[e].sent = cursor[w] + 1 /\ cursor[w] \in Nat
  BY RecordEffect, ConstantsAssumption DEF TypeInv, TypeOK, WorkerOK
<1>2. ~Ahead(w, e, p)' /\ (Ahead(w, e, p) <=> cursor[w] + 1 < p)
  BY <1>1 DEF Ahead
<1>3. cursor[w] + 1 >= p => Stored(e, p)'
  BY <1>1 DEF Stored
<1>4. CASE cursor[w] + 1 >= p
  <2>1. ~Reach(w, e, p)'
    BY <1>1, <1>4 DEF Reach, Ahead
  <2>2. Open(e, p)' => Open(e, p)
    BY <1>0, <1>3, <1>4, <2>1, OpenStays
  <2>3. Loose(e, p)' \subseteq Loose(e, p)
    BY <1>0, <1>2, LooseMoves
  <2> QED BY <1>0, <1>1, <2>2, <2>3 DEF InBalance, Balanced
<1>5. CASE cursor[w] + 1 < p /\ lease = w
  <2>1. Open(e, p)
    BY <1>2, <1>5 DEF Open, Reach
  <2>2. Loose(e, p)' \subseteq Loose(e, p)
    BY <1>0, <1>2, LooseMoves
  <2> QED BY <1>0, <1>1, <2>1, <2>2 DEF InBalance, Balanced
<1>6. CASE cursor[w] + 1 < p /\ lease # w
  <2>1. w \in Loose(e, p) /\ Loose(e, p)' \subseteq Loose(e, p) \ {w}
    BY <1>0, <1>2, <1>6, LooseMoves
  <2> QED BY <1>0, <1>1, <2>1 DEF InBalance, Balanced
<1> QED BY <1>1, <1>4, <1>5, <1>6

\* A worker step makes one fault at most.
LEMMA FaultsMove ==
  ASSUME NEW w \in Workers, Turn(w) \/ Disturb(w)
  PROVE  UNCHANGED faults \/ faults' = faults + 1
<1>1. CASE Turn(w)
  BY <1>1 DEF Turn, ReadGroup, AcquireLease, LeaseBusy, EnsureConversation, ResumeOutbound,
              NoTurnOutbound, FetchProfile, Compose, CommitTurnBlocked, CommitTurn,
              CommitImageTurn, StateConflict, PushCreatedOrder, GuardPart, SendAccepted,
              SendAmbiguous, SendRejected, MarkPartSent, MarkOutboundUnknown, MarkProcessed,
              Acknowledge, LeavePending, LeaseLostAtEnd, AbandonTurn, envVars
<1>2. CASE Disturb(w)
  BY <1>2 DEF Disturb, ExpireLease, StopWorker, CrashWorker, CallFails, Fault
<1> QED BY <1>1, <1>2

\* A worker that stops dispatching has stored what it knows, or pays with a fault.
LEMMA AccountByLeave ==
  ASSUME TypeInv, TypeInv', RowInv, NEW w \in Workers, Turn(w) \/ Disturb(w),
         NEW e \in Event, NEW p \in 1..MaxParts, turn[w] = e,
         pc[w] \in Dispatching, pc'[w] \notin Dispatching
  PROVE  InBalance(e, p, w)
<1>0. faults' + stalls' >= faults + stalls
  BY PaidStays DEF Next
<1>1. ~SendAccepted(w) /\ ~SendAmbiguous(w) /\ ~MarkPartSent(w)
  BY SendEffect, RecordEffect DEF Dispatching
<1>2. UNCHANGED accepted
  BY <1>1, OnlySendsReachMeta
<1>3. ~Ahead(w, e, p)' /\ ~Reach(w, e, p)'
  BY DEF Ahead, Reach, Dispatching
<1>4. Loose(e, p)' \subseteq Loose(e, p)
  BY <1>3, LooseMoves
<1>5. CASE faults' = faults + 1
  <2>1. faults' + stalls' >= faults + stalls + 1
    BY <1>5, PaidStays DEF Next
  <2> QED BY <1>2, <1>4, <2>1 DEF InBalance, Balanced
<1>6. CASE UNCHANGED faults /\ MarkOutboundUnknown(w)
  <2>1. Stored(e, p)'
    BY <1>1, <1>6, RecordEffect DEF Stored
  <2>2. Open(e, p)' => Open(e, p)
    BY <1>3, <2>1, OpenStays
  <2> QED BY <1>0, <1>2, <1>4, <2>2 DEF InBalance, Balanced
<1>7. CASE UNCHANGED faults /\ ~MarkOutboundUnknown(w)
  <2>1. pc[w] \notin {"record", "unknown"}
    BY <1>1, <1>7, OutcomeIsStored DEF Dispatching
  <2>2. ~Shut(w, e, p)
    BY <2>1 DEF Shut
  <2>3. Stored(e, p)' <=> Stored(e, p)
    BY <1>1, <1>7, StoredCursorStays DEF Stored
  <2>4. Open(e, p)' => Open(e, p)
    BY <1>3, <2>2, <2>3, OpenStays
  <2> QED BY <1>0, <1>2, <1>4, <2>4 DEF InBalance, Balanced
<1> QED BY <1>5, <1>6, <1>7, FaultsMove

\* Every step keeps the account of one part of one reply.
LEMMA AccountStep ==
  ASSUME TypeInv, TypeInv', RowInv, NEW w \in Workers, Turn(w) \/ Disturb(w),
         NEW e \in Event, NEW p \in 1..MaxParts
  PROVE  InBalance(e, p, w)
<1>1. CASE turn[w] = e => pc[w] \notin Dispatching /\ pc'[w] \notin Dispatching
  <2>1. faults' + stalls' >= faults + stalls
    BY PaidStays DEF Next
  <2> QED BY <1>1, <2>1, Uninvolved DEF InBalance, Balanced
<1>2. CASE turn[w] = e /\ pc[w] \notin Dispatching /\ pc'[w] \in Dispatching
  BY <1>2, AccountByStart
<1>3. CASE turn[w] = e /\ pc[w] \in Dispatching /\ pc'[w] \notin Dispatching
  BY <1>3, AccountByLeave
<1>4. CASE turn[w] = e /\ pc[w] \in Dispatching /\ pc'[w] \in Dispatching
  BY <1>4, AccountByWait, AccountBySend, AccountByRecord
<1> QED BY <1>1, <1>2, <1>3, <1>4

\* Every step keeps Budget.
LEMMA BudgetStep ==
  TypeInv /\ TypeInv' /\ RowInv /\ Budget /\ [Next]_vars => Budget'
<1> SUFFICES ASSUME TypeInv, TypeInv', RowInv, Budget, [Next]_vars,
                    NEW e \in Event, NEW p \in 1..MaxParts
             PROVE  Account(accepted'[e][p], Loose(e, p)', Open(e, p)', faults' + stalls')
  BY DEF Budget
<1>1. \E w : InBalance(e, p, w)
  <2>1. CASE Webhook \/ MarkHumanTakeover \/ UNCHANGED vars
    <3>1. UNCHANGED <<accepted, faults, stalls, lease, pc, turn, expected, cursor>>
      BY <2>1 DEF Webhook, PersistInbound, Enqueue, LoseEnqueue, MarkHumanTakeover, vars,
                  envVars, localVars
    <3>2. /\ outbox'[e].sent = outbox[e].sent /\ outbox'[e].unknown = outbox[e].unknown
          /\ outbox'[e].version = outbox[e].version
      <4>1. CASE MarkHumanTakeover
        BY <4>1, TakeoverEffect DEF Same
      <4>2. CASE Webhook \/ UNCHANGED vars
        BY <4>2 DEF Webhook, PersistInbound, Enqueue, LoseEnqueue, vars, storeVars
      <4> QED BY <2>1, <4>1, <4>2
    <3>3. /\ \A v \in Workers : /\ Ahead(v, e, p)' <=> Ahead(v, e, p)
                                /\ Shut(v, e, p)' <=> Shut(v, e, p)
                                /\ Reach(v, e, p)' <=> Reach(v, e, p)
          /\ Stored(e, p)' <=> Stored(e, p)
      BY <3>1, <3>2 DEF Ahead, Shut, Reach, Stored
    <3>4. Loose(e, p)' \subseteq Loose(e, p) /\ (Open(e, p)' => Open(e, p))
      BY <3>1, <3>3 DEF Loose, Open
    <3>5. faults' + stalls' >= faults + stalls
      BY PaidStays
    <3> QED BY <3>1, <3>4, <3>5 DEF InBalance, Balanced
  <2>2. ASSUME NEW w \in Workers, Turn(w) \/ Disturb(w) PROVE \E v : InBalance(e, p, v)
    BY <2>2, AccountStep
  <2> QED BY <2>1, <2>2 DEF Next
<1>2. PICK w : InBalance(e, p, w)
  BY <1>1
<1>3. /\ accepted[e][p] \in Nat /\ accepted'[e][p] \in Nat
      /\ faults \in Nat /\ stalls \in Nat /\ faults' \in Nat /\ stalls' \in Nat
  BY ConstantsAssumption DEF TypeInv, TypeOK, MetaOK, EnvOK
<1>4. Account(accepted[e][p], Loose(e, p), Open(e, p), faults + stalls)
  BY DEF Budget
<1>5. faults + stalls \in Nat /\ faults' + stalls' \in Nat
  <2>1. \A i, j \in Nat : i + j \in Nat
    OBVIOUS
  <2> QED BY <1>3, <2>1
<1>6. Open(e, p) \in BOOLEAN /\ Open(e, p)' \in BOOLEAN
  BY DEF Open
<1>7. Balanced(accepted[e][p], accepted'[e][p], Loose(e, p), Loose(e, p)',
               Open(e, p), Open(e, p)', faults + stalls, faults' + stalls', w)
  BY <1>2 DEF InBalance
<1> QED BY <1>3, <1>4, <1>5, <1>6, <1>7, Balance

\* After the conversation has moved on, only a part that passed its last check before
\* may still go out: the holder's, or that of a worker that lost its lease there.
Sends(w, e) == turn[w] = e /\ pc[w] = "send"

Current(e) ==
  \/ outbox[e].parts = 0 \/ outbox[e].version = conv.version
  \/ \E w \in Workers : lease = w /\ Sends(w, e)

LooseSends(e) == {w \in Workers : lease # w /\ Sends(w, e)}

LateBudget == \A e \in Event :
  Account(Cardinality(late[e]), LooseSends(e), Current(e), stalls)

\* The late sends of one reply are finitely many.
LEMMA LateIsFinite ==
  ASSUME NEW S \in SUBSET (1..MaxParts)
  PROVE  IsFiniteSet(S) /\ Cardinality(S) \in Nat
<1>1. IsFiniteSet(1..MaxParts)
  BY FS_Interval, ConstantsAssumption
<1>2. IsFiniteSet(S)
  BY <1>1, FS_Subset
<1> QED BY <1>2, FS_CardinalityType

\* A reply that the conversation has left behind stays behind.
LEMMA CurrentStays ==
  ASSUME TypeInv, TypeInv', RowInv, [Next]_vars, NEW e \in Event,
         \A w \in Workers : lease' = w /\ Sends(w, e)' => Current(e)
  PROVE  Current(e)' => Current(e)
<1>1. RowsStay
  BY RowsStayStep
<1>2. /\ outbox[e].parts \in Nat /\ outbox[e].version \in Nat /\ conv.version \in Nat
      /\ conv'.version \in Nat /\ outbox[e].version <= conv.version
  BY DEF TypeInv, TypeOK, StoreOK, Plan, Conversation, RowInv, RowsOK
<1>3. CASE outbox[e].parts > 0
  <2>1. /\ outbox'[e].parts = outbox[e].parts /\ outbox'[e].version = outbox[e].version
        /\ conv'.version >= conv.version
    BY <1>1, <1>3 DEF RowsStay, Same
  <2>2. outbox'[e].version = conv'.version => outbox[e].version = conv.version
    BY <1>2, <2>1
  <2> QED BY <1>3, <2>1, <2>2 DEF Current
<1>4. CASE outbox[e].parts = 0
  BY <1>4 DEF Current
<1> QED BY <1>2, <1>3, <1>4

LateInBalance(e, w) ==
  Balanced(Cardinality(late[e]), Cardinality(late'[e]), LooseSends(e), LooseSends(e)',
           Current(e), Current(e)', stalls, stalls', w)

\* A step of w leaves whether another worker sends alone.
LEMMA SendsElsewhere ==
  ASSUME TypeInv, NEW w \in Workers, Turn(w) \/ Disturb(w), NEW e \in Event
  PROVE  /\ \A v \in Workers \ {w} : /\ lease' = v <=> lease = v
                                     /\ Sends(v, e)' <=> Sends(v, e)
         /\ LooseSends(e)' \subseteq LooseSends(e) \cup {w}
         /\ w \notin LooseSends(e)' => LooseSends(e)' \subseteq LooseSends(e) \ {w}
         /\ w \in LooseSends(e) => LooseSends(e)' \subseteq LooseSends(e)
         /\ w \in LooseSends(e) <=> lease # w /\ Sends(w, e)
         /\ w \in LooseSends(e)' <=> lease' # w /\ Sends(w, e)'
<1>1. \A v \in Workers \ {w} : lease' = v <=> lease = v
  BY LeaseMoves, ConstantsAssumption
<1>2. \A v \in Workers \ {w} : Sends(v, e)' <=> Sends(v, e)
  BY OthersKept DEF Sends
<1>3. \A v \in Workers \ {w} : v \in LooseSends(e)' <=> v \in LooseSends(e)
  BY <1>1, <1>2 DEF LooseSends
<1>4. LooseSends(e) \subseteq Workers /\ LooseSends(e)' \subseteq Workers
  BY DEF LooseSends
<1>5. /\ w \in LooseSends(e) <=> lease # w /\ Sends(w, e)
      /\ w \in LooseSends(e)' <=> lease' # w /\ Sends(w, e)'
  BY DEF LooseSends
<1> QED BY <1>1, <1>2, <1>3, <1>4, <1>5

\* Every step keeps the account of one reply's late sends.
LEMMA LateAccountStep ==
  ASSUME TypeInv, TypeInv', RowInv, NEW w \in Workers, Turn(w) \/ Disturb(w),
         NEW e \in Event
  PROVE  LateInBalance(e, w)
<1> DEFINE Quietly == late'[e] = late[e]
<1>0. stalls' >= stalls /\ stalls \in Nat /\ stalls' \in Nat
  BY StallsStay, ConstantsAssumption DEF Next, TypeInv, TypeOK, EnvOK
<1>1. ASSUME Sends(w, e)' /\ lease' = w => Current(e)
      PROVE  Current(e)' => Current(e)
  <2>1. \A v \in Workers : lease' = v /\ Sends(v, e)' => Current(e)
    BY <1>1, SendsElsewhere DEF Current
  <2> QED BY <2>1, CurrentStays DEF Next
<1>2. ASSUME ~Sends(w, e)', late'[e] = late[e] PROVE LateInBalance(e, w)
  <2>1. LooseSends(e)' \subseteq LooseSends(e)
    BY <1>2, SendsElsewhere
  <2> QED BY <1>0, <1>1, <1>2, <2>1 DEF LateInBalance, Balanced
<1>3. CASE Sends(w, e) /\ (SendAccepted(w) \/ SendAmbiguous(w))
  <2>1. /\ ~Sends(w, e)' /\ cursor[w] + 1 \in 1..MaxParts /\ lease' = lease
        /\ UNCHANGED <<outbox, conv>>
        /\ \/ late'[e] = late[e]
           \/ /\ conv.version # outbox[e].version
              /\ late'[e] = late[e] \cup {cursor[w] + 1}
    BY <1>3, SendEffect DEF Sends, storeVars
  <2>2. CASE late'[e] = late[e]
    BY <1>2, <2>1, <2>2
  <2>3. CASE /\ conv.version # outbox[e].version
             /\ late'[e] = late[e] \cup {cursor[w] + 1}
    <3>1. Cardinality(late'[e]) <= Cardinality(late[e]) + 1
      <4>1. IsFiniteSet(late[e])
        BY LateIsFinite DEF TypeInv, TypeOK, MetaOK
      <4> QED BY <2>3, <4>1, OneApart
    <3>2. outbox[e].parts # 0
      BY <1>3, SendEffect DEF Sends, RowInv, HeldOK, Dispatching
    <3>3. LooseSends(e)' \subseteq LooseSends(e)
      BY <2>1, SendsElsewhere
    <3>4. CASE lease = w
      <4>1. Current(e)
        BY <1>3, <3>4 DEF Current
      <4>2. ~Current(e)'
        BY <2>1, <2>3, <3>2, <3>4 DEF Current
      <4> QED BY <1>0, <3>1, <3>3, <4>1, <4>2 DEF LateInBalance, Balanced
    <3>5. CASE lease # w
      <4>1. w \in LooseSends(e) /\ LooseSends(e)' \subseteq LooseSends(e) \ {w}
        BY <1>3, <2>1, <3>5, SendsElsewhere
      <4> QED BY <1>0, <1>1, <2>1, <3>1, <4>1 DEF LateInBalance, Balanced
    <3> QED BY <3>4, <3>5
  <2> QED BY <2>1, <2>2, <2>3
<1>4. CASE ~(Sends(w, e) /\ (SendAccepted(w) \/ SendAmbiguous(w)))
  <2>1. late'[e] = late[e]
    <3>1. CASE SendAccepted(w) \/ SendAmbiguous(w)
      <4>1. /\ pc[w] = "send"
            /\ \A f \in Event \ {turn[w]} : accepted'[f] = accepted[f] /\ late'[f] = late[f]
        BY <3>1, SendEffect
      <4> QED BY <1>4, <3>1, <4>1 DEF Sends
    <3>2. CASE ~SendAccepted(w) /\ ~SendAmbiguous(w)
      BY <3>2, OnlySendsReachMeta
    <3> QED BY <3>1, <3>2
  <2>2. CASE ~Sends(w, e)'
    BY <1>2, <2>1, <2>2
  <2>3. CASE Sends(w, e)'
    <3>1. /\ turn[w] = e /\ UNCHANGED <<outbox, conv>>
          /\ \/ pc[w] = "send"
             \/ /\ pc[w] = "guard" /\ lease = w /\ lease' = w
                /\ outbox[e].version = conv.version
      <4>1. pc'[w] \in Dispatching /\ pc'[w] = "send"
        BY <2>3 DEF Sends, Dispatching
      <4>2. /\ ~SendAccepted(w) /\ ~SendAmbiguous(w) /\ ~MarkPartSent(w)
            /\ ~CommitTurn(w) /\ ~CommitImageTurn(w)
        BY <4>1, SendEffect, RecordEffect, CommitEffect
      <4> QED BY <2>3, <4>1, <4>2, DispatchMoves DEF Sends, Authorized, CanDispatch
    <3>2. CASE pc[w] = "guard"
      <4>1. LooseSends(e)' \subseteq LooseSends(e)
        BY <3>1, <3>2, SendsElsewhere
      <4>2. Current(e)
        BY <3>1, <3>2 DEF Current
      <4> QED BY <1>0, <2>1, <4>1, <4>2 DEF LateInBalance, Balanced
    <3>3. CASE pc[w] = "send"
      <4>1. Sends(w, e)
        BY <3>1, <3>3 DEF Sends
      <4>2. CASE UNCHANGED lease
        <5>1. LooseSends(e)' \subseteq LooseSends(e)
          BY <4>1, <4>2, SendsElsewhere
        <5>2. lease' = w => Current(e)
          BY <4>1, <4>2 DEF Current
        <5> QED BY <1>0, <1>1, <2>1, <5>1, <5>2 DEF LateInBalance, Balanced
      <4>3. CASE ExpireLease(w) /\ lease = w
        <5>1. stalls' = stalls + 1
          BY <3>3, <4>3 DEF ExpireLease
        <5>2. Current(e)
          BY <4>1, <4>3 DEF Current
        <5>3. stalls' >= stalls + 1
          BY <1>0, <5>1
        <5> QED BY <2>1, <5>2, <5>3, SendsElsewhere DEF LateInBalance, Balanced
      <4>4. ~AcquireLease(w) /\ ~Forget(w)
        BY <2>3, <3>3, ForgetEffect DEF AcquireLease, Sends
      <4> QED BY <4>2, <4>3, <4>4, LeaseMoves
    <3> QED BY <3>1, <3>2, <3>3
  <2> QED BY <2>2, <2>3
<1> QED BY <1>3, <1>4

\* Every step keeps LateBudget.
LEMMA LateBudgetStep ==
  TypeInv /\ TypeInv' /\ RowInv /\ LateBudget /\ [Next]_vars => LateBudget'
<1> SUFFICES ASSUME TypeInv, TypeInv', RowInv, LateBudget, [Next]_vars, NEW e \in Event
             PROVE  Account(Cardinality(late'[e]), LooseSends(e)', Current(e)', stalls')
  BY DEF LateBudget
<1>1. PICK w : LateInBalance(e, w)
  <2>1. CASE Webhook \/ MarkHumanTakeover \/ UNCHANGED vars
    <3>1. UNCHANGED <<late, stalls, lease, pc, turn>>
      BY <2>1 DEF Webhook, PersistInbound, Enqueue, LoseEnqueue, MarkHumanTakeover, vars,
                  envVars, localVars, ghostVars
    <3>2. \A v \in Workers : Sends(v, e)' <=> Sends(v, e)
      BY <3>1 DEF Sends
    <3>3. LooseSends(e)' \subseteq LooseSends(e)
      BY <3>1, <3>2 DEF LooseSends
    <3>4. Current(e)' => Current(e)
      <4>1. \A v \in Workers : lease' = v /\ Sends(v, e)' => Current(e)
        BY <3>1, <3>2 DEF Current
      <4> QED BY <4>1, CurrentStays
    <3>5. stalls' >= stalls
      BY StallsStay
    <3> QED BY <3>1, <3>3, <3>4, <3>5 DEF LateInBalance, Balanced
  <2>2. ASSUME NEW w \in Workers, Turn(w) \/ Disturb(w) PROVE \E v : LateInBalance(e, v)
    BY <2>2, LateAccountStep
  <2> QED BY <2>1, <2>2 DEF Next
<1>2. /\ Cardinality(late[e]) \in Nat /\ Cardinality(late'[e]) \in Nat
      /\ stalls \in Nat /\ stalls' \in Nat
  <2>1. late[e] \in SUBSET (1..MaxParts) /\ late'[e] \in SUBSET (1..MaxParts)
    BY DEF TypeInv, TypeOK, MetaOK
  <2> QED BY <2>1, LateIsFinite, ConstantsAssumption DEF TypeInv, TypeOK, EnvOK
<1>3. Account(Cardinality(late[e]), LooseSends(e), Current(e), stalls)
  BY DEF LateBudget
<1>4. Current(e) \in BOOLEAN /\ Current(e)' \in BOOLEAN
  BY DEF Current
<1>5. Balanced(Cardinality(late[e]), Cardinality(late'[e]), LooseSends(e), LooseSends(e)',
               Current(e), Current(e)', stalls, stalls', w)
  BY <1>1 DEF LateInBalance
<1> QED BY <1>2, <1>3, <1>4, <1>5, Balance

\* A copy of a part beyond the first is paid for by a fault or a lease that ran out,
\* and a part after the conversation has moved on, beyond the one already checked, by
\* a lease that ran out: for any number of workers, parts, crashes and expiries.
THEOREM CopiesArePaidFor == Spec => []DuplicatesArePaidFor
<1>1. Init => TypeInv /\ RowInv /\ Budget /\ LateBudget
  <2> SUFFICES ASSUME Init PROVE TypeInv /\ RowInv /\ Budget /\ LateBudget
    OBVIOUS
  <2>1. IsFiniteSet({}) /\ Cardinality({}) = 0
    BY FS_EmptySet
  <2>2. /\ \A w \in Workers : pc[w] = "idle"
        /\ \A e \in Event, p \in 1..MaxParts : accepted[e][p] = 0
        /\ \A e \in Event : late[e] = {}
        /\ faults = 0 /\ stalls = 0
    BY DEF Init
  <2>5. ASSUME NEW x PROVE Account(0, {}, x, 0)
    <3>1. (IF x THEN 1 ELSE 0) \in {0, 1}
      OBVIOUS
    <3>2. 0 + 0 + (IF x THEN 1 ELSE 0) <= 1 + 0
      BY <3>1
    <3> QED BY <2>1, <3>2 DEF Account
  <2>3. Budget
    <3>1. \A e \in Event, p \in 1..MaxParts : Loose(e, p) = {}
      BY <2>2 DEF Loose, Ahead
    <3>2. faults + stalls = 0
      BY <2>2
    <3> QED BY <2>2, <2>5, <3>1, <3>2 DEF Budget
  <2>4. LateBudget
    <3>1. \A e \in Event : LooseSends(e) = {}
      BY <2>2 DEF LooseSends, Sends
    <3>2. \A e \in Event : Cardinality(late[e]) = 0
      BY <2>1, <2>2
    <3> QED BY <2>2, <2>5, <3>1, <3>2 DEF LateBudget
  <2> QED BY <2>3, <2>4, TypeInit, RowInit
<1>2. TypeInv /\ RowInv /\ Budget /\ LateBudget /\ [Next]_vars =>
        (TypeInv /\ RowInv /\ Budget /\ LateBudget)'
  BY TypeStep, RowStep, BudgetStep, LateBudgetStep
<1>3. TypeInv /\ Budget /\ LateBudget => DuplicatesArePaidFor
  <2> SUFFICES ASSUME TypeInv, Budget, LateBudget, NEW e \in Event
               PROVE  /\ \A p \in 1..MaxParts : accepted[e][p] <= 1 + faults + stalls
                      /\ Cardinality(late[e]) <= 1 + stalls
    BY DEF DuplicatesArePaidFor
  <2>1. ASSUME NEW p \in 1..MaxParts PROVE accepted[e][p] <= 1 + faults + stalls
    <3>1. accepted[e][p] \in Nat /\ faults \in Nat /\ stalls \in Nat
      BY ConstantsAssumption DEF TypeInv, TypeOK, MetaOK, EnvOK
    <3>2. /\ Cardinality(Loose(e, p)) \in Nat
          /\ accepted[e][p] + Cardinality(Loose(e, p)) + (IF Open(e, p) THEN 1 ELSE 0)
               <= 1 + (faults + stalls)
      BY DEF Budget, Account
    <3> QED BY <3>1, <3>2
  <2>2. Cardinality(late[e]) <= 1 + stalls
    <3>1. Cardinality(late[e]) \in Nat /\ stalls \in Nat
      BY LateIsFinite, ConstantsAssumption DEF TypeInv, TypeOK, MetaOK, EnvOK
    <3>2. /\ Cardinality(LooseSends(e)) \in Nat
          /\ Cardinality(late[e]) + Cardinality(LooseSends(e)) + (IF Current(e) THEN 1 ELSE 0)
               <= 1 + stalls
      BY DEF LateBudget, Account
    <3> QED BY <3>1, <3>2
  <2> QED BY <2>1, <2>2
<1> QED BY <1>1, <1>2, <1>3, PTL DEF Spec
=============================================================================
