-------------------------- MODULE ConversationTurn --------------------------
(***************************************************************************)
(* One Messenger conversation, from the webhook to the Meta Send API.      *)
(*                                                                         *)
(*   webhook (server.ts)   stores an event in inbound_events, then puts it *)
(*                         on the Redis stream: two steps, not one;        *)
(*   workers (worker.ts)   read the stream as a consumer group, take the   *)
(*                         conversation lease and run the processor;       *)
(*   processor             (metaInboundProcessor.ts) composes a reply,     *)
(*                         commits it with a compare-and-swap on           *)
(*                         state_version together with an outbox row, then *)
(*                         sends the row's parts one by one;               *)
(*   staff                 take the conversation over from another inbox.  *)
(*                                                                         *)
(* Abstracted: the text of messages and replies, the LLM (its result is a  *)
(* free choice), tenants and pages (one of each), message rows, comments.  *)
(***************************************************************************)
EXTENDS Naturals, FiniteSets

CONSTANTS
  NEvents,        \* inbound events of the conversation, in received_at order
  Images,         \* those whose kind is "image"
  Receipts,       \* those of kind delivery, read or referral: no content
  Blank,          \* those of kind "text" without a message (a reaction)
  Workers,        \* consumers of the stream's group
  NoWorker,
  LiveSend,       \* META_LIVE_SEND_ENABLED
  NameKnown,      \* customers.display_name is set from the start
  MaxParts,       \* bound: parts of one reply
  MaxAttempts,    \* META_INBOUND_MAX_ATTEMPTS
  MaxTakeovers,   \* bound: human takeovers
  MaxFaults,      \* bound: crashes, restarts and failed calls of workers
  MaxStalls,      \* bound: leases that run out under a working holder
  MaxLost         \* bound: events stored and never put on the stream

ASSUME ConstantsAssumption ==
  /\ NEvents \in Nat \ {0}
  /\ Images \subseteq 1..NEvents /\ Receipts \subseteq 1..NEvents
  /\ Blank \subseteq 1..NEvents
  /\ Images \cap Receipts = {} /\ Blank \cap (Images \cup Receipts) = {}
  /\ NoWorker \notin Workers
  /\ LiveSend \in BOOLEAN /\ NameKnown \in BOOLEAN
  /\ MaxParts \in Nat \ {0} /\ MaxAttempts \in Nat \ {0}
  /\ MaxTakeovers \in Nat /\ MaxFaults \in Nat
  /\ MaxStalls \in Nat /\ MaxLost \in Nat

Event == 1..NEvents
Content == Event \ Receipts

\* Where a worker's turn can be when another actor moves.
PC == {"idle", "lease", "load", "find", "profile", "compose", "block",
       "commit", "push", "guard", "send", "record", "unknown", "settle",
       "done", "superseded"}

VARIABLES
  ingested,   \* how many events inbound_events holds
  stage,      \* per event: where its stream entry is
  attempt,    \* per event: attempt of its live entry; names the entry id
  owner,      \* per event: the consumer whose pending list holds the entry
  processed,  \* events with processed_at set
  conv,       \* the conversations row: human_status, state_version, order
  named,      \* customers.display_name is set
  outbox,     \* per first event of a turn: its meta.reply row
  inbox,      \* confirmed orders recorded by the order inbox
  accepted,   \* per turn and part: how often Meta accepted it
  lease,      \* holder of lease:meta:<page>:<sender>
  pc,         \* per worker: control
  batch,      \* per worker: the <<event, attempt>> entries it works on
  seen,       \* per worker: the conversation row it loaded
  turn,       \* per worker: first event of the batch, the idempotency key
  expected,   \* per worker: expectedStateVersion of the dispatch
  cursor,     \* per worker: parts of the plan already sent, in memory
  resumed,    \* per worker: the plan was found, not composed
  retried,    \* per worker: a state conflict was already retried
  takeovers, faults, stalls,    \* bounded counters of the environment
  served,     \* history: content events a turn was composed from
  late        \* history: parts Meta accepted after the turn's version passed

queueVars == <<ingested, stage, attempt, owner>>
storeVars == <<processed, conv, named, outbox, inbox>>
localVars == <<batch, seen, turn, expected, cursor, resumed, retried>>
envVars   == <<takeovers, faults, stalls>>
ghostVars == <<served, late>>
vars == <<queueVars, storeVars, accepted, lease, pc, localVars, envVars,
          ghostVars>>

Conversation == [human : {"bot", "human", "paused"}, version : Nat,
                 order : Event \cup {0}]
NewConversation == [human |-> "bot", version |-> 0, order |-> 0]

\* A row of table outbox; parts = 0 stands for no row.
Plan == [parts : 0..MaxParts, sent : 0..MaxParts,
         status : {"pending", "sent", "failed"}, unknown : BOOLEAN,
         version : Nat, sources : SUBSET Event, ack : BOOLEAN,
         order : Event \cup {0}]
NewPlan(parts, version, sources, ack, order) ==
  [parts |-> parts, sent |-> 0, status |-> "pending", unknown |-> FALSE,
   version |-> version, sources |-> sources, ack |-> ack, order |-> order]
NoPlan == NewPlan(0, 0, {}, FALSE, 0)

QueueOK ==
  /\ ingested \in 0..NEvents
  /\ stage \in [Event -> {"none", "stored", "lost", "live", "acked", "dead"}]
  /\ attempt \in [Event -> 0..(MaxAttempts - 1)]
  /\ owner \in [Event -> Workers \cup {NoWorker}]

StoreOK ==
  /\ processed \subseteq Event
  /\ conv \in Conversation
  /\ named \in BOOLEAN
  /\ outbox \in [Event -> Plan]
  /\ inbox \subseteq Event

MetaOK ==
  /\ accepted \in [Event -> [1..MaxParts -> Nat]]
  /\ served \in [Event -> SUBSET Event]
  /\ late \in [Event -> SUBSET (1..MaxParts)]

WorkerOK ==
  /\ lease \in Workers \cup {NoWorker}
  /\ pc \in [Workers -> PC]
  /\ batch \in [Workers -> SUBSET (Event \X Nat)]
  /\ seen \in [Workers -> Conversation]
  /\ turn \in [Workers -> Event]
  /\ expected \in [Workers -> Nat]
  /\ cursor \in [Workers -> 0..MaxParts]
  /\ resumed \in [Workers -> BOOLEAN]
  /\ retried \in [Workers -> BOOLEAN]

EnvOK ==
  /\ takeovers \in 0..MaxTakeovers
  /\ faults \in 0..MaxFaults
  /\ stalls \in 0..MaxStalls

\* Every variable has its type; an attempt number stays below the limit.
TypeOK == QueueOK /\ StoreOK /\ MetaOK /\ WorkerOK /\ EnvOK

Init ==
  /\ ingested = 0
  /\ stage = [e \in Event |-> "none"]
  /\ attempt = [e \in Event |-> 0]
  /\ owner = [e \in Event |-> NoWorker]
  /\ processed = {}
  /\ conv = NewConversation
  /\ named = NameKnown
  /\ outbox = [e \in Event |-> NoPlan]
  /\ inbox = {}
  /\ accepted = [e \in Event |-> [p \in 1..MaxParts |-> 0]]
  /\ lease = NoWorker
  /\ pc = [w \in Workers |-> "idle"]
  /\ batch = [w \in Workers |-> {}]
  /\ seen = [w \in Workers |-> NewConversation]
  /\ turn = [w \in Workers |-> 1]
  /\ expected = [w \in Workers |-> 0]
  /\ cursor = [w \in Workers |-> 0]
  /\ resumed = [w \in Workers |-> FALSE]
  /\ retried = [w \in Workers |-> FALSE]
  /\ takeovers = 0
  /\ faults = 0
  /\ stalls = 0
  /\ served = [e \in Event |-> {}]
  /\ late = [e \in Event |-> {}]

-----------------------------------------------------------------------------
(* Helpers *)

Goto(w, l) == pc' = [pc EXCEPT ![w] = l]

Events(w) == {m[1] : m \in batch[w]}
BatchContent(w) == Events(w) \cap Content
First(S) == CHOOSE e \in S : \A f \in S : e <= f

\* hasNewerInboundContent: a stored message received after the latest of S,
\* handled or not.
\* Mutant: the latest of S counts as newer than itself.
NewerOrSame(S) ==
  \E e \in Content \ Blank : e <= ingested /\ \A s \in S : s <= e
Newer(S) == \E e \in Content \ Blank : e <= ingested /\ \A s \in S : s < e

\* Locals go out of scope at the end of a loop iteration.
Forget(w) ==
  /\ Goto(w, "idle")
  /\ batch' = [batch EXCEPT ![w] = {}]
  /\ seen' = [seen EXCEPT ![w] = NewConversation]
  /\ turn' = [turn EXCEPT ![w] = 1]
  /\ expected' = [expected EXCEPT ![w] = 0]
  /\ cursor' = [cursor EXCEPT ![w] = 0]
  /\ resumed' = [resumed EXCEPT ![w] = FALSE]
  /\ retried' = [retried EXCEPT ![w] = FALSE]

\* releaseLease compares the owner, so a lost lease stays with its new holder.
Release(w) == lease' = IF lease = w THEN NoWorker ELSE lease

Fault == faults < MaxFaults /\ faults' = faults + 1

-----------------------------------------------------------------------------
(* Webhook and staff *)

PersistInbound ==
  /\ ingested < NEvents
  /\ ingested' = ingested + 1
  /\ stage' = [stage EXCEPT ![ingested + 1] = "stored"]
  /\ UNCHANGED <<attempt, owner, storeVars, accepted, lease, pc, localVars,
                 envVars, ghostVars>>

Enqueue(e) ==
  /\ stage[e] = "stored"
  /\ stage' = [stage EXCEPT ![e] = "live"]
  /\ UNCHANGED <<ingested, attempt, owner, storeVars, accepted, lease, pc,
                 localVars, envVars, ghostVars>>

\* The API process dies, or Redis refuses, between the two. Meta's redelivery
\* finds the row (ON CONFLICT DO NOTHING) and enqueues nothing.
LoseEnqueue(e) ==
  /\ stage[e] = "stored"
  /\ Cardinality({f \in Event : stage[f] = "lost"}) < MaxLost
  /\ stage' = [stage EXCEPT ![e] = "lost"]
  /\ UNCHANGED <<ingested, attempt, owner, storeVars, accepted, lease, pc,
                 localVars, envVars, ghostVars>>

\* A human echo: one transaction flips the owner, moves the version and fails
\* every unfinished reply.
MarkHumanTakeover ==
  /\ takeovers < MaxTakeovers
  /\ takeovers' = takeovers + 1
  /\ conv' = [conv EXCEPT !.human = "human", !.version = @ + 1]
  /\ outbox' = [e \in Event |->
       IF outbox[e].parts > 0 /\ outbox[e].status = "pending"
       THEN [outbox[e] EXCEPT !.status = "failed"] ELSE outbox[e]]
  /\ UNCHANGED <<queueVars, processed, named, inbox, accepted, lease, pc,
                 localVars, faults, stalls, ghostVars>>

-----------------------------------------------------------------------------
(* Worker: reading the stream, the conversation lease *)

\* One pass of the loop: XAUTOCLAIM moves entries that stayed pending with
\* another consumer, dead or slow; then own pending entries are read first,
\* undelivered ones if there are none, or while a burst with content goes on.
ReadGroup(w, claimed) ==
  LET own   == {e \in Event : stage[e] = "live" /\ owner[e] = w} \cup claimed
      fresh == {e \in Event : stage[e] = "live" /\ owner[e] = NoWorker}
      read  == IF own = {} \/ own \cap Content # {} THEN own \cup fresh ELSE own
  IN /\ pc[w] = "idle"
     /\ \A e \in claimed : stage[e] = "live" /\ owner[e] \in Workers \ {w}
     /\ read # {}
     /\ owner' = [e \in Event |-> IF e \in read THEN w ELSE owner[e]]
     /\ batch' = [batch EXCEPT ![w] = {<<e, attempt[e]>> : e \in read}]
     /\ Goto(w, "lease")
     /\ UNCHANGED <<ingested, stage, attempt, storeVars, accepted, lease, seen,
                    turn, expected, cursor, resumed, retried, envVars,
                    ghostVars>>

AcquireLease(w) ==
  /\ pc[w] = "lease" /\ lease = NoWorker
  /\ lease' = w
  /\ turn' = [turn EXCEPT ![w] = First(Events(w))]
  /\ Goto(w, "load")
  /\ UNCHANGED <<queueVars, storeVars, accepted, batch, seen, expected, cursor,
                 resumed, retried, envVars, ghostVars>>

LeaseBusy(w) ==
  /\ pc[w] = "lease" /\ lease # NoWorker
  /\ Forget(w)
  /\ UNCHANGED <<queueVars, storeVars, accepted, lease, envVars, ghostVars>>

\* The TTL runs out: on its own once the holder died, as a stall while the
\* holder still runs.
ExpireLease(w) ==
  /\ lease = w
  /\ lease' = NoWorker
  /\ IF pc[w] \in {"idle", "lease"} THEN stalls' = stalls
     ELSE stalls < MaxStalls /\ stalls' = stalls + 1
  /\ UNCHANGED <<queueVars, storeVars, accepted, pc, localVars, takeovers,
                 faults, ghostVars>>

-----------------------------------------------------------------------------
(* How a turn ends *)

\* retryOrDeadLetter: every entry still pending is appended again with its
\* next attempt, or moved to the dead-letter stream.
Exhausted(e, max) == attempt[e] + 1 >= max

RetryOrDeadLetter(w, max) ==
  LET mine == {e \in Event : <<e, attempt[e]>> \in batch[w] /\ stage[e] = "live"}
      gone == {e \in mine : Exhausted(e, max)}
  IN /\ stage' = [e \in Event |-> IF e \in gone THEN "dead" ELSE stage[e]]
     /\ attempt' = [e \in Event |->
          IF e \in mine \ gone THEN attempt[e] + 1 ELSE attempt[e]]
     /\ owner' = [e \in Event |-> IF e \in mine THEN NoWorker ELSE owner[e]]
     /\ Forget(w) /\ Release(w)
     /\ UNCHANGED ingested

Acknowledge(w) ==
  /\ pc[w] = "done"
  /\ stage' = [e \in Event |->
       IF stage[e] = "live" /\ <<e, attempt[e]>> \in batch[w]
       THEN "acked" ELSE stage[e]]
  /\ Forget(w) /\ Release(w)
  /\ UNCHANGED <<ingested, attempt, owner, storeVars, accepted, envVars,
                 ghostVars>>

\* A superseded turn is not acknowledged: its entries stay pending.
LeavePending(w) ==
  /\ pc[w] = "superseded"
  /\ Forget(w) /\ Release(w)
  /\ UNCHANGED <<queueVars, storeVars, accepted, envVars, ghostVars>>

\* The renew timer saw the loss: after processBatch the worker throws a plain
\* Error, which its catch clause does not recognise as a lost lease.
LeaseLostAtEnd(w) ==
  /\ pc[w] \in {"done", "superseded"} /\ lease # w
  /\ RetryOrDeadLetter(w, MaxAttempts)
  /\ UNCHANGED <<storeVars, accepted, envVars, ghostVars>>

\* The places where assertLease runs before the next step; the last one,
\* after the parts, comes before scheduleFollowup.
Asserting(w) ==
  \/ pc[w] \in {"compose", "push"}
  \/ pc[w] = "find" /\ (outbox[turn[w]].parts > 0 \/ BatchContent(w) \cap Images # {})
  \/ pc[w] = "guard" /\ (cursor[w] < outbox[turn[w]].parts \/ ~outbox[turn[w]].ack)

\* ConversationLeaseLostError: entries stay pending, nothing is retried.
AbandonTurn(w) ==
  /\ Asserting(w) /\ lease # w
  /\ Forget(w)
  /\ UNCHANGED <<queueVars, storeVars, accepted, lease, envVars, ghostVars>>

\* SIGTERM makes the next assertLease throw the same error; the lease is freed.
StopWorker(w) ==
  /\ Asserting(w) /\ lease = w
  /\ Fault
  /\ Forget(w) /\ Release(w)
  /\ UNCHANGED <<queueVars, storeVars, accepted, takeovers, stalls, ghostVars>>

CrashWorker(w) ==
  /\ pc[w] # "idle"
  /\ Fault
  /\ Forget(w)
  /\ UNCHANGED <<queueVars, storeVars, accepted, lease, takeovers, stalls,
                 ghostVars>>

\* A store, Redis, page-lookup or brain call throws: before its effect here,
\* after it when this action follows the call's own.
CallFails(w) ==
  /\ pc[w] \notin {"idle", "lease", "send"}
  /\ Fault
  /\ RetryOrDeadLetter(w, MaxAttempts)
  /\ UNCHANGED <<storeVars, accepted, takeovers, stalls, ghostVars>>
-----------------------------------------------------------------------------
(* Processor: from the batch to a committed turn *)

\* Mutant: only the first event of the batch.
FirstProcessed(w) == processed \cup {turn[w]}
AllProcessed(w) == processed \cup Events(w)

\* Nothing to answer: no content, sending disabled, not the bot's conversation.
Muted(w) == BatchContent(w) = {} \/ ~LiveSend \/ conv.human # "bot"

\* ensureMessengerConversation, then the early returns that only mark the
\* events processed.
EnsureConversation(w) ==
  /\ pc[w] = "load"
  /\ seen' = [seen EXCEPT ![w] = conv]
  /\ IF Muted(w)
     THEN processed' = AllProcessed(w) /\ Goto(w, "done")
     ELSE processed' = processed /\ Goto(w, "find")
  /\ UNCHANGED <<queueVars, conv, named, outbox, inbox, accepted, lease, batch,
                 turn, expected, cursor, resumed, retried, envVars, ghostVars>>

Authorized(row, version) == row.version = version

\* Mutant: a reply whose outcome is unknown is sent again.
ResumableInDoubt(row, version) ==
  row.status # "sent" /\ Authorized(row, version)
Resumable(row, version) ==
  /\ row.status # "sent"
  /\ ~row.unknown
  /\ Authorized(row, version)

\* Mutant: the stored cursor is not read.
ResumeAtStart(row) == 0
ResumeAt(row) == row.sent

\* pushCreatedOrder; the order inbox is idempotent per order.
\* Mutant: only the resumed path records it.
RecordOrderOnResume(w) ==
  inbox' = IF pc[w] = "find" THEN inbox \cup ({seen[w].order} \ {0}) ELSE inbox
RecordOrder(w) == inbox' = inbox \cup ({seen[w].order} \ {0})

\* The row of the idempotency key exists: push the order again, then go on
\* with the committed plan, unless it is finished, unknown or out of date.
ResumeOutbound(w) ==
  LET row == outbox[turn[w]]
  IN /\ pc[w] = "find" /\ row.parts > 0
     /\ lease = w
     /\ RecordOrder(w)
     /\ resumed' = [resumed EXCEPT ![w] = TRUE]
     /\ expected' = [expected EXCEPT ![w] = seen[w].version]
     /\ cursor' = [cursor EXCEPT ![w] = ResumeAt(row)]
     /\ IF Resumable(row, seen[w].version)
        THEN Goto(w, "guard") ELSE Goto(w, "settle")
     /\ UNCHANGED <<queueVars, processed, conv, named, outbox, accepted, lease,
                    batch, seen, turn, retried, envVars, ghostVars>>

\* A batch without any text is only marked processed.
NoTurnOutbound(w) ==
  /\ pc[w] = "find" /\ outbox[turn[w]].parts = 0
  /\ IF BatchContent(w) \cap Images # {}
     THEN lease = w /\ Goto(w, "commit")
     ELSE Goto(w, IF BatchContent(w) \subseteq Blank THEN "settle"
                  ELSE IF named THEN "compose" ELSE "profile")
  /\ UNCHANGED <<queueVars, storeVars, accepted, lease, localVars, envVars,
                 ghostVars>>

\* The profile lookup stores the name and reloads the conversation row.
FetchProfile(w) ==
  /\ pc[w] = "profile"
  /\ Goto(w, "compose")
  /\ \/ named' = TRUE /\ seen' = [seen EXCEPT ![w] = conv]
     \/ UNCHANGED <<named, seen>>
  /\ UNCHANGED <<queueVars, processed, conv, outbox, inbox, accepted, lease,
                 batch, turn, expected, cursor, resumed, retried, envVars,
                 ghostVars>>

\* brain.reply has returned: drop the reply if the customer wrote again.
Compose(w) ==
  /\ pc[w] = "compose"
  /\ IF Newer(BatchContent(w)) THEN Goto(w, "superseded")
     ELSE \/ Goto(w, "block")
          \/ lease = w /\ Goto(w, "commit")
  /\ UNCHANGED <<queueVars, storeVars, accepted, lease, localVars, envVars,
                 ghostVars>>

\* The compare-and-swap both commits share.
\* Mutant: the WHERE clause forgets state_version.
SwapBlindly(w, human, order) ==
  conv' = [human |-> human, version |-> conv.version + 1, order |-> order]
SwapConversation(w, human, order) ==
  /\ conv.version = seen[w].version
  /\ conv' = [human |-> human, version |-> conv.version + 1, order |-> order]

\* The order draft the turn leaves behind: unchanged, or confirmed just now.
OrderAfter(w) == {conv.order, turn[w]}

\* No delivery authorization: the state is saved, no row is written.
CommitTurnBlocked(w) ==
  /\ pc[w] = "block"
  /\ \E human \in {"bot", "paused"}, order \in OrderAfter(w) :
       SwapConversation(w, human, order)
  /\ processed' = processed \cup BatchContent(w)
  /\ served' = [served EXCEPT ![turn[w]] = @ \cup BatchContent(w)]
  /\ Goto(w, "done")
  /\ UNCHANGED <<queueVars, named, outbox, inbox, accepted, lease, localVars,
                 envVars, late>>

\* One transaction: swap, insert the row unless its key exists, mark the
\* source events processed.
CommitPlan(w, human, order, plan) ==
  /\ SwapConversation(w, human, order)
  /\ outbox' = IF outbox[turn[w]].parts > 0 THEN outbox
               ELSE [outbox EXCEPT ![turn[w]] = plan]
  /\ processed' = processed \cup plan.sources
  /\ seen' = [seen EXCEPT ![w].order = order]
  /\ expected' = [expected EXCEPT ![w] = conv.version + 1]
  /\ cursor' = [cursor EXCEPT ![w] = outbox'[turn[w]].sent]
  /\ served' = [served EXCEPT ![turn[w]] = @ \cup BatchContent(w)]

CommitTurn(w) ==
  /\ pc[w] = "commit" /\ BatchContent(w) \cap Images = {}
  /\ \E parts \in 1..MaxParts, human \in {"bot", "paused"},
        order \in OrderAfter(w) :
       CommitPlan(w, human, order,
         NewPlan(parts, conv.version + 1, BatchContent(w), FALSE, order))
  /\ Goto(w, "push")
  /\ UNCHANGED <<queueVars, named, inbox, accepted, lease, batch, turn,
                 resumed, retried, envVars, late>>

\* A batch with an image: hand over to staff, acknowledge in one part. The
\* row's sources are the images only.
CommitImageTurn(w) ==
  /\ pc[w] = "commit" /\ BatchContent(w) \cap Images # {}
  /\ CommitPlan(w, "human", conv.order,
       NewPlan(1, conv.version + 1, BatchContent(w) \cap Images, TRUE, 0))
  /\ Goto(w, "guard")
  /\ UNCHANGED <<queueVars, named, inbox, accepted, lease, batch, turn,
                 resumed, retried, envVars, late>>

\* ConversationStateConflictError: reload and reconcile once, then give up.
StateConflict(w) ==
  /\ pc[w] \in {"block", "commit"} /\ conv.version # seen[w].version
  /\ IF retried[w] THEN RetryOrDeadLetter(w, MaxAttempts)
     ELSE /\ retried' = [retried EXCEPT ![w] = TRUE]
          /\ Goto(w, "load")
          /\ UNCHANGED <<queueVars, lease, batch, seen, turn, expected, cursor,
                         resumed>>
  /\ UNCHANGED <<storeVars, accepted, envVars, ghostVars>>

-----------------------------------------------------------------------------
(* Processor: dispatching a committed plan *)

PushCreatedOrder(w) ==
  /\ pc[w] = "push" /\ lease = w
  /\ RecordOrder(w)
  /\ Goto(w, "guard")
  /\ UNCHANGED <<queueVars, processed, conv, named, outbox, accepted, lease,
                 localVars, envVars, ghostVars>>

\* requiredReceiptRefs against what pushCreatedOrder returned.
ReceiptsSatisfied(w) ==
  outbox[turn[w]].order = 0 \/ seen[w].order # 0

CanDispatch(row, version) ==
  conv.version = version /\ (conv.human # "human" \/ row.ack)

AfterDispatch(w) == IF resumed[w] THEN "settle" ELSE "done"

\* Before each part: lease, authorization, state version and owner, newer
\* content than the row's sources.
GuardPart(w) ==
  LET row == outbox[turn[w]]
  IN /\ pc[w] = "guard"
     /\ IF \/ cursor[w] >= row.parts
           \/ ~Authorized(row, expected[w])
           \/ ~ReceiptsSatisfied(w)
        THEN Goto(w, AfterDispatch(w))
        ELSE /\ lease = w
             /\ IF CanDispatch(row, expected[w]) /\ ~Newer(row.sources)
                THEN Goto(w, "send") ELSE Goto(w, AfterDispatch(w))
     /\ UNCHANGED <<queueVars, storeVars, accepted, lease, localVars, envVars,
                    ghostVars>>

\* Meta takes the next part.
Accept(w) ==
  LET part == cursor[w] + 1
  IN /\ accepted' = [accepted EXCEPT ![turn[w]][part] = @ + 1]
     /\ late' = IF conv.version = outbox[turn[w]].version THEN late
                ELSE [late EXCEPT ![turn[w]] = @ \cup {part}]
     /\ UNCHANGED served

SendAccepted(w) ==
  /\ pc[w] = "send"
  /\ Accept(w)
  /\ Goto(w, "record")
  /\ UNCHANGED <<queueVars, storeVars, lease, localVars, envVars>>

\* network_error, invalid_response or request_timeout: Meta took it or not.
SendAmbiguous(w) ==
  /\ pc[w] = "send"
  /\ Accept(w) \/ UNCHANGED <<accepted, ghostVars>>
  /\ Goto(w, "unknown")
  /\ UNCHANGED <<queueVars, storeVars, lease, localVars, envVars>>

\* RetryableMetaSendError keeps the retry budget, MetaSendError allows one try.
SendRejected(w) ==
  /\ pc[w] = "send"
  /\ \E max \in {1, MaxAttempts} : RetryOrDeadLetter(w, max)
  /\ UNCHANGED <<storeVars, accepted, envVars, ghostVars>>

\* The cursor is stored whatever the row's status has become meanwhile.
MarkPartSent(w) ==
  LET n == cursor[w] + 1
  IN /\ pc[w] = "record"
     /\ outbox' = [outbox EXCEPT ![turn[w]].sent = n,
          ![turn[w]].status = IF n >= outbox[turn[w]].parts
                              THEN "sent" ELSE "pending"]
     /\ cursor' = [cursor EXCEPT ![w] = n]
     /\ Goto(w, "guard")
     /\ UNCHANGED <<queueVars, processed, conv, named, inbox, accepted, lease,
                    batch, seen, turn, expected, resumed, retried, envVars,
                    ghostVars>>

\* The row is held for good, before the part in doubt, and the turn fails.
\* Mutant: after the part in doubt.
HeldAfter(w) == cursor[w] + 1
HeldAt(w) == cursor[w]

MarkOutboundUnknown(w) ==
  /\ pc[w] = "unknown"
  /\ outbox' = [outbox EXCEPT ![turn[w]].sent = HeldAt(w),
       ![turn[w]].unknown = TRUE, ![turn[w]].status = "failed"]
  /\ RetryOrDeadLetter(w, MaxAttempts)
  /\ UNCHANGED <<processed, conv, named, inbox, accepted, envVars, ghostVars>>

\* A resumed turn and a batch without text mark all their events here.
MarkProcessed(w) ==
  /\ pc[w] = "settle"
  /\ processed' = AllProcessed(w)
  /\ Goto(w, "done")
  /\ UNCHANGED <<queueVars, conv, named, outbox, inbox, accepted, lease,
                 localVars, envVars, ghostVars>>

-----------------------------------------------------------------------------
Webhook == PersistInbound \/ \E e \in Event : Enqueue(e) \/ LoseEnqueue(e)

Turn(w) ==
  \/ \E claimed \in SUBSET Event : ReadGroup(w, claimed)
  \/ AcquireLease(w) \/ LeaseBusy(w)
  \/ EnsureConversation(w) \/ ResumeOutbound(w) \/ NoTurnOutbound(w)
  \/ FetchProfile(w) \/ Compose(w)
  \/ CommitTurnBlocked(w) \/ CommitTurn(w) \/ CommitImageTurn(w)
  \/ StateConflict(w)
  \/ PushCreatedOrder(w) \/ GuardPart(w)
  \/ SendAccepted(w) \/ SendAmbiguous(w) \/ SendRejected(w)
  \/ MarkPartSent(w) \/ MarkOutboundUnknown(w) \/ MarkProcessed(w)
  \/ Acknowledge(w) \/ LeavePending(w) \/ LeaseLostAtEnd(w)
  \/ AbandonTurn(w)

Disturb(w) ==
  \/ ExpireLease(w) \/ StopWorker(w) \/ CrashWorker(w) \/ CallFails(w)

Next ==
  \/ Webhook \/ MarkHumanTakeover
  \/ \E w \in Workers : Turn(w) \/ Disturb(w)

Spec == Init /\ [][Next]_vars

\* The processes keep running: the webhook handler reaches its enqueue, the
\* worker loop its next step, an abandoned lease its TTL. A busy lease is asked
\* for again every second, hence strong fairness there.
Fairness ==
  /\ \A e \in Event : WF_vars(Enqueue(e))
  /\ \A w \in Workers : /\ WF_vars(Turn(w))
                        /\ SF_vars(AcquireLease(w))
                        /\ WF_vars(pc[w] \in {"idle", "lease"} /\ ExpireLease(w))

FairSpec == Spec /\ Fairness
=============================================================================
