# Verification of chatbot-stopirex

TLA+ models of the Messenger sales bot in `src/`, the TLC runs that check them
on small instances, and TLAPS proofs of what matters most. References such as
`worker.ts:207` are paths under `src/src/` unless they start with `docs/`,
`test/` or `migrations/`.

## 1. The system

A Facebook page's customers write on Messenger and under the page's posts. Meta
calls a webhook; events are stored in PostgreSQL and put on a Redis stream;
workers read the stream, take one conversation at a time under a lease, let a
"brain" (rules and an LLM) compose a reply, commit it with an outbox row and send
it to Meta's Send API in parts. Staff may answer from another inbox, which hands the
conversation over. Orders, follow-ups, comments, tracking messages and an admin
console hang off the same conversation row.

| component | code | state it keeps | operations |
|---|---|---|---|
| webhook ingestion | `http/server.ts:804-891`, `adapters/metaEvents.ts` | rows of `inbound_events` | persist, enqueue, human echo |
| queue and lease | `infrastructure/redis.ts`, `worker.ts` | stream entries, pending lists, attempts, dead letters, `lease:<conversation>` | reclaim, read own / fresh / burst, retry or dead-letter, acknowledge, acquire / renew / release |
| inbound processor | `services/metaInboundProcessor.ts` | locals of one turn | load, skip, resume, image hand-over, profile, compose, commit, push the order, dispatch, mark processed |
| conversation store | `infrastructure/postgres.ts` | `conversations` (owner, `state_version`, draft), `outbox`, `messages` | commit turn (compare-and-swap), takeover, cursor updates |
| Meta client | `adapters/metaMessenger.ts` | none | send (accepted / ambiguous / rejected), hide, profile |
| follow-ups | `followupWorker.ts`, `services/followupRepository.ts`, `services/followupDispatcher.ts` | cycles, jobs | schedule, claim, recover stale claims, send, cancel |
| order inbox | `services/orderInbox.ts`, `http/server.ts:296-397` | order rows | push, update status, claim / complete / fail the tracking message |
| comments | `metaInboundProcessor.ts`, `services/commentReplyPolicy.ts`, `http/server.ts:232-276` | `meta_comment_workflows` | public reply, private reply, visibility |
| chat flow | `services/demoChat.ts` | the session: pipeline, order draft, offers, care case, history | some ninety branches of `chat()`, new episode, restore, hand-over |
| reading of a message | `domain/conversationFacts.ts`, `conversationActions.ts`, `conversationDecision.ts` | fact ledger in the session | record facts, reconcile proposed actions, route |
| reply composition | `services/metaChatBrain.ts`, `domain/finalResponseValidator.ts` | locals of one reply | interpret, adopt / compose / repair, cover open questions, check facts, validate |
| LLM failover | `services/codexLlm.ts:1030-1207` | one breaker per runner | call, hedge, fall back, cool down |
| operations | `services/operationsControl.ts` | a flag, processes, addresses | restart gateway, workers, tunnel, webhook |
| care cases | `domain/customerCare.ts` | the case in the session | open, advance, hand over |
| pages, prices, reports | the rest | tables | reads, single-row updates |

How they interact. The webhook and the workers share nothing but `inbound_events`
and the stream. Workers exclude each other by a Redis lease with a TTL and, if
that fails, by the compare-and-swap on `conversations.state_version`; staff's
takeover is one transaction that flips `human_status`, increments the version
and fails every unfinished reply. The outbox row, keyed by the first event of
the turn's batch, is what a retried turn finds instead of composing again. The
follow-up worker and the tracking message use the same lease and Send API. Inside a
turn, `MetaChatBrain.reply` calls the LLM, then `DemoChatService.chat` with what it
interpreted, then the LLM again to word the result; the session it works on is the
worker's own copy, kept in memory between turns.

What is hard. Two workers on one conversation (reclaim after a slow turn,
expired lease); takeover between any two steps of a turn; a crash or a failed
call between Meta's acceptance and the stored cursor; answers of the Send API
that are lost; batches that are regrouped on every retry, so that the first
event, and with it the idempotency key, changes; attempts at their limit;
events stored and never enqueued; two copies of a session; a breaker shared by
overlapping calls; processes that stop in their own time; ninety branches that share one
order draft; guards that see a reply on some paths only; facts told late, twice
or corrected. `PROJECT.json` lists each at its line.

What makes each component correct:

- queue: an entry is not acknowledged before somebody dealt with it;
- turn: staff's ownership is never taken back by a turn; an order is recorded
  before the customer reads that it is; the stored cursor never exceeds what
  Meta accepted; a part whose outcome is unknown is never sent again; every
  duplicate is paid for by a fault; the latest message is settled in the end;
- follow-ups: at most one message per stage and anchor, none after the customer,
  staff or the pipeline cancelled; due jobs are settled;
- orders: a tracking message is sent once per claim; a cancelled order stays
  cancelled; a reply confirms what the inbox holds;
- comments: the public reply before the private one, a verdict for every comment,
  personal data hidden, the page's view of visibility true;
- chat flow: a confirmed order is complete, its total is the one quoted, a turn
  that only answers leaves a pending order alone, a case reaches a person with its papers;
- reading: a message read twice changes nothing, what is said of a person is
  consistent and of the right day, care is for one's own present reaction, a refusal does not sell;
- reply: a bounded number of model calls, the history is what was said, nothing a
  guard refused is sent, a pause is told;
- LLM calls: each is settled, none rejected while a provider may still answer;
- restarts: one consumer per kind, a healthy report means a live new process, the
  button comes free again, the remembered address is the one Meta calls.

## 2. Modules

| module | what it is |
|---|---|
| `ConversationTurn` | one conversation from the webhook to the Send API: every step of `worker.ts` and `metaInboundProcessor.ts` that another actor can see |
| `ReplyDelivery` | abstract: what one committed reply promises the customer |
| `ConversationTurnProperties` | the properties; `DeliversReplies` instantiates `ReplyDelivery` with a refinement mapping |
| `ConversationTurnProofs` | `TypeCorrect`, `TakeoverHolds`, `CursorBacked`, `OrderPrecedesReply`, `NoMessageIsForgotten`, `DoubtIsFinal`, `RepliesAreDelivered` (the refinement), `CopiesArePaidFor` |
| `Followup`, `FollowupProperties` | cycles and jobs of one conversation, follow-up workers, the customer's turns as far as they cancel and schedule |
| `FollowupProofs` | `FollowupTypeCorrect`, `CyclesStayInAgreement`, `JobsStayEnded`, `AnswersCancelFirst`, `DeparturesArePaidFor` |
| `OrderInbox`, `OrderInboxProperties` | orders of one conversation: turns that place and change them, the inbox rows, requests of the order page |
| `OrderInboxProofs` | `OrdersTypeCorrect`, `TrackingIsSafe`, `CancellationHolds`, `RepliesAreRecorded` |
| `CommentWorkflow` | one comment: its turn, its row, the visibility switch |
| `CommentWorkflowProofs` | `CommentTypeCorrect`, `CopiesArePaidFor`, `CommentHasVerdict`, `PersonalDataIsHidden`, `VisibilityIsShown` |
| `HybridLlm` | model calls on two providers |
| `OperationsControl` | the restart button, the processes, the tunnel |
| `OperationsControlProofs` | `OpsTypeCorrect`, `WebhookIsRegistered`, `OneConsumerAtATime`, `RestartsExclude`, `HealthyIsReplaced` |
| `CareCase` | operators: a care case and what a message makes of it |
| `ChatFlow` (extends `CareCase`) | the session's order, pipeline and case through every branch of `chat()` |
| `ChatFlowProofs` | `ChatTypeCorrect`, `PapersBeforeHandoff`, `ConfirmationIsFilled`, `QuoteSurvivesTurn`, `PendingOrderSurvives` |
| `SessionMemory` | the worker's copy of a session against the stored one |
| `FactLedger`, `ActionPlan`, `Routing` | operators: the ledger, the reconciled actions, the route |
| `TurnReading` (extends these three) | the messages of a conversation, read, retried and late |
| `TurnReadingProofs` | `ReadingTypeCorrect`, `LedgerHoldsTogether`, `SayableAgrees`, `RetriesAddNothing`, `RefusalDecides`, `ReactionsAreCared` |
| `ReplyGuards` | operators: what the guards make of a text |
| `ChatBrain` (extends `ReplyGuards`) | one reply from interpretation to delivery |
| `ChatBrainProofs` (extends `ChatBrain` and `HybridLlm`) | the brain: `BudgetIsKept`, `HistoryIsTold`, `RefusalsHold`, `PauseIsSaid`; its model calls: `LlmTypeCorrect`, `FallbackStartsOnce`, `RejectionIsExhausted`, `PauseIsKept` |
| `MC...` | small sets, symmetry; one per model |

The modules share a customer and his lease, not their variables: each
re-states the other's part at the grain it needs. `Followup` has the
turn in six steps (cancel, commit, resume, schedule, acknowledge, fail),
`OrderInbox` in three (read, commit, push and reply), `SessionMemory` in five;
`ConversationTurn` has it whole. What is one step `Compose` there is
`ChatBrain`, whose step `Chat` is `TurnReading` followed by one action of `ChatFlow`.
### ConversationTurn: state

| variable | in the code |
|---|---|
| `ingested` | rows of `inbound_events`; events are numbered in `received_at` order |
| `stage`, `attempt`, `owner` | an event's stream entry: stored only, live, acknowledged, in the dead-letter stream; the payload's `attempt`; the consumer whose pending list holds it |
| `processed` | `inbound_events.processed_at IS NOT NULL` |
| `conv` | `conversations`: `human_status`, `state_version`, the order of the draft |
| `named` | `customers.display_name` is set |
| `outbox` | the `meta.reply` row of each turn key: parts, cursor `sent`, status, `delivery_unknown`, version, source events, whether it is an acknowledgement of an image, the order it confirms |
| `inbox` | confirmed orders pushed to the order inbox |
| `accepted` | what Meta accepted: per turn and part, how often |
| `lease` | holder of `lease:meta:<page>:<sender>` |
| `pc`, `batch`, `seen`, `turn`, `expected`, `cursor`, `resumed`, `retried` | a worker's control point and the locals of `processBatchOnce` |
| `served`, `late` | history: which events a reply was composed from, which parts Meta accepted after the version moved on |

### ConversationTurn: actions

`PersistInbound`, `Enqueue`, `LoseEnqueue` are the webhook's two steps and the
gap between them. `MarkHumanTakeover` is the takeover's transaction.
`ReadGroup` is one pass of the worker's loop (reclaim, own pending entries,
fresh entries, burst): the passes that only wait are not steps of their own.
`AcquireLease`, `LeaseBusy`, `ExpireLease` are the lease. Then, in the
order of the code: `EnsureConversation` (load the row, the early
returns), `ResumeOutbound` / `NoTurnOutbound` (is there a committed reply for
this key?), `FetchProfile` (unnamed customer: call, then reload the row),
`Compose` (the brain, which may be superseded by newer content),
`CommitTurn` / `CommitTurnBlocked` / `CommitImageTurn` (one transaction each) or
`StateConflict` (zero rows updated: retry once, then fail),
`PushCreatedOrder`, `GuardPart` (lease, authorization, ownership and version,
newer content, in the order of `dispatchOutbound`), `SendAccepted`,
`SendAmbiguous`, `SendRejected`, `MarkPartSent`, `MarkOutboundUnknown`,
`AfterDispatch` (inside `GuardPart`), `MarkProcessed`, `Acknowledge`. A turn
also ends by `LeavePending` (superseded), `AbandonTurn` (the lease was lost),
`LeaseLostAtEnd`, `CallFails`, `CrashWorker` and `StopWorker`.

### Abstractions

- One tenant, one page, one conversation. Messages and replies have no text;
  what the brain composes (how many parts, whether it pauses the bot,
  whether it confirms an order, whether the guard blocks it) is a free choice.
- Events are numbered by `received_at`; their source timestamps agree with it.
- `Blank` events are stored with kind `text` and no message text (reactions):
  the processor answers them, `hasNewerInboundContent` does not count them.
- The retry of a batch, one Redis call per entry in the code, is one step; a
  crash or a failure before it leaves every entry pending.
- Checks that read one row and are followed by no write of the same actor
  (`GuardPart`) are one step up to the Send call; the call itself, and the
  write after it, are steps of their own, so a takeover fits between.
- Message rows, attribution, telemetry, typing indicators and the follow-up
  schedule at the end of a turn (see `Followup`) are left out.

### Followup

| variable | in the code |
|---|---|
| `live` | `FOLLOWUP_MODE`, read at start |
| `cycle`, `status`, `attempt` | `followup_cycles.status`, `followup_jobs.status`, `attempt_count` |
| `elapsed` | how many `due_at` of the newest cycle have passed; the step after the last is `window_expires_at` |
| `human`, `pipeline` | `conversations.human_status`, `pipeline_tag` |
| `written`, `anchoredAt` | inbound events of the customer; for a cycle, those before its anchor (`last_inbound > anchor`) |
| `handled`, `committed`, `tpc` | turns that were acknowledged, that committed a reply; control of the turn under way |
| `lease` | `lease:meta:<page>:<customer>`, which follow-up and inbound workers share |
| `pc`, `batch`, `cur` | a follow-up worker: control, claims it has yet to process, the claim it processes |
| `accepted`, `doubtful` | what Meta accepted, sends whose answer was lost |

`ClaimDue`, `ReleaseStaleClaims`, `ReleaseSlowClaims` are the repository's
statements; `StartJob`, `ConversationBusy`, `ProcessThrows`, `CrashWorker` the worker's loop;
`RefuseClaim`, `Shadow`, `LeaveClaimed`, `CheckPasses`, `CheckFails`, `BlockPayload`,
`SendAccepted`, `SendAmbiguous`, `SendRejected`, `MarkSent`, `MarkSendFailure` the dispatcher, in the order of
`process`. `BeginTurn` to `TurnFails` are the customer's turn.

Abstractions: a job that waits for its retry is due at once (the back-off is a
lower bound on time, and time is free). `claimDue` takes any non-empty set of due
jobs, since other conversations compete for its `LIMIT`. A message has a
turn of its own. A failed check and the cancellation after it are one step: both
read and write the same row, and nothing else moves it forward meanwhile. The
clauses of eligibility that nothing in the model can change (page enabled, customer
not deleted, no order) are left out, and so is the limit on retries of turns.

### OrderInbox

| variable | in the code |
|---|---|
| `status`, `send`, `numbered`, `held` | `order_inbox.status`, `tracking_send_status`, `tracking_number IS NOT NULL`, the draft's columns |
| `draft` | the order in `conversations.runtime_state`, and whether the pipeline is "6.Đã tạo đơn" |
| `tpc`, `editable`, `said` | the turn: control, the answer of `canEditPending`, the draft its reply confirms |
| `told` | the latest version of each order a reply that was sent has confirmed |
| `pc`, `at` | requests `POST /api/orders/:id/tracking`: control and the order claimed |
| `accepted`, `lost`, `raced` | history: tracking messages accepted, answers lost, orders staff closed in the middle of a turn |

`PlaceOrder`, `ChangeOrder`, `LeaveOrder`, `BuyMore`, `Talk` are what the brain can do with an order
(`demoChat.ts:2267-2334`, `:8972`, `:9136`); `PushCreatedOrder` is the upsert with its `CASE`s; `PayloadBlocked`
is the guard's refusal after composing. `ClaimTrackingSend`, `SendAccepted`, `SendRefused`, `SendAnswerLost`,
`MarkTrackingSent`, `MarkTrackingFailed`, `RequestDies` and `CancelOrder` are the order page.

Abstractions: a draft is its version. Order ids are numbered by `confirmed_at`,
which grows with every confirmation and is the idempotency key. The
turn's compare-and-swap and its retries are in `ConversationTurn`; here a turn
that fails is dropped, and one that is resumed pushes later. Left out: what the brain
does with an order that was parked while open and locked afterwards
(`orderMutationAllowed`, `demoChat.ts:408`, looks at the pipeline).

### CommentWorkflow

| variable | in the code |
|---|---|
| `pii` | the comment shows personal data (`suggestCommentModeration`) |
| `entry`, `attempt`, `owner`, `lease`, `pc`, `held`, `seen`, `cursor`, `resumed`, `retried` | as in `ConversationTurn`, for one entry |
| `conv` | owner and version of the customer's Messenger conversation, which a comment turn reads and never moves |
| `row` | `meta_comment_workflows`: status, parts it has ids for, `is_hidden` |
| `outbox`, `processed` | the `meta.reply` row of the turn, `processed_at` |
| `page` | requests `POST /api/comments/:id/visibility` |
| `accepted`, `hidden` | at Meta: copies of each reply, whether the comment is hidden |
| `refused`, `crossed`, `moves`, `faults`, `stalls` | history and bounded counters |

The actions follow `processBatchOnce` for a comment: `LoadComment`, `PauseForHuman`,
`ResumeOutbound`, `Compose`, `Deny`, `CommitPlan` / `StateConflict`, `PrepareReplies`, `AutoHide`, `MarkHidden`,
`GuardPart`, `SendPart`, `MarkPartSent` (outbox, then `MarkCommentPartSent` the row), `SendFailed`, `MarkOutboundUnknown`,
`Suppress`, `MarkProcessed`; `RequestVisibility`, `CallVisibility`, `StoreVisibility` are the comments page;
`MessengerMoves` is any turn or takeover of the conversation.

### ChatFlow, CareCase

`s` is the session reduced to what branches test and change: mode, pipeline (stages
merged as the module's head says), `previousSalesPipeline`, hand-off reason, quantity, delivery
data present, confirmation, fee of the stored total, free-shipping approval, pending offer, opt-out, the care case, and
whether the history is empty. `ctx` is `orderEditable` as the turn read it, `row` the inbox row of the latest
confirmation.

One action per branch of `chat()`, in its order and named after it (`Boundary`, `SplitShipment`,
`RecapWithCorrection`, `FactLedger`, `ActiveCare`, `StartCare`, `Cancellation`, ... `Discover`); branches
that do the same are one. Each composes what the code calls before it (`Hears`: greeting,
observation, reset of an editable flag), its own effect and `respond` after it (`Commit`, which pushes).
Between turns: `StaffSettle`, `FollowupSent`, `NewEpisode`, `GrantShipping`, `ResumeCareAfterHuman`.
`CareCase` gives for every issue the stages, their questions, the papers a person needs and
what an answer, a repetition or a correction leads to.

Abstractions: the message is a free choice among what the branch's patterns may find. Consultation slots, offers that
are only answered, wording, `orderCollectionPaused` are left out.

### SessionMemory

`stored` is `runtime_state` with its version, `memory` each worker's session, `turn` the turn a worker is in, `handled`
the messages processed. A session is what it has taken in. `StartTurn` (restore, or the cached copy), `Chat`,
`Supersede`, `CommitTurn`, `Conflict`, `FailTurn`, `Restart`; beside them `MarkSent` and `SetHumanStatus`.

### FactLedger, ActionPlan, Routing, TurnReading

`FactLedger`: claims extracted from a message (`Extracted`: all ten the patterns look for, in their order), their identity
(`SameEvent`, `Known`), replacement of the five single-valued facts (`SingleValued`, `Replaces`), the newest 80 (`Reduced`), the
ledger's own answer (`FactAnswer`: the sixteen answers of `planConversationFactResponse` as rules of which the first that holds is
given, with their guards and whether they dismiss a case) and what a reply may say
(`MaySay`). `ActionPlan`: candidates of the model and of the rules, refusals (`Invalid`, `CareMisread`), reconciliation
(`Yields`, `Declined`). `Routing`: the first route whose condition holds. `TurnReading` puts them together:
`facts` the ledger, `message` with the day `at` it was written, `plan`, `answer`, `care` the open case; actions
`Read` (the ledger), `Plan` (the reconciled actions, the answer, the case), `Retry` (a failed turn is read again: its ledger is
kept), `End`, `NextDay`.

Abstractions: a message is what the patterns find in it, a reading what the model proposes; both are
free choices from the sets of `MCTurnReading`. Confidences are three grades, evidence four. What a message may be is
`Message`, what the model may propose `SemanticFact` and `Interpretation`, what the planner's patterns may find `Findings`, which
knows that a text whose last word is a refusal contains one: both patterns of `conversationActions.ts` (`:943`, `:951`) are the same.
`Stages` are the ledgers after each claim of a message; `Kept` is JavaScript's `filter`. Of a message the patterns of the answers are
`cues`, and those of questions `asks`, which keeps apart what the case and the ledger take for one (`:125-127`, `:830-833`). A gym
schedule is its time of day, without the weekdays; a person the model names is one of the four known ones; of `memoryProjection.ts`
the subject is the ledger's (`of`), and which facts are relevant to the question, hence `must_say`, is left out. `semanticIntent` is the cue "consults". A retry
is given the facts the model proposed the first time: a second call may propose others, which are then new.

### ReplyGuards, ChatBrain

A text is the set of things a guard looks for: claims (`Claim`), requests, faults. What the turn did is a set
of outcomes. `DraftPasses`, `RepairPasses`, `PostCommitPasses`, `FollowsKnowledge`, `Issues` (`validateFinalResponse`), `MatchesState` are
the guards, each with the subset of rules the code gives it. `ChatBrain` walks `reply()`: `Interpret`, `Chat`, `Adopt` /
`ComposePostCommit` / `RepairDraft` / `FixedAnswer`, `AssessCoverage`, `CoverOpenQuestion`, `HandOverUnsupported`, `KeepWorkflow`, `CheckFacts`,
`GovernedEmpty`, `ValidateWording`, `ValidateRepair`, `FallBack`, `DeliverWording`, `Throw`. `calls` and `repairs` count model calls, `history` is
the last remembered turn, `paused` the pause for coverage.

### HybridLlm

`until` is `openAiDisabledUntil`; per call the attempt at each provider and whether the hedge timer is armed. An
attempt that has its answer first awaits its telemetry and then settles the call and moves the breaker, so an answer is two
steps (`OpenAiAnswers`, then `OpenAiSucceeds` / `OpenAiFails`). `quotaUntil`, `overlap`, `excused` are history.

### OperationsControl

`restarting` is the flag, per request the control point, the old processes `targets`, the new one `fresh`, `down` (a step
failed) and the address; `proc` the life of every process (booting, signalled while booting, running, stopping, dead), `lease` the holder
of each consumer's lease, which ends under a live holder as well (`LeaseExpires`; `lost` remembers whom it left), is refused or fails
to be renewed (`RenewalRefused`) and may fail to be given back (`Stopped`), `beat` the requests a heartbeat is fresh for; `up` the addresses whose
tunnel is up (`spared` those a restart left up because `ps` did not show them), `env`, `redis` the
remembered ones, `callback` the one Meta calls. `disturbed` holds the kinds of which `ps` missed a process, or one was killed
with its lease, crashed, or lost, could not renew or could not give back its lease. A request runs gateway, worker, follow-up worker and webhook in the
order of `restartConnections`: `ListProcesses`, `Terminate`, `Stopping`, `KillLate`, `Spawn` / `SpawnFails`, `IsReady` / `NotReady`, then
`ReadUrl`, `Probe`, `RestartTunnel`, `UpdateCallback`, `Subscribe`, `Record`, `Caught`.

## 3. Runs

Deadlock checks are off where the environment is bounded (events, takeovers, faults,
calls), so that the system really comes to rest. The order inbox never does: the customer can
always talk.

| run | instance | shows |
|---|---|---|
| `two_workers` | 2 text events, 2 workers, 1 part, 2 attempts, 1 takeover | `NoSilentAck`, `OrderBeforeReply`, `HumanKeepsConversation`, and `DeliversReplies` (implements `ReplyDelivery`) |
| `faults` | 1 event, 2 workers, 2 parts, 2 faults, 1 expired lease, 1 takeover | `CursorMatchesMeta`, `DuplicatesArePaidFor`, `UnknownNeverResent` |
| `settles` | an image, a receipt and a text, 1 worker, unnamed customer, 1 fault, 1 takeover, 1 lost enqueue; fairness | `LatestEventSettles` |
| `followups` | 2 workers, 1 message, 1 stage, 2 attempts; 1 takeover, 2 faults, 2 stalls; fairness | `CyclesAgree`, `FollowupsArePaidFor`, `EndIsFinal`, `TurnExcludesFollowup`, `DueJobSettles` |
| `orders` | 2 requests, 2 orders, 3 drafts, 1 lost answer, 1 fault | `TrackingSentOnce`, `ToldIsRecordedUnlessRaced`, `CancelledStays` |
| `llm_calls` | 3 calls, pauses of 2 and 1, 2 ticks; fairness | `OneFallback`, `RejectsOnlyExhausted`, `EveryCallSettles`, `SkipsUnlessOverlapped` |
| `operations` | 2 requests, 3 processes of a kind, 2 faults | `RecordedUrlIsRegistered`, `OneConsumer`, `OneRestart`, `HealthyUnlessDisturbed` |
| `comments` | 2 workers, one request to hide and one to show, 2 attempts, 1 move, 1 fault, 1 stall | `PartsAreAccountedFor`, `VerdictUnlessInterrupted`, `PiiIsHidden`, `VisibilityAgrees` |
| `chat` | 3 messages on Messenger, 2 in the demo, two delivery fields, a damaged parcel | `HandoffHasPapers`, `ConfirmedIsFilled`, `TotalIsQuoted`, `PendingOrderIsKept` |
| `brain` | one reply, every text of one thing and the pairs that matter | `ModelBudgetKept`, `HistoryIsWhatWasSaid`, `RefusedStaysUnsent`, `PauseIsTold` |
| `reading` | 2 turns, 1 retry each, 2 days, 1 day late, 10 facts, 11 messages, 12 texts, 12 readings, 2 proposals of facts | `SayableFactsAgree`, `CareFollowsReaction`, `LastWordDecides`, `RetryIsIdempotent` |
| `claim_memory` | 1 worker, 2 messages, 1 follow-up, no fault | a statement of the code the program does not keep, section 6 |

Why the bounds suffice. Two events give a burst, a batch regrouped under
another first event, a newer message at every point and a supersede; a third
event adds only longer bursts. Two workers give every race on lease and
version. Two parts give a cursor strictly between start and end. Two attempts
give one retry and one dead letter. One takeover can fall between any two steps;
the compare-and-swap makes a second one indistinguishable from an old version.
Two faults let a retry fail again. Faults, expired leases and lost
enqueues have a bound each, so that a property can say which of them it pays for.

For follow-ups: two workers race for one row; a second message of the same customer only
repeats the cancellation of the first; with one stage the only job closes the cycle. Two stalls let
both a lease and a claim run out under one holder. For
orders: two orders give a latest one and one out of sight, three
drafts a changed order beside a new one. For model calls: three calls are one whose failure pauses the provider, one
that was under way and one that comes inside the pause; the quota pause is the longer by one tick. For restarts:
two requests meet at the flag; the second also finds what the first left behind, and three processes are the one running and one for each
request; two faults are what it takes for two consumers to overlap (`ps` misses the old one and its lease ends under it). For comments: two requests cross each other and the worker. For chat: an order is
placed, changed or parked, and taken up again in three messages; one field that is checked (the address) and one that is
not; one care issue whose papers are a phone number and a photo, asked for one after the other (the longer lists, up to seven
papers, are of the same form but are not reached in three messages). For
replies: the guards are monotone (a fault more never makes a refused text pass) except where `MCChatBrain` adds the
pair. For readings: one message opens a case or puts a fact in the ledger, the second contradicts, repeats, outdates or dismisses it, and each may
be read once more; every predicate is told by some message, and three of the single-valued ones twice in one message. A message that contradicts itself in
two facts makes at most five claims and adds four when it is read again: a ledger of ten facts holds them, so that `RetryIsIdempotent` is not excused by a full ledger
in the first turn, and is cut in the second.

Conditions that matter. `UnknownNeverResent` holds
while no lease runs out under a working holder: `markConversationTurnOutboundSent`
(`postgres.ts:1375`) and `...Unknown` (`:1401`) write the caller's cursor
unconditionally, so a late worker moves it back. `DuplicatesArePaidFor` also says what is
left of the takeover race: between the check (`metaInboundProcessor.ts:859`)
and Meta's acceptance each worker has at most one part under way.
`NoSilentAck` has an honest exception: a text that shares a batch with an image
is acknowledged without `processed_at`. The hand-over to staff answers it, but the
dashboard counts it as pending for ever (`postgres.ts:275`). `HumanKeepsConversation` is checked for
a customer whose name is stored; section 6 says why.

`EndIsFinal` holds because every statement on a job is guarded by
`status = 'claimed'`, but the attempt is compared by one of them only
(`followupRepository.ts:422`): a worker past its claim's TTL writes its outcome
to the claim of its successor. That is what `FollowupsArePaidFor` counts, and why its part on doubtful sends
is stated for undisturbed follow-ups. So is its part on silent customers: a turn that
is retried after it scheduled its cycle cancels it as if the customer had
replied, then finds the anchor known and schedules nothing
(`followupRepository.ts:82`). `CyclesAgree` says nothing of completed
cycles: a last stage that is sent while an earlier one waits for its retry
leaves that job scheduled for ever, and the dashboard counts it as overdue.

`TrackingSentOnce` charges a second tracking message to a lost answer, which the route stores as a
plain failure (`server.ts:348`). A request that dies after its claim is charged
nothing: its row stays "sending" and nobody can claim it again
(`ClaimHasOneOwner`, proved, allows that after a fault). `ToldIsRecordedUnlessRaced` names the only way a
reply can confirm what the inbox does not hold: staff closing the order between
`canEditPending` and the reply.

`VerdictUnlessInterrupted` and `PiiIsHidden` speak of comments whose turn no crash, lost lease or move of the
conversation interrupted, because a resumed turn that finds its plan out of date or in doubt
(`metaInboundProcessor.ts:298`) neither hides nor judges. `VisibilityAgrees` excuses two changes that overlap (`crossed`): no request locks the row.
`SkipsUnlessOverlapped` excuses exactly the calls that were under way at the quota failure; without the excuse the
documentation's five minutes do not hold. `HealthyUnlessDisturbed` excuses a process that `ps` missed, that was killed with its lease, that crashed, or that lost, could not renew or
could not give back its lease: section 6 says what the page shows then. `OneConsumer` counts those who still work on their last batch, and excuses one whose
lease ended while it worked: it overlaps with its successor until it notices. `RecordedUrlIsRegistered` excuses an address whose tunnel a restart left up.
`TotalIsQuoted` speaks of turns, not of what happens between them. `CareFollowsReaction` excuses what the ledger or an earlier rule
answers first, and a model that proposed another case itself. `RetryIsIdempotent` speaks of a retry with the same proposals, and excuses a message that tells one single-valued
fact in two ways (`Contradicts`): each reading turns the fact over, and appends it again. `RefusedStaysUnsent` does not look into the receipt of `HandOverUnsupported`.

### Liveness and fairness

`FairSpec` assumes weak fairness of `Enqueue` (the next statement of the
webhook), of every worker's turn (a running process takes its next step; the
loop polls again after at most a second), strong fairness of `AcquireLease`
(a busy lease is retried for ever) and weak fairness of the expiry of a lease
whose holder is gone (the TTL). No fairness is assumed of staff, faults,
`PersistInbound` or of the outcome of a send.

`LatestEventSettles`: the latest event that reached the stream is in the end
acknowledged, dead-lettered or overtaken by a newer one. It is stated for the
latest event and checked with one worker because no more is true:
`hasNewerInboundContent` (`postgres.ts:1127`) counts events that are settled, so
an older event that comes back (reclaimed or retried after the newer
one was acknowledged) is superseded, left pending and read again, for ever.
With two workers this can starve an older event; with `LoseEnqueue` an event
that never reached the stream is never recovered.

`Followup`'s fairness: weak for the turn's steps and for the expiry of a lease
whose holder is gone (TTL), strong for `BeginTurn` (an entry is read again until
the lease is free), weak for claiming, refusing a busy conversation and
dispatching (a running process goes on), weak for `ReleaseStaleClaims` (called in
every pass of the loop) and strong for `StartJob`, since the lease may be taken
in between but comes back. None for `CustomerWrites`, staff, the clock or faults.
`DueJobSettles`: the job may settle by being sent, refused, failed, or because its cycle ended.

`HybridLlm`'s fairness: weak for timers, for the providers' answers (each runs under a timeout) and for
what follows the answer. None for the call itself or the clock. `EveryCallSettles` then says
that no interleaving leaves a call with two finished attempts and no outcome.

`OperationsControl` states none: a request's HTTP calls and its waits for processes have timeouts, but its reads of Redis and of the log
files and `ps` have none, so nothing in the code bounds a restart. `OneRestart` says instead that the flag never outlives the request that holds it.

## 4. Proofs

Every theorem holds for every number of processes, events, parts, stages, orders and faults, from
the named assumptions on the constants only: `ConstantsAssumption`, `FollowupAssumption`, `OrderAssumption`,
`LlmAssumption`, `OpsAssumption`, `CommentAssumption` (which wants finitely many workers, since its account of copies counts
them; the accounts of the other modules prove that the sets they count are finite), `ChatFlowAssumption`, and for
the brain that what the model may write are texts and what a turn may leave behind is consistent
(`WritingsAreTexts`, `OutcomesAreConsistent`), and `ReadingAssumption` for the reading of messages. TLC evaluates each in a run. Every strengthening named
below was checked by TLC before it was proved, but for one conjunct of `LedgerInv` that quantifies over all ledgers.

Two arguments recur. *One at a time*: where nothing disturbed a turn (no lease ran out under its holder), the lease keeps
every other process out, and the holder's locals agree with the rows. *Accounts*: a property "each copy beyond the first is
paid for by a fault or a stall" is not inductive, because a copy may be due long before it is made. The
invariant counts tokens: copies made, processes that may still make one without the lease, and one
more if the lease's holder, or the row for the next holder, may. Their sum is at most 1 plus what was paid.
`Account` says so, `Balanced` lists the ways in which a step keeps it so, `Balance` proves that they do, and a lemma per kind of step finds its way.

### Conversation turns

`TypeCorrect` (`Spec => []TypeOK`). `TypeOK` is not inductive: that an attempt
stays below the limit needs nothing more, but `GuardPart` indexes the parts by
`cursor + 1`, which is in range only because a worker inside the dispatch has a
row with `cursor <= parts`. `TypeInv` adds `Working` (what each control
point implies about the batch and the turn). `LeastElement` supplies the CHOOSE of
the batch's first event.

`TakeoverHolds` (`NameKnown => (Spec => HumanKeepsConversation)`), an action
property. The invariant `KnowsOwner`: a worker that is past the owner check either
holds a row whose version is old, so that its commit updates nothing, or one the bot
owns still. `NameKnown` is needed: without a stored name the
profile step reloads the row after the check and the takeover is overwritten (section 6).

`CursorBacked` (`Spec => []CursorMatchesMeta`). The invariant `CursorInv` says the same of
the cursors workers hold in memory: the stored cursor is only ever written
from one of these, so a late writer may move it back, but never past what Meta
accepted.

The others rest on `RowInv`: a committed row keeps its parts, version, sources and order, no version is ahead of the conversation's,
and a worker that is sending holds the version of its row. It is what makes a stored
version a name for what was committed with it.

`OrderPrecedesReply` (`Spec => []OrderBeforeReply`). `OrderInv`: the row and the worker's copy that have
the same version have the same order, whether the worker composed the reply or found it; and from the first part
on that order is in the inbox.

`NoMessageIsForgotten` (`Spec => []NoSilentAck`). `AckInv`: a worker that reached the end of its turn, or the dispatch of a
reply it composed, has settled every message of its batch, and a batch with an image comes to the commit only if its
turn has no row. Settled is never taken back, so batches may be regrouped at will.

`DoubtIsFinal` (`Spec => UnknownNeverResent`). `AloneInv`, one at a time: without stalls every worker in a turn holds the lease (`Alone`) and
its cursor is the stored one (`InStep`), so nobody writes a cursor back and nobody is about to send when a doubt is stored.

`RepliesAreDelivered` (`Spec /\ []Calm => DeliversReplies`): the turns implement `ReplyDelivery`. `[]Calm` confines it to behaviours
without faults and stalls, because `ReplyDelivery` promises each part once and the code does not after a crash
(`CopiesArePaidFor` says how often then). `ExactInv`: Meta holds every part up to the stored cursor once, and at most the next one, whose
outcome is in doubt or about to be stored. `CalmStep` maps every step to a plan, a send, a halt or a stutter.

`CopiesArePaidFor` (`Spec => []DuplicatesArePaidFor`), for any faults and stalls, by two accounts. `Budget`, per part: `Loose` workers are past the last
check of a lease they no longer hold; the account is `Open` while the holder, or the next one, can come to the part.
`LateBudget`, per reply: parts accepted after the version moved on are paid for by stalls alone, but for the one that was under way.

### Follow-ups

`FollowupTypeCorrect` (`Spec => []FollowupTypeOK`). Not inductive alone: `handled`
stays below `MaxMessages` because a turn under way has a message (`TurnBacked`).

`CyclesStayInAgreement` and `JobsStayEnded`. Every action changes the rows in one of
six ways (nothing, cancel the conversation, schedule a cycle, claim, recover, or settle
one claimed job, perhaps completing its cycle); one lemma classifies
the actions, one proves both properties for each way. The strengthening
`Unscheduled` says that a cycle which was never inserted has no jobs, so that
scheduling it cannot revive any.

`AnswersCancelFirst` (`Spec => TurnExcludesFollowup`). `WorkInv`: a worker holds one claim per job (`Shape`); and without
stalls a claim has no second owner and its job is not open to anybody else (`Sole`), the turn and every worker at a job hold
the lease (`UnderLease`), and a worker about to send has a claimed job unless staff took over (`Checked`). `Sole` is needed against other
workers (recovery, outcomes, new claims), `UnderLease` against the turn.

`DeparturesArePaidFor` (`Spec => []FollowupsArePaidFor`). `SendBudget` is an account of messages per job: tokens are with the workers that
have the claim and have not sent, and with the row while it may be claimed or recovered. `AttemptBudget` is one of attempts beyond the limit:
only a worker whose claim was within the limit, or that lost its lease, can leave a job to be tried again.
It opens when a claim brings the job to the limit, and what it opens with comes from `SendBudget` (`TriesAtLimit`). `Doubt`
and `Reasons` are the parts on undisturbed follow-ups: a send in doubt is the next thing its worker records, and a cycle that was scheduled
belongs to a message whose turn has ended or is about to.

### Orders

`TrackingIsSafe` (three invariants of the run at once), from `SendInv`: who
owns a row that is sending (`Owners`), what its send status says of the messages
Meta accepted (`Counted`: before an outcome is known only lost answers count) and of the
order (`Completed`). `CancellationHolds` follows from the same invariant.

`RepliesAreRecorded`, from `RecordInv`: the draft in the conversation is that of the order
placed last and never behind its row (`DraftIsLast`), so `canEditPending`, which
looks at the latest row only, looked at the right one; from the read to the push
that row can still be written or staff have come in between (`Pushable`), and
so the reply is backed (`ReplyBacked`).

### Comments

One invariant, `CommentInv`. `CopiesArePaidFor` is an account as above (`Budget`), with the difference that a late worker's record of an earlier
part may open the plan again, so such workers hold tokens of the later parts; its order of replies is `SentIsAccepted`. `CommentHasVerdict` and
`PersonalDataIsHidden` come from `FirstTry`, which follows the first undisturbed turn from step to step and says what row, plan and Meta have come to
(`Progress`); `Alone` keeps others out. `VisibilityIsShown` comes from `ChangesInOrder`: unless excused, one change at a time
is between Meta's answer and the row.

### Model calls and restarts

The theorems of `HybridLlm` come from one invariant, `LlmInv`: attempts at the fallback are
counted by its state (`Counted`), an idle or direct call has no attempt at OpenAI (`Shape`, which `RejectionIsExhausted`
needs: a direct call that fails has nobody left), and inside an undisturbed pause the breaker stands where the quota
failure set it while every attempt under way was under way then (`Undisturbed`). The last conjunct makes `PauseIsKept` an
action property: a new attempt needs `now >= until`, and inside the pause that is `quotaUntil`.

`OpsInv` of `OperationsControl`: one request at a time (`OneRestart`), which everything else needs. `WebhookIsRegistered`: a request that
records an address has found it remembered or has just given it to Meta, and no tunnel is up but the last one and those a restart spared
(`WebhookKnown`). `OneConsumerAtATime`: a process at work holds its consumer's lease or has lost it (`WorkersHoldLease`).
`HealthyIsReplaced`: of a kind nothing disturbed, ps found all that lived, they end before the new one starts, each frees its lease, and the new one finds it
free (`Replaced`).

### Chat flow

Some fifty branches write the session, all through the same few operations. A session is `Fit` to be the next if it has its type, its
case is `Reached` (every stage implies the answers asked for before it; `HandoffHasPapers` alone says nothing of the stages on the way), what
it confirmed is `Filled`, and a quote that was true is true. Every operation keeps a session `Fit`, every branch that only answers also `Keeps` a
pending order, and the four theorems follow from `TurnCommits`.

### Composing a reply

`BrainInv`: calls by stage (`Spent`; the bound of four alone does not say how many are left), the history is the workflow's answer until something
is delivered (`Remembered`), a wording at hand passed the guards of its origin and what goes out with leave the final check (`Guarded`), and the pause is set in the
step that tells it (`Told`). Since `Writings` and `Outcomes` are any sets, the theorems hold whatever the model writes.

### Reading a message

`RefusalDecides` and `ReactionsAreCared` are inductive as they stand, since plan and case are made in one step; their weight is in
the lemmas on the reconciliation. Stage by stage (`WithCareAdds`, `LaterCandidates`) they say what the rules add to the model's
proposals and what is refused again (`RefusalStands`, `CaseIsPlanned`), then what a plan makes of the rest (`PlanSettles`,
`PlanIssues`), and which rule of the route is the first to apply to an incident (`IncidentIsCared`, by `FirstRule`). So they hold for
every set of texts and readings, not only for those of the run.

The ledger needs an invariant. `SayableFactsAgree` speaks of the facts that may be said today, but a late message, or one read again,
supersedes facts by arrival. `LedgerInv`: the ledger has at most one current value per person and each of the five single-valued facts (`OneCurrent`),
and while a message is being answered the ledger is what this message made of some ledger that had. `LedgerHoldsTogether` proves it
inductive: `ClaimsAreClaims` gives the claims their type (`ToldIsSeq`, `ExtractedAreClaims`, `SemanticsAreClaims`), `Record` keeps one current value, and so does the fold over the claims.
`SayableAgrees` follows.

`RetriesAddNothing` is the second half of the invariant: a retry reads the message that made the ledger what it is (`Reread`). If no
two claims clash, every claim is known after the first reading and stays known (`KnownThroughout`), so the second one
adds nothing. If some clash, the facts of each single-valued kind are followed by themselves: from the first claim of the second reading
that is not known the two readings do the same to that kind (`SingleReread`), and end with the same current fact; other kinds are
unchanged (`OtherReread`). A ledger that was cut by `slice(-80)` is the third case.

`ReadingTypeCorrect` (`Spec => []ReadingTypeOK`): with `LedgerInv`, because a case and a quantity come from the candidates
(`CaseNamesIssue`, `PlanQuantity`), where every case has an issue and every quantity that stands is one that is sold.

The ledger after the claims of a message is a recursive function. What holds after every claim is proved with the set of
the naturals after which it holds: a set with 0 and all successors is `Nat` (`SetInduction`, from the well-founded order of the library),
which needs no operator as a parameter. Assumed of the constants is `ReadingAssumption`: messages,
texts and readings of the forms above, and days that begin after day 1, since day 0 stands for no day.

### Not proved

Liveness, since fairness and ENABLED are out of the prover's reach: `LatestEventSettles`, `DueJobSettles`, `EveryCallSettles`;
TLC checks them under the fairness of section 3. `DeliversReplies` is proved without faults and stalls and checked with the takeover
of `two_workers`. `FollowupStaysInHistory` is false (section 6). Every other property of the runs is stated by a theorem.

## 5. Not modelled

- Wording: prompts, style, contracts and knowledge tables (`domain/responseGuard.ts`, `responseContract.ts`,
  `stopirexKnowledge.ts`, ...), the patterns that recognise things in a message. A model of a table
  of phrases is the table; their verdicts are free choices.
- Code nothing imports: `orderSaga.ts` (tests only), `crmSync.ts`, `shipmentTracking.ts`, `retention.ts`, `experiments.ts`,
  `conversationRuntime.ts`, `pricingRepository.ts`. It never runs, so nothing can be said of what it does with the rest.
- Page management and OAuth: each operation is one row update after calls to Graph that return values. What its switches do to a
  turn is told in section 6.
- Pages, reports, telemetry, logging, signature checks, configuration: reads and I/O.
- In modelled components: how a worker picks among conversations; the three read-only checks of a restart; consultation
  slots; the in-memory list of care cases.

## 6. Findings

`claim_memory`: `markSent` appends the follow-up question to the stored session (`followupRepository.ts:342-380`, whose line 367 says it
"was sent and saved in the conversation history"), but `restoreSession` returns the worker's cached session when there is one
(`demoChat.ts:3229`), and the next commit overwrites the row with it. The question is lost, and the customer's answer is read
without it. Two more consequences of the cache: a turn that fails leaves its changes in the cached session, so its
retry applies the message twice (the comment at `metaInboundProcessor.ts:118-119` intends otherwise); two workers that alternate answer from
copies that lack each other's turns.

Seen while modelling, each from the lines cited, without a run of its own.

Turns and orders:

- For a customer without a stored name the row is reloaded after the owner check (`metaInboundProcessor.ts:439`); a takeover in
  between is overwritten by the commit. `docs/META_MESSENGER_SETUP.md:170-171` says the bot does not come back because the customer writes.
- A retried turn read together with a newer message finds the committed row, suppresses or finishes it and marks both
  processed (`:327`); the newer message is never answered.
- The owner check (`:234`) precedes the lookup of the committed reply (`:250`), so a reply that pauses the bot is not
  resumed after a temporary Meta error.
- The image turn's row names only images as sources (`:362`), so a later text of the same batch is "newer" and
  suppresses the acknowledgement of the image.
- A comment turn that is resumed after its conversation moved on is acknowledged without a verdict on its row, and personal
  data in it stays visible (`:298`); with a human in charge it is never hidden (`:234`).
- Follow-up claims are made for a whole batch and grow stale while their worker is busy; another worker's `releaseStaleClaims`
  schedules the job again, and `markSendFailure`, which writes only claimed rows (`followupRepository.ts:460`), drops
  `delivery_unknown`: the message is sent again. `followupDispatcher.ts:202` says "Never retry it automatically".
- Staff attach a number or cancel between `canEditPending` and the push; the upsert keeps the old draft
  (`orderInbox.ts:103`), the receipt is given all the same, and the customer reads that his change was saved.
- A message of a disabled page throws `meta_page_bot_disabled`, is retried without a back-off and dead-lettered at once.
  `connectAuthorizedPages` reports an error though earlier pages of the list were saved; pages imported from the environment are never subscribed.

Operations and model calls:

- A worker killed after 4 s keeps its 15 s process lease; its successor exits with `worker_consumer_already_active`, but the old
  heartbeat still makes the step healthy (`operationsControl.ts:171` takes it for the new one's). With compiled children `ps` shows `dist/`, while the
  restart looks for `src/*.ts`: the old process is never found. Without an error the plain `ps` is the only one asked (`:718`), which shows the processes of the
  service's own terminal, while children are spawned detached: a service started from a terminal misses the ones it started itself.
- The same list ends the old tunnel (`:697-714`). If it misses it, or `ps` fails, the old address goes on answering: when the new address was given to
  Meta but not remembered (a failed subscription or Redis write), the next restart finds the old one healthy, remembers it, and never asks which address Meta calls.
- A worker whose lease ends under it (`worker.ts:98-116`, `followupWorker.ts:76-85`) finishes its batch beside its successor. A failed release of the lease is
  passed over (`worker.ts:289`, `followupWorker.ts:161`): the successor exits as "already active" while the old heartbeat may still make the step healthy. A second
  SIGTERM finds no handler (`process.once`) and kills a worker that is finishing its batch, with its lease.
- `README.md` of the repository says the breaker skips OpenAI for five minutes after a quota error; a call that was under way then and
  fails for another reason, or succeeds, shortens that.

The chat flow:

- A cancellation replies "đã hủy toàn bộ đơn" (`demoChat.ts:1094`), but the row of `order_inbox` stays pending. The same draft confirmed twice is inserted
  twice (`:2192-2202`, `:1289-1298`, `orderInbox.ts:79`).
- `orderMutationAllowed` (`:408`) is not looked at by the recap with correction, the hand-over with quantity, the fallback's quantity and the conditional
  purchase. An editable order can be pushed with an incomplete address.
- A coverage pause in the turn that completes an order moves the pipeline to C3, so `pushCreatedOrder` skips it.
- A pause inside a pause overwrites `previousSalesPipeline` (`:1024`, `:3043-3059`, `:5154-5164`); a boundary deletes it while a case is open.
- A new episode may keep the pipeline "6" or "C3" with an empty history; it and a follow-up change the free-shipping approval
  without the total, which `currentOrderTransaction` (`:9152-9162`) would refuse.
- Stage C4 only repeats its question. "địa chỉ cũ" alone restores the latest complete address, usually the current one (`:8206-8251`);
  addresses from `applySemanticOrderUpdates` never enter the history it looks in, and `mergeOrderData` appends to an address it should replace.
- `reconcileOrderMutations` (`conversationTransaction.ts:210-219`) keeps the first position of a field with its last value.

Reading a message:

- The ledger's answer (`demoChat.ts:969-1000`) comes before the care route although the comment at `:1002-1004` means it to be safe: a present reaction of the customer,
  told with "da mình bình thường" and an earlier reaction to another product, is answered as not Stopirex's and its case dismissed. So is one told together with a corrected
  day of hair removal (`conversationFacts.ts:667`) or with "không xót" after waxing (`:658`): the customer is told the day or that nothing stung, and no case is opened. Recaps dismiss an open case as well.
- `docs/CONVERSATION_FACT_LEDGER.md:36` says the planner must not take over an order's recap or correction. `orderSupportQuestion`
  (`conversationFacts.ts:452`) guards three of the sixteen answers; "sửa lại số điện thoại ..., hôm nay mới cạo" is answered with the day of hair removal. The data are recorded
  (`demoChat.ts:635`), but the turn ends with that answer and the order does not go on.
- A proposal of the model that is refused still suppresses the rules' own (`conversationActions.ts`: care, opt-out, quantity, decline); `semantic.subject` "product" blocks
  the rules' care; an "ineffective" case proposed by the model makes care non-interrupting although irritation is accepted too. Two quantities can both be accepted.
- `asksDirectAnswer` in `resolveConversationDecision` is dead; the model's `stop_bot` alone does not route to opt-out; `interruptActiveCare` needs no incident.
- The ledger: "hôm nay" of hair removal is recapped days later; gym and skin claims ignore that they are quoted or hypothetical; bare "đỏ" or "rất" counts for the
  classifier but not the extractor, so a case opens with no fact; multi-valued facts keep contradictory values; `slice(-80)` may evict current facts; an older
  message processed late replaces newer facts. A message that tells one single-valued fact with two values (little odor to the patterns, much to the
  model) or as present and as past (the patterns
  take skin as it was for skin as it is, the model does not) has two claims that supersede each other (`conversationFacts.ts:229`): each retry of the
  turn appends both again.

Composing a reply:

- The emergency text for a severe reaction (`demoChat.ts:1042`) says the team has been told. The final check takes that for a hand-over, receipts for it are never
  given (`metaChatBrain.ts:2133-2143`), so the turn is committed blocked and the customer gets no answer; the comment at `metaChatBrain.ts:639-641` calls it complete and safe.
- Receipts of orders and shipments (`:2160-2182`) lack the fields the check wants, so a statement that an order was created is blocked even in the turn that creates it.
- The coverage fallback repeats a quantity chosen in an earlier turn, which needs a receipt of this turn: the text is blocked while the session is already paused, and the customer is told nothing.
- Under the style policy "warn" a style fault returns before the checks of helpfulness and shape (`codexLlm.ts:599-709`). With a response contract, which is always given, the
  guards of critical direction, price catalogue and turn facts are not run.
- `HandOverUnsupported` (`metaChatBrain.ts:910-943`) sends the model's draft even when a guard refused it, a promise of free shipping for one. A throw in replacing the history leaves the session changed.
