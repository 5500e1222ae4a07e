--------------------------- MODULE CommentWorkflow ---------------------------
(***************************************************************************)
(* One public comment on a page's post: the turn that answers it in public *)
(* and in private (metaInboundProcessor.ts), the row of table              *)
(* meta_comment_workflows, and the staff's requests to hide or show the    *)
(* comment (server.ts).                                                    *)
(*                                                                         *)
(* A comment is a batch of its own. It takes the lease of its customer, as *)
(* Messenger batches do, and its plan is bound to the state_version of the *)
(* Messenger conversation, which it reads and never moves.                 *)
(*                                                                         *)
(* Abstracted: texts, category and priority (a plan is two parts); the     *)
(* brain, whose answer is authorized or not; the Messenger turns of the    *)
(* customer, one action here (see ConversationTurn).                       *)
(***************************************************************************)
EXTENDS Naturals, FiniteSets

CONSTANTS
  Workers, NoWorker,
  Staff,          \* requests of the comments page
  Hides,          \* those that hide the comment; the others show it
  LiveSend,       \* META_LIVE_SEND_ENABLED
  MaxAttempts,    \* META_INBOUND_MAX_ATTEMPTS
  MaxMoves,       \* bound: Messenger turns and takeovers of the customer
  MaxFaults,      \* bound: crashes and failed calls of workers
  MaxStalls       \* bound: leases that run out, entries reclaimed, under a
                  \* working holder

ASSUME CommentAssumption ==
  /\ NoWorker \notin Workers /\ IsFiniteSet(Workers)
  /\ Hides \subseteq Staff
  /\ LiveSend \in BOOLEAN
  /\ MaxAttempts \in Nat \ {0}
  /\ MaxMoves \in Nat /\ MaxFaults \in Nat /\ MaxStalls \in Nat

VARIABLES
  pii,        \* the comment shows a phone number or an address
  entry,      \* its stream entry: live, acked or dead
  attempt,    \* attempt of the live entry
  owner,      \* consumer whose pending list holds it
  lease,      \* holder of lease:meta:<page>:<sender>
  conv,       \* human_status and state_version of the Messenger conversation
  row,        \* meta_comment_workflows: status, message ids, is_hidden
  outbox,     \* the meta.reply row of the turn
  processed,  \* processed_at of the event is set
  pc,         \* per worker: control
  held,       \* per worker: attempt of the entry it works on
  seen,       \* per worker: conversation it loaded
  cursor,     \* per worker: parts of the plan already sent, in memory
  resumed,    \* per worker: the plan was found, not composed
  retried,    \* per worker: a state conflict was already retried
  page,       \* per staff request: control
  accepted,   \* at Meta: copies of the public and the private reply
  hidden,     \* at Meta: the comment is hidden
  refused,    \* history: Meta did not confirm a change of visibility
  crossed,    \* history: two changes of visibility were under way at once
  moves, faults, stalls  \* bounded counters of the environment

queueVars == <<entry, attempt, owner>>
storeVars == <<conv, row, outbox, processed>>
localVars == <<held, seen, cursor, resumed, retried>>
metaVars == <<accepted, hidden, refused, crossed>>
envVars == <<moves, faults, stalls>>
vars == <<pii, queueVars, lease, storeVars, pc, localVars, page, metaVars,
          envVars>>

Conversation == [human : {"bot", "human", "paused"}, version : Nat]
NewConversation == [human |-> "bot", version |-> 0]

Parts == {1, 2}  \* the public reply, the private reply

\* committed FALSE stands for no row.
Plan == [committed : BOOLEAN, version : Nat, sent : 0..2,
         unknown : BOOLEAN]
NoPlan == [committed |-> FALSE, version |-> 0, sent |-> 0, unknown |-> FALSE]

Status == {"none", "received", "processing", "partial", "replied", "failed",
           "paused"}
Row == [status : Status, told : SUBSET Parts, hidden : BOOLEAN]

Steps == {"idle", "lease", "load", "paused", "find", "compose", "denied",
          "commit", "prepare", "guard", "send", "record", "part", "unknown",
          "issue", "suppress", "settle", "done"}
\* Hiding the comment, before the parts are sent or when they were refused.
Hide == {"hide", "hide refused"}
Mark == {"mark", "mark refused"}

\* Every variable has its type.
CommentTypeOK ==
  /\ pii \in BOOLEAN
  /\ entry \in {"live", "acked", "dead"}
  /\ attempt \in 0..(MaxAttempts - 1)
  /\ owner \in Workers \cup {NoWorker} /\ lease \in Workers \cup {NoWorker}
  /\ conv \in Conversation /\ row \in Row /\ outbox \in Plan
  /\ processed \in BOOLEAN
  /\ pc \in [Workers -> Steps \cup Hide \cup Mark]
  /\ held \in [Workers -> Nat] /\ seen \in [Workers -> Conversation]
  /\ cursor \in [Workers -> 0..2]
  /\ resumed \in [Workers -> BOOLEAN] /\ retried \in [Workers -> BOOLEAN]
  /\ page \in [Staff -> {"idle", "call", "store", "end"}]
  /\ accepted \in [Parts -> Nat]
  /\ hidden \in BOOLEAN /\ refused \in BOOLEAN /\ crossed \in BOOLEAN
  /\ moves \in 0..MaxMoves /\ faults \in 0..MaxFaults
  /\ stalls \in 0..MaxStalls

Init ==
  /\ pii \in BOOLEAN
  /\ entry = "live" /\ attempt = 0 /\ owner = NoWorker /\ lease = NoWorker
  /\ conv = NewConversation
  /\ row = [status |-> "none", told |-> {}, hidden |-> FALSE]
  /\ outbox = NoPlan /\ processed = FALSE
  /\ pc = [w \in Workers |-> "idle"]
  /\ held = [w \in Workers |-> 0]
  /\ seen = [w \in Workers |-> NewConversation]
  /\ cursor = [w \in Workers |-> 0]
  /\ resumed = [w \in Workers |-> FALSE]
  /\ retried = [w \in Workers |-> FALSE]
  /\ page = [s \in Staff |-> "idle"]
  /\ accepted = [p \in Parts |-> 0]
  /\ hidden = FALSE /\ refused = FALSE /\ crossed = FALSE
  /\ moves = 0 /\ faults = 0 /\ stalls = 0

Goto(w, l) == pc' = [pc EXCEPT ![w] = l]
\* Where the turn goes on after hiding the comment.
AfterHide(w) == IF pc[w] \in {"hide", "mark"} THEN "guard" ELSE "settle"

Forget(w) ==
  /\ Goto(w, "idle")
  /\ held' = [held EXCEPT ![w] = 0]
  /\ seen' = [seen EXCEPT ![w] = NewConversation]
  /\ cursor' = [cursor EXCEPT ![w] = 0]
  /\ resumed' = [resumed EXCEPT ![w] = FALSE]
  /\ retried' = [retried EXCEPT ![w] = FALSE]

Release(w) == lease' = IF lease = w THEN NoWorker ELSE lease
Fault == faults < MaxFaults /\ faults' = faults + 1

-----------------------------------------------------------------------------
(* The rest of the world *)

\* A Messenger turn of the customer, under the lease, or a takeover by staff,
\* who take none; both move the version.
MessengerMoves ==
  /\ moves < MaxMoves
  /\ moves' = moves + 1
  /\ \E human \in {"bot", "human", "paused"} :
       /\ human = "human" \/ (lease = NoWorker /\ conv.human = "bot")
       /\ conv' = [human |-> human, version |-> conv.version + 1]
  /\ UNCHANGED <<pii, queueVars, lease, row, outbox, processed, pc, localVars,
                 page, metaVars, faults, stalls>>

\* The renewal fails or comes too late.
ExpireLease(w) ==
  /\ lease = w
  /\ lease' = NoWorker
  /\ IF pc[w] \in {"idle", "lease"} THEN stalls' = stalls
     ELSE stalls < MaxStalls /\ stalls' = stalls + 1
  /\ UNCHANGED <<pii, queueVars, storeVars, pc, localVars, page, metaVars,
                 moves, faults>>

-----------------------------------------------------------------------------
(* Worker: see ConversationTurn for the queue *)

\* A free entry, one's own again, or one reclaimed from another consumer: one
\* that died or, a stall of its own, one that takes too long.
ReadGroup(w) ==
  /\ pc[w] = "idle" /\ entry = "live"
  /\ IF owner \in Workers \ {w} /\ pc[owner] # "idle"
     THEN stalls < MaxStalls /\ stalls' = stalls + 1 ELSE stalls' = stalls
  /\ owner' = w
  /\ held' = [held EXCEPT ![w] = attempt]
  /\ Goto(w, "lease")
  /\ UNCHANGED <<pii, entry, attempt, lease, storeVars, seen, cursor, resumed,
                 retried, page, metaVars, moves, faults>>

AcquireLease(w) ==
  /\ pc[w] = "lease" /\ lease = NoWorker
  /\ lease' = w
  /\ Goto(w, "load")
  /\ UNCHANGED <<pii, queueVars, storeVars, localVars, page, metaVars, envVars>>

LeaseBusy(w) ==
  /\ pc[w] = "lease" /\ lease # NoWorker
  /\ Forget(w)
  /\ UNCHANGED <<pii, queueVars, lease, storeVars, page, metaVars, envVars>>

Mine(w) == entry = "live" /\ attempt = held[w]

Exhausted(max) == attempt + 1 >= max

RetryOrDeadLetter(w, max) ==
  /\ IF ~Mine(w) THEN UNCHANGED queueVars
     ELSE /\ owner' = NoWorker
          /\ IF Exhausted(max) THEN entry' = "dead" /\ attempt' = attempt
             ELSE entry' = "live" /\ attempt' = attempt + 1
  /\ Forget(w) /\ Release(w)

Acknowledge(w) ==
  /\ pc[w] = "done" /\ lease = w
  /\ entry' = IF Mine(w) THEN "acked" ELSE entry
  /\ Forget(w) /\ Release(w)
  /\ UNCHANGED <<pii, attempt, owner, storeVars, page, metaVars, envVars>>

LeaseLostAtEnd(w) ==
  /\ pc[w] = "done" /\ lease # w
  /\ RetryOrDeadLetter(w, MaxAttempts)
  /\ UNCHANGED <<pii, storeVars, page, metaVars, envVars>>

\* All parts sent, or the plan belongs to another version.
PlanOver(w) == cursor[w] = 2 \/ outbox.version # seen[w].version

\* assertLease runs before the resumed plan, the commit, what follows the
\* commit, and each part.
Asserting(w) ==
  \/ pc[w] \in {"commit", "prepare"}
  \/ pc[w] = "find" /\ outbox.committed
  \/ pc[w] = "guard" /\ ~PlanOver(w)

AbandonTurn(w) ==
  /\ Asserting(w) /\ lease # w
  /\ Forget(w)
  /\ UNCHANGED <<pii, queueVars, lease, storeVars, page, metaVars, envVars>>

\* SIGTERM makes the next assertLease throw the same error; the lease is freed.
StopWorker(w) ==
  /\ Asserting(w) /\ lease = w
  /\ Fault
  /\ Forget(w) /\ Release(w)
  /\ UNCHANGED <<pii, queueVars, storeVars, page, metaVars, moves, stalls>>

CrashWorker(w) ==
  /\ pc[w] # "idle"
  /\ Fault
  /\ Forget(w)
  /\ UNCHANGED <<pii, queueVars, lease, storeVars, page, metaVars, moves,
                 stalls>>

\* A store, Redis, page-lookup or brain call throws.
CallFails(w) ==
  /\ pc[w] \notin {"idle", "lease", "send"} /\ pc[w] \notin Hide
  /\ Fault
  /\ RetryOrDeadLetter(w, MaxAttempts)
  /\ UNCHANGED <<pii, storeVars, page, metaVars, moves, stalls>>

-----------------------------------------------------------------------------
(* Processor: from the comment to a committed plan *)

\* Mutant: only a comment that is new becomes an issue.
IssueIfNew(status) ==
  row' = IF row.status = "received" THEN [row EXCEPT !.status = status] ELSE row
\* markMetaCommentIssue, whatever the row's status is.
Issue(status) == row' = [row EXCEPT !.status = status]

\* ensureMessengerConversation and upsertMetaCommentReceived, which keeps the
\* status of a row it finds, then the early returns.
LoadComment(w) ==
  /\ pc[w] = "load"
  /\ seen' = [seen EXCEPT ![w] = conv]
  /\ row' = [row EXCEPT !.status = IF @ = "none" THEN "received" ELSE @]
  /\ Goto(w, IF ~LiveSend THEN "settle"
             ELSE IF conv.human # "bot" THEN "paused" ELSE "find")
  /\ UNCHANGED <<pii, queueVars, lease, conv, outbox, processed, held, cursor,
                 resumed, retried, page, metaVars, envVars>>

PauseForHuman(w) ==
  /\ pc[w] = "paused"
  /\ Issue("paused")
  /\ Goto(w, "settle")
  /\ UNCHANGED <<pii, queueVars, lease, conv, outbox, processed, localVars,
                 page, metaVars, envVars>>

Resumable(w) ==
  /\ outbox.sent < 2 /\ ~outbox.unknown
  /\ outbox.version = seen[w].version

\* The plan exists: go on with it, or leave it and the row as they are.
ResumeOutbound(w) ==
  /\ pc[w] = "find" /\ outbox.committed /\ lease = w
  /\ resumed' = [resumed EXCEPT ![w] = TRUE]
  /\ cursor' = [cursor EXCEPT ![w] = outbox.sent]
  /\ Goto(w, IF Resumable(w) THEN "guard" ELSE "settle")
  /\ UNCHANGED <<pii, queueVars, lease, storeVars, held, seen, retried, page,
                 metaVars, envVars>>

\* The profile lookup may reload the conversation; the brain, or the chat
\* alone for a comment that says nothing, gives an answer that may be sent in
\* public, or not.
Compose(w) ==
  /\ pc[w] = "find" /\ ~outbox.committed
  /\ seen' \in {seen, [seen EXCEPT ![w] = conv]}
  /\ Goto(w, "commit") \/ Goto(w, "denied")
  /\ UNCHANGED <<pii, queueVars, lease, storeVars, held, cursor, resumed,
                 retried, page, metaVars, envVars>>

\* Mutant: a plan that is refused is not looked at for personal data.
HideOnReply(w, step, next) == IF pii /\ step = "hide" THEN step ELSE next
\* autoHide of the plan: personal data in the comment.
HideFirst(w, step, next) == IF pii THEN step ELSE next

\* No delivery authorization: nothing is committed.
Deny(w) ==
  /\ pc[w] = "denied"
  /\ Issue("paused")
  /\ Goto(w, HideFirst(w, "hide refused", "settle"))
  /\ UNCHANGED <<pii, queueVars, lease, conv, outbox, processed, localVars,
                 page, metaVars, envVars>>

\* commitConversationTurn with preserveConversationState: the version is
\* compared and kept.
CommitPlan(w) ==
  /\ pc[w] = "commit" /\ lease = w
  /\ conv.version = seen[w].version
  /\ outbox' = IF outbox.committed THEN outbox
               ELSE [NoPlan EXCEPT !.committed = TRUE, !.version = conv.version]
  /\ processed' = TRUE
  /\ cursor' = [cursor EXCEPT ![w] = outbox'.sent]
  /\ Goto(w, "prepare")
  /\ UNCHANGED <<pii, queueVars, lease, conv, row, held, seen, resumed, retried,
                 page, metaVars, envVars>>

StateConflict(w) ==
  /\ pc[w] = "commit" /\ lease = w /\ conv.version # seen[w].version
  /\ IF retried[w] THEN RetryOrDeadLetter(w, MaxAttempts)
     ELSE /\ retried' = [retried EXCEPT ![w] = TRUE]
          /\ Goto(w, "load")
          /\ UNCHANGED <<queueVars, lease, held, seen, cursor, resumed>>
  /\ UNCHANGED <<pii, storeVars, page, metaVars, envVars>>

StatusPrepared(status) == IF status = "replied" THEN status ELSE "processing"

PrepareReplies(w) ==
  /\ pc[w] = "prepare" /\ lease = w
  /\ row' = [row EXCEPT !.status = StatusPrepared(@)]
  /\ Goto(w, HideFirst(w, "hide", "guard"))
  /\ UNCHANGED <<pii, queueVars, lease, conv, outbox, processed, localVars,
                 page, metaVars, envVars>>

-----------------------------------------------------------------------------
(* Hiding the comment *)

Changing == {w \in Workers : pc[w] \in Hide \cup Mark}
Asking == {s \in Staff : page[s] \in {"call", "store"}}

\* setCommentHidden returns: done, done with its answer lost, or refused.
\* known says whether the caller goes on to store it.
SetCommentHidden(value, known) ==
  /\ \/ known /\ hidden' = value /\ refused' = refused
     \/ ~known /\ hidden' \in {hidden, value} /\ refused' = TRUE

\* Two changes overlap when one is asked of Meta before the other is stored.
Cross(others) == crossed' = (crossed \/ others # {})

AutoHide(w) ==
  /\ pc[w] \in Hide
  /\ \E known \in BOOLEAN :
       /\ SetCommentHidden(TRUE, known)
       /\ Goto(w, IF ~known THEN AfterHide(w)
                  ELSE IF pc[w] = "hide" THEN "mark" ELSE "mark refused")
  /\ Cross(Asking \cup (Changing \ {w}))
  /\ UNCHANGED <<pii, queueVars, lease, storeVars, localVars, page, accepted,
                 envVars>>

MarkHidden(w) ==
  /\ pc[w] \in Mark
  /\ row' = [row EXCEPT !.hidden = TRUE]
  /\ Goto(w, AfterHide(w))
  /\ UNCHANGED <<pii, queueVars, lease, conv, outbox, processed, localVars,
                 page, metaVars, envVars>>

\* POST .../visibility: nothing to do if the row agrees already.
Unchanged(s) == row.hidden = (s \in Hides)

RequestVisibility(s) ==
  /\ page[s] = "idle" /\ row.status # "none"
  /\ page' = [page EXCEPT ![s] = IF Unchanged(s) THEN "end" ELSE "call"]
  /\ Cross(IF Unchanged(s) THEN {} ELSE Asking \cup Changing)
  /\ UNCHANGED <<pii, queueVars, lease, storeVars, pc, localVars, accepted,
                 hidden, refused, envVars>>

CallVisibility(s) ==
  /\ page[s] = "call"
  /\ \E known \in BOOLEAN :
       /\ SetCommentHidden(s \in Hides, known)
       /\ page' = [page EXCEPT ![s] = IF known THEN "store" ELSE "end"]
  /\ UNCHANGED <<pii, queueVars, lease, storeVars, pc, localVars, accepted,
                 crossed, envVars>>

\* Mutant: a comment shown again stays hidden in the row.
EverHidden(s) == row.hidden \/ s \in Hides
VisibilityOf(s) == s \in Hides

StoreVisibility(s) ==
  /\ page[s] = "store"
  /\ row' = [row EXCEPT !.hidden = VisibilityOf(s)]
  /\ page' = [page EXCEPT ![s] = "end"]
  /\ UNCHANGED <<pii, queueVars, lease, conv, outbox, processed, pc, localVars,
                 metaVars, envVars>>

-----------------------------------------------------------------------------
(* Processor: dispatching the two parts *)

CanDispatch(w) ==
  conv.version = seen[w].version /\ conv.human # "human"

AfterDispatch(w) == IF resumed[w] THEN "settle" ELSE "done"

\* Before each part: lease, authorization, state version and owner.
GuardPart(w) ==
  /\ pc[w] = "guard"
  /\ IF PlanOver(w)
     THEN Goto(w, AfterDispatch(w))
     ELSE /\ lease = w
          /\ Goto(w, IF CanDispatch(w) THEN "send" ELSE "suppress")
  /\ UNCHANGED <<pii, queueVars, lease, storeVars, localVars, page, metaVars,
                 envVars>>

\* markMetaCommentIssue(paused) after the loop.
Suppress(w) ==
  /\ pc[w] = "suppress"
  /\ Issue("paused")
  /\ Goto(w, AfterDispatch(w))
  /\ UNCHANGED <<pii, queueVars, lease, conv, outbox, processed, localVars,
                 page, metaVars, envVars>>

\* sendCommentOutbound: the first part is the public reply. A private reply
\* that Meta refuses with 400 or 404 is offered once more by another endpoint,
\* with the same outcomes.
Accept(w) == accepted' = [accepted EXCEPT ![cursor[w] + 1] = @ + 1]

SendPart(w) ==
  /\ pc[w] = "send"
  /\ \/ Accept(w) /\ Goto(w, "record")
     \/ (Accept(w) \/ UNCHANGED accepted) /\ Goto(w, "unknown")  \* answer lost
     \/ UNCHANGED accepted /\ Goto(w, "issue")                \* refused
  /\ UNCHANGED <<pii, queueVars, lease, storeVars, localVars, page, hidden,
                 refused, crossed, envVars>>

\* RetryableMetaSendError keeps the retry budget, MetaSendError allows one try.
SendFailed(w) ==
  /\ pc[w] = "issue"
  /\ Issue("failed")
  /\ \E max \in {1, MaxAttempts} : RetryOrDeadLetter(w, max)
  /\ UNCHANGED <<pii, conv, outbox, processed, page, metaVars, envVars>>

\* The outbox row is held; the comment's row is not told.
MarkOutboundUnknown(w) ==
  /\ pc[w] = "unknown"
  /\ outbox' = [outbox EXCEPT !.unknown = TRUE, !.sent = cursor[w]]
  /\ RetryOrDeadLetter(w, MaxAttempts)
  /\ UNCHANGED <<pii, conv, row, processed, page, metaVars, envVars>>

MarkPartSent(w) ==
  /\ pc[w] = "record"
  /\ outbox' = [outbox EXCEPT !.sent = cursor[w] + 1]
  /\ cursor' = [cursor EXCEPT ![w] = @ + 1]
  /\ Goto(w, "part")
  /\ UNCHANGED <<pii, queueVars, lease, conv, row, processed, held, seen,
                 resumed, retried, page, metaVars, envVars>>

\* Mutant: any part makes a reply.
RepliedByAny(told) == IF told # {} THEN "replied" ELSE "partial"
StatusOf(told) == IF told = Parts THEN "replied" ELSE "partial"

MarkCommentPartSent(w) ==
  /\ pc[w] = "part"
  /\ row' = [row EXCEPT !.told = @ \cup {cursor[w]},
               !.status = StatusOf(row.told \cup {cursor[w]})]
  /\ Goto(w, "guard")
  /\ UNCHANGED <<pii, queueVars, lease, conv, outbox, processed, localVars,
                 page, metaVars, envVars>>

MarkProcessed(w) ==
  /\ pc[w] = "settle"
  /\ processed' = TRUE
  /\ Goto(w, "done")
  /\ UNCHANGED <<pii, queueVars, lease, conv, row, outbox, localVars, page,
                 metaVars, envVars>>

-----------------------------------------------------------------------------
Turn(w) ==
  \/ ReadGroup(w) \/ AcquireLease(w) \/ LeaseBusy(w)
  \/ LoadComment(w) \/ PauseForHuman(w) \/ ResumeOutbound(w) \/ Compose(w)
  \/ Deny(w) \/ CommitPlan(w) \/ StateConflict(w) \/ PrepareReplies(w)
  \/ AutoHide(w) \/ MarkHidden(w)
  \/ GuardPart(w) \/ Suppress(w) \/ SendPart(w) \/ SendFailed(w)
  \/ MarkOutboundUnknown(w) \/ MarkPartSent(w) \/ MarkCommentPartSent(w)
  \/ MarkProcessed(w) \/ Acknowledge(w) \/ LeaseLostAtEnd(w) \/ AbandonTurn(w)

Request(s) == RequestVisibility(s) \/ CallVisibility(s) \/ StoreVisibility(s)

Next ==
  \/ MessengerMoves
  \/ \E w \in Workers :
       Turn(w) \/ ExpireLease(w) \/ StopWorker(w) \/ CrashWorker(w) \/ CallFails(w)
  \/ \E s \in Staff : Request(s)

Spec == Init /\ [][Next]_vars

-----------------------------------------------------------------------------
Undisturbed == faults = 0 /\ stalls = 0

\* The customer gets the public reply before the private one, a comment whose
\* row says replied has both, and a part is repeated only if a worker crashed,
\* failed or outlived its lease (dispatchOutbound, markMetaCommentPartSent).
PartsAreAccountedFor ==
  /\ accepted[2] > 0 => accepted[1] > 0
  /\ row.status = "replied" => \A p \in Parts : accepted[p] > 0
  /\ \A p \in Parts : accepted[p] <= 1 + faults + stalls

\* A comment that leaves the queue tells staff how it ended, replied, paused or
\* failed, unless its turn was interrupted: a retry that finds the plan out of
\* date or in doubt acknowledges the entry and leaves the row as it was.
VerdictUnlessInterrupted ==
  (entry = "acked" /\ attempt = 0 /\ Undisturbed /\ LiveSend)
    => row.status \in {"replied", "paused"}

\* A comment with personal data that the bot has answered or declined to answer
\* has been hidden on the page, unless Meta refused, staff asked otherwise or a
\* turn was interrupted; with a human in charge it is left alone (autoHide).
PiiIsHidden ==
  (pii /\ entry = "acked" /\ attempt = 0 /\ Undisturbed /\ ~refused)
    => \/ hidden \/ ~LiveSend \/ conv.human # "bot"
       \/ \E s \in Staff \ Hides : page[s] # "idle"

\* What the comments page shows agrees with Meta once nobody is changing it,
\* unless two changes overlapped, Meta's answer was lost or a worker died: no
\* request locks the row between Meta's answer and its update.
VisibilityAgrees ==
  (Changing = {} /\ Asking = {} /\ ~refused /\ ~crossed /\ Undisturbed)
    => row.hidden = hidden
=============================================================================
