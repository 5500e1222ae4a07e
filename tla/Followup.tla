------------------------------ MODULE Followup ------------------------------
(***************************************************************************)
(* The follow-ups of one Messenger conversation.                           *)
(*                                                                         *)
(*   repository (followupRepository.ts)  a cycle per quoted reply, a job   *)
(*                         per stage of the cycle (3h, 6h, 9h), in rows;   *)
(*   workers    (followupWorker.ts)      claim due jobs in batches, take   *)
(*                         the conversation lease for each, recover claims *)
(*                         that grew stale;                                *)
(*   dispatcher (followupDispatcher.ts)  judges the claim twice, composes, *)
(*                         sends and records the outcome;                  *)
(*   turns      (metaInboundProcessor.ts) of the customer's messages       *)
(*                         cancel the cycle and may schedule the next one; *)
(*                         ConversationTurn has their detail;              *)
(*   staff      take the conversation over.                                *)
(*                                                                         *)
(* Abstracted: texts, back-off delays (a job that waits for its retry is   *)
(* due), bursts of messages, other conversations in a batch. Left out: the *)
(* clauses of both eligibility checks that nothing here can change (an     *)
(* order exists, the page is off, the customer is deleted).                *)
(***************************************************************************)
EXTENDS Naturals, FiniteSets

CONSTANTS
  FollowupWorkers,   \* follow-up worker processes
  Inbound,           \* the inbound worker, as a holder of the lease
  NoOne,
  NStages,           \* stages of a cycle (3 in the code); the last closes it
  MaxMessages,       \* bound: messages of the customer, each with its turn
  MaxAttempts,       \* FOLLOWUP_MAX_ATTEMPTS
  MaxTakeovers,      \* bound: human takeovers
  MaxFaults,         \* bound: crashes and failed calls
  MaxStalls          \* bound: leases and claims that outlive their TTL while
                     \* the holder works

ASSUME FollowupAssumption ==
  /\ NStages \in Nat \ {0} /\ MaxMessages \in Nat \ {0}
  /\ MaxAttempts \in Nat \ {0} /\ MaxTakeovers \in Nat
  /\ MaxFaults \in Nat /\ MaxStalls \in Nat
  /\ NoOne \notin FollowupWorkers /\ Inbound \notin FollowupWorkers
  /\ Inbound # NoOne

Stage == 1..NStages
\* A cycle is known by the message whose reply anchors it.
Cycle == 1..MaxMessages
Job == Cycle \X Stage
Terminal == {"sent", "cancelled", "failed", "shadowed", "delivery_unknown"}
Open == {"scheduled", "claimed"}
\* A claimed job as claimDue returns it: attempt_count and the eligibility of
\* the joined conversation row at that moment.
Claim == [job : Job, attempt : Nat, eligible : BOOLEAN]
WorkerPC == {"idle", "batch", "process", "check", "send", "sent",
             "ambiguous", "retryable", "rejected"}

VARIABLES
  live,       \* FOLLOWUP_MODE is enabled, not shadow
  cycle,      \* followup_cycles.status
  status,     \* followup_jobs.status
  attempt,    \* followup_jobs.attempt_count
  elapsed,    \* stages of the newest cycle whose time has come; the step
              \* after the last one is the end of the messaging window
  human,      \* conversations.human_status
  pipeline,   \* conversations.pipeline_tag, as far as follow-ups read it
  written,    \* messages of the customer in inbound_events
  anchoredAt, \* per cycle: messages written before its anchor was sent
  handled,    \* messages whose turn was acknowledged
  committed,  \* messages whose turn committed a reply
  lease,      \* holder of lease:meta:<page>:<customer>
  tpc,        \* control of the inbound turn
  pc,         \* per follow-up worker: control
  batch,      \* per worker: claims it has still to process
  cur,        \* per worker: the claim it processes, at most one
  accepted,   \* per job: how often Meta accepted its message
  doubtful,   \* jobs with a send whose answer was lost
  takeovers, faults, stalls    \* bounded counters of the environment

rowVars  == <<cycle, status, attempt>>
convVars == <<human, pipeline>>
turnVars == <<written, anchoredAt, handled, committed, tpc>>
workVars == <<pc, batch, cur>>
metaVars == <<accepted, doubtful>>
envVars  == <<takeovers, faults, stalls>>
vars == <<live, rowVars, elapsed, convVars, turnVars, lease, workVars,
          metaVars, envVars>>

\* Every variable has its type.
FollowupTypeOK ==
  /\ live \in BOOLEAN
  /\ cycle \in [Cycle -> {"none", "active", "completed", "cancelled"}]
  /\ status \in [Job -> Open \cup Terminal \cup {"none"}]
  /\ attempt \in [Job -> Nat]
  /\ elapsed \in 0..(NStages + 1)
  /\ human \in {"bot", "human", "paused"}
  /\ pipeline \in {"quoted", "waiting", "nurture", "other"}
  /\ written \in 0..MaxMessages
  /\ anchoredAt \in [Cycle -> 0..MaxMessages]
  /\ handled \in 0..MaxMessages
  /\ committed \subseteq Cycle
  /\ tpc \in {"idle", "cancel", "commit", "anchor", "ack"}
  /\ lease \in FollowupWorkers \cup {Inbound, NoOne}
  /\ pc \in [FollowupWorkers -> WorkerPC]
  /\ batch \in [FollowupWorkers -> SUBSET Claim]
  /\ cur \in [FollowupWorkers -> SUBSET Claim]
  /\ accepted \in [Job -> Nat]
  /\ doubtful \subseteq Job
  /\ takeovers \in 0..MaxTakeovers
  /\ faults \in 0..MaxFaults
  /\ stalls \in 0..MaxStalls

Init ==
  /\ live \in BOOLEAN
  /\ cycle = [c \in Cycle |-> "none"]
  /\ status = [j \in Job |-> "none"]
  /\ attempt = [j \in Job |-> 0]
  /\ elapsed = 0
  /\ human = "bot" /\ pipeline = "other"
  /\ written = 0
  /\ anchoredAt = [c \in Cycle |-> 0]
  /\ handled = 0
  /\ committed = {}
  /\ tpc = "idle"
  /\ lease = NoOne
  /\ pc = [w \in FollowupWorkers |-> "idle"]
  /\ batch = [w \in FollowupWorkers |-> {}]
  /\ cur = [w \in FollowupWorkers |-> {}]
  /\ accepted = [j \in Job |-> 0]
  /\ doubtful = {}
  /\ takeovers = 0 /\ faults = 0 /\ stalls = 0

Fault == faults < MaxFaults /\ faults' = faults + 1
Stall == stalls < MaxStalls /\ stalls' = stalls + 1

\* releaseLease compares the owner.
Release(who) == lease' = IF lease = who THEN NoOne ELSE lease

-----------------------------------------------------------------------------
(* Rows *)

\* cancelConversation; the same statements in markHumanTakeover and, for the
\* cycles before the new one, in scheduleCycle.
\* Mutant: jobs a worker has claimed are left alone.
CancelScheduledOnly ==
  /\ cycle' = [c \in Cycle |->
       IF cycle[c] = "active" THEN "cancelled" ELSE cycle[c]]
  /\ status' = [j \in Job |->
       IF status[j] = "scheduled" THEN "cancelled" ELSE status[j]]
CancelConversation ==
  /\ cycle' = [c \in Cycle |->
       IF cycle[c] = "active" THEN "cancelled" ELSE cycle[c]]
  /\ status' = [j \in Job |->
       IF status[j] \in Open THEN "cancelled" ELSE status[j]]

\* scheduleCycle: nothing for a known anchor, else the older cycle gives way
\* and the jobs of the new one are inserted.
ScheduleCycle(c) ==
  IF cycle[c] # "none"
  THEN UNCHANGED <<rowVars, elapsed, anchoredAt>>
  ELSE /\ cycle' = [d \in Cycle |->
            IF d = c THEN "active"
            ELSE IF cycle[d] = "active" THEN "cancelled" ELSE cycle[d]]
       /\ status' = [j \in Job |->
            IF j[1] = c THEN "scheduled"
            ELSE IF status[j] \in Open THEN "cancelled" ELSE status[j]]
       /\ elapsed' = 0
       /\ anchoredAt' = [anchoredAt EXCEPT ![c] = written]
       /\ UNCHANGED attempt

\* An UPDATE of one job, guarded by status = 'claimed' as all of them are.
Update(j, new) ==
  /\ status' = [status EXCEPT ![j] = IF @ = "claimed" THEN new ELSE @]
  /\ UNCHANGED <<cycle, attempt>>

\* markCancelledClaim compares the attempt as well.
CancelClaim(k) ==
  IF attempt[k.job] = k.attempt THEN Update(k.job, "cancelled")
  ELSE UNCHANGED rowVars

\* releaseClaim does not.
\* Mutant: nor the status.
ReleaseAnyClaim(j) ==
  /\ status' = [status EXCEPT ![j] = "scheduled"]
  /\ attempt' = [attempt EXCEPT ![j] = IF @ = 0 THEN 0 ELSE @ - 1]
  /\ UNCHANGED cycle
ReleaseClaim(j) ==
  IF status[j] = "claimed"
  THEN /\ status' = [status EXCEPT ![j] = "scheduled"]
       /\ attempt' = [attempt EXCEPT ![j] = IF @ = 0 THEN 0 ELSE @ - 1]
       /\ UNCHANGED cycle
  ELSE UNCHANGED rowVars

Replied(c) == written > anchoredAt[c]
Eligible(c) ==
  human = "bot" /\ pipeline \in {"quoted", "waiting"} /\ ~Replied(c)
WindowOpen == elapsed <= NStages

\* isStillClaimed: the job may be the claim of another worker by now.
StillClaimed(j) ==
  status[j] = "claimed" /\ cycle[j[1]] = "active" /\ Eligible(j[1])

-----------------------------------------------------------------------------
(* Customer, staff, clock *)

CustomerWrites ==
  /\ written < MaxMessages
  /\ written' = written + 1
  /\ UNCHANGED <<live, rowVars, elapsed, convVars, anchoredAt, handled,
                 committed, tpc, lease, workVars, metaVars, envVars>>

MarkHumanTakeover ==
  /\ takeovers < MaxTakeovers
  /\ takeovers' = takeovers + 1
  /\ human' = "human" /\ pipeline' = "other"
  /\ CancelConversation
  /\ UNCHANGED <<live, attempt, elapsed, turnVars, lease, workVars,
                 metaVars, faults, stalls>>

TimePasses ==
  /\ \E c \in Cycle : cycle[c] = "active"
  /\ elapsed <= NStages
  /\ elapsed' = elapsed + 1
  /\ UNCHANGED <<live, rowVars, convVars, turnVars, lease, workVars, metaVars,
                 envVars>>

-----------------------------------------------------------------------------
(* The turn of the next message *)

BeginTurn ==
  /\ tpc = "idle" /\ handled < written /\ lease = NoOne
  /\ lease' = Inbound
  /\ tpc' = "cancel"
  /\ UNCHANGED <<live, rowVars, elapsed, convVars, written, anchoredAt,
                 handled, committed, workVars, metaVars, envVars>>

\* The conversation's follow-ups are cancelled before the owner check.
TurnCancel ==
  /\ tpc = "cancel"
  /\ CancelConversation
  /\ tpc' = IF human = "bot" THEN "commit" ELSE "ack"
  /\ UNCHANGED <<live, attempt, elapsed, convVars, written, anchoredAt,
                 handled, committed, lease, workVars, metaVars, envVars>>

\* Compose, commit and dispatch; only a quote of a price that went out leads
\* to a cycle. A takeover since the owner check wins.
TurnCommit ==
  /\ tpc = "commit" /\ lease = Inbound /\ handled + 1 \notin committed
  /\ IF human # "bot"
     THEN tpc' = "ack" /\ UNCHANGED <<convVars, committed>>
     ELSE /\ committed' = committed \cup {handled + 1}
          /\ human' \in {"bot", "paused"}
          /\ pipeline' \in {"quoted", "other"}
          /\ tpc' \in IF pipeline' = "quoted" THEN {"anchor", "ack"} ELSE {"ack"}
  /\ UNCHANGED <<live, rowVars, elapsed, written, anchoredAt, handled, lease,
                 workVars, metaVars, envVars>>

\* A turn that is tried again finds its committed reply.
TurnResume ==
  /\ tpc = "commit" /\ lease = Inbound /\ handled + 1 \in committed
  /\ tpc' \in IF pipeline = "quoted" THEN {"anchor", "ack"} ELSE {"ack"}
  /\ UNCHANGED <<live, rowVars, elapsed, convVars, written, anchoredAt,
                 handled, committed, lease, workVars, metaVars, envVars>>

TurnSchedule ==
  /\ tpc = "anchor" /\ lease = Inbound
  /\ ScheduleCycle(handled + 1)
  /\ tpc' = "ack"
  /\ UNCHANGED <<live, convVars, written, handled, committed, lease, workVars,
                 metaVars, envVars>>

TurnAck ==
  /\ tpc = "ack"
  /\ handled' = handled + 1
  /\ tpc' = "idle"
  /\ Release(Inbound)
  /\ UNCHANGED <<live, rowVars, elapsed, convVars, written, anchoredAt,
                 committed, workVars, metaVars, envVars>>

\* The message is not acknowledged and its turn begins again later.
TurnLosesLease ==
  /\ tpc \in {"commit", "anchor"} /\ lease # Inbound
  /\ tpc' = "idle"
  /\ UNCHANGED <<live, rowVars, elapsed, convVars, written, anchoredAt,
                 handled, committed, lease, workVars, metaVars, envVars>>

TurnFails ==
  /\ tpc # "idle" /\ Fault
  /\ tpc' = "idle"
  /\ UNCHANGED <<live, rowVars, elapsed, convVars, written, anchoredAt,
                 handled, committed, lease, workVars, metaVars, takeovers,
                 stalls>>

\* The TTL of the conversation lease ends, after its holder or before.
HolderWorks ==
  \/ lease = Inbound /\ tpc # "idle"
  \/ lease \in FollowupWorkers /\ cur[lease] # {}

ExpireLease ==
  /\ lease # NoOne /\ ~HolderWorks
  /\ lease' = NoOne
  /\ UNCHANGED <<live, rowVars, elapsed, convVars, turnVars, workVars,
                 metaVars, envVars>>

LeaseStalls ==
  /\ HolderWorks /\ Stall
  /\ lease' = NoOne
  /\ UNCHANGED <<live, rowVars, elapsed, convVars, turnVars, workVars,
                 metaVars, takeovers, faults>>

-----------------------------------------------------------------------------
(* Worker: claims *)

\* Mutant: a job that is already claimed is claimed again.
DueOrClaimed ==
  {j \in Job : status[j] \in Open /\ cycle[j[1]] = "active" /\ j[2] <= elapsed}
Due ==
  {j \in Job : status[j] = "scheduled" /\ cycle[j[1]] = "active"
               /\ j[2] <= elapsed}

\* claimDue: some due jobs (other conversations compete for the LIMIT).
ClaimDue(w) ==
  /\ pc[w] = "idle"
  /\ \E S \in SUBSET Due \ {{}} :
       /\ status' = [j \in Job |-> IF j \in S THEN "claimed" ELSE status[j]]
       /\ attempt' = [j \in Job |->
            IF j \in S THEN attempt[j] + 1 ELSE attempt[j]]
       /\ batch' = [batch EXCEPT ![w] =
            {[job |-> j, attempt |-> attempt[j] + 1,
              eligible |-> Eligible(j[1])] : j \in S}]
  /\ pc' = [pc EXCEPT ![w] = "batch"]
  /\ UNCHANGED <<live, cycle, elapsed, convVars, turnVars, lease, cur,
                 metaVars, envVars>>

HeldBy(w) == {k.job : k \in batch[w] \cup cur[w]}
Held == UNION {HeldBy(w) : w \in FollowupWorkers}

\* releaseStaleClaims, between two batches: claims of a dead worker, of a job
\* left claimed, or, as a stall, of a worker that is slow with its batch.
\* Mutant: claimed_at is cleared and the status left.
RecoverTimestampOnly(S) == UNCHANGED rowVars
Recover(S) ==
  /\ status' = [j \in Job |-> IF j \in S THEN "scheduled" ELSE status[j]]
  /\ UNCHANGED <<cycle, attempt>>

ReleaseStaleClaims(w) ==
  /\ pc[w] = "idle"
  /\ LET stale == {j \in Job : status[j] = "claimed" /\ j \notin Held}
     IN stale # {} /\ Recover(stale)
  /\ UNCHANGED <<live, elapsed, convVars, turnVars, lease, workVars, metaVars,
                 envVars>>

ReleaseSlowClaims(w) ==
  /\ pc[w] = "idle" /\ Stall
  /\ \E S \in SUBSET {j \in Held : status[j] = "claimed"} \ {{}} : Recover(S)
  /\ UNCHANGED <<live, elapsed, convVars, turnVars, lease, workVars, metaVars,
                 takeovers, faults>>

\* The loop over the batch: the conversation lease of the next job.
\* Mutant: its refusal is not looked at.
TakeJobBlindly(w, k) == lease' = w /\ cur' = [cur EXCEPT ![w] = {k}]
TakeJob(w, k) ==
  /\ lease = NoOne
  /\ lease' = w
  /\ cur' = [cur EXCEPT ![w] = {k}]

StartJob(w) ==
  /\ pc[w] = "batch"
  /\ \E k \in batch[w] :
       TakeJob(w, k) /\ batch' = [batch EXCEPT ![w] = @ \ {k}]
  /\ pc' = [pc EXCEPT ![w] = "process"]
  /\ UNCHANGED <<live, rowVars, elapsed, convVars, turnVars, metaVars,
                 envVars>>

\* Where the loop goes on once a claim is dealt with.
AfterJob(rest) == IF rest = {} THEN "idle" ELSE "batch"

ConversationBusy(w) ==
  /\ pc[w] = "batch" /\ lease # NoOne
  /\ \E k \in batch[w] :
       /\ ReleaseClaim(k.job)
       /\ batch' = [batch EXCEPT ![w] = @ \ {k}]
       /\ pc' = [pc EXCEPT ![w] = AfterJob(batch[w] \ {k})]
  /\ UNCHANGED <<live, elapsed, convVars, turnVars, lease, cur, metaVars,
                 envVars>>

-----------------------------------------------------------------------------
(* Dispatcher: one claim under the lease *)

\* process returns or throws; the worker releases the lease.
EndJob(w) ==
  /\ pc' = [pc EXCEPT ![w] = AfterJob(batch[w])]
  /\ cur' = [cur EXCEPT ![w] = {}]
  /\ Release(w)
  /\ UNCHANGED <<live, elapsed, turnVars, batch>>

Goto(w, l) ==
  /\ pc' = [pc EXCEPT ![w] = l]
  /\ UNCHANGED <<live, rowVars, elapsed, convVars, turnVars, lease, batch, cur>>

Admitted(k) == k.eligible /\ WindowOpen

\* The snapshot of the claim decides first, then the mode.
RefuseClaim(w) ==
  /\ pc[w] = "process"
  /\ \E k \in cur[w] : ~Admitted(k) /\ CancelClaim(k)
  /\ EndJob(w)
  /\ UNCHANGED <<convVars, metaVars, envVars>>

Shadow(w) ==
  /\ pc[w] = "process" /\ ~live
  /\ \E k \in cur[w] : Admitted(k) /\ Update(k.job, "shadowed")
  /\ EndJob(w)
  /\ UNCHANGED <<convVars, metaVars, envVars>>

\* Before composing and again before sending: the lease, then the rows as
\* they are now; only the second check looks at the window again.
Checking(w, k) ==
  \/ pc[w] = "process" /\ live /\ Admitted(k)
  \/ pc[w] = "check"

\* The lease is gone: the job is left claimed for the stale recovery.
LeaveClaimed(w) ==
  /\ lease # w
  /\ \E k \in cur[w] : Checking(w, k)
  /\ EndJob(w)
  /\ UNCHANGED <<rowVars, convVars, metaVars, envVars>>

Passes(w, k) ==
  StillClaimed(k.job) /\ (pc[w] = "check" => Admitted(k))

CheckFails(w) ==
  /\ lease = w
  /\ \E k \in cur[w] : Checking(w, k) /\ ~Passes(w, k) /\ CancelClaim(k)
  /\ EndJob(w)
  /\ UNCHANGED <<convVars, metaVars, envVars>>

CheckPasses(w) ==
  /\ lease = w
  /\ \E k \in cur[w] : Checking(w, k) /\ Passes(w, k)
  /\ Goto(w, IF pc[w] = "check" THEN "send" ELSE "check")
  /\ UNCHANGED <<metaVars, envVars>>

\* followupPayloadIssue: what was composed in between is not fit to be sent.
BlockPayload(w) ==
  /\ pc[w] = "check"
  /\ \E k \in cur[w] : CancelClaim(k)
  /\ EndJob(w)
  /\ UNCHANGED <<convVars, metaVars, envVars>>

SendAccepted(w) ==
  /\ pc[w] = "send"
  /\ \E k \in cur[w] : accepted' = [accepted EXCEPT ![k.job] = @ + 1]
  /\ Goto(w, "sent")
  /\ UNCHANGED <<doubtful, envVars>>

\* network_error: the answer is lost, the message may have been delivered.
SendAmbiguous(w) ==
  /\ pc[w] = "send"
  /\ \E k \in cur[w] :
       /\ doubtful' = doubtful \cup {k.job}
       /\ accepted' \in {accepted, [accepted EXCEPT ![k.job] = @ + 1]}
  /\ Goto(w, "ambiguous")
  /\ UNCHANGED envVars

SendRejected(w) ==
  /\ pc[w] = "send"
  /\ \E l \in {"retryable", "rejected"} : Goto(w, l)
  /\ UNCHANGED <<metaVars, envVars>>

\* markSent: the job if it is still claimed, the conversation if it is still
\* the bot's, the cycle after the last stage in any case.
MarkSent(w) ==
  /\ pc[w] = "sent"
  /\ \E k \in cur[w] :
       LET last == k.job[2] = NStages
       IN /\ status' = [status EXCEPT ![k.job] =
               IF @ = "claimed" THEN "sent" ELSE @]
          /\ pipeline' = IF human # "bot" THEN pipeline
                         ELSE IF last THEN "nurture" ELSE "waiting"
          /\ cycle' = IF last THEN [cycle EXCEPT ![k.job[1]] = "completed"]
                      ELSE cycle
  /\ EndJob(w)
  /\ UNCHANGED <<attempt, human, metaVars, envVars>>

\* markSendFailure decides by the attempt of the claim, not of the row.
FailureStatus(l, n) ==
  CASE l = "ambiguous" -> "delivery_unknown"
    [] l = "retryable" /\ n < MaxAttempts -> "scheduled"
    [] OTHER -> "failed"

MarkSendFailure(w) ==
  /\ pc[w] \in {"ambiguous", "retryable", "rejected"}
  /\ \E k \in cur[w] : Update(k.job, FailureStatus(pc[w], k.attempt))
  /\ EndJob(w)
  /\ UNCHANGED <<convVars, metaVars, envVars>>

\* A call of the store, the composer or the page lookup throws: the claim is
\* released, unless that fails too.
ProcessThrows(w) ==
  /\ cur[w] # {} /\ Fault
  /\ \E k \in cur[w] : ReleaseClaim(k.job) \/ UNCHANGED rowVars
  /\ EndJob(w)
  /\ UNCHANGED <<convVars, metaVars, takeovers, stalls>>

\* The process dies; its claims and its lease stay behind.
CrashWorker(w) ==
  /\ pc[w] # "idle" /\ Fault
  /\ pc' = [pc EXCEPT ![w] = "idle"]
  /\ batch' = [batch EXCEPT ![w] = {}]
  /\ cur' = [cur EXCEPT ![w] = {}]
  /\ UNCHANGED <<live, rowVars, elapsed, convVars, turnVars, lease, metaVars,
                 takeovers, stalls>>

-----------------------------------------------------------------------------
Turn ==
  BeginTurn \/ TurnCancel \/ TurnCommit \/ TurnResume \/ TurnSchedule \/ TurnAck

Dispatch(w) ==
  \/ RefuseClaim(w) \/ Shadow(w) \/ LeaveClaimed(w) \/ CheckFails(w)
  \/ CheckPasses(w) \/ BlockPayload(w)
  \/ SendAccepted(w) \/ SendAmbiguous(w) \/ SendRejected(w)
  \/ MarkSent(w) \/ MarkSendFailure(w)

Next ==
  \/ CustomerWrites \/ MarkHumanTakeover \/ TimePasses
  \/ Turn \/ TurnLosesLease \/ TurnFails \/ ExpireLease \/ LeaseStalls
  \/ \E w \in FollowupWorkers :
       \/ ClaimDue(w) \/ ReleaseStaleClaims(w) \/ ReleaseSlowClaims(w)
       \/ StartJob(w) \/ ConversationBusy(w) \/ Dispatch(w) \/ ProcessThrows(w)
       \/ CrashWorker(w)

Spec == Init /\ [][Next]_vars

\* A running worker polls, goes on with its batch and gets a lease that is
\* free again and again; turns go on; the TTL of an abandoned lease and of an
\* abandoned claim run out. Nothing is assumed of customers, staff, faults,
\* the clock or the outcome of a send.
Fairness ==
  /\ WF_vars(Turn \/ TurnLosesLease) /\ SF_vars(BeginTurn)
  /\ WF_vars(ExpireLease)
  /\ \A w \in FollowupWorkers :
       /\ WF_vars(ReleaseStaleClaims(w)) /\ SF_vars(StartJob(w))
       /\ WF_vars(ClaimDue(w) \/ ConversationBusy(w) \/ Dispatch(w))

FairSpec == Spec /\ Fairness
=============================================================================
