--------------------------- MODULE FollowupProofs ---------------------------
(***************************************************************************)
(* Proofs about Followup.                                                  *)
(*   Types: every variable keeps its type.                                 *)
(*   Rows: every step writes the rows in one of six ways, so no job leaves *)
(*     its end, and cycles and jobs agree.                                 *)
(*   Work: while no lease or claim runs out under a worker, a claim has    *)
(*     one owner, who works under the conversation's lease; so the turn of *)
(*     an answer and the send of a follow-up exclude each other.           *)
(*   Payment: two accounts per job, of messages and of attempts, whose     *)
(*     tokens the workers and the row hold; and, while nothing fails, what *)
(*     becomes of a send in doubt and why a cycle ends.                    *)
(***************************************************************************)
EXTENDS FollowupProperties, FiniteSetTheorems, TLAPS

\* The parts of the type invariant, by the actor that writes them.
RowsOK ==
  /\ cycle \in [Cycle -> {"none", "active", "completed", "cancelled"}]
  /\ status \in [Job -> Open \cup Terminal \cup {"none"}]
  /\ attempt \in [Job -> Nat]
TurnOK ==
  /\ elapsed \in 0..(NStages + 1)
  /\ human \in {"bot", "human", "paused"}
  /\ pipeline \in {"quoted", "waiting", "nurture", "other"}
  /\ written \in 0..MaxMessages
  /\ anchoredAt \in [Cycle -> 0..MaxMessages]
  /\ handled \in 0..MaxMessages
  /\ committed \subseteq Cycle
  /\ tpc \in {"idle", "cancel", "commit", "anchor", "ack"}
WorkOK ==
  /\ lease \in FollowupWorkers \cup {Inbound, NoOne}
  /\ pc \in [FollowupWorkers -> WorkerPC]
  /\ batch \in [FollowupWorkers -> SUBSET Claim]
  /\ cur \in [FollowupWorkers -> SUBSET Claim]
EnvOK ==
  /\ live \in BOOLEAN
  /\ accepted \in [Job -> Nat]
  /\ doubtful \subseteq Job
  /\ takeovers \in 0..MaxTakeovers
  /\ faults \in 0..MaxFaults
  /\ stalls \in 0..MaxStalls

\* A turn in progress belongs to a message that was written.
TurnBacked == handled <= written /\ (tpc # "idle" => handled < written)

TypeInv == FollowupTypeOK /\ TurnBacked

\* The type invariant is the conjunction of its parts.
LEMMA Parts == FollowupTypeOK <=> RowsOK /\ TurnOK /\ WorkOK /\ EnvOK
  BY DEF FollowupTypeOK, RowsOK, TurnOK, WorkOK, EnvOK

-----------------------------------------------------------------------------
(* The statements on rows *)

\* Cancelling a conversation's follow-ups writes statuses of the tables.
LEMMA CancelType ==
  ASSUME RowsOK, CancelConversation
  PROVE  /\ cycle' \in [Cycle -> {"none", "active", "completed", "cancelled"}]
         /\ status' \in [Job -> Open \cup Terminal \cup {"none"}]
  BY DEF RowsOK, CancelConversation, Open, Terminal

\* So does scheduling a cycle.
LEMMA ScheduleType ==
  ASSUME RowsOK, TurnOK, NEW c \in Cycle, ScheduleCycle(c),
         FollowupAssumption
  PROVE  /\ RowsOK'
         /\ elapsed' \in 0..(NStages + 1)
         /\ anchoredAt' \in [Cycle -> 0..MaxMessages]
<1>1. CASE cycle[c] # "none"
  BY <1>1 DEF RowsOK, TurnOK, ScheduleCycle, rowVars
<1>2. CASE cycle[c] = "none"
  BY <1>2 DEF RowsOK, TurnOK, ScheduleCycle, Open, Terminal, FollowupAssumption
<1> QED BY <1>1, <1>2

\* A guarded update of one job.
LEMMA UpdateType ==
  ASSUME RowsOK, NEW j \in Job, NEW new \in Open \cup Terminal, Update(j, new)
  PROVE  RowsOK'
  BY DEF RowsOK, Update

\* Cancelling and releasing a claim.
LEMMA ClaimType ==
  ASSUME RowsOK, NEW k \in Claim, CancelClaim(k) \/ ReleaseClaim(k.job)
  PROVE  RowsOK'
<1>1. k.job \in Job BY DEF Claim
<1>2. CASE CancelClaim(k)
  BY <1>1, <1>2 DEF RowsOK, CancelClaim, Update, rowVars, Open, Terminal
<1>3. CASE ReleaseClaim(k.job)
  <2> DEFINE j == k.job
  <2>1. CASE status[j] = "claimed"
    <3>1. /\ status' = [status EXCEPT ![j] = "scheduled"]
          /\ attempt' = [attempt EXCEPT ![j] = IF @ = 0 THEN 0 ELSE @ - 1]
          /\ cycle' = cycle
      BY <1>3, <2>1 DEF ReleaseClaim
    <3>2. (IF attempt[j] = 0 THEN 0 ELSE attempt[j] - 1) \in Nat
      BY <1>1 DEF RowsOK
    <3> QED BY <3>1, <3>2, <1>1 DEF RowsOK, Open
  <2>2. CASE status[j] # "claimed"
    BY <1>3, <2>2 DEF ReleaseClaim, RowsOK, rowVars
  <2> QED BY <2>1, <2>2
<1> QED BY <1>2, <1>3

\* Recovering claims.
LEMMA RecoverType ==
  ASSUME RowsOK, NEW S, Recover(S)
  PROVE  RowsOK'
  BY DEF RowsOK, Recover, Open

\* What a worker keeps when its job ends or goes on.
LEMMA WorkerType ==
  ASSUME WorkOK, NEW w \in FollowupWorkers,
         EndJob(w) \/ \E l \in WorkerPC : Goto(w, l)
  PROVE  WorkOK'
<1>1. CASE EndJob(w)
  <2>1. AfterJob(batch[w]) \in WorkerPC BY DEF AfterJob, WorkerPC
  <2> QED BY <1>1, <2>1 DEF WorkOK, EndJob, Release
<1>2. CASE \E l \in WorkerPC : Goto(w, l)
  BY <1>2 DEF WorkOK, Goto
<1> QED BY <1>1, <1>2

-----------------------------------------------------------------------------
(* Every step keeps the types *)

\* Customer, staff, clock and the expiry of the lease.
LEMMA EnvironmentType ==
  ASSUME FollowupAssumption, TypeInv,
         CustomerWrites \/ MarkHumanTakeover \/ TimePasses
           \/ ExpireLease \/ LeaseStalls
  PROVE  TypeInv'
<1>0. RowsOK /\ TurnOK /\ WorkOK /\ EnvOK /\ TurnBacked
  BY Parts DEF TypeInv
<1>1. CASE CustomerWrites
  <2>1. RowsOK' /\ WorkOK' /\ EnvOK'
    BY <1>0, <1>1 DEF CustomerWrites, RowsOK, WorkOK, EnvOK, rowVars, workVars,
       metaVars, envVars
  <2>2. TurnOK'
    BY <1>0, <1>1 DEF CustomerWrites, TurnOK, convVars, FollowupAssumption
  <2>3. TurnBacked'
    BY <1>0, <1>1 DEF CustomerWrites, TurnOK, TurnBacked
  <2> QED BY <2>1, <2>2, <2>3, Parts DEF TypeInv, RowsOK, TurnOK, WorkOK, EnvOK,
             FollowupTypeOK
<1>2. CASE MarkHumanTakeover
  <2>1. RowsOK' BY <1>0, <1>2, CancelType DEF MarkHumanTakeover, RowsOK
  <2>2. TurnOK' /\ WorkOK' /\ TurnBacked'
    BY <1>0, <1>2 DEF MarkHumanTakeover, TurnOK, WorkOK, TurnBacked, turnVars,
       workVars
  <2>3. EnvOK'
    BY <1>0, <1>2 DEF MarkHumanTakeover, EnvOK, metaVars, FollowupAssumption
  <2> QED BY <2>1, <2>2, <2>3 DEF TypeInv, RowsOK, TurnOK, WorkOK, EnvOK,
             FollowupTypeOK
<1>3. CASE TimePasses
  <2>1. RowsOK' /\ WorkOK' /\ EnvOK' /\ TurnBacked'
    BY <1>0, <1>3 DEF TimePasses, RowsOK, WorkOK, EnvOK, TurnBacked, rowVars,
       workVars, metaVars, envVars, turnVars
  <2>2. TurnOK'
    BY <1>0, <1>3 DEF TimePasses, TurnOK, convVars, turnVars,
       FollowupAssumption
  <2> QED BY <2>1, <2>2 DEF TypeInv, RowsOK, TurnOK, WorkOK, EnvOK,
             FollowupTypeOK
<1>4. CASE ExpireLease \/ LeaseStalls
  <2>1. RowsOK' /\ TurnOK' /\ WorkOK' /\ TurnBacked'
    BY <1>0, <1>4 DEF ExpireLease, LeaseStalls, RowsOK, TurnOK, WorkOK,
       TurnBacked, rowVars, convVars, turnVars, workVars
  <2>2. EnvOK'
    BY <1>0, <1>4 DEF ExpireLease, LeaseStalls, Stall, EnvOK, metaVars,
       envVars, FollowupAssumption
  <2> QED BY <2>1, <2>2 DEF TypeInv, RowsOK, TurnOK, WorkOK, EnvOK,
             FollowupTypeOK
<1> QED BY <1>1, <1>2, <1>3, <1>4

\* The turn of a message.
LEMMA TurnType ==
  ASSUME FollowupAssumption, TypeInv, Turn \/ TurnLosesLease \/ TurnFails
  PROVE  TypeInv'
<1>0. RowsOK /\ TurnOK /\ WorkOK /\ EnvOK /\ TurnBacked
  BY Parts DEF TypeInv
<1>1. tpc # "idle" => handled + 1 \in Cycle
  BY <1>0 DEF TurnOK, TurnBacked, Cycle, FollowupAssumption
<1>2. WorkOK'
  <2>1. lease' \in {lease, Inbound, NoOne} /\ UNCHANGED workVars
    BY DEF Turn, BeginTurn, TurnCancel, TurnCommit, TurnResume, TurnSchedule,
       TurnAck, TurnLosesLease, TurnFails, Release
  <2> QED BY <1>0, <2>1 DEF WorkOK, workVars
<1>3. EnvOK'
  <2>1. CASE TurnFails
    BY <1>0, <2>1 DEF TurnFails, Fault, EnvOK, metaVars, FollowupAssumption
  <2>2. CASE Turn \/ TurnLosesLease
    BY <1>0, <2>2 DEF Turn, BeginTurn, TurnCancel, TurnCommit, TurnResume,
       TurnSchedule, TurnAck, TurnLosesLease, EnvOK, metaVars, envVars
  <2> QED BY <2>1, <2>2
<1>4. RowsOK' /\ TurnOK' /\ TurnBacked'
  <2>1. CASE BeginTurn
    BY <1>0, <2>1 DEF BeginTurn, RowsOK, TurnOK, TurnBacked, rowVars, convVars
  <2>2. CASE TurnCancel
    <3>1. RowsOK' BY <1>0, <2>2, CancelType DEF TurnCancel, RowsOK
    <3>2. TurnOK' /\ TurnBacked'
      BY <1>0, <2>2 DEF TurnCancel, TurnOK, TurnBacked, convVars
    <3> QED BY <3>1, <3>2
  <2>3. CASE TurnCommit
    <3>1. RowsOK' /\ TurnBacked'
      BY <1>0, <2>3 DEF TurnCommit, RowsOK, TurnBacked, rowVars
    <3>2. handled + 1 \in Cycle BY <1>1, <2>3 DEF TurnCommit
    <3>3. CASE human # "bot"
      <4>1. /\ tpc' = "ack"
            /\ UNCHANGED <<human, pipeline, committed>>
            /\ UNCHANGED <<elapsed, written, anchoredAt, handled>>
        BY <2>3, <3>3 DEF TurnCommit, convVars
      <4> QED BY <1>0, <3>1, <4>1 DEF TurnOK
    <3>4. CASE human = "bot"
      <4>1. /\ committed' = committed \cup {handled + 1}
            /\ human' \in {"bot", "paused"}
            /\ pipeline' \in {"quoted", "other"}
            /\ tpc' \in {"anchor", "ack"}
            /\ UNCHANGED <<elapsed, written, anchoredAt, handled>>
        BY <2>3, <3>4 DEF TurnCommit
      <4> QED BY <1>0, <3>1, <3>2, <4>1 DEF TurnOK
    <3> QED BY <3>1, <3>3, <3>4
  <2>4. CASE TurnResume
    <3>1. tpc' \in {"anchor", "ack"} /\ tpc # "idle"
      BY <2>4 DEF TurnResume
    <3> QED BY <1>0, <2>4, <3>1 DEF TurnResume, RowsOK, TurnOK, TurnBacked,
               rowVars, convVars
  <2>5. CASE TurnSchedule
    <3>1. handled + 1 \in Cycle BY <1>1, <2>5 DEF TurnSchedule
    <3>2. /\ RowsOK'
          /\ elapsed' \in 0..(NStages + 1)
          /\ anchoredAt' \in [Cycle -> 0..MaxMessages]
      BY <1>0, <2>5, <3>1, ScheduleType DEF TurnSchedule
    <3> QED BY <1>0, <2>5, <3>2 DEF TurnSchedule, TurnOK, TurnBacked, convVars
  <2>6. CASE TurnAck
    <3>1. RowsOK' BY <1>0, <2>6 DEF TurnAck, RowsOK, rowVars
    <3>2. TurnOK' /\ TurnBacked'
      BY <1>0, <2>6 DEF TurnAck, TurnOK, TurnBacked, convVars,
         FollowupAssumption
    <3> QED BY <3>1, <3>2
  <2>7. CASE TurnLosesLease \/ TurnFails
    BY <1>0, <2>7 DEF TurnLosesLease, TurnFails, RowsOK, TurnOK, TurnBacked,
       rowVars, convVars
  <2> QED BY <2>1, <2>2, <2>3, <2>4, <2>5, <2>6, <2>7 DEF Turn
<1> QED BY <1>2, <1>3, <1>4 DEF TypeInv, RowsOK, TurnOK, WorkOK, EnvOK,
           FollowupTypeOK

\* A worker between jobs: claims, recovery, the lease, its death.
LEMMA ClaimingType ==
  ASSUME FollowupAssumption, TypeInv, NEW w \in FollowupWorkers,
         ClaimDue(w) \/ ReleaseStaleClaims(w) \/ ReleaseSlowClaims(w)
           \/ StartJob(w) \/ ConversationBusy(w) \/ CrashWorker(w)
  PROVE  TypeInv'
<1>0. RowsOK /\ TurnOK /\ WorkOK /\ EnvOK /\ TurnBacked
  BY Parts DEF TypeInv
<1>1. TurnOK' /\ TurnBacked'
  BY <1>0 DEF TurnOK, TurnBacked, ClaimDue, ReleaseStaleClaims,
     ReleaseSlowClaims, StartJob, ConversationBusy, CrashWorker, convVars,
     turnVars
<1>2. EnvOK'
  BY <1>0 DEF EnvOK, ClaimDue, ReleaseStaleClaims, ReleaseSlowClaims, StartJob,
     ConversationBusy, CrashWorker, Stall, Fault, metaVars, envVars,
     FollowupAssumption
<1>3. RowsOK' /\ WorkOK'
  <2>1. CASE ClaimDue(w)
    <3>1. PICK S \in SUBSET Due \ {{}} :
            /\ status' = [j \in Job |-> IF j \in S THEN "claimed" ELSE status[j]]
            /\ attempt' = [j \in Job |->
                 IF j \in S THEN attempt[j] + 1 ELSE attempt[j]]
            /\ batch' = [batch EXCEPT ![w] =
                 {[job |-> j, attempt |-> attempt[j] + 1,
                   eligible |-> Eligible(j[1])] : j \in S}]
      BY <2>1 DEF ClaimDue
    <3>2. S \subseteq Job BY DEF Due
    <3>3. RowsOK' BY <1>0, <2>1, <3>1, <3>2 DEF ClaimDue, RowsOK, Open
    <3>4. ASSUME NEW j \in S
          PROVE  [job |-> j, attempt |-> attempt[j] + 1,
                  eligible |-> Eligible(j[1])] \in Claim
      <4>1. Eligible(j[1]) \in BOOLEAN BY DEF Eligible
      <4>2. attempt[j] + 1 \in Nat BY <1>0, <3>2 DEF RowsOK
      <4> QED BY <3>2, <4>1, <4>2 DEF Claim
    <3>5. batch' \in [FollowupWorkers -> SUBSET Claim]
      <4>1. {[job |-> j, attempt |-> attempt[j] + 1,
              eligible |-> Eligible(j[1])] : j \in S} \in SUBSET Claim
        BY <3>4
      <4> HIDE DEF Claim
      <4> QED BY <1>0, <3>1, <4>1 DEF WorkOK
    <3> QED BY <1>0, <2>1, <3>3, <3>5 DEF ClaimDue, WorkOK, WorkerPC
  <2>2. CASE ReleaseStaleClaims(w) \/ ReleaseSlowClaims(w)
    <3>1. PICK S : Recover(S)
      BY <2>2 DEF ReleaseStaleClaims, ReleaseSlowClaims
    <3>2. RowsOK' BY <1>0, <3>1, RecoverType
    <3> QED BY <1>0, <2>2, <3>2 DEF ReleaseStaleClaims, ReleaseSlowClaims,
               WorkOK, workVars
  <2>3. CASE StartJob(w)
    BY <1>0, <2>3 DEF StartJob, TakeJob, RowsOK, WorkOK, WorkerPC, rowVars
  <2>4. CASE ConversationBusy(w)
    <3>1. PICK k \in batch[w] :
            /\ ReleaseClaim(k.job)
            /\ batch' = [batch EXCEPT ![w] = @ \ {k}]
            /\ pc' = [pc EXCEPT ![w] = AfterJob(batch[w] \ {k})]
      BY <2>4 DEF ConversationBusy
    <3>2. k \in Claim BY <1>0 DEF WorkOK
    <3>3. RowsOK' BY <1>0, <3>1, <3>2, ClaimType
    <3>4. AfterJob(batch[w] \ {k}) \in WorkerPC BY DEF AfterJob, WorkerPC
    <3> QED BY <1>0, <2>4, <3>1, <3>3, <3>4 DEF ConversationBusy, WorkOK
  <2>5. CASE CrashWorker(w)
    BY <1>0, <2>5 DEF CrashWorker, RowsOK, WorkOK, WorkerPC, rowVars
  <2> QED BY <2>1, <2>2, <2>3, <2>4, <2>5
<1> QED BY <1>1, <1>2, <1>3 DEF TypeInv, RowsOK, TurnOK, WorkOK, EnvOK,
           FollowupTypeOK

\* A worker under the lease of one job.
LEMMA DispatchType ==
  ASSUME FollowupAssumption, TypeInv, NEW w \in FollowupWorkers,
         Dispatch(w) \/ ProcessThrows(w)
  PROVE  TypeInv'
<1>0. RowsOK /\ TurnOK /\ WorkOK /\ EnvOK /\ TurnBacked
  BY Parts DEF TypeInv
<1>1. ASSUME NEW k \in cur[w] PROVE k \in Claim /\ k.job \in Job
  BY <1>0, <1>1 DEF WorkOK, Claim
<1>2. WorkOK'
  <2>1. EndJob(w) \/ \E l \in WorkerPC : Goto(w, l)
    BY DEF Dispatch, RefuseClaim, Shadow, LeaveClaimed, CheckFails,
       CheckPasses, BlockPayload, SendAccepted, SendAmbiguous, SendRejected,
       MarkSent, MarkSendFailure, ProcessThrows, WorkerPC
  <2> QED BY <1>0, <2>1, WorkerType
<1>3. CASE RefuseClaim(w) \/ CheckFails(w) \/ BlockPayload(w)
  <2>1. PICK k \in cur[w] : CancelClaim(k)
    BY <1>3 DEF RefuseClaim, CheckFails, BlockPayload
  <2>2. RowsOK' BY <1>0, <1>1, <2>1, ClaimType
  <2>3. TurnOK' /\ EnvOK' /\ TurnBacked'
    BY <1>0, <1>3 DEF RefuseClaim, CheckFails, BlockPayload, EndJob, TurnOK,
       EnvOK, TurnBacked, turnVars, convVars, metaVars, envVars
  <2> QED BY <1>2, <2>2, <2>3 DEF TypeInv, RowsOK, TurnOK, WorkOK, EnvOK,
             FollowupTypeOK
<1>4. CASE Shadow(w) \/ MarkSendFailure(w)
  <2>1. PICK k \in cur[w], new \in Open \cup Terminal : Update(k.job, new)
    BY <1>4 DEF Shadow, MarkSendFailure, FailureStatus, Open, Terminal
  <2>2. RowsOK' BY <1>0, <1>1, <2>1, UpdateType
  <2>3. TurnOK' /\ EnvOK' /\ TurnBacked'
    BY <1>0, <1>4 DEF Shadow, MarkSendFailure, EndJob, TurnOK, EnvOK,
       TurnBacked, turnVars, convVars, metaVars, envVars
  <2> QED BY <1>2, <2>2, <2>3 DEF TypeInv, RowsOK, TurnOK, WorkOK, EnvOK,
             FollowupTypeOK
<1>5. CASE LeaveClaimed(w) \/ CheckPasses(w) \/ SendRejected(w)
  <2>1. RowsOK' /\ TurnOK' /\ EnvOK' /\ TurnBacked'
    BY <1>0, <1>5 DEF LeaveClaimed, CheckPasses, SendRejected, EndJob, Goto,
       RowsOK, TurnOK, EnvOK, TurnBacked, rowVars, turnVars, convVars,
       metaVars, envVars
  <2> QED BY <1>2, <2>1 DEF TypeInv, RowsOK, TurnOK, WorkOK, EnvOK,
             FollowupTypeOK
<1>6. CASE SendAccepted(w) \/ SendAmbiguous(w)
  <2>1. RowsOK' /\ TurnOK' /\ TurnBacked'
    BY <1>0, <1>6 DEF SendAccepted, SendAmbiguous, Goto, RowsOK, TurnOK,
       TurnBacked, rowVars, turnVars, convVars
  <2>2. PICK k \in cur[w] :
          /\ accepted' \in {accepted, [accepted EXCEPT ![k.job] = @ + 1]}
          /\ doubtful' \in {doubtful, doubtful \cup {k.job}}
          /\ UNCHANGED envVars
    BY <1>6 DEF SendAccepted, SendAmbiguous
  <2>3. EnvOK'
    BY <1>0, <1>1, <1>6, <2>2 DEF EnvOK, envVars, SendAccepted, SendAmbiguous,
       Goto
  <2> QED BY <1>2, <2>1, <2>3 DEF TypeInv, RowsOK, TurnOK, WorkOK, EnvOK,
             FollowupTypeOK
<1>7. CASE MarkSent(w)
  <2>1. PICK k \in cur[w] :
          /\ status' = [status EXCEPT ![k.job] =
               IF @ = "claimed" THEN "sent" ELSE @]
          /\ pipeline' \in {pipeline, "nurture", "waiting"}
          /\ cycle' \in {cycle, [cycle EXCEPT ![k.job[1]] = "completed"]}
    BY <1>7 DEF MarkSent
  <2>2. RowsOK'
    BY <1>0, <1>1, <1>7, <2>1 DEF MarkSent, RowsOK, Terminal
  <2>3. TurnOK' /\ EnvOK' /\ TurnBacked'
    BY <1>0, <1>7, <2>1 DEF MarkSent, EndJob, TurnOK, EnvOK, TurnBacked,
       turnVars, metaVars, envVars
  <2> QED BY <1>2, <2>2, <2>3 DEF TypeInv, RowsOK, TurnOK, WorkOK, EnvOK,
             FollowupTypeOK
<1>8. CASE ProcessThrows(w)
  <2>1. PICK k \in cur[w] : ReleaseClaim(k.job) \/ UNCHANGED rowVars
    BY <1>8 DEF ProcessThrows
  <2>2. RowsOK'
    <3>1. CASE ReleaseClaim(k.job) BY <1>0, <1>1, <3>1, ClaimType
    <3>2. CASE UNCHANGED rowVars BY <1>0, <3>2 DEF RowsOK, rowVars
    <3> QED BY <2>1, <3>1, <3>2
  <2>3. TurnOK' /\ EnvOK' /\ TurnBacked'
    BY <1>0, <1>8 DEF ProcessThrows, Fault, EndJob, TurnOK, EnvOK, TurnBacked,
       turnVars, convVars, metaVars, FollowupAssumption
  <2> QED BY <1>2, <2>2, <2>3 DEF TypeInv, RowsOK, TurnOK, WorkOK, EnvOK,
             FollowupTypeOK
<1> QED BY <1>3, <1>4, <1>5, <1>6, <1>7, <1>8 DEF Dispatch

\* Every step keeps the type invariant.
LEMMA TypeStep ==
  ASSUME FollowupAssumption, TypeInv, [Next]_vars
  PROVE  TypeInv'
<1>1. CASE Next
  BY <1>1, EnvironmentType, TurnType, ClaimingType, DispatchType DEF Next
<1>2. CASE UNCHANGED vars
  BY <1>2 DEF vars, rowVars, convVars, turnVars, workVars, metaVars, envVars,
     TypeInv, FollowupTypeOK, TurnBacked
<1> QED BY <1>1, <1>2

\* The initial states have the types.
LEMMA TypeInit ==
  ASSUME FollowupAssumption, Init
  PROVE  TypeInv
BY DEF Init, TypeInv, FollowupTypeOK, TurnBacked, Terminal, WorkerPC,
   FollowupAssumption

\* The type invariant and its strengthening hold throughout.
LEMMA TypeHolds == Spec => []TypeInv
<1> USE FollowupAssumption
<1>1. Init => TypeInv BY TypeInit
<1>2. TypeInv /\ [Next]_vars => TypeInv' BY TypeStep
<1> QED BY <1>1, <1>2, PTL DEF Spec

\* Every row, counter and local of the follow-ups keeps its type.
THEOREM FollowupTypeCorrect == Spec => []FollowupTypeOK
<1>1. TypeInv => FollowupTypeOK BY DEF TypeInv
<1> QED BY TypeHolds, <1>1, PTL
-----------------------------------------------------------------------------
\* Jobs are inserted with their cycle.
Unscheduled == \A j \in Job : cycle[j[1]] = "none" => status[j] = "none"
CycleInv == CyclesAgree /\ Unscheduled

Claimed == {j \in Job : status[j] = "claimed"}

\* The ways a step writes cycles and statuses.
Kept == UNCHANGED <<cycle, status>>
Scheduled == \E c \in Cycle : ScheduleCycle(c)
ClaimedSome == \E S \in SUBSET Due :
  /\ status' = [j \in Job |-> IF j \in S THEN "claimed" ELSE status[j]]
  /\ cycle' = cycle
Recovered == \E S \in SUBSET Claimed :
  /\ status' = [j \in Job |-> IF j \in S THEN "scheduled" ELSE status[j]]
  /\ cycle' = cycle
Settled == \E j \in Job, new \in Open \cup Terminal :
  /\ status' = [status EXCEPT ![j] = IF @ = "claimed" THEN new ELSE @]
  /\ cycle' \in {cycle, [cycle EXCEPT ![j[1]] = "completed"]}

\* A claim that is cancelled or released settles one job or nothing.
LEMMA ClaimSettles ==
  ASSUME RowsOK, NEW k \in Claim, CancelClaim(k) \/ ReleaseClaim(k.job)
  PROVE  Settled \/ Kept
<1>1. k.job \in Job BY DEF Claim
<1>2. CASE CancelClaim(k)
  <2>1. CASE Update(k.job, "cancelled")
    BY <1>1, <2>1 DEF Settled, Update, Terminal
  <2>2. CASE UNCHANGED rowVars
    BY <2>2 DEF Kept, rowVars
  <2> QED BY <1>2, <2>1, <2>2 DEF CancelClaim
<1>3. CASE ReleaseClaim(k.job)
  <2>1. CASE status[k.job] = "claimed"
    <3>1. /\ status' = [status EXCEPT ![k.job] = "scheduled"]
          /\ cycle' = cycle
      BY <1>3, <2>1 DEF ReleaseClaim
    <3>2. status' = [status EXCEPT ![k.job] =
                      IF @ = "claimed" THEN "scheduled" ELSE @]
      BY <2>1, <3>1
    <3> QED BY <1>1, <3>1, <3>2 DEF Settled, Open
  <2>2. CASE status[k.job] # "claimed"
    BY <1>3, <2>2 DEF ReleaseClaim, Kept, rowVars
  <2> QED BY <2>1, <2>2
<1> QED BY <1>2, <1>3

\* Every step is one of these.
LEMMA RowSteps ==
  ASSUME FollowupAssumption, TypeInv, [Next]_vars
  PROVE  Kept \/ CancelConversation \/ Scheduled \/ ClaimedSome \/ Recovered
           \/ Settled
<1>0. RowsOK /\ TurnOK /\ WorkOK /\ TurnBacked
  BY Parts DEF TypeInv
<1>1. CASE CustomerWrites \/ TimePasses \/ ExpireLease \/ LeaseStalls
             \/ TurnLosesLease \/ TurnFails \/ BeginTurn \/ TurnCommit
             \/ TurnResume \/ TurnAck \/ UNCHANGED vars
  BY <1>1 DEF CustomerWrites, TimePasses, ExpireLease, LeaseStalls,
     TurnLosesLease, TurnFails, BeginTurn, TurnCommit, TurnResume, TurnAck,
     vars, rowVars, Kept
<1>2. CASE MarkHumanTakeover \/ TurnCancel
  BY <1>2 DEF MarkHumanTakeover, TurnCancel
<1>3. CASE TurnSchedule
  <2>1. handled + 1 \in Cycle
    BY <1>0, <1>3 DEF TurnSchedule, TurnOK, TurnBacked, Cycle,
       FollowupAssumption
  <2> QED BY <1>3, <2>1 DEF TurnSchedule, Scheduled
<1>4. ASSUME NEW w \in FollowupWorkers,
             ClaimDue(w) \/ ReleaseStaleClaims(w) \/ ReleaseSlowClaims(w)
               \/ StartJob(w) \/ ConversationBusy(w) \/ CrashWorker(w)
      PROVE  Kept \/ ClaimedSome \/ Recovered \/ Settled
  <2>1. CASE ClaimDue(w)
    BY <2>1 DEF ClaimDue, ClaimedSome
  <2>2. CASE ReleaseStaleClaims(w)
    BY <2>2 DEF ReleaseStaleClaims, Recover, Recovered, Claimed
  <2>3. CASE ReleaseSlowClaims(w)
    <3>1. Held \subseteq Job
      BY <1>0 DEF WorkOK, Held, HeldBy, Claim
    <3> QED BY <2>3, <3>1 DEF ReleaseSlowClaims, Recover, Recovered, Claimed
  <2>4. CASE StartJob(w) \/ CrashWorker(w)
    BY <2>4 DEF StartJob, CrashWorker, Kept, rowVars
  <2>5. CASE ConversationBusy(w)
    <3>1. PICK k \in batch[w] : ReleaseClaim(k.job)
      BY <2>5 DEF ConversationBusy
    <3>2. k \in Claim BY <1>0 DEF WorkOK
    <3> QED BY <1>0, <3>1, <3>2, ClaimSettles
  <2> QED BY <1>4, <2>1, <2>2, <2>3, <2>4, <2>5
<1>5. ASSUME NEW w \in FollowupWorkers, Dispatch(w) \/ ProcessThrows(w)
      PROVE  Kept \/ Settled
  <2>0. \A k \in cur[w] : k \in Claim /\ k.job \in Job
    BY <1>0 DEF WorkOK, Claim
  <2>1. CASE RefuseClaim(w) \/ CheckFails(w) \/ BlockPayload(w)
               \/ ProcessThrows(w)
    <3>1. PICK k \in cur[w] :
            CancelClaim(k) \/ ReleaseClaim(k.job) \/ UNCHANGED rowVars
      BY <2>1 DEF RefuseClaim, CheckFails, BlockPayload, ProcessThrows
    <3>2. CASE UNCHANGED rowVars BY <3>2 DEF Kept, rowVars
    <3> QED BY <1>0, <2>0, <3>1, <3>2, ClaimSettles
  <2>2. CASE Shadow(w) \/ MarkSendFailure(w)
    <3>1. PICK k \in cur[w], new \in Open \cup Terminal : Update(k.job, new)
      BY <2>2 DEF Shadow, MarkSendFailure, FailureStatus, Open, Terminal
    <3> QED BY <2>0, <3>1 DEF Update, Settled
  <2>3. CASE LeaveClaimed(w) \/ CheckPasses(w) \/ SendRejected(w)
               \/ SendAccepted(w) \/ SendAmbiguous(w)
    BY <2>3 DEF LeaveClaimed, CheckPasses, SendRejected, SendAccepted,
       SendAmbiguous, Goto, Kept, rowVars
  <2>4. CASE MarkSent(w)
    <3>1. PICK k \in cur[w] :
            /\ status' = [status EXCEPT ![k.job] =
                 IF @ = "claimed" THEN "sent" ELSE @]
            /\ cycle' \in {cycle, [cycle EXCEPT ![k.job[1]] = "completed"]}
      BY <2>4 DEF MarkSent
    <3> QED BY <2>0, <3>1 DEF Settled, Terminal
  <2> QED BY <1>5, <2>1, <2>2, <2>3, <2>4 DEF Dispatch
<1> QED BY <1>1, <1>2, <1>3, <1>4, <1>5 DEF Next, Turn

-----------------------------------------------------------------------------
\* Each of the ways leaves a job that reached its end as it is.
LEMMA EndStep ==
  ASSUME FollowupAssumption, TypeInv, CycleInv, [Next]_vars,
         NEW j \in Job, status[j] \in Terminal
  PROVE  status'[j] = status[j]
<1>0. RowsOK BY Parts DEF TypeInv
<1>1. status[j] \notin Open \cup {"none"} BY DEF Open, Terminal
<1>2. CASE Kept BY <1>2 DEF Kept
<1>3. CASE CancelConversation BY <1>1, <1>3 DEF CancelConversation
<1>4. CASE Scheduled
  <2>1. PICK c \in Cycle : ScheduleCycle(c) BY <1>4 DEF Scheduled
  <2>2. CASE cycle[c] # "none" BY <2>1, <2>2 DEF ScheduleCycle, rowVars
  <2>3. CASE cycle[c] = "none"
    <3>1. j[1] # c BY <1>1, <2>3 DEF CycleInv, Unscheduled
    <3> QED BY <1>1, <2>1, <2>3, <3>1 DEF ScheduleCycle
  <2> QED BY <2>2, <2>3
<1>5. CASE ClaimedSome BY <1>1, <1>5 DEF ClaimedSome, Due, Open
<1>6. CASE Recovered BY <1>1, <1>6 DEF Recovered, Claimed, Open
<1>7. CASE Settled BY <1>0, <1>1, <1>7 DEF Settled, RowsOK, Open
<1> QED BY RowSteps, <1>2, <1>3, <1>4, <1>5, <1>6, <1>7

\* Each of them keeps cycles and jobs in agreement.
LEMMA CycleStep ==
  ASSUME FollowupAssumption, TypeInv, CycleInv, [Next]_vars
  PROVE  CycleInv'
<1>0. RowsOK /\ \A j \in Job : j[1] \in Cycle BY Parts DEF TypeInv, Job
<1>1. CASE Kept BY <1>1 DEF Kept, CycleInv, CyclesAgree, Unscheduled
<1>2. CASE CancelConversation
  <2>1. \A c \in Cycle : cycle'[c] # "active"
    BY <1>2 DEF CancelConversation
  <2>2. \A j \in Job : status'[j] \notin Open
    BY <1>2 DEF CancelConversation, Open
  <2>3. Unscheduled'
    BY <1>0, <1>2 DEF CancelConversation, CycleInv, Unscheduled, Open
  <2> QED BY <2>1, <2>2, <2>3 DEF CycleInv, CyclesAgree
<1>3. CASE Scheduled
  <2>1. PICK c \in Cycle : ScheduleCycle(c) BY <1>3 DEF Scheduled
  <2>2. CASE cycle[c] # "none"
    BY <2>1, <2>2 DEF ScheduleCycle, rowVars, CycleInv, CyclesAgree,
       Unscheduled
  <2>3. CASE cycle[c] = "none"
    <3>1. /\ cycle' = [d \in Cycle |->
               IF d = c THEN "active"
               ELSE IF cycle[d] = "active" THEN "cancelled" ELSE cycle[d]]
          /\ status' = [j \in Job |->
               IF j[1] = c THEN "scheduled"
               ELSE IF status[j] \in Open THEN "cancelled" ELSE status[j]]
      BY <2>1, <2>3 DEF ScheduleCycle
    <3>2. \A d \in Cycle : cycle'[d] = "active" => d = c BY <3>1
    <3>3. \A j \in Job : cycle'[j[1]] = "cancelled" => status'[j] \notin Open
      BY <1>0, <3>1 DEF Open
    <3>4. Unscheduled'
      BY <1>0, <3>1 DEF CycleInv, Unscheduled, Open
    <3> QED BY <3>2, <3>3, <3>4 DEF CycleInv, CyclesAgree
  <2> QED BY <2>2, <2>3
<1>4. CASE ClaimedSome
  <2>1. PICK S \in SUBSET Due :
          /\ status' = [j \in Job |-> IF j \in S THEN "claimed" ELSE status[j]]
          /\ cycle' = cycle
    BY <1>4 DEF ClaimedSome
  <2>2. \A j \in S : cycle[j[1]] = "active" BY DEF Due
  <2> QED BY <1>0, <2>1, <2>2 DEF CycleInv, CyclesAgree, Unscheduled, Open
<1>5. CASE Recovered
  BY <1>0, <1>5 DEF Recovered, Claimed, CycleInv, CyclesAgree, Unscheduled,
     Open
<1>6. CASE Settled
  <2>1. PICK j \in Job, new \in Open \cup Terminal :
          /\ status' = [status EXCEPT ![j] = IF @ = "claimed" THEN new ELSE @]
          /\ cycle' \in {cycle, [cycle EXCEPT ![j[1]] = "completed"]}
    BY <1>6 DEF Settled
  <2>2. \A i \in Job :
          \/ status'[i] = status[i]
          \/ status[i] = "claimed"
    BY <1>0, <2>1 DEF RowsOK
  <2>3. \A c \in Cycle : cycle'[c] = cycle[c] \/ cycle'[c] = "completed"
    BY <1>0, <2>1 DEF RowsOK
  <2> QED BY <1>0, <2>2, <2>3 DEF CycleInv, CyclesAgree, Unscheduled, Open
<1> QED BY RowSteps, <1>1, <1>2, <1>3, <1>4, <1>5, <1>6

\* Both invariants hold throughout.
LEMMA CyclesHold == Spec => [](TypeInv /\ CycleInv)
<1> USE FollowupAssumption
<1>1. Init => CycleInv
  BY DEF Init, CycleInv, CyclesAgree, Unscheduled, Job, Open
<1>2. TypeInv /\ CycleInv /\ [Next]_vars => CycleInv' BY CycleStep
<1> QED BY <1>1, <1>2, TypeHolds, PTL DEF Spec

\* At most one cycle is active and a cancelled one has no open job.
THEOREM CyclesStayInAgreement == Spec => []CyclesAgree
<1>1. CycleInv => CyclesAgree BY DEF CycleInv
<1> QED BY CyclesHold, <1>1, PTL

\* A job that reached an end keeps it, whoever still holds a claim on it.
THEOREM JobsStayEnded == Spec => EndIsFinal
<1> USE FollowupAssumption
<1>1. TypeInv /\ CycleInv /\ [Next]_vars =>
        [\A j \in Job : status[j] \in Terminal => status'[j] = status[j]]_vars
  BY EndStep
<1> QED BY <1>1, CyclesHold, PTL DEF Spec, EndIsFinal

-----------------------------------------------------------------------------
(* What a worker holds: the claims of its batch and the one it processes,  *)
(* each on a job of its own.                                               *)

Claims(w) == batch[w] \cup cur[w]
Answered == {"sent", "ambiguous"}
\* Claims whose message is still to go out.
ToSend(w) == batch[w] \cup (IF pc[w] \in Answered THEN {} ELSE cur[w])

Holds(w, j) == \E k \in Claims(w) : k.job = j
Bears(w, j) == \E k \in ToSend(w) : k.job = j

ShapeOK(w) ==
  /\ pc[w] \in {"idle", "batch"} => cur[w] = {}
  /\ pc[w] = "idle" => batch[w] = {}
  /\ \A k \in cur[w] : cur[w] = {k} /\ k \notin batch[w]
  /\ \A k, l \in Claims(w) : k.job = l.job => k = l
Shape == \A w \in FollowupWorkers : ShapeOK(w)

\* The steps that deal with a claim and let go of it.
Drops(w) ==
  \/ ConversationBusy(w) \/ RefuseClaim(w) \/ Shadow(w) \/ LeaveClaimed(w)
  \/ CheckFails(w) \/ BlockPayload(w) \/ MarkSent(w) \/ MarkSendFailure(w)
  \/ ProcessThrows(w)
Sends(w) == SendAccepted(w) \/ SendAmbiguous(w)
Moves(w) == CheckPasses(w) \/ SendRejected(w)
Recovers(w) == ReleaseStaleClaims(w) \/ ReleaseSlowClaims(w)
Acts(w) ==
  ClaimDue(w) \/ Recovers(w) \/ StartJob(w) \/ Drops(w) \/ Sends(w) \/ Moves(w)
    \/ CrashWorker(w)
\* The steps of the customer, staff, the clock and the turn.
Elsewhere ==
  \/ CustomerWrites \/ MarkHumanTakeover \/ TimePasses \/ Turn
  \/ TurnLosesLease \/ TurnFails \/ ExpireLease \/ LeaseStalls

\* A step is taken by one worker, or elsewhere.
LEMMA StepKinds ==
  ASSUME [Next]_vars
  PROVE  \/ \E w \in FollowupWorkers : Acts(w)
         \/ Elsewhere \/ UNCHANGED vars
BY DEF Next, Acts, Elsewhere, Drops, Sends, Moves, Recovers, Dispatch

\* Elsewhere nothing that workers hold and nothing Meta answered changes.
LEMMA ElsewhereKeeps ==
  ASSUME Elsewhere \/ UNCHANGED vars
  PROVE  UNCHANGED <<pc, batch, cur, accepted, doubtful>>
BY DEF Elsewhere, CustomerWrites, MarkHumanTakeover, TimePasses, Turn, BeginTurn,
   TurnCancel, TurnCommit, TurnResume, TurnSchedule, TurnAck, TurnLosesLease,
   TurnFails, ExpireLease, LeaseStalls, vars, workVars, metaVars

\* A claim that is dealt with leaves the worker's hands.
Leaves(w, k) ==
  /\ k \in Claims(w) /\ k \in Claim
  /\ pc'[w] = AfterJob(batch'[w])
  /\ \/ /\ pc[w] = "batch" /\ k \in batch[w]
        /\ batch'[w] = batch[w] \ {k} /\ cur'[w] = cur[w]
     \/ /\ k \in cur[w] /\ batch'[w] = batch[w] /\ cur'[w] = {}

\* The steps of a worker leave what the others hold alone.
LEMMA OthersKept ==
  ASSUME TypeInv, NEW w \in FollowupWorkers, Acts(w)
  PROVE  \A v \in FollowupWorkers \ {w} :
           pc'[v] = pc[v] /\ batch'[v] = batch[v] /\ cur'[v] = cur[v]
<1> USE DEF TypeInv, FollowupTypeOK
<1>1. CASE ClaimDue(w)
  BY <1>1 DEF ClaimDue
<1>2. CASE Recovers(w)
  BY <1>2 DEF Recovers, ReleaseStaleClaims, ReleaseSlowClaims, workVars
<1>3. CASE StartJob(w)
  BY <1>3 DEF StartJob, TakeJob
<1>4. CASE ConversationBusy(w)
  BY <1>4 DEF ConversationBusy
<1>5. CASE Drops(w) /\ ~ConversationBusy(w)
  <2>1. EndJob(w)
    BY <1>5 DEF Drops, RefuseClaim, Shadow, LeaveClaimed, CheckFails, BlockPayload,
       MarkSent, MarkSendFailure, ProcessThrows
  <2> QED BY <2>1 DEF EndJob
<1>6. CASE Sends(w) \/ Moves(w)
  <2>1. \E l \in WorkerPC : Goto(w, l)
    BY <1>6 DEF Sends, Moves, CheckPasses, SendAccepted, SendAmbiguous, SendRejected,
       WorkerPC
  <2> QED BY <2>1 DEF Goto
<1>7. CASE CrashWorker(w)
  BY <1>7 DEF CrashWorker
<1> QED BY <1>1, <1>2, <1>3, <1>4, <1>5, <1>6, <1>7 DEF Acts

\* A drop lets one claim go.
LEMMA DropLeaves ==
  ASSUME TypeInv, NEW w \in FollowupWorkers, Drops(w)
  PROVE  /\ ConversationBusy(w) =>
              \E k \in batch[w] : Leaves(w, k) /\ ReleaseClaim(k.job)
         /\ ~ConversationBusy(w) => \A k \in cur[w] : Leaves(w, k)
<1> USE DEF TypeInv, FollowupTypeOK
<1>1. ASSUME ConversationBusy(w)
      PROVE  \E k \in batch[w] : Leaves(w, k) /\ ReleaseClaim(k.job)
  <2>1. PICK k \in batch[w] :
          /\ ReleaseClaim(k.job)
          /\ batch' = [batch EXCEPT ![w] = @ \ {k}]
          /\ pc' = [pc EXCEPT ![w] = AfterJob(batch[w] \ {k})]
    BY <1>1 DEF ConversationBusy
  <2>2. batch'[w] = batch[w] \ {k} /\ pc'[w] = AfterJob(batch'[w]) /\ cur' = cur
    BY <1>1, <2>1 DEF ConversationBusy
  <2>3. k \in Claim
    BY <2>1
  <2> QED BY <1>1, <2>1, <2>2, <2>3 DEF Leaves, Claims, ConversationBusy
<1>2. ASSUME ~ConversationBusy(w), NEW k \in cur[w] PROVE Leaves(w, k)
  <2>1. EndJob(w)
    BY <1>2 DEF Drops, RefuseClaim, Shadow, LeaveClaimed, CheckFails, BlockPayload,
       MarkSent, MarkSendFailure, ProcessThrows
  <2>2. batch' = batch /\ cur'[w] = {} /\ pc'[w] = AfterJob(batch[w])
    BY <2>1 DEF EndJob
  <2>3. k \in Claim
    BY <1>2
  <2> QED BY <1>2, <2>2, <2>3 DEF Leaves, Claims
<1> QED BY <1>1, <1>2

\* Every step keeps Shape.
LEMMA ShapeStep ==
  ASSUME TypeInv, Shape, [Next]_vars
  PROVE  Shape'
<1> USE DEF TypeInv, FollowupTypeOK
<1>1. CASE Elsewhere \/ UNCHANGED vars
  BY <1>1, ElsewhereKeeps DEF Shape, ShapeOK, Claims
<1>2. ASSUME NEW w \in FollowupWorkers, Acts(w) PROVE Shape'
  <2>1. \A v \in FollowupWorkers \ {w} : ShapeOK(v)'
    BY <1>2, OthersKept DEF Shape, ShapeOK, Claims
  <2>2. ShapeOK(w)
    BY DEF Shape
  <2>3. CASE ClaimDue(w)
    <3>1. PICK S \in SUBSET Due \ {{}} :
            batch' = [batch EXCEPT ![w] =
              {[job |-> j, attempt |-> attempt[j] + 1,
                eligible |-> Eligible(j[1])] : j \in S}]
      BY <2>3 DEF ClaimDue
    <3>2. /\ pc[w] = "idle" /\ pc'[w] = "batch" /\ cur'[w] = {}
          /\ \A k, l \in batch'[w] : k.job = l.job => k = l
      BY <2>2, <2>3, <3>1 DEF ClaimDue, ShapeOK
    <3>3. ShapeOK(w)'
      BY <3>2 DEF ShapeOK, Claims
    <3> QED BY <2>1, <3>3 DEF Shape
  <2>4. CASE Recovers(w)
    BY <2>4 DEF Shape, ShapeOK, Claims, Recovers, ReleaseStaleClaims,
       ReleaseSlowClaims, workVars
  <2>5. CASE StartJob(w)
    <3>1. PICK k \in batch[w] : cur'[w] = {k} /\ batch'[w] = batch[w] \ {k}
      BY <2>5 DEF StartJob, TakeJob
    <3>2. pc'[w] = "process" /\ Claims(w)' \subseteq Claims(w)
      BY <2>5, <3>1 DEF StartJob, Claims
    <3>3. ShapeOK(w)'
      BY <2>2, <3>1, <3>2 DEF ShapeOK
    <3> QED BY <2>1, <3>3 DEF Shape
  <2>6. CASE Drops(w)
    <3>1. Claims(w)' \subseteq Claims(w) /\ cur'[w] = {} /\ pc'[w] = AfterJob(batch'[w])
      <4>1. CASE ConversationBusy(w)
        <5>1. cur[w] = {}
          BY <2>2, <4>1 DEF ConversationBusy, ShapeOK
        <5> QED BY <2>6, <4>1, <5>1, DropLeaves DEF Leaves, Claims
      <4>2. CASE ~ConversationBusy(w)
        <5>1. EndJob(w)
          BY <2>6, <4>2 DEF Drops, RefuseClaim, Shadow, LeaveClaimed, CheckFails,
             BlockPayload, MarkSent, MarkSendFailure, ProcessThrows
        <5> QED BY <5>1 DEF EndJob, Claims
      <4> QED BY <4>1, <4>2
    <3>2. ShapeOK(w)'
      BY <2>2, <3>1 DEF ShapeOK, AfterJob
    <3> QED BY <2>1, <3>2 DEF Shape
  <2>7. CASE Sends(w) \/ Moves(w)
    <3>1. PICK l \in WorkerPC \ {"idle", "batch"} : Goto(w, l)
      BY <2>7 DEF Sends, Moves, CheckPasses, SendAccepted, SendAmbiguous, SendRejected,
         WorkerPC
    <3>2. ShapeOK(w)'
      BY <2>2, <3>1 DEF Goto, ShapeOK, Claims
    <3> QED BY <2>1, <3>2 DEF Shape
  <2>8. CASE CrashWorker(w)
    <3>1. ShapeOK(w)'
      BY <2>8 DEF CrashWorker, ShapeOK, Claims
    <3> QED BY <2>1, <3>1 DEF Shape
  <2> QED BY <1>2, <2>3, <2>4, <2>5, <2>6, <2>7, <2>8 DEF Acts
<1> QED BY <1>1, <1>2, StepKinds

-----------------------------------------------------------------------------
(* What becomes of the row of a claim that a worker lets go.               *)

\* The job reached an end.
Ended(k) == status'[k.job] \in Terminal /\ attempt'[k.job] = attempt[k.job]
\* The row stays claimed only if the claim had to go out yet and was stale or
\* without its lease, or if a call failed.
Left(w, k) ==
  /\ status'[k.job] = status[k.job] /\ attempt'[k.job] = attempt[k.job]
  /\ status[k.job] = "claimed" =>
       \/ faults' = faults + 1
       \/ k \in ToSend(w) /\ k.attempt # attempt[k.job]
       \/ k \in ToSend(w) /\ k \in cur[w] /\ lease # w
\* It is scheduled for another attempt,
Reopened(w, k) ==
  /\ status[k.job] = "claimed" /\ status'[k.job] = "scheduled"
  /\ attempt'[k.job] = attempt[k.job]
  /\ k \in ToSend(w) /\ k.attempt < MaxAttempts
\* or given back with the attempt that claiming it had counted.
Released(w, k) ==
  /\ status[k.job] = "claimed" /\ status'[k.job] = "scheduled"
  /\ attempt'[k.job] = IF attempt[k.job] = 0 THEN 0 ELSE attempt[k.job] - 1
  /\ k \in ToSend(w) \/ faults' = faults + 1

Outcome(w, k) ==
  /\ Leaves(w, k)
  /\ Ended(k) \/ Left(w, k) \/ Reopened(w, k) \/ Released(w, k)
  /\ \A j \in Job \ {k.job} : status'[j] = status[j] /\ attempt'[j] = attempt[j]

\* A release of a claim writes its row or nothing.
LEMMA ReleaseEffect ==
  ASSUME RowsOK, NEW k \in Claim, ReleaseClaim(k.job)
  PROVE  /\ \A j \in Job \ {k.job} : status'[j] = status[j] /\ attempt'[j] = attempt[j]
         /\ status[k.job] # "claimed" =>
              status'[k.job] = status[k.job] /\ attempt'[k.job] = attempt[k.job]
         /\ status[k.job] = "claimed" =>
              /\ status'[k.job] = "scheduled"
              /\ attempt'[k.job] = IF attempt[k.job] = 0 THEN 0 ELSE attempt[k.job] - 1
<1>1. k.job \in Job BY DEF Claim
<1>2. CASE status[k.job] = "claimed"
  BY <1>1, <1>2 DEF ReleaseClaim, RowsOK
<1>3. CASE status[k.job] # "claimed"
  BY <1>1, <1>3 DEF ReleaseClaim, RowsOK, rowVars
<1> QED BY <1>2, <1>3

\* So does a guarded update.
LEMMA UpdateEffect ==
  ASSUME RowsOK, NEW j \in Job, NEW new, Update(j, new)
  PROVE  /\ attempt' = attempt
         /\ \A i \in Job \ {j} : status'[i] = status[i]
         /\ status[j] # "claimed" => status'[j] = status[j]
         /\ status[j] = "claimed" => status'[j] = new
BY DEF Update, RowsOK

\* And a cancelled claim, if its attempt is the row's.
LEMMA CancelEffect ==
  ASSUME RowsOK, NEW k \in Claim, CancelClaim(k)
  PROVE  /\ attempt' = attempt
         /\ \A i \in Job \ {k.job} : status'[i] = status[i]
         /\ \/ status'[k.job] = "cancelled"
            \/ /\ status'[k.job] = status[k.job]
               /\ status[k.job] = "claimed" => k.attempt # attempt[k.job]
<1>1. k.job \in Job BY DEF Claim
<1>2. CASE attempt[k.job] = k.attempt
  BY <1>1, <1>2, UpdateEffect DEF CancelClaim
<1>3. CASE attempt[k.job] # k.attempt
  BY <1>3 DEF CancelClaim, rowVars
<1> QED BY <1>2, <1>3

\* Every drop is one of these, and touches the row of no other job.
LEMMA DropOutcome ==
  ASSUME TypeInv, Shape, NEW w \in FollowupWorkers, Drops(w)
  PROVE  \E k \in Claims(w) : Outcome(w, k)
<1>0. RowsOK /\ WorkOK BY Parts DEF TypeInv
<1>1. \A k \in Claims(w) : k \in Claim /\ k.job \in Job
  BY <1>0 DEF WorkOK, Claims, Claim
<1>2. CASE ConversationBusy(w)
  <2>1. PICK k \in batch[w] : Leaves(w, k) /\ ReleaseClaim(k.job)
    BY <1>2, DropLeaves
  <2>2. k \in Claims(w) /\ k \in ToSend(w)
    BY DEF Claims, ToSend
  <2>3. Left(w, k) \/ Released(w, k)
    BY <1>0, <1>1, <2>1, <2>2, ReleaseEffect DEF Left, Released
  <2> QED BY <1>0, <1>1, <2>1, <2>2, <2>3, ReleaseEffect DEF Outcome
<1>3. CASE ~ConversationBusy(w)
  <2>0. \A k \in cur[w] : Leaves(w, k) /\ k \in Claims(w) /\ k \in Claim /\ k.job \in Job
    BY <1>1, <1>3, DropLeaves DEF Claims
  <2>1. \A k \in cur[w] : pc[w] \notin Answered => k \in ToSend(w)
    BY DEF ToSend
  <2>2. CASE RefuseClaim(w) \/ CheckFails(w) \/ BlockPayload(w)
    <3>1. PICK k \in cur[w] : CancelClaim(k)
      BY <2>2 DEF RefuseClaim, CheckFails, BlockPayload
    <3>2. pc[w] \notin Answered
      BY <2>2 DEF RefuseClaim, CheckFails, Checking, BlockPayload, Answered
    <3>3. Ended(k) \/ Left(w, k)
      BY <1>0, <2>0, <2>1, <3>1, <3>2, CancelEffect DEF Ended, Left, Terminal
    <3> QED BY <1>0, <2>0, <3>1, <3>3, CancelEffect DEF Outcome
  <2>3. CASE Shadow(w) \/ MarkSendFailure(w)
    <3>1. PICK k \in cur[w], new \in Open \cup Terminal :
            /\ Update(k.job, new)
            /\ \/ new \in Terminal
               \/ new = "scheduled" /\ pc[w] = "retryable" /\ k.attempt < MaxAttempts
      <4>1. CASE Shadow(w)
        BY <4>1 DEF Shadow, Terminal
      <4>2. CASE MarkSendFailure(w)
        BY <4>2 DEF MarkSendFailure, FailureStatus, Terminal, Open
      <4> QED BY <2>3, <4>1, <4>2
    <3>2. Ended(k) \/ Left(w, k) \/ Reopened(w, k)
      BY <1>0, <2>0, <2>1, <3>1, UpdateEffect DEF Ended, Left, Reopened, Answered
    <3> QED BY <1>0, <2>0, <3>1, <3>2, UpdateEffect DEF Outcome
  <2>4. CASE LeaveClaimed(w)
    <3>1. PICK k \in cur[w] : Checking(w, k)
      BY <2>4 DEF LeaveClaimed
    <3>2. lease # w /\ pc[w] \notin Answered /\ UNCHANGED rowVars
      BY <2>4, <3>1 DEF LeaveClaimed, Checking, Answered
    <3>3. Left(w, k)
      BY <2>1, <3>1, <3>2 DEF Left, rowVars
    <3> QED BY <2>0, <3>1, <3>2, <3>3 DEF Outcome, rowVars
  <2>5. CASE MarkSent(w)
    <3>1. PICK k \in cur[w] : status' = [status EXCEPT ![k.job] =
                                          IF @ = "claimed" THEN "sent" ELSE @]
      BY <2>5 DEF MarkSent
    <3>2. attempt' = attempt
      BY <2>5 DEF MarkSent
    <3>3. Ended(k) \/ Left(w, k)
      BY <1>0, <2>0, <3>1, <3>2 DEF Ended, Left, Terminal, RowsOK
    <3> QED BY <1>0, <2>0, <3>1, <3>2, <3>3 DEF Outcome, RowsOK
  <2>6. CASE ProcessThrows(w)
    <3>1. PICK k \in cur[w] : ReleaseClaim(k.job) \/ UNCHANGED rowVars
      BY <2>6 DEF ProcessThrows
    <3>2. faults' = faults + 1
      BY <2>6 DEF ProcessThrows, Fault
    <3>3. CASE ReleaseClaim(k.job)
      <4>1. Left(w, k) \/ Released(w, k)
        BY <1>0, <2>0, <3>2, <3>3, ReleaseEffect DEF Left, Released
      <4> QED BY <1>0, <2>0, <3>3, <4>1, ReleaseEffect DEF Outcome
    <3>4. CASE UNCHANGED rowVars
      BY <2>0, <3>2, <3>4 DEF Outcome, Left, rowVars
    <3> QED BY <3>1, <3>3, <3>4
  <2> QED BY <1>3, <2>2, <2>3, <2>4, <2>5, <2>6 DEF Drops
<1> QED BY <1>2, <1>3

\* The worker keeps all other claims and only those.
LEMMA LeavesEffect ==
  ASSUME Shape, NEW w \in FollowupWorkers, NEW k, Leaves(w, k), NEW j
  PROVE  /\ Holds(w, j)' <=> Holds(w, j) /\ j # k.job
         /\ Bears(w, j)' <=> Bears(w, j) /\ j # k.job
         /\ cur'[w] = {}
         /\ Claims(w)' = Claims(w) \ {k} /\ ToSend(w)' \subseteq ToSend(w)
<1>1. ShapeOK(w) /\ k \in Claims(w)
  BY DEF Shape, Leaves
<1>2. cur'[w] = {} /\ batch'[w] = Claims(w) \ {k}
  <2>1. CASE pc[w] = "batch"
    BY <1>1, <2>1 DEF Leaves, ShapeOK, Claims
  <2>2. CASE k \in cur[w]
    BY <1>1, <2>2 DEF Leaves, ShapeOK, Claims
  <2> QED BY <2>1, <2>2 DEF Leaves
<1>3. Claims(w)' = Claims(w) \ {k} /\ ToSend(w)' = Claims(w) \ {k}
  BY <1>2 DEF Claims, ToSend
<1>4. \A l \in Claims(w) : l.job # k.job => l \in ToSend(w) \/ l \in cur[w]
  BY DEF Claims, ToSend
<1>5. \A l \in Claims(w) \ {k} : l.job # k.job /\ l \in ToSend(w)
  <2>1. CASE k \in cur[w]
    BY <1>1, <2>1 DEF ShapeOK, Claims, ToSend
  <2>2. CASE pc[w] = "batch"
    BY <1>1, <2>2 DEF ShapeOK, Claims, ToSend
  <2> QED BY <1>1, <2>1, <2>2 DEF Leaves, ShapeOK
<1>6. ToSend(w) \subseteq Claims(w)
  BY DEF ToSend, Claims
<1> QED BY <1>2, <1>3, <1>5, <1>6 DEF Holds, Bears

-----------------------------------------------------------------------------
(* The counters of the environment *)

Paid == faults + stalls

\* They never go back, and a worker's step makes one fault or stall at most.
LEMMA CountersMove ==
  ASSUME FollowupAssumption, TypeInv, [Next]_vars
  PROVE  /\ faults \in Nat /\ stalls \in Nat /\ faults' \in Nat /\ stalls' \in Nat
         /\ faults' \in {faults, faults + 1} /\ stalls' \in {stalls, stalls + 1}
         /\ takeovers' >= takeovers
<1>1. faults \in Nat /\ stalls \in Nat /\ takeovers \in Nat
  BY DEF TypeInv, FollowupTypeOK, FollowupAssumption
<1>2. CASE Elsewhere \/ UNCHANGED vars
  <2>1. /\ faults' \in {faults, faults + 1} /\ stalls' \in {stalls, stalls + 1}
        /\ takeovers' \in {takeovers, takeovers + 1}
    BY <1>2 DEF Elsewhere, CustomerWrites, MarkHumanTakeover, TimePasses, Turn, BeginTurn,
       TurnCancel, TurnCommit, TurnResume, TurnSchedule, TurnAck, TurnLosesLease,
       TurnFails, ExpireLease, LeaseStalls, vars, envVars, Fault, Stall
  <2> QED BY <1>1, <2>1
<1>3. ASSUME NEW w \in FollowupWorkers, Acts(w)
      PROVE  /\ faults' \in {faults, faults + 1} /\ stalls' \in {stalls, stalls + 1}
             /\ takeovers' = takeovers
  BY <1>3 DEF Acts, ClaimDue, Recovers, ReleaseStaleClaims, ReleaseSlowClaims, StartJob,
     Drops, ConversationBusy, RefuseClaim, Shadow, LeaveClaimed, CheckFails, BlockPayload,
     MarkSent, MarkSendFailure, ProcessThrows, Sends, SendAccepted, SendAmbiguous, Moves,
     CheckPasses, SendRejected, CrashWorker, Fault, Stall, envVars
<1> QED BY <1>1, <1>2, <1>3, StepKinds

-----------------------------------------------------------------------------
(* While no lease or claim runs out under a worker, a claim has one owner, *)
(* who works under the lease of the conversation.                          *)

Sole == stalls = 0 =>
  \A w \in FollowupWorkers : \A j \in Job : Holds(w, j) =>
    /\ status[j] \notin {"none", "scheduled"}
    /\ \A v \in FollowupWorkers \ {w} : ~Holds(v, j)
UnderLease == stalls = 0 =>
  /\ tpc # "idle" => lease = Inbound
  /\ \A w \in FollowupWorkers : cur[w] # {} => lease = w

\* What others hold is not touched.
LEMMA HoldsElsewhere ==
  ASSUME TypeInv, NEW w \in FollowupWorkers, Acts(w),
         NEW v \in FollowupWorkers, v # w, NEW j
  PROVE  (Holds(v, j)' <=> Holds(v, j)) /\ (Bears(v, j)' <=> Bears(v, j))
BY OthersKept DEF Holds, Bears, Claims, ToSend

\* Elsewhere no open job comes back and no claim is made.
LEMMA ElsewhereRows ==
  ASSUME FollowupAssumption, TypeInv, CycleInv, Elsewhere \/ UNCHANGED vars, NEW j \in Job
  PROVE  /\ attempt' = attempt
         /\ \/ status'[j] = status[j] \/ status'[j] = "cancelled"
            \/ status[j] = "none" /\ status'[j] = "scheduled"
<1>1. CASE MarkHumanTakeover \/ TurnCancel
  BY <1>1 DEF MarkHumanTakeover, TurnCancel, CancelConversation
<1>2. CASE TurnSchedule
  <2>1. handled + 1 \in Cycle
    BY <1>2 DEF TurnSchedule, TypeInv, FollowupTypeOK, TurnBacked, Cycle, FollowupAssumption
  <2>2. CASE cycle[handled + 1] # "none"
    BY <1>2, <2>2 DEF TurnSchedule, ScheduleCycle, rowVars
  <2>3. CASE cycle[handled + 1] = "none"
    <3>1. j[1] = handled + 1 => status[j] = "none"
      BY <2>3 DEF CycleInv, Unscheduled
    <3> QED BY <1>2, <2>3, <3>1 DEF TurnSchedule, ScheduleCycle
  <2> QED BY <2>2, <2>3
<1>3. CASE UNCHANGED rowVars
  BY <1>3 DEF rowVars
<1> QED BY <1>1, <1>2, <1>3 DEF Elsewhere, CustomerWrites, TimePasses, Turn, BeginTurn,
       TurnCommit, TurnResume, TurnAck, TurnLosesLease, TurnFails, ExpireLease,
       LeaseStalls, vars

\* Recovery schedules claimed jobs again: those that nobody holds, or, as a stall, any.
LEMMA RecoverEffect ==
  ASSUME TypeInv, NEW w \in FollowupWorkers, Recovers(w), NEW j \in Job
  PROVE  /\ attempt' = attempt
         /\ \/ status'[j] = status[j]
            \/ /\ status[j] = "claimed" /\ status'[j] = "scheduled"
               /\ stalls' = stalls + 1 \/ \A v \in FollowupWorkers : ~Holds(v, j)
<1> USE DEF TypeInv, FollowupTypeOK
<1>1. CASE ReleaseStaleClaims(w)
  <2>1. j \notin Held => \A v \in FollowupWorkers : ~Holds(v, j)
    BY DEF Held, HeldBy, Holds, Claims
  <2> QED BY <1>1, <2>1 DEF ReleaseStaleClaims, Recover
<1>2. CASE ReleaseSlowClaims(w)
  BY <1>2 DEF ReleaseSlowClaims, Recover, Stall
<1> QED BY <1>1, <1>2 DEF Recovers

\* A worker that claims held nothing, and holds what was due.
LEMMA ClaimEffect ==
  ASSUME TypeInv, Shape, NEW w \in FollowupWorkers, ClaimDue(w), NEW j \in Job
  PROVE  /\ ~Holds(w, j) /\ ~Bears(w, j)
         /\ \/ /\ ~Holds(w, j)' /\ ~Bears(w, j)'
               /\ status'[j] = status[j] /\ attempt'[j] = attempt[j]
            \/ /\ status[j] = "scheduled" /\ status'[j] = "claimed"
               /\ attempt'[j] = attempt[j] + 1
               /\ Holds(w, j)' /\ Bears(w, j)'
               /\ \A k \in Claims(w)' : k.job = j => k.attempt = attempt'[j]
         /\ cur'[w] = {}
<1> USE DEF TypeInv, FollowupTypeOK
<1>1. PICK S \in SUBSET Due \ {{}} :
        /\ status' = [i \in Job |-> IF i \in S THEN "claimed" ELSE status[i]]
        /\ attempt' = [i \in Job |-> IF i \in S THEN attempt[i] + 1 ELSE attempt[i]]
        /\ batch' = [batch EXCEPT ![w] =
             {[job |-> i, attempt |-> attempt[i] + 1,
               eligible |-> Eligible(i[1])] : i \in S}]
  BY DEF ClaimDue
<1>2. batch[w] = {} /\ cur[w] = {} /\ cur' = cur /\ pc'[w] = "batch"
  BY DEF ClaimDue, Shape, ShapeOK
<1>3. batch'[w] = {[job |-> i, attempt |-> attempt[i] + 1,
                    eligible |-> Eligible(i[1])] : i \in S}
  BY <1>1
<1>4. Claims(w)' = batch'[w] /\ ToSend(w)' = batch'[w]
  BY <1>2 DEF Claims, ToSend, Answered
<1>5. ~Holds(w, j) /\ ~Bears(w, j)
  BY <1>2 DEF Holds, Bears, Claims, ToSend
<1>6. CASE j \notin S
  <2>1. ~Holds(w, j)' /\ ~Bears(w, j)'
    BY <1>3, <1>4, <1>6 DEF Holds, Bears
  <2> QED BY <1>1, <1>2, <1>5, <1>6, <2>1
<1>7. CASE j \in S
  <2>1. status[j] = "scheduled" /\ status'[j] = "claimed" /\ attempt'[j] = attempt[j] + 1
    BY <1>1, <1>7 DEF Due
  <2>2. Holds(w, j)' /\ Bears(w, j)'
    <3> DEFINE k == [job |-> j, attempt |-> attempt[j] + 1, eligible |-> Eligible(j[1])]
    <3>1. k \in batch'[w]
      BY <1>3, <1>7
    <3>2. k.job = j
      OBVIOUS
    <3> HIDE DEF k
    <3> QED BY <1>4, <3>1, <3>2 DEF Holds, Bears
  <2>3. \A k \in Claims(w)' : k.job = j => k.attempt = attempt'[j]
    BY <1>3, <1>4, <2>1
  <2> QED BY <1>2, <1>5, <2>1, <2>2, <2>3
<1> QED BY <1>6, <1>7

\* Starting a job, sending and judging leave what a worker holds, and the rows.
LEMMA StaysHeld ==
  ASSUME TypeInv, Shape, NEW w \in FollowupWorkers,
         StartJob(w) \/ Sends(w) \/ Moves(w)
  PROVE  UNCHANGED <<status, attempt, cycle, human>> /\ Claims(w)' = Claims(w)
<1> USE DEF TypeInv, FollowupTypeOK
<1>1. CASE StartJob(w)
  <2>1. PICK k \in batch[w] : cur'[w] = {k} /\ batch'[w] = batch[w] \ {k}
    BY <1>1 DEF StartJob, TakeJob
  <2>2. cur[w] = {}
    BY <1>1 DEF StartJob, Shape, ShapeOK
  <2> QED BY <1>1, <2>1, <2>2 DEF StartJob, Claims, rowVars, convVars
<1>2. CASE Sends(w) \/ Moves(w)
  <2>1. \E l \in WorkerPC : Goto(w, l)
    BY <1>2 DEF Sends, Moves, CheckPasses, SendAccepted, SendAmbiguous, SendRejected,
       WorkerPC
  <2> QED BY <2>1 DEF Goto, Claims, rowVars, convVars
<1> QED BY <1>1, <1>2

\* Every step keeps a claim's owner the only one.
LEMMA SoleStep ==
  ASSUME FollowupAssumption, TypeInv, CycleInv, Shape, Sole, [Next]_vars
  PROVE  Sole'
<1> SUFFICES ASSUME stalls' = 0, NEW v \in FollowupWorkers, NEW j \in Job, Holds(v, j)'
             PROVE  /\ status'[j] \notin {"none", "scheduled"}
                    /\ \A u \in FollowupWorkers \ {v} : ~Holds(u, j)'
  BY DEF Sole
<1>0. stalls = 0 /\ stalls' # stalls + 1
  BY CountersMove
<1>1. \A u \in FollowupWorkers : Holds(u, j) =>
        /\ status[j] \notin {"none", "scheduled"}
        /\ \A x \in FollowupWorkers \ {u} : ~Holds(x, j)
  BY <1>0 DEF Sole
<1>2. CASE Elsewhere \/ UNCHANGED vars
  <2>1. \A u \in FollowupWorkers : Holds(u, j)' <=> Holds(u, j)
    BY <1>2, ElsewhereKeeps DEF Holds, Claims
  <2> QED BY <1>1, <1>2, <2>1, ElsewhereRows
<1>3. ASSUME NEW w \in FollowupWorkers, Acts(w)
      PROVE  /\ status'[j] \notin {"none", "scheduled"}
             /\ \A u \in FollowupWorkers \ {v} : ~Holds(u, j)'
  <2>0. \A u \in FollowupWorkers \ {w} : Holds(u, j)' <=> Holds(u, j)
    BY <1>3, HoldsElsewhere
  <2>1. CASE ClaimDue(w)
    BY <1>1, <2>0, <2>1, ClaimEffect
  <2>2. CASE Recovers(w)
    <3>1. Holds(w, j)' <=> Holds(w, j)
      BY <2>2 DEF Recovers, ReleaseStaleClaims, ReleaseSlowClaims, workVars, Holds, Claims
    <3> QED BY <1>0, <1>1, <2>0, <2>2, <3>1, RecoverEffect
  <2>3. CASE StartJob(w) \/ Sends(w) \/ Moves(w)
    <3>1. Holds(w, j)' <=> Holds(w, j)
      BY <2>3, StaysHeld DEF Holds
    <3> QED BY <1>1, <2>0, <2>3, <3>1, StaysHeld
  <2>4. CASE Drops(w)
    <3>1. PICK k \in Claims(w) : Outcome(w, k)
      BY <2>4, DropOutcome
    <3>2. Holds(w, j)' <=> Holds(w, j) /\ j # k.job
      BY <3>1, LeavesEffect DEF Outcome
    <3>3. Holds(w, k.job)
      BY DEF Holds
    <3>4. j # k.job
      BY <1>1, <2>0, <3>2, <3>3
    <3> QED BY <1>1, <2>0, <3>1, <3>2, <3>4 DEF Outcome
  <2>5. CASE CrashWorker(w)
    <3>1. ~Holds(w, j)' /\ UNCHANGED status
      BY <2>5 DEF CrashWorker, Holds, Claims, TypeInv, FollowupTypeOK, rowVars
    <3> QED BY <1>1, <2>0, <3>1
  <2> QED BY <1>3, <2>1, <2>2, <2>3, <2>4, <2>5 DEF Acts
<1> QED BY <1>2, <1>3, StepKinds

\* What a worker's step makes of the lease.
LEMMA LeaseMoves ==
  ASSUME FollowupAssumption, TypeInv, Shape, NEW w \in FollowupWorkers, Acts(w)
  PROVE  /\ \A v \in (FollowupWorkers \cup {Inbound}) \ {w} : lease' = v <=> lease = v
         /\ cur'[w] # {} => \/ StartJob(w) /\ lease' = w
                            \/ lease' = lease /\ cur'[w] = cur[w]
         /\ UNCHANGED <<tpc, handled, written, human>>
<1> USE DEF TypeInv, FollowupTypeOK, FollowupAssumption
<1>1. CASE ClaimDue(w)
  BY <1>1 DEF ClaimDue, turnVars, convVars
<1>2. CASE Recovers(w)
  BY <1>2 DEF Recovers, ReleaseStaleClaims, ReleaseSlowClaims, turnVars, convVars, workVars
<1>3. CASE StartJob(w)
  BY <1>3 DEF StartJob, TakeJob, turnVars, convVars
<1>4. CASE ConversationBusy(w)
  BY <1>4 DEF ConversationBusy, turnVars, convVars
<1>5. CASE Drops(w) /\ ~ConversationBusy(w)
  <2>1. EndJob(w) /\ UNCHANGED human
    BY <1>5 DEF Drops, RefuseClaim, Shadow, LeaveClaimed, CheckFails, BlockPayload,
       MarkSent, MarkSendFailure, ProcessThrows, convVars
  <2>2. cur'[w] = {} /\ UNCHANGED <<tpc, handled, written>>
    BY <2>1 DEF EndJob, turnVars
  <2>3. lease' = IF lease = w THEN NoOne ELSE lease
    BY <2>1, Zenon DEF EndJob, Release
  <2>4. w # NoOne
    OBVIOUS
  <2> QED BY <2>1, <2>2, <2>3, <2>4
<1>6. CASE Sends(w) \/ Moves(w)
  <2>1. \E l \in WorkerPC : Goto(w, l)
    BY <1>6 DEF Sends, Moves, CheckPasses, SendAccepted, SendAmbiguous, SendRejected,
       WorkerPC
  <2> QED BY <2>1 DEF Goto, turnVars, convVars
<1>7. CASE CrashWorker(w)
  BY <1>7 DEF CrashWorker, turnVars, convVars
<1> QED BY <1>1, <1>2, <1>3, <1>4, <1>5, <1>6, <1>7 DEF Acts

\* Every step keeps the owners of claims, and the turn, under the lease.
LEMMA UnderLeaseStep ==
  ASSUME FollowupAssumption, TypeInv, Shape, UnderLease, [Next]_vars
  PROVE  UnderLease'
<1> USE DEF TypeInv, FollowupTypeOK, FollowupAssumption
<1> SUFFICES ASSUME stalls' = 0
             PROVE  /\ tpc' # "idle" => lease' = Inbound
                    /\ \A v \in FollowupWorkers : cur'[v] # {} => lease' = v
  BY DEF UnderLease
<1>0. stalls = 0 /\ stalls' # stalls + 1
  BY CountersMove
<1>1. /\ tpc # "idle" => lease = Inbound
      /\ \A v \in FollowupWorkers : cur[v] # {} => lease = v
  BY <1>0 DEF UnderLease
<1>2. CASE ExpireLease
  BY <1>1, <1>2 DEF ExpireLease, HolderWorks, turnVars, workVars
<1>3. CASE BeginTurn \/ TurnAck
  BY <1>1, <1>3 DEF BeginTurn, TurnAck, Release, workVars
<1>4. CASE LeaseStalls
  BY <1>0, <1>4 DEF LeaseStalls, Stall
<1>5. CASE TurnCancel
  BY <1>1, <1>5 DEF TurnCancel, workVars
<1>6. CASE TurnCommit \/ TurnResume \/ TurnSchedule
  BY <1>1, <1>6 DEF TurnCommit, TurnResume, TurnSchedule, workVars
<1>7. CASE CustomerWrites \/ MarkHumanTakeover \/ TimePasses \/ TurnLosesLease
           \/ TurnFails \/ UNCHANGED vars
  BY <1>1, <1>7 DEF CustomerWrites, MarkHumanTakeover, TimePasses, TurnLosesLease,
     TurnFails, vars, turnVars, workVars
<1>8. ASSUME NEW w \in FollowupWorkers, Acts(w)
      PROVE  /\ tpc' # "idle" => lease' = Inbound
             /\ \A v \in FollowupWorkers : cur'[v] # {} => lease' = v
  <2>1. /\ \A v \in FollowupWorkers \ {w} : cur'[v] = cur[v]
        /\ \A v \in (FollowupWorkers \cup {Inbound}) \ {w} : lease' = v <=> lease = v
        /\ tpc' = tpc
    BY <1>8, OthersKept, LeaseMoves
  <2>2. cur'[w] # {} => lease' = w
    BY <1>1, <1>8, LeaseMoves
  <2> QED BY <1>1, <2>1, <2>2
<1> QED BY <1>2, <1>3, <1>4, <1>5, <1>6, <1>7, <1>8, StepKinds DEF Elsewhere, Turn

\* What one worker holds claimed, no other gives back or settles.
LEMMA ClaimStays ==
  ASSUME FollowupAssumption, TypeInv, Shape, Sole, stalls = 0, stalls' # stalls + 1,
         NEW w \in FollowupWorkers, Acts(w), NEW v \in FollowupWorkers, v # w,
         NEW j \in Job, Holds(v, j), status[j] = "claimed"
  PROVE  status'[j] = "claimed"
<1>0. ~Holds(w, j)
  BY DEF Sole
<1>1. CASE ClaimDue(w)
  BY <1>1, ClaimEffect
<1>2. CASE Recovers(w)
  BY <1>2, RecoverEffect
<1>3. CASE StartJob(w) \/ Sends(w) \/ Moves(w)
  BY <1>3, StaysHeld
<1>4. CASE Drops(w)
  <2>1. PICK l \in Claims(w) : Outcome(w, l)
    BY <1>4, DropOutcome
  <2>2. l.job # j
    BY <1>0 DEF Holds
  <2> QED BY <2>1, <2>2 DEF Outcome
<1>5. CASE CrashWorker(w)
  BY <1>5 DEF CrashWorker, rowVars
<1> QED BY <1>1, <1>2, <1>3, <1>4, <1>5 DEF Acts

\* A worker about to send has a claimed job, or staff took over after its check.
Checked == stalls = 0 =>
  \A w \in FollowupWorkers : \A k \in cur[w] :
    pc[w] = "send" => status[k.job] = "claimed" \/ human = "human"

\* Every step keeps this: the lease keeps the turn out, and the claim other workers.
LEMMA CheckedStep ==
  ASSUME FollowupAssumption, TypeInv, CycleInv, Shape, Sole, UnderLease, Checked,
         [Next]_vars
  PROVE  Checked'
<1> USE DEF TypeInv, FollowupTypeOK, FollowupAssumption
<1> SUFFICES ASSUME stalls' = 0, NEW v \in FollowupWorkers, NEW k \in cur'[v],
                    pc'[v] = "send"
             PROVE  status'[k.job] = "claimed" \/ human' = "human"
  BY DEF Checked
<1>0. stalls = 0 /\ stalls' # stalls + 1
  BY CountersMove
<1>1. CASE Elsewhere \/ UNCHANGED vars
  <2>1. k \in cur[v] /\ pc[v] = "send" /\ k.job \in Job
    BY <1>1, ElsewhereKeeps DEF Claim
  <2>2. status[k.job] = "claimed" \/ human = "human"
    BY <1>0, <2>1 DEF Checked
  <2>3. lease = v /\ tpc = "idle"
    BY <1>0, <2>1 DEF UnderLease
  <2>4. human = "human" => human' = "human"
    BY <1>1 DEF Elsewhere, CustomerWrites, MarkHumanTakeover, TimePasses, Turn, BeginTurn,
       TurnCancel, TurnCommit, TurnResume, TurnSchedule, TurnAck, TurnLosesLease,
       TurnFails, ExpireLease, LeaseStalls, vars, convVars
  <2>5. CASE MarkHumanTakeover
    BY <2>5 DEF MarkHumanTakeover
  <2>6. CASE ~MarkHumanTakeover
    <3>1. UNCHANGED status
      BY <1>1, <2>3, <2>6 DEF Elsewhere, CustomerWrites, TimePasses, Turn, BeginTurn,
         TurnCancel, TurnCommit, TurnResume, TurnSchedule, TurnAck, TurnLosesLease,
         TurnFails, ExpireLease, LeaseStalls, vars, rowVars
    <3> QED BY <2>2, <2>4, <3>1
  <2> QED BY <2>5, <2>6
<1>2. ASSUME NEW w \in FollowupWorkers, Acts(w), w # v
      PROVE  status'[k.job] = "claimed" \/ human' = "human"
  <2>1. k \in cur[v] /\ pc[v] = "send" /\ k.job \in Job /\ human' = human
    BY <1>2, OthersKept, LeaseMoves DEF Claim
  <2>2. status[k.job] = "claimed" \/ human = "human"
    BY <1>0, <2>1 DEF Checked
  <2>3. Holds(v, k.job)
    BY <2>1 DEF Holds, Claims
  <2>4. status[k.job] = "claimed" => status'[k.job] = "claimed"
    BY <1>0, <1>2, <2>1, <2>3, ClaimStays
  <2> QED BY <2>1, <2>2, <2>4
<1>3. CASE Acts(v)
  <2>1. CASE Moves(v)
    <3>1. CheckPasses(v)
      BY <2>1 DEF Moves, SendRejected, Goto
    <3>2. PICK l \in cur[v] : Passes(v, l)
      BY <3>1 DEF CheckPasses
    <3>3. cur'[v] = cur[v]
      BY <3>1 DEF CheckPasses, Goto
    <3>4. l = k
      BY <3>2, <3>3 DEF Shape, ShapeOK
    <3> QED BY <2>1, <3>2, <3>4, StaysHeld DEF Passes, StillClaimed
  <2>2. CASE Sends(v)
    BY <2>2 DEF Sends, SendAccepted, SendAmbiguous, Goto
  <2>3. CASE Drops(v)
    <3>1. PICK l \in Claims(v) : Outcome(v, l)
      BY <2>3, DropOutcome
    <3> QED BY <3>1, LeavesEffect DEF Outcome
  <2>4. CASE Recovers(v)
    <3>1. pc[v] = "idle" /\ pc' = pc
      BY <2>4 DEF Recovers, ReleaseStaleClaims, ReleaseSlowClaims, workVars
    <3> QED BY <3>1
  <2>5. CASE ClaimDue(v) \/ StartJob(v) \/ CrashWorker(v)
    BY <2>5 DEF ClaimDue, StartJob, CrashWorker
  <2> QED BY <1>3, <2>1, <2>2, <2>3, <2>4, <2>5 DEF Acts
<1> QED BY <1>1, <1>2, <1>3, StepKinds

-----------------------------------------------------------------------------
(* Workers, claims and the lease together *)

WorkInv == Shape /\ Sole /\ UnderLease /\ Checked

\* They hold throughout.
LEMMA WorkHolds == Spec => [](TypeInv /\ CycleInv /\ WorkInv)
<1> USE FollowupAssumption
<1>1. Init => WorkInv
  BY DEF Init, WorkInv, Shape, ShapeOK, Sole, UnderLease, Checked, Holds, Claims
<1>2. TypeInv /\ CycleInv /\ WorkInv /\ [Next]_vars => WorkInv'
  BY ShapeStep, SoleStep, UnderLeaseStep, CheckedStep DEF WorkInv
<1> QED BY <1>1, <1>2, CyclesHold, PTL DEF Spec

\* Only a send changes what Meta accepted.
LEMMA AcceptedMoves ==
  ASSUME NEW w \in FollowupWorkers, Acts(w), ~Sends(w)
  PROVE  UNCHANGED <<accepted, doubtful>>
BY DEF Acts, ClaimDue, Recovers, ReleaseStaleClaims, ReleaseSlowClaims, StartJob,
   Drops, ConversationBusy, RefuseClaim, Shadow, LeaveClaimed, CheckFails, BlockPayload,
   MarkSent, MarkSendFailure, ProcessThrows, Sends, Moves, CheckPasses, SendRejected,
   CrashWorker, metaVars

\* A send is of the worker's one claim.
LEMMA SendEffect ==
  ASSUME TypeInv, Shape, NEW w \in FollowupWorkers, Sends(w)
  PROVE  \E k \in cur[w] :
           /\ cur[w] = {k} /\ pc[w] = "send" /\ k.job \in Job
           /\ accepted' \in {accepted, [accepted EXCEPT ![k.job] = @ + 1]}
           /\ doubtful' \subseteq doubtful \cup {k.job}
           /\ cur' = cur /\ batch' = batch /\ lease' = lease /\ UNCHANGED envVars
           /\ \/ pc'[w] = "sent" /\ doubtful' = doubtful
              \/ pc'[w] = "ambiguous"
<1> USE DEF TypeInv, FollowupTypeOK
<1>1. PICK k \in cur[w] :
        /\ accepted' \in {accepted, [accepted EXCEPT ![k.job] = @ + 1]}
        /\ doubtful' \subseteq doubtful \cup {k.job}
        /\ UNCHANGED envVars
        /\ \/ Goto(w, "sent") /\ doubtful' = doubtful
           \/ Goto(w, "ambiguous")
  BY DEF Sends, SendAccepted, SendAmbiguous
<1>2. cur[w] = {k} /\ k \in Claim
  BY <1>1 DEF Shape, ShapeOK
<1>3. k.job \in Job
  BY <1>2 DEF Claim
<1>4. pc[w] = "send"
  BY DEF Sends, SendAccepted, SendAmbiguous
<1>5. /\ cur' = cur /\ batch' = batch /\ lease' = lease
      /\ \/ pc'[w] = "sent" /\ doubtful' = doubtful
         \/ pc'[w] = "ambiguous"
  BY <1>1 DEF Goto
<1> QED BY <1>1, <1>2, <1>3, <1>4, <1>5

\* While no lease runs out under its holder, a follow-up leaves only for a
\* claimed job, or after staff took the conversation over.
THEOREM AnswersCancelFirst == Spec => TurnExcludesFollowup
<1> USE FollowupAssumption
<1>1. ASSUME TypeInv, CycleInv, WorkInv, [Next]_vars, stalls = 0, NEW j \in Job,
             accepted'[j] > accepted[j]
      PROVE  status[j] = "claimed" \/ human = "human"
  <2>0. accepted[j] \in Nat
    BY <1>1 DEF TypeInv, FollowupTypeOK
  <2>1. ~(Elsewhere \/ UNCHANGED vars)
    BY <1>1, <2>0, ElsewhereKeeps
  <2>2. PICK w \in FollowupWorkers : Acts(w)
    BY <1>1, <2>1, StepKinds
  <2>3. Sends(w)
    BY <1>1, <2>0, <2>2, AcceptedMoves
  <2>4. PICK k \in cur[w] :
          /\ pc[w] = "send" /\ k.job \in Job
          /\ accepted' \in {accepted, [accepted EXCEPT ![k.job] = @ + 1]}
    BY <1>1, <2>3, SendEffect DEF WorkInv
  <2>5. j = k.job
    BY <1>1, <2>0, <2>4 DEF TypeInv, FollowupTypeOK
  <2> QED BY <1>1, <2>4, <2>5 DEF WorkInv, Checked
<1>2. TypeInv /\ CycleInv /\ WorkInv /\ [Next]_vars =>
        [stalls = 0 => \A j \in Job :
           accepted'[j] > accepted[j] => status[j] = "claimed" \/ human = "human"]_vars
  BY <1>1
<1> QED BY <1>2, WorkHolds, PTL DEF Spec, TurnExcludesFollowup

-----------------------------------------------------------------------------
(* Messages that were sent and may yet be sent, paid for.  Each is a token *)
(* held by a worker with the claim in its hands, or by the row that stands *)
(* free for the next claim; a fault or a stall pays for a token more.      *)

Bearers(j) == {w \in FollowupWorkers : Bears(w, j)}
Free(j) ==
  \/ status[j] \in {"none", "scheduled"}
  \/ status[j] = "claimed" /\ \A w \in FollowupWorkers : ~Holds(w, j)

\* c messages or attempts made, and those still to come, are paid for by m and
\* the first one.
Account(c, T, x, m) ==
  /\ IsFiniteSet(T) /\ Cardinality(T) \in Nat
  /\ c + Cardinality(T) + (IF x THEN 1 ELSE 0) <= 1 + m

\* The ways in which a step leaves an account in balance: a made, T the workers
\* with a token, x whether the row has one and m what was paid, before; b, S, y
\* and n after; w the worker that moves.
Balanced(a, b, T, S, x, y, m, n, w) ==
  \/ n >= m /\ b = a /\ S \subseteq T /\ (y => x)
  \/ n >= m /\ b = a /\ S \subseteq T \cup {w} /\ x /\ ~y
  \/ n >= m /\ b = a /\ w \in T /\ S \subseteq T \ {w}
  \/ n >= m /\ b <= a + 1 /\ w \in T /\ S \subseteq T \ {w} /\ (y => x)
  \/ n >= m /\ b <= a + 1 /\ S \subseteq T /\ x /\ ~y
  \/ n >= m /\ b + 1 <= a /\ S \subseteq T
  \/ n >= m + 1 /\ b = a /\ S \subseteq T
  \/ n >= m + 1 /\ b = a /\ S \subseteq T \cup {w} /\ (y => x)

\* Sets that differ by one element.
LEMMA OneApart ==
  ASSUME NEW T, IsFiniteSet(T), NEW S, NEW w
  PROVE  /\ Cardinality(T) \in Nat
         /\ S \subseteq T => IsFiniteSet(S) /\ Cardinality(S) <= Cardinality(T)
         /\ S \subseteq T \cup {w} => IsFiniteSet(S) /\ Cardinality(S) <= Cardinality(T) + 1
         /\ w \in T /\ S \subseteq T \ {w} => Cardinality(S) + 1 <= Cardinality(T)
<1>1. Cardinality(T) \in Nat
  BY FS_CardinalityType
<1>2. S \subseteq T => IsFiniteSet(S) /\ Cardinality(S) <= Cardinality(T)
  BY FS_Subset
<1>3. ASSUME S \subseteq T \cup {w}
      PROVE  IsFiniteSet(S) /\ Cardinality(S) <= Cardinality(T) + 1
  <2>1. IsFiniteSet(T \cup {w}) /\ Cardinality(T \cup {w}) <= Cardinality(T) + 1
    <3>1. /\ IsFiniteSet(T \cup {w})
          /\ \/ Cardinality(T \cup {w}) = Cardinality(T)
             \/ Cardinality(T \cup {w}) = Cardinality(T) + 1
      BY FS_AddElement
    <3> QED BY <1>1, <3>1
  <2>2. IsFiniteSet(S) /\ Cardinality(S) <= Cardinality(T \cup {w})
    BY <1>3, <2>1, FS_Subset
  <2>3. Cardinality(S) \in Nat /\ Cardinality(T \cup {w}) \in Nat
    BY <2>1, <2>2, FS_CardinalityType
  <2> QED BY <1>1, <2>1, <2>2, <2>3
<1>4. ASSUME w \in T, S \subseteq T \ {w} PROVE Cardinality(S) + 1 <= Cardinality(T)
  <2>1. IsFiniteSet(T \ {w}) /\ Cardinality(T \ {w}) = Cardinality(T) - 1
    BY <1>4, FS_RemoveElement
  <2>2. IsFiniteSet(S) /\ Cardinality(S) <= Cardinality(T \ {w})
    BY <1>4, <2>1, FS_Subset
  <2>3. Cardinality(S) \in Nat
    BY <2>2, FS_CardinalityType
  <2> QED BY <1>1, <2>1, <2>2, <2>3
<1> QED BY <1>1, <1>2, <1>3, <1>4

\* They keep it in balance indeed.
LEMMA Balance ==
  ASSUME NEW a \in Nat, NEW b \in Nat, NEW m \in Nat, NEW n \in Nat, NEW T, NEW S,
         NEW x \in BOOLEAN, NEW y \in BOOLEAN, NEW w, Account(a, T, x, m),
         Balanced(a, b, T, S, x, y, m, n, w)
  PROVE  Account(b, S, y, n)
<1>0. IsFiniteSet(T) /\ a + Cardinality(T) + (IF x THEN 1 ELSE 0) <= 1 + m
  BY DEF Account
<1>1. /\ Cardinality(T) \in Nat
      /\ S \subseteq T => IsFiniteSet(S) /\ Cardinality(S) <= Cardinality(T)
      /\ S \subseteq T \cup {w} => IsFiniteSet(S) /\ Cardinality(S) <= Cardinality(T) + 1
      /\ w \in T /\ S \subseteq T \ {w} => Cardinality(S) + 1 <= Cardinality(T)
  BY <1>0, OneApart
<1>2. S \subseteq T \/ S \subseteq T \cup {w}
  BY DEF Balanced
<1>3. IsFiniteSet(S) /\ Cardinality(S) \in Nat
  BY <1>1, <1>2, FS_CardinalityType
<1> DEFINE c == Cardinality(T)  d == Cardinality(S)
<1>4. \/ n >= m /\ b = a /\ d <= c /\ (y => x)
      \/ n >= m /\ b = a /\ d <= c + 1 /\ x /\ ~y
      \/ n >= m /\ b = a /\ d + 1 <= c
      \/ n >= m /\ b <= a + 1 /\ d + 1 <= c /\ (y => x)
      \/ n >= m /\ b <= a + 1 /\ d <= c /\ x /\ ~y
      \/ n >= m /\ b + 1 <= a /\ d <= c
      \/ n >= m + 1 /\ b = a /\ d <= c
      \/ n >= m + 1 /\ b = a /\ d <= c + 1 /\ (y => x)
  BY <1>1 DEF Balanced
<1>5. c \in Nat /\ d \in Nat /\ a + c + (IF x THEN 1 ELSE 0) <= 1 + m
  BY <1>0, <1>1, <1>3
<1> HIDE DEF c, d
<1>6. b + d + (IF y THEN 1 ELSE 0) <= 1 + n
  BY <1>4, <1>5
<1> QED BY <1>3, <1>6 DEF d, Account

\* Sums of counters that never go back.
LEMMA Sums ==
  ASSUME NEW a \in Nat, NEW b \in Nat, NEW c \in Nat, NEW d \in Nat,
         c \in {a, a + 1}, d \in {b, b + 1}
  PROVE  /\ a + b \in Nat /\ c + d \in Nat /\ c + d >= a + b
         /\ c = a + 1 \/ d = b + 1 => c + d >= a + b + 1
OBVIOUS

\* What is paid never goes back, and a fault or stall adds to it.
LEMMA PaidMoves ==
  ASSUME FollowupAssumption, TypeInv, [Next]_vars
  PROVE  /\ Paid \in Nat /\ Paid' \in Nat /\ Paid' >= Paid
         /\ faults' = faults + 1 \/ stalls' = stalls + 1 => Paid' >= Paid + 1
BY CountersMove, Sums DEF Paid

-----------------------------------------------------------------------------
(* The account of messages *)

SendBudget == \A j \in Job : Account(accepted[j], Bearers(j), Free(j), Paid)

InBalance(j, w) ==
  Balanced(accepted[j], accepted'[j], Bearers(j), Bearers(j)', Free(j), Free(j)',
           Paid, Paid', w)

\* Only the worker that moves may take a token or give it back.
LEMMA BearersMove ==
  ASSUME TypeInv, NEW w \in FollowupWorkers, Acts(w), NEW j
  PROVE  /\ Bearers(j)' \subseteq Bearers(j) \cup {w}
         /\ ~Bears(w, j)' => Bearers(j)' \subseteq Bearers(j) \ {w}
         /\ (Bears(w, j)' => Bears(w, j)) => Bearers(j)' \subseteq Bearers(j)
         /\ Bears(w, j) <=> w \in Bearers(j)
<1>1. \A v \in FollowupWorkers \ {w} : Bears(v, j)' <=> Bears(v, j)
  BY HoldsElsewhere
<1>2. Bearers(j) \subseteq FollowupWorkers /\ Bearers(j)' \subseteq FollowupWorkers
  BY DEF Bearers
<1>3. Bearers(j)' \subseteq Bearers(j) \cup {w}
  BY <1>1 DEF Bearers
<1>4. ~Bears(w, j)' => Bearers(j)' \subseteq Bearers(j) \ {w}
  BY <1>1 DEF Bearers
<1>5. (Bears(w, j)' => Bears(w, j)) => Bearers(j)' \subseteq Bearers(j)
  BY <1>1 DEF Bearers
<1> QED BY <1>3, <1>4, <1>5 DEF Bearers

\* A row is free after a step of w as far as the row and w go.
LEMMA FreeMoves ==
  ASSUME TypeInv, NEW w \in FollowupWorkers, Acts(w), NEW j \in Job,
         status'[j] = status[j], status[j] = "claimed" => (Holds(w, j) => Holds(w, j)')
  PROVE  Free(j)' => Free(j)
<1>1. \A v \in FollowupWorkers \ {w} : Holds(v, j)' <=> Holds(v, j)
  BY HoldsElsewhere
<1> QED BY <1>1 DEF Free

\* Elsewhere no token is made.
LEMMA BalanceElsewhere ==
  ASSUME FollowupAssumption, TypeInv, CycleInv, Elsewhere \/ UNCHANGED vars,
         Paid' >= Paid, NEW j \in Job, NEW w
  PROVE  InBalance(j, w)
<1>1. UNCHANGED <<pc, batch, cur, accepted>>
  BY ElsewhereKeeps
<1>2. \A v : (Holds(v, j)' <=> Holds(v, j)) /\ (Bears(v, j)' <=> Bears(v, j))
  BY <1>1 DEF Holds, Bears, Claims, ToSend
<1>3. Bearers(j)' \subseteq Bearers(j)
  BY <1>2 DEF Bearers
<1>4. Free(j)' => Free(j)
  BY <1>2, ElsewhereRows DEF Free
<1> QED BY <1>1, <1>3, <1>4 DEF InBalance, Balanced

\* A claim takes the token of the row; a drop gives it back, at best.
LEMMA BalanceOfClaims ==
  ASSUME FollowupAssumption, TypeInv, Shape, NEW w \in FollowupWorkers, [Next]_vars,
         ClaimDue(w) \/ Recovers(w) \/ Drops(w) \/ CrashWorker(w), NEW j \in Job
  PROVE  InBalance(j, w)
<1>0. Acts(w) /\ accepted' = accepted
  BY AcceptedMoves DEF Acts, Sends, ClaimDue, Recovers, ReleaseStaleClaims,
     ReleaseSlowClaims, Drops, ConversationBusy, RefuseClaim, Shadow, LeaveClaimed,
     CheckFails, BlockPayload, MarkSent, MarkSendFailure, ProcessThrows, CrashWorker, metaVars
<1>a. Paid' >= Paid /\ (faults' = faults + 1 \/ stalls' = stalls + 1 => Paid' >= Paid + 1)
  BY PaidMoves
<1>1. CASE ClaimDue(w)
  <2>1. CASE ~Holds(w, j)' /\ ~Bears(w, j)' /\ status'[j] = status[j]
    BY <1>0, <1>1, <1>a, <2>1, ClaimEffect, FreeMoves, BearersMove DEF InBalance, Balanced
  <2>2. CASE status[j] = "scheduled" /\ status'[j] = "claimed" /\ Holds(w, j)'
    <3>1. Free(j) /\ ~Free(j)'
      BY <2>2 DEF Free
    <3> QED BY <1>0, <1>a, <3>1, BearersMove DEF InBalance, Balanced
  <2> QED BY <1>1, <2>1, <2>2, ClaimEffect
<1>2. CASE Recovers(w)
  <2>1. UNCHANGED <<pc, batch, cur>>
    BY <1>2 DEF Recovers, ReleaseStaleClaims, ReleaseSlowClaims, workVars
  <2>2. (Holds(w, j)' <=> Holds(w, j)) /\ (Bears(w, j)' <=> Bears(w, j))
    BY <2>1 DEF Holds, Bears, Claims, ToSend
  <2>3. CASE status'[j] = status[j]
    BY <1>0, <1>a, <2>2, <2>3, FreeMoves, BearersMove DEF InBalance, Balanced
  <2>4. CASE stalls' = stalls + 1
    BY <1>0, <1>a, <2>2, <2>4, BearersMove DEF InBalance, Balanced
  <2>5. CASE status[j] = "claimed" /\ \A v \in FollowupWorkers : ~Holds(v, j)
    <3>1. Free(j)
      BY <2>5 DEF Free
    <3> QED BY <1>0, <1>a, <2>2, <3>1, BearersMove DEF InBalance, Balanced
  <2> QED BY <1>2, <2>3, <2>4, <2>5, RecoverEffect
<1>3. CASE Drops(w)
  <2>1. PICK k \in Claims(w) : Outcome(w, k)
    BY <1>3, DropOutcome
  <2>2. /\ Holds(w, j)' <=> Holds(w, j) /\ j # k.job
        /\ Bears(w, j)' <=> Bears(w, j) /\ j # k.job
    BY <2>1, LeavesEffect DEF Outcome
  <2>3. CASE j # k.job
    <3>1. status'[j] = status[j]
      BY <2>1, <2>3 DEF Outcome
    <3> QED BY <1>0, <1>a, <2>2, <2>3, <3>1, FreeMoves, BearersMove DEF InBalance, Balanced
  <2>4. CASE j = k.job
    <3>1. Bearers(j)' \subseteq Bearers(j) \ {w} /\ Bearers(j)' \subseteq Bearers(j)
      BY <1>0, <2>2, <2>4, BearersMove
    <3>2. k \in ToSend(w) => w \in Bearers(j)
      BY <1>0, <2>4, BearersMove DEF Bears
    <3>3. CASE faults' = faults + 1
      BY <1>0, <1>a, <3>1, <3>3 DEF InBalance, Balanced
    <3>4. CASE k \in ToSend(w)
      BY <1>0, <1>a, <3>1, <3>2, <3>4 DEF InBalance, Balanced
    <3>5. CASE Ended(k)
      <4>1. ~Free(j)'
        BY <2>4, <3>5 DEF Ended, Free, Terminal
      <4> QED BY <1>0, <1>a, <3>1, <4>1 DEF InBalance, Balanced
    <3>6. CASE status'[j] = status[j] /\ status[j] # "claimed"
      BY <1>0, <1>a, <3>1, <3>6, FreeMoves DEF InBalance, Balanced
    <3> QED BY <2>1, <2>4, <3>3, <3>4, <3>5, <3>6
              DEF Outcome, Left, Reopened, Released
  <2> QED BY <2>3, <2>4
<1>4. CASE CrashWorker(w)
  <2>1. ~Bears(w, j)' /\ faults' = faults + 1
    BY <1>4 DEF CrashWorker, Bears, ToSend, Fault, TypeInv, FollowupTypeOK
  <2> QED BY <1>0, <1>a, <2>1, BearersMove DEF InBalance, Balanced
<1> QED BY <1>1, <1>2, <1>3, <1>4

\* A send uses up the token of its worker.
LEMMA BalanceOfSends ==
  ASSUME FollowupAssumption, TypeInv, Shape, NEW w \in FollowupWorkers, [Next]_vars,
         StartJob(w) \/ Sends(w) \/ Moves(w), NEW j \in Job
  PROVE  InBalance(j, w)
<1> USE DEF TypeInv, FollowupTypeOK
<1>0. Acts(w) /\ Paid' >= Paid
  BY PaidMoves DEF Acts
<1>1. status'[j] = status[j] /\ Claims(w)' = Claims(w)
  BY StaysHeld
<1>2. Free(j)' => Free(j)
  BY <1>0, <1>1, FreeMoves DEF Holds
<1>3. CASE StartJob(w) \/ Moves(w)
  <2>1. accepted' = accepted
    BY <1>3 DEF StartJob, Moves, CheckPasses, SendRejected, metaVars
  <2>2. pc[w] \notin Answered
    BY <1>3 DEF StartJob, Moves, CheckPasses, Checking, SendRejected, Answered
  <2>3. Bears(w, j)' => Bears(w, j)
    BY <1>1, <2>2 DEF Bears, ToSend, Claims
  <2> QED BY <1>0, <1>2, <2>1, <2>3, BearersMove DEF InBalance, Balanced
<1>4. CASE Sends(w)
  <2>1. PICK k \in cur[w] :
          /\ cur[w] = {k} /\ pc[w] = "send" /\ k.job \in Job
          /\ accepted' \in {accepted, [accepted EXCEPT ![k.job] = @ + 1]}
          /\ cur' = cur /\ batch' = batch /\ pc'[w] \in Answered
    BY <1>4, SendEffect DEF Answered
  <2>2. ToSend(w) = Claims(w) /\ ToSend(w)' = batch[w] /\ k \in ToSend(w)
    BY <2>1 DEF ToSend, Claims, Answered
  <2>3. \A l \in batch[w] : l.job # k.job
    BY <2>1 DEF Shape, ShapeOK, Claims
  <2>4. Bears(w, j)' => Bears(w, j)
    BY <2>2 DEF Bears, Claims
  <2>5. CASE j # k.job
    <3>1. accepted'[j] = accepted[j]
      BY <2>1, <2>5
    <3> QED BY <1>0, <1>2, <2>4, <3>1, BearersMove DEF InBalance, Balanced
  <2>6. CASE j = k.job
    <3>1. Bears(w, j) /\ ~Bears(w, j)'
      BY <2>2, <2>3, <2>6 DEF Bears
    <3>2. accepted'[j] <= accepted[j] + 1
      BY <2>1, <2>6
    <3> QED BY <1>0, <1>2, <3>1, <3>2, BearersMove DEF InBalance, Balanced
  <2> QED BY <2>5, <2>6
<1> QED BY <1>3, <1>4

\* Every step keeps the account of messages in balance.
LEMMA SendBudgetStep ==
  ASSUME FollowupAssumption, TypeInv, TypeInv', CycleInv, Shape, SendBudget, [Next]_vars
  PROVE  SendBudget'
<1> SUFFICES ASSUME NEW j \in Job
             PROVE  Account(accepted'[j], Bearers(j)', Free(j)', Paid')
  BY DEF SendBudget
<1>1. accepted[j] \in Nat /\ accepted'[j] \in Nat
  BY DEF TypeInv, FollowupTypeOK
<1>b. Free(j) \in BOOLEAN /\ Free(j)' \in BOOLEAN
  BY DEF Free
<1>2. Paid \in Nat /\ Paid' \in Nat
  BY PaidMoves
<1>3. Account(accepted[j], Bearers(j), Free(j), Paid)
  BY DEF SendBudget
<1>4. \E w : InBalance(j, w)
  <2>1. CASE Elsewhere \/ UNCHANGED vars
    BY <2>1, BalanceElsewhere, PaidMoves
  <2>2. ASSUME NEW w \in FollowupWorkers, Acts(w) PROVE InBalance(j, w)
    BY <2>2, BalanceOfClaims, BalanceOfSends DEF Acts
  <2> QED BY <2>1, <2>2, StepKinds
<1>5. PICK w : InBalance(j, w)
  BY <1>4
<1>6. Balanced(accepted[j], accepted'[j], Bearers(j), Bearers(j)', Free(j), Free(j)',
               Paid, Paid', w)
  BY <1>5 DEF InBalance
<1> QED BY <1>1, <1>b, <1>2, <1>3, <1>6, Balance

-----------------------------------------------------------------------------
(* The account of attempts.  Beyond the limit a job is attempted again     *)
(* only for a worker whose old claim was within it, or that lost its lease.*)

Retries(w, j) ==
  \E k \in ToSend(w) :
    k.job = j /\ (k.attempt < MaxAttempts \/ (k \in cur[w] /\ lease # w))
Retriers(j) == {w \in FollowupWorkers : Retries(w, j)}
Matches(w, j) == \E k \in Claims(w) : k.job = j /\ k.attempt = attempt[j]
Again(j) ==
  \/ status[j] \in {"none", "scheduled"}
  \/ status[j] = "claimed" /\ \A w \in FollowupWorkers : ~Matches(w, j)

Tries(j) == attempt[j] + 1 - MaxAttempts
AttemptBudget == \A j \in Job :
  attempt[j] >= MaxAttempts => Account(Tries(j), Retriers(j), Again(j), Paid)

TriesInBalance(j, w) ==
  Balanced(Tries(j), Tries(j)', Retriers(j), Retriers(j)', Again(j), Again(j)',
           Paid, Paid', w)

\* What another worker's retries and matches depend on stays.
LEMMA RetriesElsewhere ==
  ASSUME FollowupAssumption, TypeInv, Shape, NEW w \in FollowupWorkers, Acts(w), NEW j,
         NEW v \in FollowupWorkers, v # w
  PROVE  /\ Retries(v, j)' <=> Retries(v, j)
         /\ attempt'[j] = attempt[j] => (Matches(v, j)' <=> Matches(v, j))
<1>1. pc'[v] = pc[v] /\ batch'[v] = batch[v] /\ cur'[v] = cur[v]
  BY OthersKept
<1>2. lease' = v <=> lease = v
  BY LeaseMoves
<1>3. Retries(v, j)' <=> Retries(v, j)
  BY <1>1, <1>2 DEF Retries, ToSend
<1> QED BY <1>1, <1>3 DEF Matches, Claims

\* Only the worker that moves may become one that retries, or cease to be one.
LEMMA RetriersMove ==
  ASSUME FollowupAssumption, TypeInv, Shape, NEW w \in FollowupWorkers, Acts(w), NEW j
  PROVE  /\ ~Retries(w, j)' => Retriers(j)' \subseteq Retriers(j) \ {w}
         /\ (Retries(w, j)' => Retries(w, j)) => Retriers(j)' \subseteq Retriers(j)
         /\ Retries(w, j) <=> w \in Retriers(j)
<1>1. \A v \in FollowupWorkers \ {w} : Retries(v, j)' <=> Retries(v, j)
  BY RetriesElsewhere
<1>2. ~Retries(w, j)' => Retriers(j)' \subseteq Retriers(j) \ {w}
  BY <1>1 DEF Retriers
<1>3. (Retries(w, j)' => Retries(w, j)) => Retriers(j)' \subseteq Retriers(j)
  BY <1>1 DEF Retriers
<1> QED BY <1>2, <1>3 DEF Retriers

\* A row may be attempted again after a step of w as far as the row and w go.
LEMMA AgainMoves ==
  ASSUME FollowupAssumption, TypeInv, Shape, NEW w \in FollowupWorkers, Acts(w),
         NEW j \in Job, status'[j] = status[j], attempt'[j] = attempt[j],
         status[j] = "claimed" => (Matches(w, j) => Matches(w, j)')
  PROVE  Again(j)' => Again(j)
<1>1. \A v \in FollowupWorkers \ {w} : Matches(v, j)' <=> Matches(v, j)
  BY RetriesElsewhere
<1> QED BY <1>1 DEF Again

\* Elsewhere nobody becomes a worker that retries, but for a lease that runs out.
LEMMA TriesElsewhere ==
  ASSUME FollowupAssumption, TypeInv, CycleInv, [Next]_vars, Elsewhere \/ UNCHANGED vars,
         NEW j \in Job
  PROVE  TriesInBalance(j, lease)
<1>1. UNCHANGED <<pc, batch, cur>> /\ attempt' = attempt
  BY ElsewhereKeeps, ElsewhereRows
<1>2. Paid' >= Paid /\ (stalls' = stalls + 1 => Paid' >= Paid + 1)
  BY PaidMoves
<1>3. Tries(j)' = Tries(j)
  BY <1>1 DEF Tries
<1>4. \A v : Matches(v, j)' <=> Matches(v, j)
  BY <1>1 DEF Matches, Claims
<1>5. Again(j)' => Again(j)
  BY <1>4, ElsewhereRows DEF Again
<1>6. CASE LeaseStalls
  <2>1. stalls' = stalls + 1
    BY <1>6 DEF LeaseStalls, Stall
  <2>2. \A v \in FollowupWorkers : Retries(v, j)' /\ ~Retries(v, j) => v = lease
    BY <1>1 DEF Retries, ToSend
  <2>3. Retriers(j)' \subseteq Retriers(j) \cup {lease}
    BY <2>2 DEF Retriers
  <2> QED BY <1>2, <1>3, <1>5, <2>1, <2>3 DEF TriesInBalance, Balanced
<1>7. CASE ~LeaseStalls
  <2>1. ASSUME NEW v \in FollowupWorkers, cur[v] # {}, lease = v PROVE lease' = v
    <3>1. ~ExpireLease /\ lease # Inbound /\ lease # NoOne
      BY <2>1 DEF ExpireLease, HolderWorks, FollowupAssumption
    <3> QED BY <1>7, <2>1, <3>1 DEF Elsewhere, CustomerWrites, MarkHumanTakeover,
               TimePasses, Turn, BeginTurn, TurnCancel, TurnCommit, TurnResume,
               TurnSchedule, TurnAck, Release, TurnLosesLease, TurnFails, vars
  <2>2. ASSUME NEW v \in FollowupWorkers, Retries(v, j)' PROVE Retries(v, j)
    <3>1. PICK k \in ToSend(v) :
            k.job = j /\ (k.attempt < MaxAttempts \/ (k \in cur[v] /\ lease' # v))
      BY <1>1, <2>2 DEF Retries, ToSend
    <3>2. CASE k.attempt < MaxAttempts
      BY <3>1, <3>2 DEF Retries
    <3>3. CASE k \in cur[v] /\ lease' # v
      <4>1. lease # v
        BY <2>1, <3>3
      <4> QED BY <3>1, <3>3, <4>1 DEF Retries
    <3> QED BY <3>1, <3>2, <3>3
  <2>3. Retriers(j)' \subseteq Retriers(j)
    BY <2>2 DEF Retriers
  <2> QED BY <1>2, <1>3, <1>5, <2>3 DEF TriesInBalance, Balanced
<1> QED BY <1>6, <1>7

\* Workers that start, send or judge keep the balance,
LEMMA TriesOfSends ==
  ASSUME FollowupAssumption, TypeInv, Shape, NEW w \in FollowupWorkers, [Next]_vars,
         StartJob(w) \/ Sends(w) \/ Moves(w), NEW j \in Job
  PROVE  TriesInBalance(j, w)
<1> USE DEF TypeInv, FollowupTypeOK
<1>0. Acts(w) /\ Paid' >= Paid
  BY PaidMoves DEF Acts
<1>1. /\ status'[j] = status[j] /\ attempt'[j] = attempt[j] /\ Tries(j)' = Tries(j)
      /\ Claims(w)' = Claims(w)
  BY StaysHeld DEF Tries
<1>2. Again(j)' => Again(j)
  BY <1>0, <1>1, AgainMoves DEF Matches
<1>3. Retries(w, j)' => Retries(w, j)
  <2>1. CASE StartJob(w)
    <3>1. lease' = w
      BY <2>1 DEF StartJob, TakeJob
    <3>2. ToSend(w)' \subseteq Claims(w) /\ ToSend(w) = Claims(w)
      BY <1>1, <2>1 DEF StartJob, ToSend, Claims, Answered
    <3> QED BY <3>1, <3>2 DEF Retries
  <2>2. CASE Sends(w) \/ Moves(w)
    <3>1. lease' = lease /\ cur' = cur /\ batch' = batch
      BY <2>2 DEF Sends, SendAccepted, SendAmbiguous, Moves, CheckPasses, SendRejected, Goto
    <3>2. pc[w] \notin Answered
      BY <2>2 DEF Sends, SendAccepted, SendAmbiguous, Moves, CheckPasses, Checking,
         SendRejected, Answered
    <3>3. ToSend(w)' \subseteq ToSend(w)
      BY <3>1, <3>2 DEF ToSend
    <3> QED BY <3>1, <3>3 DEF Retries
  <2> QED BY <2>1, <2>2
<1> QED BY <1>0, <1>1, <1>2, <1>3, RetriersMove DEF TriesInBalance, Balanced

\* workers that let go of a claim do,
LEMMA TriesOfDrops ==
  ASSUME FollowupAssumption, TypeInv, Shape, NEW w \in FollowupWorkers, [Next]_vars,
         Drops(w), NEW j \in Job, attempt[j] >= MaxAttempts
  PROVE  TriesInBalance(j, w)
<1>0. Acts(w) /\ Paid' >= Paid /\ (faults' = faults + 1 => Paid' >= Paid + 1)
  BY PaidMoves DEF Acts
<1>1. PICK k \in Claims(w) : Outcome(w, k)
  BY DropOutcome
<1>2. /\ Claims(w)' = Claims(w) \ {k} /\ ToSend(w)' \subseteq ToSend(w)
      /\ Holds(w, j)' <=> Holds(w, j) /\ j # k.job
      /\ Bears(w, j)' <=> Bears(w, j) /\ j # k.job
      /\ cur'[w] = {}
  BY <1>1, LeavesEffect DEF Outcome
<1>3. ASSUME Retries(w, j)' PROVE Retries(w, j)
  <2>1. PICK l \in ToSend(w)' :
          l.job = j /\ (l.attempt < MaxAttempts \/ (l \in cur'[w] /\ lease' # w))
    BY <1>3 DEF Retries
  <2>2. l \in ToSend(w) /\ l.attempt < MaxAttempts
    BY <1>2, <2>1
  <2> QED BY <2>1, <2>2 DEF Retries
<1>4. Retriers(j)' \subseteq Retriers(j)
  BY <1>0, <1>3, RetriersMove
<1>5. CASE j # k.job
  <2>1. status'[j] = status[j] /\ attempt'[j] = attempt[j] /\ Tries(j)' = Tries(j)
    BY <1>1, <1>5 DEF Outcome, Tries
  <2>2. Matches(w, j) => Matches(w, j)'
    BY <1>2, <1>5, <2>1 DEF Matches
  <2>3. Again(j)' => Again(j)
    BY <1>0, <2>1, <2>2, AgainMoves
  <2> QED BY <1>0, <1>4, <2>1, <2>3 DEF TriesInBalance, Balanced
<1>6. CASE j = k.job
  <2>0. ~Retries(w, j)'
    BY <1>2, <1>6 DEF Retries, Bears
  <2>1. Retriers(j)' \subseteq Retriers(j) \ {w}
    BY <1>0, <2>0, RetriersMove
  <2>2. CASE Ended(k)
    <3>1. ~Again(j)' /\ Tries(j)' = Tries(j)
      BY <1>6, <2>2 DEF Ended, Again, Terminal, Tries
    <3> QED BY <1>0, <1>4, <3>1 DEF TriesInBalance, Balanced
  <2>3. CASE Left(w, k)
    <3>1. status'[j] = status[j] /\ attempt'[j] = attempt[j] /\ Tries(j)' = Tries(j)
      BY <1>6, <2>3 DEF Left, Tries
    <3>2. CASE faults' = faults + 1
      BY <1>0, <1>4, <3>1, <3>2 DEF TriesInBalance, Balanced
    <3>3. CASE k \in ToSend(w) /\ k \in cur[w] /\ lease # w
      <4>1. w \in Retriers(j)
        BY <1>0, <1>6, <3>3, RetriersMove DEF Retries
      <4> QED BY <1>0, <2>1, <3>1, <4>1 DEF TriesInBalance, Balanced
    <3>4. CASE status[j] # "claimed" \/ k.attempt # attempt[j]
      <4>1. status[j] = "claimed" => ~Matches(w, j)
        BY <1>6, <3>4 DEF Matches, Shape, ShapeOK
      <4>2. Again(j)' => Again(j)
        BY <1>0, <3>1, <4>1, AgainMoves
      <4> QED BY <1>0, <1>4, <3>1, <4>2 DEF TriesInBalance, Balanced
    <3> QED BY <1>6, <2>3, <3>2, <3>3, <3>4 DEF Left
  <2>4. CASE Reopened(w, k)
    <3>1. k \in ToSend(w) /\ k.attempt < MaxAttempts /\ k.job = j
      BY <1>6, <2>4 DEF Reopened
    <3>2. Retries(w, j)
      BY <3>1 DEF Retries
    <3>3. w \in Retriers(j)
      BY <1>0, <3>2, RetriersMove
    <3>4. Tries(j)' = Tries(j)
      BY <1>6, <2>4 DEF Reopened, Tries
    <3> QED BY <1>0, <2>1, <3>3, <3>4 DEF TriesInBalance, Balanced
  <2>5. CASE Released(w, k)
    <3>1. attempt[j] \in Nat /\ MaxAttempts \in Nat \ {0}
      BY DEF TypeInv, FollowupTypeOK, FollowupAssumption
    <3>2. attempt'[j] = attempt[j] - 1
      BY <1>6, <2>5, <3>1 DEF Released
    <3>3. Tries(j)' + 1 <= Tries(j)
      BY <3>1, <3>2 DEF Tries
    <3> QED BY <1>0, <1>4, <3>3 DEF TriesInBalance, Balanced
  <2> QED BY <1>1, <2>2, <2>3, <2>4, <2>5 DEF Outcome
<1> QED BY <1>5, <1>6

\* and so do claims, recoveries and crashes.
LEMMA TriesOfClaims ==
  ASSUME FollowupAssumption, TypeInv, Shape, NEW w \in FollowupWorkers, [Next]_vars,
         ClaimDue(w) \/ Recovers(w) \/ CrashWorker(w),
         NEW j \in Job, attempt[j] >= MaxAttempts
  PROVE  TriesInBalance(j, w)
<1>0. /\ Acts(w) /\ Paid' >= Paid
      /\ faults' = faults + 1 \/ stalls' = stalls + 1 => Paid' >= Paid + 1
  BY PaidMoves DEF Acts
<1>t. attempt[j] \in Nat /\ MaxAttempts \in Nat \ {0}
  BY DEF TypeInv, FollowupTypeOK, FollowupAssumption
<1>1. CASE ClaimDue(w)
  <2>1. CASE ~Holds(w, j)' /\ ~Bears(w, j)' /\ status'[j] = status[j] /\ attempt'[j] = attempt[j]
    <3>1. ~Holds(w, j)
      BY <1>1, ClaimEffect
    <3>2. ~Matches(w, j) /\ ~Retries(w, j)'
      BY <2>1, <3>1 DEF Matches, Holds, Retries, Bears
    <3>3. Retriers(j)' \subseteq Retriers(j) /\ (Again(j)' => Again(j))
      BY <1>0, <2>1, <3>2, RetriersMove, AgainMoves
    <3>4. Tries(j)' = Tries(j)
      BY <2>1 DEF Tries
    <3> QED BY <1>0, <3>3, <3>4 DEF TriesInBalance, Balanced
  <2>2. CASE /\ status[j] = "scheduled" /\ status'[j] = "claimed"
             /\ attempt'[j] = attempt[j] + 1 /\ Holds(w, j)'
             /\ \A k \in Claims(w)' : k.job = j => k.attempt = attempt'[j]
    <3>1. cur'[w] = {}
      BY <1>1, ClaimEffect
    <3>2. ToSend(w)' \subseteq Claims(w)'
      BY DEF ToSend, Claims
    <3>3. ~Retries(w, j)'
      BY <1>t, <2>2, <3>1, <3>2 DEF Retries
    <3>4. Matches(w, j)'
      BY <2>2 DEF Holds, Matches
    <3>5. Again(j) /\ ~Again(j)'
      BY <2>2, <3>4 DEF Again
    <3>6. Tries(j)' <= Tries(j) + 1
      BY <1>t, <2>2 DEF Tries
    <3>7. Retriers(j)' \subseteq Retriers(j)
      BY <1>0, <3>3, RetriersMove
    <3> QED BY <1>0, <3>5, <3>6, <3>7 DEF TriesInBalance, Balanced
  <2> QED BY <1>1, <2>1, <2>2, ClaimEffect
<1>2. CASE Recovers(w)
  <2>1. UNCHANGED <<pc, batch, cur, lease, attempt>>
    BY <1>2, RecoverEffect DEF Recovers, ReleaseStaleClaims, ReleaseSlowClaims, workVars
  <2>2. /\ Tries(j)' = Tries(j) /\ (Matches(w, j)' <=> Matches(w, j))
        /\ Retries(w, j)' <=> Retries(w, j)
    BY <2>1 DEF Tries, Matches, Claims, Retries, ToSend
  <2>3. Retriers(j)' \subseteq Retriers(j)
    BY <1>0, <2>2, RetriersMove
  <2>4. CASE status'[j] = status[j]
    BY <1>0, <2>1, <2>2, <2>3, <2>4, AgainMoves DEF TriesInBalance, Balanced
  <2>5. CASE stalls' = stalls + 1
    BY <1>0, <2>2, <2>3, <2>5 DEF TriesInBalance, Balanced
  <2>6. CASE status[j] = "claimed" /\ \A v \in FollowupWorkers : ~Holds(v, j)
    <3>1. Again(j)
      BY <2>6 DEF Again, Holds, Matches
    <3> QED BY <1>0, <2>2, <2>3, <3>1 DEF TriesInBalance, Balanced
  <2> QED BY <1>2, <2>4, <2>5, <2>6, RecoverEffect
<1>3. CASE CrashWorker(w)
  <2>1. ~Retries(w, j)' /\ faults' = faults + 1 /\ Tries(j)' = Tries(j)
    BY <1>3 DEF CrashWorker, Retries, ToSend, Fault, TypeInv, FollowupTypeOK, Tries, rowVars
  <2>2. Retriers(j)' \subseteq Retriers(j)
    BY <1>0, <2>1, RetriersMove
  <2> QED BY <1>0, <2>1, <2>2 DEF TriesInBalance, Balanced
<1> QED BY <1>1, <1>2, <1>3

\* A job comes to the limit by a claim; who may still retry it has a message to send.
LEMMA TriesAtLimit ==
  ASSUME FollowupAssumption, TypeInv, CycleInv, Shape, SendBudget, [Next]_vars,
         NEW j \in Job, attempt[j] < MaxAttempts, attempt'[j] >= MaxAttempts
  PROVE  Account(Tries(j)', Retriers(j)', Again(j)', Paid')
<1>0. attempt[j] \in Nat /\ MaxAttempts \in Nat \ {0}
  BY DEF TypeInv, FollowupTypeOK, FollowupAssumption
<1>1. ~(Elsewhere \/ UNCHANGED vars)
  BY <1>0, ElsewhereRows
<1>2. PICK w \in FollowupWorkers : Acts(w)
  BY <1>1, StepKinds
<1>3. ClaimDue(w)
  <2>1. CASE Recovers(w)
    BY <1>0, <2>1, RecoverEffect
  <2>2. CASE StartJob(w) \/ Sends(w) \/ Moves(w)
    BY <1>0, <2>2, StaysHeld
  <2>3. CASE Drops(w)
    <3>1. PICK k \in Claims(w) : Outcome(w, k)
      BY <2>3, DropOutcome
    <3>2. j # k.job => attempt'[j] = attempt[j]
      BY <3>1 DEF Outcome
    <3>3. j = k.job => attempt'[j] <= attempt[j]
      BY <1>0, <3>1 DEF Outcome, Ended, Left, Reopened, Released
    <3>4. attempt'[j] \in Nat
      BY TypeStep DEF TypeInv, FollowupTypeOK
    <3> QED BY <1>0, <3>2, <3>3, <3>4
  <2>4. CASE CrashWorker(w)
    BY <1>0, <2>4 DEF CrashWorker, rowVars
  <2> QED BY <1>2, <2>1, <2>2, <2>3, <2>4 DEF Acts
<1>4. /\ status[j] = "scheduled" /\ status'[j] = "claimed"
      /\ attempt'[j] = attempt[j] + 1 /\ Holds(w, j)' /\ cur'[w] = {}
      /\ \A k \in Claims(w)' : k.job = j => k.attempt = attempt'[j]
  BY <1>0, <1>3, ClaimEffect
<1>5. Tries(j)' = 1
  BY <1>0, <1>4 DEF Tries
<1>6. ~Again(j)'
  <2>1. Matches(w, j)'
    BY <1>4 DEF Holds, Matches
  <2> QED BY <1>4, <2>1 DEF Again
<1>7. Retriers(j)' \subseteq Bearers(j)
  <2>1. ToSend(w)' \subseteq Claims(w)'
    BY DEF ToSend, Claims
  <2>2. ~Retries(w, j)'
    BY <1>0, <1>4, <2>1 DEF Retries
  <2>3. Retriers(j)' \subseteq Retriers(j)
    BY <1>2, <2>2, RetriersMove
  <2>4. Retriers(j) \subseteq Bearers(j)
    BY DEF Retriers, Bearers, Retries, Bears
  <2> QED BY <2>3, <2>4
<1>8. Free(j)
  BY <1>4 DEF Free
<1>9. Account(accepted[j], Bearers(j), Free(j), Paid)
  BY DEF SendBudget
<1>10. /\ IsFiniteSet(Bearers(j)) /\ Cardinality(Bearers(j)) \in Nat
       /\ accepted[j] + Cardinality(Bearers(j)) + 1 <= 1 + Paid
  BY <1>8, <1>9 DEF Account
<1>11. Paid \in Nat /\ Paid' \in Nat /\ Paid' >= Paid
  BY PaidMoves
<1>12. /\ IsFiniteSet(Retriers(j)') /\ Cardinality(Retriers(j)') \in Nat
       /\ Cardinality(Retriers(j)') <= Cardinality(Bearers(j))
  BY <1>7, <1>10, OneApart, FS_CardinalityType
<1>13. accepted[j] \in Nat
  BY DEF TypeInv, FollowupTypeOK
<1>14. 1 + Cardinality(Retriers(j)') + 0 <= 1 + Paid'
  BY <1>10, <1>11, <1>12, <1>13
<1> QED BY <1>5, <1>6, <1>12, <1>14 DEF Account

\* Every step keeps the account of attempts in balance.
LEMMA AttemptBudgetStep ==
  ASSUME FollowupAssumption, TypeInv, TypeInv', CycleInv, Shape, SendBudget, AttemptBudget,
         [Next]_vars
  PROVE  AttemptBudget'
<1> SUFFICES ASSUME NEW j \in Job, attempt'[j] >= MaxAttempts
             PROVE  Account(Tries(j)', Retriers(j)', Again(j)', Paid')
  BY DEF AttemptBudget
<1>0. attempt[j] \in Nat /\ attempt'[j] \in Nat /\ MaxAttempts \in Nat \ {0}
  BY DEF TypeInv, FollowupTypeOK, FollowupAssumption
<1>1. CASE attempt[j] < MaxAttempts
  BY <1>1, TriesAtLimit
<1>2. CASE attempt[j] >= MaxAttempts
  <2>1. Tries(j) \in Nat /\ Tries(j)' \in Nat
    BY <1>0, <1>2 DEF Tries
  <2>2. Again(j) \in BOOLEAN /\ Again(j)' \in BOOLEAN
    BY DEF Again
  <2>3. Paid \in Nat /\ Paid' \in Nat
    BY PaidMoves
  <2>4. Account(Tries(j), Retriers(j), Again(j), Paid)
    BY <1>2 DEF AttemptBudget
  <2>5. \E w : TriesInBalance(j, w)
    <3>1. CASE Elsewhere \/ UNCHANGED vars
      BY <3>1, TriesElsewhere
    <3>2. ASSUME NEW w \in FollowupWorkers, Acts(w) PROVE TriesInBalance(j, w)
      BY <1>2, <3>2, TriesOfSends, TriesOfDrops, TriesOfClaims DEF Acts
    <3> QED BY <3>1, <3>2, StepKinds
  <2>6. PICK w : TriesInBalance(j, w)
    BY <2>5
  <2>7. Balanced(Tries(j), Tries(j)', Retriers(j), Retriers(j)', Again(j), Again(j)',
                 Paid, Paid', w)
    BY <2>6 DEF TriesInBalance
  <2> QED BY <2>1, <2>2, <2>3, <2>4, <2>7, Balance
<1> QED BY <1>0, <1>1, <1>2

-----------------------------------------------------------------------------
(* While nothing fails and nothing runs out, a send in doubt ends its job, *)
(* and a cycle ends for a reason.                                          *)

Calm == faults = 0 /\ stalls = 0

InDoubt(w, j) == pc[w] = "ambiguous" /\ \E k \in cur[w] : k.job = j
Doubt == Calm => \A j \in doubtful :
  \/ status[j] \in Terminal
  \/ status[j] = "claimed" /\ \E w \in FollowupWorkers : InDoubt(w, j)
Reasons == Calm => \A c \in Cycle :
  /\ cycle[c] # "none" => handled >= c \/ (tpc = "ack" /\ handled + 1 = c)
  /\ cycle[c] = "cancelled" => takeovers > 0 \/ (handled >= c /\ written > c)

\* It was calm before a step after which it is, and the step was no fault or stall.
LEMMA CalmBefore ==
  ASSUME FollowupAssumption, TypeInv, [Next]_vars, Calm'
  PROVE  Calm /\ faults' # faults + 1 /\ stalls' # stalls + 1
BY CountersMove DEF Calm

\* A worker whose send is in doubt records that next, if nothing fails.
LEMMA DoubtNext ==
  ASSUME TypeInv, Shape, NEW w \in FollowupWorkers, Acts(w), NEW j \in Job,
         InDoubt(w, j), status[j] = "claimed", faults' # faults + 1, stalls' # stalls + 1
  PROVE  status'[j] \in Terminal \/ (status'[j] = status[j] /\ InDoubt(w, j)')
<1>0. RowsOK
  BY Parts DEF TypeInv
<1>1. PICK k \in cur[w] : k.job = j
  BY DEF InDoubt
<1>2. cur[w] = {k} /\ pc[w] = "ambiguous"
  BY <1>1 DEF InDoubt, Shape, ShapeOK
<1>3. MarkSendFailure(w)
  BY <1>2 DEF Acts, ClaimDue, Recovers, ReleaseStaleClaims, ReleaseSlowClaims, StartJob,
     Drops, ConversationBusy, RefuseClaim, Shadow, LeaveClaimed, Checking, CheckFails,
     BlockPayload, MarkSent, ProcessThrows, Fault, Sends, SendAccepted, SendAmbiguous,
     Moves, CheckPasses, SendRejected, CrashWorker
<1>4. Update(j, "delivery_unknown")
  BY <1>1, <1>2, <1>3 DEF MarkSendFailure, FailureStatus
<1> QED BY <1>0, <1>4, UpdateEffect DEF Terminal

\* Every step keeps Doubt.
LEMMA DoubtStep ==
  ASSUME FollowupAssumption, TypeInv, CycleInv, WorkInv, Doubt, [Next]_vars
  PROVE  Doubt'
<1> SUFFICES ASSUME Calm', NEW j \in doubtful'
             PROVE  \/ status'[j] \in Terminal
                    \/ /\ status'[j] = "claimed"
                       /\ \E v \in FollowupWorkers : InDoubt(v, j)'
  BY DEF Doubt
<1> USE DEF TypeInv, FollowupTypeOK
<1>0. Calm /\ stalls = 0 /\ faults' # faults + 1 /\ stalls' # stalls + 1
  BY CalmBefore DEF Calm
<1>a. Shape /\ Sole /\ Checked
  BY DEF WorkInv
<1>1. CASE Elsewhere \/ UNCHANGED vars
  <2>1. UNCHANGED <<pc, cur, doubtful>>
    BY <1>1, ElsewhereKeeps
  <2>2. \A v : InDoubt(v, j)' <=> InDoubt(v, j)
    BY <2>1 DEF InDoubt
  <2>3. status'[j] = status[j] \/ status'[j] = "cancelled" \/ status[j] = "none"
    BY <1>1, <2>1, ElsewhereRows
  <2> QED BY <1>0, <2>1, <2>2, <2>3 DEF Doubt, Terminal
<1>2. ASSUME NEW w \in FollowupWorkers, Acts(w)
      PROVE  \/ status'[j] \in Terminal
             \/ /\ status'[j] = "claimed"
                /\ \E v \in FollowupWorkers : InDoubt(v, j)'
  <2>1. CASE j \in doubtful
    <3>1. CASE status[j] \in Terminal
      BY <2>1, <3>1, EndStep
    <3>2. CASE status[j] \notin Terminal
      <4>1. PICK v \in FollowupWorkers : InDoubt(v, j) /\ status[j] = "claimed"
        BY <1>0, <2>1, <3>2 DEF Doubt
      <4>2. CASE v = w
        BY <1>0, <1>a, <1>2, <2>1, <4>1, <4>2, DoubtNext
      <4>3. CASE v # w
        <5>1. InDoubt(v, j)'
          BY <1>2, <4>1, <4>3, OthersKept DEF InDoubt
        <5>2. Holds(v, j)
          BY <4>1 DEF InDoubt, Holds, Claims
        <5>3. status'[j] = "claimed"
          BY <1>0, <1>a, <1>2, <2>1, <4>1, <4>3, <5>2, ClaimStays
        <5> QED BY <5>1, <5>3
      <4> QED BY <4>2, <4>3
    <3> QED BY <3>1, <3>2
  <2>2. CASE j \notin doubtful
    <3>1. Sends(w)
      BY <1>2, <2>2, AcceptedMoves
    <3>2. PICK k \in cur[w] :
            /\ pc[w] = "send" /\ k.job \in Job
            /\ doubtful' \subseteq doubtful \cup {k.job}
            /\ cur' = cur
            /\ \/ pc'[w] = "sent" /\ doubtful' = doubtful
               \/ pc'[w] = "ambiguous"
      BY <1>a, <3>1, SendEffect
    <3>3. j = k.job /\ InDoubt(w, j)'
      BY <2>2, <3>2 DEF InDoubt
    <3>4. status'[j] = status[j]
      BY <1>a, <3>1, StaysHeld
    <3>5. status[j] \notin {"none", "scheduled"}
      <4>1. Holds(w, j)
        BY <3>2, <3>3 DEF Holds, Claims
      <4> QED BY <1>0, <1>a, <3>2, <3>3, <4>1 DEF Sole
    <3> QED BY <3>2, <3>3, <3>4, <3>5 DEF Open
  <2> QED BY <2>1, <2>2
<1> QED BY <1>1, <1>2, StepKinds

\* A worker's step changes a cycle only when it marks a last stage sent.
LEMMA CycleMoves ==
  ASSUME TypeInv, CycleInv, Sole, stalls = 0, NEW w \in FollowupWorkers, Acts(w),
         NEW c \in Cycle
  PROVE  cycle'[c] = cycle[c] \/ (cycle[c] # "none" /\ cycle'[c] = "completed")
<1> USE DEF TypeInv, FollowupTypeOK
<1>1. CASE MarkSent(w)
  <2>1. PICK k \in cur[w] :
          cycle' \in {cycle, [cycle EXCEPT ![k.job[1]] = "completed"]}
    BY <1>1 DEF MarkSent
  <2>2. k.job \in Job
    BY DEF Claim
  <2>3. Holds(w, k.job)
    BY DEF Holds, Claims
  <2>4. cycle[k.job[1]] # "none"
    BY <2>2, <2>3 DEF Sole, CycleInv, Unscheduled
  <2> QED BY <2>1, <2>4
<1>2. CASE ~MarkSent(w)
  <2>1. cycle' = cycle
    BY <1>2 DEF Acts, ClaimDue, Recovers, ReleaseStaleClaims, ReleaseSlowClaims, Recover,
       StartJob, Drops, ConversationBusy, RefuseClaim, Shadow, LeaveClaimed, CheckFails,
       BlockPayload, MarkSendFailure, ProcessThrows, CancelClaim, ReleaseClaim, Update,
       Sends, SendAccepted, SendAmbiguous, Moves, CheckPasses, SendRejected, Goto,
       CrashWorker, rowVars
  <2> QED BY <2>1
<1> QED BY <1>1, <1>2

\* Every step keeps Reasons.
LEMMA ReasonsStep ==
  ASSUME FollowupAssumption, TypeInv, CycleInv, WorkInv, Reasons, [Next]_vars
  PROVE  Reasons'
<1> SUFFICES ASSUME Calm', NEW c \in Cycle
             PROVE  /\ cycle'[c] # "none" =>
                         handled' >= c \/ (tpc' = "ack" /\ handled' + 1 = c)
                    /\ cycle'[c] = "cancelled" =>
                         takeovers' > 0 \/ (handled' >= c /\ written' > c)
  BY DEF Reasons
<1>0. Calm /\ stalls = 0 /\ faults' # faults + 1 /\ stalls' # stalls + 1
  BY CalmBefore DEF Calm
<1>1. /\ cycle[c] # "none" => handled >= c \/ (tpc = "ack" /\ handled + 1 = c)
      /\ cycle[c] = "cancelled" => takeovers > 0 \/ (handled >= c /\ written > c)
  BY <1>0 DEF Reasons
<1>2. /\ c \in Nat /\ handled \in Nat /\ written \in Nat /\ takeovers \in Nat
      /\ tpc # "idle" => handled < written
      /\ cycle \in [Cycle -> {"none", "active", "completed", "cancelled"}]
  BY DEF TypeInv, FollowupTypeOK, TurnBacked, FollowupAssumption, Cycle
<1>3. CASE CustomerWrites
  BY <1>1, <1>2, <1>3 DEF CustomerWrites, rowVars, envVars
<1>4. CASE MarkHumanTakeover
  BY <1>1, <1>2, <1>4 DEF MarkHumanTakeover, CancelConversation, turnVars
<1>5. CASE TurnCancel
  BY <1>1, <1>2, <1>5 DEF TurnCancel, CancelConversation, envVars
<1>6. CASE TurnSchedule
  <2>1. CASE cycle[handled + 1] # "none"
    BY <1>1, <1>2, <1>6, <2>1 DEF TurnSchedule, ScheduleCycle, rowVars, envVars
  <2>2. CASE cycle[handled + 1] = "none"
    <3>1. cycle'[c] = IF c = handled + 1 THEN "active"
                      ELSE IF cycle[c] = "active" THEN "cancelled" ELSE cycle[c]
      BY <1>6, <2>2 DEF TurnSchedule, ScheduleCycle
    <3>2. tpc = "anchor" /\ tpc' = "ack" /\ UNCHANGED <<handled, written, takeovers>>
      BY <1>6 DEF TurnSchedule, envVars
    <3>3. CASE c = handled + 1
      BY <1>2, <3>1, <3>2, <3>3
    <3>4. CASE c # handled + 1
      BY <1>1, <1>2, <3>1, <3>2, <3>4
    <3> QED BY <3>3, <3>4
  <2> QED BY <2>1, <2>2
<1>7. CASE TurnAck
  BY <1>1, <1>2, <1>7 DEF TurnAck, rowVars, envVars
<1>8. CASE BeginTurn \/ TurnCommit \/ TurnResume \/ TurnLosesLease
  BY <1>1, <1>2, <1>8 DEF BeginTurn, TurnCommit, TurnResume, TurnLosesLease, rowVars, envVars
<1>9. CASE TimePasses \/ TurnFails \/ ExpireLease \/ LeaseStalls \/ UNCHANGED vars
  BY <1>0, <1>1, <1>9 DEF TimePasses, TurnFails, Fault, ExpireLease, LeaseStalls, Stall,
     vars, rowVars, turnVars, envVars
<1>10. ASSUME NEW w \in FollowupWorkers, Acts(w)
       PROVE  /\ cycle'[c] # "none" =>
                   handled' >= c \/ (tpc' = "ack" /\ handled' + 1 = c)
              /\ cycle'[c] = "cancelled" =>
                   takeovers' > 0 \/ (handled' >= c /\ written' > c)
  <2>1. UNCHANGED <<tpc, handled, written>>
    BY <1>10, LeaseMoves DEF WorkInv
  <2>2. cycle'[c] = cycle[c] \/ (cycle[c] # "none" /\ cycle'[c] = "completed")
    BY <1>0, <1>10, CycleMoves DEF WorkInv
  <2>3. takeovers' >= takeovers /\ takeovers' \in Nat
    <3>1. TypeInv'
      BY TypeStep
    <3> QED BY <3>1, CountersMove DEF TypeInv, FollowupTypeOK, FollowupAssumption
  <2> QED BY <1>1, <1>2, <2>1, <2>2, <2>3
<1> QED BY <1>3, <1>4, <1>5, <1>6, <1>7, <1>8, <1>9, <1>10, StepKinds DEF Elsewhere, Turn

-----------------------------------------------------------------------------
(* The whole *)

PaidInv == SendBudget /\ AttemptBudget /\ Doubt /\ Reasons

\* No message and no attempt is made at the beginning.
LEMMA PaidInit ==
  ASSUME FollowupAssumption, Init
  PROVE  PaidInv
<1> USE DEF FollowupAssumption
<1>1. ASSUME NEW j \in Job PROVE Account(accepted[j], Bearers(j), Free(j), Paid)
  <2>1. Bearers(j) = {}
    BY DEF Init, Bearers, Bears, ToSend
  <2>2. IsFiniteSet(Bearers(j)) /\ Cardinality(Bearers(j)) = 0
    BY <2>1, FS_EmptySet
  <2>3. accepted[j] = 0 /\ Paid = 0
    BY DEF Init, Paid
  <2> QED BY <2>2, <2>3 DEF Account
<1>2. \A j \in Job : ~(attempt[j] >= MaxAttempts)
  BY DEF Init
<1>3. Doubt /\ Reasons
  BY DEF Init, Doubt, Reasons
<1> QED BY <1>1, <1>2, <1>3 DEF PaidInv, SendBudget, AttemptBudget

\* Whatever departs from one message and its attempts per stage is paid for.
THEOREM DeparturesArePaidFor == Spec => []FollowupsArePaidFor
<1> USE FollowupAssumption
<1>1. TypeInv /\ CycleInv /\ WorkInv /\ PaidInv /\ [Next]_vars => PaidInv'
  BY TypeStep, SendBudgetStep, AttemptBudgetStep, DoubtStep, ReasonsStep DEF PaidInv, WorkInv
<1>2. ASSUME TypeInv, PaidInv PROVE FollowupsArePaidFor
  <2>0. faults \in Nat /\ stalls \in Nat /\ MaxAttempts \in Nat
    BY <1>2 DEF TypeInv, FollowupTypeOK
  <2>1. ASSUME NEW j \in Job PROVE accepted[j] <= 1 + faults + stalls
    <3>1. Account(accepted[j], Bearers(j), Free(j), Paid) /\ accepted[j] \in Nat
      BY <1>2 DEF PaidInv, SendBudget, TypeInv, FollowupTypeOK
    <3> QED BY <2>0, <3>1 DEF Account, Paid
  <2>2. ASSUME NEW j \in Job PROVE attempt[j] <= MaxAttempts + faults + stalls
    <3>0. attempt[j] \in Nat
      BY <1>2 DEF TypeInv, FollowupTypeOK
    <3>1. CASE attempt[j] >= MaxAttempts
      <4>1. Account(Tries(j), Retriers(j), Again(j), Paid)
        BY <1>2, <3>1 DEF PaidInv, AttemptBudget
      <4> QED BY <2>0, <3>0, <3>1, <4>1 DEF Account, Paid, Tries
    <3> QED BY <2>0, <3>0, <3>1
  <2>3. ASSUME faults = 0, stalls = 0, NEW j \in doubtful, status[j] \notin Terminal
        PROVE  \E w \in FollowupWorkers : pc[w] = "ambiguous" /\ j \in HeldBy(w)
    BY <1>2, <2>3 DEF PaidInv, Doubt, Calm, InDoubt, HeldBy
  <2>4. ASSUME faults = 0, stalls = 0, NEW c \in Cycle, cycle[c] = "cancelled"
        PROVE  takeovers > 0 \/ (handled >= c /\ written > c)
    BY <1>2, <2>4 DEF PaidInv, Reasons, Calm
  <2> QED BY <2>1, <2>2, <2>3, <2>4 DEF FollowupsArePaidFor
<1> QED BY <1>1, <1>2, PaidInit, WorkHolds, PTL DEF Spec
=============================================================================
