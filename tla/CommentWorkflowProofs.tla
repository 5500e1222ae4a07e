----------------------- MODULE CommentWorkflowProofs -----------------------
(***************************************************************************)
(* Theorems about CommentWorkflow, for any workers, staff, attempts and    *)
(* faults.                                                                 *)
(*                                                                         *)
(* A copy of a part at Meta is paid for: beside the copies that were       *)
(* accepted, Budget counts the sends still under way of workers that may   *)
(* have lost the lease and the one send the lease and the stored plan may  *)
(* still let in, and only a fault or a stall adds to the sum.  The other   *)
(* properties follow one turn at a time (Alone) from step to step.         *)
(***************************************************************************)
EXTENDS CommentWorkflow, FiniteSetTheorems, TLAPS

Sending == {"send", "record", "unknown", "issue"}
\* The steps of a turn whose plan is committed.
Dispatching ==
  Sending \cup {"prepare", "hide", "mark", "guard", "part", "suppress"}

\* What a worker's control says of its cursor and of the plan.
ControlOK ==
  /\ ~outbox.committed => outbox = NoPlan
  /\ \A w \in Workers :
       /\ pc[w] \in Sending => cursor[w] < 2
       /\ pc[w] = "part" => cursor[w] \in Parts
       /\ pc[w] \in Dispatching => outbox.committed
       /\ pc[w] = "commit" /\ lease = w => ~outbox.committed

\* Everybody who counts a part as sent is right.
SentIsAccepted ==
  /\ \A p \in Parts :
       /\ outbox.sent >= p => accepted[p] > 0
       /\ p \in row.told => accepted[p] > 0
       /\ row.status = "replied" => accepted[p] > 0
       /\ \A w \in Workers :
            cursor[w] >= p \/ (pc[w] = "record" /\ cursor[w] + 1 = p)
              => accepted[p] > 0
  /\ accepted[2] > 0 => accepted[1] > 0

\* The worker has called Meta for the part and not yet stored what came of it.
UnderWay(w, p) == pc[w] \in {"send", "record", "unknown"} /\ cursor[w] = p - 1

\* Steps from which a turn goes on to the parts after its cursor, or leaves them
\* to the next turn.
MaySend == {"prepare", "hide", "mark", "guard", "send", "record", "part", "issue"}

\* The holder of the lease, or the next one, may send the part.
Open(p) ==
  \/ /\ outbox.sent < p /\ ~outbox.unknown
     /\ \A w \in Workers : lease = w => ~UnderWay(w, p)
  \/ \E w \in Workers :
       /\ lease = w /\ pc[w] \in MaySend /\ cursor[w] < p /\ ~UnderWay(w, p)

\* Workers that may send the part, lease or not, and those whose late record of
\* an earlier part may open the plan again.
Loose(p) ==
  {w \in Workers :
     \/ pc[w] = "send" /\ cursor[w] = p - 1
     \/ lease # w /\ pc[w] \in {"send", "record"} /\ cursor[w] < p - 1}

Debt(p) == Cardinality(Loose(p)) + (IF Open(p) THEN 1 ELSE 0)
Budget == \A p \in Parts : accepted[p] + Debt(p) <= 1 + faults + stalls

\* One change of visibility at a time is between Meta's answer and the row.
ChangesInOrder ==
  (~refused /\ ~crossed /\ faults = 0) =>
    /\ \A w, v \in Workers : pc[w] \in Mark /\ pc[v] \in Mark => w = v
    /\ \A s, t \in Asking : s = t
    /\ Asking # {} => \A w \in Workers : pc[w] \notin Mark
    /\ \A w \in Workers : pc[w] \in Mark => hidden
    /\ \A s \in Staff : page[s] = "store" => hidden = (s \in Hides)
    /\ (\A w \in Workers : pc[w] \notin Mark) /\ (\A s \in Staff : page[s] # "store")
         => row.hidden = hidden

\* Undisturbed, the entry and the lease keep every other worker out.
Alone ==
  Undisturbed =>
    \A w \in Workers :
      /\ pc[w] # "idle" => owner = w /\ entry = "live" /\ held[w] = attempt
      /\ pc[w] \notin {"idle", "lease"} => lease = w

\* The comment is hidden as far as its personal data asks for it.
HiddenOrAsked == hidden \/ \E s \in Staff \ Hides : page[s] # "idle"
Hidden == pii => refused \/ HiddenOrAsked

\* The two ways in which a first, undisturbed turn leaves the comment.
Answered == row.status = "replied" /\ Hidden
Declined == row.status = "paused" /\ (conv.human # "bot" \/ Hidden)

Untold == ~outbox.committed /\ row.told = {}
UpTo(n) == {p \in Parts : p <= n}

\* What the row, the plan and Meta have come to when the worker is at a step of
\* the first turn.
Progress(w) ==
  /\ ~resumed[w]
  /\ pc[w] \in {"lease", "load", "paused", "find", "denied", "commit"} => Untold
  /\ pc[w] = "paused" => conv.human # "bot"
  /\ pc[w] \in {"prepare", "hide", "mark"} => cursor[w] = 0
  /\ pc[w] \in Dispatching => outbox.version = seen[w].version
  /\ pc[w] \in Dispatching \ {"part"} => row.told = UpTo(cursor[w])
  /\ pc[w] = "part" => row.told = UpTo(cursor[w] - 1)
  /\ pc[w] = "guard" /\ cursor[w] = 2 => row.status = "replied"
  /\ pc[w] \in Dispatching \ {"prepare", "hide"} => Hidden
  /\ pc[w] \in {"hide refused", "mark refused"} => row.status = "paused"
  /\ pc[w] = "mark refused" => Hidden
  /\ pc[w] = "settle" => Declined
  /\ pc[w] = "done" => Answered \/ Declined

FirstTry ==
  (Undisturbed /\ attempt = 0 /\ LiveSend) =>
    /\ entry = "acked" => Answered \/ Declined
    /\ entry = "live" /\ (\A w \in Workers : pc[w] = "idle") => Untold
    /\ \A w \in Workers : Progress(w)

CommentInv ==
  /\ CommentTypeOK /\ ControlOK /\ SentIsAccepted /\ Budget
  /\ ChangesInOrder /\ Alone /\ FirstTry

-----------------------------------------------------------------------------
(* Types *)

LEMMA ForgetType ==
  ASSUME CommentTypeOK, NEW w \in Workers, Forget(w)
  PROVE  /\ pc' \in [Workers -> Steps \cup Hide \cup Mark]
         /\ held' \in [Workers -> Nat] /\ seen' \in [Workers -> Conversation]
         /\ cursor' \in [Workers -> 0..2]
         /\ resumed' \in [Workers -> BOOLEAN] /\ retried' \in [Workers -> BOOLEAN]
<1>1. NewConversation \in Conversation
  BY DEF NewConversation, Conversation
<1> QED BY <1>1 DEF CommentTypeOK, Forget, Goto, Steps

\* The entry stays within its attempts, whatever budget the error allows.
LEMMA RetryType ==
  ASSUME CommentTypeOK, CommentAssumption, NEW w \in Workers,
         NEW max \in {1, MaxAttempts}, RetryOrDeadLetter(w, max)
  PROVE  /\ entry' \in {"live", "acked", "dead"} /\ attempt' \in 0..(MaxAttempts - 1)
         /\ owner' \in Workers \cup {NoWorker} /\ lease' \in Workers \cup {NoWorker}
         /\ Forget(w)
<1>1. attempt' \in 0..(MaxAttempts - 1)
  BY DEF CommentTypeOK, CommentAssumption, RetryOrDeadLetter, Exhausted, queueVars
<1>2. /\ entry' \in {"live", "acked", "dead"} /\ owner' \in Workers \cup {NoWorker}
      /\ lease' \in Workers \cup {NoWorker}
  BY DEF CommentTypeOK, RetryOrDeadLetter, Release, queueVars
<1> QED BY <1>1, <1>2 DEF RetryOrDeadLetter

LEMMA GotoType ==
  ASSUME CommentTypeOK, NEW w \in Workers, NEW l \in Steps \cup Hide \cup Mark,
         Goto(w, l)
  PROVE  pc' \in [Workers -> Steps \cup Hide \cup Mark]
  BY DEF CommentTypeOK, Goto
\* The type of a plan or a row one field of which is set.
LEMMA OutboxType ==
  ASSUME CommentTypeOK, NEW n \in 0..2, NEW b \in BOOLEAN
  PROVE  /\ [outbox EXCEPT !.sent = n] \in Plan
         /\ [outbox EXCEPT !.unknown = b, !.sent = n] \in Plan
  BY DEF CommentTypeOK, Plan

LEMMA RowType ==
  ASSUME CommentTypeOK, NEW st \in Status, NEW b \in BOOLEAN, NEW T \in SUBSET Parts
  PROVE  /\ [row EXCEPT !.status = st] \in Row
         /\ [row EXCEPT !.hidden = b] \in Row
         /\ [row EXCEPT !.told = T, !.status = st] \in Row
  BY DEF CommentTypeOK, Row

LEMMA CommentType ==
  ASSUME CommentAssumption, CommentTypeOK, ControlOK, [Next]_vars PROVE CommentTypeOK'
<1> USE DEF queueVars, storeVars, localVars, metaVars, envVars
<1>1. CASE UNCHANGED vars
  BY <1>1 DEF CommentTypeOK, vars
<1>2. CASE MessengerMoves
  <2>1. conv' \in Conversation
    BY <1>2 DEF MessengerMoves, CommentTypeOK, Conversation
  <2>2. moves' \in 0..MaxMoves
    BY <1>2 DEF MessengerMoves, CommentTypeOK, CommentAssumption
  <2> QED BY <1>2, <2>1, <2>2 DEF MessengerMoves, CommentTypeOK
<1>3. ASSUME NEW w \in Workers, ExpireLease(w) PROVE CommentTypeOK'
  BY <1>3 DEF ExpireLease, CommentTypeOK, CommentAssumption
<1>4. ASSUME NEW w \in Workers, ReadGroup(w) PROVE CommentTypeOK'
  <2>1. stalls' \in 0..MaxStalls
    BY <1>4 DEF ReadGroup, CommentTypeOK, CommentAssumption
  <2> QED BY <1>4, <2>1, GotoType DEF ReadGroup, CommentTypeOK, Steps
<1>5. ASSUME NEW w \in Workers, AcquireLease(w) \/ LeaseBusy(w) PROVE CommentTypeOK'
  BY <1>5, GotoType, ForgetType DEF AcquireLease, LeaseBusy, CommentTypeOK, Steps
<1>6. ASSUME NEW w \in Workers, NEW max \in {1, MaxAttempts}, RetryOrDeadLetter(w, max),
             UNCHANGED <<pii, conv, processed, page, metaVars, moves, stalls>>,
             row' \in Row, outbox' \in Plan, faults' \in 0..MaxFaults
      PROVE CommentTypeOK'
  BY <1>6, RetryType, ForgetType DEF CommentTypeOK
<1>7. ASSUME NEW w \in Workers, NEW l \in Steps \cup Hide \cup Mark, Goto(w, l),
             UNCHANGED <<pii, queueVars, lease, conv, outbox, processed, localVars,
                         page, metaVars, envVars>>, row' \in Row
      PROVE CommentTypeOK'
  BY <1>7, GotoType DEF CommentTypeOK
<1>8. ASSUME NEW w \in Workers, Acknowledge(w) PROVE CommentTypeOK'
  BY <1>8, ForgetType DEF Acknowledge, Release, CommentTypeOK
<1>9. ASSUME NEW w \in Workers, LeaseLostAtEnd(w) \/ CallFails(w) PROVE CommentTypeOK'
  BY <1>6, <1>9 DEF LeaseLostAtEnd, CallFails, Fault, CommentTypeOK, CommentAssumption
<1>10. ASSUME NEW w \in Workers, AbandonTurn(w) \/ StopWorker(w) \/ CrashWorker(w)
       PROVE CommentTypeOK'
  BY <1>10, ForgetType DEF AbandonTurn, StopWorker, CrashWorker, Release, Fault,
                           CommentTypeOK, CommentAssumption
<1>11. ASSUME NEW w \in Workers, LoadComment(w) PROVE CommentTypeOK'
  <2>1. row' \in Row
    BY <1>11 DEF LoadComment, CommentTypeOK, Row, Status
  <2>2. PICK l \in Steps : Goto(w, l)
    BY <1>11 DEF LoadComment, Steps
  <2> QED BY <1>11, <2>1, <2>2, GotoType DEF LoadComment, CommentTypeOK
<1>12. ASSUME NEW w \in Workers, PauseForHuman(w) \/ Suppress(w) \/ Deny(w)
       PROVE CommentTypeOK'
  <2>1. row' \in Row
    BY <1>12, RowType DEF PauseForHuman, Suppress, Deny, Issue, Status
  <2>2. PICK l \in Steps \cup Hide : Goto(w, l)
    BY <1>12 DEF PauseForHuman, Suppress, Deny, AfterDispatch, HideFirst, Steps, Hide
  <2> QED BY <1>7, <1>12, <2>1, <2>2 DEF PauseForHuman, Suppress, Deny
<1>13. ASSUME NEW w \in Workers, ResumeOutbound(w) PROVE CommentTypeOK'
  <2>1. outbox.sent \in 0..2
    BY DEF CommentTypeOK, Plan
  <2>2. PICK l \in Steps : Goto(w, l)
    BY <1>13 DEF ResumeOutbound, Steps
  <2> QED BY <1>13, <2>1, <2>2, GotoType DEF ResumeOutbound, CommentTypeOK
<1>14. ASSUME NEW w \in Workers, Compose(w) PROVE CommentTypeOK'
  <2>1. seen' \in [Workers -> Conversation]
    BY <1>14 DEF Compose, CommentTypeOK
  <2> QED BY <1>14, <2>1, GotoType DEF Compose, CommentTypeOK, Steps
<1>15. ASSUME NEW w \in Workers, CommitPlan(w) PROVE CommentTypeOK'
  <2>1. outbox' \in Plan
    <3>1. CASE outbox.committed
      BY <1>15, <3>1 DEF CommitPlan, CommentTypeOK
    <3>2. CASE ~outbox.committed
      <4>1. outbox' = [NoPlan EXCEPT !.committed = TRUE, !.version = conv.version]
        BY <1>15, <3>2 DEF CommitPlan
      <4>2. conv.version \in Nat
        BY DEF CommentTypeOK, Conversation
      <4>3. outbox' = [committed |-> TRUE, version |-> conv.version, sent |-> 0,
                       unknown |-> FALSE]
        BY <4>1 DEF NoPlan
      <4> QED BY <4>2, <4>3 DEF Plan
    <3> QED BY <3>1, <3>2
  <2>2. outbox'.sent \in 0..2
    BY <2>1 DEF Plan
  <2> QED BY <1>15, <2>1, <2>2, GotoType DEF CommitPlan, CommentTypeOK, Steps
<1>16. ASSUME NEW w \in Workers, StateConflict(w) PROVE CommentTypeOK'
  <2>1. CASE retried[w]
    BY <1>6, <1>16, <2>1 DEF StateConflict, CommentTypeOK
  <2>2. CASE ~retried[w]
    BY <1>16, <2>2, GotoType DEF StateConflict, CommentTypeOK, Steps
  <2> QED BY <2>1, <2>2
<1>17. ASSUME NEW w \in Workers, PrepareReplies(w) PROVE CommentTypeOK'
  <2>1. row' \in Row
    BY <1>17 DEF PrepareReplies, StatusPrepared, CommentTypeOK, Row, Status
  <2>2. PICK l \in Steps \cup Hide : Goto(w, l)
    BY <1>17 DEF PrepareReplies, HideFirst, Steps, Hide
  <2> QED BY <1>7, <1>17, <2>1, <2>2 DEF PrepareReplies
<1>18. ASSUME NEW w \in Workers, AutoHide(w) PROVE CommentTypeOK'
  <2>1. PICK l \in Steps \cup Mark : Goto(w, l)
    BY <1>18 DEF AutoHide, AfterHide, Steps, Mark
  <2>2. hidden' \in BOOLEAN /\ refused' \in BOOLEAN /\ crossed' \in BOOLEAN
    BY <1>18 DEF AutoHide, SetCommentHidden, Cross, CommentTypeOK
  <2> QED BY <1>18, <2>1, <2>2, GotoType DEF AutoHide, CommentTypeOK
<1>19. ASSUME NEW w \in Workers, MarkHidden(w) PROVE CommentTypeOK'
  <2>1. row' \in Row /\ Goto(w, AfterHide(w)) /\ AfterHide(w) \in Steps
    BY <1>19, RowType DEF MarkHidden, AfterHide, Steps, Status
  <2> QED BY <1>7, <1>19, <2>1 DEF MarkHidden
<1>20. ASSUME NEW s \in Staff, Request(s) PROVE CommentTypeOK'
  <2>1. CASE RequestVisibility(s)
    BY <2>1 DEF RequestVisibility, Cross, CommentTypeOK
  <2>2. CASE CallVisibility(s)
    <3>1. hidden' \in BOOLEAN /\ refused' \in BOOLEAN
      <4>1. PICK known \in BOOLEAN : SetCommentHidden(s \in Hides, known)
        BY <2>2 DEF CallVisibility
      <4>2. (s \in Hides) \in BOOLEAN
        OBVIOUS
      <4>3. PICK b \in BOOLEAN : SetCommentHidden(b, known)
        BY <4>1, <4>2
      <4> QED BY <4>3 DEF SetCommentHidden, CommentTypeOK
    <3>2. page' \in [Staff -> {"idle", "call", "store", "end"}]
      BY <2>2 DEF CallVisibility, CommentTypeOK
    <3> QED BY <2>2, <3>1, <3>2 DEF CallVisibility, CommentTypeOK
  <2>3. CASE StoreVisibility(s)
    <3>1. PICK b \in BOOLEAN : row' = [row EXCEPT !.hidden = b]
      <4>1. VisibilityOf(s) \in BOOLEAN
        BY DEF VisibilityOf
      <4> QED BY <2>3, <4>1 DEF StoreVisibility
    <3>2. row' \in Row
      BY <3>1 DEF CommentTypeOK, Row
    <3> QED BY <2>3, <3>2 DEF StoreVisibility, CommentTypeOK
  <2> QED BY <1>20, <2>1, <2>2, <2>3 DEF Request
<1>21. ASSUME NEW w \in Workers, GuardPart(w) \/ MarkProcessed(w) PROVE CommentTypeOK'
  <2>1. PICK l \in Steps : Goto(w, l)
    BY <1>21 DEF GuardPart, MarkProcessed, AfterDispatch, Steps
  <2> QED BY <1>21, <2>1, GotoType DEF GuardPart, MarkProcessed, CommentTypeOK
<1>22. ASSUME NEW w \in Workers, SendPart(w) PROVE CommentTypeOK'
  <2>1. cursor[w] + 1 \in Parts
    BY <1>22 DEF SendPart, ControlOK, Sending, Parts, CommentTypeOK
  <2>2. accepted' \in [Parts -> Nat]
    BY <1>22, <2>1 DEF SendPart, Accept, CommentTypeOK
  <2>3. PICK l \in Steps : Goto(w, l)
    BY <1>22 DEF SendPart, Steps
  <2> QED BY <1>22, <2>2, <2>3, GotoType DEF SendPart, CommentTypeOK
<1>23. ASSUME NEW w \in Workers, SendFailed(w) \/ MarkOutboundUnknown(w)
       PROVE CommentTypeOK'
  <2>1. row' \in Row /\ outbox' \in Plan
    <3>1. CASE SendFailed(w)
      BY <3>1, RowType DEF SendFailed, Issue, Status, CommentTypeOK
    <3>2. CASE MarkOutboundUnknown(w)
      BY <3>2, OutboxType DEF MarkOutboundUnknown, CommentTypeOK
    <3> QED BY <1>23, <3>1, <3>2
  <2>2. PICK max \in {1, MaxAttempts} : RetryOrDeadLetter(w, max)
    BY <1>23 DEF SendFailed, MarkOutboundUnknown
  <2> QED BY <1>6, <1>23, <2>1, <2>2 DEF SendFailed, MarkOutboundUnknown, CommentTypeOK
<1>24. ASSUME NEW w \in Workers, MarkPartSent(w) PROVE CommentTypeOK'
  <2>1. cursor[w] + 1 \in 0..2
    BY <1>24 DEF MarkPartSent, ControlOK, Sending, CommentTypeOK
  <2>2. outbox' \in Plan
    BY <1>24, <2>1, OutboxType DEF MarkPartSent
  <2> QED BY <1>24, <2>1, <2>2, GotoType DEF MarkPartSent, CommentTypeOK, Steps
<1>25. ASSUME NEW w \in Workers, MarkCommentPartSent(w) PROVE CommentTypeOK'
  <2>1. row.told \cup {cursor[w]} \in SUBSET Parts
    BY <1>25 DEF MarkCommentPartSent, ControlOK, CommentTypeOK, Row
  <2>2. StatusOf(row.told \cup {cursor[w]}) \in Status
    BY DEF StatusOf, Status
  <2>3. row' \in Row
    BY <1>25, <2>1, <2>2, RowType DEF MarkCommentPartSent
  <2> QED BY <1>7, <1>25, <2>3 DEF MarkCommentPartSent, Steps
<1> QED
  BY <1>1, <1>2, <1>3, <1>4, <1>5, <1>8, <1>9, <1>10, <1>11, <1>12, <1>13, <1>14,
     <1>15, <1>16, <1>17, <1>18, <1>19, <1>20, <1>21, <1>22, <1>23, <1>24, <1>25
     DEF Next, Turn
-----------------------------------------------------------------------------
(* Control, and what counts as sent *)

\* A worker that forgets its turn has nothing left of it.
LEMMA ForgetEffect ==
  ASSUME CommentTypeOK, NEW w \in Workers, Forget(w)
  PROVE  /\ pc'[w] = "idle" /\ cursor'[w] = 0 /\ ~resumed'[w]
         /\ \A v \in Workers \ {w} :
              /\ pc'[v] = pc[v] /\ cursor'[v] = cursor[v] /\ held'[v] = held[v]
              /\ seen'[v] = seen[v] /\ resumed'[v] = resumed[v]
  BY DEF CommentTypeOK, Forget, Goto

\* The steps of a worker that end its turn: what they do to the worker, to the
\* plan and to the row.
Ends(w) ==
  \/ LeaseBusy(w) \/ Acknowledge(w) \/ LeaseLostAtEnd(w) \/ AbandonTurn(w)
  \/ StopWorker(w) \/ CrashWorker(w) \/ CallFails(w) \/ SendFailed(w)
  \/ MarkOutboundUnknown(w) \/ (StateConflict(w) /\ retried[w])

LEMMA EndsEffect ==
  ASSUME NEW w \in Workers, Ends(w)
  PROVE  /\ Forget(w)
         /\ \/ outbox' = outbox
            \/ pc[w] = "unknown" /\ outbox' = [outbox EXCEPT !.unknown = TRUE, !.sent = cursor[w]]
         /\ \/ row' = row \/ row' = [row EXCEPT !.status = "failed"]
         /\ UNCHANGED <<pii, conv, processed, page, metaVars, moves, stalls>>
         /\ Release(w) \/ lease' = lease
         /\ faults' = faults \/ (faults' = faults + 1 /\ Fault)
  BY DEF Ends, LeaseBusy, Acknowledge, LeaseLostAtEnd, AbandonTurn, StopWorker, Fault,
         CrashWorker, CallFails, SendFailed, MarkOutboundUnknown, StateConflict,
         RetryOrDeadLetter, Issue, storeVars, envVars

LEMMA ControlStep ==
  ASSUME CommentAssumption, CommentTypeOK, ControlOK, [Next]_vars PROVE ControlOK'
<1> USE DEF CommentTypeOK, ControlOK, Sending, Dispatching, queueVars, localVars
<1>1. CASE UNCHANGED <<outbox, pc, cursor, lease>>
  BY <1>1
<1>2. CASE UNCHANGED vars \/ MessengerMoves \/ \E s \in Staff : Request(s)
  BY <1>1, <1>2 DEF vars, storeVars, MessengerMoves, Request, RequestVisibility,
                    CallVisibility, StoreVisibility
<1>3. ASSUME NEW w \in Workers, ExpireLease(w) PROVE ControlOK'
  BY <1>3 DEF ExpireLease, storeVars, CommentAssumption
<1>4. ASSUME NEW w \in Workers, Ends(w) PROVE ControlOK'
  <2>1. ~outbox'.committed => outbox' = NoPlan /\ ~outbox.committed
    BY <1>4, EndsEffect DEF Plan
  <2>2. \A v \in Workers : lease' = v => lease = v
    BY <1>4, EndsEffect DEF Release, CommentAssumption
  <2>3. outbox.committed => outbox'.committed
    BY <1>4, EndsEffect DEF Plan
  <2>4. /\ pc'[w] = "idle"
        /\ \A v \in Workers \ {w} : pc'[v] = pc[v] /\ cursor'[v] = cursor[v]
    BY <1>4, EndsEffect, ForgetEffect
  <2>5. pc[w] = "unknown" \/ outbox' = outbox
    BY <1>4, EndsEffect
  <2> QED BY <2>1, <2>2, <2>3, <2>4, <2>5
<1>5. ASSUME NEW w \in Workers,
             \/ ReadGroup(w) \/ AcquireLease(w) \/ LoadComment(w) \/ PauseForHuman(w)
             \/ MarkProcessed(w) \/ Compose(w) \/ (StateConflict(w) /\ ~retried[w])
      PROVE ControlOK'
  BY <1>5 DEF ReadGroup, AcquireLease, LoadComment, PauseForHuman, MarkProcessed,
              Compose, StateConflict, Goto, storeVars
<1>6. ASSUME NEW w \in Workers, ResumeOutbound(w) \/ PrepareReplies(w) PROVE ControlOK'
  BY <1>6 DEF ResumeOutbound, PrepareReplies, HideFirst, Goto, storeVars
<1>7. ASSUME NEW w \in Workers, Deny(w) \/ AutoHide(w) \/ MarkHidden(w) PROVE ControlOK'
  <2>1. UNCHANGED <<outbox, cursor, lease>>
    BY <1>7 DEF Deny, AutoHide, MarkHidden, storeVars
  <2>2. CASE Deny(w)
    BY <2>1, <2>2 DEF Deny, HideFirst, Goto
  <2>3. CASE AutoHide(w) \/ MarkHidden(w)
    <3>1. PICK l \in {"mark", "guard", "mark refused", "settle"} :
            Goto(w, l) /\ (l \in {"mark", "guard"} => pc[w] \in {"hide", "mark"})
      <4>1. AfterHide(w) \in {"guard", "settle"}
              /\ (AfterHide(w) = "guard" => pc[w] \in {"hide", "mark"})
        BY DEF AfterHide
      <4> QED BY <2>3, <4>1 DEF AutoHide, MarkHidden
    <3> QED BY <2>1, <3>1 DEF Goto
  <2> QED BY <1>7, <2>2, <2>3
<1>8. ASSUME NEW w \in Workers, CommitPlan(w) PROVE ControlOK'
  <2>1. outbox'.committed
    BY <1>8 DEF CommitPlan, NoPlan, Plan
  <2> QED BY <1>8, <2>1 DEF CommitPlan, Goto
<1>9. ASSUME NEW w \in Workers, GuardPart(w) \/ Suppress(w) PROVE ControlOK'
  BY <1>9 DEF GuardPart, PlanOver, AfterDispatch, Suppress, Goto, storeVars
<1>10. ASSUME NEW w \in Workers, SendPart(w) PROVE ControlOK'
  BY <1>10 DEF SendPart, Goto, storeVars
<1>11. ASSUME NEW w \in Workers, MarkPartSent(w) PROVE ControlOK'
  <2>1. outbox.committed /\ outbox'.committed
    BY <1>11 DEF MarkPartSent, Plan
  <2> QED BY <1>11, <2>1 DEF MarkPartSent, Goto, Parts
<1>12. ASSUME NEW w \in Workers, MarkCommentPartSent(w) PROVE ControlOK'
  BY <1>12 DEF MarkCommentPartSent, Goto
<1> QED
  BY <1>2, <1>3, <1>4, <1>5, <1>6, <1>7, <1>8, <1>9, <1>10, <1>11, <1>12
     DEF Next, Turn, Ends

\* Nothing that counts a part as sent, and no copy at Meta, moves.
LEMMA SentUntouched ==
  ASSUME SentIsAccepted, UNCHANGED <<outbox, accepted, cursor>>,
         row'.told = row.told, row'.status = "replied" => row.status = "replied",
         \A w \in Workers : pc'[w] = "record" => pc[w] = "record"
  PROVE  SentIsAccepted'
  BY DEF SentIsAccepted

LEMMA SentStep ==
  ASSUME CommentTypeOK, ControlOK, SentIsAccepted, [Next]_vars PROVE SentIsAccepted'
<1> USE DEF CommentTypeOK, storeVars, localVars, metaVars
<1>1. CASE UNCHANGED vars \/ MessengerMoves \/ \E s \in Staff : Request(s)
  BY <1>1, SentUntouched
     DEF vars, MessengerMoves, Request, RequestVisibility, CallVisibility,
         StoreVisibility, Row
<1>2. ASSUME NEW w \in Workers, ExpireLease(w) \/ ReadGroup(w) \/ AcquireLease(w)
      PROVE SentIsAccepted'
  BY <1>2, SentUntouched DEF ExpireLease, ReadGroup, AcquireLease, Goto
<1>3. ASSUME NEW w \in Workers, Ends(w) PROVE SentIsAccepted'
  <2>1. /\ row'.told = row.told
        /\ row'.status = "replied" => row.status = "replied"
        /\ accepted' = accepted
    BY <1>3, EndsEffect DEF Row
  <2>2. \A p \in Parts : outbox'.sent >= p => accepted[p] > 0
    <3>1. CASE outbox' = outbox
      BY <3>1 DEF SentIsAccepted
    <3>2. CASE outbox' = [outbox EXCEPT !.unknown = TRUE, !.sent = cursor[w]]
      <4>1. outbox'.sent = cursor[w]
        BY <3>2 DEF Plan
      <4> QED BY <4>1 DEF SentIsAccepted
    <3> QED BY <1>3, <3>1, <3>2, EndsEffect
  <2>3. \A v \in Workers : pc'[v] = "record" => pc[v] = "record" /\ cursor'[v] = cursor[v]
    BY <1>3, EndsEffect, ForgetEffect
  <2>4. \A v \in Workers, p \in Parts : cursor'[v] >= p => cursor[v] >= p
    <3>1. /\ cursor'[w] = 0
          /\ \A v \in Workers \ {w} : cursor'[v] = cursor[v]
      BY <1>3, EndsEffect, ForgetEffect
    <3> QED BY <3>1 DEF Parts
  <2> QED BY <2>1, <2>2, <2>3, <2>4 DEF SentIsAccepted
<1>4. ASSUME NEW w \in Workers,
             \/ LoadComment(w) \/ PauseForHuman(w) \/ Compose(w) \/ Suppress(w)
             \/ Deny(w) \/ (StateConflict(w) /\ ~retried[w]) \/ GuardPart(w)
      PROVE SentIsAccepted'
  BY <1>4, SentUntouched
     DEF LoadComment, PauseForHuman, Compose, Suppress, Deny, HideFirst, StateConflict,
         GuardPart, AfterDispatch, Issue, Goto, Row
<1>5. ASSUME NEW w \in Workers,
             PrepareReplies(w) \/ AutoHide(w) \/ MarkHidden(w) \/ MarkProcessed(w)
      PROVE SentIsAccepted'
  BY <1>5, SentUntouched
     DEF PrepareReplies, StatusPrepared, HideFirst, AutoHide, MarkHidden, AfterHide,
         MarkProcessed, Goto, Row
<1>6. ASSUME NEW w \in Workers, ResumeOutbound(w) PROVE SentIsAccepted'
  BY <1>6 DEF ResumeOutbound, Goto, SentIsAccepted, Parts
<1>7. ASSUME NEW w \in Workers, CommitPlan(w) PROVE SentIsAccepted'
  <2>1. \A p \in Parts : outbox'.sent >= p => accepted[p] > 0
    BY <1>7 DEF CommitPlan, NoPlan, Plan, SentIsAccepted, Parts
  <2>2. cursor' = [cursor EXCEPT ![w] = outbox'.sent] /\ pc' = [pc EXCEPT ![w] = "prepare"]
    BY <1>7 DEF CommitPlan, Goto
  <2>3. UNCHANGED <<row, accepted>>
    BY <1>7 DEF CommitPlan
  <2> QED BY <2>1, <2>2, <2>3 DEF SentIsAccepted
<1>8. ASSUME NEW w \in Workers, SendPart(w) PROVE SentIsAccepted'
  <2>1. cursor[w] \in {0, 1}
    BY <1>8 DEF SendPart, ControlOK, Sending
  <2>2. UNCHANGED <<outbox, row, cursor>>
    BY <1>8 DEF SendPart
  <2>3. CASE Accept(w)
    <3>1. \A p \in Parts : accepted[p] > 0 \/ p = cursor[w] + 1 => accepted'[p] > 0
      BY <2>1, <2>3 DEF Accept, Parts
    <3>2. accepted'[2] > 0 => accepted'[1] > 0
      BY <2>1, <2>3 DEF Accept, Parts, SentIsAccepted
    <3> QED BY <1>8, <2>2, <3>1, <3>2 DEF SendPart, Goto, SentIsAccepted
  <2>4. CASE UNCHANGED accepted /\ ~Accept(w)
    BY <1>8, <2>2, <2>4, SentUntouched DEF SendPart, Goto
  <2> QED BY <1>8, <2>3, <2>4 DEF SendPart
<1>9. ASSUME NEW w \in Workers, MarkPartSent(w) PROVE SentIsAccepted'
  <2>1. cursor[w] \in {0, 1} /\ accepted[cursor[w] + 1] > 0
    BY <1>9 DEF MarkPartSent, ControlOK, Sending, SentIsAccepted, Parts
  <2>2. /\ outbox'.sent = cursor[w] + 1 /\ cursor'[w] = cursor[w] + 1
        /\ pc'[w] = "part" /\ UNCHANGED <<row, accepted>>
        /\ \A v \in Workers \ {w} : cursor'[v] = cursor[v] /\ pc'[v] = pc[v]
    BY <1>9 DEF MarkPartSent, Goto, Plan
  <2>3. \A p \in Parts : cursor[w] + 1 >= p => accepted[p] > 0
    BY <2>1 DEF SentIsAccepted, Parts
  <2>4. \A p \in Parts, v \in Workers :
          cursor'[v] >= p \/ (pc'[v] = "record" /\ cursor'[v] + 1 = p) => accepted[p] > 0
    BY <2>2, <2>3 DEF SentIsAccepted
  <2> QED BY <2>2, <2>3, <2>4 DEF SentIsAccepted
<1>10. ASSUME NEW w \in Workers, MarkCommentPartSent(w) PROVE SentIsAccepted'
  <2>1. cursor[w] \in Parts /\ accepted[cursor[w]] > 0
    BY <1>10 DEF MarkCommentPartSent, ControlOK, SentIsAccepted, Parts
  <2>2. /\ row'.told = row.told \cup {cursor[w]}
        /\ row'.status = StatusOf(row.told \cup {cursor[w]})
    BY <1>10 DEF MarkCommentPartSent, Row
  <2>3. \A p \in row.told \cup {cursor[w]} : accepted[p] > 0
    BY <2>1 DEF Row, SentIsAccepted
  <2>4. row'.status = "replied" => \A p \in Parts : accepted[p] > 0
    BY <2>2, <2>3 DEF StatusOf
  <2>5. UNCHANGED <<outbox, accepted, cursor>> /\ pc' = [pc EXCEPT ![w] = "guard"]
    BY <1>10 DEF MarkCommentPartSent, Goto
  <2> QED BY <2>2, <2>3, <2>4, <2>5 DEF SentIsAccepted
<1> QED
  BY <1>1, <1>2, <1>3, <1>4, <1>5, <1>6, <1>7, <1>8, <1>9, <1>10 DEF Next, Turn, Ends
-----------------------------------------------------------------------------
(* Visibility *)

\* A worker other than those that hide the comment touches no visibility.
LEMMA OrderUntouched ==
  ASSUME ChangesInOrder, UNCHANGED <<page, hidden>>, row'.hidden = row.hidden,
         ~refused' => ~refused, ~crossed' => ~crossed, faults' = 0 => faults = 0,
         faults' = 0 => \A w \in Workers : pc'[w] \in Mark <=> pc[w] \in Mark
  PROVE  ChangesInOrder'
<1> SUFFICES ASSUME ~refused', ~crossed', faults' = 0 PROVE ChangesInOrder'
  BY DEF ChangesInOrder
<1>1. \A w \in Workers : pc'[w] \in Mark <=> pc[w] \in Mark
  OBVIOUS
<1>2. Asking' = Asking
  BY DEF Asking
<1> QED BY <1>1, <1>2 DEF ChangesInOrder

LEMMA OrderStep ==
  ASSUME CommentTypeOK, ChangesInOrder, [Next]_vars PROVE ChangesInOrder'
<1> USE DEF CommentTypeOK
<1>1. CASE UNCHANGED vars \/ MessengerMoves
  BY <1>1, OrderUntouched DEF vars, MessengerMoves, storeVars, metaVars, envVars
<1>2. ASSUME NEW w \in Workers, ExpireLease(w) \/ ReadGroup(w) \/ AcquireLease(w)
      PROVE ChangesInOrder'
  BY <1>2, OrderUntouched
     DEF ExpireLease, ReadGroup, AcquireLease, Goto, storeVars, metaVars, envVars, Mark
<1>3. ASSUME NEW w \in Workers, Ends(w) PROVE ChangesInOrder'
  <2>1. faults' = 0 => faults = 0 /\ pc[w] \notin Mark
    <3>1. CASE StopWorker(w) \/ CrashWorker(w) \/ CallFails(w)
      <4>1. faults' = faults + 1
        BY <3>1 DEF StopWorker, CrashWorker, CallFails, Fault
      <4> QED BY <4>1
    <3>2. CASE LeaseBusy(w) \/ Acknowledge(w) \/ LeaseLostAtEnd(w) \/ AbandonTurn(w)
      BY <3>2 DEF LeaseBusy, Acknowledge, LeaseLostAtEnd, AbandonTurn, Asserting, Mark,
                  envVars
    <3>3. CASE SendFailed(w) \/ MarkOutboundUnknown(w) \/ StateConflict(w)
      BY <3>3 DEF SendFailed, MarkOutboundUnknown, StateConflict, Mark, envVars
    <3> QED BY <1>3, <3>1, <3>2, <3>3 DEF Ends
  <2>2. row'.hidden = row.hidden
    BY <1>3, EndsEffect DEF Row
  <2>3. \A v \in Workers \ {w} : pc'[v] = pc[v]
    BY <1>3, EndsEffect, ForgetEffect
  <2>4. pc'[w] \notin Mark
    BY <1>3, EndsEffect, ForgetEffect DEF Mark
  <2>5. UNCHANGED <<page, hidden, refused, crossed>>
    BY <1>3, EndsEffect DEF metaVars
  <2> QED BY <2>1, <2>2, <2>3, <2>4, <2>5, OrderUntouched
<1>4. ASSUME NEW w \in Workers,
             \/ LoadComment(w) \/ PauseForHuman(w) \/ Compose(w) \/ Suppress(w)
             \/ Deny(w) \/ (StateConflict(w) /\ ~retried[w]) \/ GuardPart(w)
             \/ ResumeOutbound(w) \/ PrepareReplies(w)
      PROVE ChangesInOrder'
  BY <1>4, OrderUntouched
     DEF LoadComment, PauseForHuman, Compose, Suppress, Deny, HideFirst, StateConflict,
         GuardPart, AfterDispatch, Issue, Goto, Row, ResumeOutbound, PrepareReplies,
         storeVars, metaVars, envVars, Mark
<1>5. ASSUME NEW w \in Workers,
             \/ CommitPlan(w) \/ SendPart(w) \/ MarkPartSent(w)
             \/ MarkCommentPartSent(w) \/ MarkProcessed(w)
      PROVE ChangesInOrder'
  BY <1>5, OrderUntouched
     DEF CommitPlan, SendPart, MarkPartSent, MarkCommentPartSent, MarkProcessed, Goto,
         Row, storeVars, metaVars, envVars, Mark
<1>6. ASSUME NEW w \in Workers, AutoHide(w) PROVE ChangesInOrder'
  <2> SUFFICES ASSUME ~refused', ~crossed', faults' = 0 PROVE ChangesInOrder'
    BY DEF ChangesInOrder
  <2>1. hidden' /\ Goto(w, IF pc[w] = "hide" THEN "mark" ELSE "mark refused")
    BY <1>6 DEF AutoHide, SetCommentHidden
  <2>2. Asking = {} /\ Changing \subseteq {w}
    BY <1>6 DEF AutoHide, Cross
  <2>3. \A v \in Workers \ {w} : pc'[v] \notin Mark
    BY <2>1, <2>2 DEF Goto, Changing
  <2>4. pc'[w] \in Mark
    BY <2>1 DEF Goto, Mark
  <2>5. page' = page
    BY <1>6 DEF AutoHide
  <2>6. Asking' = {} /\ \A s \in Staff : page'[s] # "store"
    BY <2>2, <2>5 DEF Asking
  <2> QED BY <2>1, <2>3, <2>4, <2>6 DEF ChangesInOrder
<1>7. ASSUME NEW w \in Workers, MarkHidden(w) PROVE ChangesInOrder'
  <2> SUFFICES ASSUME ~refused', ~crossed', faults' = 0 PROVE ChangesInOrder'
    BY DEF ChangesInOrder
  <2>1. /\ pc[w] \in Mark /\ row'.hidden = TRUE
        /\ UNCHANGED <<page, hidden, refused, crossed, faults>>
    BY <1>7 DEF MarkHidden, Row, metaVars, envVars
  <2>2. hidden = TRUE /\ Asking = {} /\ \A v \in Workers \ {w} : pc[v] \notin Mark
    BY <2>1 DEF ChangesInOrder
  <2>3. \A v \in Workers : pc'[v] \notin Mark
    BY <1>7, <2>2 DEF MarkHidden, Goto, AfterHide, Mark
  <2>4. Asking' = {} /\ \A s \in Staff : page'[s] # "store"
    BY <2>1, <2>2 DEF Asking
  <2> QED BY <2>1, <2>2, <2>3, <2>4 DEF ChangesInOrder
<1>8. ASSUME NEW s \in Staff, RequestVisibility(s) PROVE ChangesInOrder'
  <2>1. UNCHANGED <<pc, row, hidden, refused, faults>> /\ page[s] = "idle"
    BY <1>8 DEF RequestVisibility, storeVars, envVars
  <2>2. CASE Unchanged(s)
    <3>1. page' = [page EXCEPT ![s] = "end"] /\ (~crossed' => ~crossed)
      BY <1>8, <2>2 DEF RequestVisibility, Cross
    <3>2. Asking' = Asking /\ \A t \in Staff : page'[t] = "store" <=> page[t] = "store"
      BY <2>1, <3>1 DEF Asking
    <3> QED BY <2>1, <3>1, <3>2 DEF ChangesInOrder
  <2>3. CASE ~Unchanged(s)
    <3> SUFFICES ASSUME ~refused', ~crossed', faults' = 0 PROVE ChangesInOrder'
      BY DEF ChangesInOrder
    <3>1. page' = [page EXCEPT ![s] = "call"] /\ ~crossed /\ Asking \cup Changing = {}
      BY <1>8, <2>3 DEF RequestVisibility, Cross
    <3>2. /\ \A w \in Workers : pc[w] \notin Mark
          /\ \A t \in Staff : page[t] \notin {"call", "store"}
      BY <3>1 DEF Asking, Changing
    <3>3. Asking' \subseteq {s} /\ \A t \in Staff : page'[t] # "store"
      BY <3>1, <3>2 DEF Asking
    <3> QED BY <2>1, <3>1, <3>2, <3>3 DEF ChangesInOrder
  <2> QED BY <2>2, <2>3
<1>9. ASSUME NEW s \in Staff, CallVisibility(s) PROVE ChangesInOrder'
  <2> SUFFICES ASSUME ~refused', ~crossed', faults' = 0 PROVE ChangesInOrder'
    BY DEF ChangesInOrder
  <2>1. /\ UNCHANGED <<pc, crossed, faults>> /\ ~refused
        /\ hidden' = (s \in Hides) /\ page' = [page EXCEPT ![s] = "store"]
    <3>1. PICK known \in BOOLEAN :
            /\ SetCommentHidden(s \in Hides, known)
            /\ page' = [page EXCEPT ![s] = IF known THEN "store" ELSE "end"]
      BY <1>9 DEF CallVisibility
    <3>2. known /\ ~refused /\ hidden' = (s \in Hides)
      BY <3>1 DEF SetCommentHidden
    <3> QED BY <1>9, <3>1, <3>2 DEF CallVisibility, envVars
  <2>2. s \in Asking
    BY <1>9 DEF CallVisibility, Asking
  <2>3. /\ \A t \in Asking : t = s
        /\ \A w \in Workers : pc[w] \notin Mark
    BY <2>1, <2>2 DEF ChangesInOrder
  <2>4. Asking' \subseteq {s} /\ page'[s] = "store"
    BY <2>1, <2>3 DEF Asking
  <2>5. \A t \in Staff : page'[t] = "store" => t = s
    BY <2>4 DEF Asking
  <2> QED BY <2>1, <2>3, <2>4, <2>5 DEF ChangesInOrder
<1>10. ASSUME NEW s \in Staff, StoreVisibility(s) PROVE ChangesInOrder'
  <2> SUFFICES ASSUME ~refused', ~crossed', faults' = 0 PROVE ChangesInOrder'
    BY DEF ChangesInOrder
  <2>1. /\ UNCHANGED <<pc, hidden, refused, crossed, faults>> /\ page[s] = "store"
        /\ page' = [page EXCEPT ![s] = "end"]
        /\ row'.hidden = (s \in Hides)
    BY <1>10 DEF StoreVisibility, VisibilityOf, metaVars, envVars, Row
  <2>2. s \in Asking
    BY <2>1 DEF Asking
  <2>3. /\ \A t \in Asking : t = s
        /\ \A w \in Workers : pc[w] \notin Mark
        /\ hidden = (s \in Hides)
    BY <2>1, <2>2 DEF ChangesInOrder
  <2>4. Asking' = {} /\ \A t \in Staff : page'[t] # "store"
    BY <2>1, <2>3 DEF Asking
  <2> QED BY <2>1, <2>3, <2>4 DEF ChangesInOrder
<1> QED
  BY <1>1, <1>2, <1>3, <1>4, <1>5, <1>6, <1>7, <1>8, <1>9, <1>10
     DEF Next, Turn, Ends, Request
-----------------------------------------------------------------------------
(* One turn at a time *)

\* The steps of a turn between taking the lease and its end.
Works(w) ==
  \/ LoadComment(w) \/ PauseForHuman(w) \/ Compose(w) \/ Suppress(w) \/ Deny(w)
  \/ (StateConflict(w) /\ ~retried[w]) \/ GuardPart(w) \/ ResumeOutbound(w)
  \/ PrepareReplies(w) \/ AutoHide(w) \/ MarkHidden(w) \/ CommitPlan(w)
  \/ SendPart(w) \/ MarkPartSent(w) \/ MarkCommentPartSent(w) \/ MarkProcessed(w)

LEMMA WorksEffect ==
  ASSUME CommentTypeOK, NEW w \in Workers, Works(w)
  PROVE  /\ UNCHANGED <<pii, queueVars, lease, conv, held, page, envVars>>
         /\ pc[w] \notin {"idle", "lease"} /\ pc'[w] \notin {"idle", "lease"}
         /\ \A v \in Workers \ {w} :
              /\ pc'[v] = pc[v] /\ cursor'[v] = cursor[v] /\ seen'[v] = seen[v]
              /\ resumed'[v] = resumed[v]
<1> USE DEF CommentTypeOK, storeVars, localVars, metaVars, Goto
<1>1. CASE LoadComment(w) \/ PauseForHuman(w) \/ Compose(w) \/ ResumeOutbound(w)
  BY <1>1 DEF LoadComment, PauseForHuman, Compose, ResumeOutbound
<1>2. CASE Suppress(w) \/ GuardPart(w) \/ Deny(w) \/ PrepareReplies(w)
  BY <1>2 DEF Suppress, GuardPart, AfterDispatch, Deny, PrepareReplies, HideFirst
<1>3. CASE AutoHide(w) \/ MarkHidden(w)
  BY <1>3 DEF AutoHide, MarkHidden, AfterHide, Hide, Mark
<1>4. CASE StateConflict(w) /\ ~retried[w]
  BY <1>4 DEF StateConflict
<1>5. CASE CommitPlan(w) \/ SendPart(w) \/ MarkProcessed(w)
  BY <1>5 DEF CommitPlan, SendPart, MarkProcessed
<1>6. CASE MarkPartSent(w) \/ MarkCommentPartSent(w)
  BY <1>6 DEF MarkPartSent, MarkCommentPartSent
<1> QED BY <1>1, <1>2, <1>3, <1>4, <1>5, <1>6 DEF Works

\* A step of an interrupted turn is counted, and a turn that ends was under way.
LEMMA EndsCounts ==
  ASSUME CommentTypeOK, NEW w \in Workers, Ends(w)
  PROVE  pc[w] # "idle" /\ (Undisturbed' => Undisturbed)
  BY DEF CommentTypeOK, Ends, LeaseBusy, Acknowledge, LeaseLostAtEnd, AbandonTurn, StopWorker,
         Asserting, CrashWorker, CallFails, SendFailed, MarkOutboundUnknown,
         StateConflict, Fault, Undisturbed, envVars

LEMMA AloneStep ==
  ASSUME CommentAssumption, CommentTypeOK, Alone, [Next]_vars PROVE Alone'
<1> USE DEF CommentTypeOK
<1>1. CASE UNCHANGED <<queueVars, lease, held, pc, faults, stalls>>
  BY <1>1 DEF Alone, Undisturbed, queueVars
<1>2. CASE UNCHANGED vars \/ MessengerMoves \/ \E s \in Staff : Request(s)
  BY <1>1, <1>2 DEF vars, localVars, envVars, MessengerMoves, Request,
                    RequestVisibility, CallVisibility, StoreVisibility
<1>3. ASSUME NEW w \in Workers, Works(w) PROVE Alone'
  BY <1>3, WorksEffect DEF Alone, Undisturbed, queueVars, envVars
<1>4. ASSUME NEW w \in Workers, Ends(w) PROVE Alone'
  <2> SUFFICES ASSUME Undisturbed' PROVE Alone'
    BY DEF Alone
  <2>1. pc[w] # "idle" /\ Undisturbed
    BY <1>4, EndsCounts
  <2>2. \A v \in Workers \ {w} : pc[v] = "idle"
    BY <2>1 DEF Alone
  <2>3. \A v \in Workers : pc'[v] = "idle"
    BY <1>4, <2>2, EndsEffect, ForgetEffect
  <2> QED BY <2>3 DEF Alone
<1>5. ASSUME NEW w \in Workers, ExpireLease(w) PROVE Alone'
  <2> SUFFICES ASSUME Undisturbed' PROVE Alone'
    BY DEF Alone
  <2>1. Undisturbed /\ pc[w] \in {"idle", "lease"} /\ lease = w
    BY <1>5 DEF ExpireLease, Undisturbed
  <2>2. UNCHANGED <<queueVars, held, pc>>
    BY <1>5 DEF ExpireLease, localVars
  <2> QED BY <2>1, <2>2 DEF Alone, queueVars
<1>6. ASSUME NEW w \in Workers, ReadGroup(w) PROVE Alone'
  <2> SUFFICES ASSUME Undisturbed' PROVE Alone'
    BY DEF Alone
  <2>1. Undisturbed /\ ~(owner \in Workers \ {w} /\ pc[owner] # "idle")
    BY <1>6 DEF ReadGroup, Undisturbed
  <2>2. \A v \in Workers : pc[v] = "idle"
    BY <1>6, <2>1 DEF ReadGroup, Alone
  <2>3. /\ pc' = [pc EXCEPT ![w] = "lease"] /\ held' = [held EXCEPT ![w] = attempt]
        /\ owner' = w /\ entry = "live" /\ UNCHANGED <<entry, attempt>>
    BY <1>6 DEF ReadGroup, Goto
  <2> QED BY <2>2, <2>3 DEF Alone
<1>7. ASSUME NEW w \in Workers, AcquireLease(w) PROVE Alone'
  <2> SUFFICES ASSUME Undisturbed' PROVE Alone'
    BY DEF Alone
  <2>1. /\ pc[w] = "lease" /\ lease = NoWorker /\ lease' = w
        /\ pc' = [pc EXCEPT ![w] = "load"] /\ UNCHANGED <<queueVars, held>>
        /\ Undisturbed
    BY <1>7 DEF AcquireLease, Goto, localVars, envVars, Undisturbed
  <2>2. \A v \in Workers \ {w} : pc[v] = "idle"
    BY <2>1 DEF Alone
  <2> QED BY <2>1, <2>2 DEF Alone, queueVars
<1> QED
  BY <1>2, <1>3, <1>4, <1>5, <1>6, <1>7 DEF Next, Turn, Ends, Works
-----------------------------------------------------------------------------
(* Copies at Meta are paid for *)

\* Cardinalities of sets that differ in one element at most.
LEMMA OneApart ==
  ASSUME NEW S, NEW T, IsFiniteSet(T), NEW w
  PROVE  /\ Cardinality(T) \in Nat
         /\ S \subseteq T => IsFiniteSet(S) /\ Cardinality(S) <= Cardinality(T)
         /\ S \subseteq T \cup {w} => IsFiniteSet(S) /\ Cardinality(S) <= Cardinality(T) + 1
         /\ w \in T /\ S \subseteq T \ {w} => Cardinality(S) + 1 <= Cardinality(T)
<1>1. Cardinality(T) \in Nat
  BY FS_CardinalityType
<1>2. ASSUME S \subseteq T PROVE IsFiniteSet(S) /\ Cardinality(S) <= Cardinality(T)
  BY <1>2, FS_Subset
<1>3. ASSUME S \subseteq T \cup {w}
      PROVE  IsFiniteSet(S) /\ Cardinality(S) <= Cardinality(T) + 1
  <2> DEFINE U == T \cup {w}
  <2>0. /\ IsFiniteSet(U)
        /\ Cardinality(U) = IF w \in T THEN Cardinality(T) ELSE Cardinality(T) + 1
    BY FS_AddElement
  <2> HIDE DEF U
  <2>1. /\ IsFiniteSet(U) /\ Cardinality(U) <= Cardinality(T) + 1
        /\ Cardinality(U) \in Nat
    BY <1>1, <2>0
  <2>2. IsFiniteSet(S) /\ Cardinality(S) <= Cardinality(U)
    BY <1>3, <2>1, FS_Subset DEF U
  <2>3. Cardinality(S) \in Nat
    BY <2>2, FS_CardinalityType
  <2> QED BY <1>1, <2>1, <2>2, <2>3
<1>4. ASSUME w \in T, S \subseteq T \ {w} PROVE Cardinality(S) + 1 <= Cardinality(T)
  <2>1. IsFiniteSet(T \ {w}) /\ Cardinality(T \ {w}) = Cardinality(T) - 1
    BY <1>4, FS_RemoveElement
  <2>2. IsFiniteSet(S) /\ Cardinality(S) <= Cardinality(T \ {w})
    BY <1>4, <2>1, FS_Subset
  <2>3. Cardinality(S) \in Nat
    BY <2>2, FS_CardinalityType
  <2> QED BY <1>1, <2>1, <2>2, <2>3
<1> QED BY <1>1, <1>2, <1>3, <1>4

\* The ways in which a step leaves the account of a part in balance.
Kept(p) ==
  /\ Loose(p)' \subseteq Loose(p) /\ (Open(p)' => Open(p)) /\ accepted'[p] = accepted[p]
Paid(p) == Loose(p)' \subseteq Loose(p) /\ accepted'[p] = accepted[p]
PaidLate(p, w) ==
  /\ Loose(p)' \subseteq Loose(p) \cup {w} /\ (Open(p)' => Open(p))
  /\ accepted'[p] = accepted[p]
Admitted(p, w) ==
  /\ Loose(p)' \subseteq Loose(p) \cup {w} /\ Open(p) /\ ~Open(p)'
  /\ accepted'[p] = accepted[p]
Returned(p, w) ==
  w \in Loose(p) /\ Loose(p)' \subseteq Loose(p) \ {w} /\ accepted'[p] = accepted[p]
Delivered(p, w) ==
  /\ w \in Loose(p) /\ Loose(p)' \subseteq Loose(p) \ {w} /\ (Open(p)' => Open(p))
  /\ accepted'[p] = accepted[p] + 1

LEMMA Balance ==
  ASSUME CommentAssumption, CommentTypeOK, CommentTypeOK', Budget, NEW p \in Parts,
         NEW w \in Workers,
         \/ /\ faults' + stalls' >= faults + stalls
            /\ Kept(p) \/ Admitted(p, w) \/ Returned(p, w) \/ Delivered(p, w)
         \/ /\ faults' + stalls' = faults + stalls + 1
            /\ Paid(p) \/ PaidLate(p, w)
  PROVE  (accepted[p] + Debt(p) <= 1 + faults + stalls)'
<1> DEFINE S == Loose(p)'  T == Loose(p)
<1>1. IsFiniteSet(T)
  <2>1. T \subseteq Workers
    BY DEF Loose
  <2> QED BY <2>1, FS_Subset DEF CommentAssumption
<1>2. IsFiniteSet(S)
  <2>1. S \subseteq Workers
    BY DEF Loose
  <2> QED BY <2>1, FS_Subset DEF CommentAssumption
<1>3. /\ Cardinality(S) \in Nat /\ Cardinality(T) \in Nat
      /\ S \subseteq T => Cardinality(S) <= Cardinality(T)
      /\ S \subseteq T \cup {w} => Cardinality(S) <= Cardinality(T) + 1
      /\ w \in T /\ S \subseteq T \ {w} => Cardinality(S) + 1 <= Cardinality(T)
  BY <1>1, <1>2, FS_CardinalityType, OneApart
<1>4. /\ accepted[p] \in Nat /\ accepted'[p] \in Nat
      /\ faults \in Nat /\ stalls \in Nat /\ faults' \in Nat /\ stalls' \in Nat
  BY DEF CommentTypeOK, CommentAssumption
<1>5. accepted[p] + Cardinality(T) + (IF Open(p) THEN 1 ELSE 0) <= 1 + faults + stalls
  BY <1>3, <1>4 DEF Budget, Debt
<1> HIDE DEF S, T
<1>6. accepted'[p] + Cardinality(S) + (IF Open(p)' THEN 1 ELSE 0) <= 1 + faults' + stalls'
  <2> DEFINE a == accepted[p]  b == accepted'[p]  m == faults + stalls
             n == faults' + stalls'  c == Cardinality(T)  d == Cardinality(S)
             x == IF Open(p) THEN 1 ELSE 0  y == IF Open(p)' THEN 1 ELSE 0
  <2>1. /\ a \in Nat /\ b \in Nat /\ m \in Nat /\ n \in Nat /\ c \in Nat /\ d \in Nat
        /\ x \in {0, 1} /\ y \in {0, 1} /\ a + c + x <= 1 + m
    <3>1. a \in Nat /\ b \in Nat /\ m \in Nat /\ n \in Nat
      BY <1>4
    <3>2. c \in Nat /\ d \in Nat /\ x \in {0, 1} /\ y \in {0, 1}
      BY <1>3
    <3>3. a + c + x <= 1 + faults + stalls
      BY <1>5
    <3> HIDE DEF a, b, c, d, x, y, n
    <3>4. a + c + x <= 1 + m
      BY <1>4, <3>1, <3>2, <3>3
    <3> QED BY <3>1, <3>2, <3>4
  <2>2. (Open(p)' => Open(p)) => y <= x
    OBVIOUS
  <2>3. \/ n >= m /\ d <= c /\ y <= x /\ b = a
        \/ n >= m /\ d <= c + 1 /\ x = 1 /\ y = 0 /\ b = a
        \/ n >= m /\ d + 1 <= c /\ b = a
        \/ n >= m /\ d + 1 <= c /\ y <= x /\ b = a + 1
        \/ n = m + 1 /\ d <= c /\ b = a
        \/ n = m + 1 /\ d <= c + 1 /\ y <= x /\ b = a
    BY <1>3, <1>4, <2>2 DEF Kept, Paid, PaidLate, Admitted, Returned, Delivered, S, T
  <2> HIDE DEF a, b, m, n, c, d, x, y
  <2>4. b + d + y <= 1 + n
    BY <2>1, <2>3
  <2> QED BY <1>3, <1>4, <2>4 DEF b, d, y, n
<1> QED BY <1>3, <1>4, <1>6 DEF Debt, S

\* A worker that is neither sending nor about to leaves the account as it was.
LEMMA QuietMove ==
  ASSUME CommentTypeOK, NEW w \in Workers, NEW p \in Parts,
         UNCHANGED <<outbox, cursor, lease, accepted>>,
         pc[w] \notin {"send", "record", "unknown"},
         pc'[w] \notin {"send", "record", "unknown"},
         pc'[w] \in MaySend => pc[w] \in MaySend,
         \A v \in Workers \ {w} : pc'[v] = pc[v]
  PROVE  Kept(p)
<1>1. Loose(p)' \subseteq Loose(p)
  BY DEF Loose
<1>2. \A v \in Workers : UnderWay(v, p)' <=> UnderWay(v, p)
  BY DEF UnderWay
<1>3. Open(p)' => Open(p)
  BY <1>2 DEF Open
<1> QED BY <1>1, <1>3 DEF Kept

\* So does one whose turn ends, unless a fault ends it.
LEMMA EndsKept ==
  ASSUME CommentAssumption, CommentTypeOK, NEW w \in Workers, Ends(w), NEW p \in Parts
  PROVE  Paid(p) /\ (faults' = faults => Kept(p))
<1>1. /\ pc'[w] = "idle" /\ \A v \in Workers \ {w} : pc'[v] = pc[v] /\ cursor'[v] = cursor[v]
      /\ accepted' = accepted
  BY EndsEffect, ForgetEffect DEF metaVars
<1>2. lease' = lease \/ (lease = w /\ lease' = NoWorker)
  BY EndsEffect DEF Release
<1>3. Loose(p)' \subseteq Loose(p)
  BY <1>1, <1>2 DEF Loose, CommentAssumption
<1>4. ASSUME faults' = faults, Open(p)' PROVE Open(p)
  <2>1. pc[w] \notin {"send", "record"} /\ (pc[w] = "unknown" => MarkOutboundUnknown(w))
    BY <1>4 DEF Ends, LeaseBusy, Acknowledge, LeaseLostAtEnd, AbandonTurn, Asserting,
                StopWorker, CrashWorker, CallFails, SendFailed, StateConflict, Fault,
                MarkOutboundUnknown, CommentTypeOK
  <2>2. \A v \in Workers \ {w} : UnderWay(v, p)' <=> UnderWay(v, p)
    BY <1>1 DEF UnderWay
  <2>3. CASE \E v \in Workers : /\ lease' = v /\ pc'[v] \in MaySend /\ cursor'[v] < p
                                /\ ~UnderWay(v, p)'
    <3>1. PICK v \in Workers : /\ lease' = v /\ pc'[v] \in MaySend /\ cursor'[v] < p
                               /\ ~UnderWay(v, p)'
      BY <2>3
    <3>2. v # w /\ lease = v
      BY <1>1, <1>2, <3>1 DEF MaySend, CommentAssumption
    <3> QED BY <1>1, <2>2, <3>1, <3>2 DEF Open
  <2>4. CASE /\ outbox'.sent < p /\ ~outbox'.unknown
             /\ \A v \in Workers : lease' = v => ~UnderWay(v, p)'
    <3>1. outbox' = outbox
      BY <2>4, EndsEffect DEF CommentTypeOK, Plan
    <3>2. pc[w] # "unknown"
      BY <2>1, <2>4 DEF MarkOutboundUnknown, CommentTypeOK, Plan
    <3>3. ~UnderWay(w, p)
      BY <2>1, <3>2 DEF UnderWay
    <3>4. \A v \in Workers : lease = v => ~UnderWay(v, p)
      BY <1>2, <2>2, <2>4, <3>3
    <3> QED BY <2>4, <3>1, <3>4 DEF Open
  <2> QED BY <1>4, <2>3, <2>4 DEF Open
<1> QED BY <1>1, <1>3, <1>4 DEF Paid, Kept

LEMMA ExpiryPaid ==
  ASSUME CommentAssumption, CommentTypeOK, NEW w \in Workers, ExpireLease(w), NEW p \in Parts
  PROVE  /\ Paid(p) \/ PaidLate(p, w)
         /\ faults' + stalls' = faults + stalls => Kept(p)
<1> USE DEF CommentTypeOK
<1>1. /\ lease = w /\ lease' = NoWorker /\ NoWorker \notin Workers
      /\ UNCHANGED <<pc, cursor, outbox, accepted, faults>>
  BY DEF ExpireLease, CommentAssumption, localVars, storeVars, metaVars
<1>2. \A v \in Workers : UnderWay(v, p)' <=> UnderWay(v, p)
  BY <1>1 DEF UnderWay
<1>3. CASE pc[w] \in {"send", "record"} /\ cursor[w] < p - 1
  <2>1. Loose(p)' \subseteq Loose(p) \cup {w}
    BY <1>1 DEF Loose
  <2>2. Open(p)
    BY <1>1, <1>3 DEF Open, MaySend, UnderWay, Parts
  <2>3. faults' + stalls' # faults + stalls
    BY <1>1, <1>3 DEF ExpireLease
  <2> QED BY <1>1, <2>1, <2>2, <2>3 DEF PaidLate
<1>4. CASE ~(pc[w] \in {"send", "record"} /\ cursor[w] < p - 1)
  <2>1. Loose(p)' \subseteq Loose(p)
    BY <1>1, <1>4 DEF Loose
  <2>2. ASSUME faults' + stalls' = faults + stalls, Open(p)' PROVE Open(p)
    <3>1. pc[w] \in {"idle", "lease"}
      BY <1>1, <2>2 DEF ExpireLease
    <3>2. outbox.sent < p /\ ~outbox.unknown
      BY <1>1, <2>2 DEF Open
    <3>3. \A v \in Workers : lease = v => ~UnderWay(v, p)
      BY <1>1, <3>1 DEF UnderWay
    <3> QED BY <3>2, <3>3 DEF Open
  <2> QED BY <1>1, <2>1, <2>2 DEF Paid, Kept
<1> QED BY <1>3, <1>4

\* A call to Meta uses the place that was kept for it.
LEMMA SendBalanced ==
  ASSUME CommentTypeOK, ControlOK, NEW w \in Workers, SendPart(w), NEW p \in Parts
  PROVE  Kept(p) \/ Returned(p, w) \/ Delivered(p, w)
<1> USE DEF CommentTypeOK
<1>1. /\ pc[w] = "send" /\ cursor[w] \in {0, 1} /\ UNCHANGED <<outbox, cursor, lease>>
      /\ pc'[w] \in {"record", "unknown", "issue"}
      /\ \A v \in Workers \ {w} : pc'[v] = pc[v]
  BY DEF SendPart, ControlOK, Sending, Goto, storeVars, localVars
<1>2. \/ Accept(w) /\ pc'[w] \in {"record", "unknown"}
      \/ UNCHANGED accepted
  BY DEF SendPart, Goto
<1>3. \A v \in Workers \ {w} : UnderWay(v, p)' <=> UnderWay(v, p)
  BY <1>1 DEF UnderWay
<1>4. CASE p = cursor[w] + 1
  <2>1. w \in Loose(p) /\ Loose(p)' \subseteq Loose(p) \ {w}
    BY <1>1, <1>4 DEF Loose
  <2>2. CASE Accept(w) /\ pc'[w] \in {"record", "unknown"}
    <3>1. UnderWay(w, p)' /\ UnderWay(w, p)
      BY <1>1, <1>4, <2>2 DEF UnderWay
    <3>2. Open(p)' => Open(p)
      BY <1>1, <1>3, <3>1 DEF Open
    <3>3. accepted'[p] = accepted[p] + 1
      BY <1>4, <2>2 DEF Accept
    <3> QED BY <2>1, <3>2, <3>3 DEF Delivered
  <2>3. CASE UNCHANGED accepted
    BY <2>1, <2>3 DEF Returned
  <2> QED BY <1>2, <2>2, <2>3
<1>5. CASE p # cursor[w] + 1
  <2>1. Loose(p)' \subseteq Loose(p)
    BY <1>1, <1>5 DEF Loose, Parts
  <2>2. ~UnderWay(w, p)' /\ ~UnderWay(w, p)
    BY <1>1, <1>5 DEF UnderWay, Parts
  <2>3. Open(p)' => Open(p)
    BY <1>1, <1>3, <2>2 DEF Open, MaySend
  <2>4. accepted'[p] = accepted[p]
    BY <1>2, <1>5 DEF Accept
  <2> QED BY <2>1, <2>3, <2>4 DEF Kept
<1> QED BY <1>4, <1>5

\* The guard lets one send in, and nobody else while it is under way.
LEMMA GuardBalanced ==
  ASSUME CommentTypeOK, NEW w \in Workers, GuardPart(w), NEW p \in Parts
  PROVE  Kept(p) \/ Admitted(p, w)
<1> USE DEF CommentTypeOK
<1>1. /\ pc[w] = "guard" /\ UNCHANGED <<outbox, cursor, lease, accepted>>
      /\ \A v \in Workers \ {w} : pc'[v] = pc[v]
  BY DEF GuardPart, Goto, storeVars, localVars, metaVars
<1>2. CASE pc'[w] # "send"
  <2>1. pc'[w] \in {"settle", "done", "suppress"}
    BY <1>2 DEF GuardPart, Goto, AfterDispatch
  <2> QED BY <1>1, <2>1, QuietMove DEF MaySend
<1>3. CASE pc'[w] = "send"
  <2>1. lease = w /\ cursor[w] \in {0, 1}
    BY <1>3 DEF GuardPart, Goto, AfterDispatch, PlanOver
  <2>2. \A v \in Workers \ {w} : UnderWay(v, p)' <=> UnderWay(v, p)
    BY <1>1 DEF UnderWay
  <2>3. ~UnderWay(w, p)
    BY <1>1 DEF UnderWay
  <2>4. CASE p = cursor[w] + 1
    <3>1. Loose(p)' \subseteq Loose(p) \cup {w}
      BY <1>1 DEF Loose
    <3>2. Open(p)
      BY <1>1, <2>1, <2>3, <2>4 DEF Open, MaySend
    <3>3. UnderWay(w, p)'
      BY <1>1, <1>3, <2>4 DEF UnderWay
    <3>4. ~Open(p)'
      BY <1>1, <2>1, <3>3 DEF Open
    <3> QED BY <1>1, <3>1, <3>2, <3>4 DEF Admitted
  <2>5. CASE p # cursor[w] + 1
    <3>1. Loose(p)' \subseteq Loose(p)
      BY <1>1, <1>3, <2>1, <2>5 DEF Loose, Parts
    <3>2. Open(p)' => Open(p)
      BY <1>1, <2>2, <2>3 DEF Open, MaySend
    <3> QED BY <1>1, <3>1, <3>2 DEF Kept
  <2> QED BY <2>4, <2>5
<1> QED BY <1>2, <1>3

\* What is recorded as sent is closed; a late record may open the next part, and
\* the worker that was late had a place of its own.
LEMMA RecordBalanced ==
  ASSUME CommentTypeOK, ControlOK, NEW w \in Workers, MarkPartSent(w), NEW p \in Parts
  PROVE  Kept(p) \/ Returned(p, w)
<1> USE DEF CommentTypeOK
<1>1. /\ pc[w] = "record" /\ cursor[w] \in {0, 1} /\ UNCHANGED <<lease, accepted>>
      /\ cursor'[w] = cursor[w] + 1 /\ pc'[w] = "part"
      /\ outbox'.sent = cursor[w] + 1 /\ outbox'.unknown = outbox.unknown
      /\ \A v \in Workers \ {w} : pc'[v] = pc[v] /\ cursor'[v] = cursor[v]
  BY DEF MarkPartSent, ControlOK, Sending, Goto, Plan, metaVars
<1>2. \A v \in Workers \ {w} : UnderWay(v, p)' <=> UnderWay(v, p)
  BY <1>1 DEF UnderWay
<1>3. CASE lease # w /\ cursor[w] < p - 1
  <2>1. w \in Loose(p) /\ Loose(p)' \subseteq Loose(p) \ {w}
    BY <1>1, <1>3 DEF Loose
  <2> QED BY <1>1, <2>1 DEF Returned
<1>4. CASE ~(lease # w /\ cursor[w] < p - 1)
  <2>1. Loose(p)' \subseteq Loose(p)
    BY <1>1 DEF Loose
  <2>2. CASE cursor[w] < p - 1
    <3>1. lease = w /\ ~UnderWay(w, p) /\ cursor[w] < p
      BY <1>1, <1>4, <2>2 DEF UnderWay, Parts
    <3>2. Open(p)
      BY <1>1, <3>1 DEF Open, MaySend
    <3> QED BY <1>1, <2>1, <3>2 DEF Kept
  <2>3. CASE ~(cursor[w] < p - 1)
    <3>1. ~(outbox'.sent < p) /\ ~(cursor'[w] < p)
      BY <1>1, <2>3 DEF Parts
    <3>2. Open(p)' => Open(p)
      BY <1>1, <1>2, <3>1 DEF Open
    <3> QED BY <1>1, <2>1, <3>2 DEF Kept
  <2> QED BY <2>2, <2>3
<1> QED BY <1>3, <1>4

\* A plan is entered where the store says it stands.
LEMMA EntryBalanced ==
  ASSUME CommentTypeOK, ControlOK, NEW w \in Workers, ResumeOutbound(w) \/ CommitPlan(w),
         NEW p \in Parts
  PROVE  Kept(p)
<1> USE DEF CommentTypeOK
<1>1. /\ pc[w] \in {"find", "commit"} /\ lease = w /\ UNCHANGED <<lease, accepted>>
      /\ pc'[w] \in {"guard", "settle", "prepare"}
      /\ \A v \in Workers \ {w} : pc'[v] = pc[v] /\ cursor'[v] = cursor[v]
  BY DEF ResumeOutbound, CommitPlan, Goto, metaVars
<1>2. Loose(p)' \subseteq Loose(p)
  BY <1>1 DEF Loose
<1>3. \A v \in Workers : UnderWay(v, p)' <=> UnderWay(v, p)
  BY <1>1 DEF UnderWay
<1>4. \A v \in Workers : lease = v => ~UnderWay(v, p)
  BY <1>1 DEF UnderWay
<1>5. CASE ResumeOutbound(w)
  <2>1. /\ outbox' = outbox /\ cursor'[w] = outbox.sent
        /\ pc'[w] = "guard" => ~outbox.unknown
        /\ pc'[w] \in {"guard", "settle"}
    BY <1>5 DEF ResumeOutbound, Resumable, Goto, storeVars
  <2>2. Open(p)' => outbox.sent < p /\ ~outbox.unknown
    BY <1>1, <2>1 DEF Open, MaySend
  <2> QED BY <1>1, <1>2, <1>4, <2>2 DEF Kept, Open
<1>6. CASE CommitPlan(w)
  <2>1. outbox = NoPlan
    BY <1>6 DEF CommitPlan, ControlOK
  <2>2. Open(p)
    BY <1>4, <2>1 DEF Open, NoPlan, Parts
  <2> QED BY <1>1, <1>2, <2>2 DEF Kept
<1> QED BY <1>5, <1>6

LEMMA BudgetStep ==
  ASSUME CommentAssumption, CommentTypeOK, CommentTypeOK', ControlOK, Budget, [Next]_vars
  PROVE  Budget'
<1> SUFFICES ASSUME NEW p \in Parts
             PROVE  (accepted[p] + Debt(p) <= 1 + faults + stalls)'
  BY DEF Budget
<1>0. faults \in Nat /\ stalls \in Nat
  BY DEF CommentTypeOK, CommentAssumption
<1>1. CASE UNCHANGED <<pc, cursor, outbox, lease, accepted, faults, stalls>>
  <2>1. Loose(p)' = Loose(p) /\ Open(p)' = Open(p)
    BY <1>1 DEF Loose, Open, UnderWay
  <2> QED BY <1>1, <2>1 DEF Budget, Debt
<1>2. CASE UNCHANGED vars \/ MessengerMoves \/ \E s \in Staff : Request(s)
  BY <1>1, <1>2 DEF vars, localVars, storeVars, metaVars, envVars, MessengerMoves,
                    Request, RequestVisibility, CallVisibility, StoreVisibility
<1>3. ASSUME NEW w \in Workers, ReadGroup(w) \/ AcquireLease(w)
      PROVE (accepted[p] + Debt(p) <= 1 + faults + stalls)'
  <2>1. CASE ReadGroup(w)
    <3>1. /\ UNCHANGED <<outbox, cursor, lease, accepted, faults>>
          /\ pc[w] = "idle" /\ pc'[w] = "lease"
          /\ \A v \in Workers \ {w} : pc'[v] = pc[v]
          /\ stalls' \in {stalls, stalls + 1}
      BY <1>0, <2>1 DEF ReadGroup, Goto, storeVars, metaVars, CommentTypeOK
    <3>2. Kept(p)
      BY <3>1, QuietMove DEF MaySend
    <3>3. faults' + stalls' >= faults + stalls
      <4>1. faults' = faults /\ (stalls' = stalls \/ stalls' = stalls + 1)
        BY <3>1
      <4> QED BY <1>0, <4>1
    <3> QED BY <3>2, <3>3, Balance
  <2>2. CASE AcquireLease(w)
    <3>1. /\ UNCHANGED <<outbox, cursor, accepted, faults, stalls>>
          /\ pc[w] = "lease" /\ pc'[w] = "load" /\ lease = NoWorker /\ lease' = w
          /\ \A v \in Workers \ {w} : pc'[v] = pc[v]
          /\ NoWorker \notin Workers
      BY <2>2 DEF AcquireLease, Goto, storeVars, localVars, metaVars, envVars,
                  CommentTypeOK, CommentAssumption
    <3>2. Loose(p)' \subseteq Loose(p)
      BY <3>1 DEF Loose
    <3>3. Open(p)' => Open(p)
      BY <3>1 DEF Open, MaySend
    <3> QED BY <1>0, <3>1, <3>2, <3>3, Balance DEF Kept
  <2> QED BY <1>3, <2>1, <2>2
<1>4. ASSUME NEW w \in Workers, ExpireLease(w)
      PROVE (accepted[p] + Debt(p) <= 1 + faults + stalls)'
  <2>1. faults' + stalls' \in {faults + stalls, faults + stalls + 1}
    BY <1>0, <1>4 DEF ExpireLease
  <2> QED BY <1>0, <1>4, <2>1, ExpiryPaid, Balance
<1>5. ASSUME NEW w \in Workers, Ends(w)
      PROVE (accepted[p] + Debt(p) <= 1 + faults + stalls)'
  <2>1. stalls' = stalls /\ (faults' = faults \/ faults' = faults + 1)
    BY <1>5, EndsEffect
  <2> QED BY <1>0, <1>5, <2>1, EndsKept, Balance
<1>6. ASSUME NEW w \in Workers, Works(w)
      PROVE (accepted[p] + Debt(p) <= 1 + faults + stalls)'
  <2>1. UNCHANGED <<faults, stalls, lease>> /\ \A v \in Workers \ {w} : pc'[v] = pc[v]
    BY <1>6, WorksEffect DEF envVars
  <2>2. CASE SendPart(w) \/ GuardPart(w) \/ MarkPartSent(w) \/ ResumeOutbound(w)
             \/ CommitPlan(w)
    <3>1. Kept(p) \/ Admitted(p, w) \/ Returned(p, w) \/ Delivered(p, w)
      BY <2>2, SendBalanced, GuardBalanced, RecordBalanced, EntryBalanced
    <3> QED BY <1>0, <2>1, <3>1, Balance
  <2>3. CASE ~(\/ SendPart(w) \/ GuardPart(w) \/ MarkPartSent(w) \/ ResumeOutbound(w)
               \/ CommitPlan(w))
    <3>1. UNCHANGED <<outbox, cursor, accepted>>
      BY <1>6, <2>3
         DEF Works, LoadComment, PauseForHuman, Compose, Suppress, Deny, StateConflict,
             PrepareReplies, AutoHide, MarkHidden, MarkCommentPartSent, MarkProcessed,
             storeVars, localVars, metaVars
    <3>2. /\ pc[w] \notin {"send", "record", "unknown"}
          /\ pc'[w] \notin {"send", "record", "unknown"}
          /\ pc'[w] \in MaySend => pc[w] \in MaySend
      <4> USE DEF MaySend, Goto, CommentTypeOK
      <4>1. CASE LoadComment(w) \/ PauseForHuman(w) \/ Compose(w) \/ MarkProcessed(w)
        BY <4>1 DEF LoadComment, PauseForHuman, Compose, MarkProcessed
      <4>2. CASE Suppress(w) \/ Deny(w) \/ PrepareReplies(w)
        BY <4>2 DEF Suppress, AfterDispatch, Deny, PrepareReplies, HideFirst
      <4>3. CASE (StateConflict(w) /\ ~retried[w]) \/ MarkCommentPartSent(w)
        BY <4>3 DEF StateConflict, MarkCommentPartSent
      <4>4. CASE AutoHide(w) \/ MarkHidden(w)
        BY <4>4 DEF AutoHide, MarkHidden, AfterHide, Hide, Mark
      <4> QED BY <1>6, <2>3, <4>1, <4>2, <4>3, <4>4 DEF Works
    <3>3. Kept(p)
      BY <2>1, <3>1, <3>2, QuietMove
    <3> QED BY <1>0, <2>1, <3>3, Balance
  <2> QED BY <2>2, <2>3
<1> QED
  BY <1>2, <1>3, <1>4, <1>5, <1>6 DEF Next, Turn, Ends, Works
-----------------------------------------------------------------------------
(* The first turn *)

\* Nothing takes back that the comment is hidden or was asked to be shown.
LEMMA HiddenStays ==
  ASSUME CommentTypeOK, pii' = pii, refused => refused',
         \/ hidden => hidden'
         \/ \E s \in Staff \ Hides : page'[s] # "idle",
         \A s \in Staff : page[s] # "idle" => page'[s] # "idle"
  PROVE  Hidden => Hidden'
  BY DEF Hidden, HiddenOrAsked

\* What leaves the worker and all it speaks of alone leaves its progress alone.
LEMMA ProgressStays ==
  ASSUME NEW w \in Workers, Progress(w), Untold => Untold', Hidden => Hidden',
         Answered => Answered', Declined => Declined',
         conv.human # "bot" => conv'.human # "bot",
         pc'[w] = pc[w] \/ (pc'[w] = "load" /\ pc[w] = "lease"),
         cursor'[w] = cursor[w], resumed'[w] = resumed[w],
         seen'[w].version = seen[w].version, outbox'.version = outbox.version,
         row'.told = row.told, row'.status = row.status
  PROVE  Progress(w)'
<1> USE DEF Dispatching, Sending
<1>1. /\ ~resumed'[w]
      /\ pc'[w] \in {"lease", "load", "paused", "find", "denied", "commit"} => Untold'
      /\ pc'[w] = "paused" => conv'.human # "bot"
      /\ pc'[w] \in {"prepare", "hide", "mark"} => cursor'[w] = 0
  BY Zenon DEF Progress
<1>2. /\ pc'[w] \in Dispatching => outbox'.version = seen'[w].version
      /\ pc'[w] \in Dispatching \ {"part"} => row'.told = UpTo(cursor'[w])
      /\ pc'[w] = "part" => row'.told = UpTo(cursor'[w] - 1)
      /\ pc'[w] = "guard" /\ cursor'[w] = 2 => row'.status = "replied"
  BY DEF Progress
<1>3. /\ pc'[w] \in Dispatching \ {"prepare", "hide"} => Hidden'
      /\ pc'[w] \in {"hide refused", "mark refused"} => row'.status = "paused"
      /\ pc'[w] = "mark refused" => Hidden'
  BY Zenon DEF Progress
<1>4. /\ pc'[w] = "settle" => Declined'
      /\ pc'[w] = "done" => Answered' \/ Declined'
  BY Zenon DEF Progress
<1> HIDE DEF Dispatching, Sending
<1> QED BY <1>1, <1>2, <1>3, <1>4, Zenon DEF Progress

\* Up to the plan.
LEMMA ProgressToPlan ==
  ASSUME CommentTypeOK, ControlOK, LiveSend, NEW w \in Workers, Progress(w),
         \/ LoadComment(w) \/ PauseForHuman(w) \/ ResumeOutbound(w) \/ Compose(w)
         \/ CommitPlan(w) \/ (StateConflict(w) /\ ~retried[w])
  PROVE  Progress(w)'
<1> USE DEF CommentTypeOK, Goto, Dispatching, Sending, storeVars, localVars
<1>1. CASE LoadComment(w)
  BY <1>1 DEF LoadComment, Progress, Untold, Row
<1>2. CASE PauseForHuman(w)
  BY <1>2 DEF PauseForHuman, Issue, Progress, Declined, Row
<1>3. CASE ResumeOutbound(w)
  BY <1>3 DEF ResumeOutbound, Progress, Untold
<1>4. CASE Compose(w)
  BY <1>4 DEF Compose, Progress, Untold
<1>5. CASE CommitPlan(w)
  <2>1. row' = row /\ row.told = {} /\ ~resumed'[w] /\ pc'[w] = "prepare"
    BY <1>5 DEF CommitPlan, Progress, Untold
  <2>2. outbox' = [NoPlan EXCEPT !.committed = TRUE, !.version = conv.version]
    BY <1>5 DEF CommitPlan, Progress, Untold
  <2>3. outbox'.version = seen'[w].version /\ cursor'[w] = 0
    BY <1>5, <2>2 DEF CommitPlan, NoPlan
  <2>4. UpTo(0) = {}
    BY DEF UpTo, Parts
  <2> QED BY <2>1, <2>3, <2>4 DEF Progress
<1>6. CASE StateConflict(w) /\ ~retried[w]
  BY <1>6 DEF StateConflict, Progress, Untold
<1> QED BY <1>1, <1>2, <1>3, <1>4, <1>5, <1>6

\* Hiding the comment.
LEMMA ProgressHiding ==
  ASSUME CommentTypeOK, ControlOK, NEW w \in Workers, Progress(w),
         Deny(w) \/ PrepareReplies(w) \/ AutoHide(w) \/ MarkHidden(w)
  PROVE  Progress(w)'
<1> USE DEF CommentTypeOK, Goto, Dispatching, Sending, storeVars, localVars, metaVars
<1>1. CASE Deny(w)
  <2>1. row'.status = "paused" /\ row'.told = row.told
    BY <1>1 DEF Deny, Issue, Row
  <2>2. CASE pii
    BY <1>1, <2>1, <2>2 DEF Deny, HideFirst, Progress
  <2>3. CASE ~pii
    <3>1. pc'[w] = "settle" /\ Hidden' /\ ~resumed'[w]
      BY <1>1, <2>3 DEF Deny, HideFirst, Hidden, Progress
    <3> QED BY <2>1, <3>1 DEF Progress, Declined
  <2> QED BY <2>2, <2>3
<1>2. CASE PrepareReplies(w)
  <2>1. /\ row'.told = row.told /\ cursor'[w] = 0 /\ cursor[w] = 0
        /\ row.told = UpTo(cursor[w])
        /\ outbox' = outbox /\ seen' = seen /\ outbox.version = seen[w].version
        /\ ~resumed'[w]
    BY <1>2 DEF PrepareReplies, Progress, Row
  <2>2. pc'[w] = "hide" \/ (pc'[w] = "guard" /\ Hidden')
    BY <1>2 DEF PrepareReplies, HideFirst, Hidden
  <2>3. cursor'[w] # 2
    BY <2>1
  <2> QED BY <2>1, <2>2, <2>3, Zenon DEF Progress
<1>3. CASE AutoHide(w)
  <2>1. UNCHANGED <<pii, row, outbox, cursor, seen, resumed, page>>
    BY <1>3 DEF AutoHide
  <2>2. Hidden'
    BY <1>3 DEF AutoHide, SetCommentHidden, Hidden, HiddenOrAsked
  <2>3. \/ pc[w] = "hide" /\ pc'[w] \in {"mark", "guard"}
        \/ pc[w] = "hide refused" /\ pc'[w] \in {"mark refused", "settle"}
    BY <1>3 DEF AutoHide, AfterHide, Hide
  <2>4. pc'[w] \in {"mark", "guard"} => cursor[w] = 0 /\ cursor[w] # 2
    <3>1. pc'[w] \in {"mark", "guard"} => cursor[w] = 0
      BY <2>3, Zenon DEF Progress
    <3> QED BY <3>1
  <2> QED BY <2>1, <2>2, <2>3, <2>4, Zenon DEF Progress, Declined
<1>4. CASE MarkHidden(w)
  <2>1. /\ UNCHANGED <<pii, outbox, cursor, seen, resumed, page, hidden, refused, conv>>
        /\ row'.told = row.told /\ row'.status = row.status
    BY <1>4 DEF MarkHidden, Row
  <2>2. Hidden /\ Hidden'
    <3>1. Hidden
      BY <1>4 DEF MarkHidden, Mark, Progress
    <3> QED BY <2>1, <3>1 DEF Hidden, HiddenOrAsked
  <2>3. \/ pc[w] = "mark" /\ pc'[w] = "guard"
        \/ pc[w] = "mark refused" /\ pc'[w] = "settle"
    BY <1>4 DEF MarkHidden, AfterHide, Mark
  <2>4. pc'[w] \in {"mark", "guard"} => cursor[w] = 0 /\ cursor[w] # 2
    <3>1. pc'[w] \in {"mark", "guard"} => cursor[w] = 0
      BY <2>3, Zenon DEF Progress
    <3> QED BY <3>1
  <2> QED BY <2>1, <2>2, <2>3, <2>4, Zenon DEF Progress, Declined
<1> QED BY <1>1, <1>2, <1>3, <1>4

\* Sending the parts, to the end of the turn.
LEMMA ProgressSending ==
  ASSUME CommentTypeOK, ControlOK, NEW w \in Workers, Progress(w),
         \/ GuardPart(w) \/ Suppress(w) \/ SendPart(w) \/ MarkPartSent(w)
         \/ MarkCommentPartSent(w) \/ MarkProcessed(w)
  PROVE  Progress(w)'
<1> USE DEF CommentTypeOK, Goto, Dispatching, Sending, storeVars, localVars, metaVars
<1>0. UNCHANGED <<pii, hidden, refused, page, conv, seen, resumed>>
  BY DEF GuardPart, Suppress, SendPart, MarkPartSent, MarkCommentPartSent, MarkProcessed
<1>1. Hidden' <=> Hidden
  BY <1>0 DEF Hidden, HiddenOrAsked
<1>2. CASE GuardPart(w)
  <2>1. UNCHANGED <<row, outbox, cursor>> /\ pc[w] = "guard" /\ Hidden
    BY <1>2 DEF GuardPart, Progress
  <2>2. \/ pc'[w] = "done" /\ row.status = "replied"
        \/ pc'[w] \in {"send", "suppress"}
    BY <1>2 DEF GuardPart, PlanOver, AfterDispatch, Progress
  <2> QED BY <1>0, <1>1, <2>1, <2>2 DEF Progress, Answered
<1>3. CASE Suppress(w)
  <2>1. pc'[w] = "done" /\ row'.status = "paused" /\ Hidden
    BY <1>3 DEF Suppress, AfterDispatch, Issue, Progress, Row
  <2> QED BY <1>0, <1>1, <2>1 DEF Progress, Declined
<1>4. CASE SendPart(w)
  <2>1. UNCHANGED <<row, outbox, cursor>> /\ pc[w] = "send"
        /\ pc'[w] \in {"record", "unknown", "issue"}
    BY <1>4 DEF SendPart
  <2> QED BY <1>0, <1>1, <2>1 DEF Progress
<1>5. CASE MarkPartSent(w)
  <2>1. /\ pc[w] = "record" /\ pc'[w] = "part" /\ row' = row
        /\ cursor'[w] = cursor[w] + 1 /\ outbox'.version = outbox.version
    BY <1>5 DEF MarkPartSent, Plan
  <2>2. row.told = UpTo(cursor'[w] - 1)
    BY <2>1 DEF Progress
  <2> QED BY <1>0, <1>1, <2>1, <2>2 DEF Progress
<1>6. CASE MarkCommentPartSent(w)
  <2>1. /\ pc[w] = "part" /\ pc'[w] = "guard" /\ UNCHANGED <<outbox, cursor>>
        /\ cursor[w] \in Parts
        /\ row'.told = row.told \cup {cursor[w]}
        /\ row'.status = StatusOf(row.told \cup {cursor[w]})
    BY <1>6 DEF MarkCommentPartSent, ControlOK, Row
  <2>2. row.told = UpTo(cursor[w] - 1)
    BY <2>1 DEF Progress
  <2>3. row'.told = UpTo(cursor[w])
    BY <2>1, <2>2 DEF UpTo, Parts
  <2>4. cursor[w] = 2 => row'.status = "replied"
    <3>1. UpTo(2) = Parts
      BY DEF UpTo, Parts
    <3> QED BY <2>1, <2>3, <3>1 DEF StatusOf
  <2> QED BY <1>0, <1>1, <2>1, <2>3, <2>4 DEF Progress
<1>7. CASE MarkProcessed(w)
  BY <1>0, <1>1, <1>7 DEF MarkProcessed, Progress, Declined
<1> QED BY <1>2, <1>3, <1>4, <1>5, <1>6, <1>7

LEMMA FirstTryStep ==
  ASSUME CommentAssumption, CommentTypeOK, ControlOK, Alone, FirstTry, [Next]_vars
  PROVE  FirstTry'
<1> USE DEF CommentTypeOK
<1>1. ASSUME pii' = pii, refused => refused',
             \/ hidden => hidden'
             \/ \E s \in Staff \ Hides : page'[s] # "idle",
             \A s \in Staff : page[s] # "idle" => page'[s] # "idle",
             UNCHANGED <<attempt, entry, outbox, pc, cursor, seen, resumed, faults, stalls>>,
             row'.told = row.told, row'.status = row.status,
             conv.human # "bot" => conv'.human # "bot"
      PROVE  FirstTry'
  <2>1. Hidden => Hidden'
    BY <1>1, HiddenStays
  <2>2. (Answered => Answered') /\ (Declined => Declined')
    BY <1>1, <2>1 DEF Answered, Declined
  <2>3. \A w \in Workers : Progress(w) => Progress(w)'
    <3>1. Untold' <=> Untold
      BY <1>1 DEF Untold
    <3> QED BY <1>1, <2>1, <2>2, <3>1, ProgressStays
  <2> QED BY <1>1, <2>2, <2>3 DEF FirstTry, Undisturbed, Untold
<1>2. CASE UNCHANGED vars
  BY <1>1, <1>2 DEF vars, queueVars, storeVars, localVars, metaVars, envVars
<1>3. CASE MessengerMoves
  <2>1. conv.human # "bot" => conv'.human # "bot"
    BY <1>3 DEF MessengerMoves
  <2> QED BY <1>1, <1>3, <2>1 DEF MessengerMoves, queueVars, localVars, metaVars
<1>4. ASSUME NEW s \in Staff, Request(s) PROVE FirstTry'
  <2>1. /\ UNCHANGED <<pii, attempt, entry, outbox, pc, cursor, seen, resumed, faults,
                       stalls, conv>>
        /\ refused => refused'
        /\ row'.told = row.told /\ row'.status = row.status
    BY <1>4 DEF Request, RequestVisibility, CallVisibility, StoreVisibility,
                SetCommentHidden, queueVars, storeVars, localVars, metaVars, envVars, Row
  <2>2. page'[s] # "idle" /\ \A t \in Staff \ {s} : page'[t] = page[t]
    BY <1>4 DEF Request, RequestVisibility, CallVisibility, StoreVisibility
  <2>3. (hidden => hidden') \/ s \notin Hides
    BY <1>4 DEF Request, RequestVisibility, CallVisibility, StoreVisibility,
                SetCommentHidden, metaVars
  <2> QED BY <1>1, <2>1, <2>2, <2>3
<1>5. ASSUME NEW w \in Workers, ExpireLease(w) PROVE FirstTry'
  <2>1. UNCHANGED <<pii, refused, hidden, page, attempt, entry, outbox, pc, cursor, seen,
                    resumed, row, conv, faults>>
    BY <1>5 DEF ExpireLease, queueVars, storeVars, localVars, metaVars
  <2>2. stalls' = stalls \/ ~Undisturbed'
    BY <1>5 DEF ExpireLease, Undisturbed
  <2> QED BY <1>1, <2>1, <2>2 DEF FirstTry
<1>6. ASSUME NEW w \in Workers, AcquireLease(w) PROVE FirstTry'
  <2>1. /\ UNCHANGED <<pii, refused, hidden, page, attempt, entry, outbox, cursor, seen,
                       resumed, row, conv, faults, stalls>>
        /\ pc[w] = "lease" /\ pc' = [pc EXCEPT ![w] = "load"]
    BY <1>6 DEF AcquireLease, Goto, queueVars, storeVars, localVars, metaVars, envVars
  <2>2. \A v \in Workers : Progress(v) => Progress(v)'
    <3>1. /\ (Untold => Untold') /\ (Hidden => Hidden')
          /\ (Answered => Answered') /\ (Declined => Declined')
      BY <2>1 DEF Untold, Hidden, HiddenOrAsked, Answered, Declined
    <3> SUFFICES ASSUME NEW v \in Workers, Progress(v) PROVE Progress(v)'
      OBVIOUS
    <3>2. pc'[v] = pc[v] \/ (pc'[v] = "load" /\ pc[v] = "lease")
      BY <2>1
    <3>3. /\ cursor'[v] = cursor[v] /\ resumed'[v] = resumed[v]
          /\ seen'[v].version = seen[v].version /\ outbox'.version = outbox.version
          /\ row'.told = row.told /\ row'.status = row.status /\ conv' = conv
      BY <2>1
    <3> QED BY <3>1, <3>2, <3>3, ProgressStays
  <2> QED BY <2>1, <2>2 DEF FirstTry, Undisturbed, Answered, Declined, Hidden, HiddenOrAsked
<1>7. ASSUME NEW w \in Workers, ReadGroup(w) PROVE FirstTry'
  <2> SUFFICES ASSUME Undisturbed', attempt' = 0, LiveSend PROVE FirstTry'
    BY DEF FirstTry
  <2>1. /\ UNCHANGED <<entry, attempt, outbox, row, resumed>> /\ entry = "live"
        /\ pc' = [pc EXCEPT ![w] = "lease"]
        /\ Undisturbed /\ ~(owner \in Workers \ {w} /\ pc[owner] # "idle")
        /\ pc[w] = "idle"
    BY <1>7 DEF ReadGroup, Goto, Undisturbed, storeVars
  <2>2. \A v \in Workers : pc[v] = "idle"
    BY <2>1 DEF Alone
  <2>3. Untold /\ \A v \in Workers : ~resumed[v]
    BY <2>1, <2>2 DEF FirstTry, Progress
  <2>4. \A v \in Workers : Progress(v)'
    BY <2>1, <2>2, <2>3 DEF Progress, Untold, Dispatching, Sending
  <2>5. entry' = "live" /\ pc'[w] = "lease"
    BY <2>1
  <2> QED BY <2>4, <2>5 DEF FirstTry
<1>8. ASSUME NEW w \in Workers, Works(w) PROVE FirstTry'
  <2> SUFFICES ASSUME Undisturbed', attempt' = 0, LiveSend PROVE FirstTry'
    BY DEF FirstTry
  <2>1. /\ UNCHANGED <<entry, attempt, faults, stalls>>
        /\ pc[w] # "idle" /\ pc'[w] # "idle"
        /\ \A v \in Workers \ {w} : pc'[v] = pc[v] /\ resumed'[v] = resumed[v]
    BY <1>8, WorksEffect DEF queueVars, envVars
  <2>2. Undisturbed /\ attempt = 0
    BY <2>1 DEF Undisturbed
  <2>3. entry = "live" /\ \A v \in Workers \ {w} : pc[v] = "idle"
    BY <2>1, <2>2 DEF Alone
  <2>4. \A v \in Workers : Progress(v)
    BY <2>2 DEF FirstTry
  <2>5. Progress(w)'
    BY <1>8, <2>4, ProgressToPlan, ProgressHiding, ProgressSending DEF Works
  <2>6. \A v \in Workers \ {w} : Progress(v)'
    BY <2>1, <2>3, <2>4 DEF Progress, Dispatching, Sending
  <2> QED BY <2>1, <2>3, <2>5, <2>6 DEF FirstTry
<1>9. ASSUME NEW w \in Workers, Ends(w) PROVE FirstTry'
  <2> SUFFICES ASSUME Undisturbed', attempt' = 0, LiveSend PROVE FirstTry'
    BY DEF FirstTry
  <2>1. pc[w] # "idle" /\ Undisturbed
    BY <1>9, EndsCounts
  <2>2. /\ owner = w /\ entry = "live" /\ held[w] = attempt
        /\ \A v \in Workers \ {w} : pc[v] = "idle"
        /\ pc[w] \notin {"idle", "lease"} => lease = w
    BY <2>1 DEF Alone
  <2>3. pc'[w] = "idle" /\ ~resumed'[w]
        /\ \A v \in Workers \ {w} : pc'[v] = "idle" /\ resumed'[v] = resumed[v]
    BY <1>9, <2>2, EndsEffect, ForgetEffect
  <2>4. \/ LeaseBusy(w) \/ Acknowledge(w) \/ SendFailed(w) \/ MarkOutboundUnknown(w)
        \/ (StateConflict(w) /\ retried[w])
    BY <1>9, <2>2 DEF Ends, LeaseLostAtEnd, AbandonTurn, Asserting, StopWorker, CrashWorker,
                      CallFails, Fault, Undisturbed
  <2>5. ASSUME NEW max \in {1, MaxAttempts}, RetryOrDeadLetter(w, max)
        PROVE  entry' = "dead"
    BY <2>2, <2>5 DEF RetryOrDeadLetter, Mine
  <2>6. (entry' = "acked" => Answered' \/ Declined') /\ (entry' = "live" => Untold')
        /\ attempt = 0
    <3>1. CASE LeaseBusy(w)
      <4>1. /\ entry' = entry /\ attempt' = attempt /\ UNCHANGED <<outbox, row>>
            /\ pc[w] = "lease"
        BY <3>1 DEF LeaseBusy, queueVars, storeVars
      <4> QED BY <2>1, <2>2, <4>1 DEF FirstTry, Progress, Untold
    <3>2. CASE Acknowledge(w)
      <4>1. /\ entry' = "acked" /\ attempt' = attempt /\ pc[w] = "done"
            /\ UNCHANGED <<pii, row, conv, hidden, refused, page>>
        BY <2>2, <3>2 DEF Acknowledge, Mine, storeVars, metaVars
      <4>2. Answered \/ Declined
        BY <2>1, <4>1 DEF FirstTry, Progress
      <4> QED BY <4>1, <4>2 DEF Answered, Declined, Hidden, HiddenOrAsked
    <3>3. CASE SendFailed(w) \/ MarkOutboundUnknown(w) \/ (StateConflict(w) /\ retried[w])
      <4>1. PICK max \in {1, MaxAttempts} : RetryOrDeadLetter(w, max)
        BY <3>3 DEF SendFailed, MarkOutboundUnknown, StateConflict
      <4>2. attempt = 0
        BY <2>2, <4>1 DEF RetryOrDeadLetter, Mine
      <4> QED BY <2>5, <4>1, <4>2
    <3> QED BY <2>4, <3>1, <3>2, <3>3
  <2>7. \A v \in Workers : ~resumed'[v]
    <3>1. \A v \in Workers : ~resumed[v]
      BY <2>1, <2>6 DEF FirstTry, Progress
    <3> QED BY <2>3, <3>1
  <2>8. \A v \in Workers : Progress(v)'
    BY <2>3, <2>7 DEF Progress, Dispatching, Sending
  <2> QED BY <2>6, <2>8 DEF FirstTry
<1> QED
  BY <1>2, <1>3, <1>4, <1>5, <1>6, <1>7, <1>8, <1>9 DEF Next, Turn, Ends, Works
-----------------------------------------------------------------------------
(* Theorems *)

LEMMA CommentInit == ASSUME CommentAssumption, Init PROVE CommentInv
<1> USE DEF Init
<1>1. CommentTypeOK
  <2>1. NewConversation \in Conversation /\ NoPlan \in Plan
    BY DEF NewConversation, Conversation, NoPlan, Plan
  <2>2. row \in Row
    BY DEF Row, Status
  <2>3. /\ pc \in [Workers -> Steps \cup Hide \cup Mark]
        /\ held \in [Workers -> Nat] /\ seen \in [Workers -> Conversation]
        /\ cursor \in [Workers -> 0..2]
    BY <2>1 DEF Steps
  <2>4. /\ resumed \in [Workers -> BOOLEAN] /\ retried \in [Workers -> BOOLEAN]
        /\ page \in [Staff -> {"idle", "call", "store", "end"}]
        /\ accepted \in [Parts -> Nat]
    OBVIOUS
  <2>5. /\ attempt \in 0..(MaxAttempts - 1) /\ moves \in 0..MaxMoves
        /\ faults \in 0..MaxFaults /\ stalls \in 0..MaxStalls
    BY DEF CommentAssumption
  <2>6. /\ processed \in BOOLEAN /\ hidden \in BOOLEAN
        /\ refused \in BOOLEAN /\ crossed \in BOOLEAN /\ pii \in BOOLEAN
    OBVIOUS
  <2> QED BY <2>1, <2>2, <2>3, <2>4, <2>5, <2>6, Zenon DEF CommentTypeOK
<1>2. ControlOK
  BY DEF ControlOK, Sending, Dispatching
<1>3. SentIsAccepted
  BY DEF SentIsAccepted, NoPlan, Parts
<1>4. Budget
  <2> SUFFICES ASSUME NEW p \in Parts PROVE accepted[p] + Debt(p) <= 1 + faults + stalls
    BY DEF Budget
  <2>1. Loose(p) = {}
    BY DEF Loose
  <2>2. Cardinality(Loose(p)) = 0
    BY <2>1, FS_EmptySet
  <2>3. Debt(p) = IF Open(p) THEN 1 ELSE 0
    BY <2>2 DEF Debt
  <2> QED BY <2>3
<1>5. ChangesInOrder
  BY DEF ChangesInOrder, Asking, Mark
<1>6. Alone
  BY DEF Alone
<1>7. FirstTry
  <2>1. Untold
    BY DEF Untold, NoPlan
  <2>2. \A w \in Workers : Progress(w)
    BY DEF Progress, Dispatching, Sending
  <2> QED BY <2>1, <2>2 DEF FirstTry
<1> QED BY <1>1, <1>2, <1>3, <1>4, <1>5, <1>6, <1>7 DEF CommentInv

LEMMA CommentStep == ASSUME CommentAssumption, CommentInv, [Next]_vars PROVE CommentInv'
<1>1. CommentTypeOK' /\ ControlOK' /\ SentIsAccepted'
  BY CommentType, ControlStep, SentStep DEF CommentInv
<1>2. Budget' /\ ChangesInOrder' /\ Alone' /\ FirstTry'
  BY <1>1, BudgetStep, OrderStep, AloneStep, FirstTryStep DEF CommentInv
<1> QED BY <1>1, <1>2 DEF CommentInv

\* Every reachable state satisfies the inductive invariant.
THEOREM CommentInvariant == Spec => []CommentInv
<1>1. Init => CommentInv
  BY CommentInit, CommentAssumption
<1>2. CommentInv /\ [Next]_vars => CommentInv'
  BY CommentStep, CommentAssumption
<1> QED BY <1>1, <1>2, PTL DEF Spec

\* The row of a comment, its plan, its stream entry and the workers' control keep
\* their types; the entry never outlives META_INBOUND_MAX_ATTEMPTS.
THEOREM CommentTypeCorrect == Spec => []CommentTypeOK
<1>1. CommentInv => CommentTypeOK
  BY DEF CommentInv
<1> QED BY <1>1, CommentInvariant, PTL

\* The public reply precedes the private one, "replied" means both, and each copy
\* of a part at Meta beyond the first is paid for by a fault or a stall of its own
\* (dispatchOutbound and markMetaCommentPartSent, metaInboundProcessor.ts).
THEOREM CopiesArePaidFor == Spec => []PartsAreAccountedFor
<1>1. CommentInv => PartsAreAccountedFor
  <2> SUFFICES ASSUME CommentInv PROVE PartsAreAccountedFor
    OBVIOUS
  <2>1. ASSUME NEW p \in Parts PROVE accepted[p] <= 1 + faults + stalls
    <3>1. IsFiniteSet(Loose(p))
      <4>1. Loose(p) \subseteq Workers
        BY DEF Loose
      <4> QED BY <4>1, CommentAssumption, FS_Subset DEF CommentAssumption
    <3>2. Cardinality(Loose(p)) \in Nat
      BY <3>1, FS_CardinalityType
    <3>3. Debt(p) \in Nat
      BY <3>2 DEF Debt
    <3>4. accepted[p] + Debt(p) <= 1 + faults + stalls
      BY DEF CommentInv, Budget
    <3>5. accepted[p] \in Nat /\ faults \in Nat /\ stalls \in Nat
      BY CommentAssumption DEF CommentInv, CommentTypeOK, CommentAssumption
    <3> QED BY <3>3, <3>4, <3>5
  <2>2. accepted[2] > 0 => accepted[1] > 0
    BY DEF CommentInv, SentIsAccepted
  <2>3. row.status = "replied" => \A p \in Parts : accepted[p] > 0
    BY DEF CommentInv, SentIsAccepted
  <2> QED BY <2>1, <2>2, <2>3 DEF PartsAreAccountedFor
<1> QED BY <1>1, CommentInvariant, PTL

\* A comment acknowledged at its first, undisturbed attempt tells staff that it was
\* replied to or paused (markMetaCommentIssue, markMetaCommentPartSent).
THEOREM CommentHasVerdict == Spec => []VerdictUnlessInterrupted
<1>1. CommentInv => VerdictUnlessInterrupted
  BY DEF CommentInv, FirstTry, Answered, Declined, VerdictUnlessInterrupted
<1> QED BY <1>1, CommentInvariant, PTL

\* Such a comment with personal data has been hidden, unless Meta refused, staff
\* asked otherwise, nothing may be sent or a human is in charge (autoHide,
\* metaInboundProcessor.ts).
THEOREM PersonalDataIsHidden == Spec => []PiiIsHidden
<1>1. CommentInv => PiiIsHidden
  BY CommentAssumption
     DEF CommentAssumption, CommentInv, FirstTry, Answered, Declined, Hidden, HiddenOrAsked,
         PiiIsHidden
<1> QED BY <1>1, CommentInvariant, PTL

\* When nobody is changing it, the page shows what Meta has, for changes that came
\* one at a time and were confirmed (hideComment and the visibility route).
THEOREM VisibilityIsShown == Spec => []VisibilityAgrees
<1>1. CommentInv => VisibilityAgrees
  <2> SUFFICES ASSUME CommentInv, Changing = {}, Asking = {}, ~refused, ~crossed, Undisturbed
               PROVE  row.hidden = hidden
    BY DEF VisibilityAgrees
  <2>1. \A w \in Workers : pc[w] \notin Mark
    BY DEF Changing
  <2>2. \A s \in Staff : page[s] # "store"
    BY DEF Asking
  <2> QED BY <2>1, <2>2 DEF CommentInv, ChangesInOrder, Undisturbed
<1> QED BY <1>1, CommentInvariant, PTL
=============================================================================
