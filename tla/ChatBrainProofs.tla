--------------------------- MODULE ChatBrainProofs ---------------------------
(***************************************************************************)
(* Theorems of ChatBrain, whatever the model may write and whatever a turn *)
(* may leave behind; and, in the second half, of HybridLlm, the runner its *)
(* model calls go through, for any set of calls and any pauses.            *)
(***************************************************************************)
EXTENDS ChatBrain, HybridLlm, TLAPS

\* Every part of the state has its type.
BrainTypeOK ==
  /\ step \in {"interpret", "chat", "route", "postCommit", "redraft", "worded",
               "uncovered", "supported", "governed", "valid", "revised", "invalid",
               "done", "failed"}
  /\ enabled \in BOOLEAN /\ draft \in BOOLEAN /\ recovered \in BOOLEAN
  /\ done \in SUBSET Outcome
  /\ says \in [Text -> SUBSET Thing]
  /\ composed \in Wording \cup {"none"}
  /\ calls \in Nat /\ repairs \in Nat
  /\ history \in Text \cup {"none"} /\ paused \in BOOLEAN
  /\ reply \in Text \cup {"none"} /\ verdict \in {"none", "allow", "block"}

\* Before the answer is worded, and while there is no reply.
Reading == step \in {"interpret", "chat", "route"}
Open == step \notin {"done", "failed"}

\* Calls by the stage of the turn: two to read the message, one to word the
\* answer, and the one repair.
Spent ==
  /\ calls <= 3 + repairs /\ repairs <= 1
  /\ Reading \/ step \in {"postCommit", "redraft"} => calls <= 2 /\ repairs = 0
  /\ step = "interpret" => calls <= 1
  /\ ~enabled => calls = 0 /\ (Reading \/ ~Open)

\* Until something is delivered the session remembers the workflow's answer, and
\* afterwards what was delivered.
Remembered ==
  /\ Open /\ step \notin {"interpret", "chat"} => history = "workflow"
  /\ step = "done" => history = reply

\* The wording at hand passed the guards of its origin against what was done, and
\* what goes out with leave passed the final check as well.
Guarded ==
  /\ Reading => composed = "none"
  /\ composed # "none" =>
       /\ Grounded(says[composed], done)
       /\ composed # "draft" => "contentless" \notin says[composed]
  /\ step = "done" /\ reply \in Wording => reply = composed
  /\ Allowed /\ reply \in Wording => FollowsKnowledge(says[reply])

\* The conversation is paused in the step that says so.
Told ==
  /\ Open => ~paused
  /\ step = "done" => (paused <=> reply \in {"open", "receipt"})

BrainInv == BrainTypeOK /\ Spent /\ Remembered /\ Guarded /\ Told

-----------------------------------------------------------------------------
(* Delivering *)

\* One text is replaced.
LEMMA SaysOne ==
  ASSUME BrainTypeOK, NEW t \in Text, NEW text \in SUBSET Thing,
         says' = [says EXCEPT ![t] = text]
  PROVE  /\ says' \in [Text -> SUBSET Thing]
         /\ says'[t] = text
         /\ \A u \in Text \ {t} : says'[u] = says[u]
BY DEF BrainTypeOK

LEMMA TextsOK ==
  /\ Wording \subseteq Text
  /\ {"workflow", "empty", "approved", "open", "receipt"} \subseteq Text
  /\ {"workflow", "empty", "approved", "open", "receipt"} \cap Wording = {}
  /\ "none" \notin Wording
BY DEF Text, Wording

\* A reply that is none of the model's wordings goes out as the session remembers
\* it, whether the conversation is paused with it or not.
LEMMA DeliverFixed ==
  ASSUME BrainInv, Open, ~Reading \/ step = "route",
         NEW t \in Text \ Wording, NEW text \in SUBSET Thing, DeliverSaying(t, text),
         history' = t, paused' \in BOOLEAN, paused' <=> t \in {"open", "receipt"},
         UNCHANGED <<Heard, composed>>,
         calls' \in Nat, repairs' \in Nat, calls' <= 3 + repairs', repairs' <= 1,
         ~enabled => calls' = 0
  PROVE  BrainInv'
<1>1. /\ reply' = t /\ step' = "done" /\ verdict' \in {"allow", "block"}
      /\ says' = [says EXCEPT ![t] = text]
  BY DEF DeliverSaying
<1>2. /\ says' \in [Text -> SUBSET Thing]
      /\ \A u \in Text \ {t} : says'[u] = says[u]
  BY <1>1, SaysOne DEF BrainInv
<1>3. UNCHANGED <<enabled, draft, recovered, done, composed>>
  BY DEF Heard
<1>4. BrainTypeOK'
  BY <1>1, <1>2, <1>3 DEF BrainInv, BrainTypeOK
<1>5. Spent'
  BY <1>1, <1>3 DEF Spent, Reading, Open
<1>6. Remembered'
  BY <1>1 DEF Remembered, Open
<1>7. Guarded'
  <2>1. composed \in Wording \cup {"none"}
    BY DEF BrainInv, BrainTypeOK
  <2>2. composed # "none" => says'[composed] = says[composed]
    BY <1>2, <2>1, TextsOK
  <2> QED BY <1>1, <1>3, <2>2 DEF BrainInv, Guarded, Reading
<1>8. Told'
  BY <1>1 DEF Told, Open
<1> QED BY <1>4, <1>5, <1>6, <1>7, <1>8 DEF BrainInv

\* The workflow's own answer, which the session remembers already.
LEMMA DeliverOwn ==
  ASSUME BrainInv, Open, ~Reading \/ step = "route", Deliver("workflow"),
         UNCHANGED <<Heard, composed, history, paused>>,
         \/ UNCHANGED <<calls, repairs>>
         \/ enabled /\ MayRepair /\ Repairs
  PROVE  BrainInv'
<1>1. DeliverSaying("workflow", says["workflow"])
  BY DEF Deliver
<1>2. says["workflow"] \in SUBSET Thing
  BY TextsOK DEF BrainInv, BrainTypeOK
<1>3. history' = "workflow" /\ ~paused' /\ paused' \in BOOLEAN
  BY DEF BrainInv, BrainTypeOK, Remembered, Told, Reading
<1>4. /\ calls' \in Nat /\ repairs' \in Nat /\ calls' <= 3 + repairs'
      /\ repairs' <= 1 /\ (~enabled => calls' = 0)
  <2>1. /\ calls \in Nat /\ repairs \in Nat /\ calls <= 3 + repairs
        /\ repairs <= 1 /\ (~enabled => calls = 0)
    BY DEF BrainInv, BrainTypeOK, Spent
  <2> QED BY <2>1 DEF MayRepair, Repairs
<1>5. "workflow" \in Text \ Wording
  BY TextsOK
<1> QED BY <1>1, <1>2, <1>3, <1>4, <1>5, DeliverFixed

-----------------------------------------------------------------------------
(* The steps that only move on *)

\* A wording is adopted, replaced or kept, on the way to the reply.
LEMMA MovesOn ==
  ASSUME BrainInv, Open, ~Reading,
         step' \in {"worded", "uncovered", "supported", "governed", "valid",
                    "revised", "invalid"},
         UNCHANGED <<Heard, history, paused, reply, verdict>>,
         enabled,
         calls' \in Nat, repairs' \in Nat, calls' <= 3 + repairs', repairs' <= 1,
         \/ UNCHANGED <<says, composed>>
         \/ \E text \in SUBSET Thing :
              Repaired(text) \/ (PostCommitPasses(text, done)
                                 /\ Writes("postCommit", text)
                                 /\ composed' = "postCommit")
  PROVE  BrainInv'
<1>1. UNCHANGED <<enabled, draft, recovered, done>>
  BY DEF Heard
<1> DEFINE Passed == composed' # "none" =>
                       /\ Grounded(says'[composed'], done)
                       /\ composed' # "draft" => "contentless" \notin says'[composed']
<1>2. says' \in [Text -> SUBSET Thing] /\ composed' \in Wording \cup {"none"} /\ Passed
  <2>1. CASE UNCHANGED <<says, composed>>
    BY <2>1 DEF BrainInv, BrainTypeOK, Guarded
  <2>2. ASSUME NEW text \in SUBSET Thing, NEW t \in {"repair", "postCommit"},
               RepairPasses(text, done), Writes(t, text), composed' = t
        PROVE  says' \in [Text -> SUBSET Thing] /\ composed' \in Wording /\ Passed
    <3>1. t \in Wording /\ t \in Text
      BY DEF Wording, Text
    <3>2. says' \in [Text -> SUBSET Thing] /\ says'[t] = text
      BY <2>2, <3>1, SaysOne DEF BrainInv, Writes
    <3>3. Grounded(text, done) /\ "contentless" \notin text
      BY <2>2 DEF RepairPasses
    <3> QED BY <2>2, <3>1, <3>2, <3>3
  <2> HIDE DEF Passed
  <2> QED BY <2>1, <2>2 DEF Repaired, PostCommitPasses
<1>3. BrainTypeOK'
  BY <1>1, <1>2 DEF BrainInv, BrainTypeOK
<1>4. Spent'
  BY <1>1 DEF Spent, Reading, Open
<1>5. Remembered'
  BY DEF BrainInv, Remembered, Open, Reading
<1>6. Guarded'
  BY <1>1, <1>2 DEF Guarded, Reading, Allowed
<1>7. Told'
  BY DEF BrainInv, Told, Open
<1> QED BY <1>3, <1>4, <1>5, <1>6, <1>7 DEF BrainInv

-----------------------------------------------------------------------------
(* The steps *)

LEMMA BrainInit ==
  ASSUME Init
  PROVE  BrainInv
<1>1. BrainTypeOK
  BY DEF Init, BrainTypeOK
<1>2. Spent /\ Remembered /\ Guarded /\ Told
  BY DEF Init, Spent, Remembered, Guarded, Told, Reading, Open, Allowed
<1> QED BY <1>1, <1>2 DEF BrainInv

\* What the numbers are before a wording is looked at.
LEMMA Affordable ==
  ASSUME BrainInv
  PROVE  /\ calls \in Nat /\ repairs \in Nat /\ calls <= 3 + repairs
         /\ repairs <= 1 /\ (~enabled => calls = 0)
         /\ MayRepair /\ Repairs =>
              /\ calls' \in Nat /\ repairs' \in Nat /\ calls' <= 3 + repairs'
              /\ repairs' <= 1
BY DEF BrainInv, BrainTypeOK, Spent, MayRepair, Repairs

\* Wording is the work of the model.
LEMMA WordedByModel ==
  ASSUME BrainInv, Open, ~Reading
  PROVE  enabled
BY DEF BrainInv, Spent

LEMMA ReadingSteps ==
  ASSUME WritingsAreTexts, OutcomesAreConsistent, BrainInv,
         Interpret \/ SkipInterpretation \/ Chat \/ DeliverWorkflow
  PROVE  BrainInv'
<1>1. CASE Interpret
  <2>1. /\ step = "interpret" /\ enabled /\ calls' = calls + 1
        /\ UNCHANGED <<enabled, recovered, done, composed, repairs, history, paused,
                       reply, verdict>>
        /\ step' \in {"interpret", "chat"} /\ (step' = "interpret" => calls = 0)
    BY <1>1 DEF Interpret
  <2>2. draft' \in BOOLEAN /\ says' \in [Text -> SUBSET Thing]
    <3>1. CASE UNCHANGED says
      BY <1>1, <3>1 DEF Interpret, BrainInv, BrainTypeOK
    <3>2. ASSUME NEW text \in Writings, Writes("draft", text), draft' = TRUE
          PROVE  draft' \in BOOLEAN /\ says' \in [Text -> SUBSET Thing]
      <4>1. "draft" \in Text /\ text \in SUBSET Thing
        BY DEF Text, Wording, WritingsAreTexts
      <4>2. says' = [says EXCEPT !["draft"] = text]
        BY <3>2 DEF Writes
      <4>3. BrainTypeOK
        BY DEF BrainInv
      <4> QED BY <3>2, <4>1, <4>2, <4>3, SaysOne
    <3> QED BY <1>1, <3>1, <3>2 DEF Interpret
  <2>3. BrainTypeOK'
    BY <2>1, <2>2 DEF BrainInv, BrainTypeOK
  <2>4. Spent'
    BY <2>1 DEF BrainInv, BrainTypeOK, Spent, Reading, Open
  <2>5. Remembered' /\ Told'
    BY <2>1 DEF BrainInv, Remembered, Told, Open
  <2>6. Guarded'
    BY <2>1 DEF BrainInv, Guarded, Reading, Allowed
  <2> QED BY <2>3, <2>4, <2>5, <2>6 DEF BrainInv
<1>2. CASE SkipInterpretation
  <2>1. /\ step = "interpret" /\ step' = "chat"
        /\ UNCHANGED <<enabled, draft, recovered, done, says, composed, calls,
                       repairs, history, paused, reply, verdict>>
    BY <1>2 DEF SkipInterpretation, Heard
  <2>2. BrainTypeOK'
    BY <2>1 DEF BrainInv, BrainTypeOK
  <2>3. Spent'
    BY <2>1 DEF BrainInv, Spent, Reading, Open
  <2>4. Remembered' /\ Told' /\ Guarded'
    BY <2>1 DEF BrainInv, Remembered, Told, Guarded, Open, Reading, Allowed
  <2> QED BY <2>2, <2>3, <2>4 DEF BrainInv
<1>3. CASE Chat
  <2>1. /\ step = "chat" /\ step' = "route" /\ recovered' \in BOOLEAN
        /\ done' \in Outcomes /\ history' = "workflow"
        /\ UNCHANGED <<enabled, draft, composed, calls, repairs, paused, reply,
                       verdict>>
    BY <1>3 DEF Chat, Remember
  <2>2. PICK text \in WorkflowSays(done') : Writes("workflow", text)
    BY <1>3 DEF Chat
  <2>3. text \in SUBSET Thing
    BY DEF WorkflowSays, Thing, Claim, Fault
  <2>4. says' \in [Text -> SUBSET Thing]
    <3>1. says' = [says EXCEPT !["workflow"] = text]
      BY <2>2 DEF Writes
    <3>2. BrainTypeOK /\ "workflow" \in Text
      BY TextsOK DEF BrainInv
    <3> QED BY <2>3, <3>1, <3>2, SaysOne
  <2>5. done' \in SUBSET Outcome
    BY <2>1 DEF OutcomesAreConsistent
  <2>6. BrainTypeOK'
    BY <2>1, <2>4, <2>5 DEF BrainInv, BrainTypeOK, Text
  <2>7. Spent'
    BY <2>1 DEF BrainInv, Spent, Reading, Open
  <2>8. Remembered' /\ Told' /\ Guarded'
    BY <2>1 DEF BrainInv, Remembered, Told, Guarded, Open, Reading, Allowed
  <2> QED BY <2>6, <2>7, <2>8 DEF BrainInv
<1>4. CASE DeliverWorkflow
  BY <1>4, DeliverOwn DEF DeliverWorkflow, Open
<1> QED BY <1>1, <1>2, <1>3, <1>4

LEMMA WordingSteps ==
  ASSUME WritingsAreTexts, BrainInv,
         Adopt \/ ComposePostCommit \/ RepairDraft \/ FixedAnswer
  PROVE  BrainInv'
<1>1. CASE Adopt
  <2>1. /\ step = "route" /\ enabled /\ step' \in {"postCommit", "redraft"}
        /\ UNCHANGED <<enabled, draft, recovered, done, says, calls, repairs, history,
                       paused, reply, verdict>>
        /\ composed' \in {"none", "draft"}
        /\ composed' = "draft" => Grounded(says["draft"], done)
    BY <1>1 DEF Adopt, Heard, DraftPasses
  <2>2. BrainTypeOK'
    BY <2>1 DEF BrainInv, BrainTypeOK, Wording
  <2>3. Spent'
    BY <2>1 DEF BrainInv, Spent, Reading, Open
  <2>4. Remembered' /\ Told'
    BY <2>1 DEF BrainInv, Remembered, Told, Open
  <2>5. Guarded'
    BY <2>1 DEF BrainInv, Guarded, Reading, Allowed
  <2> QED BY <2>2, <2>3, <2>4, <2>5 DEF BrainInv
<1>2. CASE ComposePostCommit
  <2>1. /\ step = "postCommit" /\ step' = "worded" /\ calls' = calls + 1
        /\ UNCHANGED <<Heard, repairs, history, paused, reply, verdict>>
    BY <1>2 DEF ComposePostCommit
  <2>2. Open /\ ~Reading
    BY <2>1 DEF Open, Reading
  <2>3. calls' \in Nat /\ repairs' \in Nat /\ calls' <= 3 + repairs' /\ repairs' <= 1
    BY <2>1 DEF BrainInv, BrainTypeOK, Spent
  <2>4. \/ UNCHANGED <<says, composed>>
        \/ \E text \in SUBSET Thing :
             /\ PostCommitPasses(text, done) /\ Writes("postCommit", text)
             /\ composed' = "postCommit"
    BY <1>2 DEF ComposePostCommit, WritingsAreTexts
  <2> QED BY <2>1, <2>2, <2>3, <2>4, WordedByModel, MovesOn
<1>3. CASE RepairDraft
  <2>1. /\ step = "redraft" /\ step' = "worded"
        /\ UNCHANGED <<Heard, history, paused, reply, verdict>>
    BY <1>3 DEF RepairDraft
  <2>2. Open /\ ~Reading
    BY <2>1 DEF Open, Reading
  <2>3. Repairs \/ UNCHANGED <<calls, repairs>>
    BY <1>3 DEF RepairDraft
  <2>4. calls' \in Nat /\ repairs' \in Nat /\ calls' <= 3 + repairs' /\ repairs' <= 1
    BY <2>1, <2>3 DEF BrainInv, BrainTypeOK, Spent, Repairs
  <2>5. UNCHANGED <<says, composed>> \/ \E text \in SUBSET Thing : Repaired(text)
    BY <1>3 DEF RepairDraft, WritingsAreTexts
  <2> QED BY <2>1, <2>2, <2>4, <2>5, WordedByModel, MovesOn
<1>4. CASE FixedAnswer
  <2>1. step = "worded" /\ UNCHANGED <<Heard, composed, calls, repairs, paused>>
    BY <1>4 DEF FixedAnswer
  <2>2. Open /\ ~Reading
    BY <2>1 DEF Open, Reading
  <2>3. CASE Deliver("workflow") /\ UNCHANGED history
    BY <2>1, <2>2, <2>3, DeliverOwn
  <2>4. CASE Remember("empty") /\ Deliver("empty")
    <3>1. DeliverSaying("empty", says["empty"]) /\ history' = "empty"
      BY <2>4 DEF Deliver, Remember
    <3>2. "empty" \in Text \ Wording /\ says["empty"] \in SUBSET Thing
      BY TextsOK DEF BrainInv, BrainTypeOK
    <3>3. ~paused' /\ paused' \in BOOLEAN
      BY <2>1, <2>2 DEF BrainInv, BrainTypeOK, Told
    <3>4. /\ calls' \in Nat /\ repairs' \in Nat /\ calls' <= 3 + repairs'
          /\ repairs' <= 1 /\ (~enabled => calls' = 0)
      BY <2>1, Affordable
    <3> QED BY <2>1, <2>2, <3>1, <3>2, <3>3, <3>4, DeliverFixed
  <2> QED BY <1>4, <2>3, <2>4 DEF FixedAnswer
<1> QED BY <1>1, <1>2, <1>3, <1>4

LEMMA CoverageSteps ==
  ASSUME WritingsAreTexts, BrainInv,
         AssessCoverage \/ CoverOpenQuestion \/ HandOverUnsupported \/ KeepWorkflow
  PROVE  BrainInv'
<1>1. CASE AssessCoverage
  <2>1. /\ step = "worded" /\ UNCHANGED <<Heard, history, paused, reply, verdict>>
        /\ step' \in {"supported", "uncovered"}
        /\ UNCHANGED <<calls, repairs>> \/ (MayRepair /\ Repairs)
    BY <1>1 DEF AssessCoverage
  <2>2. Open /\ ~Reading
    BY <2>1 DEF Open, Reading
  <2>3. calls' \in Nat /\ repairs' \in Nat /\ calls' <= 3 + repairs' /\ repairs' <= 1
    BY <2>1, Affordable
  <2>4. UNCHANGED <<says, composed>> \/ \E text \in SUBSET Thing : Repaired(text)
    BY <1>1 DEF AssessCoverage, WritingsAreTexts
  <2> QED BY <2>1, <2>2, <2>3, <2>4, WordedByModel, MovesOn
<1>2. CASE CoverOpenQuestion
  <2>1. step = "uncovered" /\ UNCHANGED <<Heard, composed, calls, repairs>>
    BY <1>2 DEF CoverOpenQuestion
  <2>2. Open /\ ~Reading
    BY <2>1 DEF Open, Reading
  <2>3. paused = FALSE
    BY <2>2 DEF BrainInv, BrainTypeOK, Told
  <2>4. /\ calls' \in Nat /\ repairs' \in Nat /\ calls' <= 3 + repairs'
        /\ repairs' <= 1 /\ (~enabled => calls' = 0)
    BY <2>1, Affordable
  <2>5. CASE CoverFromKnowledge /\ UNCHANGED paused
    <3>1. CASE Deliver("workflow") /\ UNCHANGED history
      BY <2>1, <2>2, <2>5, <3>1, DeliverOwn
    <3>2. ASSUME NEW text \in {{}, {"unsupported"}}, Remember("approved"),
                 DeliverSaying("approved", text)
          PROVE  BrainInv'
      <4>1. text \in SUBSET Thing
        BY DEF Thing, Fault
      <4>2. "approved" \in Text \ Wording /\ history' = "approved"
        BY <3>2, TextsOK DEF Remember
      <4>3. paused' = FALSE
        BY <2>3, <2>5
      <4> QED BY <2>1, <2>2, <2>4, <3>2, <4>1, <4>2, <4>3, DeliverFixed
    <3> QED BY <2>5, <3>1, <3>2 DEF CoverFromKnowledge
  <2>6. CASE PauseForCoverage
    <3>1. PICK text \in SUBSET {"quantity", "offTopic"} : DeliverSaying("open", text)
      BY <2>6 DEF PauseForCoverage
    <3>2. text \in SUBSET Thing
      BY DEF Thing, Claim, Fault
    <3>3. "open" \in Text \ Wording /\ history' = "open" /\ paused' = TRUE
      BY <2>6, TextsOK DEF PauseForCoverage, Remember
    <3> QED BY <2>1, <2>2, <2>4, <3>1, <3>2, <3>3, DeliverFixed
  <2> QED BY <1>2, <2>5, <2>6 DEF CoverOpenQuestion
<1>3. CASE HandOverUnsupported
  <2> DEFINE written == IF draft THEN "draft" ELSE composed
             text == says[written] \cup {"quantity"}
  <2>1. /\ step = "supported" /\ composed # "none" /\ history' = "receipt"
        /\ paused' = TRUE /\ DeliverSaying("receipt", text)
        /\ UNCHANGED <<Heard, composed, calls, repairs>>
    BY <1>3 DEF HandOverUnsupported, Remember
  <2>2. Open /\ ~Reading
    BY <2>1 DEF Open, Reading
  <2>3. written \in Text
    BY <2>1 DEF BrainInv, BrainTypeOK, Text, Wording
  <2>4. text \in SUBSET Thing
    BY <2>3 DEF BrainInv, BrainTypeOK, Thing, Claim
  <2>5. /\ calls' \in Nat /\ repairs' \in Nat /\ calls' <= 3 + repairs'
        /\ repairs' <= 1 /\ (~enabled => calls' = 0)
    BY <2>1, Affordable
  <2>6. "receipt" \in Text \ Wording
    BY TextsOK
  <2> HIDE DEF text
  <2> QED BY <2>1, <2>2, <2>4, <2>5, <2>6, DeliverFixed
<1>4. CASE KeepWorkflow
  BY <1>4, DeliverOwn DEF KeepWorkflow, Open, Reading
<1> QED BY <1>1, <1>2, <1>3, <1>4

LEMMA CheckingSteps ==
  ASSUME WritingsAreTexts, BrainInv,
         CheckFacts \/ GovernedEmpty \/ ValidateWording \/ ValidateRepair \/ FallBack
  PROVE  BrainInv'
<1>1. Open /\ ~Reading
  BY DEF CheckFacts, GovernedEmpty, ValidateWording, ValidateRepair, FallBack, Open,
         Reading
<1>2. CASE CheckFacts
  <2>1. UNCHANGED <<Heard, history, paused>>
    BY <1>2 DEF CheckFacts
  <2>2. CASE Deliver("workflow")
    <3>1. UNCHANGED composed /\ (UNCHANGED <<calls, repairs>> \/ (MayRepair /\ Repairs))
      BY <1>2, <2>2 DEF CheckFacts, Deliver, DeliverSaying
    <3> QED BY <1>1, <2>1, <2>2, <3>1, WordedByModel, DeliverOwn
  <2>3. CASE ~Deliver("workflow")
    <3>1. /\ step' = "governed" /\ UNCHANGED <<reply, verdict>>
          /\ UNCHANGED <<calls, repairs>> \/ (MayRepair /\ Repairs)
          /\ UNCHANGED <<says, composed>> \/ \E text \in SUBSET Thing : Repaired(text)
      BY <1>2, <2>3 DEF CheckFacts, WritingsAreTexts
    <3>2. calls' \in Nat /\ repairs' \in Nat /\ calls' <= 3 + repairs' /\ repairs' <= 1
      BY <3>1, Affordable
    <3> QED BY <1>1, <2>1, <3>1, <3>2, WordedByModel, MovesOn
  <2> QED BY <2>2, <2>3
<1>3. CASE GovernedEmpty
  BY <1>1, <1>3, DeliverOwn DEF GovernedEmpty
<1>4. CASE ValidateWording
  <2>1. /\ step' \in {"valid", "revised", "invalid"}
        /\ UNCHANGED <<calls, repairs>> \/ (MayRepair /\ Repairs)
        /\ UNCHANGED <<Heard, says, composed, history, paused, reply, verdict>>
    BY <1>4 DEF ValidateWording
  <2>2. calls' \in Nat /\ repairs' \in Nat /\ calls' <= 3 + repairs' /\ repairs' <= 1
    BY <2>1, Affordable
  <2> QED BY <1>1, <2>1, <2>2, WordedByModel, MovesOn
<1>5. CASE ValidateRepair
  <2>1. /\ step' \in {"valid", "invalid"}
        /\ UNCHANGED <<Heard, calls, repairs, history, paused, reply, verdict>>
        /\ UNCHANGED <<says, composed>> \/ \E text \in SUBSET Thing : Repaired(text)
    BY <1>5 DEF ValidateRepair, WritingsAreTexts
  <2>2. calls' \in Nat /\ repairs' \in Nat /\ calls' <= 3 + repairs' /\ repairs' <= 1
    BY <2>1, Affordable
  <2> QED BY <1>1, <2>1, <2>2, WordedByModel, MovesOn
<1>6. CASE FallBack
  BY <1>1, <1>6, DeliverOwn DEF FallBack
<1> QED BY <1>2, <1>3, <1>4, <1>5, <1>6

\* The wording goes out: what passed its guards is looked at once more.
LEMMA DeliverWordingStep ==
  ASSUME BrainInv, DeliverWording
  PROVE  BrainInv'
<1>1. /\ step = "valid" /\ step' = "done" /\ reply' = composed /\ history' = composed
      /\ verdict' = IF Issues(says[composed], done) = {} THEN "allow" ELSE "block"
      /\ says' = [says EXCEPT ![composed] = says[composed]]
      /\ UNCHANGED <<enabled, draft, recovered, done, composed, calls, repairs, paused>>
  BY DEF DeliverWording, Remember, Deliver, DeliverSaying, Heard
<1>2. says' = says
  BY <1>1 DEF BrainInv, BrainTypeOK
<1>3. BrainTypeOK'
  BY <1>1, <1>2, TextsOK DEF BrainInv, BrainTypeOK
<1>4. Spent'
  BY <1>1 DEF BrainInv, Spent, Reading, Open
<1>5. Remembered'
  BY <1>1 DEF Remembered, Open
<1>6. Guarded'
  <2>1. Issues(says[composed], done) = {} => FollowsKnowledge(says[composed])
    BY DEF Issues, FollowsKnowledge
  <2> QED BY <1>1, <1>2, <2>1 DEF BrainInv, Guarded, Reading, Allowed
<1>7. Told'
  BY <1>1, TextsOK DEF BrainInv, BrainTypeOK, Told, Open, Wording
<1> QED BY <1>3, <1>4, <1>5, <1>6, <1>7 DEF BrainInv

LEMMA ThrowStep ==
  ASSUME BrainInv, Throw
  PROVE  BrainInv'
<1>1. /\ step' = "failed" /\ step # "done"
      /\ UNCHANGED <<enabled, draft, recovered, done, says, composed, calls, repairs,
                     history, paused, reply, verdict>>
      /\ step \notin {"interpret", "chat"}
  BY DEF Throw, Heard
<1>2. BrainTypeOK'
  BY <1>1 DEF BrainInv, BrainTypeOK
<1>3. Spent'
  BY <1>1 DEF BrainInv, Spent, Reading, Open
<1>4. Remembered' /\ Told'
  BY <1>1 DEF Remembered, Told, Open
<1>5. Guarded'
  BY <1>1 DEF BrainInv, Guarded, Reading, Allowed
<1> QED BY <1>2, <1>3, <1>4, <1>5 DEF BrainInv

-----------------------------------------------------------------------------
(* Theorems *)

\* The parts of a reply keep their types, and what a path spends, remembers, has
\* guarded and tells goes along with where it is.
THEOREM BrainInvariant == Spec => []BrainInv
<1>1. BrainInv /\ [Next]_vars => BrainInv'
  <2> SUFFICES ASSUME BrainInv, [Next]_vars PROVE BrainInv'
    OBVIOUS
  <2>1. CASE UNCHANGED vars
    BY <2>1 DEF vars, BrainInv, BrainTypeOK, Spent, Remembered, Guarded, Told,
                Reading, Open, Allowed
  <2>2. CASE Interpret \/ SkipInterpretation \/ Chat \/ DeliverWorkflow
    BY <2>2, WritingsAreTexts, OutcomesAreConsistent, ReadingSteps
  <2>3. CASE Adopt \/ ComposePostCommit \/ RepairDraft \/ FixedAnswer
    BY <2>3, WritingsAreTexts, WordingSteps
  <2>4. CASE AssessCoverage \/ CoverOpenQuestion \/ HandOverUnsupported \/ KeepWorkflow
    BY <2>4, WritingsAreTexts, CoverageSteps
  <2>5. CASE CheckFacts \/ GovernedEmpty \/ ValidateWording \/ ValidateRepair
             \/ FallBack
    BY <2>5, WritingsAreTexts, CheckingSteps
  <2>6. CASE DeliverWording \/ Throw
    BY <2>6, DeliverWordingStep, ThrowStep
  <2> QED BY <2>1, <2>2, <2>3, <2>4, <2>5, <2>6 DEF Next
<1> QED BY <1>1, BrainInit, PTL DEF Spec

\* At most four calls of the model, one of them a repair, on every path through
\* reply() of metaChatBrain.ts, and none when the model is off.
THEOREM BudgetIsKept == Spec => []ModelBudgetKept
<1>1. BrainInv => ModelBudgetKept
  BY DEF BrainInv, BrainTypeOK, Spent, ModelBudgetKept
<1> QED BY <1>1, BrainInvariant, PTL

\* What goes out with leave is what the session remembers having said
\* (replaceLatestAssistantTurns).
THEOREM HistoryIsTold == Spec => []HistoryIsWhatWasSaid
<1>1. BrainInv => HistoryIsWhatWasSaid
  BY DEF BrainInv, Remembered, HistoryIsWhatWasSaid, Allowed
<1> QED BY <1>1, BrainInvariant, PTL

\* No wording of the model that a guard refused reaches the customer, whichever
\* way it was composed (assertReplyMatchesConversationState and the guards of
\* codexLlm.ts).
THEOREM RefusalsHold == Spec => []RefusedStaysUnsent
<1>1. BrainInv => RefusedStaysUnsent
  <2> SUFFICES ASSUME BrainInv, Allowed, reply \in Wording
               PROVE  /\ Grounded(says[reply], done) /\ FollowsKnowledge(says[reply])
                      /\ ~(reply # "draft" /\ "contentless" \in says[reply])
    BY DEF RefusedStaysUnsent
  <2>1. reply = composed /\ composed # "none" /\ FollowsKnowledge(says[reply])
    BY TextsOK DEF BrainInv, Guarded, Allowed
  <2> QED BY <2>1 DEF BrainInv, Guarded
<1> QED BY <1>1, BrainInvariant, PTL

\* The conversation waits for a person exactly when the reply says so
\* (replaceLatestAssistantTurnsAndPauseForCoverage).
THEOREM PauseIsSaid == Spec => []PauseIsTold
<1>1. BrainInv => PauseIsTold
  BY DEF BrainInv, Told, PauseIsTold, Allowed
<1> QED BY <1>1, BrainInvariant, PTL

-----------------------------------------------------------------------------
(* The runner of the model calls (HybridLlm).                              *)
(* RejectsOnlyExhausted needs to know that a direct call has no attempt at *)
(* OpenAI; SkipsUnlessOverlapped that, inside an undisturbed pause, the    *)
(* breaker stands where the quota failure set it and whoever could move it *)
(* is in overlap.                                                          *)

Counted == \A c \in Calls :
  /\ codex[c] = "none" => started[c] = 0
  /\ codex[c] # "none" => started[c] = 1

Shape == \A c \in Calls :
  /\ state[c] = "idle" => openai[c] = "none" /\ codex[c] = "none" /\ ~armed[c]
  /\ state[c] = "direct" => openai[c] = "none"

Undisturbed ==
  now < quotaUntil /\ ~excused =>
    /\ until = quotaUntil
    /\ \A c \in Calls : UnderWay(c) => c \in overlap

LlmInv ==
  /\ LlmTypeOK /\ Counted /\ Shape /\ RejectsOnlyExhausted /\ Undisturbed

LEMMA PauseIsNat == ASSUME LlmAssumption, NEW a PROVE Pause(a) \in Nat
  BY DEF LlmAssumption, Pause

LEMMA LlmInitially == LlmAssumption /\ LlmInit => LlmInv
<1> SUFFICES ASSUME LlmAssumption, LlmInit PROVE LlmInv
  OBVIOUS
<1> USE DEF LlmInit
<1>1. LlmTypeOK
  BY DEF LlmTypeOK, Attempt
<1>2. Counted /\ Shape /\ RejectsOnlyExhausted
  BY DEF Counted, Shape, RejectsOnlyExhausted
<1>3. Undisturbed
  BY DEF Undisturbed
<1> QED BY <1>1, <1>2, <1>3 DEF LlmInv

LEMMA LlmType ==
  ASSUME LlmAssumption, LlmTypeOK, [LlmNext]_llmVars PROVE LlmTypeOK'
<1> USE DEF LlmTypeOK
<1>0. /\ Answer \subseteq Attempt
      /\ {"running", "succeeded", "failed", "ok", "temporary"} \subseteq Attempt
  BY DEF Attempt, Answer
<1>1. CASE UNCHANGED llmVars
  BY <1>1 DEF llmVars, callVars, breakerVars
<1>2. CASE Tick
  BY <1>2 DEF Tick, callVars, breakerVars
<1>3. ASSUME NEW c \in Calls, CallDirect(c) PROVE LlmTypeOK'
  BY <1>3, <1>0 DEF CallDirect, StartFallback, breakerVars
<1>4. ASSUME NEW c \in Calls, CallHedged(c) PROVE LlmTypeOK'
  BY <1>4, <1>0 DEF CallHedged, breakerVars
<1>5. ASSUME NEW c \in Calls, HedgeTimer(c) PROVE LlmTypeOK'
  <2>1. /\ codex' \in [Calls -> Attempt] /\ started' \in [Calls -> Nat]
    BY <1>5, <1>0 DEF HedgeTimer, StartFallback
  <2> QED BY <1>5, <2>1 DEF HedgeTimer, breakerVars
<1>6. ASSUME NEW c \in Calls, OpenAiAnswers(c) \/ CodexAnswers(c) PROVE LlmTypeOK'
  BY <1>6, <1>0 DEF OpenAiAnswers, CodexAnswers, breakerVars
<1>7. ASSUME NEW c \in Calls, OpenAiSucceeds(c) \/ CodexSucceeds(c) PROVE LlmTypeOK'
  <2>1. /\ state' \in [Calls -> {"idle", "direct", "hedged", "resolved", "rejected"}]
        /\ armed' \in [Calls -> BOOLEAN]
    BY <1>7 DEF OpenAiSucceeds, CodexSucceeds, Resolve
  <2>2. CASE OpenAiSucceeds(c)
    BY <2>1, <2>2, <1>0 DEF OpenAiSucceeds
  <2>3. CASE CodexSucceeds(c)
    BY <2>1, <2>3, <1>0 DEF CodexSucceeds, breakerVars
  <2> QED BY <1>7, <2>2, <2>3
<1>8. ASSUME NEW c \in Calls, OpenAiFails(c) PROVE LlmTypeOK'
  <2>1. /\ openai' \in [Calls -> Attempt] /\ armed' \in [Calls -> BOOLEAN]
        /\ now' \in Nat
    BY <1>8, <1>0 DEF OpenAiFails
  <2>2. until' \in Nat
    <3>1. Pause(openai[c]) \in Nat
      BY PauseIsNat
    <3>2. until' = now + Pause(openai[c])
      BY <1>8 DEF OpenAiFails
    <3>3. now \in Nat
      OBVIOUS
    <3> HIDE DEF LlmTypeOK
    <3> QED BY <3>1, <3>2, <3>3
  <2>3. quotaUntil' \in Nat /\ overlap' \subseteq Calls /\ excused' \in BOOLEAN
    <3>1. now + Cooldown \in Nat
      BY DEF LlmAssumption
    <3>2. CASE openai[c] = "quota"
      BY <1>8, <3>1, <3>2 DEF OpenAiFails
    <3>3. CASE openai[c] # "quota"
      BY <1>8, <3>3 DEF OpenAiFails
    <3> QED BY <3>2, <3>3
  <2>4. codex' \in [Calls -> Attempt] /\ started' \in [Calls -> Nat]
    BY <1>8, <1>0 DEF OpenAiFails, StartFallback
  <2>5. state' \in [Calls -> {"idle", "direct", "hedged", "resolved", "rejected"}]
    BY <1>8 DEF OpenAiFails, AfterFailure
  <2> QED BY <2>1, <2>2, <2>3, <2>4, <2>5
<1>9. ASSUME NEW c \in Calls, CodexFails(c) PROVE LlmTypeOK'
  <2>1. state' \in [Calls -> {"idle", "direct", "hedged", "resolved", "rejected"}]
    BY <1>9 DEF CodexFails, AfterFailure
  <2> QED BY <1>9, <2>1, <1>0 DEF CodexFails, breakerVars
<1> QED BY <1>1, <1>2, <1>3, <1>4, <1>5, <1>6, <1>7, <1>8, <1>9 DEF LlmNext, Runs

LEMMA CountedStep ==
  ASSUME LlmTypeOK, Counted, Shape, [LlmNext]_llmVars PROVE Counted'
<1> USE DEF LlmTypeOK, Counted, Attempt, Answer
<1>1. CASE UNCHANGED llmVars
  BY <1>1 DEF llmVars, callVars
<1>2. CASE Tick
  BY <1>2 DEF Tick, callVars
<1>3. ASSUME NEW c \in Calls, CallDirect(c) \/ CallHedged(c) PROVE Counted'
  BY <1>3 DEF CallDirect, CallHedged, StartFallback, Shape
<1>4. ASSUME NEW c \in Calls, HedgeTimer(c) \/ OpenAiFails(c) PROVE Counted'
  BY <1>4 DEF HedgeTimer, OpenAiFails, StartFallback, MayStartFallback
<1>5. ASSUME NEW c \in Calls, OpenAiAnswers(c) \/ OpenAiSucceeds(c) PROVE Counted'
  BY <1>5 DEF OpenAiAnswers, OpenAiSucceeds
<1>6. ASSUME NEW c \in Calls, CodexAnswers(c) \/ CodexSucceeds(c) \/ CodexFails(c)
      PROVE Counted'
  BY <1>6 DEF CodexAnswers, CodexSucceeds, CodexFails
<1> QED BY <1>1, <1>2, <1>3, <1>4, <1>5, <1>6 DEF LlmNext, Runs

LEMMA ShapeStep ==
  ASSUME LlmTypeOK, Shape, RejectsOnlyExhausted, [LlmNext]_llmVars
  PROVE Shape' /\ RejectsOnlyExhausted'
<1> USE DEF LlmTypeOK, Shape, RejectsOnlyExhausted, Settled
<1>1. CASE UNCHANGED llmVars
  BY <1>1 DEF llmVars, callVars
<1>2. CASE Tick
  BY <1>2 DEF Tick, callVars
<1>3. ASSUME NEW c \in Calls, CallDirect(c) \/ CallHedged(c)
      PROVE Shape' /\ RejectsOnlyExhausted'
  BY <1>3 DEF CallDirect, CallHedged, StartFallback
<1>4. ASSUME NEW c \in Calls, HedgeTimer(c) PROVE Shape' /\ RejectsOnlyExhausted'
  <2>1. state[c] # "idle"
    BY <1>4 DEF HedgeTimer
  <2> QED BY <1>4, <2>1 DEF HedgeTimer, StartFallback, MayStartFallback
<1>5. ASSUME NEW c \in Calls, OpenAiAnswers(c) \/ CodexAnswers(c)
      PROVE Shape' /\ RejectsOnlyExhausted'
  BY <1>5 DEF OpenAiAnswers, CodexAnswers
<1>6. ASSUME NEW c \in Calls, OpenAiSucceeds(c) \/ CodexSucceeds(c)
      PROVE Shape' /\ RejectsOnlyExhausted'
  BY <1>6 DEF OpenAiSucceeds, CodexSucceeds, Resolve
<1>7. ASSUME NEW c \in Calls, OpenAiFails(c) PROVE Shape' /\ RejectsOnlyExhausted'
  BY <1>7 DEF OpenAiFails, StartFallback, MayStartFallback, AfterFailure
<1>8. ASSUME NEW c \in Calls, CodexFails(c) PROVE Shape' /\ RejectsOnlyExhausted'
  BY <1>8 DEF CodexFails, AfterFailure
<1> QED BY <1>1, <1>2, <1>3, <1>4, <1>5, <1>6, <1>7, <1>8 DEF LlmNext, Runs

LEMMA UndisturbedStep ==
  ASSUME LlmAssumption, LlmTypeOK, Undisturbed, [LlmNext]_llmVars PROVE Undisturbed'
<1> USE DEF LlmTypeOK, Undisturbed, UnderWay, Answer
<1>1. CASE UNCHANGED llmVars
  BY <1>1 DEF llmVars, callVars, breakerVars
<1>2. CASE Tick
  BY <1>2 DEF Tick, callVars, breakerVars
<1>3. ASSUME NEW c \in Calls, CallDirect(c) PROVE Undisturbed'
  BY <1>3 DEF CallDirect, breakerVars
<1>4. ASSUME NEW c \in Calls, CallHedged(c) PROVE Undisturbed'
  BY <1>4 DEF CallHedged, Tripped, breakerVars
<1>5. ASSUME NEW c \in Calls, HedgeTimer(c) \/ OpenAiAnswers(c) PROVE Undisturbed'
  BY <1>5 DEF HedgeTimer, OpenAiAnswers, breakerVars
<1>6. ASSUME NEW c \in Calls, CodexAnswers(c) \/ CodexSucceeds(c) \/ CodexFails(c)
      PROVE Undisturbed'
  BY <1>6 DEF CodexAnswers, CodexSucceeds, CodexFails, breakerVars
<1>7. ASSUME NEW c \in Calls, OpenAiSucceeds(c) PROVE Undisturbed'
  BY <1>7 DEF OpenAiSucceeds
<1>8. ASSUME NEW c \in Calls, OpenAiFails(c) PROVE Undisturbed'
  <2>1. CASE openai[c] = "quota"
    BY <1>8, <2>1 DEF OpenAiFails, Pause
  <2>2. CASE openai[c] = "temporary"
    BY <1>8, <2>2 DEF OpenAiFails
  <2> QED BY <1>8, <2>1, <2>2 DEF OpenAiFails
<1> QED BY <1>1, <1>2, <1>3, <1>4, <1>5, <1>6, <1>7, <1>8 DEF LlmNext, Runs

LEMMA LlmStep ==
  ASSUME LlmAssumption, LlmInv, [LlmNext]_llmVars PROVE LlmInv'
BY LlmType, CountedStep, ShapeStep, UndisturbedStep DEF LlmInv

\* The strengthened invariant of the runner.
THEOREM LlmInvariant == LlmAssumption /\ LlmSpec => []LlmInv
<1> SUFFICES ASSUME LlmAssumption PROVE LlmSpec => []LlmInv
  OBVIOUS
<1>1. LlmInit => LlmInv
  BY LlmInitially
<1>2. LlmInv /\ [LlmNext]_llmVars => LlmInv'
  BY LlmStep
<1> QED BY <1>1, <1>2, PTL DEF LlmSpec

\* Type correctness of the calls and the breaker.
THEOREM LlmTypeCorrect == LlmAssumption /\ LlmSpec => []LlmTypeOK
BY LlmInvariant, PTL DEF LlmInv

\* However the timer, the failure and late answers interleave, a call makes at
\* most one attempt at the fallback.
THEOREM FallbackStartsOnce == LlmAssumption /\ LlmSpec => []OneFallback
<1>1. LlmInv => OneFallback
  <2> SUFFICES ASSUME LlmInv, NEW c \in Calls PROVE started[c] <= 1
    BY DEF OneFallback
  <2>1. started[c] = 0 \/ started[c] = 1
    BY DEF LlmInv, Counted
  <2> QED BY <2>1
<1> QED BY <1>1, LlmInvariant, PTL

\* A rejected call was rejected by every provider it could use.
THEOREM RejectionIsExhausted == LlmAssumption /\ LlmSpec => []RejectsOnlyExhausted
BY LlmInvariant, PTL DEF LlmInv

\* The pause after a quota failure is only cut short by an overlapping attempt.
THEOREM PauseIsKept == LlmAssumption /\ LlmSpec => SkipsUnlessOverlapped
<1>1. LlmInv /\ [LlmNext]_llmVars =>
        [\A c \in Calls : StartsOpenAi(c) => now >= quotaUntil \/ excused]_llmVars
  <2> SUFFICES ASSUME LlmInv, LlmNext, NEW c \in Calls, StartsOpenAi(c)
               PROVE now >= quotaUntil \/ excused
    OBVIOUS
  <2> USE DEF StartsOpenAi, LlmInv, LlmTypeOK
  <2>1. ASSUME NEW d \in Calls, CallHedged(d) PROVE now >= quotaUntil \/ excused
    BY <2>1 DEF CallHedged, Tripped, Undisturbed
  <2>2. ASSUME NEW d \in Calls, CallDirect(d) \/ Runs(d) PROVE FALSE
    BY <2>2 DEF CallDirect, Runs, HedgeTimer, OpenAiAnswers, CodexAnswers,
                OpenAiSucceeds, OpenAiFails, CodexSucceeds, CodexFails, Answer
  <2>3. ASSUME Tick PROVE FALSE
    BY <2>3 DEF Tick, callVars
  <2> QED BY <2>1, <2>2, <2>3 DEF LlmNext
<1> QED BY <1>1, LlmInvariant, PTL DEF LlmSpec, SkipsUnlessOverlapped
=============================================================================
