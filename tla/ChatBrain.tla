------------------------------ MODULE ChatBrain ------------------------------
(***************************************************************************)
(* One reply of MetaChatBrain (services/metaChatBrain.ts): the message is  *)
(* interpreted by the language model, executed by DemoChatService, worded  *)
(* again, checked, and handed to the processor with a verdict.             *)
(*                                                                         *)
(* What a text says is a set of things (ReplyGuards); what the model       *)
(* writes and what the turn executed are chosen from the constants.  Which *)
(* questions a wording covers beyond the required topics is chosen by the  *)
(* environment.  governCustomerResponse shortens a wording without adding  *)
(* to it and is left out, as are retrieval, traces and logging.            *)
(***************************************************************************)
EXTENDS ReplyGuards

CONSTANTS
  Writings, \* what the model may write
  Outcomes  \* what a turn may leave behind

ASSUME WritingsAreTexts == Writings \subseteq SUBSET Thing
ASSUME OutcomesAreConsistent ==
  Outcomes \subseteq SUBSET Outcome /\ \A done \in Outcomes : Consistent(done)

VARIABLES
  step,      \* where reply() is
  enabled,   \* the language model is configured
  draft,     \* the interpretation carries a draft
  recovered, \* chat() gave up and the turn was recovered
  done,      \* what the turn left behind
  says,      \* what each text says
  composed,  \* the wording at hand, "none" when composition fell back
  calls,     \* logicalModelCalls
  repairs,   \* responseRepairAttempts
  history,   \* the last assistant turn of the session
  paused,    \* the session waits for a person, for coverage
  reply,     \* what reply() returns
  verdict

vars == <<step, enabled, draft, recovered, done, says, composed, calls, repairs,
          history, paused, reply, verdict>>

\* The workflow's answer, the model's three wordings, and the fixed texts: for an
\* empty message, from approved knowledge, for an open question, and the draft
\* with a receipt for the quantity.
Wording == {"draft", "postCommit", "repair"}
Text == {"workflow", "empty", "approved", "open", "receipt"} \cup Wording

Init ==
  /\ step = "interpret" /\ enabled \in BOOLEAN
  /\ draft = FALSE /\ recovered = FALSE /\ done = {} /\ composed = "none"
  /\ says = [t \in Text |-> {}]
  /\ calls = 0 /\ repairs = 0
  /\ history = "none" /\ paused = FALSE
  /\ reply = "none" /\ verdict = "none"

\* The model writes a text; the receipt repeats the draft.
Writes(t, text) == says' = [says EXCEPT ![t] = text]

\* deliver and deliverTurn: whatever led to a text, its own validation decides
\* whether it goes out.
DeliverSaying(t, text) ==
  /\ verdict' = IF Issues(text, done) = {} THEN "allow" ELSE "block"
  /\ says' = [says EXCEPT ![t] = text]
  /\ reply' = t /\ step' = "done"

Deliver(t) == DeliverSaying(t, says[t])

\* Mutant of Remember: the workflow's answer stays in the history.
RememberWorkflow(t) == history' = IF history = "none" THEN t ELSE history
\* replaceLatestAssistantTurns: the session remembers the text in place of the
\* workflow's.
Remember(t) == history' = t

\* Mutant of MayRepair: another repair after one that was refused.
MayRepairTwice == repairs < 2
\* A repair is asked for while none was.
MayRepair == repairs = 0

Repairs == repairs' = repairs + 1 /\ calls' = calls + 1

Heard == <<enabled, draft, recovered, done>>

-----------------------------------------------------------------------------
(* Interpreting and executing *)

\* The model interprets the message with the approved knowledge at hand; what it
\* would look up besides is fetched and the message read again.  A failed call
\* leaves an empty interpretation.
Interpret ==
  /\ step = "interpret" /\ enabled
  /\ calls' = calls + 1
  /\ \/ calls = 0 /\ step' = "interpret" /\ UNCHANGED <<draft, says>>
     \/ step' = "chat" /\ draft' = FALSE /\ UNCHANGED says
     \/ /\ step' = "chat" /\ draft' = TRUE
        /\ \E text \in Writings : Writes("draft", text)
  /\ UNCHANGED <<enabled, recovered, done, composed, repairs, history, paused,
                 reply, verdict>>

SkipInterpretation ==
  /\ step = "interpret" /\ ~enabled
  /\ step' = "chat"
  /\ UNCHANGED <<Heard, says, composed, calls, repairs, history, paused, reply,
                 verdict>>

\* What the workflow answers: of what was done it mentions the quantity and the
\* hand-over; it may leave a required topic out.
WorkflowSays(executed) ==
  {{}, {"offTopic"}} \cup {{c} : c \in executed \cap {"quantity", "handed"}}

\* chat(), or recoverFailedTurn when it throws.
Chat ==
  /\ step = "chat"
  /\ recovered' \in BOOLEAN
  /\ done' \in Outcomes
  /\ \E text \in WorkflowSays(done') : Writes("workflow", text)
  /\ Remember("workflow")
  /\ step' = "route"
  /\ UNCHANGED <<enabled, draft, composed, calls, repairs, paused, reply, verdict>>

\* A recovered turn, a turn without the model, a boundary and a care answer are
\* delivered as the workflow wrote them.
DeliverWorkflow ==
  /\ step = "route"
  /\ Deliver("workflow")
  /\ UNCHANGED <<Heard, composed, calls, repairs, history, paused>>

-----------------------------------------------------------------------------
(* Wording *)

\* Mutant of Adopt: every guard only warns, as those of style do.
AdoptWithWarning ==
  /\ step = "route" /\ enabled /\ ~recovered
  /\ composed' = IF draft THEN "draft" ELSE "none"
  /\ step' \in {"postCommit", "redraft"}
  /\ UNCHANGED <<Heard, says, calls, repairs, history, paused, reply, verdict>>

\* adoptInterpretedDraft: the draft against the state after execution.
Adopt ==
  /\ step = "route" /\ enabled /\ ~recovered
  /\ composed' = IF draft /\ DraftPasses(says["draft"], done) THEN "draft" ELSE "none"
  /\ step' \in {"postCommit", "redraft"}
  /\ UNCHANGED <<Heard, says, calls, repairs, history, paused, reply, verdict>>

\* The turn changed the order: a wording of its own; the adopted draft stands in
\* when the model fails or its wording is refused.
ComposePostCommit ==
  /\ step = "postCommit"
  /\ calls' = calls + 1
  /\ \/ \E text \in Writings :
          /\ PostCommitPasses(text, done)
          /\ Writes("postCommit", text) /\ composed' = "postCommit"
     \/ UNCHANGED <<says, composed>>
  /\ step' = "worded"
  /\ UNCHANGED <<Heard, repairs, history, paused, reply, verdict>>

\* repairInterpretedDraft: a wording that passes its guards, or none.
Repaired(text) ==
  /\ RepairPasses(text, done)
  /\ Writes("repair", text) /\ composed' = "repair"

\* A draft that was refused is repaired.
RepairDraft ==
  /\ step = "redraft"
  /\ IF draft /\ composed = "none"
       THEN /\ Repairs
            /\ \/ \E text \in Writings : Repaired(text)
               \/ UNCHANGED <<says, composed>>
       ELSE UNCHANGED <<says, composed, calls, repairs>>
  /\ step' = "worded"
  /\ UNCHANGED <<Heard, history, paused, reply, verdict>>

\* Nothing was worded: an empty message has its fixed answer, a question about
\* opening the parcel keeps the workflow's.
FixedAnswer ==
  /\ step = "worded" /\ composed = "none"
  /\ \/ Remember("empty") /\ Deliver("empty")
     \/ Deliver("workflow") /\ UNCHANGED history
  /\ UNCHANGED <<Heard, composed, calls, repairs, paused>>

-----------------------------------------------------------------------------
(* Does the answer cover the questions *)

\* assessQuestionCoverage: a text without a required topic is not complete; what
\* else the customer asked may be missing from any.
Complete(text) == "offTopic" \notin text

\* Covered; or one repair is asked for, kept if it covers the questions; or the gap
\* is tolerated, unless it is a required topic or nothing was worded.
AssessCoverage ==
  /\ step = "worded"
  /\ LET at == IF composed = "none" THEN "workflow" ELSE composed
         Gap == IF composed = "none" \/ ~Complete(says[at])
                  THEN "uncovered" ELSE "supported"
     IN  \/ /\ Complete(says[at])
            /\ step' = "supported" /\ UNCHANGED <<says, composed, calls, repairs>>
         \/ /\ composed # "none" /\ MayRepair
            /\ Repairs
            /\ \/ \E text \in Writings :
                    Complete(text) /\ Repaired(text) /\ step' = "supported"
               \/ step' = Gap /\ UNCHANGED <<says, composed>>
         \/ /\ composed = "none" \/ ~MayRepair
            /\ step' = Gap /\ UNCHANGED <<says, composed, calls, repairs>>
  /\ UNCHANGED <<Heard, history, paused, reply, verdict>>

\* questionCoverageFallbackReplies: the chosen quantity, and that a person looks
\* into the question, which stays unanswered.
OpenQuestion(text) ==
  /\ text \ {"offTopic"} = {c \in {"quantity"} : c \in done}

\* The workflow's own answer if it covers the questions, or approved knowledge that
\* does.
CoverFromKnowledge ==
  \/ Complete(says["workflow"]) /\ Deliver("workflow") /\ UNCHANGED history
  \/ /\ Remember("approved")
     /\ \E text \in {{}, {"unsupported"}} : DeliverSaying("approved", text)

\* replaceLatestAssistantTurnsAndPauseForCoverage.
PauseForCoverage ==
  /\ Remember("open") /\ paused' = TRUE
  /\ \E text \in SUBSET {"quantity", "offTopic"} :
       OpenQuestion(text) /\ DeliverSaying("open", text)

\* Mutant of CoverOpenQuestion: paused before approved knowledge is looked up.
PauseThenCover ==
  /\ step = "uncovered"
  /\ \/ CoverFromKnowledge /\ paused' = TRUE
     \/ PauseForCoverage
  /\ UNCHANGED <<Heard, composed, calls, repairs>>

\* A question is open: what is known covers it, or a person takes over.
CoverOpenQuestion ==
  /\ step = "uncovered"
  /\ \/ CoverFromKnowledge /\ UNCHANGED paused
     \/ PauseForCoverage
  /\ UNCHANGED <<Heard, composed, calls, repairs>>

\* A quantity was chosen beside a question no source answers: the draft as the
\* model wrote it, the quantity, and a person.
HandOverUnsupported ==
  /\ step = "supported" /\ composed # "none" /\ "quantity" \in done
  /\ Remember("receipt") /\ paused' = TRUE
  /\ LET written == IF draft THEN "draft" ELSE composed
     IN  DeliverSaying("receipt", says[written] \cup {"quantity"})
  /\ UNCHANGED <<Heard, composed, calls, repairs>>

\* Nothing was worded, or what the workflow had said.
KeepWorkflow ==
  /\ step = "supported"
  /\ composed # "none" => says[composed] = says["workflow"]
  /\ Deliver("workflow")
  /\ UNCHANGED <<Heard, composed, calls, repairs, history, paused>>

-----------------------------------------------------------------------------
(* Checking the wording *)

\* The canonical facts: a claim they do not carry is repaired once, then the
\* workflow's answer is taken.
CheckFacts ==
  /\ step = "supported" /\ composed # "none"
  /\ IF FollowsKnowledge(says[composed])
       THEN /\ step' = "governed"
            /\ UNCHANGED <<says, composed, calls, repairs, reply, verdict>>
       ELSE \/ /\ MayRepair /\ Repairs
               /\ \E text \in Writings : FollowsKnowledge(text) /\ Repaired(text)
               /\ step' = "governed" /\ UNCHANGED <<reply, verdict>>
            \/ MayRepair /\ Repairs /\ Deliver("workflow") /\ UNCHANGED composed
            \/ ~MayRepair /\ Deliver("workflow") /\ UNCHANGED <<composed, calls, repairs>>
  /\ UNCHANGED <<Heard, history, paused>>

\* governCustomerResponse left nothing to say.
GovernedEmpty ==
  /\ step = "governed"
  /\ Deliver("workflow")
  /\ UNCHANGED <<Heard, composed, calls, repairs, history, paused>>

\* The final validation of the wording; what can be mended is, once.
ValidateWording ==
  /\ step = "governed"
  /\ LET issues == Issues(says[composed], done)
     IN  IF issues = {}
           THEN step' = "valid" /\ UNCHANGED <<calls, repairs>>
           ELSE IF Mendable(issues) /\ MayRepair
                  THEN step' = "revised" /\ Repairs
                  ELSE step' = "invalid" /\ UNCHANGED <<calls, repairs>>
  /\ UNCHANGED <<Heard, says, composed, history, paused, reply, verdict>>

\* The repaired wording is validated; without one the issues stand.
ValidateRepair ==
  /\ step = "revised"
  /\ \/ step' = "invalid" /\ UNCHANGED <<says, composed>>
     \/ \E text \in Writings :
          Issues(text, done) = {} /\ Repaired(text) /\ step' = "valid"
  /\ UNCHANGED <<Heard, calls, repairs, history, paused, reply, verdict>>

\* The wording has issues, or does not match the state of the conversation.
FallBack ==
  /\ \/ step = "invalid"
     \/ step = "valid" /\ ~MatchesState(says[composed], done)
  /\ Deliver("workflow")
  /\ UNCHANGED <<Heard, composed, calls, repairs, history, paused>>

DeliverWording ==
  /\ step = "valid" /\ MatchesState(says[composed], done)
  /\ Remember(composed) /\ Deliver(composed)
  /\ UNCHANGED <<Heard, composed, calls, repairs, paused>>

\* The comparison of a rollout, the wording of a replaced turn and the audit of
\* the order may throw: the processor sees no reply.
Throw ==
  /\ step \in {"route", "worded", "uncovered", "supported", "governed", "valid",
              "invalid"}
  /\ step' = "failed"
  /\ UNCHANGED <<Heard, says, composed, calls, repairs, history, paused, reply,
                 verdict>>

Next ==
  \/ Interpret \/ SkipInterpretation \/ Chat \/ DeliverWorkflow
  \/ Adopt \/ ComposePostCommit \/ RepairDraft \/ FixedAnswer
  \/ AssessCoverage \/ CoverOpenQuestion \/ HandOverUnsupported \/ KeepWorkflow
  \/ CheckFacts \/ GovernedEmpty \/ ValidateWording \/ ValidateRepair
  \/ FallBack \/ DeliverWording \/ Throw

Spec == Init /\ [][Next]_vars

-----------------------------------------------------------------------------
(* Properties *)

\* The budget of docs/RESPONSE_REBUILD_STATUS_2026-09-16.md 76-82: at most four
\* calls of the model, one of them a repair, along every path; none when the
\* model is off.
ModelBudgetKept ==
  /\ calls <= 4 /\ repairs <= 1
  /\ ~enabled => calls = 0

Allowed == step = "done" /\ verdict = "allow"

\* What the customer is sent is what the session remembers having said: the next
\* turn reads its questions and offers from there.
HistoryIsWhatWasSaid == Allowed => history = reply

\* No wording of the model goes out that promises what was not done, asks what may
\* not be asked or breaks a rule of claims or prices, whatever draft, repair,
\* post-commit or coverage path it came through.  (The draft inside the receipt
\* of HandOverUnsupported is not looked at again: see README.)
RefusedStaysUnsent ==
  Allowed /\ reply \in Wording =>
    /\ Grounded(says[reply], done)
    /\ FollowsKnowledge(says[reply])
    /\ ~(reply # "draft" /\ "contentless" \in says[reply])

\* The conversation is left to a person exactly when the customer is told so.
PauseIsTold == Allowed => (paused <=> reply \in {"open", "receipt"})
=============================================================================
