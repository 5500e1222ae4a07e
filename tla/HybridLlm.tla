------------------------------ MODULE HybridLlm ------------------------------
(***************************************************************************)
(* createHybridRunner (services/codexLlm.ts): the model calls of one       *)
(* process, each served by OpenAI with the Codex CLI as a hedge.           *)
(*                                                                         *)
(* A call is a closure (settled, fallbackStarted, ...); all the calls      *)
(* share one number, openAiDisabledUntil, the circuit breaker. An attempt  *)
(* that has its answer first writes telemetry and awaits it, and only then *)
(* moves the breaker and settles its call, so an answer is two steps here, *)
(* and an attempt whose call was settled by the other provider goes on and *)
(* moves the breaker too.                                                  *)
(*                                                                         *)
(* Abstracted: prompts and outputs; the hedge delay (the timer may fire at *)
(* any moment of the call). Failures are of two sorts, the ones            *)
(* onPrimaryFailure tells apart. The health snapshot is left out.          *)
(***************************************************************************)
EXTENDS Naturals

CONSTANTS
  Calls,       \* calls of the runner
  HasOpenAi,   \* an API key or a runner for OpenAI is configured
  Cooldown,    \* cooldownMs
  Temporary,   \* the 30 s of a failure that is neither quota nor key
  MaxTime      \* bound: ticks of the clock

ASSUME LlmAssumption ==
  /\ HasOpenAi \in BOOLEAN
  /\ Cooldown \in Nat /\ Temporary \in Nat /\ MaxTime \in Nat

VARIABLES
  now,         \* Date.now()
  until,       \* openAiDisabledUntil
  state,       \* per call: not begun, in progress (on one or two providers), settled
  openai,      \* per call: the attempt at the primary
  codex,       \* per call: the attempt at the fallback
  armed,       \* per call: the hedge timer is pending
  started,     \* history: per call, attempts at the fallback
  quotaUntil,  \* history: end of the pause the last quota or key failure asked for
  overlap,     \* history: calls with an attempt at OpenAI under way at that failure
  excused      \* history: one of them has moved the breaker since

callVars == <<state, openai, codex, armed, started>>
breakerVars == <<until, quotaUntil, overlap, excused>>
llmVars == <<now, callVars, breakerVars>>

Answer == {"ok", "quota", "temporary"}  \* known, telemetry awaited
Attempt == {"none", "running", "succeeded", "failed"} \cup Answer

\* Every variable has its type.
LlmTypeOK ==
  /\ now \in Nat /\ until \in Nat /\ quotaUntil \in Nat
  /\ state \in [Calls -> {"idle", "direct", "hedged", "resolved", "rejected"}]
  /\ openai \in [Calls -> Attempt] /\ codex \in [Calls -> Attempt]
  /\ armed \in [Calls -> BOOLEAN]
  /\ started \in [Calls -> Nat]
  /\ overlap \subseteq Calls
  /\ excused \in BOOLEAN

LlmInit ==
  /\ now = 0 /\ until = 0 /\ quotaUntil = 0
  /\ state = [c \in Calls |-> "idle"]
  /\ openai = [c \in Calls |-> "none"]
  /\ codex = [c \in Calls |-> "none"]
  /\ armed = [c \in Calls |-> FALSE]
  /\ started = [c \in Calls |-> 0]
  /\ overlap = {} /\ excused = FALSE

Settled(c) == state[c] \in {"resolved", "rejected"}
UnderWay(c) == openai[c] \in {"running"} \cup Answer
Tripped == now < until

\* Mutant: a failed quota pauses OpenAI no longer than any other failure.
AlwaysTemporary(answer) == IF Cooldown < Temporary THEN Cooldown ELSE Temporary
\* The pause onPrimaryFailure asks for.
Pause(answer) ==
  IF answer = "quota" \/ Cooldown < Temporary THEN Cooldown ELSE Temporary

\* Mutants: the first failure rejects; nobody rejects.
FirstFailure(primary, fallback) == "rejected"
NeverRejects(primary, fallback) == "hedged"
\* rejectIfExhausted, with what is known of the two attempts.
AfterFailure(primary, fallback) ==
  IF primary = "failed" /\ fallback = "failed" THEN "rejected" ELSE "hedged"

\* Mutant: the timer and the failure may each start one.
StartsAgain(c) == ~Settled(c)
MayStartFallback(c) == ~Settled(c) /\ codex[c] = "none"

-----------------------------------------------------------------------------
(* A call *)

StartFallback(c) ==
  /\ codex' = [codex EXCEPT ![c] = "running"]
  /\ started' = [started EXCEPT ![c] = @ + 1]

\* No OpenAI, or the breaker is open: the fallback alone.
CallDirect(c) ==
  /\ state[c] = "idle"
  /\ ~HasOpenAi \/ Tripped
  /\ state' = [state EXCEPT ![c] = "direct"]
  /\ StartFallback(c)
  /\ UNCHANGED <<now, openai, armed, breakerVars>>

CallHedged(c) ==
  /\ state[c] = "idle"
  /\ HasOpenAi /\ ~Tripped
  /\ state' = [state EXCEPT ![c] = "hedged"]
  /\ openai' = [openai EXCEPT ![c] = "running"]
  /\ armed' = [armed EXCEPT ![c] = TRUE]
  /\ UNCHANGED <<now, codex, started, breakerVars>>

HedgeTimer(c) ==
  /\ armed[c]
  /\ armed' = [armed EXCEPT ![c] = FALSE]
  /\ IF MayStartFallback(c) THEN StartFallback(c) ELSE UNCHANGED <<codex, started>>
  /\ UNCHANGED <<now, state, openai, breakerVars>>

\* runHybridAttempt has the provider's answer; its telemetry is being written.
\* Both runners end by themselves: the client of OpenAI by its timeout and one
\* retry, the CLI by its timer.
OpenAiAnswers(c) ==
  /\ openai[c] = "running"
  /\ \E answer \in Answer : openai' = [openai EXCEPT ![c] = answer]
  /\ UNCHANGED <<now, state, codex, armed, started, breakerVars>>

CodexAnswers(c) ==
  /\ codex[c] = "running"
  /\ \E answer \in {"ok", "temporary"} : codex' = [codex EXCEPT ![c] = answer]
  /\ UNCHANGED <<now, state, openai, armed, started, breakerVars>>

-----------------------------------------------------------------------------
(* The telemetry is written, or its failure is swallowed *)

Resolve(c) ==
  /\ state' = [state EXCEPT ![c] = IF Settled(c) THEN @ ELSE "resolved"]
  /\ armed' = [armed EXCEPT ![c] = @ /\ Settled(c)]

OpenAiSucceeds(c) ==
  /\ openai[c] = "ok"
  /\ openai' = [openai EXCEPT ![c] = "succeeded"]
  /\ until' = 0
  /\ excused' = (excused \/ c \in overlap)
  /\ Resolve(c)
  /\ UNCHANGED <<now, codex, started, quotaUntil, overlap>>

OpenAiFails(c) ==
  /\ openai[c] \in {"quota", "temporary"}
  /\ openai' = [openai EXCEPT ![c] = "failed"]
  /\ until' = now + Pause(openai[c])
  /\ IF openai[c] = "quota"
     THEN /\ quotaUntil' = now + Cooldown
          /\ overlap' = {d \in Calls \ {c} : UnderWay(d)}
          /\ excused' = FALSE
     ELSE /\ excused' = (excused \/ c \in overlap)
          /\ UNCHANGED <<quotaUntil, overlap>>
  /\ armed' = [armed EXCEPT ![c] = FALSE]
  /\ IF MayStartFallback(c) THEN StartFallback(c) ELSE UNCHANGED <<codex, started>>
  /\ state' = [state EXCEPT ![c] =
                 IF Settled(c) THEN @ ELSE AfterFailure("failed", codex[c])]
  /\ UNCHANGED now

CodexSucceeds(c) ==
  /\ codex[c] = "ok"
  /\ codex' = [codex EXCEPT ![c] = "succeeded"]
  /\ Resolve(c)
  /\ UNCHANGED <<now, openai, started, breakerVars>>

\* A direct call has no other provider left: HybridLlmError.
CodexFails(c) ==
  /\ codex[c] = "temporary"
  /\ codex' = [codex EXCEPT ![c] = "failed"]
  /\ state' = [state EXCEPT ![c] =
                 CASE Settled(c) -> @
                   [] @ = "direct" -> "rejected"
                   [] OTHER -> AfterFailure(openai[c], "failed")]
  /\ UNCHANGED <<now, openai, armed, started, breakerVars>>

Tick ==
  /\ now < MaxTime
  /\ now' = now + 1
  /\ UNCHANGED <<callVars, breakerVars>>

Runs(c) ==
  \/ HedgeTimer(c) \/ OpenAiAnswers(c) \/ CodexAnswers(c)
  \/ OpenAiSucceeds(c) \/ OpenAiFails(c) \/ CodexSucceeds(c) \/ CodexFails(c)

LlmNext == Tick \/ \E c \in Calls : CallDirect(c) \/ CallHedged(c) \/ Runs(c)

LlmSpec == LlmInit /\ [][LlmNext]_llmVars

\* Timers fire, providers answer within their timeouts, and the store answers
\* a telemetry write. Nothing forces a call to be made, nor the clock.
FairSpec == LlmSpec /\ \A c \in Calls :
  /\ WF_llmVars(HedgeTimer(c))
  /\ WF_llmVars(OpenAiAnswers(c)) /\ WF_llmVars(CodexAnswers(c))
  /\ WF_llmVars(OpenAiSucceeds(c)) /\ WF_llmVars(OpenAiFails(c))
  /\ WF_llmVars(CodexSucceeds(c)) /\ WF_llmVars(CodexFails(c))

-----------------------------------------------------------------------------
(* Properties *)

\* The timer and the primary's failure race to start the fallback, and so may
\* a failure that comes after the call was settled: never twice.
OneFallback == \A c \in Calls : started[c] <= 1

\* A call is rejected only when nothing can answer it any more: no attempt has
\* an answer that is being recorded, or may still get one.
RejectsOnlyExhausted ==
  \A c \in Calls : state[c] = "rejected" =>
    /\ codex[c] = "failed"
    /\ openai[c] \in {"none", "failed"}

\* Whatever the providers do, each in its own time, a call that was made is
\* settled: a turn of the bot never waits for the model for ever.
EveryCallSettles ==
  \A c \in Calls : (state[c] # "idle") ~> Settled(c)

StartsOpenAi(c) == openai[c] = "none" /\ openai'[c] = "running"

\* After a quota or key failure OpenAI is left alone for the whole pause,
\* unless an attempt that was already under way at that failure ends inside it
\* and moves the breaker.
SkipsUnlessOverlapped ==
  [][\A c \in Calls : StartsOpenAi(c) => now >= quotaUntil \/ excused]_llmVars
=============================================================================
