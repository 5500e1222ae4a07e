---------------------------- MODULE SessionMemory ----------------------------
(***************************************************************************)
(* The two copies of a conversation's session: runtime_state in the store, *)
(* and the one DemoChatService keeps in the memory of a worker from one    *)
(* message to the next.  restoreSession takes the stored copy only when    *)
(* the worker has none of its own, while the version a turn commits on is  *)
(* always read from the store.  A session is what it has taken in: how     *)
(* often each message, and which follow-ups.                               *)
(***************************************************************************)
EXTENDS Naturals, FiniteSets

CONSTANTS
  Workers,    \* inbound worker processes
  Messages,   \* 1 .. n, handled in this order
  Followups,  \* the follow-ups that may be sent
  MaxFaults   \* bound: failed turns, restarts and turns of the staff

VARIABLES
  stored,     \* runtime_state and state_version of the conversation
  memory,     \* sessions of each worker's DemoChatService
  turn,       \* the turn each worker is in
  handled,    \* messages marked processed
  faults

vars == <<stored, memory, turn, handled, faults>>

Session == [taken : [Messages -> 0 .. 2], followups : SUBSET Followups]
Fresh == [taken |-> [m \in Messages |-> 0], followups |-> {}]
NoSession == [taken |-> "none"]
Idle == [step |-> "idle", message |-> 0, version |-> 0, again |-> FALSE]

Init ==
  /\ stored = [session |-> Fresh, version |-> 0]
  /\ memory = [w \in Workers |-> NoSession]
  /\ turn = [w \in Workers |-> Idle]
  /\ handled = {}
  /\ faults = 0

Fault == faults < MaxFaults /\ faults' = faults + 1

\* The customer's next message, by the worker that holds the conversation.
IsNext(m) == m \notin handled /\ \A k \in Messages : k < m => k \in handled

\* restoreSession: the stored copy, unless the worker has one.
Restored(w) == IF memory[w] = NoSession THEN stored.session ELSE memory[w]

\* A turn begins with the stored version.  After a day of silence the episode
\* is a new one: what the worker remembers is dropped first.
StartTurn(w) ==
  /\ \A v \in Workers : turn[v] = Idle
  /\ \E m \in Messages, expired \in BOOLEAN :
       /\ IsNext(m)
       /\ memory' = [memory EXCEPT ![w] =
                       IF expired THEN stored.session ELSE Restored(w)]
       /\ turn' = [turn EXCEPT ![w] =
                     [step |-> "restored", message |-> m,
                      version |-> stored.version, again |-> FALSE]]
  /\ UNCHANGED <<stored, handled, faults>>

\* chat(): the session takes the message in, whatever becomes of the turn.
Chat(w) ==
  /\ turn[w].step = "restored"
  /\ memory' = [memory EXCEPT ![w].taken[turn[w].message] =
                  IF @ = 2 THEN 2 ELSE @ + 1]
  /\ turn' = [turn EXCEPT ![w].step = "chatted"]
  /\ UNCHANGED <<stored, handled, faults>>

\* A newer message arrived: the worker forgets, both are handled together.
Supersede(w) ==
  /\ turn[w].step = "chatted" /\ Fault
  /\ memory' = [memory EXCEPT ![w] = NoSession]
  /\ turn' = [turn EXCEPT ![w] = Idle]
  /\ UNCHANGED <<stored, handled>>

\* commitConversationTurn, or commitConversationTurnBlocked when the final gate
\* refuses the reply: the worker's copy replaces the stored one.
CommitTurn(w) ==
  /\ turn[w].step = "chatted" /\ turn[w].version = stored.version
  /\ stored' = [session |-> memory[w], version |-> stored.version + 1]
  /\ handled' = handled \cup {turn[w].message}
  /\ turn' = [turn EXCEPT ![w] = Idle]
  /\ UNCHANGED <<memory, faults>>

\* ConversationStateConflictError: the worker forgets and tries once more; the
\* second conflict fails the turn.
Conflict(w) ==
  /\ turn[w].step = "chatted" /\ turn[w].version # stored.version
  /\ IF turn[w].again
       THEN turn' = [turn EXCEPT ![w] = Idle] /\ UNCHANGED memory
       ELSE /\ memory' = [memory EXCEPT ![w] = stored.session]
            /\ turn' = [turn EXCEPT ![w].step = "restored",
                          ![w].version = stored.version, ![w].again = TRUE]
  /\ UNCHANGED <<stored, handled, faults>>

\* Any other error (the lease was lost, the database failed) ends the turn for
\* a retry; the session stays in memory.
FailTurn(w) ==
  /\ turn[w].step # "idle" /\ Fault
  /\ turn' = [turn EXCEPT ![w] = Idle]
  /\ UNCHANGED <<stored, memory, handled>>

Restart(w) ==
  /\ Fault
  /\ memory' = [memory EXCEPT ![w] = NoSession]
  /\ turn' = [turn EXCEPT ![w] = Idle]
  /\ UNCHANGED <<stored, handled>>

\* FollowupRepository.markSent, in the follow-up worker's process, between the
\* turns: what was sent is added to the stored history.
MarkSent ==
  /\ handled # {} /\ \A w \in Workers : turn[w] = Idle
  /\ \E f \in Followups \ stored.session.followups :
       stored' = [session |-> [stored.session EXCEPT !.followups = @ \cup {f}],
                  version |-> stored.version + 1]
  /\ UNCHANGED <<memory, turn, handled, faults>>

\* The staff take the conversation or give it back: only the version moves.
SetHumanStatus ==
  /\ Fault
  /\ stored' = [stored EXCEPT !.version = @ + 1]
  /\ UNCHANGED <<memory, turn, handled>>

Next ==
  \/ \E w \in Workers :
       \/ StartTurn(w) \/ Chat(w) \/ Supersede(w) \/ CommitTurn(w)
       \/ Conflict(w) \/ FailTurn(w) \/ Restart(w)
  \/ MarkSent \/ SetHumanStatus

Spec == Init /\ [][Next]_vars

\* "The follow-up question was sent and saved in the conversation history"
\* (followupRepository.ts 366): what markSent stored, the turn that answers it
\* does not take out again.
FollowupStaysInHistory ==
  [][stored.session.followups \subseteq stored'.session.followups]_vars
=============================================================================
