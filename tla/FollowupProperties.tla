------------------------- MODULE FollowupProperties -------------------------
(* What the follow-ups of a conversation owe the customer. *)
EXTENDS Followup

\* A job that reached an end (sent, cancelled, failed, shadowed, outcome
\* unknown) never leaves it, whichever worker, however late, still holds a
\* claim on it: releases, recoveries and outcomes race on one row.
EndIsFinal ==
  [][\A j \in Job : status[j] \in Terminal => status'[j] = status[j]]_vars

\* At most one cycle is active, and a cancelled cycle has no open job left
\* that a worker could still claim or send.
CyclesAgree ==
  /\ \A c, d \in Cycle : cycle[c] = "active" /\ cycle[d] = "active" => c = d
  /\ \A j \in Job : cycle[j[1]] = "cancelled" => status[j] \notin Open

\* What departs from one message per stage to a customer who stays silent is paid
\* for by a crash, a failed call, or a lease or claim that ran out: a second
\* message, a try too many (releases count back what claims count up), a send
\* whose answer was lost and that is open again, a cycle cancelled by nobody.
FollowupsArePaidFor ==
  /\ \A j \in Job : accepted[j] <= 1 + faults + stalls
  /\ \A j \in Job : attempt[j] <= MaxAttempts + faults + stalls
  /\ faults = 0 /\ stalls = 0 =>
       /\ \A j \in doubtful :
            \/ status[j] \in Terminal
            \/ \E w \in FollowupWorkers : pc[w] = "ambiguous" /\ j \in HeldBy(w)
       /\ \A c \in Cycle : cycle[c] = "cancelled" =>
            takeovers > 0 \/ (handled >= c /\ written > c)

\* While no lease runs out under its holder, a follow-up leaves only for a
\* claimed job: the turn of the customer's answer cannot cancel it between the
\* last check and the call. Only staff, who take no lease, can.
TurnExcludesFollowup ==
  [][stalls = 0 => \A j \in Job :
       accepted'[j] > accepted[j] => status[j] = "claimed" \/ human = "human"]_vars

\* A due job of an active cycle is settled in the end, though workers crash,
\* leave claims behind or find the conversation busy.
DueJobSettles ==
  \A j \in Job : j \in Due ~> (status[j] \in Terminal \/ cycle[j[1]] # "active")

=============================================================================
