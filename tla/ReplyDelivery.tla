--------------------------- MODULE ReplyDelivery ---------------------------
(***************************************************************************)
(* What dispatching a committed reply promises while workers neither crash *)
(* nor lose their lease: each turn plans one reply, Meta accepts its parts *)
(* in order, each once, and nothing after a part whose outcome is unknown. *)
(* A reply may stop short (takeover, newer message, rejection).            *)
(***************************************************************************)
EXTENDS Naturals

CONSTANTS Turns, MaxParts

VARIABLES
  parts,    \* per turn: parts of its reply, 0 while there is none
  copies,   \* per turn and part: how often it was accepted
  halted    \* per turn: the outcome of a part is unknown

vars == <<parts, copies, halted>>

Init ==
  /\ parts = [t \in Turns |-> 0]
  /\ copies = [t \in Turns |-> [p \in 1..MaxParts |-> 0]]
  /\ halted = [t \in Turns |-> FALSE]

PlanReply(t) ==
  /\ parts[t] = 0
  /\ \E n \in 1..MaxParts : parts' = [parts EXCEPT ![t] = n]
  /\ UNCHANGED <<copies, halted>>

IsNext(t, p) ==
  /\ p <= parts[t] /\ copies[t][p] = 0
  /\ \A q \in 1..(p - 1) : copies[t][q] = 1

Deliver(t) ==
  /\ ~halted[t]
  /\ \E p \in 1..MaxParts :
       IsNext(t, p) /\ copies' = [copies EXCEPT ![t][p] = 1]
  /\ UNCHANGED <<parts, halted>>

\* The next part was sent and the answer lost.
Doubt(t) ==
  /\ ~halted[t]
  /\ halted' = [halted EXCEPT ![t] = TRUE]
  /\ \E p \in 1..MaxParts :
       /\ IsNext(t, p)
       /\ copies' \in {copies, [copies EXCEPT ![t][p] = 1]}
  /\ UNCHANGED parts

Next == \E t \in Turns : PlanReply(t) \/ Deliver(t) \/ Doubt(t)

Spec == Init /\ [][Next]_vars
=============================================================================
