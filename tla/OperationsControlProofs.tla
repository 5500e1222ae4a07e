----------------------- MODULE OperationsControlProofs -----------------------
(***************************************************************************)
(* Theorems about OperationsControl, for any requests, processes and       *)
(* faults.                                                                 *)
(*                                                                         *)
(* Everything rests on one request at a time (OneRestart).  The remembered *)
(* address is Meta's because a request that records one has found it       *)
(* remembered already or has just given it to Meta, and no tunnel is up    *)
(* but the last one and those a restart spared (WebhookKnown).  Those at   *)
(* work hold the lease or have lost it (WorkersHoldLease).  The process a  *)
(* request started lives because, of a kind nothing disturbed, ps found    *)
(* all that lived, they ended before it was started, and each freed its    *)
(* lease in ending (Replaced).                                             *)
(***************************************************************************)
EXTENDS OperationsControl, FiniteSetTheorems, TLAPS

InWebhook == {"callback", "subscribe", "record", "caught"}

\* Where a request stands with the address it works on.
WebhookKnown ==
  /\ up \subseteq spared \cup {tunnels}
  /\ env <= tunnels /\ redis <= tunnels
  /\ RecordedUrlIsRegistered
  /\ \A r \in Requests :
       /\ url[r] <= tunnels
       /\ pc[r] \notin InWebhook => tries[r] = 0
       /\ pc[r] = "probe" => url[r] \in {env, redis}
       /\ pc[r] = "callback" => url[r] = tunnels /\ tries[r] <= 2
       /\ pc[r] \in {"subscribe", "record"} =>
            IF tries[r] = 0 THEN url[r] \in {env, redis} ELSE callback = url[r]

\* A process at work holds the lease of its consumer or has lost it.
WorkersHoldLease ==
  \A k \in Workers, p \in Process :
    proc[k][p] \in {"running", "stopping"} => lease[k] = p \/ p \in lost[k]

\* The lease of a kind nothing disturbed is held by one that will free it.
HolderFrees ==
  \A k \in Workers \ disturbed :
    /\ lost[k] = {}
    /\ lease[k] # None => proc[k][lease[k]] \in {"running", "stopping"}

\* How far a request has replaced the processes of a kind nothing disturbed.
InPlace(r) ==
  kind[r] \notin disturbed =>
    /\ pc[r] \in {"stop", "spawn"} => Alive(kind[r]) \subseteq targets[r]
    /\ pc[r] = "ready" => /\ fresh[r] \in Process
                          /\ Alive(kind[r]) \subseteq {fresh[r]}
                          /\ FreshLives(r)

Replaced == HolderFrees /\ \A r \in Requests : InPlace(r)

OpsInv ==
  OpsTypeOK /\ OneRestart /\ WebhookKnown /\ WorkersHoldLease /\ Replaced

-----------------------------------------------------------------------------
(* Types *)

LEMMA OpsInit == OpsAssumption /\ Init => OpsInv
<1> SUFFICES ASSUME OpsAssumption, Init PROVE OpsInv
  OBVIOUS
<1> USE DEF Init, OpsAssumption, None, Process, Workers, Kinds, Running
<1>1. OpsTypeOK
  <2>1. 1 \in Process
    OBVIOUS
  <2>2. proc \in [Kinds -> [Process -> Life]]
    BY DEF Life
  <2>3. lease \in [Workers -> Process \cup {None}] /\ beat \in [Workers -> SUBSET Requests]
    BY <2>1
  <2>4. /\ pc \in [Requests -> Running \cup {"idle", "busy", "done", "failed"}]
        /\ kind \in [Requests -> Kinds] /\ targets \in [Requests -> SUBSET Process]
        /\ fresh \in [Requests -> Process \cup {None}]
        /\ down \in [Requests -> BOOLEAN] /\ url \in [Requests -> Nat]
        /\ tries \in [Requests -> 0..3]
    OBVIOUS
  <2>5. /\ restarting \in BOOLEAN /\ disturbed \subseteq Kinds
        /\ lost \in [Workers -> SUBSET Process]
    OBVIOUS
  <2>6. /\ faults \in 0..MaxFaults
        /\ up \subseteq Nat /\ spared \subseteq Nat /\ tunnels \in Nat
        /\ env \in Nat /\ redis \in Nat /\ callback \in Nat
    OBVIOUS
  <2> QED BY <2>2, <2>3, <2>4, <2>5, <2>6 DEF OpsTypeOK, Life
<1>2. OneRestart /\ WebhookKnown /\ WorkersHoldLease
  BY DEF OneRestart, InProgress, Running, WebhookKnown, RecordedUrlIsRegistered,
         WorkersHoldLease, InWebhook
<1>3. Replaced
  BY DEF Replaced, HolderFrees, InPlace
<1> QED BY <1>1, <1>2, <1>3 DEF OpsInv

\* What the end of a process step does to the request.
LEMMA EndStepType ==
  ASSUME OpsTypeOK, NEW r \in Requests, NEW b \in BOOLEAN, EndStep(r, b)
  PROVE  /\ pc' \in [Requests -> Running \cup {"idle", "busy", "done", "failed"}]
         /\ kind' \in [Requests -> Kinds] /\ targets' \in [Requests -> SUBSET Process]
         /\ fresh' \in [Requests -> Process \cup {None}]
         /\ down' \in [Requests -> BOOLEAN]
         /\ url' = url /\ tries' = tries
  BY DEF OpsTypeOK, EndStep, NextKind, Last, Running, Kinds

\* The answer of a request leaves every type as it was.
LEMMA AnswerType ==
  ASSUME OpsTypeOK, NEW r \in Requests, NEW a \in {"done", "failed"}, Answer(r, a)
  PROVE  /\ pc' \in [Requests -> Running \cup {"idle", "busy", "done", "failed"}]
         /\ restarting' \in BOOLEAN /\ url' \in [Requests -> Nat]
         /\ tries' \in [Requests -> 0..3] /\ beat' \in [Workers -> SUBSET Requests]
<1> USE DEF OpsTypeOK, Answer, FlagAfter
<1>1. pc' \in [Requests -> Running \cup {"idle", "busy", "done", "failed"}]
  OBVIOUS
<1>2. restarting' \in BOOLEAN /\ beat' \in [Workers -> SUBSET Requests]
  OBVIOUS
<1>3. url' \in [Requests -> Nat] /\ tries' \in [Requests -> 0..3]
  BY DEF None
<1> QED BY <1>1, <1>2, <1>3

LEMMA OpsType ==
  ASSUME OpsAssumption, OpsTypeOK, WebhookKnown, [Next]_vars PROVE OpsTypeOK'
<1> USE DEF OpsTypeOK, None
<1>1. CASE UNCHANGED vars
  BY <1>1 DEF vars, requestVars, processVars, webVars, history
<1>2. ASSUME NEW r \in Requests, Busy(r) \/ Begin(r) PROVE OpsTypeOK'
  BY <1>2 DEF Busy, Begin, processVars, webVars, history, Running
<1>3. ASSUME NEW r \in Requests, ListProcesses(r) PROVE OpsTypeOK'
  <2>1. Marked(kind[r]) \subseteq Process
    BY DEF Marked, Alive
  <2>2. PICK seen \in SUBSET Process :
          /\ targets' = [targets EXCEPT ![r] = seen]
          /\ disturbed' \in {disturbed, disturbed \cup {kind[r]}}
          /\ UNCHANGED faults \/ Fault
    BY <1>3, <2>1 DEF ListProcesses
  <2>3. faults' \in 0..MaxFaults
    BY <2>2 DEF Fault, OpsAssumption
  <2> QED BY <1>3, <2>2, <2>3 DEF ListProcesses, processVars, webVars, Running
<1>4. ASSUME NEW r \in Requests, Terminate(r) PROVE OpsTypeOK'
  <2>1. proc' \in [Kinds -> [Process -> Life]] /\ disturbed' \subseteq Kinds
    BY <1>4 DEF Terminate
  <2>2. CASE EndStep(r, TRUE)
    BY <1>4, <2>1, <2>2, EndStepType DEF Terminate, webVars
  <2>3. CASE ~EndStep(r, TRUE)
    <3>1. /\ pc' = [pc EXCEPT ![r] = "spawn"]
          /\ UNCHANGED <<kind, targets, fresh, down, url, tries>>
          /\ UNCHANGED <<restarting, lease, beat, webVars, lost, faults>>
      BY <1>4, <2>3 DEF Terminate
    <3> QED BY <2>1, <3>1 DEF webVars, Running
  <2> QED BY <2>2, <2>3
<1>5. ASSUME NEW r \in Requests, KillLate(r) \/ Spawn(r) PROVE OpsTypeOK'
  <2>1. CASE KillLate(r)
    <3>1. proc' \in [Kinds -> [Process -> Life]]
      BY <2>1 DEF KillLate, Life
    <3> QED BY <2>1, <3>1 DEF KillLate, requestVars, webVars, Life
  <2>2. CASE Spawn(r)
    <3>1. PICK p \in Process : /\ proc' = [proc EXCEPT ![kind[r]][p] = "booting"]
                               /\ fresh' = [fresh EXCEPT ![r] = p]
      BY <2>2 DEF Spawn
    <3>2. proc' \in [Kinds -> [Process -> Life]]
      BY <3>1 DEF Life
    <3> QED BY <2>2, <3>1, <3>2 DEF Spawn, webVars, history, Running
  <2> QED BY <1>5, <2>1, <2>2
<1>6. ASSUME NEW r \in Requests, SpawnFails(r) \/ IsReady(r) \/ NotReady(r)
      PROVE OpsTypeOK'
  <2>1. PICK b \in BOOLEAN : EndStep(r, b)
    BY <1>6 DEF SpawnFails, IsReady, NotReady
  <2> QED BY <1>6, <2>1, EndStepType DEF SpawnFails, IsReady, NotReady, processVars, webVars,
                                     history
<1>7. ASSUME NEW r \in Requests,
             ReadUrl(r) \/ Probe(r) \/ RestartTunnel(r) \/ Subscribe(r)
      PROVE OpsTypeOK'
  <2> USE DEF Goto, Keep, history, Running
  <2>1. CASE ReadUrl(r)
    BY <2>1 DEF ReadUrl, webVars
  <2>2. CASE Probe(r)
    BY <2>2 DEF Probe, KeepLocals, webVars
  <2>3. CASE RestartTunnel(r)
    <3>1. Goto(r, "callback") \/ Goto(r, "caught")
      BY <2>3 DEF RestartTunnel
    <3>2. PICK unseen \in SUBSET up :
            /\ spared' = spared \cup unseen
            /\ UNCHANGED faults \/ Fault
            /\ \/ /\ tunnels' = tunnels + 1 /\ up' = unseen \cup {tunnels + 1}
                  /\ url' = [url EXCEPT ![r] = tunnels + 1]
               \/ up' = unseen /\ UNCHANGED <<tunnels, url>>
      BY <2>3 DEF RestartTunnel
    <3>3. /\ up' \subseteq Nat /\ spared' \subseteq Nat
          /\ tunnels' \in Nat /\ url' \in [Requests -> Nat]
      <4>1. spared' \subseteq Nat
        BY <3>2
      <4>2. CASE /\ tunnels' = tunnels + 1 /\ up' = unseen \cup {tunnels + 1}
                 /\ url' = [url EXCEPT ![r] = tunnels + 1]
        <5>1. tunnels + 1 \in Nat
          OBVIOUS
        <5>2. up' \subseteq Nat
          BY <4>2, <5>1
        <5> QED BY <4>1, <4>2, <5>1, <5>2
      <4>3. CASE up' = unseen /\ UNCHANGED <<tunnels, url>>
        BY <4>1, <4>3
      <4> QED BY <3>2, <4>2, <4>3
    <3>4. faults' \in 0..MaxFaults
      BY <3>2 DEF Fault, OpsAssumption
    <3> QED BY <2>3, <3>1, <3>3, <3>4 DEF RestartTunnel
  <2>4. CASE Subscribe(r)
    BY <2>4 DEF Subscribe, KeepLocals, webVars
  <2> QED BY <1>7, <2>1, <2>2, <2>3, <2>4
<1>8. ASSUME NEW r \in Requests, ReadFails(r) \/ Caught(r) PROVE OpsTypeOK'
  <2>1. PICK a \in {"done", "failed"} : Answer(r, a)
    BY <1>8 DEF ReadFails, Caught
  <2> QED BY <1>8, <2>1, AnswerType DEF ReadFails, Caught, Keep, webVars, history
<1>9. ASSUME NEW r \in Requests, UpdateCallback(r) PROVE OpsTypeOK'
  <2>1. tries[r] \in 0..2
    BY <1>9 DEF UpdateCallback, WebhookKnown
  <2>2. tries' \in [Requests -> 0..3]
    BY <1>9, <2>1 DEF UpdateCallback
  <2>3. pc' \in [Requests -> Running \cup {"idle", "busy", "done", "failed"}]
    BY <1>9 DEF UpdateCallback, AttemptsLeft, Goto, Running
  <2> QED BY <1>9, <2>2, <2>3 DEF UpdateCallback, Goto, Keep, history
<1>10. ASSUME NEW r \in Requests, Record(r) PROVE OpsTypeOK'
  <2>1. CASE Answer(r, "done")
    BY <1>10, <2>1, AnswerType DEF Record, Keep, history
  <2>2. CASE ~Answer(r, "done")
    <3>1. Goto(r, "caught") /\ KeepLocals /\ redis' \in {redis, url[r]} /\ UNCHANGED down
      BY <1>10, <2>2 DEF Record
    <3> QED BY <1>10, <3>1 DEF Record, Goto, Keep, KeepLocals, Running, history
  <2> QED BY <2>1, <2>2
<1>11. ASSUME NEW k \in Kinds, NEW p \in Process, Lives(k, p) PROVE OpsTypeOK'
  <2>1. CASE Boot(k, p)
    <3>1. proc' \in [Kinds -> [Process -> Life]]
      <4>1. PICK l \in Life : proc' = [proc EXCEPT ![k][p] = l]
        BY <2>1 DEF Boot, Life
      <4> QED BY <4>1
    <3>2. lease' \in [Workers -> Process \cup {None}]
      BY <2>1 DEF Boot
    <3> QED BY <2>1, <3>1, <3>2 DEF Boot, requestVars, webVars, history
  <2>2. CASE Stopped(k, p)
    <3>1. proc' \in [Kinds -> [Process -> Life]]
      BY <2>2 DEF Stopped, Life
    <3>2. lease' \in [Workers -> Process \cup {None}]
      BY <2>2 DEF Stopped, Freed, Workers
    <3>3. disturbed' \subseteq Kinds /\ faults' \in 0..MaxFaults
      BY <2>2 DEF Stopped, Fault, OpsAssumption
    <3> QED BY <2>2, <3>1, <3>2, <3>3 DEF Stopped, requestVars, webVars
  <2>3. CASE Crash(k, p)
    <3>1. proc' \in [Kinds -> [Process -> Life]]
      BY <2>3 DEF Crash, Life
    <3>2. lease' \in [Workers -> Process \cup {None}]
      BY <2>3 DEF Crash, LeaseLeft, Workers, Kinds
    <3>3. faults' \in 0..MaxFaults /\ disturbed' \subseteq Kinds
      BY <2>3 DEF Crash, Fault, OpsAssumption
    <3> QED BY <2>3, <3>1, <3>2, <3>3 DEF Crash, requestVars, webVars
  <2>4. CASE k \in Workers /\ Heartbeat(k, p)
    BY <2>4 DEF Heartbeat, InProgress, requestVars, webVars, history
  <2>5. CASE k \in Workers /\ RenewalRefused(k, p)
    <3>1. proc' \in [Kinds -> [Process -> Life]]
      BY <2>5 DEF RenewalRefused, Life
    <3>2. faults' \in 0..MaxFaults /\ disturbed' \subseteq Kinds
      BY <2>5 DEF RenewalRefused, Fault, OpsAssumption
    <3> QED BY <2>5, <3>1, <3>2 DEF RenewalRefused, requestVars, webVars
  <2> QED BY <1>11, <2>1, <2>2, <2>3, <2>4, <2>5 DEF Lives
<1>12. ASSUME NEW k \in Workers, LeaseExpires(k) PROVE OpsTypeOK'
  <2>1. /\ lease[k] \in Process /\ lease' \in [Workers -> Process \cup {None}]
    BY <1>12 DEF LeaseExpires
  <2>2. CASE UNCHANGED <<history, faults>>
    BY <1>12, <2>1, <2>2 DEF LeaseExpires, requestVars, webVars, history
  <2>3. CASE /\ Fault /\ disturbed' = disturbed \cup {k}
             /\ lost' = [lost EXCEPT ![k] = @ \cup {lease[k]}]
    <3>1. lost' \in [Workers -> SUBSET Process]
      BY <2>1, <2>3
    <3>2. disturbed' \subseteq Kinds /\ faults' \in 0..MaxFaults
      BY <2>3 DEF Fault, OpsAssumption, Workers, Kinds
    <3> QED BY <1>12, <2>1, <3>1, <3>2 DEF LeaseExpires, requestVars, webVars
  <2> QED BY <1>12, <2>2, <2>3 DEF LeaseExpires
<1>13. CASE TunnelDies
  BY <1>13 DEF TunnelDies, Fault, requestVars, processVars, history, OpsAssumption
<1> QED
  BY <1>1, <1>2, <1>3, <1>4, <1>5, <1>6, <1>7, <1>8, <1>9, <1>10, <1>11, <1>12, <1>13
     DEF Next, Step

-----------------------------------------------------------------------------
(* One request at a time *)

\* What a step of a request does to the control of requests.
LEMMA StepKeepsOthers ==
  ASSUME OpsTypeOK, NEW r \in Requests, Step(r)
  PROVE  /\ pc[r] \in Running
         /\ \A s \in Requests \ {r} : pc'[s] = pc[s]
         /\ \/ restarting' = restarting /\ pc'[r] \in Running
            \/ restarting' = FALSE /\ pc'[r] \in {"done", "failed"}
<1> USE DEF OpsTypeOK, Running
<1>1. CASE ListProcesses(r) \/ KillLate(r) \/ Spawn(r)
  BY <1>1 DEF ListProcesses, KillLate, Spawn, requestVars
<1>2. CASE Terminate(r) \/ SpawnFails(r) \/ IsReady(r) \/ NotReady(r)
  BY <1>2 DEF Terminate, SpawnFails, IsReady, NotReady, EndStep
<1>3. CASE ReadUrl(r) \/ Probe(r) \/ Subscribe(r)
  BY <1>3 DEF ReadUrl, Probe, Subscribe, Goto
<1>4. CASE RestartTunnel(r) \/ UpdateCallback(r)
  BY <1>4 DEF RestartTunnel, UpdateCallback, Goto
<1>5. CASE ReadFails(r) \/ Caught(r) \/ Record(r)
  BY <1>5 DEF ReadFails, Caught, Record, Remembers, Answer, FlagAfter, Goto
<1> QED BY <1>1, <1>2, <1>3, <1>4, <1>5 DEF Step

LEMMA OneRestartStep ==
  ASSUME OpsTypeOK, OneRestart, [Next]_vars PROVE OneRestart'
<1> USE DEF OneRestart, InProgress
<1>1. CASE UNCHANGED <<restarting, pc>>
  BY <1>1
<1>2. ASSUME NEW r \in Requests, Busy(r) \/ Begin(r) PROVE OneRestart'
  <2>1. CASE Busy(r)
    BY <2>1 DEF Busy, OpsTypeOK, Running
  <2>2. CASE Begin(r)
    BY <2>2 DEF Begin, OpsTypeOK, Running
  <2> QED BY <1>2, <2>1, <2>2
<1>3. ASSUME NEW r \in Requests, Step(r) PROVE OneRestart'
  <2>1. /\ pc[r] \in Running
        /\ \A s \in Requests \ {r} : pc'[s] = pc[s]
        /\ \/ restarting' = restarting /\ pc'[r] \in Running
           \/ restarting' = FALSE /\ pc'[r] \in {"done", "failed"}
    BY <1>3, StepKeepsOthers
  <2>2. InProgress = {r} /\ restarting
    BY <2>1
  <2>3. \A s \in Requests \ {r} : pc'[s] \notin Running
    BY <2>1, <2>2
  <2>4. CASE restarting' = restarting /\ pc'[r] \in Running
    BY <2>2, <2>3, <2>4
  <2>5. CASE restarting' = FALSE /\ pc'[r] \in {"done", "failed"}
    BY <2>3, <2>5 DEF Running
  <2> QED BY <2>1, <2>4, <2>5
<1>4. ASSUME NEW k \in Kinds, NEW p \in Process, Lives(k, p)
      PROVE UNCHANGED <<restarting, pc>>
  BY <1>4 DEF Lives, Boot, Stopped, Crash, Heartbeat, RenewalRefused, requestVars
<1>5. ASSUME NEW k \in Workers, LeaseExpires(k) PROVE UNCHANGED <<restarting, pc>>
  BY <1>5 DEF LeaseExpires, requestVars
<1>6. CASE TunnelDies
  BY <1>1, <1>6 DEF TunnelDies, requestVars
<1>7. CASE UNCHANGED vars
  BY <1>1, <1>7 DEF vars, requestVars
<1> QED BY <1>1, <1>2, <1>3, <1>4, <1>5, <1>6, <1>7 DEF Next

-----------------------------------------------------------------------------
(* The webhook's address *)

\* Nothing that concerns the webhook moves.
LEMMA WebhookUntouched ==
  ASSUME WebhookKnown, UNCHANGED <<webVars, url, tries>>,
         \A r \in Requests : \/ pc'[r] = pc[r]
                             \/ pc'[r] \notin InWebhook \cup {"probe"} /\ tries[r] = 0
  PROVE  WebhookKnown'
  BY DEF WebhookKnown, RecordedUrlIsRegistered, webVars, InWebhook

LEMMA WebhookStep ==
  ASSUME OpsTypeOK, OneRestart, WebhookKnown, [Next]_vars PROVE WebhookKnown'
<1> USE DEF OpsTypeOK
<1>1. CASE UNCHANGED vars
  BY <1>1, WebhookUntouched DEF vars, requestVars
<1>2. ASSUME NEW r \in Requests, Busy(r) \/ Begin(r) PROVE WebhookKnown'
  BY <1>2, WebhookUntouched DEF Busy, Begin, WebhookKnown, InWebhook
<1>3. ASSUME NEW r \in Requests, ListProcesses(r) \/ KillLate(r) \/ Spawn(r)
      PROVE WebhookKnown'
  BY <1>3, WebhookUntouched
     DEF ListProcesses, KillLate, Spawn, requestVars, WebhookKnown, InWebhook
<1>4. ASSUME NEW r \in Requests,
             Terminate(r) \/ SpawnFails(r) \/ IsReady(r) \/ NotReady(r)
      PROVE WebhookKnown'
  <2>1. /\ pc[r] \in {"stop", "spawn", "ready"} /\ UNCHANGED <<webVars, url, tries>>
        /\ \E l \in {"spawn", "read", "list"} : pc' = [pc EXCEPT ![r] = l]
    BY <1>4 DEF Terminate, SpawnFails, IsReady, NotReady, EndStep
  <2>2. tries[r] = 0
    BY <2>1 DEF WebhookKnown, InWebhook
  <2> QED BY <2>1, <2>2, WebhookUntouched DEF InWebhook
<1>5. ASSUME NEW k \in Kinds, NEW p \in Process, Lives(k, p) PROVE WebhookKnown'
  BY <1>5, WebhookUntouched
     DEF Lives, Boot, Stopped, Crash, Heartbeat, RenewalRefused, requestVars
<1>6. ASSUME NEW k \in Workers, LeaseExpires(k) PROVE WebhookKnown'
  BY <1>6, WebhookUntouched DEF LeaseExpires, requestVars
<1>7. CASE TunnelDies
  BY <1>7 DEF TunnelDies, requestVars, WebhookKnown, RecordedUrlIsRegistered
<1>8. ASSUME NEW r \in Requests, ReadUrl(r) PROVE WebhookKnown'
  BY <1>8 DEF ReadUrl, Goto, webVars, WebhookKnown, RecordedUrlIsRegistered, InWebhook
<1>9. ASSUME NEW r \in Requests, Probe(r) PROVE WebhookKnown'
  BY <1>9 DEF Probe, Goto, KeepLocals, webVars, WebhookKnown,
              RecordedUrlIsRegistered, InWebhook
<1>10. ASSUME NEW r \in Requests, Subscribe(r) PROVE WebhookKnown'
  BY <1>10 DEF Subscribe, Goto, KeepLocals, webVars, WebhookKnown,
               RecordedUrlIsRegistered, InWebhook
<1>11. ASSUME NEW r \in Requests, ReadFails(r) \/ Caught(r) PROVE WebhookKnown'
  <2>1. PICK a \in {"done", "failed"} : pc' = [pc EXCEPT ![r] = a]
    BY <1>11 DEF ReadFails, Caught, Answer
  <2>2. /\ UNCHANGED webVars
        /\ url' = [url EXCEPT ![r] = None] /\ tries' = [tries EXCEPT ![r] = 0]
    BY <1>11 DEF ReadFails, Caught, Answer
  <2> QED BY <2>1, <2>2 DEF webVars, WebhookKnown, RecordedUrlIsRegistered, InWebhook, None
<1>12. ASSUME NEW r \in Requests, RestartTunnel(r) PROVE WebhookKnown'
  <2>1. \A s \in Requests \ {r} : pc[s] \notin Running
    BY <1>12 DEF RestartTunnel, OneRestart, InProgress, Running
  <2>2. PICK l \in {"callback", "caught"} : pc' = [pc EXCEPT ![r] = l]
    <3>1. Goto(r, "callback") \/ Goto(r, "caught")
      BY <1>12 DEF RestartTunnel
    <3> QED BY <3>1 DEF Goto
  <2>3. PICK unseen \in SUBSET up :
          /\ spared' = spared \cup unseen
          /\ \/ /\ tunnels' = tunnels + 1 /\ up' = unseen \cup {tunnels + 1}
                /\ url' = [url EXCEPT ![r] = tunnels + 1]
             \/ up' = unseen /\ Goto(r, "caught") /\ UNCHANGED <<tunnels, url>>
    BY <1>12 DEF RestartTunnel
  <2>4. /\ pc[r] = "tunnel" /\ UNCHANGED <<tries, env, redis, callback>>
    BY <1>12 DEF RestartTunnel
  <2>5. /\ up' \subseteq spared' \cup {tunnels'}
        /\ env' <= tunnels' /\ redis' <= tunnels'
    BY <2>3, <2>4 DEF WebhookKnown
  <2>6. RecordedUrlIsRegistered'
    BY <2>3, <2>4 DEF WebhookKnown, RecordedUrlIsRegistered
  <2>7. CASE /\ tunnels' = tunnels + 1 /\ url' = [url EXCEPT ![r] = tunnels + 1]
    BY <2>1, <2>2, <2>4, <2>5, <2>6, <2>7 DEF WebhookKnown, InWebhook, Running, None
  <2>8. CASE Goto(r, "caught") /\ UNCHANGED <<tunnels, url>>
    BY <2>1, <2>4, <2>5, <2>6, <2>8 DEF Goto, WebhookKnown, InWebhook, Running
  <2> QED BY <2>3, <2>7, <2>8
<1>13. ASSUME NEW r \in Requests, UpdateCallback(r) PROVE WebhookKnown'
  <2>1. \A s \in Requests \ {r} : pc[s] \notin Running
    BY <1>13 DEF UpdateCallback, OneRestart, InProgress, Running
  <2>2. /\ url[r] = tunnels /\ tries[r] \in 0..2
        /\ tries' = [tries EXCEPT ![r] = tries[r] + 1]
        /\ UNCHANGED <<url, up, tunnels, spared, env, redis>>
    BY <1>13 DEF UpdateCallback, WebhookKnown
  <2>3. RecordedUrlIsRegistered'
    <3>1. callback' \in {callback, url[r]}
      BY <1>13 DEF UpdateCallback
    <3> QED BY <2>2, <3>1 DEF WebhookKnown, RecordedUrlIsRegistered, None
  <2>4. CASE callback' = url[r] /\ Goto(r, "subscribe")
    BY <2>1, <2>2, <2>3, <2>4 DEF Goto, WebhookKnown, InWebhook, Running
  <2>5. CASE Goto(r, IF AttemptsLeft(r) THEN "callback" ELSE "caught")
    BY <2>1, <2>2, <2>3, <2>5 DEF Goto, AttemptsLeft, WebhookKnown, InWebhook, Running
  <2> QED BY <1>13, <2>4, <2>5 DEF UpdateCallback
<1>14. ASSUME NEW r \in Requests, Record(r) PROVE WebhookKnown'
  <2>1. \A s \in Requests \ {r} : pc[s] \notin Running
    BY <1>14 DEF Record, Remembers, OneRestart, InProgress, Running
  <2>2. /\ url[r] <= tunnels
        /\ IF tries[r] = 0 THEN url[r] \in {env, redis} ELSE callback = url[r]
        /\ env' = IF tries[r] = 0 THEN env ELSE url[r]
        /\ redis' \in {redis, url[r]}
        /\ UNCHANGED <<up, tunnels, spared, callback>>
    BY <1>14 DEF Record, Remembers, WebhookKnown
  <2>3. RecordedUrlIsRegistered' /\ env' <= tunnels' /\ redis' <= tunnels'
    BY <2>2 DEF WebhookKnown, RecordedUrlIsRegistered
  <2>4. CASE Answer(r, "done")
    BY <2>1, <2>2, <2>3, <2>4 DEF Answer, WebhookKnown, InWebhook, Running, None
  <2>5. CASE Goto(r, "caught") /\ KeepLocals
    BY <2>1, <2>2, <2>3, <2>5 DEF Goto, KeepLocals, WebhookKnown, InWebhook, Running
  <2> QED BY <1>14, <2>4, <2>5 DEF Record
<1> QED
  BY <1>1, <1>2, <1>3, <1>4, <1>5, <1>6, <1>7, <1>8, <1>9, <1>10, <1>11, <1>12,
     <1>13, <1>14 DEF Next, Step

-----------------------------------------------------------------------------
(* Processes and their leases *)

\* Signals take a process nowhere but towards its end.
LEMMA SignalledLife ==
  ASSUME NEW k \in Kinds, NEW life \in Life, NEW next \in Signalled(k, life)
  PROVE  /\ next \in Life
         /\ life \in {"none", "dead"} => next \in {"none", "dead"}
         /\ next \in {"running", "stopping"} => life \in {"running", "stopping"}
<1>1. CASE life \in {"none", "dead"}
  BY <1>1 DEF Signalled, Life
<1>2. CASE life \notin {"none", "dead"} /\ k = "gateway"
  BY <1>2 DEF Signalled, Life
<1>3. CASE life = "booting" /\ k # "gateway"
  BY <1>3 DEF Signalled, Life
<1>4. CASE life = "running" /\ k # "gateway"
  BY <1>4 DEF Signalled, Life
<1>5. CASE life \in {"signalled", "stopping"} /\ k # "gateway"
  BY <1>5 DEF Signalled, Life
<1> QED BY <1>1, <1>2, <1>3, <1>4, <1>5 DEF Life

\* What Terminate does to the processes of the kind.
LEMMA TerminateLives ==
  ASSUME OpsTypeOK, NEW r \in Requests, Terminate(r)
  PROVE  \E life \in [Process -> Life] :
           /\ proc' = [proc EXCEPT ![kind[r]] = life]
           /\ \A p \in Process :
                /\ proc[kind[r]][p] \in {"none", "dead"} => life[p] \in {"none", "dead"}
                /\ life[p] \in {"running", "stopping"}
                     => proc[kind[r]][p] \in {"running", "stopping"}
<1>1. PICK hit \in SUBSET Process, life \in [Process -> Life] :
        /\ \A p \in Process :
             IF p \in hit THEN life[p] \in Signalled(kind[r], proc[kind[r]][p])
                         ELSE life[p] = proc[kind[r]][p]
        /\ proc' = [proc EXCEPT ![kind[r]] = life]
  BY DEF Terminate, OpsTypeOK
<1>2. ASSUME NEW p \in Process
      PROVE  /\ proc[kind[r]][p] \in {"none", "dead"} => life[p] \in {"none", "dead"}
             /\ life[p] \in {"running", "stopping"}
                  => proc[kind[r]][p] \in {"running", "stopping"}
  <2>1. kind[r] \in Kinds /\ proc[kind[r]][p] \in Life
    BY DEF OpsTypeOK
  <2>2. CASE p \in hit
    BY <1>1, <2>1, <2>2, SignalledLife
  <2>3. CASE p \notin hit
    BY <1>1, <2>3
  <2> QED BY <2>2, <2>3
<1> QED BY <1>1, <1>2

\* Nobody comes to work and no lease moves.
LEMMA LeaseUntouched ==
  ASSUME WorkersHoldLease, UNCHANGED <<lease, lost>>,
         \A k \in Workers, p \in Process :
           proc'[k][p] \in {"running", "stopping"} => proc[k][p] \in {"running", "stopping"}
  PROVE  WorkersHoldLease'
  BY DEF WorkersHoldLease

\* One process dies, and the lease is left as it was, freed, or taken from
\* nobody for the one that died.
LEMMA LeaseOfTheDead ==
  ASSUME OpsTypeOK, WorkersHoldLease, NEW k \in Workers, NEW p \in Process,
         NEW holder \in {p, None, lease[k]},
         proc' = [proc EXCEPT ![k][p] = "dead"],
         lease' = [lease EXCEPT ![k] = holder], UNCHANGED lost,
         holder # lease[k] => lease[k] \in {p, None}
  PROVE  WorkersHoldLease'
<1>1. None \notin Process
  BY DEF None, Process
<1>2. SUFFICES ASSUME NEW j \in Workers, NEW q \in Process,
                      proc'[j][q] \in {"running", "stopping"}
               PROVE  lease'[j] = q \/ q \in lost[j]
  BY DEF WorkersHoldLease
<1>3. k \in Kinds /\ j \in Kinds
  BY DEF Workers, Kinds
<1>4. CASE j # k
  BY <1>2, <1>3, <1>4 DEF WorkersHoldLease, OpsTypeOK
<1>5. CASE j = k
  <2>1. q # p /\ proc[k][q] \in {"running", "stopping"}
    BY <1>2, <1>3, <1>5 DEF OpsTypeOK
  <2>2. lease[k] = q \/ q \in lost[k]
    BY <2>1 DEF WorkersHoldLease
  <2>3. lease[k] = q => holder = lease[k]
    BY <1>1, <2>1
  <2> QED BY <1>5, <2>2, <2>3 DEF OpsTypeOK
<1> QED BY <1>4, <1>5

LEMMA LeaseStep ==
  ASSUME OpsTypeOK, WorkersHoldLease, [Next]_vars PROVE WorkersHoldLease'
<1> USE DEF OpsTypeOK
<1>1. CASE UNCHANGED <<proc, lease, lost>>
  BY <1>1 DEF WorkersHoldLease
<1>2. ASSUME NEW r \in Requests, Busy(r) \/ Begin(r)
      PROVE  UNCHANGED <<proc, lease, lost>>
  BY <1>2 DEF Busy, Begin, processVars, history
<1>3. ASSUME NEW r \in Requests, Terminate(r) PROVE WorkersHoldLease'
  <2>1. PICK life \in [Process -> Life] :
           /\ proc' = [proc EXCEPT ![kind[r]] = life]
           /\ \A p \in Process : life[p] \in {"running", "stopping"}
                                  => proc[kind[r]][p] \in {"running", "stopping"}
    BY <1>3, TerminateLives
  <2>2. UNCHANGED <<lease, lost>>
    BY <1>3 DEF Terminate
  <2>3. Workers \subseteq Kinds
    BY DEF Workers, Kinds
  <2> QED BY <2>1, <2>2, <2>3, LeaseUntouched
<1>4. ASSUME NEW r \in Requests, KillLate(r) \/ Spawn(r) PROVE WorkersHoldLease'
  <2>1. UNCHANGED <<lease, lost>> /\ Workers \subseteq Kinds
    BY <1>4 DEF KillLate, Spawn, history, Workers, Kinds
  <2>2. \A k \in Kinds, p \in Process :
          proc'[k][p] \in {proc[k][p], "dead", "booting"}
    <3>1. CASE KillLate(r)
      BY <3>1 DEF KillLate
    <3>2. CASE Spawn(r)
      <4>1. PICK p \in Process : proc' = [proc EXCEPT ![kind[r]][p] = "booting"]
        BY <3>2 DEF Spawn
      <4> QED BY <4>1
    <3> QED BY <1>4, <3>1, <3>2
  <2> QED BY <2>1, <2>2, LeaseUntouched
<1>5. ASSUME NEW r \in Requests, Step(r), ~Terminate(r), ~KillLate(r), ~Spawn(r)
      PROVE UNCHANGED <<proc, lease, lost>>
  BY <1>5 DEF Step, ListProcesses, SpawnFails, IsReady, NotReady, ReadUrl, ReadFails,
              Probe, RestartTunnel, UpdateCallback, Subscribe, Record, Caught, Keep,
              processVars, history
<1>6. ASSUME NEW k \in Kinds, NEW p \in Process, Lives(k, p) PROVE WorkersHoldLease'
  <2>0. Workers \subseteq Kinds /\ (k # "gateway" => k \in Workers)
    BY DEF Workers, Kinds
  <2>1. CASE Boot(k, p)
    <3>0. UNCHANGED lost
      BY <2>1 DEF Boot, history
    <3>1. CASE k = "gateway"
      <4>1. UNCHANGED lease /\ \E l \in Life : proc' = [proc EXCEPT !["gateway"][p] = l]
        BY <2>1, <3>1 DEF Boot, Life
      <4>2. \A j \in Workers : proc'[j] = proc[j] /\ lease'[j] = lease[j]
        BY <4>1 DEF Workers
      <4> QED BY <3>0, <4>2 DEF WorkersHoldLease
    <3>2. CASE k # "gateway" /\ LeaseFree(k)
      <4>1. k \in Workers /\ lease[k] = None /\ None \notin Process
        BY <2>0, <3>2 DEF LeaseFree, Process, None
      <4>2. PICK l \in Life : proc' = [proc EXCEPT ![k][p] = l]
        BY <2>1, <3>2 DEF Boot, Life
      <4>3. lease' = [lease EXCEPT ![k] = p]
        BY <2>1, <3>2 DEF Boot
      <4>4. \A q \in Process : proc[k][q] \in {"running", "stopping"} => q \in lost[k]
        BY <4>1 DEF WorkersHoldLease
      <4>5. ASSUME NEW j \in Workers, NEW q \in Process,
                   proc'[j][q] \in {"running", "stopping"}
            PROVE  lease'[j] = q \/ q \in lost[j]
        <5>1. CASE j = k /\ q = p
          BY <4>1, <4>3, <5>1
        <5>2. CASE j = k /\ q # p
          BY <4>1, <4>2, <4>4, <4>5, <5>2
        <5>3. CASE j # k
          BY <2>0, <4>1, <4>2, <4>3, <4>5, <5>3 DEF WorkersHoldLease
        <5> QED BY <5>1, <5>2, <5>3
      <4> QED BY <3>0, <4>5 DEF WorkersHoldLease
    <3>3. CASE k # "gateway" /\ ~LeaseFree(k)
      <4>1. UNCHANGED lease /\ proc' = [proc EXCEPT ![k][p] = "dead"]
        BY <2>1, <3>3 DEF Boot
      <4> QED BY <2>0, <3>0, <4>1, LeaseUntouched
    <3> QED BY <3>1, <3>2, <3>3
  <2>2. CASE Stopped(k, p)
    <3>1. /\ proc' = [proc EXCEPT ![k][p] = "dead"] /\ UNCHANGED lost
          /\ lease' = [lease EXCEPT ![k] = Freed(k, p)] \/ UNCHANGED lease
      BY <2>2 DEF Stopped
    <3>2. CASE k = "gateway"
      <4>1. \A j \in Workers : proc'[j] = proc[j] /\ lease'[j] = lease[j]
        BY <3>1, <3>2 DEF Workers
      <4> QED BY <3>1, <4>1 DEF WorkersHoldLease
    <3>3. CASE k # "gateway"
      <4>1. PICK holder \in {p, None, lease[k]} :
              /\ lease' = [lease EXCEPT ![k] = holder]
              /\ holder # lease[k] => lease[k] = p
        BY <2>0, <3>1, <3>3 DEF Freed
      <4> QED BY <2>0, <3>1, <3>3, <4>1, LeaseOfTheDead
    <3> QED BY <3>2, <3>3
  <2>3. CASE Crash(k, p)
    <3>1. proc' = [proc EXCEPT ![k][p] = "dead"] /\ UNCHANGED lost
      BY <2>3 DEF Crash
    <3>2. CASE k = "gateway"
      <4>1. \A j \in Workers : proc'[j] = proc[j] /\ lease'[j] = lease[j]
        BY <2>3, <3>1, <3>2 DEF Crash, Workers
      <4> QED BY <3>1, <4>1 DEF WorkersHoldLease
    <3>3. CASE k # "gateway"
      <4>1. PICK holder \in LeaseLeft(k, p) : lease' = [lease EXCEPT ![k] = holder]
        BY <2>3, <3>3 DEF Crash
      <4>2. /\ holder \in {p, None, lease[k]}
            /\ holder # lease[k] => lease[k] \in {p, None}
        BY <4>1 DEF LeaseLeft, LeaseFree
      <4> QED BY <2>0, <3>1, <3>3, <4>1, <4>2, LeaseOfTheDead
    <3> QED BY <3>2, <3>3
  <2>4. CASE k \in Workers /\ Heartbeat(k, p)
    BY <1>1, <2>4 DEF Heartbeat, history
  <2>5. CASE k \in Workers /\ RenewalRefused(k, p)
    <3>1. /\ UNCHANGED <<lease, lost>> /\ proc[k][p] = "running"
          /\ proc' = [proc EXCEPT ![k][p] = "stopping"]
      BY <2>5 DEF RenewalRefused
    <3> QED BY <2>0, <3>1, LeaseUntouched
  <2> QED BY <1>6, <2>1, <2>2, <2>3, <2>4, <2>5 DEF Lives
<1>7. ASSUME NEW k \in Workers, LeaseExpires(k) PROVE WorkersHoldLease'
  <2>1. /\ UNCHANGED proc /\ lease' = [lease EXCEPT ![k] = None]
        /\ \/ lease[k] \notin Alive(k) /\ UNCHANGED lost
           \/ lost' = [lost EXCEPT ![k] = @ \cup {lease[k]}]
    BY <1>7 DEF LeaseExpires, history, processVars
  <2>2. ASSUME NEW j \in Workers, NEW q \in Process,
               proc'[j][q] \in {"running", "stopping"}
        PROVE  lease'[j] = q \/ q \in lost'[j]
    <3>1. lease[j] = q \/ q \in lost[j]
      BY <2>1, <2>2 DEF WorkersHoldLease
    <3>2. CASE j # k
      BY <2>1, <3>1, <3>2
    <3>3. CASE j = k
      <4>1. lost[k] \subseteq lost'[k]
        BY <2>1
      <4>2. q \in Alive(k)
        BY <2>1, <2>2, <3>3 DEF Alive
      <4> QED BY <2>1, <3>1, <3>3, <4>1, <4>2
    <3> QED BY <3>2, <3>3
  <2> QED BY <2>2 DEF WorkersHoldLease
<1>8. CASE TunnelDies \/ UNCHANGED vars
  BY <1>1, <1>8 DEF TunnelDies, vars, processVars, history
<1> QED BY <1>1, <1>2, <1>3, <1>4, <1>5, <1>6, <1>7, <1>8 DEF Next, Step

-----------------------------------------------------------------------------
(* What a request replaces *)

\* What Replaced speaks of is left alone, but for requests that replace nothing.
LEMMA ReplacedUntouched ==
  ASSUME Replaced, UNCHANGED <<proc, lease, lost>>, disturbed \subseteq disturbed',
         \A r \in Requests :
           \/ /\ kind'[r] = kind[r] /\ targets'[r] = targets[r] /\ fresh'[r] = fresh[r]
              /\ pc'[r] = pc[r]
           \/ pc'[r] \notin {"stop", "spawn", "ready"}
  PROVE  Replaced'
<1>1. HolderFrees'
  BY DEF Replaced, HolderFrees
<1>2. ASSUME NEW r \in Requests PROVE InPlace(r)'
  <2>1. InPlace(r)
    BY DEF Replaced
  <2> QED BY <2>1 DEF InPlace, Alive, FreshLives
<1> QED BY <1>1, <1>2 DEF Replaced

\* One process goes on to another stage of its life. If nothing disturbed its
\* kind, it is the holder that works on, or one that held nothing and is let in
\* when the lease is free.
LEMMA ProcessGoesOn ==
  ASSUME OpsTypeOK, Replaced, UNCHANGED <<pc, kind, targets, fresh>>,
         NEW k \in Kinds, NEW p \in Process, NEW life \in Life, p \in Alive(k),
         proc' = [proc EXCEPT ![k][p] = life], disturbed' = disturbed,
         \A j \in Workers : j # k => lease'[j] = lease[j] /\ lost'[j] = lost[j],
         k \in Workers \ disturbed =>
           /\ lost'[k] = lost[k]
           /\ lease'[k] # None =>
                \/ lease'[k] = p /\ life \in {"running", "stopping"}
                \/ lease'[k] = lease[k] /\ lease[k] # p,
         \A r \in Requests :
           pc[r] = "ready" /\ kind[r] = k /\ k \notin disturbed /\ fresh[r] = p
             => life \in {"booting", "running"}
  PROVE  Replaced'
<1> USE DEF OpsTypeOK
<1>1. HolderFrees'
  <2> SUFFICES ASSUME NEW j \in Workers \ disturbed
               PROVE  /\ lost'[j] = {}
                      /\ lease'[j] # None => proc'[j][lease'[j]] \in {"running", "stopping"}
    BY DEF HolderFrees
  <2>1. /\ lost[j] = {} /\ j \in Kinds
        /\ lease[j] # None => proc[j][lease[j]] \in {"running", "stopping"}
        /\ lease[j] \in Process \cup {None}
    BY DEF Replaced, HolderFrees, Workers, Kinds
  <2>2. CASE j = k
    BY <2>1, <2>2
  <2>3. CASE j # k
    BY <2>1, <2>3
  <2> QED BY <2>2, <2>3
<1>2. ASSUME NEW j \in Kinds PROVE Alive(j)' \subseteq Alive(j)
  BY DEF Alive
<1>3. ASSUME NEW r \in Requests PROVE InPlace(r)'
  <2>1. InPlace(r)
    BY DEF Replaced
  <2>2. Alive(kind[r])' \subseteq Alive(kind[r])
    BY <1>2
  <2>3. ASSUME pc[r] = "ready", kind[r] \notin disturbed PROVE FreshLives(r)'
    <3>1. fresh[r] \in Process /\ FreshLives(r)
      BY <2>1, <2>3 DEF InPlace
    <3> QED BY <2>3, <3>1 DEF FreshLives
  <2> QED BY <2>1, <2>2, <2>3 DEF InPlace
<1> QED BY <1>1, <1>3 DEF Replaced

\* Something disturbs a kind: nothing is said of it any more.
LEMMA KindDisturbed ==
  ASSUME OpsTypeOK, Replaced, UNCHANGED <<pc, kind, targets, fresh>>,
         NEW k \in Kinds, disturbed' = disturbed \cup {k},
         \A j \in Kinds \ {k} : proc'[j] = proc[j],
         \A j \in Workers \ {k} : lease'[j] = lease[j] /\ lost'[j] = lost[j]
  PROVE  Replaced'
<1> USE DEF OpsTypeOK
<1>1. HolderFrees'
  BY DEF Replaced, HolderFrees, Workers, Kinds
<1>2. ASSUME NEW r \in Requests PROVE InPlace(r)'
  <2>1. InPlace(r) /\ kind[r] \in Kinds
    BY DEF Replaced
  <2> QED BY <2>1 DEF InPlace, Alive, FreshLives
<1> QED BY <1>1, <1>2 DEF Replaced

LEMMA LifeStep ==
  ASSUME OpsTypeOK, WorkersHoldLease, Replaced,
         NEW k \in Kinds, NEW p \in Process, Lives(k, p)
  PROVE  Replaced'
<1> USE DEF OpsTypeOK
<1>0. /\ k # "gateway" => k \in Workers
      /\ Workers \subseteq Kinds /\ None \notin Process /\ "gateway" \notin Workers
  BY DEF Workers, Kinds, None, Process
<1>1. CASE Boot(k, p)
  <2>1. /\ proc[k][p] \in {"booting", "signalled"} /\ p \in Alive(k)
        /\ UNCHANGED <<pc, kind, targets, fresh, lost, disturbed>>
        /\ \A j \in Workers : j # k => lease'[j] = lease[j] /\ lost'[j] = lost[j]
    <3>1. /\ proc[k][p] \in {"booting", "signalled"}
          /\ UNCHANGED <<pc, kind, targets, fresh, lost, disturbed>>
          /\ UNCHANGED lease \/ lease' = [lease EXCEPT ![k] = p]
      BY <1>1 DEF Boot, requestVars, history
    <3>2. \A j \in Workers : j # k => lease'[j] = lease[j]
      BY <3>1
    <3> QED BY <3>1, <3>2 DEF Alive
  <2>2. PICK life \in {"running", "stopping", "dead"} :
          proc' = [proc EXCEPT ![k][p] = life]
    BY <1>1 DEF Boot
  <2>3. CASE k = "gateway"
    <3>1. ASSUME NEW r \in Requests, pc[r] = "ready", kind[r] = k, k \notin disturbed,
                 fresh[r] = p
          PROVE  life \in {"booting", "running"}
      <4>1. Alive(k) \subseteq {p}
        BY <3>1 DEF Replaced, InPlace
      <4>2. ~Serving
        BY <2>1, <2>3, <4>1 DEF Serving, Alive
      <4>3. proc' = [proc EXCEPT ![k][p] = "running"]
        BY <1>1, <2>3, <4>2 DEF Boot
      <4> QED BY <2>2, <4>3
    <3>2. k \notin Workers /\ life \in Life
      BY <1>0, <2>3 DEF Life
    <3>3. \A r \in Requests :
            pc[r] = "ready" /\ kind[r] = k /\ k \notin disturbed /\ fresh[r] = p
              => life \in {"booting", "running"}
      BY <3>1
    <3>4. UNCHANGED <<pc, kind, targets, fresh>> /\ p \in Alive(k)
      BY <2>1
    <3>5. k \in Workers \ disturbed =>
            /\ lost'[k] = lost[k]
            /\ lease'[k] # None =>
                 \/ lease'[k] = p /\ life \in {"running", "stopping"}
                 \/ lease'[k] = lease[k] /\ lease[k] # p
      BY <3>2
    <3> HIDE DEF OpsTypeOK
    <3> QED BY <2>1, <2>2, <3>2, <3>3, <3>4, <3>5, ProcessGoesOn
  <2>4. CASE k # "gateway" /\ LeaseFree(k)
    <3>1. /\ lease' = [lease EXCEPT ![k] = p]
          /\ proc' = [proc EXCEPT ![k][p] = IF @ = "booting" THEN "running" ELSE "stopping"]
      BY <1>1, <2>4 DEF Boot
    <3>2. life \in {"running", "stopping"} /\ (proc[k][p] = "booting" => life = "running")
      BY <2>2, <3>1
    <3>3. ASSUME NEW r \in Requests, pc[r] = "ready", kind[r] = k, k \notin disturbed,
                 fresh[r] = p
          PROVE  life \in {"booting", "running"}
      <4>1. FreshLives(r)
        BY <3>3 DEF Replaced, InPlace
      <4> QED BY <2>1, <3>2, <3>3, <4>1 DEF FreshLives
    <3>4. k \in Workers \ disturbed =>
            /\ lost'[k] = lost[k]
            /\ lease'[k] # None =>
                 \/ lease'[k] = p /\ life \in {"running", "stopping"}
                 \/ lease'[k] = lease[k] /\ lease[k] # p
      BY <1>0, <2>1, <2>4, <3>1, <3>2
    <3>5. life \in Life
      BY DEF Life
    <3>6. \A r \in Requests :
            pc[r] = "ready" /\ kind[r] = k /\ k \notin disturbed /\ fresh[r] = p
              => life \in {"booting", "running"}
      BY <3>3
    <3>7. UNCHANGED <<pc, kind, targets, fresh>> /\ p \in Alive(k)
      BY <2>1
    <3> HIDE DEF OpsTypeOK
    <3> QED BY <2>1, <2>2, <3>4, <3>5, <3>6, <3>7, ProcessGoesOn
  <2>5. CASE k # "gateway" /\ ~LeaseFree(k)
    <3>1. UNCHANGED lease /\ lease[k] # None /\ k \in Workers
      BY <1>0, <1>1, <2>5 DEF Boot, LeaseFree
    <3>2. k \notin disturbed => lease[k] # p
      BY <2>1, <3>1 DEF Replaced, HolderFrees
    <3>3. ASSUME NEW r \in Requests, pc[r] = "ready", kind[r] = k, k \notin disturbed,
                 fresh[r] = p
          PROVE  FALSE
      <4>1. Alive(k) \subseteq {p}
        BY <3>3 DEF Replaced, InPlace
      <4>2. lease[k] \in Process /\ proc[k][lease[k]] \in {"running", "stopping"}
        BY <3>1, <3>3 DEF Replaced, HolderFrees
      <4> QED BY <3>2, <3>3, <4>1, <4>2 DEF Alive
    <3>4. life \in Life
      BY DEF Life
    <3>5. k \in Workers \ disturbed =>
            /\ lost'[k] = lost[k]
            /\ lease'[k] # None =>
                 \/ lease'[k] = p /\ life \in {"running", "stopping"}
                 \/ lease'[k] = lease[k] /\ lease[k] # p
      BY <2>1, <3>1, <3>2
    <3>6. \A r \in Requests :
            pc[r] = "ready" /\ kind[r] = k /\ k \notin disturbed /\ fresh[r] = p
              => life \in {"booting", "running"}
      BY <3>3
    <3>7. UNCHANGED <<pc, kind, targets, fresh>> /\ p \in Alive(k)
      BY <2>1
    <3> HIDE DEF OpsTypeOK
    <3> QED BY <2>1, <2>2, <3>4, <3>5, <3>6, <3>7, ProcessGoesOn
  <2> QED BY <2>3, <2>4, <2>5
<1>2. CASE Stopped(k, p)
  <2>1. /\ proc[k][p] = "stopping" /\ p \in Alive(k)
        /\ proc' = [proc EXCEPT ![k][p] = "dead"]
        /\ UNCHANGED <<pc, kind, targets, fresh, lost>>
        /\ \A j \in Workers : j # k => lease'[j] = lease[j] /\ lost'[j] = lost[j]
    <3>1. /\ proc[k][p] = "stopping" /\ proc' = [proc EXCEPT ![k][p] = "dead"]
          /\ UNCHANGED <<pc, kind, targets, fresh, lost>>
          /\ UNCHANGED lease \/ lease' = [lease EXCEPT ![k] = Freed(k, p)]
      BY <1>2 DEF Stopped, requestVars
    <3>2. \A j \in Workers : j # k => lease'[j] = lease[j]
      BY <3>1
    <3> QED BY <3>1, <3>2 DEF Alive
  <2>2. CASE disturbed' = disturbed \cup {k}
    <3>1. \A j \in Kinds \ {k} : proc'[j] = proc[j]
      BY <2>1
    <3>2. \A j \in Workers \ {k} : lease'[j] = lease[j] /\ lost'[j] = lost[j]
      BY <1>0, <2>1
    <3> HIDE DEF OpsTypeOK
    <3> QED BY <2>1, <2>2, <3>1, <3>2, KindDisturbed
  <2>3. CASE lease' = [lease EXCEPT ![k] = Freed(k, p)] /\ UNCHANGED disturbed
    <3>1. ASSUME NEW r \in Requests, pc[r] = "ready", kind[r] = k, k \notin disturbed,
                 fresh[r] = p
          PROVE  FALSE
      BY <2>1, <3>1 DEF Replaced, InPlace, FreshLives
    <3>2. k \in Workers \ disturbed =>
            /\ lost'[k] = lost[k]
            /\ lease'[k] # None => lease'[k] = lease[k] /\ lease[k] # p
      BY <2>1, <2>3 DEF Freed
    <3>3. "dead" \in Life /\ UNCHANGED disturbed
      BY <2>3 DEF Life
    <3>4. \A r \in Requests :
            pc[r] = "ready" /\ kind[r] = k /\ k \notin disturbed /\ fresh[r] = p
              => "dead" \in {"booting", "running"}
      BY <3>1
    <3>5. UNCHANGED <<pc, kind, targets, fresh>> /\ p \in Alive(k)
      BY <2>1
    <3>6. k \in Workers \ disturbed =>
            /\ lost'[k] = lost[k]
            /\ lease'[k] # None =>
                 \/ lease'[k] = p /\ "dead" \in {"running", "stopping"}
                 \/ lease'[k] = lease[k] /\ lease[k] # p
      BY <3>2
    <3> HIDE DEF OpsTypeOK
    <3> QED BY <2>1, <3>3, <3>4, <3>5, <3>6, ProcessGoesOn
  <2> QED BY <1>2, <2>2, <2>3 DEF Stopped
<1>3. CASE Crash(k, p) \/ (k \in Workers /\ RenewalRefused(k, p) /\ disturbed' # disturbed)
  <2>1. /\ UNCHANGED <<pc, kind, targets, fresh, lost>>
        /\ disturbed' = disturbed \cup {k}
        /\ \A j \in Kinds \ {k} : proc'[j] = proc[j]
    BY <1>3 DEF Crash, RenewalRefused, requestVars
  <2>2. \A j \in Workers \ {k} : lease'[j] = lease[j] /\ lost'[j] = lost[j]
    BY <1>3, <2>1 DEF Crash, RenewalRefused
  <2> HIDE DEF OpsTypeOK
  <2> QED BY <2>1, <2>2, KindDisturbed
<1>4. CASE k \in Workers /\ RenewalRefused(k, p) /\ disturbed' = disturbed
  <2>1. /\ UNCHANGED <<pc, kind, targets, fresh, lease, lost>>
        /\ proc[k][p] = "running" /\ p \in Alive(k)
        /\ proc' = [proc EXCEPT ![k][p] = "stopping"]
        /\ lease[k] = p => k \in disturbed
    BY <1>4 DEF RenewalRefused, Alive, requestVars
  <2>2. k \notin disturbed => FALSE
    <3>1. lease[k] = p \/ p \in lost[k]
      BY <1>4, <2>1 DEF WorkersHoldLease
    <3>2. k \notin disturbed => lost[k] = {}
      BY <1>4 DEF Replaced, HolderFrees
    <3> QED BY <2>1, <3>1, <3>2
  <2>3. "stopping" \in Life
    BY DEF Life
  <2>4. \A j \in Workers : j # k => lease'[j] = lease[j] /\ lost'[j] = lost[j]
    BY <2>1
  <2> HIDE DEF OpsTypeOK
  <2> QED BY <1>4, <2>1, <2>2, <2>3, <2>4, ProcessGoesOn
<1>5. CASE k \in Workers /\ Heartbeat(k, p)
  BY <1>5, ReplacedUntouched DEF Heartbeat, requestVars, history
<1> QED BY <1>1, <1>2, <1>3, <1>4, <1>5 DEF Lives

LEMMA ExpiryStep ==
  ASSUME OpsTypeOK, Replaced, NEW k \in Workers, LeaseExpires(k) PROVE Replaced'
<1> USE DEF OpsTypeOK
<1>1. /\ UNCHANGED <<pc, kind, targets, fresh, proc>>
      /\ lease' = [lease EXCEPT ![k] = None] /\ k \in Kinds
  BY DEF LeaseExpires, requestVars, Workers, Kinds
<1>2. CASE UNCHANGED history
  <2>1. HolderFrees'
    BY <1>1, <1>2 DEF Replaced, HolderFrees, history
  <2>2. ASSUME NEW r \in Requests PROVE InPlace(r)'
    <3>1. InPlace(r)
      BY DEF Replaced
    <3> QED BY <1>1, <1>2, <3>1 DEF InPlace, Alive, FreshLives, history
  <2> QED BY <2>1, <2>2 DEF Replaced
<1>3. CASE /\ disturbed' = disturbed \cup {k}
           /\ lost' = [lost EXCEPT ![k] = @ \cup {lease[k]}]
  <2>1. /\ \A j \in Kinds \ {k} : proc'[j] = proc[j]
        /\ \A j \in Workers \ {k} : lease'[j] = lease[j] /\ lost'[j] = lost[j]
    BY <1>1, <1>3
  <2> HIDE DEF OpsTypeOK
  <2> QED BY <1>1, <1>3, <2>1, KindDisturbed
<1> QED BY <1>2, <1>3 DEF LeaseExpires

LEMMA ReplacedStep ==
  ASSUME OpsAssumption, OpsTypeOK, OneRestart, WorkersHoldLease, Replaced, [Next]_vars
  PROVE  Replaced'
<1> USE DEF OpsTypeOK
<1>1. CASE UNCHANGED vars \/ TunnelDies
  BY <1>1, ReplacedUntouched DEF vars, TunnelDies, requestVars, processVars, history
<1>2. ASSUME NEW r \in Requests, Busy(r) \/ Begin(r) PROVE Replaced'
  BY <1>2, ReplacedUntouched DEF Busy, Begin, processVars, history
<1>3. ASSUME NEW r \in Requests, SpawnFails(r) \/ IsReady(r) \/ NotReady(r)
      PROVE Replaced'
  BY <1>3, ReplacedUntouched
     DEF SpawnFails, IsReady, NotReady, EndStep, processVars, history
<1>4. ASSUME NEW r \in Requests,
             \/ ReadUrl(r) \/ Probe(r) \/ RestartTunnel(r) \/ UpdateCallback(r)
             \/ Subscribe(r)
      PROVE Replaced'
  BY <1>4, ReplacedUntouched
     DEF ReadUrl, Probe, RestartTunnel, UpdateCallback, Subscribe, Goto, Keep, history
<1>5. ASSUME NEW r \in Requests, ReadFails(r) \/ Record(r) \/ Caught(r)
      PROVE Replaced'
  BY <1>5, ReplacedUntouched DEF ReadFails, Record, Caught, Answer, Goto, Keep, history
<1>6. ASSUME NEW r \in Requests, ListProcesses(r) PROVE Replaced'
  <2>1. /\ pc' = [pc EXCEPT ![r] = "stop"]
        /\ disturbed \subseteq disturbed'
        /\ UNCHANGED <<kind, fresh, proc, lease, lost>>
        /\ \A s \in Requests \ {r} : targets'[s] = targets[s]
    BY <1>6 DEF ListProcesses, processVars
  <2>2. kind[r] \notin disturbed' => targets'[r] = Alive(kind[r])
    BY <1>6 DEF ListProcesses
  <2>3. HolderFrees'
    BY <2>1 DEF Replaced, HolderFrees
  <2>4. ASSUME NEW s \in Requests PROVE InPlace(s)'
    <3>1. InPlace(s)
      BY DEF Replaced
    <3>2. CASE s = r
      BY <2>1, <2>2, <3>2 DEF InPlace, Alive
    <3>3. CASE s # r
      BY <2>1, <3>1, <3>3 DEF InPlace, Alive, FreshLives
    <3> QED BY <3>2, <3>3
  <2> QED BY <2>3, <2>4 DEF Replaced
<1>7. ASSUME NEW r \in Requests, Terminate(r) PROVE Replaced'
  <2>1. PICK life \in [Process -> Life] :
           /\ proc' = [proc EXCEPT ![kind[r]] = life]
           /\ \A p \in Process :
                proc[kind[r]][p] \in {"none", "dead"} => life[p] \in {"none", "dead"}
           /\ disturbed \subseteq disturbed'
           /\ kind[r] \notin disturbed' =>
                \A p \in AtWork(kind[r]) : life[p] \in {"running", "stopping"}
    <3>1. PICK life \in [Process -> Life], hit \in SUBSET Process :
            /\ proc' = [proc EXCEPT ![kind[r]] = life]
            /\ \A p \in Process :
                 IF p \in hit THEN life[p] \in Signalled(kind[r], proc[kind[r]][p])
                             ELSE life[p] = proc[kind[r]][p]
            /\ disturbed' = IF \E p \in AtWork(kind[r]) : life[p] = "dead"
                            THEN disturbed \cup {kind[r]} ELSE disturbed
      BY <1>7 DEF Terminate
    <3>2. ASSUME NEW p \in Process
          PROVE  /\ proc[kind[r]][p] \in {"none", "dead"} => life[p] \in {"none", "dead"}
                 /\ p \in AtWork(kind[r]) => life[p] \in {"running", "stopping", "dead"}
      BY <3>1 DEF Signalled, AtWork
    <3> QED BY <3>1, <3>2 DEF AtWork
  <2>2. \A s \in Requests \ {r} : pc'[s] \notin {"stop", "spawn", "ready"}
    <3>1. Step(r)
      BY <1>7 DEF Step
    <3>2. pc[r] \in Running /\ \A s \in Requests \ {r} : pc'[s] = pc[s]
      BY <3>1, StepKeepsOthers
    <3> QED BY <3>2 DEF OneRestart, InProgress, Running
  <2>3. ASSUME NEW k \in Kinds PROVE Alive(k)' \subseteq Alive(k)
    BY <2>1 DEF Alive
  <2>4. UNCHANGED <<lease, lost>> /\ kind[r] \in Kinds
    BY <1>7 DEF Terminate
  <2>5. HolderFrees'
    <3> SUFFICES ASSUME NEW j \in Workers \ disturbed'
                 PROVE  /\ lost'[j] = {}
                        /\ lease'[j] # None => proc'[j][lease'[j]] \in {"running", "stopping"}
      BY DEF HolderFrees
    <3>1. /\ j \in Kinds /\ lost[j] = {} /\ lease[j] \in Process \cup {None}
          /\ lease[j] # None => proc[j][lease[j]] \in {"running", "stopping"}
      BY <2>1 DEF Replaced, HolderFrees, Workers, Kinds
    <3>2. CASE j = kind[r]
      BY <2>1, <2>4, <3>1, <3>2 DEF AtWork
    <3>3. CASE j # kind[r]
      BY <2>1, <2>4, <3>1, <3>3
    <3> QED BY <3>2, <3>3
  <2>6. \/ pc'[r] \notin {"stop", "spawn", "ready"}
        \/ pc[r] = "stop" /\ pc'[r] = "spawn" /\ UNCHANGED <<kind, targets>>
    BY <1>7 DEF Terminate, EndStep
  <2>7. InPlace(r)'
    <3>1. CASE pc'[r] \notin {"stop", "spawn", "ready"}
      BY <3>1 DEF InPlace
    <3>2. CASE pc[r] = "stop" /\ pc'[r] = "spawn" /\ UNCHANGED <<kind, targets>>
      <4>1. InPlace(r)
        BY DEF Replaced
      <4>2. Alive(kind[r])' \subseteq Alive(kind[r])
        BY <2>3, <2>4, <3>2 DEF Alive
      <4> QED BY <2>1, <3>2, <4>1, <4>2 DEF InPlace
    <3> QED BY <2>6, <3>1, <3>2
  <2>8. ASSUME NEW s \in Requests \ {r} PROVE InPlace(s)'
    BY <2>2 DEF InPlace
  <2> QED BY <2>5, <2>7, <2>8 DEF Replaced
<1>8. ASSUME NEW r \in Requests, KillLate(r) PROVE Replaced'
  <2>1. /\ UNCHANGED <<pc, kind, targets, fresh, lease, lost>>
        /\ disturbed' = disturbed \cup {kind[r]} /\ kind[r] \in Kinds
        /\ \A j \in Kinds \ {kind[r]} : proc'[j] = proc[j]
    BY <1>8 DEF KillLate, requestVars
  <2> HIDE DEF OpsTypeOK
  <2> QED BY <2>1, KindDisturbed
<1>9. ASSUME NEW r \in Requests, Spawn(r) PROVE Replaced'
  <2> DEFINE k == kind[r]
  <2>1. PICK p \in Process : /\ proc[k][p] = "none"
                             /\ proc' = [proc EXCEPT ![k][p] = "booting"]
                             /\ fresh' = [fresh EXCEPT ![r] = p]
    BY <1>9 DEF Spawn
  <2>2. /\ pc' = [pc EXCEPT ![r] = "ready"] /\ pc[r] = "spawn"
        /\ UNCHANGED <<kind, targets, lease, lost, disturbed>>
    BY <1>9 DEF Spawn, history
  <2>3. \A s \in Requests \ {r} : pc'[s] \notin {"stop", "spawn", "ready"}
    BY <2>2 DEF OneRestart, InProgress, Running
  <2>4. k \notin disturbed => Alive(k) = {}
    <3>1. InPlace(r) /\ Stopping(r)
      BY <1>9 DEF Replaced, Spawn
    <3> QED BY <2>2, <3>1 DEF InPlace, Stopping
  <2>5. k \notin disturbed => Alive(k)' \subseteq {p}
    BY <2>1, <2>2, <2>4 DEF Alive
  <2>6. proc'[k][p] = "booting" /\ fresh'[r] = p
    BY <2>1
  <2>7. HolderFrees'
    BY <2>1, <2>2 DEF Replaced, HolderFrees, Workers, Kinds
  <2>8. InPlace(r)'
    BY <2>2, <2>5, <2>6 DEF InPlace, FreshLives
  <2>9. ASSUME NEW s \in Requests \ {r} PROVE InPlace(s)'
    BY <2>3 DEF InPlace
  <2> QED BY <2>7, <2>8, <2>9 DEF Replaced
<1> QED
  BY <1>1, <1>2, <1>3, <1>4, <1>5, <1>6, <1>7, <1>8, <1>9, LifeStep, ExpiryStep
     DEF Next, Step

-----------------------------------------------------------------------------
(* Theorems *)

LEMMA OpsStep ==
  ASSUME OpsAssumption, OpsInv, [Next]_vars PROVE OpsInv'
  BY OpsType, OneRestartStep, WebhookStep, LeaseStep, ReplacedStep DEF OpsInv

\* Every reachable state satisfies the inductive invariant.
THEOREM OpsInvariant == Spec => []OpsInv
<1>1. Init => OpsInv
  BY OpsInit, OpsAssumption
<1>2. OpsInv /\ [Next]_vars => OpsInv'
  BY OpsStep, OpsAssumption
<1> QED BY <1>1, <1>2, PTL DEF Spec

\* Every variable of a restart, of the processes and of the webhook keeps its
\* type, for any requests and any number of processes and faults.
THEOREM OpsTypeCorrect == Spec => []OpsTypeOK
<1>1. OpsInv => OpsTypeOK
  BY DEF OpsInv
<1> QED BY <1>1, OpsInvariant, PTL

\* However requests fail half-way, a remembered address that answers is the one
\* Meta calls (ensurePublicWebhook, operationsControl.ts), unless its tunnel is one
\* that a restart left up: the step that finds it healthy without asking Meta is
\* right.
THEOREM WebhookIsRegistered == Spec => []RecordedUrlIsRegistered
<1>1. OpsInv => RecordedUrlIsRegistered
  BY DEF OpsInv, WebhookKnown
<1> QED BY <1>1, OpsInvariant, PTL

LEMMA HolderIsOnly == ASSUME OpsTypeOK, WorkersHoldLease PROVE OneConsumer
<1> SUFFICES ASSUME NEW k \in Workers PROVE Cardinality(AtWork(k) \ lost[k]) <= 1
  BY DEF OneConsumer
<1>1. AtWork(k) \ lost[k] \subseteq {lease[k]}
  BY DEF WorkersHoldLease, AtWork
<1>2. IsFiniteSet({lease[k]}) /\ Cardinality({lease[k]}) = 1
  BY FS_Singleton
<1>3. Cardinality(AtWork(k) \ lost[k]) <= Cardinality({lease[k]})
  BY <1>1, <1>2, FS_Subset
<1> QED BY <1>2, <1>3

\* However many requests come and whichever step throws, the flag keeps the second
\* one out and falls with the first (restartConnections, operationsControl.ts).
THEOREM RestartsExclude == Spec => []OneRestart
<1>1. OpsInv => OneRestart
  BY DEF OpsInv
<1> QED BY <1>1, OpsInvariant, PTL

\* At most one worker process works as one consumer, its last batch included
\* (worker.ts and followupWorker.ts take the lease of their consumer before they
\* read), through restarts, kills, crashes and renewals or releases that fail; one
\* whose lease ended under it is the exception.
THEOREM OneConsumerAtATime == Spec => []OneConsumer
<1>1. OpsInv => OneConsumer
  BY HolderIsOnly DEF OpsInv
<1> QED BY <1>1, OpsInvariant, PTL

\* A process step ends in health only with the process it started in place, unless
\* something disturbed the kind (restartManagedProcess, operationsControl.ts).
THEOREM HealthyIsReplaced == Spec => HealthyUnlessDisturbed
<1>1. OpsInv => \A r \in Requests : ReportsHealthy(r) =>
                  FreshLives(r) \/ kind[r] \in disturbed
  BY DEF OpsInv, Replaced, InPlace, ReportsHealthy
<1> QED BY <1>1, OpsInvariant, PTL DEF HealthyUnlessDisturbed
=============================================================================
