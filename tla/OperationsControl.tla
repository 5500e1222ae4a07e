-------------------------- MODULE OperationsControl --------------------------
(***************************************************************************)
(* The restart button of the operations page (operationsControl.ts): stop  *)
(* and start the gateway and the workers, then see to it that Meta reaches *)
(* the webhook.                                                            *)
(*                                                                         *)
(*   requests  restartConnections, one process-wide flag keeps a second    *)
(*             request out; the steps of one request run in order;         *)
(*   processes (worker.ts, followupWorker.ts, metaGateway.ts) boot, hold   *)
(*             the lease of their consumer, write heartbeats, stop on      *)
(*             SIGTERM or when a renewal is refused or fails, in their own *)
(*             time, die of SIGKILL with the lease, may lose the lease     *)
(*             while they work and may fail to give it back;               *)
(*   webhook   tunnels, each with a new address, an old one ended only if  *)
(*             ps shows it, the address Meta calls, and the address the    *)
(*             service remembers in Redis and in env.                      *)
(*                                                                         *)
(* Abstracted: heartbeats are the set of requests they are fresh for,      *)
(* deadlines may pass at any moment, addresses are the number of their     *)
(* tunnel. Left out: the three checks that only read (Graph, OpenAI, Codex *)
(* CLI), stored subscription health, latencies.                            *)
(***************************************************************************)
EXTENDS Naturals, FiniteSets

CONSTANTS
  Requests,         \* POST /api/operations/restart
  Compiled,         \* dist/ exists: children run dist/src/*.js, and ps shows that
  FollowupEnabled,  \* FOLLOWUP_MODE is not disabled
  MaxProcesses,     \* bound: processes of one kind ever started
  MaxFaults         \* bound: crashes of a process or a tunnel, renewals or releases
                    \* of a lease that fail, leases that end under a live holder,
                    \* lists of ps that miss a process

ASSUME OpsAssumption ==
  /\ Compiled \in BOOLEAN /\ FollowupEnabled \in BOOLEAN
  /\ MaxProcesses \in Nat \ {0} /\ MaxFaults \in Nat

Kinds == {"gateway", "worker", "followup"}
Workers == {"worker", "followup"}
Process == 1..MaxProcesses
None == 0
\* A process that gets SIGTERM while it boots is "signalled": it still takes its
\* lease, only to stop.
Life == {"none", "booting", "signalled", "running", "stopping", "dead"}

VARIABLES
  restarting,  \* the flag
  pc,          \* per request: control; "busy" is the answer 409, "failed" 503
  kind,        \* per request: the process being restarted
  targets,     \* per request: the old processes found by ps
  fresh,       \* per request: the process it started last
  down,        \* per request: some step is down
  url,         \* per request: the webhook address it works on
  tries,       \* per request: attempts at Meta's callback
  proc,        \* per kind and process: its life
  lease,       \* per kind: holder of worker:<group>:<consumer>
  beat,        \* per kind: the requests its heartbeat is not older than
  up,          \* the addresses whose tunnel is up
  tunnels,     \* addresses handed out so far
  spared,      \* history: addresses whose tunnel a restart left up
  env, redis,  \* metaPublicWebhookUrl and health:meta:public-webhook
  callback,    \* the address Meta calls
  lost,        \* history: per kind, processes whose lease ended while they worked
  disturbed,   \* history: kinds with a process that ps missed, that was killed
               \* with its lease, crashed, or lost, could not renew or could
               \* not give back its lease
  faults       \* bounded counter

requestVars == <<pc, kind, targets, fresh, down, url, tries>>
processVars == <<proc, lease, beat>>
webVars == <<up, tunnels, spared, env, redis, callback>>
history == <<lost, disturbed>>
vars == <<restarting, requestVars, processVars, webVars, history, faults>>

Running == {"list", "stop", "spawn", "ready", "read", "probe", "tunnel",
            "callback", "subscribe", "record", "caught"}

\* Every variable has its type.
OpsTypeOK ==
  /\ restarting \in BOOLEAN
  /\ pc \in [Requests -> Running \cup {"idle", "busy", "done", "failed"}]
  /\ kind \in [Requests -> Kinds]
  /\ targets \in [Requests -> SUBSET Process]
  /\ fresh \in [Requests -> Process \cup {None}]
  /\ down \in [Requests -> BOOLEAN]
  /\ url \in [Requests -> Nat]
  /\ tries \in [Requests -> 0..3]
  /\ proc \in [Kinds -> [Process -> Life]]
  /\ lease \in [Workers -> Process \cup {None}]
  /\ beat \in [Workers -> SUBSET Requests]
  /\ up \subseteq Nat /\ tunnels \in Nat /\ spared \subseteq Nat
  /\ env \in Nat /\ redis \in Nat /\ callback \in Nat
  /\ lost \in [Workers -> SUBSET Process] /\ disturbed \subseteq Kinds
  /\ faults \in 0..MaxFaults

\* One process of each enabled kind, started by hand, a tunnel Meta knows.
Init ==
  /\ restarting = FALSE
  /\ pc = [r \in Requests |-> "idle"]
  /\ kind = [r \in Requests |-> "gateway"]
  /\ targets = [r \in Requests |-> {}]
  /\ fresh = [r \in Requests |-> None]
  /\ down = [r \in Requests |-> FALSE]
  /\ url = [r \in Requests |-> None]
  /\ tries = [r \in Requests |-> 0]
  /\ proc = [k \in Kinds |-> [p \in Process |->
               IF p = 1 /\ (k = "followup" => FollowupEnabled)
               THEN "running" ELSE "none"]]
  /\ lease = [k \in Workers |-> IF k = "followup" /\ ~FollowupEnabled THEN None ELSE 1]
  /\ beat = [k \in Workers |-> {}]
  /\ up = {1} /\ tunnels = 1 /\ spared = {}
  /\ env = 1 /\ redis \in {None, 1} /\ callback = 1
  /\ lost = [k \in Workers |-> {}] /\ disturbed = {} /\ faults = 0

Fault == faults < MaxFaults /\ faults' = faults + 1
Alive(k) == {p \in Process : proc[k][p] \notin {"none", "dead"}}
AtWork(k) == {p \in Process : proc[k][p] \in {"running", "stopping"}}
Serving == \E p \in Process : proc["gateway"][p] = "running"
InProgress == {r \in Requests : pc[r] \in Running}

-----------------------------------------------------------------------------
(* Processes *)

\* Mutant: the lease is set whoever holds it.
LeaseUnread(k) == TRUE
LeaseFree(k) == lease[k] = None

\* A worker takes its consumer's lease or gives up; the gateway its port.
Boot(k, p) ==
  /\ proc[k][p] \in {"booting", "signalled"}
  /\ IF k = "gateway"
     THEN /\ proc' = [proc EXCEPT ![k][p] = IF Serving THEN "dead" ELSE "running"]
          /\ UNCHANGED lease
     ELSE IF LeaseFree(k)
     THEN /\ proc' = [proc EXCEPT ![k][p] = IF @ = "booting" THEN "running" ELSE "stopping"]
          /\ lease' = [lease EXCEPT ![k] = p]
     ELSE /\ proc' = [proc EXCEPT ![k][p] = "dead"]
          /\ UNCHANGED lease
  /\ UNCHANGED <<restarting, requestVars, beat, webVars, history, faults>>

Heartbeat(k, p) ==
  /\ p \in AtWork(k)
  /\ beat' = [beat EXCEPT ![k] = InProgress]
  /\ UNCHANGED <<restarting, requestVars, proc, lease, webVars, history, faults>>

\* A renewal is refused, the lease being another's or nobody's, or fails,
\* whatever became of the lease: the loop ends after the batch in hand.
RenewalRefused(k, p) ==
  /\ proc[k][p] = "running"
  /\ proc' = [proc EXCEPT ![k][p] = "stopping"]
  /\ \/ lease[k] # p /\ UNCHANGED <<disturbed, faults>>
     \/ Fault /\ disturbed' = disturbed \cup {k}
  /\ UNCHANGED <<restarting, requestVars, lease, beat, webVars, lost>>

Freed(k, p) == IF lease[k] = p THEN None ELSE lease[k]

\* The loop is over: finally releases the lease, and a release that fails is
\* passed over.
Stopped(k, p) ==
  /\ proc[k][p] = "stopping"
  /\ proc' = [proc EXCEPT ![k][p] = "dead"]
  /\ \/ lease' = [lease EXCEPT ![k] = Freed(k, p)] /\ UNCHANGED <<disturbed, faults>>
     \/ Fault /\ disturbed' = disturbed \cup {k} /\ UNCHANGED lease
  /\ UNCHANGED <<restarting, requestVars, beat, webVars, lost>>

\* What becomes of the lease of a process that dies: given back or not, or
\* just taken for a process that did not live to hear of it.
LeaseLeft(k, p) ==
  IF lease[k] = p THEN {p, None}
  ELSE IF LeaseFree(k) /\ p \notin AtWork(k) THEN {p, None} ELSE {lease[k]}

\* An error leaves the loop, or the process dies at once.
Crash(k, p) ==
  /\ p \in Alive(k) /\ Fault
  /\ proc' = [proc EXCEPT ![k][p] = "dead"]
  /\ IF k = "gateway" THEN UNCHANGED lease
     ELSE \E holder \in LeaseLeft(k, p) : lease' = [lease EXCEPT ![k] = holder]
  /\ disturbed' = disturbed \cup {k}
  /\ UNCHANGED <<restarting, requestVars, beat, webVars, lost>>

\* The TTL runs out when nobody is left to renew the lease, or under a live
\* holder that was too late or whose Redis lost the key.
LeaseExpires(k) ==
  /\ lease[k] # None
  /\ lease' = [lease EXCEPT ![k] = None]
  /\ \/ lease[k] \notin Alive(k) /\ UNCHANGED <<history, faults>>
     \/ /\ lease[k] \in Alive(k) /\ Fault
        /\ lost' = [lost EXCEPT ![k] = @ \cup {lease[k]}]
        /\ disturbed' = disturbed \cup {k}
  /\ UNCHANGED <<restarting, requestVars, proc, beat, webVars>>

TunnelDies ==
  /\ Fault
  /\ \E u \in up : up' = up \ {u}
  /\ UNCHANGED <<restarting, requestVars, processVars, tunnels, spared, env, redis,
                 callback, history>>

-----------------------------------------------------------------------------
(* A request restarts the processes, one kind after the other *)

NextKind(k) == IF k = "gateway" THEN "worker" ELSE "followup"
Last(k) == k = "followup" \/ (k = "worker" /\ ~FollowupEnabled)

\* The step has its result; the next one begins. The step of a disabled
\* follow-up worker is skipped.
EndStep(r, isDown) ==
  /\ down' = [down EXCEPT ![r] = @ \/ isDown]
  /\ pc' = [pc EXCEPT ![r] = IF Last(kind[r]) THEN "read" ELSE "list"]
  /\ kind' = [kind EXCEPT ![r] = IF Last(@) THEN "gateway" ELSE NextKind(@)]
  /\ targets' = [targets EXCEPT ![r] = {}]
  /\ fresh' = [fresh EXCEPT ![r] = None]
  /\ UNCHANGED <<url, tries>>

\* The answer of the request, and what finally does.
\* Mutant: the flag is put down only by a request that succeeds.
FlagAfterSuccess(answer) == answer = "failed"
FlagAfter(answer) == FALSE
Answer(r, answer) ==
  /\ pc' = [pc EXCEPT ![r] = answer]
  /\ restarting' = FlagAfter(answer)
  /\ url' = [url EXCEPT ![r] = None]
  /\ tries' = [tries EXCEPT ![r] = 0]
  /\ beat' = [k \in Workers |-> beat[k] \ {r}]

Busy(r) ==
  /\ pc[r] = "idle" /\ restarting
  /\ pc' = [pc EXCEPT ![r] = "busy"]
  /\ UNCHANGED <<restarting, kind, targets, fresh, down, url, tries, processVars,
                 webVars, history, faults>>

Begin(r) ==
  /\ pc[r] = "idle" /\ ~restarting
  /\ restarting' = TRUE
  /\ pc' = [pc EXCEPT ![r] = "list"]
  /\ UNCHANGED <<kind, targets, fresh, down, url, tries, processVars, webVars,
                 history, faults>>

\* ps knows the processes by src/<name>.ts; a compiled one is dist/src/<name>.js.
Marked(k) == IF Compiled THEN {} ELSE Alive(k)

\* The plain ps shows the processes of the service's own terminal, and children
\* are spawned detached; the second ps is asked only when the first one fails,
\* and if both do the list is empty.
ListProcesses(r) ==
  LET k == kind[r] IN
  /\ pc[r] = "list"
  /\ pc' = [pc EXCEPT ![r] = "stop"]
  /\ \E seen \in SUBSET Marked(k) :
       /\ targets' = [targets EXCEPT ![r] = seen]
       /\ disturbed' = IF seen = Alive(k) THEN disturbed ELSE disturbed \cup {k}
       /\ IF seen = Marked(k) THEN UNCHANGED faults ELSE Fault
  /\ UNCHANGED <<restarting, kind, fresh, down, url, tries, processVars, webVars, lost>>

\* What SIGTERM does: the gateway dies, a worker that has its handler ends its
\* loop first. The handler is good for one signal: the second one kills.
Signalled(k, life) ==
  IF life \in {"none", "dead"} THEN {life}
  ELSE IF k = "gateway" THEN {"dead"}
  ELSE IF life = "booting" THEN {"dead", "signalled"}
  ELSE IF life = "running" THEN {"stopping"} ELSE {life, "dead"}

\* A target that died since ps makes kill throw; those after it keep running.
Terminate(r) ==
  LET k == kind[r]
      gone == targets[r] \ Alive(k)
  IN /\ pc[r] = "stop"
     /\ \E hit \in SUBSET (targets[r] \ gone) :
          /\ gone = {} => hit = targets[r]
          /\ \E life \in [Process -> Life] :
               /\ \A p \in Process :
                    IF p \in hit THEN life[p] \in Signalled(k, proc[k][p])
                                ELSE life[p] = proc[k][p]
               /\ proc' = [proc EXCEPT ![k] = life]
               /\ disturbed' = IF \E p \in AtWork(k) : life[p] = "dead"
                               THEN disturbed \cup {k} ELSE disturbed
     /\ IF gone # {}
        THEN EndStep(r, TRUE)
        ELSE /\ pc' = [pc EXCEPT ![r] = "spawn"]
             /\ UNCHANGED <<kind, targets, fresh, down, url, tries>>
     /\ UNCHANGED <<restarting, lease, beat, webVars, lost, faults>>

\* Mutant: nobody waits for the old processes.
SpawnAtOnce(r) == TRUE
Stopping(r) == targets[r] \cap Alive(kind[r]) = {}

\* Four seconds are over: SIGKILL for those still alive.
KillLate(r) ==
  LET k == kind[r] IN
  /\ pc[r] = "spawn" /\ ~Stopping(r)
  /\ proc' = [proc EXCEPT ![k] = [p \in Process |->
                IF p \in targets[r] /\ p \in Alive(k) THEN "dead" ELSE @[p]]]
  /\ disturbed' = disturbed \cup {k}
  /\ UNCHANGED <<restarting, requestVars, lease, beat, webVars, lost, faults>>

Spawn(r) ==
  LET k == kind[r] IN
  /\ pc[r] = "spawn" /\ Stopping(r)
  /\ \E p \in Process :
       /\ proc[k][p] = "none" /\ \A q \in 1..(p - 1) : proc[k][q] # "none"
       /\ proc' = [proc EXCEPT ![k][p] = "booting"]
       /\ fresh' = [fresh EXCEPT ![r] = p]
  /\ pc' = [pc EXCEPT ![r] = "ready"]
  /\ UNCHANGED <<restarting, kind, targets, down, url, tries, lease, beat, webVars,
                 history, faults>>

\* The log cannot be opened, node cannot be started.
SpawnFails(r) ==
  /\ pc[r] = "spawn" /\ Stopping(r)
  /\ EndStep(r, TRUE)
  /\ UNCHANGED <<restarting, processVars, webVars, history, faults>>

\* The gateway's port answers; a heartbeat is not older than the request.
Ready(r) == IF kind[r] = "gateway" THEN Serving ELSE r \in beat[kind[r]]

IsReady(r) ==
  /\ pc[r] = "ready" /\ Ready(r)
  /\ EndStep(r, FALSE)
  /\ UNCHANGED <<restarting, processVars, webVars, history, faults>>

NotReady(r) ==
  /\ pc[r] = "ready"
  /\ EndStep(r, TRUE)
  /\ UNCHANGED <<restarting, processVars, webVars, history, faults>>

-----------------------------------------------------------------------------
(* ensurePublicWebhook *)

Goto(r, label) ==
  /\ pc' = [pc EXCEPT ![r] = label]
  /\ UNCHANGED <<restarting, beat>>
KeepLocals == UNCHANGED <<url, tries>>
Keep == UNCHANGED <<kind, targets, fresh, proc, lease, history, faults>>

ReadUrl(r) ==
  /\ pc[r] = "read"
  /\ url' = [url EXCEPT ![r] = IF redis # None THEN redis ELSE env]
  /\ Goto(r, "probe")
  /\ UNCHANGED <<down, tries, webVars>> /\ Keep

\* The read is outside the try: the whole request is rejected.
ReadFails(r) ==
  /\ pc[r] = "read"
  /\ Answer(r, "failed")
  /\ UNCHANGED <<down, webVars>> /\ Keep

Answers(u) == u \in up /\ Serving

Probe(r) ==
  /\ pc[r] = "probe"
  /\ (Answers(url[r]) /\ Goto(r, "subscribe")) \/ Goto(r, "tunnel")
  /\ UNCHANGED <<down, webVars>> /\ KeepLocals /\ Keep

\* The tunnels that ps shows are stopped; the others stay up, with their
\* addresses. The new one has 15 seconds to show its address and 15 to pass
\* the challenge.
RestartTunnel(r) ==
  /\ pc[r] = "tunnel"
  /\ \E unseen \in SUBSET up :
       /\ spared' = spared \cup unseen
       /\ IF unseen = {} THEN UNCHANGED faults ELSE Fault
       /\ \/ /\ tunnels' = tunnels + 1 /\ up' = unseen \cup {tunnels + 1}
             /\ url' = [url EXCEPT ![r] = tunnels + 1]
             /\ (Serving /\ Goto(r, "callback")) \/ Goto(r, "caught")
          \/ /\ up' = unseen /\ Goto(r, "caught")
             /\ UNCHANGED <<tunnels, url>>
  /\ UNCHANGED <<down, tries, env, redis, callback, kind, targets, fresh, proc, lease,
                 history>>

AttemptsLeft(r) == tries[r] < 2

\* One attempt of updateMetaCallbackWithRetry: done, or refused or not
\* answered, done all the same or not.
UpdateCallback(r) ==
  /\ pc[r] = "callback"
  /\ tries' = [tries EXCEPT ![r] = @ + 1]
  /\ \/ callback' = url[r] /\ Goto(r, "subscribe")
     \/ /\ callback' \in {callback, url[r]}
        /\ Goto(r, IF AttemptsLeft(r) THEN "callback" ELSE "caught")
  /\ UNCHANGED <<down, url, up, tunnels, spared, env, redis>> /\ Keep

\* ensureActivePageSubscription
Subscribe(r) ==
  /\ pc[r] = "subscribe"
  /\ Goto(r, "record") \/ Goto(r, "caught")
  /\ UNCHANGED <<down, webVars>> /\ KeepLocals /\ Keep

\* Mutant: the new address is remembered before Meta has it.
RememberEarly(r) == pc[r] \in {"callback", "record"}
Remembers(r) == pc[r] = "record"

\* env at once if the tunnel is new, Redis when the write is answered.
Record(r) ==
  /\ Remembers(r)
  /\ env' = IF tries[r] = 0 THEN env ELSE url[r]
  /\ \/ redis' = url[r] /\ Answer(r, "done") /\ UNCHANGED down
     \/ redis' \in {redis, url[r]} /\ Goto(r, "caught") /\ UNCHANGED down /\ KeepLocals
  /\ UNCHANGED <<up, tunnels, spared, callback>> /\ Keep

\* The catch stores the failure, which may fail in turn.
Caught(r) ==
  /\ pc[r] = "caught"
  /\ down' = [down EXCEPT ![r] = TRUE]
  /\ Answer(r, "done") \/ Answer(r, "failed")
  /\ UNCHANGED webVars /\ Keep

Step(r) ==
  \/ ListProcesses(r) \/ Terminate(r) \/ KillLate(r) \/ Spawn(r) \/ SpawnFails(r)
  \/ IsReady(r) \/ NotReady(r) \/ ReadUrl(r) \/ ReadFails(r) \/ Probe(r)
  \/ RestartTunnel(r) \/ UpdateCallback(r) \/ Subscribe(r) \/ Record(r) \/ Caught(r)

Lives(k, p) ==
  \/ Boot(k, p) \/ Stopped(k, p) \/ Crash(k, p)
  \/ k \in Workers /\ (Heartbeat(k, p) \/ RenewalRefused(k, p))

Next ==
  \/ \E r \in Requests : Busy(r) \/ Begin(r) \/ Step(r)
  \/ \E k \in Kinds, p \in Process : Lives(k, p)
  \/ \E k \in Workers : LeaseExpires(k)
  \/ TunnelDies

Spec == Init /\ [][Next]_vars

-----------------------------------------------------------------------------
(* Properties *)

\* When the remembered address answers the challenge, it is the one Meta calls:
\* a healthy webhook step is true although it never asks Meta for its callback,
\* through partial failures of earlier requests. The exception is an address
\* whose tunnel a restart left up because ps did not show it.
RecordedUrlIsRegistered ==
  \A u \in {env, redis} \ {None} : u \in up => callback = u \/ u \in spared

\* One process at most works as one consumer, its last batch included, through
\* restarts, crashes and failed renewals and releases. The exception is one
\* whose lease ended while it worked: it overlaps with its successor until it
\* notices.
OneConsumer ==
  \A k \in Workers : Cardinality(AtWork(k) \ lost[k]) <= 1

ReportsHealthy(r) == pc[r] = "ready" /\ pc'[r] # "ready" /\ ~down'[r]
FreshLives(r) == proc[kind[r]][fresh[r]] \in {"booting", "running"}

\* A process step that is reported healthy has left the new process in place,
\* although the heartbeat it saw may be the old one's, unless ps missed a
\* process of the kind or one was killed with its lease, crashed, or lost, could
\* not renew or could not give back its lease.
HealthyUnlessDisturbed ==
  [][\A r \in Requests : ReportsHealthy(r) =>
       FreshLives(r) \/ kind[r] \in disturbed]_vars

\* The flag is up exactly while a request restarts things, and one does at a time:
\* whichever step fails, nobody is told "busy" when no other goes on, and no request
\* stops what another has just started (operationsControl.ts:103-130).
OneRestart ==
  /\ restarting <=> InProgress # {}
  /\ \A r, s \in InProgress : r = s
=============================================================================
