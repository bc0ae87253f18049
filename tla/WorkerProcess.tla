---------------------------- MODULE WorkerProcess ----------------------------
(***************************************************************************)
(* The life of the worker process: the supervised broker session           *)
(* (broker-supervisor.ts, broker-session.ts), the publisher loop, the      *)
(* health server and the shutdown of apps/worker/src/index.ts.  What a     *)
(* pass writes is OutboxPublisher's subject and what a print attempt does  *)
(* is PrintPipeline's; here each is an activity that needs a connection    *)
(* and that a shutdown has to wait for.                                    *)
(***************************************************************************)
EXTENDS Naturals, FiniteSets

CONSTANTS
    WorkerTriggers,     \* ways to ask for a stop, each heard once: signals, stdin
    MaxWorkerFaults     \* bound on outages and refused connections

ASSUME WorkerFaultsAssumption == MaxWorkerFaults \in Nat

VARIABLES
    wanted,         \* the supervisor still wants a session
    loop,           \* where its loop is
    links,          \* broker clients that are connected
    session,        \* the supervisor's session variable is set
    dead,           \* whenDead of the latest connection has resolved
    broken,         \* the broker dropped the connection without a word
    pub,            \* where the publisher loop is
    passCompleted,  \* publisherPassCompleted
    running,        \* the publisher loop is to go on
    stops,          \* where each call of shutdown is
    health,         \* the health server: listening or closed
    redisUp,        \* Redis answers
    redis,          \* Redis clients of the process that are not closed
    printing,       \* BullMQ's worker: idle, in an attempt, or closed
    pool,           \* the PostgreSQL pool: open, ending, closed
    exitCode,       \* process.exitCode
    workerFaults    \* faults so far

brokerVars == <<wanted, loop, links, session, dead, broken>>
pubVars == <<pub, passCompleted, running>>
printVars == <<redisUp, redis, printing>>
workerVars == <<brokerVars, pubVars, stops, health, printVars, pool, exitCode, workerFaults>>

WorkerFault == workerFaults < MaxWorkerFaults /\ workerFaults' = workerFaults + 1

Asked == \E s \in WorkerTriggers : stops[s] # "unasked"

(* The top of the supervisor's loop: another attempt, or the end. *)
Again == IF wanted THEN "connecting" ELSE "returned"

(* The producer's connection, whose commands are given up after a while,   *)
(* and the one the print worker blocks on, whose commands are not.         *)
RedisClients == {"queue", "printer"}

(* A port that is taken is a warning: the worker does its work unobserved. *)
HealthBinds ==
    \/ health = "listening" /\ workerFaults = 0
    \/ health = "closed" /\ MaxWorkerFaults > 0 /\ workerFaults = 1

WorkerInit ==
    /\ wanted = TRUE /\ loop = "connecting" /\ links = {}
    /\ session = FALSE /\ dead = FALSE /\ broken = FALSE
    /\ pub = "top" /\ passCompleted = FALSE /\ running = TRUE
    /\ stops = [s \in WorkerTriggers |-> "unasked"]
    /\ redisUp = TRUE /\ redis = RedisClients /\ printing = "idle"
    /\ pool = "open" /\ exitCode = 0
    /\ HealthBinds
----------------------------------------------------------------------------
(* The supervised session *)

(* connectBroker: the topic and the producer, then the kitchen consumer.   *)
ProducerConnects ==
    /\ loop = "connecting"
    /\ loop' = "starting" /\ links' = {"producer"}
    /\ dead' = FALSE /\ broken' = FALSE
    /\ UNCHANGED <<wanted, session, pubVars, stops, health, printVars, pool, exitCode, workerFaults>>

(* The loop waits before its next try; a stop finds it waiting. *)
Retry == IF wanted THEN "backoff" ELSE "returned"

BrokerRefuses ==
    /\ loop = "connecting" /\ WorkerFault
    /\ loop' = Retry /\ session' = FALSE
    /\ UNCHANGED <<wanted, links, dead, broken, pubVars, stops, health, printVars, pool, exitCode>>

(* A consumer that fails to start must not leave the producer open. *)
KitchenFails ==
    /\ loop = "starting" /\ WorkerFault
    /\ loop' = Retry /\ links' = {} /\ session' = FALSE
    /\ UNCHANGED <<wanted, dead, broken, pubVars, stops, health, printVars, pool, exitCode>>

(* Faulty variant of Connected: nobody looks whether a stop came in between. *)
ConnectedRegardless == [loop |-> "holding", session |-> TRUE]

(* A session that was connected after the stop is closed at once: stop()   *)
(* could not see it.                                                       *)
Connected ==
    IF wanted THEN [loop |-> "holding", session |-> TRUE]
              ELSE [loop |-> "closing", session |-> session]

KitchenStarts ==
    /\ loop = "starting"
    /\ links' = links \cup {"kitchen"}
    /\ loop' = Connected.loop /\ session' = Connected.session
    /\ UNCHANGED <<wanted, dead, broken, pubVars, stops, health, printVars, pool, exitCode, workerFaults>>

(* A crash of the consumer or a disconnect of the producer. *)
SessionCrashes ==
    /\ loop \in {"starting", "holding"} /\ ~dead /\ WorkerFault
    /\ dead' = TRUE
    /\ UNCHANGED <<wanted, loop, links, session, broken, pubVars, stops, health, printVars, pool, exitCode>>

(* The broker vanishes and no event says so: the next send will. *)
BrokerVanishes ==
    /\ loop = "holding" /\ ~broken /\ WorkerFault
    /\ broken' = TRUE
    /\ UNCHANGED <<wanted, loop, links, session, dead, pubVars, stops, health, printVars, pool, exitCode>>

DeathSeen ==
    /\ loop = "holding" /\ dead
    /\ loop' = "closing"
    /\ UNCHANGED <<wanted, links, session, dead, broken, pubVars, stops, health, printVars, pool, exitCode, workerFaults>>

(* fresh.stop(): the consumer, then the producer. *)
CloseKitchen ==
    /\ loop = "closing" /\ "kitchen" \in links
    /\ dead' = TRUE /\ links' = links \ {"kitchen"}
    /\ UNCHANGED <<wanted, loop, session, broken, pubVars, stops, health, printVars, pool, exitCode, workerFaults>>

CloseProducer ==
    /\ loop = "closing" /\ "kitchen" \notin links
    /\ links' = {} /\ session' = FALSE /\ loop' = Retry
    /\ UNCHANGED <<wanted, dead, broken, pubVars, stops, health, printVars, pool, exitCode, workerFaults>>

BackoffEnds ==
    /\ loop = "backoff"
    /\ loop' = Again
    /\ UNCHANGED <<wanted, links, session, dead, broken, pubVars, stops, health, printVars, pool, exitCode, workerFaults>>

SupervisorStep ==
    \/ ProducerConnects \/ BrokerRefuses \/ KitchenFails \/ KitchenStarts
    \/ DeathSeen \/ CloseKitchen \/ CloseProducer \/ BackoffEnds
----------------------------------------------------------------------------
(* The publisher loop *)

PassStarts ==
    /\ pub = "top" /\ running /\ session
    /\ pub' = "passing"
    /\ UNCHANGED <<brokerVars, passCompleted, running, stops, health, printVars, pool, exitCode, workerFaults>>

(* No session, or paused: the loop idles.  A pause counts as a turn. *)
Hold ==
    /\ pub = "top" /\ running
    /\ pub' = "sleeping" /\ passCompleted' = (passCompleted \/ session)
    /\ UNCHANGED <<brokerVars, running, stops, health, printVars, pool, exitCode, workerFaults>>

(* A pass that finds nothing due, and one over a session that died, return *)
(* without a send; a productive one is followed by the next at once.       *)
PassReturns ==
    /\ pub = "passing"
    /\ pub' \in {"top", "sleeping"} /\ passCompleted' = TRUE
    /\ UNCHANGED <<brokerVars, running, stops, health, printVars, pool, exitCode, workerFaults>>

(* Faulty variant of SendFails: the failure is recorded on the row alone. *)
SendFailsQuietly ==
    /\ pub = "passing" /\ broken /\ ~dead
    /\ pub' = "sleeping" /\ passCompleted' = TRUE
    /\ UNCHANGED <<brokerVars, running, stops, health, printVars, pool, exitCode, workerFaults>>

(* guardTransport and the lease overrun: the failed send ends the session  *)
(* before the pass goes on.                                                *)
SendFails ==
    /\ pub = "passing" /\ broken /\ ~dead
    /\ dead' = TRUE
    /\ pub' = "sleeping" /\ passCompleted' = TRUE
    /\ UNCHANGED <<wanted, loop, links, session, broken, running, stops, health, printVars, pool, exitCode, workerFaults>>

(* PostgreSQL refuses a statement: no completed pass. *)
PassThrows ==
    /\ pub = "passing" /\ WorkerFault
    /\ pub' = "sleeping"
    /\ UNCHANGED <<brokerVars, passCompleted, running, stops, health, printVars, pool, exitCode>>

Wake ==
    /\ pub = "sleeping" /\ pub' = "top"
    /\ UNCHANGED <<brokerVars, passCompleted, running, stops, health, printVars, pool, exitCode, workerFaults>>

LoopEnds ==
    /\ pub = "top" /\ ~running
    /\ pub' = "ended"
    /\ UNCHANGED <<brokerVars, passCompleted, running, stops, health, printVars, pool, exitCode, workerFaults>>

PublisherStep == PassReturns \/ SendFails \/ Wake \/ LoopEnds
----------------------------------------------------------------------------
(* Redis and the print worker *)

RedisFails ==
    /\ redisUp /\ WorkerFault /\ redisUp' = FALSE
    /\ UNCHANGED <<brokerVars, pubVars, stops, health, redis, printing, pool, exitCode>>

RedisReturns ==
    /\ ~redisUp /\ redisUp' = TRUE
    /\ UNCHANGED <<brokerVars, pubVars, stops, health, redis, printing, pool, exitCode, workerFaults>>

(* printWorker.close() was called: no further job is taken. *)
PrintingStops == \E s \in WorkerTriggers :
    stops[s] \notin {"unasked", "publisher", "kitchen", "producer", "wake", "loop"}

AttemptStarts ==
    /\ printing = "idle" /\ redisUp /\ "printer" \in redis /\ ~PrintingStops
    /\ printing' = "attempt"
    /\ UNCHANGED <<brokerVars, pubVars, stops, health, redisUp, redis, pool, exitCode, workerFaults>>

(* The printer answers or the bounded request times out. *)
AttemptEnds ==
    /\ printing = "attempt" /\ printing' = "idle"
    /\ UNCHANGED <<brokerVars, pubVars, stops, health, redisUp, redis, pool, exitCode, workerFaults>>
----------------------------------------------------------------------------
(* The health server *)

IsAlive == session /\ ~dead
IsConsuming == printing # "closed" /\ redisUp /\ "printer" \in redis

(* describeWorkerReadiness over the probe of index.ts. *)
Ready == IsAlive /\ passCompleted /\ IsConsuming
----------------------------------------------------------------------------
(* shutdown(): one call per trigger, at any time, side by side *)

At(s, stage) == stops[s] = stage
Goes(s, stage) == stops' = [stops EXCEPT ![s] = stage]

(* closeServer: the connections of probes are cut, so the close cannot     *)
(* hang; without a server there is nothing to close.                       *)
HealthCloses == health' = "closed"

(* Everything before the first await. *)
AskToStop(s) ==
    /\ At(s, "unasked") /\ pool # "closed"
    /\ running' = FALSE /\ HealthCloses
    /\ Goes(s, "publisher")
    /\ UNCHANGED <<brokerVars, pub, passCompleted, printVars, pool, exitCode, workerFaults>>

PublisherEnded(s) ==
    /\ At(s, "publisher") /\ pub = "ended"
    /\ wanted' = FALSE
    /\ dead' = (dead \/ session)
    /\ Goes(s, IF session THEN "kitchen" ELSE "wake")
    /\ UNCHANGED <<loop, links, session, broken, pubVars, health, printVars, pool, exitCode, workerFaults>>

(* session.stop() of the supervisor's stop; the loop closes it as well. *)
StopKitchen(s) ==
    /\ At(s, "kitchen")
    /\ links' = links \ {"kitchen"} /\ Goes(s, "producer")
    /\ UNCHANGED <<wanted, loop, session, dead, broken, pubVars, health, printVars, pool, exitCode, workerFaults>>

StopProducer(s) ==
    /\ At(s, "producer")
    /\ links' = links \ {"producer"} /\ Goes(s, "wake")
    /\ UNCHANGED <<wanted, loop, session, dead, broken, pubVars, health, printVars, pool, exitCode, workerFaults>>

(* wakeFromBackoff is set only while the loop waits. *)
WakeLoop(s) ==
    /\ At(s, "wake")
    /\ loop' = IF loop = "backoff" THEN Again ELSE loop
    /\ Goes(s, "loop")
    /\ UNCHANGED <<wanted, links, session, dead, broken, pubVars, health, printVars, pool, exitCode, workerFaults>>

LoopReturned(s) ==
    /\ At(s, "loop") /\ loop = "returned"
    /\ Goes(s, "print worker")
    /\ UNCHANGED <<brokerVars, pubVars, health, printVars, pool, exitCode, workerFaults>>

PrintSteps == <<"print worker", "print queue", "queue redis", "printer redis", "drop">>

(* What a step of stopPrinting waits for: the attempt in flight, and an    *)
(* answer of Redis unless the client is closed already.                    *)
Settles(k) ==
    /\ k = 1 => printing # "attempt"
    /\ k \in {2, 3} => redisUp \/ "queue" \notin redis
    /\ k = 4 => redisUp \/ "printer" \notin redis

PrintStepSettles(s) == \E k \in 1 .. 4 :
    /\ At(s, PrintSteps[k]) /\ Settles(k)
    /\ Goes(s, PrintSteps[k + 1])
    /\ printing' = IF k = 1 THEN "closed" ELSE printing
    /\ redis' = redis \ (IF k = 3 THEN {"queue"} ELSE IF k = 4 THEN {"printer"} ELSE {})
    /\ UNCHANGED <<brokerVars, pubVars, health, redisUp, pool, exitCode, workerFaults>>

(* settleWithin: the deadline passes, the rest is skipped. *)
PrintStepOverruns(s) == \E k \in 1 .. 4 :
    /\ At(s, PrintSteps[k])
    /\ Goes(s, "drop")
    /\ UNCHANGED <<brokerVars, pubVars, health, printVars, pool, exitCode, workerFaults>>

(* The disconnects are unconditional and ask Redis nothing. *)
DropSockets(s) ==
    /\ At(s, "drop")
    /\ redis' = {} /\ Goes(s, "pool")
    /\ UNCHANGED <<brokerVars, pubVars, health, redisUp, printing, pool, exitCode, workerFaults>>

(* closeDb(): nothing to do without a handle; pg refuses to end a pool     *)
(* twice, and that call of shutdown ends with an exit code of 1.           *)
CloseDb(s) ==
    /\ At(s, "pool")
    /\ pool' = IF pool = "open" THEN "ending" ELSE pool
    /\ Goes(s, IF pool = "open" THEN "ending" ELSE "ended")
    /\ exitCode' = IF pool = "ending" THEN 1 ELSE exitCode
    /\ UNCHANGED <<brokerVars, pubVars, health, printVars, workerFaults>>

PoolEnds(s) ==
    /\ At(s, "ending")
    /\ pool' = "closed" /\ Goes(s, "ended")
    /\ UNCHANGED <<brokerVars, pubVars, health, printVars, exitCode, workerFaults>>

StopStep(s) ==
    \/ PublisherEnded(s) \/ StopKitchen(s) \/ StopProducer(s) \/ WakeLoop(s) \/ LoopReturned(s)
    \/ PrintStepSettles(s) \/ PrintStepOverruns(s) \/ DropSockets(s) \/ CloseDb(s) \/ PoolEnds(s)
----------------------------------------------------------------------------
WorkerNext ==
    \/ SupervisorStep \/ SessionCrashes \/ BrokerVanishes
    \/ PublisherStep \/ PassStarts \/ Hold \/ PassThrows
    \/ RedisFails \/ RedisReturns \/ AttemptStarts \/ AttemptEnds
    \/ \E s \in WorkerTriggers : AskToStop(s) \/ StopStep(s)

(* Timers fire, promises settle: kafkajs ends every connect within its     *)
(* retries, a pass within its lease and a print attempt within its         *)
(* timeout.  Three assumptions only ComesBack needs: the switch is not     *)
(* paused for ever, events keep coming - a dead connection is noticed by   *)
(* the send that fails - and an outage of Redis ends.                      *)
WorkerFairness ==
    /\ WF_workerVars(SupervisorStep)
    /\ WF_workerVars(PublisherStep) /\ SF_workerVars(PassStarts) /\ SF_workerVars(SendFails)
    /\ WF_workerVars(AttemptEnds) /\ WF_workerVars(RedisReturns)
    /\ \A s \in WorkerTriggers : WF_workerVars(StopStep(s))

WorkerSpec == WorkerInit /\ [][WorkerNext]_workerVars /\ WorkerFairness
----------------------------------------------------------------------------
(* Properties *)

WorkerDown ==
    /\ links = {} /\ redis = {} /\ pool = "closed" /\ health = "closed"
    /\ loop = "returned" /\ pub = "ended" /\ printing # "attempt"
    /\ \A s \in WorkerTriggers : stops[s] \in {"unasked", "ended"}

(* Asked to stop in whatever state it is - connecting, backing off, in a   *)
(* pass, in a print attempt, without Redis - and perhaps asked twice, the  *)
(* worker comes to an end with nothing left open (shutdown, supervise).    *)
WorkerStopsClean == Asked ~> []WorkerDown

(* A worker nobody stops always works again after an outage: it has a      *)
(* session whose connection is whole, has completed a pass, and prints.    *)
(* An outage the broker does not announce is noticed (guardTransport).     *)
ComesBack == []<>(Asked \/ (Ready /\ ~broken))
=============================================================================
