------------------------------ MODULE ApiProcess ------------------------------
(***************************************************************************)
(* The life of an API process: the supervised realtime consumer            *)
(* (consumer.ts), the disposable Redis client of the health probe          *)
(* (socket-server.ts), the memoised Kafka admin client of the lag panel    *)
(* (consumer-lag.ts) and the shutdown of apps/api/src/index.ts.  Requests  *)
(* for health and for the panel come at any time and overlap.              *)
(***************************************************************************)
EXTENDS Naturals, FiniteSets

CONSTANTS
    ApiTriggers,    \* ways to ask for a stop: signals, stdin, a failed listen
    Pings,          \* health requests that may overlap
    LagReaders,     \* requests of the lag panel that may overlap
    MaxAdmins,      \* bound on the admin clients in use at a time
    MaxApiFaults    \* bound on crashes, refusals and timeouts

ASSUME ApiBoundsAssumption == MaxAdmins \in Nat /\ MaxApiFaults \in Nat

Admins == 1 .. MaxAdmins
Probes == 1 .. (Cardinality(Pings) + 2)

VARIABLES
    apiWanted,      \* the supervisor still wants a consumer
    apiLoop,        \* where its loop is
    consumer,       \* the realtime consumer is connected
    died,           \* the promise of this iteration has resolved
    apiRedis,       \* the adapter's two clients and the debug client, while open
    probe,          \* the probe client in use
    openProbes,     \* probe clients not disconnected
    ping,           \* per health request, the client it waits on, or 0
    rtClosed,       \* closed of createRealtimeServer
    admin,          \* per admin client: none, connecting, open, closed
    doomed,         \* connecting clients that are to be disconnected
    connecting,     \* the client behind the memoised promise, or 0
    asks,           \* per panel request, the client it waits on, or 0
    lagClosed,      \* closed of createConsumerLagProbe
    serving,        \* the HTTP server answers
    apiStops,       \* where each call of shutdown is
    awaited,        \* the admin client a shutdown waits for, or 0
    apiPool,        \* the PostgreSQL pool: open, ending, closed
    apiFaults       \* faults so far

consumerVars == <<apiWanted, apiLoop, consumer, died>>
probeVars == <<apiRedis, probe, openProbes, ping, rtClosed>>
lagVars == <<admin, doomed, connecting, asks, lagClosed>>
apiStopVars == <<serving, apiStops, awaited, apiPool>>
apiVars == <<consumerVars, probeVars, lagVars, apiStopVars, apiFaults>>

ApiFault == apiFaults < MaxApiFaults /\ apiFaults' = apiFaults + 1

ApiAsked == \E s \in ApiTriggers : apiStops[s] # "unasked"

ApiInit ==
    /\ apiWanted = TRUE /\ apiLoop = "connecting" /\ consumer = FALSE /\ died = FALSE
    /\ apiRedis = {"pub", "sub", "debug"} /\ probe = 1 /\ openProbes = {1}
    /\ ping = [p \in Pings |-> 0] /\ rtClosed = FALSE
    /\ admin = [c \in Admins |-> "none"] /\ doomed = {} /\ connecting = 0
    /\ asks = [r \in LagReaders |-> 0] /\ lagClosed = FALSE
    /\ serving = TRUE /\ apiStops = [s \in ApiTriggers |-> "unasked"]
    /\ awaited = [s \in ApiTriggers |-> 0] /\ apiPool = "open"
    /\ apiFaults = 0
----------------------------------------------------------------------------
(* superviseRealtimeConsumer *)

ConsumerConnects ==
    /\ apiLoop = "connecting"
    /\ apiLoop' = "joining" /\ consumer' = TRUE
    /\ UNCHANGED <<apiWanted, died, probeVars, lagVars, apiStopVars, apiFaults>>

ConsumerJoins ==
    /\ apiLoop = "joining"
    /\ apiLoop' = "holding"
    /\ UNCHANGED <<apiWanted, consumer, died, probeVars, lagVars, apiStopVars, apiFaults>>

AfterAttempt == IF apiWanted THEN "sleeping" ELSE "returned"

(* connect, subscribe or run fails; what was opened is disconnected. *)
ConsumerRefused ==
    /\ apiLoop \in {"connecting", "joining"} /\ ApiFault
    /\ apiLoop' = AfterAttempt /\ consumer' = FALSE
    /\ UNCHANGED <<apiWanted, died, probeVars, lagVars, apiStopVars>>

(* CRASH without a restart wakes the current iteration, whoever crashed. *)
ConsumerCrashes ==
    /\ apiLoop \in {"connecting", "joining", "holding"} /\ ~died /\ ApiFault
    /\ died' = TRUE
    /\ UNCHANGED <<apiWanted, apiLoop, consumer, probeVars, lagVars, apiStopVars>>

ConsumerDisconnects ==
    /\ apiLoop = "holding" /\ died
    /\ consumer' = FALSE /\ apiLoop' = AfterAttempt
    /\ UNCHANGED <<apiWanted, died, probeVars, lagVars, apiStopVars, apiFaults>>

(* The sleep is not cut short: a stop waits for it. *)
NextIteration ==
    /\ apiLoop = "sleeping"
    /\ apiLoop' = IF apiWanted THEN "connecting" ELSE "returned"
    /\ died' = IF apiWanted THEN FALSE ELSE died
    /\ UNCHANGED <<apiWanted, consumer, probeVars, lagVars, apiStopVars, apiFaults>>

ConsumerStep ==
    ConsumerConnects \/ ConsumerJoins \/ ConsumerRefused \/ ConsumerDisconnects \/ NextIteration
----------------------------------------------------------------------------
(* ping() of the realtime server *)

PingStarts(p) ==
    /\ serving /\ ping[p] = 0 /\ "pub" \in apiRedis
    /\ ping' = [ping EXCEPT ![p] = probe]
    /\ UNCHANGED <<consumerVars, apiRedis, probe, openProbes, rtClosed, lagVars, apiStopVars, apiFaults>>

PingAnswered(p) ==
    /\ ping[p] \in openProbes
    /\ ping' = [ping EXCEPT ![p] = 0]
    /\ UNCHANGED <<consumerVars, apiRedis, probe, openProbes, rtClosed, lagVars, apiStopVars, apiFaults>>

Unused == CHOOSE c \in Probes : c \notin openProbes \cup {ping[p] : p \in Pings}

(* Faulty variant of Replacement: a shutdown in between is not looked at. *)
ReplacementAlways == <<Unused, {Unused}>>

(* The client after a failed ping, and what it adds to the open ones. *)
Replacement == IF rtClosed THEN <<probe, {}>> ELSE <<Unused, {Unused}>>

(* It is the client in use that is disconnected, not the one pinged; a     *)
(* ping whose client another failure disconnected fails for free.          *)
PingFails(p) ==
    /\ ping[p] # 0
    /\ IF ping[p] \in openProbes THEN ApiFault ELSE UNCHANGED apiFaults
    /\ probe' = Replacement[1]
    /\ openProbes' = (openProbes \ {probe}) \cup Replacement[2]
    /\ ping' = [ping EXCEPT ![p] = 0]
    /\ UNCHANGED <<consumerVars, apiRedis, rtClosed, lagVars, apiStopVars>>

PingEnds(p) == PingAnswered(p) \/ PingFails(p)
----------------------------------------------------------------------------
(* The lag panel and its admin client *)

Referenced == {asks[r] : r \in LagReaders} \cup {awaited[s] : s \in ApiTriggers} \cup {connecting}

Forgettable(c) == admin[c] \in {"none", "closed"} /\ c \notin Referenced

(* Join the memoised connection, or start one and memoise it. *)
LagAsk(r) ==
    /\ serving /\ asks[r] = 0
    /\ \/ /\ connecting # 0
          /\ asks' = [asks EXCEPT ![r] = connecting]
          /\ UNCHANGED <<admin, connecting>>
       \/ /\ connecting = 0
          /\ \E c \in Admins :
              /\ Forgettable(c) /\ \A d \in 1 .. (c - 1) : ~Forgettable(d)
              /\ asks' = [asks EXCEPT ![r] = c]
              /\ admin' = [admin EXCEPT ![c] = "connecting"]
              /\ connecting' = c
    /\ UNCHANGED <<consumerVars, probeVars, doomed, lagClosed, apiStopVars, apiFaults>>

(* A connection made after close(), and one a failed request gave up on,   *)
(* is disconnected at once; the first also rejects, as a failure does.     *)
AdminConnects(c) ==
    /\ admin[c] = "connecting"
    /\ admin' = [admin EXCEPT ![c] = IF lagClosed \/ c \in doomed THEN "closed" ELSE "open"]
    /\ doomed' = doomed \ {c}
    /\ connecting' = IF lagClosed THEN 0 ELSE connecting
    /\ asks' = [r \in LagReaders |-> IF lagClosed /\ asks[r] = c THEN 0 ELSE asks[r]]
    /\ UNCHANGED <<consumerVars, probeVars, lagClosed, apiStopVars, apiFaults>>

(* A failed connection is not to be remembered - but the handler forgets   *)
(* whatever is remembered by then.                                         *)
AdminFails(c) ==
    /\ admin[c] = "connecting" /\ ApiFault
    /\ admin' = [admin EXCEPT ![c] = "closed"]
    /\ doomed' = doomed \ {c}
    /\ connecting' = 0
    /\ asks' = [r \in LagReaders |-> IF asks[r] = c THEN 0 ELSE asks[r]]
    /\ UNCHANGED <<consumerVars, probeVars, lagClosed, apiStopVars>>

LagAnswered(r) ==
    /\ asks[r] # 0 /\ admin[asks[r]] = "open"
    /\ asks' = [asks EXCEPT ![r] = 0]
    /\ UNCHANGED <<consumerVars, probeVars, admin, doomed, connecting, lagClosed, apiStopVars, apiFaults>>

(* A timeout or a failed read throws the remembered client away. *)
LagFails(r) ==
    /\ asks[r] # 0
    /\ IF admin[asks[r]] = "closed" THEN UNCHANGED apiFaults ELSE ApiFault
    /\ asks' = [asks EXCEPT ![r] = 0]
    /\ connecting' = 0
    /\ admin' = [c \in Admins |-> IF c = connecting /\ admin[c] = "open" THEN "closed" ELSE admin[c]]
    /\ doomed' = doomed \cup {c \in {connecting} \ {0} : admin[c] = "connecting"}
    /\ UNCHANGED <<consumerVars, probeVars, lagClosed, apiStopVars>>

AdminSettles(c) == AdminConnects(c) \/ AdminFails(c)
LagEnds(r) == LagAnswered(r) \/ LagFails(r)
----------------------------------------------------------------------------
(* shutdown(): one call per trigger, at any time, side by side *)

ApiAt(s, stage) == apiStops[s] = stage
ApiGoes(s, stage) == apiStops' = [apiStops EXCEPT ![s] = stage]

AskApiToStop(s) ==
    /\ ApiAt(s, "unasked") /\ apiPool # "closed"
    /\ apiWanted' = FALSE /\ died' = TRUE
    /\ ApiGoes(s, "consumer")
    /\ UNCHANGED <<apiLoop, consumer, probeVars, lagVars, serving, awaited, apiPool, apiFaults>>

ConsumerStopped(s) ==
    /\ ApiAt(s, "consumer") /\ apiLoop = "returned"
    /\ rtClosed' = TRUE /\ ApiGoes(s, "realtime")
    /\ UNCHANGED <<consumerVars, apiRedis, probe, openProbes, ping, lagVars, serving, awaited, apiPool, apiFaults>>

(* io.close() has closed the sockets; the clients go, and consumerLag      *)
(* closes or waits for the connection it remembers.                        *)
RealtimeClosed(s) ==
    /\ ApiAt(s, "realtime")
    /\ apiRedis' = apiRedis \ {"pub", "sub"} /\ openProbes' = openProbes \ {probe}
    /\ lagClosed' = TRUE /\ connecting' = 0
    /\ admin' = [c \in Admins |-> IF c = connecting /\ admin[c] = "open" THEN "closed" ELSE admin[c]]
    /\ awaited' = [awaited EXCEPT ![s] = connecting] /\ ApiGoes(s, "lag")
    /\ UNCHANGED <<consumerVars, probe, ping, rtClosed, doomed, asks, serving, apiPool, apiFaults>>

LagClosed(s) ==
    /\ ApiAt(s, "lag")
    /\ awaited[s] # 0 => admin[awaited[s]] # "connecting"
    /\ apiRedis' = apiRedis \ {"debug"}
    /\ awaited' = [awaited EXCEPT ![s] = 0] /\ ApiGoes(s, "app")
    /\ UNCHANGED <<consumerVars, probe, openProbes, ping, rtClosed, lagVars, serving, apiPool, apiFaults>>

(* app.close() takes no request any more and waits for those it has. *)
AppCloses(s) ==
    /\ ApiAt(s, "app")
    /\ serving' = FALSE /\ ApiGoes(s, "closing")
    /\ UNCHANGED <<consumerVars, probeVars, lagVars, awaited, apiPool, apiFaults>>

AppClosed(s) ==
    /\ ApiAt(s, "closing")
    /\ \A p \in Pings : ping[p] = 0
    /\ \A r \in LagReaders : asks[r] = 0
    /\ ApiGoes(s, "pool")
    /\ UNCHANGED <<consumerVars, probeVars, lagVars, serving, awaited, apiPool, apiFaults>>

(* closeDb(): pg refuses to end a pool twice, which is caught. *)
ApiCloseDb(s) ==
    /\ ApiAt(s, "pool")
    /\ apiPool' = IF apiPool = "open" THEN "ending" ELSE apiPool
    /\ ApiGoes(s, IF apiPool = "open" THEN "ending" ELSE "ended")
    /\ UNCHANGED <<consumerVars, probeVars, lagVars, serving, awaited, apiFaults>>

ApiPoolEnds(s) ==
    /\ ApiAt(s, "ending")
    /\ apiPool' = "closed" /\ ApiGoes(s, "ended")
    /\ UNCHANGED <<consumerVars, probeVars, lagVars, serving, awaited, apiFaults>>

ApiStopStep(s) ==
    \/ ConsumerStopped(s) \/ RealtimeClosed(s) \/ LagClosed(s) \/ AppCloses(s) \/ AppClosed(s)
    \/ ApiCloseDb(s) \/ ApiPoolEnds(s)
----------------------------------------------------------------------------
ApiNext ==
    \/ ConsumerStep \/ ConsumerCrashes
    \/ \E p \in Pings : PingStarts(p) \/ PingEnds(p)
    \/ \E r \in LagReaders : LagAsk(r) \/ LagEnds(r)
    \/ \E c \in Admins : AdminSettles(c)
    \/ \E s \in ApiTriggers : AskApiToStop(s) \/ ApiStopStep(s)

(* Every connect of kafkajs settles within its retries, every ping within  *)
(* its commandTimeout, every panel request within its timeout, timers fire *)
(* and awaits resume.                                                      *)
ApiFairness ==
    /\ WF_apiVars(ConsumerStep)
    /\ \A p \in Pings : WF_apiVars(PingEnds(p))
    /\ \A r \in LagReaders : WF_apiVars(LagEnds(r))
    /\ \A c \in Admins : WF_apiVars(AdminSettles(c))
    /\ \A s \in ApiTriggers : WF_apiVars(ApiStopStep(s))

ApiSpec == ApiInit /\ [][ApiNext]_apiVars /\ ApiFairness
----------------------------------------------------------------------------
(* Properties *)

ApiDown ==
    /\ apiLoop = "returned" /\ ~consumer
    /\ apiRedis = {} /\ openProbes = {} /\ apiPool = "closed" /\ ~serving
    /\ \A s \in ApiTriggers : apiStops[s] \in {"unasked", "ended"}

(* Asked to stop in any state - its consumer connecting or asleep, health  *)
(* requests in flight and failing - the API ends with no consumer, no      *)
(* Redis client and no pool left open (shutdown, superviseRealtimeConsumer,*)
(* ping).  Admin clients are the subject of AdminIsRemembered.             *)
ApiStopsClean == ApiAsked ~> []ApiDown

(* An admin client that is connected is the one connected() hands out, so  *)
(* that somebody disconnects it (consumer-lag.ts:40-46).                   *)
AdminIsRemembered == \A c \in Admins : admin[c] = "open" => c = connecting
=============================================================================
