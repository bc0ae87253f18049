---------------------------- MODULE ClientTransport ----------------------------
(***************************************************************************)
(* How one screen chooses the way it reaches the server: the connection    *)
(* store of apps/web (stores/connection.ts), which opens a socket that is  *)
(* pushed to or a poll of the snapshot, as the configuration says.         *)
(*                                                                         *)
(* The store compares generation numbers, and the options a start was      *)
(* given, only to see whether they are still the ones it holds.  So an     *)
(* answer on its way and a connection carry current, which is TRUE until   *)
(* the store moves on, instead of a number.  What the configuration        *)
(* endpoint answers is a parameter of the actions.                         *)
(***************************************************************************)
EXTENDS Naturals, FiniteSets

CONSTANTS
    Restaurants,
    MaxRequests,    \* bound on the GET /api/config requests out at once
    MaxPolls,       \* bound on those of them that the flag poll sent
    MaxMounts,      \* bound on the screens mounted
    MaxFlips,       \* bound on the flips of a latch
    ABSENT            \* no screen, no request, no connection

ASSUME ClientAssumption ==
    {MaxRequests, MaxPolls, MaxMounts, MaxFlips} \subseteq Nat

Requests == 1..MaxRequests
Latches  == {"polling-forced", "socket-disabled"}

VARIABLES
    mounted,        \* the restaurant of the mounted screen, or ABSENT
    arriving,       \* the screens that still restore what they show before they start
    screen,         \* lastOptions: the restaurant the store was last started for, or ABSENT
    transport,      \* transport.value
    connection,     \* the connection the store holds
    open,           \* browser: every connection that was opened and not closed
    flagPoll,       \* the timer of the flag poll runs
    request,        \* the requests for the configuration that are out
    latched,        \* the simulator's latches that are thrown
    mounts, flips

linkVars   == <<transport, connection, open, flagPoll>>
viewVars   == <<mounted, arriving, mounts>>
clientVars == <<viewVars, screen, linkVars, request, latched, flips>>

Transports  == {"UNKNOWN", "PUSH", "POLLING"}
Connections == [kind: {"PUSH", "POLLING"}, current: BOOLEAN]
Kinds       == {"start", "poll"}

Outdated(r, kinds) ==
    IF r # ABSENT /\ r.by \in kinds THEN [r EXCEPT !.current = FALSE] ELSE r

(* Faulty variant of Abandoned: stop() and start() leave the answers on their way as they are. *)
StillWanted == request

(* The requests after the generation has moved on, and after the options have. *)
Superseded == [f \in Requests |-> Outdated(request[f], {"start"})]
Abandoned  == [f \in Requests |-> Outdated(request[f], Kinds)]

Polls == {f \in Requests : request[f] # ABSENT /\ request[f].by = "poll"}

IsNextFree(f) == request[f] = ABSENT /\ \A g \in 1..(f - 1) : request[g] # ABSENT
-----------------------------------------------------------------------------
ClientInit ==
    /\ mounted = ABSENT
    /\ arriving = [n \in 1..MaxMounts |-> ABSENT]
    /\ screen = ABSENT
    /\ transport = "UNKNOWN"
    /\ connection = ABSENT
    /\ open = {}
    /\ flagPoll = FALSE
    /\ request = [f \in Requests |-> ABSENT]
    /\ latched = {}
    /\ mounts = 0
    /\ flips = 0

(* teardown(), and what the store builds in the same turn if anything. *)
Replace(new) ==
    /\ connection' = new
    /\ open' = {[c EXCEPT !.current = FALSE] : c \in open \ {connection}}
               \cup ({new} \ {ABSENT})

Opened(resolved, thrown) ==
    IF resolved = "UNKNOWN" \/ (resolved = "PUSH" /\ "socket-disabled" \in thrown)
    THEN ABSENT
    ELSE [kind |-> resolved, current |-> TRUE]

(* Faulty variant of Open: the flag poll runs only while there is a connection to look after. *)
OpenedIsPolled(resolved, thrown) ==
    /\ Replace(Opened(resolved, thrown))
    /\ transport' = resolved
    /\ flagPoll' = (Opened(resolved, thrown) # ABSENT)

(* open(): install the transport for an answer in hand. *)
Open(resolved, thrown) ==
    /\ Replace(Opened(resolved, thrown))
    /\ transport' = resolved
    /\ flagPoll' = TRUE

(* start() from the claim on: with polling forced it opens at once, else it *)
(* asks for the configuration and leaves the screen as it is meanwhile.     *)
Begin(f, restaurant, thrown, out) ==
    /\ screen' = restaurant
    /\ IsNextFree(f)
    /\ \/ /\ "polling-forced" \in thrown
          /\ Open("POLLING", thrown)
          /\ request' = out
       \/ /\ "polling-forced" \notin thrown
          /\ request' = [out EXCEPT ![f] =
                [by |-> "start", restaurant |-> restaurant, current |-> TRUE]]
          /\ UNCHANGED linkVars

(* A screen is mounted, or its terminal changes.  It reads the disk and the  *)
(* menu or the tickets, and starts the store when it has them.               *)
Mount(restaurant) ==
    /\ mounted = ABSENT
    /\ mounts < MaxMounts
    /\ mounts' = mounts + 1
    /\ mounted' = restaurant
    /\ arriving' = [arriving EXCEPT ![mounts + 1] = restaurant]
    /\ UNCHANGED <<screen, linkVars, request, latched, flips>>

Start(f, n) ==
    /\ arriving[n] # ABSENT
    /\ arriving' = [arriving EXCEPT ![n] = ABSENT]
    /\ Begin(f, arriving[n], latched, Abandoned)
    /\ UNCHANGED <<mounted, mounts, latched, flips>>

(* A latch is flipped on the debug page: the watcher starts the screen anew. *)
Flip(f, latch) ==
    /\ flips < MaxFlips
    /\ flips' = flips + 1
    /\ latched' = (latched \ {latch}) \cup ({latch} \ latched)
    /\ \/ /\ screen # ABSENT
          /\ Begin(f, screen, latched', Superseded)
       \/ /\ screen = ABSENT
          /\ UNCHANGED <<screen, linkVars, request>>
    /\ UNCHANGED viewVars

(* The screen is unmounted: stop(). *)
Unmount ==
    /\ mounted # ABSENT
    /\ mounted' = ABSENT
    /\ screen' = ABSENT
    /\ Replace(ABSENT)
    /\ flagPoll' = FALSE
    /\ request' = Abandoned
    /\ UNCHANGED <<arriving, mounts, transport, latched, flips>>

(* An answer that came too late, or that is no news, changes nothing. *)
Dropped(f) ==
    /\ request' = [request EXCEPT ![f] = ABSENT]
    /\ UNCHANGED linkVars

Installed(f, resolved) ==
    /\ request' = [Superseded EXCEPT ![f] = ABSENT]
    /\ Open(resolved, latched)

(* start() goes on with the answer; UNKNOWN if the request failed. *)
StartAnswered(f, resolved) ==
    /\ request[f] # ABSENT
    /\ request[f].by = "start"
    /\ IF request[f].current THEN Installed(f, resolved) ELSE Dropped(f)
    /\ UNCHANGED <<viewVars, screen, latched, flips>>

(* To the flag poll a failure and the transport in use are no news. *)
PollAnswered(f, resolved) ==
    /\ request[f] # ABSENT
    /\ request[f].by = "poll"
    /\ IF request[f].current /\ resolved \notin {"UNKNOWN", transport}
       THEN Installed(f, resolved)
       ELSE Dropped(f)
    /\ UNCHANGED <<viewVars, screen, latched, flips>>

(* The timer of the flag poll.  With polling forced nothing is asked. *)
FlagPollTick(f) ==
    /\ flagPoll
    /\ screen # ABSENT
    /\ IsNextFree(f)
    /\ \/ /\ "polling-forced" \notin latched
          /\ Cardinality(Polls) < MaxPolls
          /\ request' = [request EXCEPT ![f] =
                [by |-> "poll", restaurant |-> screen, current |-> TRUE]]
          /\ UNCHANGED linkVars
       \/ /\ "polling-forced" \in latched
          /\ transport # "POLLING"
          /\ Open("POLLING", latched)
          /\ request' = Superseded
    /\ UNCHANGED <<viewVars, screen, latched, flips>>
-----------------------------------------------------------------------------
ClientTypeOK ==
    /\ {mounted, screen} \subseteq Restaurants \cup {ABSENT}
    /\ arriving \in [1..MaxMounts -> Restaurants \cup {ABSENT}]
    /\ transport \in Transports
    /\ connection \in Connections \cup {ABSENT}
    /\ open \subseteq Connections
    /\ flagPoll \in BOOLEAN
    /\ \A f \in Requests :
            request[f] \in [by: Kinds, restaurant: Restaurants, current: BOOLEAN] \cup {ABSENT}
    /\ latched \subseteq Latches
    /\ {mounts, flips} \subseteq Nat

(* The browser has at most one connection open, it is the one the store     *)
(* holds and can close, and after a stop() it has none until the next       *)
(* start() - whenever the answer that a start or the flag poll waited for   *)
(* arrives (connection.ts: generation).                                     *)
OneConnection ==
    /\ open = {connection} \ {ABSENT}
    /\ screen = ABSENT => connection = ABSENT /\ ~flagPoll

(* A connection cannot outlive the stop() of the screen that asked for it   *)
(* (connection.ts:63-68).                                                   *)
NoneOutlivesItsScreen == mounted = ABSENT => open = {}
=============================================================================
