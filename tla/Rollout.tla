-------------------------------- MODULE Rollout --------------------------------
(***************************************************************************)
(* The rollout of the push transport from the row in the table to the      *)
(* screen: ClientTransport asks FeatureFlags for its configuration while   *)
(* an operator toggles the flag on the debug page.                         *)
(***************************************************************************)
EXTENDS FeatureFlags, ClientTransport

CONSTANTS
    Debug,          \* the handlers that serve the debug page; the others serve Requests
    MaxFaults       \* bound on the Redis commands, and answers that are lost

ASSUME RolloutAssumption ==
    /\ Handlers = Requests \cup Debug
    /\ Requests \cap Debug = {}
    /\ MaxFaults \in Nat

VARIABLE lost

rolloutVars == <<flagVars, clientVars, lost>>

RolloutInit ==
    /\ Init
    /\ ClientInit
    /\ lost = 0

Faults == outages + lost

(* What resolveTransport makes of an answer. *)
Resolved(f) ==
    IF Resolves(handler[f].row, request[f].restaurant) THEN "PUSH" ELSE "POLLING"

(* A request that goes out reaches its handler. *)
Ask(f) ==
    \/ /\ request'[f] # ABSENT
       /\ Arrive(f)
    \/ /\ request'[f] = ABSENT
       /\ UNCHANGED flagVars

ScreenAsks(f) ==
    /\ \/ \E n \in 1..MaxMounts : Start(f, n)
       \/ \E latch \in Latches : Flip(f, latch)
    /\ Ask(f)
    /\ UNCHANGED lost

TimerAsks(f) ==
    /\ FlagPollTick(f)
    /\ Ask(f)
    /\ UNCHANGED lost

TakeReply(f, resolved) ==
    /\ Reply(f)
    /\ StartAnswered(f, resolved) \/ PollAnswered(f, resolved)

Answer(f) ==
    /\ request[f] # ABSENT
    /\ TakeReply(f, Resolved(f))
    /\ UNCHANGED lost

LoseAnswer(f) ==
    /\ Faults < MaxFaults
    /\ lost' = lost + 1
    /\ TakeReply(f, "UNKNOWN")

Visit ==
    /\ Unmount \/ \E r \in Restaurants : Mount(r)
    /\ UNCHANGED <<flagVars, lost>>

Toggle(d) ==
    /\ \E p \in Patches : WriteFlag(d, p)
    /\ UNCHANGED <<clientVars, lost>>

Serving(h) ==
    /\ Serve(h) \/ (Faults < MaxFaults /\ Stumble(h))
    /\ UNCHANGED <<clientVars, lost>>

DebugReply(d) ==
    /\ Reply(d)
    /\ UNCHANGED <<clientVars, lost>>

CacheMoves ==
    /\ LateFill \/ Expire
    /\ UNCHANGED <<clientVars, lost>>

RolloutNext ==
    \/ \E f \in Requests : ScreenAsks(f) \/ TimerAsks(f) \/ Answer(f) \/ LoseAnswer(f)
    \/ \E h \in Handlers : Serving(h)
    \/ \E d \in Debug : Toggle(d) \/ DebugReply(d)
    \/ Visit
    \/ CacheMoves

(* Requests are served and answered, the TTL passes and the timer ticks. *)
RolloutFairness ==
    /\ \A h \in Handlers : WF_rolloutVars(Serve(h) /\ UNCHANGED <<clientVars, lost>>)
    /\ \A f \in Requests : WF_rolloutVars(Answer(f))
    /\ \A d \in Debug : WF_rolloutVars(DebugReply(d))
    /\ WF_rolloutVars(\E f \in Requests : TimerAsks(f))
    /\ WF_rolloutVars(Expire /\ UNCHANGED <<clientVars, lost>>)

RolloutSpec == RolloutInit /\ [][RolloutNext]_rolloutVars /\ RolloutFairness
-----------------------------------------------------------------------------
RolloutTypeOK == TypeOK /\ ClientTypeOK /\ lost \in Nat

Wanted ==
    IF "polling-forced" \in latched \/ ~Resolves(row, screen) THEN "POLLING" ELSE "PUSH"

(* An operator's toggle reaches every open screen: whatever was answered    *)
(* from a stale cache, lost or overtaken, a screen that stays up ends on    *)
(* the transport that the row and its latches say, with the connection for *)
(* it (connection.ts: startFlagPoll).                                       *)
TransportSettles ==
    <>[](screen # ABSENT => transport = Wanted /\ connection = Opened(Wanted, latched))
=============================================================================
