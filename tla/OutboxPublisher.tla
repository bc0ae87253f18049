-------------------------- MODULE OutboxPublisher --------------------------
(***************************************************************************)
(* The outbox publisher of the worker: publishOnce() of                    *)
(* apps/worker/src/modules/events/outbox-publisher.ts, run by any number   *)
(* of worker processes against one outbox_events table and one topic, with *)
(* the supervised broker session each of them sends through, the pause     *)
(* switch they poll, and the /debug replay of the last published event.    *)
(*                                                                         *)
(* An event is <<order, version>>.  Claiming, marking, failing and         *)
(* releasing are one SQL statement each, and one action each.  A send is   *)
(* in flight between them, and every step of every other actor may come in *)
(* between.                                                                *)
(***************************************************************************)
EXTENDS Naturals, FiniteSets

CONSTANTS
    Orders,         \* aggregates: the keys of the topic
    LastVersion,    \* bound on the events of an order
    Workers,        \* publisher processes
    BatchSize,      \* OUTBOX_BATCH_SIZE
    MaxAttempts,    \* OUTBOX_MAX_ATTEMPTS
    MaxFaults,      \* bound on crashes, lost sessions, slow passes, ...
    NULL            \* no claim

ASSUME ConstantsAssumption ==
    /\ LastVersion \in Nat /\ BatchSize \in Nat \ {0} /\ MaxAttempts \in Nat \ {0}
    /\ MaxFaults \in Nat
    /\ NULL \notin Workers

Events == Orders \X (1 .. LastVersion)

ASSUME NullAssumption == NULL \notin Events

VARIABLES
    committed,      \* per order, how many of its events are in the outbox
    published,      \* events whose row has a published_at
    dead,           \* events whose row has a dead_lettered_at
    due,            \* events whose next_attempt_at has passed
    owner,          \* claimed_by, per event
    lapsed,         \* claimed events whose claim_until has passed
    attempts,       \* attempt_count, per event
    paused,         \* the pause switch in outbox_controls
    onTopic,        \* events with at least one record on the topic
    stray,          \* sends nobody waits for any more, which may still land
    pc,             \* where each worker is in its pass
    batch,          \* the events a pass claimed and has not settled
    cur,            \* the event a pass is sending, or settling
    clock,          \* does the lease of the pass still cover a send?
    alive,          \* isTransportAlive of the session the pass started with
    attemptsRead,   \* the attempt_count the claim returned
    pauseSeen,      \* the polled copy of the switch
    session,        \* the supervised broker session of each worker
    faults,         \* faults so far
    everDead,       \* history: events that were ever dead lettered
    late,           \* history: events first recorded behind a later version
    disowned,       \* history: events whose claim another worker cleared
    charged         \* history: attempts a pass spent on a failing broker

rowVars    == <<committed, published, dead, due, owner, lapsed, attempts>>
topicVars  == <<onTopic, stray, late>>
passVars   == <<pc, batch, cur, clock, alive, attemptsRead, charged>>
switchVars == <<paused, pauseSeen>>
vars == <<rowVars, topicVars, passVars, switchVars, session, faults, everDead, disowned>>

----------------------------------------------------------------------------
(* The outbox *)

Earlier(e) == {f \in Events : f[1] = e[1] /\ f[2] < e[2]}

Exists(e) == e[2] <= committed[e[1]]

Unsettled(e) == Exists(e) /\ e \notin published /\ e \notin dead

(* Faulty variant of Claimable: any version may be claimed. *)
ClaimableUnordered(e) ==
    Unsettled(e) /\ e \in due /\ (owner[e] = NULL \/ e \in lapsed)

(* Faulty variant of Claimable: a dead letter blocks its order for ever. *)
ClaimableBehindDead(e) ==
    /\ Unsettled(e) /\ e \in due
    /\ owner[e] = NULL \/ e \in lapsed
    /\ \A f \in Earlier(e) : f \in published

(* The candidates of claimBatch: one event per order at most, the earliest *)
(* that is neither published nor dead lettered.                            *)
Claimable(e) ==
    /\ Unsettled(e) /\ e \in due
    /\ owner[e] = NULL \/ e \in lapsed
    /\ \A f \in Earlier(e) : ~Unsettled(f)

(* Faulty variant of ClearClaim: claim_until is forgotten. *)
ClearClaimHalf(e) ==
    /\ owner' = [owner EXCEPT ![e] = NULL]
    /\ UNCHANGED lapsed

(* claimed_by and claim_until of e become null, whoever holds the claim. *)
ClearClaim(e) ==
    /\ owner' = [owner EXCEPT ![e] = NULL]
    /\ lapsed' = lapsed \ {e}

(* The write path inserts the next version of an order. *)
Commit(o) ==
    /\ committed[o] < LastVersion
    /\ committed' = [committed EXCEPT ![o] = @ + 1]
    /\ UNCHANGED <<published, dead, due, owner, lapsed, attempts, topicVars, passVars,
                   switchVars, session, faults, everDead, disowned>>

----------------------------------------------------------------------------
(* A pass *)

InFlight(w) == pc[w] \in {"sending", "landed"}

(* Faulty variant of MayGoOn: the session is not looked at. *)
MayGoOnBlindly(w) == ~pauseSeen[w] /\ clock[w] = "fresh"

(* reasonToStop() finds none. *)
MayGoOn(w) == alive[w] /\ ~pauseSeen[w] /\ clock[w] = "fresh"

(* The pass goes on with what is left of its batch, or is over. *)
Continue(w, rest) ==
    /\ batch' = [batch EXCEPT ![w] = rest]
    /\ pc' = [pc EXCEPT ![w] = IF rest = {} THEN "idle" ELSE "choosing"]
    /\ cur' = [cur EXCEPT ![w] = NULL]
    /\ charged' = [charged EXCEPT ![w] = IF rest = {} THEN 0 ELSE @]
    /\ clock' = [clock EXCEPT ![w] = IF rest = {} THEN "fresh" ELSE @]
    /\ alive' = [alive EXCEPT ![w] = rest # {} /\ @]
    /\ attemptsRead' = [attemptsRead EXCEPT ![w] =
                           [e \in Events |-> IF e \in rest THEN @[e] ELSE 0]]

EndPass(w) == Continue(w, {})

Goto(w, step) ==
    /\ pc' = [pc EXCEPT ![w] = step]
    /\ UNCHANGED <<batch, cur, clock, alive, attemptsRead, charged>>

Fault ==
    /\ faults < MaxFaults
    /\ faults' = faults + 1

(* claimBatch: the rows it skips are those other claims hold locked. *)
Claim(w) ==
    /\ pc[w] = "idle"
    /\ session[w] # "none" /\ ~pauseSeen[w]
    /\ \E claim \in SUBSET {e \in Events : Claimable(e)} :
        /\ claim # {} /\ Cardinality(claim) <= BatchSize
        /\ owner' = [e \in Events |-> IF e \in claim THEN w ELSE owner[e]]
        /\ lapsed' = lapsed \ claim
        /\ batch' = [batch EXCEPT ![w] = claim]
        /\ attemptsRead' = [attemptsRead EXCEPT ![w] =
                               [e \in Events |-> IF e \in claim THEN attempts[e] ELSE 0]]
    /\ pc' = [pc EXCEPT ![w] = "choosing"]
    /\ alive' = [alive EXCEPT ![w] = session[w] = "up"]
    /\ UNCHANGED <<committed, published, dead, due, attempts, topicVars, cur, clock, charged,
                   switchVars, session, faults, everDead, disowned>>

(* The check and the call of publish() are one synchronous step. *)
Send(w) ==
    /\ pc[w] = "choosing"
    /\ MayGoOn(w)
    /\ \E e \in batch[w] : cur' = [cur EXCEPT ![w] = e]
    /\ pc' = [pc EXCEPT ![w] = "sending"]
    /\ UNCHANGED <<rowVars, topicVars, batch, clock, alive, attemptsRead, charged,
                   switchVars, session, faults, everDead, disowned>>

GiveUp(w) ==
    /\ pc[w] = "choosing"
    /\ ~MayGoOn(w)
    /\ Goto(w, "releasing")
    /\ UNCHANGED <<rowVars, topicVars, switchVars, session, faults, everDead, disowned>>

----------------------------------------------------------------------------
(* The broker *)

AppendRecord(e) ==
    /\ onTopic' = onTopic \cup {e}
    /\ late' = IF e \notin onTopic /\ \E f \in onTopic : e \in Earlier(f)
               THEN late \cup {e} ELSE late

(* What becomes of a send its worker stops waiting for. *)
AbandonSend(w) ==
    /\ stray' = IF pc[w] = "sending" THEN stray \cup {cur[w]} ELSE stray
    /\ UNCHANGED <<onTopic, late>>

(* die() of the session the pass runs on, which may already be replaced. *)
EndOwnSession(w) ==
    /\ session' = [session EXCEPT ![w] = IF alive[w] THEN "dead" ELSE @]
    /\ alive' = [alive EXCEPT ![w] = FALSE]

Land(w) ==
    /\ pc[w] = "sending"
    /\ AppendRecord(cur[w])
    /\ Goto(w, "landed")
    /\ UNCHANGED <<rowVars, stray, switchVars, session, faults, everDead, disowned>>

LandStray(e) ==
    /\ e \in stray
    /\ AppendRecord(e)
    /\ stray' = stray \ {e}
    /\ UNCHANGED <<rowVars, passVars, switchVars, session, faults, everDead, disowned>>

Acknowledged(w) ==
    /\ pc[w] = "landed"
    /\ Goto(w, "acked")
    /\ UNCHANGED <<rowVars, topicVars, switchVars, session, faults, everDead, disowned>>

(* The broker refuses this record: the session stays. *)
Rejected(w) ==
    /\ pc[w] = "sending"
    /\ Goto(w, "failed")
    /\ UNCHANGED <<rowVars, topicVars, switchVars, session, faults, everDead, disowned>>

(* Any other failure ends the session before the pass hears of it; the     *)
(* record may have landed, or be about to.                                 *)
Failed(w) ==
    /\ InFlight(w)
    /\ AbandonSend(w)
    /\ EndOwnSession(w)
    /\ pc' = [pc EXCEPT ![w] = "failed"]
    /\ charged' = [charged EXCEPT ![w] = @ + 1]
    /\ UNCHANGED <<rowVars, batch, cur, clock, attemptsRead, switchVars, faults, everDead, disowned>>

(* Faulty variant of Overrun: the send is taken for a success. *)
OverrunTaken(w) ==
    /\ InFlight(w) /\ clock[w] = "overdue"
    /\ AbandonSend(w)
    /\ EndOwnSession(w)
    /\ pc' = [pc EXCEPT ![w] = "acked"]
    /\ UNCHANGED <<rowVars, batch, cur, clock, attemptsRead, charged, switchVars,
                   faults, everDead, disowned>>

(* The send outlives the lease: no attempt is spent, the session is ended  *)
(* and the current row goes back with the rest.                            *)
Overrun(w) ==
    /\ InFlight(w) /\ clock[w] = "overdue"
    /\ AbandonSend(w)
    /\ EndOwnSession(w)
    /\ pc' = [pc EXCEPT ![w] = "releasing"]
    /\ UNCHANGED <<rowVars, batch, cur, clock, attemptsRead, charged, switchVars,
                   faults, everDead, disowned>>

----------------------------------------------------------------------------
(* The outcome is written *)

Disown(w, e) ==
    disowned' = IF owner[e] \in {w, NULL} THEN disowned ELSE disowned \cup {e}

(* Not guarded on the claim, and it leaves a dead letter mark alone. *)
MarkPublished(w) ==
    /\ pc[w] = "acked"
    /\ published' = published \cup {cur[w]}
    /\ ClearClaim(cur[w])
    /\ Disown(w, cur[w])
    /\ Continue(w, batch[w] \ {cur[w]})
    /\ UNCHANGED <<committed, dead, due, attempts, topicVars, switchVars, session, faults, everDead>>

(* Not guarded on the claim either; it counts from the attempts the claim  *)
(* returned, and sets or clears the dead letter mark.                      *)
RecordFailure(w) ==
    LET e       == cur[w]
        attempt == attemptsRead[w][e] + 1
    IN  /\ pc[w] = "failed"
        /\ attempts' = [attempts EXCEPT ![e] = attempt]
        /\ due' = due \ {e}
        /\ \/ /\ attempt >= MaxAttempts
              /\ dead' = dead \cup {e}
              /\ everDead' = everDead \cup {e}
           \/ /\ attempt < MaxAttempts
              /\ dead' = dead \ {e}
              /\ UNCHANGED everDead
        /\ ClearClaim(e)
        /\ Disown(w, e)
        /\ Continue(w, batch[w] \ {e})
        /\ UNCHANGED <<committed, published, topicVars, switchVars, session, faults>>

(* Faulty variant of Releasable: the claim is not looked at. *)
ReleasableUnguarded(w, e) == e \in batch[w] /\ e \notin published

(* releaseClaims, guarded on the claim and on the row being unpublished. *)
Releasable(w, e) == e \in batch[w] /\ owner[e] = w /\ e \notin published

Release(w) ==
    /\ pc[w] = "releasing"
    /\ owner' = [e \in Events |-> IF Releasable(w, e) THEN NULL ELSE owner[e]]
    /\ lapsed' = {e \in lapsed : ~Releasable(w, e)}
    /\ EndPass(w)
    /\ UNCHANGED <<committed, published, dead, due, attempts, topicVars, switchVars, session,
                   faults, everDead, disowned>>

(* A statement fails: the pass throws, the loop logs it, the claims stand. *)
StatementFails(w) ==
    /\ pc[w] \in {"acked", "failed", "releasing"}
    /\ Fault
    /\ EndPass(w)
    /\ UNCHANGED <<rowVars, topicVars, switchVars, session, everDead, disowned>>

(* The process dies, and another is started in its place. *)
Crash(w) ==
    /\ pc[w] # "idle"
    /\ Fault
    /\ AbandonSend(w)
    /\ EndPass(w)
    /\ session' = [session EXCEPT ![w] = "none"]
    /\ UNCHANGED <<rowVars, switchVars, everDead, disowned>>

----------------------------------------------------------------------------
(* Time *)

(* The budget of the lease, measured from before the claim, is used up: by *)
(* a slow claim, a slow send, the publish delay or a stalled process.      *)
BudgetSpent(w) ==
    /\ pc[w] # "idle" /\ clock[w] = "fresh"
    /\ Fault
    /\ clock' = [clock EXCEPT ![w] = "overdue"]
    /\ UNCHANGED <<rowVars, topicVars, pc, batch, cur, alive, attemptsRead, charged, switchVars,
                   session, everDead, disowned>>

(* claim_until passes. The budget of the pass that claimed the row ends    *)
(* before that, by the safety fraction.                                    *)
LeaseLapses(e) ==
    /\ owner[e] # NULL /\ e \notin lapsed
    /\ e \in batch[owner[e]] => clock[owner[e]] = "overdue"
    /\ lapsed' = lapsed \cup {e}
    /\ UNCHANGED <<committed, published, dead, due, owner, attempts, topicVars, passVars,
                   switchVars, session, faults, everDead, disowned>>

BackoffElapses(e) ==
    /\ e \notin due
    /\ due' = due \cup {e}
    /\ UNCHANGED <<committed, published, dead, owner, lapsed, attempts, topicVars, passVars,
                   switchVars, session, faults, everDead, disowned>>

----------------------------------------------------------------------------
(* The session supervisor, the switch, the replay *)

(* The consumer that shares the session crashes, or the socket closes. *)
SessionDies(w) ==
    /\ session[w] = "up"
    /\ Fault
    /\ session' = [session EXCEPT ![w] = "dead"]
    /\ alive' = [alive EXCEPT ![w] = FALSE]
    /\ UNCHANGED <<rowVars, topicVars, pc, batch, cur, clock, attemptsRead, charged, switchVars,
                   everDead, disowned>>

TearDown(w) ==
    /\ session[w] = "dead"
    /\ session' = [session EXCEPT ![w] = "none"]
    /\ UNCHANGED <<rowVars, topicVars, passVars, switchVars, faults, everDead, disowned>>

Connect(w) ==
    /\ session[w] = "none"
    /\ session' = [session EXCEPT ![w] = "up"]
    /\ UNCHANGED <<rowVars, topicVars, passVars, switchVars, faults, everDead, disowned>>

SetPaused ==
    /\ Fault
    /\ paused' = ~paused
    /\ UNCHANGED <<rowVars, topicVars, passVars, pauseSeen, session, everDead, disowned>>

Poll(w) ==
    /\ pauseSeen[w] # paused
    /\ pauseSeen' = [pauseSeen EXCEPT ![w] = paused]
    /\ UNCHANGED <<rowVars, topicVars, passVars, paused, session, faults, everDead, disowned>>

(* replayLastEvent puts a published row back as if it were new. Any        *)
(* published row may be the last one: the rows are not told apart by time. *)
Replay(e) ==
    /\ e \in published /\ e \notin dead
    /\ Fault
    /\ published' = published \ {e}
    /\ ClearClaim(e)
    /\ attempts' = [attempts EXCEPT ![e] = 0]
    /\ due' = due \cup {e}
    /\ UNCHANGED <<committed, dead, topicVars, passVars, switchVars, session, everDead, disowned>>

----------------------------------------------------------------------------
Init ==
    /\ committed = [o \in Orders |-> 0]
    /\ published = {} /\ dead = {} /\ due = Events
    /\ owner = [e \in Events |-> NULL] /\ lapsed = {}
    /\ attempts = [e \in Events |-> 0]
    /\ paused = FALSE
    /\ onTopic = {} /\ stray = {}
    /\ pc = [w \in Workers |-> "idle"]
    /\ batch = [w \in Workers |-> {}]
    /\ cur = [w \in Workers |-> NULL]
    /\ clock = [w \in Workers |-> "fresh"]
    /\ alive = [w \in Workers |-> FALSE]
    /\ attemptsRead = [w \in Workers |-> [e \in Events |-> 0]]
    /\ pauseSeen = [w \in Workers |-> FALSE]
    /\ session = [w \in Workers |-> "none"]
    /\ faults = 0
    /\ everDead = {} /\ late = {} /\ disowned = {}
    /\ charged = [w \in Workers |-> 0]

PassStep(w) ==
    \/ Claim(w) \/ Send(w) \/ GiveUp(w)
    \/ Acknowledged(w) \/ Overrun(w)
    \/ MarkPublished(w) \/ RecordFailure(w) \/ Release(w)

BrokerStep(w) == Land(w) \/ Rejected(w) \/ Failed(w)

Supervise(w) == TearDown(w) \/ Connect(w) \/ Poll(w)

FaultStep(w) == StatementFails(w) \/ Crash(w) \/ BudgetSpent(w) \/ SessionDies(w)

Next ==
    \/ \E o \in Orders : Commit(o)
    \/ \E w \in Workers : PassStep(w) \/ BrokerStep(w) \/ Supervise(w) \/ FaultStep(w)
    \/ \E e \in Events : LandStray(e) \/ LeaseLapses(e) \/ BackoffElapses(e) \/ Replay(e)
    \/ SetPaused

Spec == Init /\ [][Next]_vars

(* Every process runs on, every send is answered or times out, a broker    *)
(* that can be reached is reached, and time passes.  That a fault follows  *)
(* a fault for ever is excluded by MaxFaults.                              *)
Fairness ==
    /\ \A w \in Workers :
        WF_vars(PassStep(w)) /\ WF_vars(BrokerStep(w)) /\ WF_vars(Supervise(w))
    /\ \A e \in Events : WF_vars(LeaseLapses(e)) /\ WF_vars(BackoffElapses(e))

FairSpec == Spec /\ Fairness
----------------------------------------------------------------------------
(* Properties *)

TypeOK ==
    /\ committed \in [Orders -> 0 .. LastVersion]
    /\ published \subseteq Events /\ dead \subseteq everDead /\ due \subseteq Events
    /\ owner \in [Events -> Workers \cup {NULL}] /\ lapsed \subseteq {e \in Events : owner[e] # NULL}
    /\ attempts \in [Events -> Nat]
    /\ paused \in BOOLEAN
    /\ onTopic \subseteq Events /\ stray \subseteq Events
    /\ pc \in [Workers -> {"idle", "choosing", "sending", "landed", "acked", "failed", "releasing"}]
    /\ batch \in [Workers -> SUBSET Events]
    /\ cur \in [Workers -> Events \cup {NULL}]
    /\ clock \in [Workers -> {"fresh", "overdue"}]
    /\ alive \in [Workers -> BOOLEAN]
    /\ attemptsRead \in [Workers -> [Events -> Nat]]
    /\ pauseSeen \in [Workers -> BOOLEAN]
    /\ session \in [Workers -> {"none", "up", "dead"}]
    /\ faults \in 0 .. MaxFaults
    /\ everDead \subseteq Events /\ late \subseteq Events /\ disowned \subseteq Events
    /\ charged \in [Workers -> Nat]

(* "Publication is at-least-once": whatever was lost, abandoned or raced,  *)
(* an event whose row says published has a record on the topic.            *)
PublishedIsOnTopic == published \subseteq onTopic

(* Per-order ordering (claimBatch): an event is on the topic only when     *)
(* every earlier one of its order is, or was dead lettered; so the only    *)
(* event that can be recorded behind a successor is a dead letter.         *)
OrderKept ==
    /\ \A e \in onTopic : Earlier(e) \subseteq onTopic \cup everDead
    /\ late \subseteq everDead

(* While the budget of its lease lasts, no other worker holds the event a  *)
(* pass holds, unless a stale outcome cleared the claim in between.        *)
ExclusiveWithinLease ==
    \A w, v \in Workers : \A e \in batch[w] \cap batch[v] :
        w # v /\ clock[w] = "fresh" /\ clock[v] = "fresh" => e \in disowned

(* "A failed send ends the session" and reasonToStop sees it before the    *)
(* next send: an outage costs a pass one attempt, not one per row (ADR 011). *)
OutageCostsOneAttempt == \A w \in Workers : charged[w] <= 1

(* The backlog drains: once nothing new is committed and the publisher is  *)
(* not paused, every event is published or dead lettered.  No crash, lost  *)
(* session, failed statement, slow pass, pause or replay leaves a row that *)
(* nobody will ever claim again.                                           *)
BacklogDrains == <>[](~paused) => <>[](\A e \in Events : ~Unsettled(e))

(* "What it cannot do is land out of order against a different version of  *)
(* the same order ... the only record that can arrive late is a duplicate  *)
(* of one already on the topic" (publishOnce).                             *)
LateIsDuplicate == late = {}

(* The readers of the topic see an ordered event log.                      *)
Log == INSTANCE OrderedEventLog WITH delivered <- onTopic, abandoned <- everDead

ImplementsLog == Log!Spec
=============================================================================
