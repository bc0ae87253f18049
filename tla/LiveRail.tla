------------------------------ MODULE LiveRail ------------------------------
(***************************************************************************)
(* How the rail of the kitchen display follows the orders: the realtime    *)
(* consumer of the API (modules/realtime), the socket, the event gate and  *)
(* the coalescing loader of apps/web, over the kitchen projection.         *)
(*                                                                         *)
(* The realtime consumer and the projection read the same topic on their   *)
(* own groups, so either may be ahead.  The projection applies the events  *)
(* of an order in version order, which KitchenProjection is about.         *)
(*                                                                         *)
(* An order is the sequence of the statuses its kitchen events left it in; *)
(* its version is the length.  A ticket is a function of the order and the *)
(* version it was built from, so rows are versions, 0 where there is none. *)
(***************************************************************************)
EXTENDS OrderDomain, Sequences, FiniteSets

CONSTANTS
    Orders,
    Instances,      \* API processes in the realtime consumer group
    Attempts,       \* the reads of a round
    Scenarios,      \* the bounds of the behaviours that are explored
    NONE            \* no round, no event

LastVersion == 4    \* sent, preparing, ready, cancelled

(* The instances that run, the events of each order, the crashes, failed   *)
(* reads and lost connections, and the bounds of KitchenCommands.          *)
ASSUME RailAssumption ==
    /\ Attempts \in Nat \ {0}
    /\ Scenarios \subseteq [instances: SUBSET Instances, versions: [Orders -> 0..LastVersion],
                            faults: Nat, commands: Nat, calls: Nat, visits: Nat]

Versions    == 0..LastVersion
Rows        == [Orders -> Versions]
Hints       == [order: Orders, version: 1..LastVersion]
Loops       == 1..2

VARIABLES
    events,         \* per order, the statuses its kitchen events left it in
    projected,      \* per order, the events applied to kitchen_tickets
    marked,         \* per order, the events with a realtime marker in processed_events
    handling,       \* per instance, the event it marked and has not emitted
    link,           \* the socket of the display
    inbox,          \* the broadcasts on their way over it
    shown,          \* tickets.value
    round,          \* per loop of the loader, the round it is in
    queued, again,  \* expectations of the next round; a call came while one ran
    heard,          \* history: per order, the highest version that passed the gate
    waived,         \* history: per order, the highest version given up on
    faults,
    bound           \* the scenario of this behaviour

serverVars == <<events, projected, marked, handling>>
loaderVars == <<shown, round, queued, again, waived>>
railVars   == <<serverVars, link, inbox, loaderVars, heard, faults, bound>>

Round == [batch: SUBSET Hints, left: 1..Attempts, rows: Rows \cup {NONE},
          stage: {"asked", "answered", "failed"}, best: Rows \cup {NONE}]

StatusOf(o) == IF events[o] = <<>> THEN "OPEN" ELSE events[o][Len(events[o])]

(* A cancellation of an order that was never sent leaves no ticket. *)
HasTicket(o) == events[o] # <<>> /\ events[o][1] = "SENT_TO_KITCHEN"

Tickets == [o \in Orders |-> IF HasTicket(o) THEN projected[o] ELSE 0]

Higher(versions, o, v) == IF v > versions[o] THEN [versions EXCEPT ![o] = v] ELSE versions

RailInit ==
    /\ events = [o \in Orders |-> <<>>]
    /\ projected = [o \in Orders |-> 0]
    /\ marked = [o \in Orders |-> 0]
    /\ handling = [i \in Instances |-> NONE]
    /\ link = "unopened"
    /\ inbox = <<>>
    /\ shown = [o \in Orders |-> 0]
    /\ round = [k \in Loops |-> NONE]
    /\ queued = {}
    /\ again = FALSE
    /\ heard = [o \in Orders |-> 0]
    /\ waived = [o \in Orders |-> 0]
    /\ faults = 0
    /\ bound \in Scenarios

Fault == faults < bound.faults /\ faults' = faults + 1
-----------------------------------------------------------------------------
(* The server. *)

Happens(o, status) == events' = [events EXCEPT ![o] = Append(@, status)]

(* A mutation of the order that the kitchen room hears of. *)
Advance(o, status) ==
    /\ IsValidTransition(StatusOf(o), status)
    /\ status # "PAID"
    /\ Len(events[o]) < bound.versions[o]
    /\ Happens(o, status)
    /\ UNCHANGED <<projected, marked, handling, link, inbox, loaderVars, heard, faults, bound>>

Project(o) ==
    /\ projected[o] < Len(events[o])
    /\ projected' = [projected EXCEPT ![o] = @ + 1]
    /\ UNCHANGED <<events, marked, handling, link, inbox, loaderVars, heard, faults, bound>>

(* handleRealtimeEvent up to its await: the marker commits.  After a       *)
(* rebalance another instance is at the next event meanwhile.              *)
Mark(i, o) ==
    /\ i \in bound.instances
    /\ handling[i] = NONE
    /\ marked[o] < Len(events[o])
    /\ marked' = [marked EXCEPT ![o] = @ + 1]
    /\ handling' = [handling EXCEPT ![i] = [order |-> o, version |-> marked[o] + 1]]
    /\ UNCHANGED <<events, projected, link, inbox, loaderVars, heard, faults, bound>>

(* The broadcast reaches the display if its socket is in the kitchen room. *)
Emit(i) ==
    /\ handling[i] # NONE
    /\ inbox' = IF link = "joined" THEN Append(inbox, handling[i]) ELSE inbox
    /\ handling' = [handling EXCEPT ![i] = NONE]
    /\ UNCHANGED <<events, projected, marked, link, loaderVars, heard, faults, bound>>

(* An instance dies between the marker and the broadcast: its redelivery   *)
(* is a duplicate, so the broadcast is lost.                               *)
CrashInstance(i) ==
    /\ Fault
    /\ handling[i] # NONE
    /\ handling' = [handling EXCEPT ![i] = NONE]
    /\ UNCHANGED <<events, projected, marked, link, inbox, loaderVars, heard, bound>>
-----------------------------------------------------------------------------
(* The coalescing loader. *)

NewRound(batch) ==
    [batch |-> batch, left |-> Attempts, rows |-> NONE, stage |-> "asked", best |-> NONE]

Running == \E k \in Loops : round[k] # NONE

(* Faulty variant of Busy: loads run in parallel. *)
NeverBusy == \A k \in Loops : round[k] # NONE

(* run(): joins the loop that is running, or starts one. *)
Busy == Running

Run(batch) ==
    \/ /\ Busy
       /\ queued' = queued \cup batch
       /\ again' = TRUE
       /\ UNCHANGED round
    \/ /\ ~Busy
       /\ queued' = {}
       /\ again' = FALSE
       /\ LET k == CHOOSE j \in Loops : round[j] = NONE /\ \A h \in 1..(j - 1) : round[h] # NONE
          IN round' = [round EXCEPT ![k] = NewRound(queued \cup batch)]

(* Faulty variant of More: what was asked while the round read is taken to be answered by it. *)
NoMore == FALSE

More == again \/ queued # {}

(* The loop goes on while something was asked, whichever way the round ended. *)
EndRound(k) ==
    /\ round' = [round EXCEPT ![k] = IF More THEN NewRound(queued) ELSE NONE]
    /\ queued' = {}
    /\ again' = FALSE

Satisfied(rows, batch) == \A e \in batch : rows[e.order] >= e.version

GivenUp(batch) ==
    [o \in Orders |->
        LET versions == {waived[o]} \cup {e.version : e \in {b \in batch : b.order = o}}
        IN CHOOSE v \in versions : \A w \in versions : v >= w]

Applied(k, rows, converged) ==
    /\ shown' = rows
    /\ waived' = IF converged THEN waived ELSE GivenUp(round[k].batch)
    /\ EndRound(k)

Reported(k) ==
    /\ waived' = GivenUp(round[k].batch)
    /\ UNCHANGED shown
    /\ EndRound(k)

ReadAgain(k) ==
    /\ round[k].left > 1
    /\ round' = [round EXCEPT ![k] =
            [round[k] EXCEPT !.left = @ - 1, !.stage = "asked", !.rows = NONE,
                             !.best = IF round[k].rows # NONE THEN round[k].rows ELSE @]]
    /\ UNCHANGED <<shown, queued, again, waived>>

(* GET /api/kitchen/tickets. *)
ServeRead(k) ==
    /\ round[k] # NONE /\ round[k].stage = "asked"
    /\ round' = [round EXCEPT ![k] = [@ EXCEPT !.stage = "answered", !.rows = Tickets]]
    /\ UNCHANGED <<serverVars, link, inbox, shown, queued, again, waived,
                   heard, faults, bound>>

ReadFails(k) ==
    /\ Fault
    /\ round[k] # NONE /\ round[k].stage = "asked"
    /\ round' = [round EXCEPT ![k] = [@ EXCEPT !.stage = "failed"]]
    /\ UNCHANGED <<serverVars, link, inbox, shown, queued, again, waived,
                   heard, bound>>

(* refetchUntil() goes on from a read: it is done, tries again, or is out  *)
(* of attempts and returns the last value it has.                          *)
TakeAnswer(k) ==
    /\ round[k] # NONE /\ round[k].stage = "answered"
    /\ LET done == Satisfied(round[k].rows, round[k].batch) IN
        \/ (done \/ round[k].left = 1) /\ Applied(k, round[k].rows, done)
        \/ ~done /\ ReadAgain(k)
    /\ UNCHANGED <<serverVars, link, inbox, heard, faults, bound>>

TakeFailure(k) ==
    /\ round[k] # NONE /\ round[k].stage = "failed"
    /\ \/ ReadAgain(k)
       \/ round[k].left = 1 /\ round[k].best # NONE /\ Applied(k, round[k].best, FALSE)
       \/ round[k].left = 1 /\ round[k].best = NONE /\ Reported(k)
    /\ UNCHANGED <<serverVars, link, inbox, heard, faults, bound>>
-----------------------------------------------------------------------------
(* The screen and its socket. *)

(* onMounted: the rail is read before the connection is started. *)
Load ==
    /\ link = "unopened"
    /\ link' = "loading"
    /\ Run({})
    /\ UNCHANGED <<serverVars, inbox, shown, waived, heard, faults, bound>>

OpenRail ==
    /\ link = "loading" /\ ~Running
    /\ link' = "down"
    /\ UNCHANGED <<serverVars, inbox, loaderVars, heard, faults, bound>>

(* connect: the display asks for its room and refetches, in one turn. *)
Connect ==
    /\ link = "down"
    /\ link' = "connected"
    /\ Run({})
    /\ UNCHANGED <<serverVars, inbox, shown, waived, heard, faults, bound>>

Join ==
    /\ link = "connected"
    /\ link' = "joined"
    /\ UNCHANGED <<serverVars, inbox, loaderVars, heard, faults, bound>>

Drop ==
    /\ Fault
    /\ link \in {"connected", "joined"}
    /\ link' = "down"
    /\ inbox' = <<>>
    /\ UNCHANGED <<serverVars, loaderVars, heard, bound>>

(* onEvent: the gate compares with the ticket on the rail.  A cancellation *)
(* of an order with no ticket there is not waited for (expectationFor).    *)
Hear ==
    /\ inbox # <<>>
    /\ inbox' = Tail(inbox)
    /\ LET e == Head(inbox)
           unheld == events[e.order][e.version] = "CANCELLED" /\ shown[e.order] = 0
       IN IF e.version <= shown[e.order]
          THEN UNCHANGED <<round, queued, again, heard, waived>>
          ELSE /\ heard' = Higher(heard, e.order, e.version)
               /\ waived' = IF unheld THEN Higher(waived, e.order, e.version) ELSE waived
               /\ Run(IF unheld THEN {} ELSE {e})
    /\ UNCHANGED <<serverVars, link, shown, faults, bound>>

ServerStep ==
    \/ \E o \in Orders : Project(o)
    \/ \E i \in Instances : Emit(i) \/ \E o \in Orders : Mark(i, o)

LoaderStep == \E k \in Loops : ServeRead(k) \/ TakeAnswer(k) \/ TakeFailure(k)

SocketStep == OpenRail \/ Connect \/ Join \/ Hear

RailFault ==
    \/ \E i \in Instances : CrashInstance(i)
    \/ \E k \in Loops : ReadFails(k)
    \/ Drop

RailTypeOK ==
    /\ events \in [Orders -> Seq(Statuses)]
    /\ {projected, marked, shown, heard, waived} \subseteq Rows
    /\ handling \in [Instances -> Hints \cup {NONE}]
    /\ link \in {"unopened", "loading", "down", "connected", "joined"}
    /\ inbox \in Seq(Hints)
    /\ round \in [Loops -> Round \cup {NONE}]
    /\ queued \subseteq Hints
    /\ again \in BOOLEAN
    /\ faults \in 0..bound.faults
    /\ bound \in Scenarios
=============================================================================
