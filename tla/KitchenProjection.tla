------------------------- MODULE KitchenProjection -------------------------
(***************************************************************************)
(* The kitchen consumer of the worker: startKitchenConsumer() and          *)
(* applyKitchenEvent() of apps/worker/src/modules/kitchen, run by any      *)
(* number of worker processes as one Kafka consumer group.                 *)
(*                                                                         *)
(* The topic is what the publisher promises, OrderedEventLog: events of an *)
(* order in version order, except that one which was given up may still    *)
(* appear behind its successors, and any may appear again.  One partition  *)
(* is modelled; the records of an order are all in one.                    *)
(*                                                                         *)
(* applyKitchenEvent is one transaction whose first statement inserts the  *)
(* marker of the event: a second delivery of the record waits for it, so   *)
(* the transaction is one action.                                          *)
(***************************************************************************)
EXTENDS Naturals, Sequences

CONSTANTS
    Orders,
    LastVersion,    \* bound on the events of an order
    Life,           \* per order, the types of its events 1, 2, ...
    Consumers,      \* worker processes in the consumer group
    MaxRecords,     \* bound on the records of the topic
    MaxFaults,      \* bound on crashes, failed transactions and rebalances
    NULL            \* no assignment

EventTypes ==
    {"OrderCreated", "OrderItemAdded", "OrderItemRemoved", "OrderQuantityChanged",
     "OrderSentToKitchen", "OrderPreparing", "OrderReady", "OrderPaid", "OrderCancelled"}

ASSUME ConstantsAssumption ==
    /\ LastVersion \in Nat /\ MaxRecords \in Nat /\ MaxFaults \in Nat
    /\ NULL \notin Consumers

(* At most one of an order's events sends it to the kitchen, and a         *)
(* cancelled order has no further events.                                  *)
ASSUME LifeAssumption ==
    /\ Life \in [Orders -> Seq(EventTypes)]
    /\ \A o \in Orders :
        /\ Len(Life[o]) <= LastVersion
        /\ \A v, w \in 1 .. Len(Life[o]) :
            Life[o][v] = "OrderSentToKitchen" /\ Life[o][w] = "OrderSentToKitchen" => v = w
        /\ \A v \in 1 .. Len(Life[o]) : Life[o][v] = "OrderCancelled" => v = Len(Life[o])

VARIABLES
    committed, delivered, abandoned,    \* the abstract event log, see OrderedEventLog
    log,            \* the records of the partition
    processed,      \* table processed_events: events with a kitchen marker
    tickets,        \* table kitchen_tickets: per order its row, or NoTicket
    assigned,       \* the group member that holds the partition
    offset,         \* the offset the group has committed
    joined,         \* members that take themselves for the holder
    pos,            \* per member, the records it is done with
    pc,             \* per member, what it does with record pos + 1
    faults          \* faults so far

topicVars    == <<committed, delivered, abandoned, log>>
tableVars    == <<processed, tickets>>
groupVars    == <<assigned, offset>>
consumerVars == <<joined, pos, pc>>
vars == <<topicVars, tableVars, groupVars, consumerVars, faults>>

Topic == INSTANCE OrderedEventLog

Events    == Topic!Events
TypeOf(e) == Life[e[1]][e[2]]

NoTicket == [state |-> "none", version |-> 0]

(* The events that move a ticket the kitchen has. *)
StateByEventType ==
    [OrderPreparing |-> "PREPARING", OrderReady |-> "READY", OrderCancelled |-> "CANCELLED"]

Fault ==
    /\ faults < MaxFaults
    /\ faults' = faults + 1

----------------------------------------------------------------------------
(* The topic *)

Commit(o) ==
    /\ committed[o] < Len(Life[o])
    /\ Topic!Append(o)
    /\ UNCHANGED <<log, tableVars, groupVars, consumerVars, faults>>

Publish(e) ==
    /\ Len(log) < MaxRecords
    /\ Topic!Deliver(e)
    /\ log' = Append(log, e)
    /\ UNCHANGED <<tableVars, groupVars, consumerVars, faults>>

GiveUp(e) ==
    /\ Fault
    /\ Topic!Abandon(e)
    /\ UNCHANGED <<log, tableVars, groupVars, consumerVars>>

----------------------------------------------------------------------------
(* The group *)

(* The coordinator gives the partition to c, which starts at the committed *)
(* offset.                                                                 *)
HandOver(c) ==
    /\ c \notin joined
    /\ assigned' = c
    /\ joined' = joined \cup {c}
    /\ pos' = [pos EXCEPT ![c] = offset]
    /\ UNCHANGED <<topicVars, tableVars, offset, pc>>

Assign(c) ==
    /\ assigned = NULL
    /\ HandOver(c)
    /\ UNCHANGED faults

(* The holder is given up for dead. It goes on until it notices.           *)
Rebalance(c) ==
    /\ assigned # NULL
    /\ Fault
    /\ HandOver(c)

Leave(c) ==
    /\ joined' = joined \ {c}
    /\ pos' = [pos EXCEPT ![c] = 0]
    /\ pc' = [pc EXCEPT ![c] = "polling"]

NoticeLoss(c) ==
    /\ c \in joined /\ assigned # c
    /\ pc[c] = "polling"
    /\ Leave(c)
    /\ UNCHANGED <<topicVars, tableVars, groupVars, faults>>

(* Faulty variant of CommitOffset: the record in hand counts as done. *)
CommitOffsetEarly(c) ==
    /\ assigned = c /\ c \in joined
    /\ LET done == IF pc[c] = "polling" THEN pos[c] ELSE pos[c] + 1 IN
        offset < done /\ offset' = done
    /\ UNCHANGED <<topicVars, tableVars, assigned, consumerVars, faults>>

(* Only the holder can commit, and only records whose handler returned. *)
CommitOffset(c) ==
    /\ assigned = c /\ c \in joined
    /\ offset < pos[c]
    /\ offset' = pos[c]
    /\ UNCHANGED <<topicVars, tableVars, assigned, consumerVars, faults>>

----------------------------------------------------------------------------
(* eachMessage *)

Current(c) == log[pos[c] + 1]

Fetch(c) ==
    /\ c \in joined /\ pc[c] = "polling"
    /\ pos[c] < Len(log)
    /\ pc' = [pc EXCEPT ![c] = "applying"]
    /\ UNCHANGED <<topicVars, tableVars, groupVars, joined, pos, faults>>

(* createTicket: an upsert guarded on the version the ticket has. *)
CreateTicket(e) ==
    IF tickets[e[1]].version < e[2]
    THEN tickets' = [tickets EXCEPT ![e[1]] = [state |-> "SENT_TO_KITCHEN", version |-> e[2]]]
    ELSE UNCHANGED tickets

(* Faulty variant of AdvanceTicket: versions are not compared. *)
AdvanceTicketUngated(e) ==
    IF tickets[e[1]] # NoTicket
    THEN tickets' = [tickets EXCEPT ![e[1]] =
                        [state |-> StateByEventType[TypeOf(e)], version |-> e[2]]]
    ELSE UNCHANGED tickets

(* Faulty variant of AdvanceTicket: the event type is stored as the state. *)
AdvanceTicketRaw(e) ==
    IF tickets[e[1]] # NoTicket /\ tickets[e[1]].version < e[2]
    THEN tickets' = [tickets EXCEPT ![e[1]] = [state |-> TypeOf(e), version |-> e[2]]]
    ELSE UNCHANGED tickets

(* Faulty variant of AdvanceTicket: an upsert, as createTicket is one. *)
AdvanceTicketUpserting(e) ==
    IF tickets[e[1]].version < e[2]
    THEN tickets' = [tickets EXCEPT ![e[1]] =
                        [state |-> StateByEventType[TypeOf(e)], version |-> e[2]]]
    ELSE UNCHANGED tickets

(* advanceTicket: an update, which may find no ticket or a newer one. *)
AdvanceTicket(e) ==
    IF tickets[e[1]] # NoTicket /\ tickets[e[1]].version < e[2]
    THEN tickets' = [tickets EXCEPT ![e[1]] =
                        [state |-> StateByEventType[TypeOf(e)], version |-> e[2]]]
    ELSE UNCHANGED tickets

(* The marker goes in, or the event was seen before. *)
Mark(e) ==
    /\ e \notin processed
    /\ processed' = processed \cup {e}

ApplyNew(c) ==
    LET e == Current(c) IN
    /\ pc[c] = "applying"
    /\ Mark(e)
    /\ \/ TypeOf(e) = "OrderSentToKitchen" /\ CreateTicket(e)
       \/ TypeOf(e) \in DOMAIN StateByEventType /\ AdvanceTicket(e)
       \/ /\ TypeOf(e) \notin DOMAIN StateByEventType \cup {"OrderSentToKitchen"}
          /\ UNCHANGED tickets
    /\ pc' = [pc EXCEPT ![c] = IF TypeOf(e) = "OrderSentToKitchen" /\ tickets' # tickets
                               THEN "enqueuing" ELSE "handled"]
    /\ UNCHANGED <<topicVars, groupVars, joined, pos, faults>>

SkipDuplicate(c) ==
    /\ pc[c] = "applying"
    /\ Current(c) \in processed
    /\ pc' = [pc EXCEPT ![c] = "handled"]
    /\ UNCHANGED <<topicVars, tableVars, groupVars, joined, pos, faults>>

(* enqueueTicket never throws: the handler returns whatever came of it. *)
Enqueue(c) ==
    /\ pc[c] = "enqueuing"
    /\ pc' = [pc EXCEPT ![c] = "handled"]
    /\ UNCHANGED <<topicVars, tableVars, groupVars, joined, pos, faults>>

Return(c) ==
    /\ pc[c] = "handled"
    /\ pos' = [pos EXCEPT ![c] = @ + 1]
    /\ pc' = [pc EXCEPT ![c] = "polling"]
    /\ UNCHANGED <<topicVars, tableVars, groupVars, joined, faults>>

(* The transaction fails, eachMessage rejects, and the record is fetched   *)
(* once more.                                                              *)
TransactionFails(c) ==
    /\ pc[c] = "applying"
    /\ Fault
    /\ pc' = [pc EXCEPT ![c] = "polling"]
    /\ UNCHANGED <<topicVars, tableVars, groupVars, joined, pos>>

(* The process dies, or its consumer does and is started again.            *)
Crash(c) ==
    /\ c \in joined
    /\ Fault
    /\ Leave(c)
    /\ assigned' = IF assigned = c THEN NULL ELSE assigned
    /\ UNCHANGED <<topicVars, tableVars, offset>>

----------------------------------------------------------------------------
Init ==
    /\ Topic!Init /\ log = <<>>
    /\ processed = {} /\ tickets = [o \in Orders |-> NoTicket]
    /\ assigned = NULL /\ offset = 0
    /\ joined = {} /\ pos = [c \in Consumers |-> 0] /\ pc = [c \in Consumers |-> "polling"]
    /\ faults = 0

Handle(c) ==
    \/ Fetch(c) \/ ApplyNew(c) \/ SkipDuplicate(c) \/ Enqueue(c) \/ Return(c) \/ NoticeLoss(c)

Next ==
    \/ \E o \in Orders : Commit(o)
    \/ \E e \in Events : Publish(e) \/ GiveUp(e)
    \/ \E c \in Consumers :
        Handle(c) \/ Assign(c) \/ Rebalance(c) \/ CommitOffset(c) \/ TransactionFails(c) \/ Crash(c)

Spec == Init /\ [][Next]_vars

----------------------------------------------------------------------------
(* Properties *)

TypeOK ==
    /\ delivered \subseteq Events /\ abandoned \subseteq Events
    /\ log \in Seq(Events) /\ Len(log) <= MaxRecords
    /\ processed \subseteq delivered
    /\ \A o \in Orders : /\ tickets[o].version \in 0 .. committed[o]
                         /\ tickets[o].state \in {"none", "SENT_TO_KITCHEN", "PREPARING",
                                                  "READY", "CANCELLED"}
    /\ assigned \in joined \cup {NULL}
    /\ offset \in 0 .. Len(log)
    /\ \A c \in Consumers : pos[c] \in 0 .. Len(log) /\ (pc[c] # "polling" => pos[c] < Len(log))
    /\ faults \in 0 .. MaxFaults

(* At-least-once: whatever crashed, rebalanced or ran on as a zombie, no   *)
(* record below the committed offset was skipped (the marker is written in *)
(* the transaction and the offset moves only after the handler returned).  *)
OffsetCoversProcessed == \A i \in 1 .. offset : log[i] \in processed

(* The processed events that a ticket of order o reflects. *)
Reflected(o) ==
    {e \in processed : /\ e[1] = o
                       /\ TypeOf(e) \in DOMAIN StateByEventType \cup {"OrderSentToKitchen"}}

StateAfter(e) ==
    IF TypeOf(e) = "OrderSentToKitchen" THEN "SENT_TO_KITCHEN" ELSE StateByEventType[TypeOf(e)]

FirstRecord(e) == CHOOSE i \in 1 .. Len(log) : log[i] = e /\ \A j \in 1 .. i - 1 : log[j] # e

CreatedInOrder(sent) ==
    \A e \in Reflected(sent[1]) : e[2] > sent[2] => FirstRecord(e) > FirstRecord(sent)

(* Unless the record that creates the ticket came behind a later one of    *)
(* its order, the ticket shows the latest of the events that were          *)
(* processed, in whatever order, and how often, they were delivered        *)
(* (createTicket and advanceTicket, each with its guard).                  *)
TicketIsLatest ==
    \A o \in Orders : \A sent \in Reflected(o) :
        TypeOf(sent) = "OrderSentToKitchen" /\ CreatedInOrder(sent) =>
            \E e \in Reflected(o) :
                /\ \A f \in Reflected(o) : f[2] <= e[2]
                /\ tickets[o] = [state |-> StateAfter(e), version |-> e[2]]

(* "An older event must never overwrite a newer projection", however many  *)
(* members of the group handle the same records.                           *)
TicketNeverMovesBack ==
    [][\A o \in Orders : tickets'[o] # tickets[o] => tickets'[o].version > tickets[o].version]_vars

(* What the print pipeline sees: whether an order has a ticket, and which  *)
(* orders' tickets a handler is about to enqueue.                          *)
BoardTicket ==
    [o \in Orders |-> CASE tickets[o].state = "none" -> "none"
                        [] tickets[o].state = "CANCELLED" -> "cancelled"
                        [] OTHER -> "live"]

Announcing == {o \in Orders : \E c \in Consumers : pc[c] = "enqueuing" /\ Current(c)[1] = o}

Board == INSTANCE TicketBoard WITH ticket <- BoardTicket, announcing <- Announcing

(* The consumer keeps the promises the print pipeline is built on: however *)
(* often OrderSentToKitchen is delivered, one handler at most goes on to   *)
(* enqueue the ticket (eachMessage, result 'applied').                     *)
ImplementsBoard == Board!Spec
=============================================================================
