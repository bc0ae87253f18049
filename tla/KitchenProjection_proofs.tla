---------------------- MODULE KitchenProjection_proofs ----------------------
(***************************************************************************)
(* Theorems about KitchenProjection, for any number of orders, members,    *)
(* records and faults, and any life of an order.                           *)
(***************************************************************************)
EXTENDS KitchenProjection, TLAPS

States == {"none", "SENT_TO_KITCHEN", "PREPARING", "READY", "CANCELLED"}
Steps  == {"polling", "applying", "enqueuing", "handled"}

TopicTyped ==
    /\ committed \in [Orders -> Nat]
    /\ \A o \in Orders : committed[o] <= Len(Life[o])
    /\ delivered \subseteq Events /\ abandoned \subseteq Events
    /\ \A e \in delivered : e[2] <= committed[e[1]]
    /\ log \in Seq(Events) /\ Len(log) <= MaxRecords
    /\ \A i \in 1 .. Len(log) : log[i] \in delivered
    /\ faults \in 0 .. MaxFaults

GroupTyped ==
    /\ joined \subseteq Consumers
    /\ assigned \in joined \cup {NULL}
    /\ offset \in 0 .. Len(log)
    /\ pos \in [Consumers -> Nat]
    /\ pc \in [Consumers -> Steps]
    /\ \A c \in Consumers : /\ pos[c] <= Len(log)
                            /\ pc[c] # "polling" => c \in joined /\ pos[c] < Len(log)

TicketsTyped ==
    /\ processed \subseteq delivered
    /\ tickets \in [Orders -> [state : States, version : Nat]]
    /\ \A o \in Orders : /\ tickets[o].version <= committed[o]
                         /\ tickets[o].version = 0 => tickets[o] = NoTicket
                         /\ tickets[o].state = "none" => tickets[o] = NoTicket

(* What a member has behind it is processed, and so is the record in hand  *)
(* once the transaction is.                                                *)
DoneInv ==
    /\ \A i \in 1 .. offset : log[i] \in processed
    /\ \A c \in Consumers : \A i \in 1 .. pos[c] : log[i] \in processed
    /\ \A c \in Consumers : pc[c] \in {"enqueuing", "handled"} => Current(c) \in processed

Sends(e) == TypeOf(e) = "OrderSentToKitchen"

(* A ticket was created by the one event that sends its order, and one     *)
(* that is cancelled has the last version there will be.                   *)
OriginInv ==
    \A o \in Orders :
        /\ tickets[o] # NoTicket => \E e \in processed : e[1] = o /\ Sends(e)
        /\ tickets[o].state = "CANCELLED" => tickets[o].version = Len(Life[o])

(* One member at most enqueues a ticket, which exists. *)
AnnouncedOnce ==
    /\ \A c \in Consumers : pc[c] = "enqueuing" => tickets[Current(c)[1]] # NoTicket
    /\ \A c, d \in Consumers :
        pc[c] = "enqueuing" /\ pc[d] = "enqueuing" /\ Current(c)[1] = Current(d)[1] => c = d

IInv == TopicTyped /\ GroupTyped /\ TicketsTyped /\ DoneInv /\ OriginInv /\ AnnouncedOnce

----------------------------------------------------------------------------
(* Data *)

LEMMA EventParts ==
    ASSUME NEW e \in Events
    PROVE  e[1] \in Orders /\ e[2] \in 1 .. LastVersion /\ e = <<e[1], e[2]>>
BY DEF Events, Topic!Events

LEMMA StatesByType ==
    ASSUME NEW t \in DOMAIN StateByEventType
    PROVE  /\ StateByEventType[t] \in {"PREPARING", "READY", "CANCELLED"}
           /\ StateByEventType[t] = "CANCELLED" => t = "OrderCancelled"
           /\ t # "OrderSentToKitchen"
<1>1. t \in {"OrderPreparing", "OrderReady", "OrderCancelled"}
  BY DEF StateByEventType
<1>2. CASE t = "OrderPreparing"
  BY <1>2 DEF StateByEventType
<1>3. CASE t = "OrderReady"
  BY <1>3 DEF StateByEventType
<1>4. CASE t = "OrderCancelled"
  BY <1>4 DEF StateByEventType
<1> QED
  BY <1>1, <1>2, <1>3, <1>4

(* An event on the topic is one of its order's life. *)
LEMMA InLife ==
    ASSUME TopicTyped, NEW e \in delivered
    PROVE  e \in Events /\ e[2] \in 1 .. Len(Life[e[1]])
BY EventParts, LifeAssumption DEF TopicTyped

LEMMA SendsOnce ==
    ASSUME TopicTyped, NEW e \in delivered, NEW f \in delivered,
           e[1] = f[1], Sends(e), Sends(f)
    PROVE  e = f
<1>1. e \in Events /\ f \in Events
  BY InLife
<1>2. e[2] = f[2]
  BY <1>1, InLife, EventParts, LifeAssumption DEF Sends, TypeOf
<1> QED
  BY <1>1, <1>2, EventParts

(* The record in hand. *)
LEMMA InHand ==
    ASSUME TopicTyped, GroupTyped, NEW c \in Consumers, pc[c] # "polling"
    PROVE  /\ pos[c] + 1 \in 1 .. Len(log)
           /\ Current(c) \in delivered /\ Current(c) \in Events
BY DEF TopicTyped, GroupTyped, Current

(* Records stay where they are when the log grows. *)
LEMMA LogGrows ==
    ASSUME TopicTyped, NEW e \in Events, log' = Append(log, e)
    PROVE  /\ log' \in Seq(Events)
           /\ Len(log') = Len(log) + 1
           /\ \A i \in 1 .. Len(log) : log'[i] = log[i]
           /\ log'[Len(log) + 1] = e
BY DEF TopicTyped

----------------------------------------------------------------------------
(* What a step of applyKitchenEvent does to the tickets *)

(* createTicket and advanceTicket in one: the ticket of the event's order  *)
(* may get the state and the version of the event, if it was behind.       *)
Written(e, state) ==
    /\ tickets[e[1]].version < e[2]
    /\ tickets' = [tickets EXCEPT ![e[1]] = [state |-> state, version |-> e[2]]]

Created(e)  == Sends(e) /\ Written(e, "SENT_TO_KITCHEN")
Advanced(e) == /\ tickets[e[1]] # NoTicket
               /\ TypeOf(e) \in DOMAIN StateByEventType
               /\ Written(e, StateByEventType[TypeOf(e)])

LEMMA ApplyCases ==
    ASSUME NEW c, ApplyNew(c)
    PROVE  Created(Current(c)) \/ Advanced(Current(c)) \/ UNCHANGED tickets
<1> DEFINE e == Current(c)
<1>1. CASE Sends(e) /\ CreateTicket(e)
  BY <1>1 DEF CreateTicket, Created, Written
<1>2. CASE TypeOf(e) \in DOMAIN StateByEventType /\ AdvanceTicket(e)
  BY <1>2 DEF AdvanceTicket, Advanced, Written
<1> QED
  BY <1>1, <1>2 DEF ApplyNew, Sends

(* A ticket is created where there is none. *)
LEMMA CreatedFresh ==
    ASSUME IInv, NEW e \in delivered, e \notin processed, Sends(e)
    PROVE  tickets[e[1]] = NoTicket
<1>1. SUFFICES ASSUME tickets[e[1]] # NoTicket PROVE FALSE
  OBVIOUS
<1>2. e[1] \in Orders
  BY InLife, EventParts DEF IInv
<1>3. PICK f \in processed : f[1] = e[1] /\ Sends(f)
  BY <1>1, <1>2 DEF IInv, OriginInv
<1> QED
  BY <1>3, SendsOnce DEF IInv, TicketsTyped

LEMMA WrittenTyped ==
    ASSUME IInv, NEW e \in delivered, NEW state \in States \ {"none"},
           Written(e, state), UNCHANGED topicVars, processed' = processed \cup {e}
    PROVE  /\ TicketsTyped'
           /\ tickets'[e[1]] = [state |-> state, version |-> e[2]]
           /\ \A o \in Orders \ {e[1]} : tickets'[o] = tickets[o]
<1> DEFINE row == [state |-> state, version |-> e[2]]
<1>1. e[1] \in Orders /\ e[2] \in Nat /\ e[2] # 0 /\ e[2] <= committed[e[1]]
  BY InLife, EventParts, ConstantsAssumption DEF IInv, TopicTyped
<1>2. row \in [state : States, version : Nat]
  BY <1>1
<1>3. tickets' = [tickets EXCEPT ![e[1]] = row]
  BY DEF Written
<1>4. /\ tickets' \in [Orders -> [state : States, version : Nat]]
      /\ tickets'[e[1]] = row
      /\ \A o \in Orders \ {e[1]} : tickets'[o] = tickets[o]
  BY <1>1, <1>2, <1>3 DEF IInv, TicketsTyped
<1>5. ASSUME NEW o \in Orders
      PROVE  /\ tickets'[o].version <= committed'[o]
             /\ tickets'[o].version = 0 => tickets'[o] = NoTicket
             /\ tickets'[o].state = "none" => tickets'[o] = NoTicket
  <2>1. CASE o = e[1]
    <3>1. tickets'[o].version = e[2] /\ tickets'[o].state = state
      BY <1>4, <2>1
    <3> QED
      BY <1>1, <2>1, <3>1 DEF topicVars
  <2>2. CASE o # e[1]
    BY <1>4, <2>2 DEF IInv, TicketsTyped, topicVars
  <2> QED
    BY <2>1, <2>2
<1>6. processed' \subseteq delivered'
  BY DEF IInv, TicketsTyped, topicVars
<1> QED
  BY <1>4, <1>5, <1>6 DEF TicketsTyped

----------------------------------------------------------------------------
(* One lemma per group of actions *)

(* Commits and dead letters move nothing the consumers look at.            *)
LEMMA CommitKeeps ==
    ASSUME IInv, \/ \E o \in Orders : Commit(o)
                 \/ \E e \in Events : GiveUp(e)
    PROVE  IInv'
<1>1. UNCHANGED <<delivered, log, processed, tickets, assigned, offset, joined, pos, pc>>
  BY DEF Commit, GiveUp, Topic!Append, Topic!Abandon, tableVars, groupVars, consumerVars
<1>2. /\ committed' \in [Orders -> Nat]
      /\ \A o \in Orders : committed'[o] <= Len(Life[o]) /\ committed[o] <= committed'[o]
      /\ abandoned' \subseteq Events /\ faults' \in 0 .. MaxFaults
  <2>1. ASSUME NEW o \in Orders, Commit(o)
        PROVE  /\ committed' \in [Orders -> Nat]
               /\ \A p \in Orders : committed'[p] <= Len(Life[p]) /\ committed[p] <= committed'[p]
               /\ UNCHANGED <<abandoned, faults>>
    <3>1. Len(Life[o]) \in Nat
      BY LifeAssumption
    <3> QED
      BY <2>1, <3>1 DEF Commit, Topic!Append, IInv, TopicTyped
  <2>2. ASSUME NEW e \in Events, GiveUp(e)
        PROVE  UNCHANGED committed /\ abandoned' \subseteq Events /\ faults' \in 0 .. MaxFaults
    BY <2>2, ConstantsAssumption DEF GiveUp, Fault, Topic!Abandon, IInv, TopicTyped
  <2> QED
    BY <2>1, <2>2 DEF IInv, TopicTyped
<1>3. \A e \in delivered : e[2] <= committed'[e[1]]
  <2> SUFFICES ASSUME NEW e \in delivered PROVE e[2] <= committed'[e[1]]
    OBVIOUS
  <2>1. e[1] \in Orders /\ e[2] \in Nat
    BY InLife, EventParts, ConstantsAssumption DEF IInv
  <2> QED
    BY <1>2, <2>1 DEF IInv, TopicTyped
<1>4. TopicTyped'
  BY <1>1, <1>2, <1>3 DEF IInv, TopicTyped
<1>5. TicketsTyped'
  BY <1>1, <1>2 DEF IInv, TopicTyped, TicketsTyped
<1> QED
  BY <1>1, <1>4, <1>5
  DEF IInv, GroupTyped, DoneInv, OriginInv, AnnouncedOnce, Current

LEMMA PublishKeeps ==
    ASSUME IInv, NEW e \in Events, Publish(e)
    PROVE  IInv'
<1>1. /\ log' = Append(log, e) /\ delivered' = delivered \cup {e}
      /\ Len(log) < MaxRecords /\ e[2] <= committed[e[1]]
      /\ UNCHANGED <<committed, abandoned, processed, tickets, assigned, offset, joined, pos, pc,
                     faults>>
  BY DEF Publish, Topic!Deliver, Topic!Exists, tableVars, groupVars, consumerVars
<1>2. /\ log' \in Seq(Events) /\ Len(log') = Len(log) + 1
      /\ \A i \in 1 .. Len(log) : log'[i] = log[i]
      /\ log'[Len(log) + 1] = e
  BY <1>1, LogGrows DEF IInv
<1>3. Len(log) \in Nat
  BY DEF IInv, TopicTyped
<1>4. TopicTyped'
  BY <1>1, <1>2, <1>3, ConstantsAssumption DEF IInv, TopicTyped
<1>5. GroupTyped'
  BY <1>1, <1>2, <1>3 DEF IInv, GroupTyped
<1>6. TicketsTyped'
  BY <1>1 DEF IInv, TicketsTyped
<1>7. \A c \in Consumers : pc[c] # "polling" => Current(c)' = Current(c)
  BY <1>1, <1>2, InHand DEF Current, IInv
<1>8. DoneInv'
  BY <1>1, <1>2, <1>3, <1>7 DEF IInv, DoneInv, GroupTyped
<1>9. OriginInv' /\ AnnouncedOnce'
  BY <1>1, <1>7 DEF IInv, OriginInv, AnnouncedOnce, Sends, TypeOf
<1> QED
  BY <1>4, <1>5, <1>6, <1>8, <1>9 DEF IInv

LEMMA FaultKeeps ==
    ASSUME TopicTyped, UNCHANGED topicVars, Fault \/ UNCHANGED faults
    PROVE  TopicTyped'
BY ConstantsAssumption DEF TopicTyped, topicVars, Fault

(* The tables and the topic at rest, and members that go nowhere or back   *)
(* to a committed offset.                                                  *)
LEMMA GroupKeeps ==
    ASSUME IInv, NEW c \in Consumers,
           \/ Assign(c) \/ Rebalance(c) \/ NoticeLoss(c) \/ CommitOffset(c) \/ Crash(c)
    PROVE  IInv'
<1> USE DEF topicVars, tableVars, groupVars, consumerVars
<1>1. TopicTyped'
  BY FaultKeeps DEF Assign, Rebalance, HandOver, NoticeLoss, Leave, CommitOffset, Crash, IInv
<1>2. UNCHANGED <<log, processed, tickets, committed, delivered>>
  BY DEF Assign, Rebalance, HandOver, NoticeLoss, Leave, CommitOffset, Crash
<1>3. TicketsTyped' /\ OriginInv'
  BY <1>2 DEF IInv, TicketsTyped, OriginInv, Sends, TypeOf
<1>4. CASE Assign(c) \/ Rebalance(c)
  <2>1. /\ c \notin joined /\ assigned' = c /\ joined' = joined \cup {c}
        /\ pos' = [pos EXCEPT ![c] = offset] /\ UNCHANGED <<offset, pc>>
    BY <1>4 DEF Assign, Rebalance, HandOver
  <2>2. pc[c] = "polling"
    BY <2>1 DEF IInv, GroupTyped
  <2>3. GroupTyped'
    BY <1>2, <2>1, <2>2 DEF IInv, GroupTyped
  <2>4. \A d \in Consumers : pc[d] # "polling" => Current(d)' = Current(d)
    BY <1>2, <2>1, <2>2 DEF IInv, GroupTyped, Current
  <2>5. DoneInv'
    BY <1>2, <2>1, <2>2, <2>4 DEF IInv, GroupTyped, DoneInv
  <2>6. AnnouncedOnce'
    BY <1>2, <2>1, <2>4 DEF IInv, AnnouncedOnce
  <2> QED
    BY <1>1, <1>3, <2>3, <2>5, <2>6 DEF IInv
<1>5. CASE NoticeLoss(c) \/ Crash(c)
  <2>1. /\ joined' = joined \ {c} /\ pos' = [pos EXCEPT ![c] = 0]
        /\ pc' = [pc EXCEPT ![c] = "polling"]
        /\ UNCHANGED offset
        /\ assigned' \in joined' \cup {NULL}
    BY <1>5 DEF NoticeLoss, Crash, Leave, IInv, GroupTyped
  <2>2. GroupTyped'
    BY <1>2, <2>1 DEF IInv, GroupTyped, TopicTyped, Steps
  <2>3. \A d \in Consumers : pc'[d] # "polling" => /\ d # c /\ pc'[d] = pc[d]
                                                  /\ Current(d)' = Current(d)
    BY <1>2, <2>1 DEF IInv, GroupTyped, Current
  <2>4. DoneInv'
    BY <1>2, <2>1, <2>3 DEF IInv, GroupTyped, DoneInv
  <2>5. AnnouncedOnce'
    BY <1>2, <2>1, <2>3 DEF IInv, AnnouncedOnce
  <2> QED
    BY <1>1, <1>3, <2>2, <2>4, <2>5 DEF IInv
<1>6. CASE CommitOffset(c)
  <2>1. offset' = pos[c] /\ UNCHANGED <<assigned, joined, pos, pc>>
    BY <1>6 DEF CommitOffset
  <2>2. GroupTyped' /\ DoneInv' /\ AnnouncedOnce'
    BY <1>2, <2>1 DEF IInv, GroupTyped, DoneInv, AnnouncedOnce, Current
  <2> QED
    BY <1>1, <1>3, <2>2 DEF IInv
<1> QED
  BY <1>4, <1>5, <1>6

(* Steps of eachMessage that leave the tables alone.                       *)
LEMMA HandlerKeeps ==
    ASSUME IInv, NEW c \in Consumers,
           \/ Fetch(c) \/ SkipDuplicate(c) \/ Enqueue(c) \/ Return(c) \/ TransactionFails(c)
    PROVE  IInv'
<1> USE DEF topicVars, tableVars, groupVars, consumerVars
<1>1. TopicTyped'
  BY FaultKeeps DEF Fetch, SkipDuplicate, Enqueue, Return, TransactionFails, IInv
<1>2. UNCHANGED <<log, processed, tickets, committed, delivered, assigned, offset, joined>>
  BY DEF Fetch, SkipDuplicate, Enqueue, Return, TransactionFails
<1>3. TicketsTyped' /\ OriginInv'
  BY <1>2 DEF IInv, TicketsTyped, OriginInv, Sends, TypeOf
<1>4. CASE Return(c)
  <2>1. /\ pc[c] = "handled"
        /\ pos' = [pos EXCEPT ![c] = @ + 1] /\ pc' = [pc EXCEPT ![c] = "polling"]
    BY <1>4 DEF Return
  <2>2. Current(c) \in processed /\ pos[c] < Len(log) /\ pos[c] \in Nat
    BY <2>1 DEF IInv, GroupTyped, DoneInv
  <2>3. GroupTyped'
    BY <1>2, <2>1, <2>2 DEF IInv, GroupTyped, TopicTyped, Steps
  <2>4. \A d \in Consumers : pc'[d] # "polling" => /\ d # c /\ pc'[d] = pc[d]
                                                  /\ Current(d)' = Current(d)
    BY <1>2, <2>1 DEF IInv, GroupTyped, Current
  <2>5. \A i \in 1 .. pos[c] + 1 : log[i] \in processed
    BY <2>2 DEF IInv, DoneInv, Current
  <2>6. DoneInv'
    BY <1>2, <2>1, <2>4, <2>5 DEF IInv, GroupTyped, DoneInv
  <2>7. AnnouncedOnce'
    BY <1>2, <2>1, <2>4 DEF IInv, AnnouncedOnce
  <2> QED
    BY <1>1, <1>3, <2>3, <2>6, <2>7 DEF IInv
<1>5. CASE Fetch(c) \/ SkipDuplicate(c) \/ Enqueue(c) \/ TransactionFails(c)
  <2>1. PICK step \in {"applying", "handled", "polling"} :
            pc' = [pc EXCEPT ![c] = step] /\ UNCHANGED pos
    BY <1>5 DEF Fetch, SkipDuplicate, Enqueue, TransactionFails
  <2>2. c \in joined /\ pos[c] < Len(log)
    BY <1>5 DEF Fetch, SkipDuplicate, Enqueue, TransactionFails, IInv, GroupTyped
  <2>3. GroupTyped'
    BY <1>2, <2>1, <2>2 DEF IInv, GroupTyped, Steps
  <2>4. \A d \in Consumers : Current(d)' = Current(d)
    BY <1>2, <2>1 DEF Current
  <2>5. pc'[c] = "handled" => Current(c) \in processed
    BY <1>5, <2>1 DEF Fetch, SkipDuplicate, Enqueue, TransactionFails, IInv, GroupTyped, DoneInv
  <2>6. \A d \in Consumers : d # c => pc'[d] = pc[d]
    BY <2>1 DEF IInv, GroupTyped
  <2>7. pc'[c] # "enqueuing"
    BY <2>1 DEF IInv, GroupTyped
  <2>8. DoneInv'
    BY <1>2, <2>1, <2>4, <2>5, <2>6, <2>7 DEF IInv, DoneInv
  <2>9. AnnouncedOnce'
    BY <1>2, <2>4, <2>6, <2>7 DEF IInv, AnnouncedOnce
  <2> QED
    BY <1>1, <1>3, <2>3, <2>8, <2>9 DEF IInv
<1> QED
  BY <1>4, <1>5

(* The transaction. *)
LEMMA ApplyKeeps ==
    ASSUME IInv, NEW c \in Consumers, ApplyNew(c)
    PROVE  IInv'
<1> DEFINE e == Current(c)
<1> USE DEF topicVars, groupVars
<1>1. /\ e \in delivered /\ e \in Events /\ e[1] \in Orders
      /\ e[2] \in 1 .. Len(Life[e[1]]) /\ e[2] \in Nat
  BY InHand, InLife, EventParts, ConstantsAssumption DEF ApplyNew, IInv
<1>2. /\ e \notin processed /\ processed' = processed \cup {e}
      /\ UNCHANGED <<committed, delivered, abandoned, log, assigned, offset, joined, pos, faults>>
  BY DEF ApplyNew, Mark
<1>3. PICK step \in {"enqueuing", "handled"} :
          /\ pc' = [pc EXCEPT ![c] = step]
          /\ step = "enqueuing" <=> Sends(e) /\ tickets' # tickets
  BY DEF ApplyNew, Sends
<1>4. /\ pc'[c] = step /\ \A d \in Consumers : d # c => pc'[d] = pc[d]
      /\ \A d \in Consumers : Current(d)' = Current(d)
  BY <1>2, <1>3 DEF IInv, GroupTyped, Current
<1>5. TopicTyped'
  BY <1>2 DEF IInv, TopicTyped
<1>6. GroupTyped'
  BY <1>2, <1>3 DEF IInv, GroupTyped, Steps, ApplyNew
<1>7. DoneInv'
  BY <1>2, <1>4 DEF IInv, DoneInv
<1>8. CASE UNCHANGED tickets
  <2>1. TicketsTyped' /\ OriginInv'
    BY <1>1, <1>2, <1>8 DEF IInv, TicketsTyped, OriginInv, Sends, TypeOf
  <2>2. AnnouncedOnce'
    BY <1>3, <1>4, <1>8 DEF IInv, AnnouncedOnce
  <2> QED
    BY <1>5, <1>6, <1>7, <2>1, <2>2 DEF IInv
<1>9. CASE Created(e)
  <2>1. /\ TicketsTyped'
        /\ tickets'[e[1]] = [state |-> "SENT_TO_KITCHEN", version |-> e[2]]
        /\ \A o \in Orders \ {e[1]} : tickets'[o] = tickets[o]
    BY <1>1, <1>2, <1>9, WrittenTyped DEF Created, States
  <2>2. tickets'[e[1]].state = "SENT_TO_KITCHEN"
    BY <2>1
  <2>3. OriginInv'
    BY <1>2, <1>9, <2>1, <2>2 DEF IInv, OriginInv, Created, Sends, TypeOf
  <2>4. tickets[e[1]] = NoTicket
    BY <1>1, <1>2, <1>9, CreatedFresh DEF Created
  <2>5. tickets'[e[1]] # NoTicket
    BY <2>2 DEF NoTicket
  <2>6. \A d \in Consumers : d # c /\ pc'[d] = "enqueuing" =>
            Current(d)[1] # e[1] /\ tickets'[Current(d)[1]] # NoTicket
    <3> SUFFICES ASSUME NEW d \in Consumers, d # c, pc'[d] = "enqueuing"
                 PROVE  Current(d)[1] # e[1] /\ tickets'[Current(d)[1]] # NoTicket
      OBVIOUS
    <3>1. pc[d] = "enqueuing" /\ tickets[Current(d)[1]] # NoTicket
      BY <1>4 DEF IInv, AnnouncedOnce
    <3>2. Current(d)[1] \in Orders
      BY <3>1, InHand, EventParts DEF IInv
    <3> QED
      BY <2>1, <2>4, <3>1, <3>2
  <2>7. AnnouncedOnce'
    BY <1>4, <2>5, <2>6 DEF IInv, AnnouncedOnce
  <2> QED
    BY <1>5, <1>6, <1>7, <2>1, <2>3, <2>7 DEF IInv
<1>10. CASE Advanced(e)
  <2> DEFINE state == StateByEventType[TypeOf(e)]
  <2>1. /\ state \in {"PREPARING", "READY", "CANCELLED"}
        /\ state = "CANCELLED" => TypeOf(e) = "OrderCancelled"
        /\ ~Sends(e)
    BY <1>10, StatesByType DEF Advanced, Sends
  <2>2. /\ TicketsTyped'
        /\ tickets'[e[1]] = [state |-> state, version |-> e[2]]
        /\ \A o \in Orders \ {e[1]} : tickets'[o] = tickets[o]
    BY <1>1, <1>2, <1>10, <2>1, WrittenTyped DEF Advanced, States
  <2>3. tickets'[e[1]].state = state /\ tickets'[e[1]].version = e[2]
    BY <2>2
  <2>4. state = "CANCELLED" => e[2] = Len(Life[e[1]])
    BY <1>1, <2>1, LifeAssumption DEF TypeOf
  <2>5. tickets'[e[1]] # NoTicket /\ tickets[e[1]] # NoTicket
    BY <1>10, <2>1, <2>3 DEF NoTicket, Advanced
  <2>6. OriginInv'
    BY <1>2, <2>2, <2>3, <2>4, <2>5 DEF IInv, OriginInv, Sends, TypeOf
  <2>7. \A d \in Consumers : pc'[d] = "enqueuing" =>
            d # c /\ pc[d] = "enqueuing" /\ Current(d)[1] \in Orders
    BY <1>3, <1>4, <2>1, InHand, EventParts DEF IInv
  <2>8. AnnouncedOnce'
    BY <1>4, <2>2, <2>5, <2>7 DEF IInv, AnnouncedOnce
  <2> QED
    BY <1>5, <1>6, <1>7, <2>2, <2>6, <2>8 DEF IInv
<1> QED
  BY <1>8, <1>9, <1>10, ApplyCases

----------------------------------------------------------------------------
(* The invariant *)

LEMMA InitInv == Init => IInv
<1> SUFFICES ASSUME Init PROVE IInv
  OBVIOUS
<1>1. TopicTyped
  <2>1. ASSUME NEW o \in Orders
        PROVE  Len(Life[o]) \in Nat
    <3>1. Life[o] \in Seq(EventTypes)
      BY LifeAssumption
    <3> QED
      BY <3>1
  <2> QED
    BY <2>1, ConstantsAssumption DEF Init, Topic!Init, TopicTyped
<1>2. GroupTyped /\ DoneInv /\ AnnouncedOnce
  BY DEF Init, GroupTyped, Steps, DoneInv, AnnouncedOnce
<1>3. TicketsTyped
  <2>1. NoTicket \in [state : States, version : Nat] /\ NoTicket.version = 0
    BY DEF NoTicket, States
  <2> QED
    BY <2>1 DEF Init, Topic!Init, TicketsTyped
<1>4. OriginInv
  <2>1. NoTicket.state = "none"
    BY DEF NoTicket
  <2> QED
    BY <2>1 DEF Init, OriginInv
<1> QED
  BY <1>1, <1>2, <1>3, <1>4 DEF IInv

LEMMA StepInv == IInv /\ [Next]_vars => IInv'
<1> SUFFICES ASSUME IInv, [Next]_vars PROVE IInv'
  OBVIOUS
<1>1. CASE UNCHANGED vars
  BY <1>1 DEF vars, topicVars, tableVars, groupVars, consumerVars, IInv, TopicTyped, GroupTyped,
              TicketsTyped, DoneInv, OriginInv, AnnouncedOnce, Current, Sends, TypeOf
<1>2. CASE Next
  BY <1>2, CommitKeeps, PublishKeeps, GroupKeeps, HandlerKeeps, ApplyKeeps DEF Next, Handle
<1> QED
  BY <1>1, <1>2

LEMMA Invariance == Spec => []IInv
  BY InitInv, StepInv, PTL DEF Spec

(* Every reachable state is well typed: a ticket is never ahead of its     *)
(* order, and nothing is processed that was not on the topic.              *)
THEOREM TypeCorrect == Spec => []TypeOK
<1>1. IInv => TypeOK
  <2> SUFFICES ASSUME IInv PROVE TypeOK
    OBVIOUS
  <2>1. ASSUME NEW o \in Orders
        PROVE  tickets[o].version \in 0 .. committed[o] /\ tickets[o].state \in States
    <3>1. tickets[o] \in [state : States, version : Nat]
      BY DEF IInv, TicketsTyped
    <3>2. tickets[o].version \in Nat /\ tickets[o].state \in States
      BY <3>1
    <3>3. committed[o] \in Nat /\ tickets[o].version <= committed[o]
      BY DEF IInv, TopicTyped, TicketsTyped
    <3> QED
      BY <3>2, <3>3
  <2>2. \A c \in Consumers : pos[c] \in 0 .. Len(log) /\ (pc[c] # "polling" => pos[c] < Len(log))
    BY DEF IInv, TopicTyped, GroupTyped
  <2>3. /\ delivered \subseteq Events /\ abandoned \subseteq Events
        /\ log \in Seq(Events) /\ Len(log) <= MaxRecords
        /\ processed \subseteq delivered
        /\ assigned \in joined \cup {NULL} /\ offset \in 0 .. Len(log)
        /\ faults \in 0 .. MaxFaults
    BY DEF IInv, TopicTyped, GroupTyped, TicketsTyped
  <2> QED
    BY <2>1, <2>2, <2>3 DEF TypeOK, States
<1> QED
  BY <1>1, Invariance, PTL

(* No record below the committed offset was skipped (eachMessage).         *)
THEOREM NothingSkipped == Spec => []OffsetCoversProcessed
<1>1. IInv => OffsetCoversProcessed
  BY DEF IInv, DoneInv, OffsetCoversProcessed
<1> QED
  BY <1>1, Invariance, PTL

(* A ticket changes only to a later version (createTicket, advanceTicket). *)
LEMMA MovesForward ==
    ASSUME IInv, [Next]_vars, NEW o \in Orders, tickets'[o] # tickets[o]
    PROVE  tickets'[o].version > tickets[o].version
<1>1. PICK c \in Consumers : ApplyNew(c)
  BY DEF Next, Handle, Commit, Publish, GiveUp, Assign, Rebalance, HandOver, NoticeLoss, Leave,
         CommitOffset, Crash, Fetch, SkipDuplicate, Enqueue, Return, TransactionFails,
         vars, tableVars
<1> DEFINE e == Current(c)
<1>2. e \in delivered /\ e[1] \in Orders /\ e[2] \in Nat
  BY <1>1, InHand, EventParts, ConstantsAssumption DEF ApplyNew, IInv
<1>3. ASSUME NEW state, Written(e, state)
      PROVE  tickets'[o].version > tickets[o].version
  <2>1. o = e[1] /\ tickets'[o] = [state |-> state, version |-> e[2]]
    BY <1>2, <1>3 DEF Written, IInv, TicketsTyped
  <2> QED
    BY <1>2, <1>3, <2>1 DEF Written, IInv, TicketsTyped
<1> QED
  BY <1>1, <1>3, ApplyCases DEF Created, Advanced

THEOREM TicketsMoveForward == Spec => TicketNeverMovesBack
<1>1. IInv /\ [Next]_vars =>
        [\A o \in Orders : tickets'[o] # tickets[o] => tickets'[o].version > tickets[o].version]_vars
  BY MovesForward
<1> QED
  BY <1>1, Invariance, PTL DEF Spec, TicketNeverMovesBack
----------------------------------------------------------------------------
(* Refinement *)

(* The member begins or ends no enqueue. *)
SameAnnouncement(d) ==
    /\ pc'[d] = "enqueuing" <=> pc[d] = "enqueuing"
    /\ pc[d] = "enqueuing" => log'[pos'[d] + 1] = log[pos[d] + 1]

(* A step that no reader of the board notices. *)
LEMMA Unnoticed ==
    ASSUME UNCHANGED tickets, \A d \in Consumers : SameAnnouncement(d)
    PROVE  UNCHANGED Board!vars
<1>1. UNCHANGED BoardTicket
  BY DEF BoardTicket
<1>2. UNCHANGED Announcing
  BY DEF Announcing, SameAnnouncement, Current
<1> QED
  BY <1>1, <1>2 DEF Board!vars

(* A handler goes on after it enqueued, or dies before. *)
LEMMA AnnouncementEnds ==
    ASSUME IInv, NEW c \in Consumers, pc[c] = "enqueuing", UNCHANGED tickets,
           pc'[c] # "enqueuing",
           \A d \in Consumers \ {c} : SameAnnouncement(d)
    PROVE  Board!Next
<1> DEFINE o == Current(c)[1]
<1>1. o \in Orders
  BY InHand, EventParts DEF IInv
<1>2. UNCHANGED BoardTicket
  BY DEF BoardTicket
<1>3. o \in Announcing
  BY <1>1 DEF Announcing
<1>4. Announcing' = Announcing \ {o}
  <2> USE DEF SameAnnouncement, Current
  <2>1. ASSUME NEW p \in Orders, p \in Announcing' PROVE p \in Announcing /\ p # o
    <3>1. PICK d \in Consumers : pc'[d] = "enqueuing" /\ log'[pos'[d] + 1][1] = p
      BY <2>1 DEF Announcing
    <3>2. d # c /\ pc[d] = "enqueuing" /\ Current(d)[1] = p
      BY <3>1
    <3> QED
      BY <2>1, <3>2 DEF Announcing, IInv, AnnouncedOnce
  <2>2. ASSUME NEW p \in Orders, p \in Announcing, p # o PROVE p \in Announcing'
    <3>1. PICK d \in Consumers : pc[d] = "enqueuing" /\ Current(d)[1] = p
      BY <2>2 DEF Announcing
    <3>2. pc'[d] = "enqueuing" /\ log'[pos'[d] + 1][1] = p
      BY <2>2, <3>1
    <3> QED
      BY <2>2, <3>2 DEF Announcing
  <2>3. Announcing \subseteq Orders /\ Announcing' \subseteq Orders
    BY DEF Announcing
  <2> QED
    BY <2>1, <2>2, <2>3
<1> QED
  BY <1>1, <1>2, <1>3, <1>4 DEF Board!Next, Board!Announced

LEMMA ApplyRefines ==
    ASSUME IInv, NEW c \in Consumers, ApplyNew(c)
    PROVE  [Board!Next]_(Board!vars)
<1> DEFINE e == Current(c)
<1>1. e \in delivered /\ e \in Events /\ e[1] \in Orders /\ e[2] \in Nat
  BY InHand, InLife, EventParts, ConstantsAssumption DEF ApplyNew, IInv
<1>2. /\ e \notin processed /\ UNCHANGED <<log, pos>> /\ pc[c] = "applying"
      /\ processed' = processed \cup {e} /\ UNCHANGED topicVars
  BY DEF ApplyNew, Mark, topicVars
<1>3. PICK step \in {"enqueuing", "handled"} :
          /\ pc' = [pc EXCEPT ![c] = step]
          /\ step = "enqueuing" <=> Sends(e) /\ tickets' # tickets
  BY DEF ApplyNew, Sends
<1>4. /\ pc'[c] = step /\ \A d \in Consumers : d # c => pc'[d] = pc[d]
      /\ \A d \in Consumers : Current(d)' = Current(d)
  BY <1>2, <1>3 DEF IInv, GroupTyped, Current
<1>5. CASE UNCHANGED tickets
  BY <1>2, <1>3, <1>4, <1>5, Unnoticed DEF SameAnnouncement
<1>6. CASE Created(e)
  <2>1. /\ tickets'[e[1]] = [state |-> "SENT_TO_KITCHEN", version |-> e[2]]
        /\ \A o \in Orders \ {e[1]} : tickets'[o] = tickets[o]
    BY <1>1, <1>2, <1>6, WrittenTyped DEF Created, States
  <2>2. tickets[e[1]].state = "none" /\ tickets'[e[1]].state = "SENT_TO_KITCHEN"
    BY <1>1, <1>2, <1>6, <2>1, CreatedFresh DEF Created, NoTicket
  <2>3. BoardTicket[e[1]] = "none" /\ BoardTicket' = [BoardTicket EXCEPT ![e[1]] = "live"]
    BY <1>1, <2>1, <2>2 DEF BoardTicket
  <2>4. step = "enqueuing"
    BY <1>3, <1>6, <2>2 DEF Created
  <2>5. Announcing' = Announcing \cup {e[1]}
    BY <1>1, <1>2, <1>4, <2>4 DEF Announcing, Current
  <2> QED
    BY <1>1, <2>3, <2>5 DEF Board!Next, Board!Create
<1>7. CASE Advanced(e)
  <2> DEFINE state == StateByEventType[TypeOf(e)]
  <2>1. state \in {"PREPARING", "READY", "CANCELLED"} /\ ~Sends(e)
    BY <1>7, StatesByType DEF Advanced, Sends
  <2>2. /\ tickets'[e[1]] = [state |-> state, version |-> e[2]]
        /\ \A o \in Orders \ {e[1]} : tickets'[o] = tickets[o]
    BY <1>1, <1>2, <1>7, <2>1, WrittenTyped DEF Advanced, States
  <2>3. tickets'[e[1]].state = state
    BY <2>2
  <2>4. tickets[e[1]].state # "none"
    BY <1>1, <1>7 DEF Advanced, IInv, TicketsTyped
  <2>5. tickets[e[1]].state # "CANCELLED"
    <3>1. tickets[e[1]].version < e[2] /\ e[2] <= Len(Life[e[1]])
      BY <1>1, <1>7, InLife DEF Advanced, Written, IInv
    <3>2. Len(Life[e[1]]) \in Nat /\ tickets[e[1]].version \in Nat
      <4>1. Life[e[1]] \in Seq(EventTypes)
        BY <1>1, LifeAssumption
      <4> QED
        BY <1>1, <4>1 DEF IInv, TicketsTyped
    <3> QED
      BY <1>1, <3>1, <3>2 DEF IInv, OriginInv
  <2>6. BoardTicket[e[1]] = "live"
    BY <1>1, <2>4, <2>5 DEF BoardTicket
  <2>7. UNCHANGED Announcing
    BY <1>2, <1>3, <1>4, <2>1 DEF Announcing, Current
  <2>8. CASE state = "CANCELLED"
    <3>1. BoardTicket' = [BoardTicket EXCEPT ![e[1]] = "cancelled"]
      BY <1>1, <2>2, <2>3, <2>8 DEF BoardTicket
    <3> QED
      BY <1>1, <2>6, <2>7, <3>1 DEF Board!Next, Board!Cancel
  <2>9. CASE state # "CANCELLED"
    <3>1. UNCHANGED BoardTicket
      BY <1>1, <2>1, <2>2, <2>3, <2>4, <2>5, <2>9 DEF BoardTicket
    <3> QED
      BY <2>7, <3>1 DEF Board!vars
  <2> QED
    BY <2>8, <2>9
<1> QED
  BY <1>5, <1>6, <1>7, ApplyCases

LEMMA BoardStep ==
    ASSUME IInv, [Next]_vars
    PROVE  [Board!Next]_(Board!vars)
<1> USE DEF topicVars, tableVars, groupVars, consumerVars, SameAnnouncement
<1>1. CASE UNCHANGED vars
  BY <1>1, Unnoticed DEF vars
<1>2. CASE (\E o \in Orders : Commit(o)) \/ (\E e \in Events : GiveUp(e))
  BY <1>2, Unnoticed DEF Commit, GiveUp
<1>3. ASSUME NEW e \in Events, Publish(e)
      PROVE  [Board!Next]_(Board!vars)
  <2>1. log' = Append(log, e) /\ UNCHANGED <<tickets, pc, pos>>
    BY <1>3 DEF Publish
  <2>2. \A d \in Consumers : pc[d] # "polling" => log'[pos'[d] + 1] = log[pos[d] + 1]
    BY <2>1, LogGrows, InHand DEF Current, IInv
  <2> QED
    BY <2>1, <2>2, Unnoticed
<1>4. ASSUME NEW c \in Consumers, ApplyNew(c)
      PROVE  [Board!Next]_(Board!vars)
  BY <1>4, ApplyRefines
<1>5. ASSUME NEW c \in Consumers, Assign(c) \/ Rebalance(c)
      PROVE  [Board!Next]_(Board!vars)
  <2>1. c \notin joined /\ pos' = [pos EXCEPT ![c] = offset] /\ UNCHANGED <<tickets, log, pc>>
    BY <1>5 DEF Assign, Rebalance, HandOver
  <2>2. \A d \in Consumers : pc[d] # "polling" => log'[pos'[d] + 1] = log[pos[d] + 1]
    BY <2>1 DEF IInv, GroupTyped, Current
  <2> QED
    BY <2>1, <2>2, Unnoticed
<1>6. ASSUME NEW c \in Consumers, NoticeLoss(c) \/ Crash(c) \/ Enqueue(c)
      PROVE  [Board!Next]_(Board!vars)
  <2>1. UNCHANGED <<tickets, log>>
    BY <1>6 DEF NoticeLoss, Crash, Enqueue, Leave
  <2>2. pc'[c] # "enqueuing"
    BY <1>6 DEF NoticeLoss, Crash, Enqueue, Leave, IInv, GroupTyped
  <2>3. \A d \in Consumers : d # c => pc'[d] = pc[d] /\ pos'[d] = pos[d]
    BY <1>6 DEF NoticeLoss, Crash, Enqueue, Leave, IInv, GroupTyped
  <2>5. CASE pc[c] = "enqueuing"
    BY <2>1, <2>2, <2>3, <2>5, AnnouncementEnds
  <2>6. CASE pc[c] # "enqueuing"
    BY <2>1, <2>2, <2>3, <2>6, Unnoticed
  <2> QED
    BY <2>5, <2>6
<1>7. ASSUME NEW c \in Consumers,
             \/ Fetch(c) \/ SkipDuplicate(c) \/ TransactionFails(c) \/ CommitOffset(c) \/ Return(c)
      PROVE  [Board!Next]_(Board!vars)
  <2>1. UNCHANGED <<tickets, log>>
    BY <1>7 DEF Fetch, SkipDuplicate, TransactionFails, CommitOffset, Return
  <2>2. \A d \in Consumers : /\ pc'[d] = "enqueuing" <=> pc[d] = "enqueuing"
                             /\ pc[d] = "enqueuing" => pos'[d] = pos[d]
    BY <1>7 DEF Fetch, SkipDuplicate, TransactionFails, CommitOffset, Return, IInv, GroupTyped
  <2> QED
    BY <2>1, <2>2, Unnoticed
<1> QED
  BY <1>1, <1>2, <1>3, <1>4, <1>5, <1>6, <1>7 DEF Next, Handle

(* The consumer implements the board of tickets. *)
THEOREM Refinement == Spec => ImplementsBoard
<1>1. Init => Board!Init
  <2> SUFFICES ASSUME Init PROVE Board!Init
    OBVIOUS
  <2>1. BoardTicket = [o \in Orders |-> "none"]
    BY DEF Init, BoardTicket, NoTicket
  <2>2. Announcing = {}
    BY DEF Init, Announcing
  <2> QED
    BY <2>1, <2>2 DEF Board!Init
<1>2. IInv /\ [Next]_vars => [Board!Next]_(Board!vars)
  BY BoardStep
<1> QED
  BY <1>1, <1>2, Invariance, PTL DEF Spec, ImplementsBoard, Board!Spec
----------------------------------------------------------------------------
(* The latest event *)

IsFirst(e, i) == log[i] = e /\ \A j \in 1 .. i - 1 : log[j] # e

(* Events are processed for the first time in the order of their first     *)
(* records, whatever members take part: a member that comes to a record    *)
(* has, or knows to be processed, all before it.                           *)
FirstInv ==
    /\ \A e \in delivered : \E i \in 1 .. Len(log) : IsFirst(e, i)
    /\ \A e \in processed : \A i \in 1 .. Len(log) :
        IsFirst(e, i) => \A j \in 1 .. i - 1 : log[j] \in processed

LatestInv == FirstInv /\ TicketIsLatest

LEMMA FirstUnique ==
    ASSUME NEW s, Len(s) \in Nat, NEW e, NEW k \in 1 .. Len(s),
           s[k] = e, \A j \in 1 .. k - 1 : s[j] # e
    PROVE  (CHOOSE i \in 1 .. Len(s) : s[i] = e /\ \A j \in 1 .. i - 1 : s[j] # e) = k
<1> DEFINE P(i) == i \in 1 .. Len(s) /\ s[i] = e /\ \A j \in 1 .. i - 1 : s[j] # e
<1>1. P(k)
  OBVIOUS
<1>2. \A i : P(i) => i = k
  <2> SUFFICES ASSUME NEW i, P(i) PROVE i = k
    OBVIOUS
  <2>1. ~ (i < k) /\ ~ (k < i)
    BY <1>1
  <2> QED
    BY <2>1
<1>3. (CHOOSE i : P(i)) = k
  <2>1. P(CHOOSE i : P(i))
    BY <1>1
  <2> QED
    BY <1>2, <2>1
<1> QED
  BY <1>3

LEMMA FirstRecordIs ==
    ASSUME TopicTyped, NEW e, NEW k \in 1 .. Len(log), IsFirst(e, k)
    PROVE  FirstRecord(e) = k
BY FirstUnique DEF TopicTyped, IsFirst, FirstRecord

(* Nothing said here changes with the log, the tables and what was         *)
(* delivered at rest.                                                      *)
LEMMA LatestAtRest ==
    ASSUME LatestInv, UNCHANGED <<log, delivered, processed, tickets>>
    PROVE  LatestInv'
<1>1. FirstInv'
  BY DEF LatestInv, FirstInv, IsFirst
<1>2. \A o : Reflected(o)' = Reflected(o)
  BY DEF Reflected, TypeOf
<1>3. ASSUME NEW o \in Orders, NEW sent \in Reflected(o)',
             TypeOf(sent) = "OrderSentToKitchen", CreatedInOrder(sent)'
      PROVE  \E f \in Reflected(o)' :
                /\ \A g \in Reflected(o)' : g[2] <= f[2]
                /\ tickets'[o] = [state |-> StateAfter(f), version |-> f[2]]
  <2>1. CreatedInOrder(sent)
    BY <1>2, <1>3 DEF CreatedInOrder, FirstRecord
  <2> QED
    BY <1>2, <1>3, <2>1 DEF LatestInv, TicketIsLatest
<1>4. TicketIsLatest'
  BY <1>3 DEF TicketIsLatest, TypeOf, StateAfter
<1> QED
  BY <1>1, <1>4 DEF LatestInv

LEMMA PublishLatest ==
    ASSUME IInv, LatestInv, NEW e \in Events, Publish(e)
    PROVE  LatestInv'
<1>1. /\ log' = Append(log, e) /\ delivered' = delivered \cup {e}
      /\ UNCHANGED <<processed, tickets>>
  BY DEF Publish, Topic!Deliver, tableVars
<1>2. /\ Len(log') = Len(log) + 1
      /\ \A i \in 1 .. Len(log) : log'[i] = log[i]
      /\ log'[Len(log) + 1] = e
      /\ log' \in Seq(Events)
  BY <1>1, LogGrows DEF IInv
<1>3. Len(log) \in Nat /\ \A i \in 1 .. Len(log) : log[i] \in delivered
  BY DEF IInv, TopicTyped
<1>4. ASSUME NEW f \in delivered
      PROVE  \E i \in 1 .. Len(log) : /\ IsFirst(f, i)
                                      /\ log'[i] = f /\ \A j \in 1 .. i - 1 : log'[j] # f
  <2>1. PICK i \in 1 .. Len(log) : IsFirst(f, i)
    BY DEF LatestInv, FirstInv
  <2> QED
    BY <1>2, <1>3, <2>1 DEF IsFirst
<1>5. \A f \in delivered' : \E i \in 1 .. Len(log') :
          log'[i] = f /\ \A j \in 1 .. i - 1 : log'[j] # f
  <2> SUFFICES ASSUME NEW f \in delivered'
               PROVE  \E i \in 1 .. Len(log') : log'[i] = f /\ \A j \in 1 .. i - 1 : log'[j] # f
    OBVIOUS
  <2>1. CASE f \in delivered
    BY <1>2, <1>3, <1>4, <2>1
  <2>2. CASE f \notin delivered
    <3>1. f = e /\ \A j \in 1 .. Len(log) : log'[j] # f
      BY <1>1, <1>2, <1>3, <2>2
    <3>2. Len(log) + 1 \in 1 .. Len(log') /\ log'[Len(log) + 1] = f
      BY <1>2, <1>3, <3>1
    <3>3. \A j \in 1 .. (Len(log) + 1) - 1 : log'[j] # f
      BY <1>3, <3>1
    <3> QED
      BY <3>2, <3>3
  <2> QED
    BY <2>1, <2>2
<1>6. ASSUME NEW f \in processed, NEW i \in 1 .. Len(log'),
             log'[i] = f, \A j \in 1 .. i - 1 : log'[j] # f
      PROVE  \A j \in 1 .. i - 1 : log'[j] \in processed
  <2>1. f \in delivered
    BY DEF IInv, TicketsTyped
  <2>2. PICK k \in 1 .. Len(log) : /\ IsFirst(f, k)
                                  /\ log'[k] = f /\ \A j \in 1 .. k - 1 : log'[j] # f
    BY <1>4, <2>1
  <2>3. i = k
    <3>1. ~ (i < k) /\ ~ (k < i)
      BY <1>2, <1>3, <1>6, <2>2
    <3> QED
      BY <1>2, <1>3, <3>1
  <2>4. \A j \in 1 .. k - 1 : log[j] \in processed
    BY <2>2 DEF LatestInv, FirstInv
  <2> QED
    BY <1>2, <1>3, <2>3, <2>4
<1>7. FirstInv'
  BY <1>1, <1>5, <1>6 DEF FirstInv, IsFirst
<1>8. ASSUME NEW f \in delivered
      PROVE  FirstRecord(f)' = FirstRecord(f)
  <2>1. PICK i \in 1 .. Len(log) : /\ IsFirst(f, i)
                                  /\ log'[i] = f /\ \A j \in 1 .. i - 1 : log'[j] # f
    BY <1>4
  <2>2. FirstRecord(f) = i
    BY <2>1, FirstRecordIs DEF IInv
  <2>3. FirstRecord(f)' = i
    BY <1>2, <1>3, <2>1, FirstUnique DEF FirstRecord
  <2> QED
    BY <2>2, <2>3
<1>9. TicketIsLatest'
  <2>1. \A o : Reflected(o)' = Reflected(o)
    BY <1>1 DEF Reflected, TypeOf
  <2>2. \A o : Reflected(o) \subseteq delivered
    BY DEF Reflected, IInv, TicketsTyped
  <2> SUFFICES ASSUME NEW o \in Orders, NEW sent \in Reflected(o)',
                      TypeOf(sent) = "OrderSentToKitchen", CreatedInOrder(sent)'
               PROVE  \E f \in Reflected(o)' :
                        /\ \A g \in Reflected(o)' : g[2] <= f[2]
                        /\ tickets'[o] = [state |-> StateAfter(f), version |-> f[2]]
    BY DEF TicketIsLatest, TypeOf, StateAfter
  <2>3. sent \in Reflected(o) /\ sent \in delivered
    BY <2>1, <2>2
  <2>4. CreatedInOrder(sent)
    <3> SUFFICES ASSUME NEW f \in Reflected(sent[1]), f[2] > sent[2]
                 PROVE  FirstRecord(f) > FirstRecord(sent)
      BY DEF CreatedInOrder
    <3>1. FirstRecord(f)' > FirstRecord(sent)'
      BY <2>1 DEF CreatedInOrder
    <3>2. f \in delivered
      BY <2>2
    <3> QED
      BY <1>8, <2>3, <3>1, <3>2
  <2> QED
    BY <1>1, <2>1, <2>3, <2>4 DEF LatestInv, TicketIsLatest
<1> QED
  BY <1>7, <1>9 DEF LatestInv
(* The transaction: the new event either creates the ticket, and no later  *)
(* event came before it, or it moves a ticket that shows the latest so far.*)
LEMMA ApplyLatest ==
    ASSUME IInv, LatestInv, NEW c \in Consumers, ApplyNew(c)
    PROVE  LatestInv'
<1> DEFINE e == Current(c)
<1>1. /\ e \in delivered /\ e \in Events /\ e[1] \in Orders
      /\ e[2] \in Nat /\ e[2] > 0
      /\ pos[c] + 1 \in 1 .. Len(log) /\ e = log[pos[c] + 1]
  BY InHand, InLife, EventParts, ConstantsAssumption DEF ApplyNew, IInv, Current
<1>2. /\ e \notin processed /\ processed' = processed \cup {e}
      /\ UNCHANGED <<log, delivered>>
  BY DEF ApplyNew, Mark, topicVars
<1>3. /\ processed \subseteq delivered /\ Len(log) \in Nat /\ pos[c] \in Nat
      /\ \A f \in delivered : f[1] \in Orders /\ f[2] \in Nat /\ f[2] > 0
  BY InLife, EventParts, ConstantsAssumption DEF IInv, TicketsTyped, TopicTyped, GroupTyped
<1>4. FirstInv'
  <2>1. ASSUME NEW i \in 1 .. Len(log), IsFirst(e, i)
        PROVE  \A j \in 1 .. i - 1 : log[j] \in processed
    <3>1. i <= pos[c] + 1
      BY <1>1, <1>3, <2>1 DEF IsFirst
    <3>2. \A j \in 1 .. pos[c] : log[j] \in processed
      BY DEF IInv, DoneInv
    <3> QED
      BY <1>3, <3>1, <3>2
  <2> QED
    BY <1>2, <2>1 DEF LatestInv, FirstInv, IsFirst
<1> DEFINE Shown(f) == TypeOf(f) \in DOMAIN StateByEventType \cup {"OrderSentToKitchen"}
<1>5. \A o, f : f \in Reflected(o)' <=>
          \/ f \in Reflected(o)
          \/ f = e /\ e[1] = o /\ Shown(e)
  BY <1>2 DEF Reflected, TypeOf
<1>6. ASSUME NEW o \in Orders, NEW sent \in Reflected(o)',
             TypeOf(sent) = "OrderSentToKitchen", CreatedInOrder(sent)'
      PROVE  \E f \in Reflected(o)' :
                /\ \A g \in Reflected(o)' : g[2] <= f[2]
                /\ tickets'[o] = [state |-> StateAfter(f), version |-> f[2]]
  <2>1. sent[1] = o /\ sent \in delivered
    BY <1>1, <1>3, <1>5 DEF Reflected
  <2>2. ASSUME NEW f \in Reflected(o), f[2] > sent[2]
        PROVE  FirstRecord(f) > FirstRecord(sent)
    <3>1. FirstRecord(f)' > FirstRecord(sent)'
      BY <1>5, <1>6, <2>1, <2>2 DEF CreatedInOrder
    <3>2. FirstRecord(f)' = FirstRecord(f) /\ FirstRecord(sent)' = FirstRecord(sent)
      BY <1>2 DEF FirstRecord
    <3> QED
      BY <3>1, <3>2
  <2>3. CASE sent = e
    <3>1. tickets[o] = NoTicket
      BY <1>1, <1>2, <1>6, <2>1, <2>3, CreatedFresh DEF Sends
    <3>2. TypeOf(e) \notin DOMAIN StateByEventType
      BY <1>6, <2>3, StatesByType
    <3>3. tickets[o].version < e[2]
      BY <1>1, <3>1 DEF NoTicket
    <3>4. tickets' = [tickets EXCEPT ![o] = [state |-> "SENT_TO_KITCHEN", version |-> e[2]]]
      BY <1>6, <2>1, <2>3, <3>2, <3>3 DEF ApplyNew, CreateTicket
    <3>5. tickets'[o] = [state |-> StateAfter(e), version |-> e[2]]
      BY <1>6, <2>3, <3>4 DEF StateAfter, IInv, TicketsTyped
    <3>6. ASSUME NEW g \in Reflected(o), g[2] > e[2]
          PROVE  FALSE
      <4>1. g \in processed /\ g \in delivered
        BY <1>3 DEF Reflected
      <4>2. PICK i \in 1 .. Len(log) : IsFirst(g, i)
        BY <4>1 DEF LatestInv, FirstInv
      <4>3. PICK k \in 1 .. Len(log) : IsFirst(e, k)
        BY <1>1 DEF LatestInv, FirstInv
      <4>4. i > k
        BY <2>2, <2>3, <3>6, <4>2, <4>3, FirstRecordIs DEF IInv
      <4>5. log[k] = e /\ log[k] \in processed
        BY <1>3, <4>1, <4>2, <4>3, <4>4 DEF LatestInv, FirstInv, IsFirst
      <4> QED
        BY <1>2, <4>5
    <3>7. \A g \in Reflected(o) : g[2] \in Nat /\ g[2] <= e[2]
      BY <1>1, <1>3, <3>6 DEF Reflected
    <3> QED
      BY <1>1, <1>5, <1>6, <2>3, <3>5, <3>7
  <2>4. CASE sent # e
    <3>1. sent \in Reflected(o) /\ sent \in processed
      BY <1>5, <2>4 DEF Reflected
    <3>2. CreatedInOrder(sent)
      BY <2>1, <2>2 DEF CreatedInOrder
    <3>3. PICK m \in Reflected(o) :
              /\ \A g \in Reflected(o) : g[2] <= m[2]
              /\ tickets[o] = [state |-> StateAfter(m), version |-> m[2]]
      BY <1>6, <3>1, <3>2 DEF LatestInv, TicketIsLatest
    <3>4. m[2] \in Nat /\ m[2] > 0 /\ tickets[o].version = m[2] /\ tickets[o] # NoTicket
      <4>1. m[2] \in Nat /\ m[2] > 0 /\ tickets[o].version = m[2]
        BY <1>3, <3>3 DEF Reflected
      <4> QED
        BY <4>1 DEF NoTicket
    <3>5. CASE e[1] = o /\ Shown(e)
      <4>1. TypeOf(e) # "OrderSentToKitchen"
        BY <1>1, <1>6, <2>1, <2>4, <3>5, SendsOnce DEF Sends, IInv
      <4>2. AdvanceTicket(e)
        BY <3>5, <4>1 DEF ApplyNew
      <4>3. CASE m[2] < e[2]
        <5>1. tickets' = [tickets EXCEPT ![o] =
                             [state |-> StateByEventType[TypeOf(e)], version |-> e[2]]]
          BY <3>4, <3>5, <4>2, <4>3 DEF AdvanceTicket
        <5>2. tickets'[o] = [state |-> StateAfter(e), version |-> e[2]]
          BY <4>1, <5>1 DEF StateAfter, IInv, TicketsTyped
        <5>3. \A g \in Reflected(o) : g[2] <= e[2]
          BY <1>1, <1>3, <3>3, <3>4, <4>3 DEF Reflected
        <5>4. e \in Reflected(o)'
          BY <1>5, <3>5
        <5>5. \A g \in Reflected(o)' : g[2] <= e[2]
          <6>1. e[2] <= e[2]
            BY <1>1
          <6> QED
            BY <1>5, <5>3, <6>1
        <5> QED
          BY <5>2, <5>4, <5>5
      <4>4. CASE ~ (m[2] < e[2])
        <5>1. UNCHANGED tickets
          BY <3>4, <3>5, <4>2, <4>4 DEF AdvanceTicket
        <5>2. e[2] <= m[2]
          BY <1>1, <3>4, <4>4
        <5> QED
          BY <1>5, <3>3, <5>1, <5>2
      <4> QED
        BY <4>3, <4>4
    <3>6. CASE ~ (e[1] = o /\ Shown(e))
      <4>1. tickets'[o] = tickets[o]
        <5>1. CASE ~ Shown(e)
          BY <5>1 DEF ApplyNew
        <5>2. CASE e[1] # o
          <6>1. CASE UNCHANGED tickets
            BY <6>1
          <6>2. ASSUME NEW state, Written(e, state)
                PROVE  tickets'[o] = tickets[o]
            BY <5>2, <6>2 DEF Written, IInv, TicketsTyped
          <6> QED
            BY <6>1, <6>2, ApplyCases DEF Created, Advanced
        <5> QED
          BY <3>6, <5>1, <5>2
      <4> QED
        BY <1>5, <3>3, <3>6, <4>1
    <3> QED
      BY <3>5, <3>6
  <2> QED
    BY <2>3, <2>4
<1>7. TicketIsLatest'
  BY <1>6 DEF TicketIsLatest, TypeOf, StateAfter
<1> QED
  BY <1>4, <1>7 DEF LatestInv

LEMMA LatestStep == IInv /\ LatestInv /\ [Next]_vars => LatestInv'
<1> SUFFICES ASSUME IInv, LatestInv, [Next]_vars PROVE LatestInv'
  OBVIOUS
<1>1. CASE \E e \in Events : Publish(e)
  BY <1>1, PublishLatest
<1>2. CASE \E c \in Consumers : ApplyNew(c)
  BY <1>2, ApplyLatest
<1>3. CASE ~ (\E e \in Events : Publish(e)) /\ ~ (\E c \in Consumers : ApplyNew(c))
  <2>1. UNCHANGED <<log, delivered, processed, tickets>>
    BY <1>3
    DEF Next, Handle, Commit, GiveUp, Topic!Append, Topic!Abandon, Assign, Rebalance, HandOver,
        NoticeLoss, Leave, CommitOffset, Crash, Fetch, SkipDuplicate, Enqueue, Return,
        TransactionFails, vars, topicVars, tableVars
  <2> QED
    BY <2>1, LatestAtRest
<1> QED
  BY <1>1, <1>2, <1>3

(* A ticket that was not created late shows the latest event processed,    *)
(* in whatever order and how often the topic and the group delivered them. *)
THEOREM TicketsAreLatest == Spec => []TicketIsLatest
<1>1. Init => LatestInv
  BY DEF Init, Topic!Init, LatestInv, FirstInv, TicketIsLatest, Reflected
<1>2. LatestInv => TicketIsLatest
  BY DEF LatestInv
<1> QED
  BY <1>1, <1>2, LatestStep, Invariance, PTL DEF Spec
=============================================================================
