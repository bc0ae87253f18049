--------------------------- MODULE OrderWritePath ---------------------------
(***************************************************************************)
(* The one write path of the API: applyMutation() of apps/api/src/modules/ *)
(* orders/application/mutation-handler.ts, run by any number of concurrent *)
(* request handlers against one PostgreSQL database.                       *)
(*                                                                         *)
(* Transactions are READ COMMITTED, so every statement of a handler sees   *)
(* what was committed when the statement ran: each SELECT is an action of  *)
(* its own, and the order row and its lines, which loadOrderSnapshot reads *)
(* with two statements, may come from two different moments.  From its     *)
(* first write a transaction holds the order's row lock up to its COMMIT   *)
(* and nothing of it is visible before that, so the writes and the COMMIT  *)
(* are one action.                                                         *)
(*                                                                         *)
(* A client may repeat a request, or send the same mutation id with        *)
(* another content; a handler may die between any two statements.          *)
(***************************************************************************)
EXTENDS Integers, FiniteSets, OrderDomain

CONSTANTS
    OrderIds,       \* client-generated order ids
    Tenants,        \* restaurants
    Tables,         \* table numbers
    Products,       \* product ids a client may name
    Menu,           \* the product ids the products table holds
    MutationIds,    \* client-generated mutation ids, the idempotency keys
    Requests,       \* the mutations clients may send
    Handlers,       \* requests the API serves at the same time
    LinesTotal(_),  \* the total, in cents, of an order with the given lines
    NULL            \* a column, or a payload field, that is absent

VARIABLES
    orders,         \* table orders: the row of each order, or NoRow
    lines,          \* table order_items: per order, the quantity of each product
    payments,       \* table payments
    processed,      \* table processed_mutations: per mutation id, its record
    outbox,         \* table outbox_events; "by" is a history field, not a column
    conflictLog,    \* table conflict_log: the requests with a row in it
    handler         \* the state of each handler

vars == <<orders, lines, payments, processed, outbox, conflictLog, handler>>

----------------------------------------------------------------------------
(* Rows and requests *)

NoRow    == [tenant |-> NULL, table |-> NULL, status |-> "none", version |-> 0, total |-> 0]
NoLines  == [p \in Products |-> 0]
NoHash   == <<NULL, NULL, NULL, NULL, NULL>>
NoRecord == [hash |-> NoHash, row |-> NoRow, lines |-> NoLines]

Exists(row)  == row.version > 0
Recorded(id) == processed[id] # NoRecord

(* What the boundary (the zod schema) lets through. *)
RequestType ==
    [ id : MutationIds, order : OrderIds, tenant : Tenants, type : MutationTypes,
      table : Tables \cup {NULL}, product : Products \cup {NULL}, quantity : Nat, base : Nat ]

ASSUME RequestsAssumption ==
    /\ Requests \subseteq RequestType
    /\ NULL \notin Tenants \cup Tables \cup Products \cup OrderIds
    /\ Menu \subseteq Products
    /\ \A r \in Requests :
        /\ r.base = 0 <=> r.type = "CREATE_ORDER"
        /\ r.type = "CREATE_ORDER" => r.table \in Tables
        /\ r.type \in ItemMutations => r.product \in Products
        /\ r.type \in {"ADD_ITEM", "CHANGE_QUANTITY"} => r.quantity > 0

ASSUME TotalAssumption == LinesTotal(NoLines) = 0

(* The order, the type and the payload; neither the base version nor the   *)
(* sender is hashed.                                                       *)
RequestHash(r) == <<r.order, r.type, r.table, r.product, r.quantity>>

(* Mutation ids are UUIDs minted by the terminals of one restaurant, and a *)
(* terminal never sends one content twice under an id with another base:   *)
(* a rebase takes a new id.  An id with another content is not excluded.   *)
ASSUME ClientsAssumption ==
    \A r, s \in Requests :
        r.id = s.id => /\ r.tenant = s.tenant
                       /\ RequestHash(r) = RequestHash(s) => r = s

EventType ==
    [ CREATE_ORDER |-> "OrderCreated", ADD_ITEM |-> "OrderItemAdded",
      REMOVE_ITEM |-> "OrderItemRemoved", CHANGE_QUANTITY |-> "OrderQuantityChanged",
      SEND_TO_KITCHEN |-> "OrderSentToKitchen", START_PREPARING |-> "OrderPreparing",
      MARK_READY |-> "OrderReady", PAY |-> "OrderPaid", CANCEL |-> "OrderCancelled" ]

View(row, held) == [table |-> row.table, status |-> row.status, lines |-> held]

DecideOn(row, held, r) ==
    IF Exists(row) THEN Decide(View(row, held), r) ELSE Apply("OPEN")

LinesAfter(held, r) ==
    CASE r.type = "ADD_ITEM"    -> [held EXCEPT ![r.product] = @ + r.quantity]
      [] r.type = "REMOVE_ITEM" -> [held EXCEPT ![r.product] = 0]
      [] r.type = "CHANGE_QUANTITY" /\ held[r.product] > 0
                                -> [held EXCEPT ![r.product] = r.quantity]
      [] OTHER                  -> held

----------------------------------------------------------------------------
(* Handlers.  row and lines are the snapshot a handler read last; once it  *)
(* has replied they are the order the reply carries.                       *)

NoRequest == [id |-> NULL, order |-> NULL, tenant |-> NULL, type |-> NULL,
              table |-> NULL, product |-> NULL, quantity |-> 0, base |-> 0]

FreshHandler(pc, r) ==
    [pc |-> pc, req |-> r, row |-> NoRow, lines |-> NoLines, reason |-> "none", answer |-> "none"]

IdleHandler == FreshHandler("idle", NoRequest)

At(h, pc) == handler[h].pc = pc

Start(h, r) == handler' = [handler EXCEPT ![h] = FreshHandler("reading", r)]

Goto(h, pc) == handler' = [handler EXCEPT ![h].pc = pc]

Saw(h, pc, row, held) ==
    handler' = [handler EXCEPT ![h].pc = pc, ![h].row = row, ![h].lines = held]

(* The transaction rolled back: what it read is forgotten. *)
RollBack(h, pc, reason) ==
    handler' = [handler EXCEPT ![h].pc = pc, ![h].row = NoRow, ![h].lines = NoLines,
                               ![h].reason = reason]

Reply(h, answer, row, held) ==
    handler' = [handler EXCEPT ![h].pc = "replied", ![h].row = row, ![h].lines = held,
                               ![h].reason = "none", ![h].answer = answer]

Refuse(h, answer) == Reply(h, answer, NoRow, NoLines)

UnchangedTables == UNCHANGED <<orders, lines, payments, processed, outbox, conflictLog>>

(* A client never stamps a mutation with a version later than the one the  *)
(* order has when the request arrives: the queue of a terminal is sent in  *)
(* order, each request after the answer to the one before it.  A caller    *)
(* may name an order that does not exist, as one at its first version.     *)
Receive(h, r) ==
    /\ At(h, "idle")
    /\ r.base <= orders[r.order].version \/ (~Exists(orders[r.order]) /\ r.base = 1)
    /\ Start(h, r)
    /\ UnchangedTables

(* loadOrderSnapshot: the order row, then, if there is one, its lines. *)
ReadOrder(h) ==
    LET row == orders[handler[h].req.order] IN
    /\ At(h, "reading")
    /\ Saw(h, IF Exists(row) THEN "readingLines" ELSE "checking", row, NoLines)
    /\ UnchangedTables

ReadLines(h) ==
    /\ At(h, "readingLines")
    /\ Saw(h, "checking", handler[h].row, lines[handler[h].req.order])
    /\ UnchangedTables

----------------------------------------------------------------------------
(* runMutation: the checks, in their order *)

Foreign(row, r) == Exists(row) /\ row.tenant # r.tenant

RejectCrossTenant(h) ==
    /\ At(h, "checking")
    /\ Foreign(handler[h].row, handler[h].req)
    /\ Refuse(h, "CROSS_TENANT_MUTATION")
    /\ UnchangedTables

(* Faulty variant of OutcomeFor: the hash is not compared. *)
OutcomeForUnchecked(h) ==
    LET r == handler[h].req IN
    Reply(h, "ALREADY_APPLIED", processed[r.id].row, processed[r.id].lines)

(* The stored result, or the refusal of an id used for something else. *)
OutcomeFor(h) ==
    LET r == handler[h].req IN
    IF processed[r.id].hash # RequestHash(r)
    THEN Refuse(h, "MUTATION_ID_REUSED")
    ELSE Reply(h, "ALREADY_APPLIED", processed[r.id].row, processed[r.id].lines)

AnswerFromRecord(h) ==
    /\ At(h, "checking")
    /\ ~Foreign(handler[h].row, handler[h].req)
    /\ Recorded(handler[h].req.id)
    /\ OutcomeFor(h)
    /\ UnchangedTables

OrderNotFound(h) ==
    LET r == handler[h].req IN
    /\ At(h, "checking")
    /\ ~Recorded(r.id)
    /\ ~Exists(handler[h].row) /\ r.type # "CREATE_ORDER"
    /\ Refuse(h, "ORDER_NOT_FOUND")
    /\ UnchangedTables

(* Faulty variant of DecideOnSnapshot: everything is applied. *)
DecideNothing(h) ==
    /\ At(h, "checking")
    /\ ~Recorded(handler[h].req.id)
    /\ Exists(handler[h].row) \/ handler[h].req.type = "CREATE_ORDER"
    /\ Goto(h, "writing")
    /\ UnchangedTables

(* decide() on the snapshot that was read. A conflict and a repeat both    *)
(* roll the transaction back and are answered outside it.                  *)
DecideOnSnapshot(h) ==
    LET r       == handler[h].req
        row     == handler[h].row
        verdict == DecideOn(row, handler[h].lines, r)
    IN  /\ At(h, "checking")
        /\ ~Foreign(row, r)
        /\ ~Recorded(r.id)
        /\ Exists(row) \/ r.type = "CREATE_ORDER"
        /\ \/ verdict.kind = "apply" /\ Goto(h, "writing")
           \/ verdict.kind = "conflict" /\ RollBack(h, "conflicting", verdict.reason)
           \/ verdict.kind = "already-applied" /\ RollBack(h, "confirming", "none")
        /\ UnchangedTables

----------------------------------------------------------------------------
(* applyEffect and the COMMIT *)

Record(r, row, held) ==
    processed' = [processed EXCEPT ![r.id] =
                    [hash |-> RequestHash(r), row |-> row, lines |-> held]]

Publish(r, version) ==
    outbox' = outbox \cup {[order |-> r.order, version |-> version, type |-> EventType[r.type],
                            tenant |-> r.tenant, by |-> r.id]}

(* INSERT INTO orders ON CONFLICT DO NOTHING found no row in its way. *)
CreateOrder(h) ==
    LET r   == handler[h].req
        row == [tenant |-> r.tenant, table |-> r.table, status |-> "OPEN",
                version |-> 1, total |-> 0]
    IN  /\ At(h, "writing") /\ r.type = "CREATE_ORDER"
        /\ ~Exists(orders[r.order])
        /\ ~Recorded(r.id)
        /\ orders' = [orders EXCEPT ![r.order] = row]
        /\ Record(r, row, lines[r.order])
        /\ Publish(r, 1)
        /\ Reply(h, "APPLIED", row, lines[r.order])
        /\ UNCHANGED <<lines, payments, conflictLog>>

(* Faulty variant of LoseCreation: the winner's tenant is not looked at. *)
LoseCreationUnscoped(h) ==
    LET r   == handler[h].req
        row == orders[r.order]
    IN  /\ At(h, "writing") /\ r.type = "CREATE_ORDER"
        /\ Exists(row)
        /\ \/ row.table = r.table /\ RollBack(h, "confirming", "none")
           \/ row.table # r.table /\ RollBack(h, "conflicting", "ORDER_ALREADY_EXISTS")
        /\ UnchangedTables

(* A concurrent creation won: the winner is read back, tenant first. *)
LoseCreation(h) ==
    LET r   == handler[h].req
        row == orders[r.order]
    IN  /\ At(h, "writing") /\ r.type = "CREATE_ORDER"
        /\ Exists(row)
        /\ \/ Foreign(row, r) /\ Refuse(h, "CROSS_TENANT_MUTATION")
           \/ /\ ~Foreign(row, r) /\ row.table = r.table
              /\ RollBack(h, "confirming", "none")
           \/ /\ ~Foreign(row, r) /\ row.table # r.table
              /\ RollBack(h, "conflicting", "ORDER_ALREADY_EXISTS")
        /\ UnchangedTables

(* Faulty variant of BumpSucceeds: the version is not compared. *)
BumpAlways(h) == At(h, "writing") /\ handler[h].req.type # "CREATE_ORDER"

(* UPDATE orders ... WHERE version = baseVersion, which either bumps the   *)
(* version or touches no row.                                              *)
BumpSucceeds(h) ==
    LET r == handler[h].req IN
    At(h, "writing") /\ r.type # "CREATE_ORDER" /\ orders[r.order].version = r.base

LoseVersionGuard(h) ==
    LET r == handler[h].req IN
    /\ At(h, "writing") /\ r.type # "CREATE_ORDER"
    /\ orders[r.order].version # r.base
    /\ RollBack(h, "conflicting", "ORDER_VERSION_CONFLICT")
    /\ UnchangedTables

UnknownProduct(h) ==
    /\ BumpSucceeds(h)
    /\ handler[h].req.type = "ADD_ITEM" /\ handler[h].req.product \notin Menu
    /\ Refuse(h, "PRODUCT_NOT_FOUND")
    /\ UnchangedTables

(* payments.mutation_id is unique, and its violation is not one that       *)
(* applyMutation turns into an answer: the request ends as a server error. *)
PaymentKeyTaken(h) ==
    LET r == handler[h].req IN
    /\ BumpSucceeds(h) /\ r.type = "PAY"
    /\ \E pay \in payments : pay.by = r.id
    /\ Refuse(h, "INTERNAL_ERROR")
    /\ UnchangedTables

(* The amount is the total the transaction read before the bump. *)
InsertPayment(r, amount) ==
    payments' = IF r.type = "PAY"
                THEN payments \cup {[order |-> r.order, by |-> r.id, amount |-> amount]}
                ELSE payments

(* Faulty variant of Writable: the mutation id is not a primary key. *)
WritableUnrecorded(h) ==
    BumpSucceeds(h) /\ (handler[h].req.type = "ADD_ITEM" => handler[h].req.product \in Menu)

(* The bump, the effect and the three inserts all go through. *)
Writable(h) ==
    LET r == handler[h].req IN
    /\ BumpSucceeds(h)
    /\ r.type = "ADD_ITEM" => r.product \in Menu
    /\ ~Recorded(r.id)

(* Faulty variants of RowAfter: the total is not recomputed; an item       *)
(* change keeps the version.                                               *)
RowAfterDrifting(row, next, held, r) ==
    [row EXCEPT !.status = next, !.version = @ + 1]

RowAfterUnbumped(row, next, held, r) ==
    [row EXCEPT !.status = next, !.version = IF next = row.status THEN @ ELSE @ + 1,
                !.total = IF r.type \in ItemMutations THEN LinesTotal(held) ELSE @]

(* The row as the transaction leaves it. The total is recomputed from the  *)
(* lines by the three item mutations only.                                 *)
RowAfter(row, next, held, r) ==
    [tenant |-> row.tenant, table |-> row.table, status |-> next, version |-> row.version + 1,
     total |-> IF r.type \in ItemMutations THEN LinesTotal(held) ELSE row.total]

ApplyChange(h) ==
    LET r    == handler[h].req
        next == DecideOn(handler[h].row, handler[h].lines, r).next
        held == LinesAfter(lines[r.order], r)
        row  == RowAfter(orders[r.order], next, held, r)
    IN  /\ Writable(h)
        /\ orders' = [orders EXCEPT ![r.order] = row]
        /\ lines' = [lines EXCEPT ![r.order] = held]
        /\ InsertPayment(r, handler[h].row.total)
        /\ Record(r, row, held)
        /\ Publish(r, row.version)
        /\ Reply(h, "APPLIED", row, held)
        /\ UNCHANGED conflictLog

(* The mutation id was recorded while this transaction was in flight: the  *)
(* primary key of processed_mutations rolls it back.                       *)
LoseIdRace(h) ==
    LET r == handler[h].req IN
    /\ \/ At(h, "writing") /\ r.type = "CREATE_ORDER" /\ ~Exists(orders[r.order])
       \/ /\ BumpSucceeds(h)
          /\ r.type = "ADD_ITEM" => r.product \in Menu
          /\ r.type = "PAY" => ~\E pay \in payments : pay.by = r.id
    /\ Recorded(r.id)
    /\ RollBack(h, "raced", "none")
    /\ UnchangedTables

AnswerRaced(h) ==
    /\ At(h, "raced")
    /\ OutcomeFor(h)
    /\ UnchangedTables

----------------------------------------------------------------------------
(* conflictOutcome, one statement at a time and outside any transaction *)

(* Faulty variant of FindProcessed: a repeat is logged as a conflict. *)
FindProcessedNever(h) ==
    /\ At(h, "conflicting")
    /\ Goto(h, "readingCanonical")
    /\ UnchangedTables

(* A racing repeat of this id may have been applied meanwhile. *)
FindProcessed(h) ==
    /\ At(h, "conflicting")
    /\ IF Recorded(handler[h].req.id) THEN OutcomeFor(h) ELSE Goto(h, "readingCanonical")
    /\ UnchangedTables

ReadCanonicalRow(h) ==
    LET o == handler[h].req.order IN
    /\ At(h, "readingCanonical")
    /\ Saw(h, "loggingConflict", orders[o], NoLines)
    /\ UnchangedTables

(* The lines of the canonical order, the conflict_log row, the 409. *)
LogConflict(h) ==
    LET r == handler[h].req IN
    /\ At(h, "loggingConflict")
    /\ conflictLog' = conflictLog \cup {r}
    /\ Reply(h, "CONFLICT", handler[h].row, lines[r.order])
    /\ UNCHANGED <<orders, lines, payments, processed, outbox>>

(* Faulty variant of Confirm: the decision is not taken again. *)
ConfirmUndecided(h) ==
    LET r == handler[h].req
        o == r.order
    IN  /\ At(h, "confirming")
        /\ IF Recorded(r.id) THEN UNCHANGED processed ELSE Record(r, orders[o], lines[o])
        /\ Reply(h, "ALREADY_APPLIED", orders[o], lines[o])
        /\ UNCHANGED <<orders, lines, payments, outbox, conflictLog>>

(* alreadyAppliedOutcome: the decision is taken again under the row lock,  *)
(* on a row and lines of one moment. ON CONFLICT DO NOTHING keeps a record *)
(* that is already there, whatever its hash.                               *)
Confirm(h) ==
    LET r       == handler[h].req
        row     == orders[r.order]
        verdict == DecideOn(row, lines[r.order], r)
    IN  /\ At(h, "confirming")
        /\ \/ /\ verdict.kind = "already-applied"
              /\ IF Recorded(r.id) THEN UNCHANGED processed ELSE Record(r, row, lines[r.order])
              /\ Reply(h, "ALREADY_APPLIED", row, lines[r.order])
           \/ /\ verdict.kind = "conflict"
              /\ RollBack(h, "conflicting", verdict.reason)
              /\ UNCHANGED processed
           \/ /\ verdict.kind = "apply"
              /\ RollBack(h, "conflicting", "ORDER_VERSION_CONFLICT")
              /\ UNCHANGED processed
        /\ UNCHANGED <<orders, lines, payments, outbox, conflictLog>>

----------------------------------------------------------------------------
(* The reply is sent, or the handler dies with whatever it had not         *)
(* committed. Either way the client may send the request again.            *)
Finish(h) ==
    /\ At(h, "replied")
    /\ handler' = [handler EXCEPT ![h] = IdleHandler]
    /\ UnchangedTables

Crash(h) ==
    /\ handler[h].pc \notin {"idle", "replied"}
    /\ handler' = [handler EXCEPT ![h] = IdleHandler]
    /\ UnchangedTables

Init ==
    /\ orders = [o \in OrderIds |-> NoRow]
    /\ lines = [o \in OrderIds |-> NoLines]
    /\ payments = {}
    /\ processed = [id \in MutationIds |-> NoRecord]
    /\ outbox = {}
    /\ conflictLog = {}
    /\ handler = [h \in Handlers |-> IdleHandler]

Step(h) ==
    \/ ReadOrder(h) \/ ReadLines(h)
    \/ RejectCrossTenant(h) \/ AnswerFromRecord(h) \/ OrderNotFound(h) \/ DecideOnSnapshot(h)
    \/ CreateOrder(h) \/ LoseCreation(h)
    \/ LoseVersionGuard(h) \/ UnknownProduct(h) \/ PaymentKeyTaken(h) \/ ApplyChange(h)
    \/ LoseIdRace(h) \/ AnswerRaced(h)
    \/ FindProcessed(h) \/ ReadCanonicalRow(h) \/ LogConflict(h)
    \/ Confirm(h)
    \/ Finish(h)

Next == \E h \in Handlers : Step(h) \/ Crash(h) \/ \E r \in Requests : Receive(h, r)

Spec == Init /\ [][Next]_vars
----------------------------------------------------------------------------
(* Properties *)

TypeOK ==
    /\ \A o \in OrderIds :
        \/ orders[o] = NoRow
        \/ orders[o] \in [tenant : Tenants, table : Tables, status : Statuses,
                           version : Nat \ {0}, total : Nat]
    /\ lines \in [OrderIds -> [Products -> Nat]]
    /\ payments \subseteq [order : OrderIds, by : MutationIds, amount : Nat]
    /\ \A e \in outbox : /\ e.order \in OrderIds /\ e.version \in Nat \ {0}
                         /\ e.tenant \in Tenants /\ e.by \in MutationIds
    /\ conflictLog \subseteq Requests
    /\ \A h \in Handlers : handler[h].pc = "idle" \/ handler[h].req \in Requests

(* However requests are repeated, raced and cut short, an order at version *)
(* n has exactly the n outbox events 1..n, and no mutation id is behind    *)
(* two of them: every version was announced and every mutation had its     *)
(* effect at most once (runMutation's last two inserts and the guard).     *)
OutboxFollowsVersions ==
    /\ \A o \in OrderIds :
        {e.version : e \in {x \in outbox : x.order = o}} = 1 .. orders[o].version
    /\ \A e, f \in outbox : e.by = f.by \/ (e.order = f.order /\ e.version = f.version) => e = f

(* An order is PAID exactly when it has a payment, it has one, and the     *)
(* amount is the order's own total although it was read before the bump    *)
(* (applyChange, case PAY).                                                *)
PaymentsMatchOrders ==
    /\ \A o \in OrderIds : orders[o].status = "PAID" <=> \E pay \in payments : pay.order = o
    /\ \A pay \in payments : pay.amount = orders[pay.order].total
    /\ \A pay, other \in payments : pay.order = other.order => pay = other

(* "The total is derived from the lines, never accumulated": whatever item *)
(* mutations raced, a committed order's total is that of its lines.        *)
TotalsFollowLines ==
    \A o \in OrderIds : Exists(orders[o]) => orders[o].total = LinesTotal(lines[o])

(* No restaurant changes or is shown another's order, also when two        *)
(* restaurants create the same id at once (the tenant check runs before    *)
(* the first read is over, and once more for the loser of a creation).     *)
TenantIsolation ==
    /\ \A e \in outbox : e.tenant = orders[e.order].tenant
    /\ \A h \in Handlers :
        handler[h].pc = "replied" => ~Foreign(handler[h].row, handler[h].req)

(* A mutation that is in the conflict log never had an effect and never    *)
(* will: the client halts its queue on a CONFLICT and re-issues the intent *)
(* under a new id, which would double an effect that did happen.           *)
ConflictMeansNoEffect ==
    \A r \in conflictLog : \A e \in outbox :
        e.by = r.id => processed[r.id].hash # RequestHash(r)

(* An APPLIED or ALREADY_APPLIED answer is true of the order it carries:   *)
(* this very request had its effect at or below the version shown, or the  *)
(* order shown satisfies it as it is (alreadyAppliedOutcome, outcomeFor).  *)
AcknowledgedIsTrue ==
    \A h \in Handlers :
        LET r == handler[h].req IN
        handler[h].pc = "replied" /\ handler[h].answer \in {"APPLIED", "ALREADY_APPLIED"} =>
            \/ /\ processed[r.id].hash = RequestHash(r)
               /\ \E e \in outbox : /\ e.by = r.id /\ e.order = r.order
                                    /\ e.version <= handler[h].row.version
            \/ DecideOn(handler[h].row, handler[h].lines, r).kind = "already-applied"

(* The decision is taken on an earlier read, yet the status of a committed *)
(* order only ever moves along ALLOWED_TRANSITIONS.                        *)
StatusMovesLegally ==
    [][\A o \in OrderIds :
        Exists(orders[o]) /\ orders'[o].status # orders[o].status =>
            IsValidTransition(orders[o].status, orders'[o].status)]_vars

(* No line is added, removed or changed once the kitchen has the order, or *)
(* after it was paid or cancelled.                                         *)
LinesFrozenOnceSent ==
    [][\A o \in OrderIds :
        lines'[o] # lines[o] => orders[o].status = "OPEN" /\ orders'[o].status = "OPEN"]_vars

(* What a CONFLICT carries is an order as it was committed at some moment: *)
(* "so the client rebases onto what is actually committed".                *)
CanonicalIsCommitted ==
    \A h \in Handlers :
        handler[h].pc = "replied" /\ handler[h].answer = "CONFLICT" =>
            handler[h].row.total = LinesTotal(handler[h].lines)
=============================================================================
