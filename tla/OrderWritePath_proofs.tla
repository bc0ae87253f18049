----------------------- MODULE OrderWritePath_proofs -----------------------
(***************************************************************************)
(* Proofs about OrderWritePath, for any orders, restaurants, products,     *)
(* pool of requests and number of concurrent handlers.                     *)
(***************************************************************************)
EXTENDS OrderWritePath, TLAPS

----------------------------------------------------------------------------
(* What decide() answers *)

(* decide() applies a mutation to an order that is not in a terminal       *)
(* status: an item change, only while OPEN and keeping the status, or a    *)
(* legal move; and only PAY leads to PAID.                                 *)
LEMMA DecideApplies ==
    ASSUME NEW order, order.status \in Statuses,
           NEW cmd, cmd.type \in MutationTypes, Decide(order, cmd).kind = "apply"
    PROVE  LET next == Decide(order, cmd).next IN
           /\ next \in Statuses
           /\ cmd.type # "CREATE_ORDER"
           /\ ~IsTerminalStatus(order.status)
           /\ IF cmd.type \in ItemMutations
              THEN order.status = "OPEN" /\ next = "OPEN"
              ELSE IsValidTransition(order.status, next)
           /\ next = "PAID" <=> cmd.type = "PAY"
<1> USE DEF Statuses, MutationTypes, ItemMutations, AllowedTransitions, IsValidTransition,
            IsTerminalStatus, Apply, Conflict, AlreadyApplied
<1>1. CASE cmd.type = "CREATE_ORDER"
  BY <1>1 DEF Decide, DecideCreate
<1>2. CASE cmd.type = "CANCEL"
  BY <1>2 DEF Decide, DecideCancel
<1>3. CASE cmd.type \notin {"CREATE_ORDER", "CANCEL"}
  <2>1. ~IsTerminalStatus(order.status) /\ Decide(order, cmd) = DecideLive(order, cmd)
    BY <1>3 DEF Decide
  <2>2. CASE cmd.type \in ItemMutations
    BY <2>1, <2>2 DEF DecideLive, DecideItemChange
  <2>3. CASE cmd.type \in {"SEND_TO_KITCHEN", "START_PREPARING", "MARK_READY", "PAY"}
    BY <2>1, <2>3 DEF DecideLive, DecideSend, DecideTransition
  <2> QED  BY <1>3, <2>2, <2>3
<1> QED  BY <1>1, <1>2, <1>3

Reasons ==
    {"none", "ORDER_ALREADY_EXISTS", "ORDER_ALREADY_PAID", "ORDER_CANCELLED",
     "ORDER_ALREADY_SENT_TO_KITCHEN", "ITEM_NOT_IN_ORDER", "INVALID_STATUS_TRANSITION",
     "ORDER_VERSION_CONFLICT"}

(* Whatever it answers, the answer has one of the three shapes. *)
LEMMA DecideAnswers ==
    ASSUME NEW order, order.status \in Statuses, NEW cmd, cmd.type \in MutationTypes
    PROVE  /\ Decide(order, cmd).kind \in {"apply", "already-applied", "conflict"}
           /\ Decide(order, cmd).reason \in Reasons
<1> USE DEF Statuses, MutationTypes, ItemMutations, AllowedTransitions, IsValidTransition,
            IsTerminalStatus, Apply, Conflict, AlreadyApplied, BlockingReason, Reasons
<1>1. CASE cmd.type = "CREATE_ORDER"
  BY <1>1 DEF Decide, DecideCreate
<1>2. CASE cmd.type = "CANCEL"
  BY <1>2 DEF Decide, DecideCancel
<1>3. CASE cmd.type \notin {"CREATE_ORDER", "CANCEL"} /\ IsTerminalStatus(order.status)
  BY <1>3 DEF Decide
<1>4. CASE cmd.type \notin {"CREATE_ORDER", "CANCEL"} /\ ~IsTerminalStatus(order.status)
  <2>1. Decide(order, cmd) = DecideLive(order, cmd)
    BY <1>4 DEF Decide
  <2>2. CASE cmd.type \in ItemMutations
    BY <2>1, <2>2 DEF DecideLive, DecideItemChange
  <2>3. CASE cmd.type \in {"SEND_TO_KITCHEN", "START_PREPARING", "MARK_READY", "PAY"}
    BY <2>1, <2>3 DEF DecideLive, DecideSend, DecideTransition
  <2> QED  BY <1>4, <2>2, <2>3
<1> QED  BY <1>1, <1>2, <1>3, <1>4

----------------------------------------------------------------------------
(* Types *)

Totals     == {LinesTotal(held) : held \in [Products -> Nat]}
Held       == [Products -> Nat]
Row        == [tenant : Tenants, table : Tables, status : Statuses,
               version : Nat \ {0}, total : Totals] \cup {NoRow}
Hashes     == {RequestHash(r) : r \in Requests} \cup {NoHash}
RecordType == [hash : Hashes, row : Row, lines : Held]
Announced  == {EventType[type] : type \in MutationTypes}

Phases ==
    {"idle", "reading", "readingLines", "checking", "writing", "raced", "confirming",
     "conflicting", "readingCanonical", "loggingConflict", "replied"}

Answers ==
    {"none", "APPLIED", "ALREADY_APPLIED", "CONFLICT", "CROSS_TENANT_MUTATION",
     "MUTATION_ID_REUSED", "ORDER_NOT_FOUND", "PRODUCT_NOT_FOUND", "INTERNAL_ERROR"}

HandlerType == [pc : Phases, req : Requests \cup {NoRequest}, row : Row, lines : Held,
                reason : Reasons, answer : Answers]

TablesTyped ==
    /\ orders \in [OrderIds -> Row]
    /\ lines \in [OrderIds -> Held]
    /\ payments \subseteq [order : OrderIds, by : MutationIds, amount : Totals]
    /\ processed \in [MutationIds -> RecordType]
    /\ outbox \subseteq [order : OrderIds, version : Nat \ {0}, type : Announced,
                         tenant : Tenants, by : MutationIds]
    /\ conflictLog \subseteq Requests

HandlersTyped ==
    /\ handler \in [Handlers -> HandlerType]
    /\ \A h \in Handlers : handler[h].pc # "idle" => handler[h].req \in Requests

Typed == TablesTyped /\ HandlersTyped

LEMMA RowFacts ==
    /\ NoRow \in Row /\ NoLines \in Held /\ NoHash \in Hashes /\ ~Exists(NoRow)
    /\ NoRecord \in RecordType /\ IdleHandler \in HandlerType
    /\ \A row \in Row : /\ row.version \in Nat
                        /\ Exists(row) => /\ row.tenant \in Tenants /\ row.table \in Tables
                                          /\ row.status \in Statuses /\ row.total \in Totals
                        /\ ~Exists(row) => row = NoRow
<1> USE DEF Row, Held, Hashes, NoRow, NoLines, NoHash, Exists
<1>1. /\ NoRow \in Row /\ NoLines \in Held /\ NoHash \in Hashes /\ ~Exists(NoRow)
  OBVIOUS
<1>2. NoRecord \in RecordType
  BY <1>1 DEF NoRecord, RecordType
<1>3. IdleHandler \in HandlerType
  BY <1>1 DEF IdleHandler, FreshHandler, HandlerType, Phases, Answers, Reasons
<1>4. \A row \in Row : /\ row.version \in Nat
                       /\ Exists(row) => /\ row.tenant \in Tenants /\ row.table \in Tables
                                         /\ row.status \in Statuses /\ row.total \in Totals
                       /\ ~Exists(row) => row = NoRow
  OBVIOUS
<1> QED  BY <1>1, <1>2, <1>3, <1>4

LEMMA RequestFacts ==
    ASSUME NEW r \in Requests
    PROVE  /\ r.id \in MutationIds /\ r.order \in OrderIds /\ r.tenant \in Tenants
           /\ r.type \in MutationTypes /\ r.base \in Nat /\ r.quantity \in Nat
           /\ r.type = "CREATE_ORDER" => r.table \in Tables
           /\ r.type \in ItemMutations => r.product \in Products
           /\ r.type # "CREATE_ORDER" => r.base > 0
           /\ RequestHash(r) \in Hashes /\ RequestHash(r) # NoHash
           /\ EventType[r.type] \in Announced
BY RequestsAssumption DEF RequestType, Hashes, RequestHash, NoHash, Announced

----------------------------------------------------------------------------
(* What the helpers do to a handler *)

(* h goes to another phase holding this row and these lines, for the same  *)
(* request, and no other handler moves.                                    *)
Becomes(h, pc, row, held) ==
    /\ handler'[h].pc = pc /\ handler'[h].row = row /\ handler'[h].lines = held
    /\ handler'[h].req = handler[h].req
    /\ \A g \in Handlers \ {h} : handler'[g] = handler[g]

LEMMA GotoEffect ==
    ASSUME HandlersTyped, NEW h \in Handlers, handler[h].pc # "idle", NEW pc \in Phases, Goto(h, pc)
    PROVE  HandlersTyped' /\ Becomes(h, pc, handler[h].row, handler[h].lines)
BY DEF HandlersTyped, HandlerType, Goto, Becomes

LEMMA SawEffect ==
    ASSUME HandlersTyped, NEW h \in Handlers, handler[h].pc # "idle", NEW pc \in Phases,
           NEW row \in Row, NEW held \in Held, Saw(h, pc, row, held)
    PROVE  HandlersTyped' /\ Becomes(h, pc, row, held)
BY DEF HandlersTyped, HandlerType, Saw, Becomes

LEMMA RollBackEffect ==
    ASSUME HandlersTyped, NEW h \in Handlers, handler[h].pc # "idle", NEW pc \in Phases,
           NEW reason \in Reasons, RollBack(h, pc, reason)
    PROVE  HandlersTyped' /\ Becomes(h, pc, NoRow, NoLines)
<1>1. NoRow \in Row /\ NoLines \in Held
  BY RowFacts
<1> QED  BY <1>1 DEF HandlersTyped, HandlerType, RollBack, Becomes

LEMMA ReplyEffect ==
    ASSUME HandlersTyped, NEW h \in Handlers, handler[h].pc # "idle", NEW answer \in Answers,
           NEW row \in Row, NEW held \in Held, Reply(h, answer, row, held)
    PROVE  /\ HandlersTyped' /\ Becomes(h, "replied", row, held)
           /\ handler'[h].answer = answer
<1>1. "replied" \in Phases /\ "none" \in Reasons
  BY DEF Phases, Reasons
<1>2. Becomes(h, "replied", row, held) /\ handler'[h].answer = answer
  BY DEF HandlersTyped, HandlerType, Reply, Becomes
<1>3. handler' \in [Handlers -> HandlerType]
  <2>1. handler'[h] = [pc |-> "replied", req |-> handler[h].req, row |-> row, lines |-> held,
                       reason |-> "none", answer |-> answer]
    BY DEF HandlersTyped, HandlerType, Reply
  <2>2. handler'[h] \in HandlerType
    BY <1>1, <2>1 DEF HandlersTyped, HandlerType
  <2>3. DOMAIN handler' = Handlers /\ handler' = [g \in Handlers |-> handler'[g]]
    BY DEF HandlersTyped, Reply
  <2> QED  BY <1>2, <2>2, <2>3 DEF HandlersTyped, Becomes
<1>4. \A g \in Handlers : handler'[g].pc # "idle" => handler'[g].req \in Requests
  BY <1>2 DEF HandlersTyped, Becomes
<1> QED  BY <1>2, <1>3, <1>4 DEF HandlersTyped

LEMMA RefuseEffect ==
    ASSUME HandlersTyped, NEW h \in Handlers, handler[h].pc # "idle", NEW answer \in Answers,
           Refuse(h, answer)
    PROVE  /\ HandlersTyped' /\ Becomes(h, "replied", NoRow, NoLines)
           /\ handler'[h].answer = answer
BY ReplyEffect, RowFacts DEF Refuse

(* The answer from the record is the stored result or a refusal. *)
LEMMA OutcomeEffect ==
    ASSUME Typed, NEW h \in Handlers, handler[h].pc # "idle", OutcomeFor(h)
    PROVE  LET r == handler[h].req IN
           /\ HandlersTyped'
           /\ \/ /\ processed[r.id].hash # RequestHash(r)
                 /\ Becomes(h, "replied", NoRow, NoLines)
                 /\ handler'[h].answer = "MUTATION_ID_REUSED"
              \/ /\ processed[r.id].hash = RequestHash(r)
                 /\ Becomes(h, "replied", processed[r.id].row, processed[r.id].lines)
                 /\ handler'[h].answer = "ALREADY_APPLIED"
<1> DEFINE r == handler[h].req
<1>1. r \in Requests /\ r.id \in MutationIds
  BY RequestFacts DEF Typed, HandlersTyped
<1>2. processed[r.id].row \in Row /\ processed[r.id].lines \in Held
  BY <1>1 DEF Typed, TablesTyped, RecordType
<1>3. "MUTATION_ID_REUSED" \in Answers /\ "ALREADY_APPLIED" \in Answers
  BY DEF Answers
<1>4. CASE processed[r.id].hash # RequestHash(r)
  BY <1>3, <1>4, RefuseEffect DEF Typed, OutcomeFor
<1>5. CASE processed[r.id].hash = RequestHash(r)
  BY <1>2, <1>3, <1>5, ReplyEffect DEF Typed, OutcomeFor
<1> QED  BY <1>4, <1>5

----------------------------------------------------------------------------
(* The snapshot a handler works on.  It is never ahead of the order; it is *)
(* the order itself when the version is still the same; and it is no older *)
(* than the version the request was based on.  So when the guarded update  *)
(* finds the base version, the snapshot is the order as it is.             *)

Current(r) == orders[r.order]

Behind(h) ==
    LET r == handler[h].req  row == handler[h].row IN
    /\ row.version <= Current(r).version
    /\ row.version = Current(r).version => row = Current(r)
    /\ Exists(row) => r.base <= row.version /\ row.tenant = Current(r).tenant

Snapshot(h) ==
    LET r == handler[h].req  row == handler[h].row  held == handler[h].lines IN
    /\ handler[h].pc = "reading" =>
          r.base <= Current(r).version \/ (~Exists(Current(r)) /\ r.base = 1)
    /\ handler[h].pc \in {"readingLines", "checking", "writing"} => Behind(h)
    /\ handler[h].pc = "readingLines" => Exists(row)
    /\ handler[h].pc \in {"checking", "writing"} /\ Exists(row)
          /\ row.version = Current(r).version => held = lines[r.order]
    /\ handler[h].pc = "writing" =>
          /\ ~Foreign(row, r)
          /\ Exists(row) \/ r.type = "CREATE_ORDER"
          /\ DecideOn(row, held, r).kind = "apply"

Snapshots == \A h \in Handlers : Snapshot(h)

(* What any step may do to an order: nothing, or move it to a later        *)
(* version under the same restaurant.                                      *)
Evolves ==
    \A o \in OrderIds :
        \/ orders'[o] = orders[o] /\ lines'[o] = lines[o]
        \/ /\ orders'[o].version > orders[o].version
           /\ Exists(orders[o]) => orders'[o].tenant = orders[o].tenant
           /\ ~Exists(orders[o]) => orders'[o].version = 1

(* The guarded update succeeds only on the order the decision was taken on. *)
LEMMA BumpFindsSnapshot ==
    ASSUME Typed, Snapshots, NEW h \in Handlers, BumpSucceeds(h)
    PROVE  LET r == handler[h].req IN
           /\ r \in Requests /\ r.order \in OrderIds /\ Exists(Current(r))
           /\ handler[h].row = Current(r) /\ handler[h].lines = lines[r.order]
           /\ Current(r).tenant = r.tenant
           /\ Decide(View(Current(r), lines[r.order]), r).kind = "apply"
<1> DEFINE r == handler[h].req
<1>1. r \in Requests
  BY DEF Typed, HandlersTyped, BumpSucceeds, At
<1>2. r.order \in OrderIds /\ r.base \in Nat /\ r.base > 0 /\ r.type # "CREATE_ORDER"
  BY <1>1, RequestFacts DEF BumpSucceeds
<1>3. handler[h].row \in Row /\ Current(r) \in Row /\ Current(r).version = r.base
  BY <1>2 DEF Typed, TablesTyped, HandlersTyped, HandlerType, Current, BumpSucceeds
<1>4. handler[h].row.version \in Nat /\ Current(r).version \in Nat
  BY <1>3, RowFacts
<1>5. Snapshot(h) /\ handler[h].pc = "writing"
  BY DEF Snapshots, BumpSucceeds, At
<1>6. Exists(handler[h].row)
  BY <1>2, <1>5 DEF Snapshot
<1>7. handler[h].row.version = Current(r).version
  BY <1>3, <1>4, <1>5, <1>6 DEF Snapshot, Behind
<1>8. handler[h].row = Current(r) /\ handler[h].lines = lines[r.order]
  BY <1>5, <1>6, <1>7 DEF Snapshot, Behind
<1>9. Exists(Current(r))
  BY <1>6, <1>8
<1>10. Current(r).tenant = r.tenant
  BY <1>5, <1>6, <1>8 DEF Snapshot, Foreign
<1>11. Decide(View(Current(r), lines[r.order]), r).kind = "apply"
  BY <1>5, <1>8, <1>9 DEF Snapshot, DecideOn
<1> QED  BY <1>1, <1>2, <1>8, <1>9, <1>10, <1>11

(* The verdict on an order as it stands, and what applying r makes of it. *)
Verdict(r)  == Decide(View(Current(r), lines[r.order]), r)
NewLines(r) == LinesAfter(lines[r.order], r)
NewRow(r)   == RowAfter(Current(r), Verdict(r).next, NewLines(r), r)

LEMMA LinesStayLines ==
    ASSUME NEW r \in Requests, NEW held \in Held
    PROVE  LinesAfter(held, r) \in Held
<1> USE DEF Held
<1>1. r.quantity \in Nat /\ (r.type \in ItemMutations => r.product \in Products)
  BY RequestFacts
<1>2. CASE r.type = "ADD_ITEM"
  BY <1>1, <1>2 DEF LinesAfter, ItemMutations
<1>3. CASE r.type = "REMOVE_ITEM"
  BY <1>1, <1>3 DEF LinesAfter, ItemMutations
<1>4. CASE r.type = "CHANGE_QUANTITY"
  BY <1>1, <1>4 DEF LinesAfter, ItemMutations
<1>5. CASE r.type \notin ItemMutations
  BY <1>5 DEF LinesAfter, ItemMutations
<1> QED  BY <1>2, <1>3, <1>4, <1>5 DEF ItemMutations

(* The new row of an order that a mutation may be applied to. *)
LEMMA NewRowFacts ==
    ASSUME Typed, NEW r \in Requests, Exists(Current(r)), Verdict(r).kind = "apply"
    PROVE  /\ Current(r).status \in Statuses /\ Current(r).version \in Nat
           /\ Verdict(r).next \in Statuses
           /\ NewLines(r) \in Held /\ NewRow(r) \in Row
           /\ NewRow(r).version = Current(r).version + 1
           /\ NewRow(r).tenant = Current(r).tenant
           /\ NewRow(r).status = Verdict(r).next
           /\ NewRow(r).total = IF r.type \in ItemMutations THEN LinesTotal(NewLines(r))
                                                            ELSE Current(r).total
<1>1. r.order \in OrderIds /\ r.type \in MutationTypes
  BY RequestFacts
<1>2. Current(r) \in Row /\ lines[r.order] \in Held
  BY <1>1 DEF Typed, TablesTyped, Current
<1>3. /\ Current(r).version \in Nat /\ Current(r).tenant \in Tenants /\ Current(r).table \in Tables
      /\ Current(r).status \in Statuses /\ Current(r).total \in Totals
  BY <1>2, RowFacts
<1>4. View(Current(r), lines[r.order]).status = Current(r).status
  BY DEF View
<1>5. Verdict(r).next \in Statuses
  BY <1>1, <1>3, <1>4, DecideApplies DEF Verdict
<1>6. NewLines(r) \in Held
  BY <1>2, LinesStayLines DEF NewLines
<1>7. LinesTotal(NewLines(r)) \in Totals
  BY <1>6 DEF Totals, Held
<1>8. NewRow(r) =
        [tenant |-> Current(r).tenant, table |-> Current(r).table, status |-> Verdict(r).next,
         version |-> Current(r).version + 1,
         total |-> IF r.type \in ItemMutations THEN LinesTotal(NewLines(r)) ELSE Current(r).total]
  BY DEF NewRow, RowAfter
<1>9. NewRow(r) \in Row
  BY <1>3, <1>5, <1>7, <1>8 DEF Row
<1> QED  BY <1>3, <1>5, <1>6, <1>8, <1>9

(* What ApplyChange does, in terms of the order as it was. *)
LEMMA ApplyEffect ==
    ASSUME Typed, Snapshots, NEW h \in Handlers, ApplyChange(h), NEW r, r = handler[h].req
    PROVE  /\ r \in Requests /\ r.order \in OrderIds /\ Exists(Current(r)) /\ ~Recorded(r.id)
           /\ Current(r).tenant = r.tenant /\ Verdict(r).kind = "apply"
           /\ orders' = [orders EXCEPT ![r.order] = NewRow(r)]
           /\ lines' = [lines EXCEPT ![r.order] = NewLines(r)]
           /\ InsertPayment(r, Current(r).total)
           /\ Record(r, NewRow(r), NewLines(r))
           /\ Publish(r, NewRow(r).version)
           /\ Reply(h, "APPLIED", NewRow(r), NewLines(r))
           /\ UNCHANGED conflictLog
<1>1. BumpSucceeds(h) /\ ~Recorded(r.id)
  BY DEF ApplyChange, Writable
<1>2. /\ r \in Requests /\ r.order \in OrderIds /\ Exists(Current(r))
      /\ handler[h].row = Current(r) /\ handler[h].lines = lines[r.order]
      /\ Current(r).tenant = r.tenant
      /\ Decide(View(Current(r), lines[r.order]), r).kind = "apply"
  BY <1>1, BumpFindsSnapshot
<1>3. DecideOn(handler[h].row, handler[h].lines, r).next = Verdict(r).next
  BY <1>2 DEF DecideOn, Verdict
<1>4. /\ orders' = [orders EXCEPT ![r.order] = NewRow(r)]
      /\ lines' = [lines EXCEPT ![r.order] = NewLines(r)]
      /\ InsertPayment(r, Current(r).total)
      /\ Record(r, NewRow(r), NewLines(r))
      /\ Publish(r, NewRow(r).version)
      /\ Reply(h, "APPLIED", NewRow(r), NewLines(r))
      /\ UNCHANGED conflictLog
  BY <1>2, <1>3 DEF ApplyChange, Current, NewRow, NewLines
<1>5. Verdict(r).kind = "apply"
  BY <1>2 DEF Verdict
<1> QED  BY <1>1, <1>2, <1>4, <1>5

----------------------------------------------------------------------------
(* Types and snapshots are kept by every step *)

LEMMA QuietTables ==
    ASSUME Typed, UnchangedTables
    PROVE  TablesTyped' /\ Evolves
BY DEF Typed, TablesTyped, UnchangedTables, Evolves

Active == {"reading", "readingLines", "checking", "writing"}

LEMMA NoSnapshot ==
    ASSUME NEW h \in Handlers, handler'[h].pc \notin Active
    PROVE  Snapshot(h)'
BY DEF Snapshot, Active

(* A handler that does not move keeps a sound snapshot while orders evolve. *)
LEMMA OthersKeepSnapshot ==
    ASSUME Typed, Snapshots, TablesTyped', Evolves,
           NEW g \in Handlers, handler'[g] = handler[g]
    PROVE  Snapshot(g)'
<1> DEFINE r == handler[g].req
           o == r.order
           row == handler[g].row
<1>1. CASE handler[g].pc \notin Active
  BY <1>1, NoSnapshot
<1>2. CASE handler[g].pc \in Active
  <2>1. r \in Requests
    BY <1>2 DEF Typed, HandlersTyped, Active
  <2>2. o \in OrderIds /\ r.base \in Nat /\ (r.type # "CREATE_ORDER" => r.base > 0)
    BY <2>1, RequestFacts
  <2>3. row \in Row /\ orders[o] \in Row /\ orders'[o] \in Row
    BY <2>2 DEF Typed, TablesTyped, HandlersTyped, HandlerType
  <2>4. row.version \in Nat /\ orders[o].version \in Nat /\ orders'[o].version \in Nat
    BY <2>3, RowFacts
  <2>5. Snapshot(g)
    BY DEF Snapshots
  <2>6. CASE orders'[o] = orders[o] /\ lines'[o] = lines[o]
    BY <2>5, <2>6 DEF Snapshot, Behind, Current
  <2>7. CASE /\ orders'[o].version > orders[o].version
             /\ Exists(orders[o]) => orders'[o].tenant = orders[o].tenant
             /\ ~Exists(orders[o]) => orders'[o].version = 1
    <3>1. handler[g].pc # "reading" => row.version < orders'[o].version
      BY <1>2, <2>4, <2>5, <2>7 DEF Snapshot, Behind, Current, Active
    <3>2. handler[g].pc # "reading" /\ Exists(row) => row.tenant = orders'[o].tenant
      BY <1>2, <2>4, <2>5, <2>7 DEF Snapshot, Behind, Current, Active, Exists
    <3>3. handler[g].pc = "reading" => r.base <= orders'[o].version
      BY <2>2, <2>4, <2>5, <2>7 DEF Snapshot, Current, Exists
    <3> QED
      BY <1>2, <2>4, <2>5, <3>1, <3>2, <3>3 DEF Snapshot, Behind, Current, Active
  <2> QED  BY <2>2, <2>6, <2>7 DEF Evolves
<1> QED  BY <1>1, <1>2

(* One step of handler h: types, evolution, and the snapshot h is left with. *)
Sound(h) ==
    /\ Typed' /\ Evolves /\ Snapshot(h)'
    /\ \A g \in Handlers \ {h} : handler'[g] = handler[g]

(* A step that writes no table and leaves the snapshot behind. *)
LEMMA QuietEnd ==
    ASSUME Typed, NEW h \in Handlers, UnchangedTables, HandlersTyped',
           NEW pc, pc \notin Active, NEW row, NEW held, Becomes(h, pc, row, held)
    PROVE  Sound(h)
BY QuietTables, NoSnapshot DEF Sound, Typed, Becomes

LEMMA ReceiveSound ==
    ASSUME Typed, NEW h \in Handlers, NEW r \in Requests, Receive(h, r)
    PROVE  Sound(h)
<1>1. TablesTyped' /\ Evolves
  BY QuietTables DEF Receive
<1>2. FreshHandler("reading", r) \in HandlerType
  BY RowFacts DEF FreshHandler, HandlerType, Phases, Reasons, Answers
<1>3. FreshHandler("reading", r).pc = "reading" /\ FreshHandler("reading", r).req = r
  BY DEF FreshHandler
<1>4. /\ handler'[h].pc = "reading" /\ handler'[h].req = r
      /\ \A g \in Handlers \ {h} : handler'[g] = handler[g]
      /\ handler' \in [Handlers -> HandlerType]
  BY <1>2, <1>3 DEF Receive, Start, Typed, HandlersTyped
<1>5. HandlersTyped'
  BY <1>4 DEF Typed, HandlersTyped
<1>6. r.base <= orders[r.order].version \/ (~Exists(orders[r.order]) /\ r.base = 1)
  BY DEF Receive
<1>7. Snapshot(h)'
  BY <1>4, <1>6 DEF Snapshot, Current, Receive, UnchangedTables
<1> QED  BY <1>1, <1>4, <1>5, <1>7 DEF Sound, Typed

LEMMA ReadOrderSound ==
    ASSUME Typed, Snapshots, NEW h \in Handlers, ReadOrder(h)
    PROVE  Sound(h)
<1> DEFINE r == handler[h].req
<1>1. TablesTyped' /\ Evolves
  BY QuietTables DEF ReadOrder
<1>2. r \in Requests /\ r.order \in OrderIds /\ r.base \in Nat
  BY RequestFacts DEF Typed, HandlersTyped, ReadOrder, At
<1>3. orders[r.order] \in Row /\ orders[r.order].version \in Nat
  BY <1>2, RowFacts DEF Typed, TablesTyped
<1>4. NoLines \in Held /\ "readingLines" \in Phases /\ "checking" \in Phases
  BY RowFacts DEF Phases
<1>5. PICK pc \in {"readingLines", "checking"} :
        /\ Becomes(h, pc, orders[r.order], NoLines) /\ HandlersTyped'
        /\ pc = "readingLines" <=> Exists(orders[r.order])
  BY <1>3, <1>4, SawEffect DEF ReadOrder, At, Typed
<1>6. r.base <= orders[r.order].version \/ (~Exists(orders[r.order]) /\ r.base = 1)
  BY DEF Snapshots, Snapshot, ReadOrder, At, Current
<1>7. Snapshot(h)'
  BY <1>2, <1>3, <1>5, <1>6
  DEF Snapshot, Behind, Current, Exists, Becomes, ReadOrder, UnchangedTables
<1> QED  BY <1>1, <1>5, <1>7 DEF Sound, Typed, Becomes

LEMMA ReadLinesSound ==
    ASSUME Typed, Snapshots, NEW h \in Handlers, ReadLines(h)
    PROVE  Sound(h)
<1> DEFINE r == handler[h].req
<1>1. TablesTyped' /\ Evolves
  BY QuietTables DEF ReadLines
<1>2. r \in Requests /\ r.order \in OrderIds
  BY RequestFacts DEF Typed, HandlersTyped, ReadLines, At
<1>3. handler[h].row \in Row /\ lines[r.order] \in Held /\ "checking" \in Phases
  BY <1>2 DEF Typed, TablesTyped, HandlersTyped, HandlerType, Phases
<1>4. Becomes(h, "checking", handler[h].row, lines[r.order]) /\ HandlersTyped'
  BY <1>3, SawEffect DEF ReadLines, At, Typed
<1>5. Behind(h)
  BY DEF Snapshots, Snapshot, ReadLines, At
<1>6. Snapshot(h)'
  BY <1>4, <1>5 DEF Snapshot, Behind, Current, Becomes, ReadLines, UnchangedTables
<1> QED  BY <1>1, <1>4, <1>6 DEF Sound, Typed, Becomes

LEMMA DecideSound ==
    ASSUME Typed, Snapshots, NEW h \in Handlers, DecideOnSnapshot(h)
    PROVE  Sound(h)
<1> DEFINE r == handler[h].req
           row == handler[h].row
           verdict == DecideOn(row, handler[h].lines, r)
<1>1. TablesTyped' /\ Evolves /\ UnchangedTables
  BY QuietTables DEF DecideOnSnapshot
<1>2. handler[h].pc = "checking" /\ r \in Requests /\ r.type \in MutationTypes
  BY RequestFacts DEF Typed, HandlersTyped, DecideOnSnapshot, At
<1>3. /\ row \in Row /\ {"writing", "conflicting", "confirming"} \subseteq Phases
      /\ "none" \in Reasons
  BY DEF Typed, HandlersTyped, HandlerType, Phases, Reasons
<1>4. CASE verdict.kind = "apply" /\ Goto(h, "writing")
  <2>1. Becomes(h, "writing", row, handler[h].lines) /\ HandlersTyped'
    BY <1>2, <1>3, <1>4, GotoEffect DEF Typed
  <2>2. Behind(h) /\ (Exists(row) /\ row.version = Current(r).version
                         => handler[h].lines = lines[r.order])
    BY <1>2 DEF Snapshots, Snapshot
  <2>3. ~Foreign(row, r) /\ (Exists(row) \/ r.type = "CREATE_ORDER")
    BY DEF DecideOnSnapshot
  <2>4. Snapshot(h)'
    BY <1>1, <1>4, <2>1, <2>2, <2>3 DEF Snapshot, Behind, Current, Becomes, UnchangedTables
  <2> QED  BY <1>1, <2>1, <2>4 DEF Sound, Typed, Becomes
<1>5. CASE verdict.kind = "conflict" /\ RollBack(h, "conflicting", verdict.reason)
  <2>1. verdict.reason \in Reasons
    <3>1. CASE Exists(row)
      BY <1>2, <1>3, <3>1, DecideAnswers, RowFacts DEF DecideOn, View
    <3>2. CASE ~Exists(row)
      BY <3>2 DEF DecideOn, Apply, Reasons
    <3> QED  BY <3>1, <3>2
  <2>2. Becomes(h, "conflicting", NoRow, NoLines) /\ HandlersTyped'
    BY <1>2, <1>3, <1>5, <2>1, RollBackEffect DEF Typed
  <2> QED  BY <1>1, <2>2, QuietEnd DEF Active
<1>6. CASE verdict.kind = "already-applied" /\ RollBack(h, "confirming", "none")
  <2>1. Becomes(h, "confirming", NoRow, NoLines) /\ HandlersTyped'
    BY <1>2, <1>3, <1>6, RollBackEffect DEF Typed
  <2> QED  BY <1>1, <2>1, QuietEnd DEF Active
<1> QED  BY <1>4, <1>5, <1>6 DEF DecideOnSnapshot

(* The steps that only answer, or give the transaction up. *)
LEMMA RefusalSound ==
    ASSUME Typed, NEW h \in Handlers, handler[h].pc # "idle", UnchangedTables,
           NEW answer \in Answers, Refuse(h, answer)
    PROVE  Sound(h)
BY RefuseEffect, QuietEnd DEF Typed, Active

LEMMA RollBackSound ==
    ASSUME Typed, NEW h \in Handlers, handler[h].pc # "idle", UnchangedTables,
           NEW pc \in Phases \ Active, NEW reason \in Reasons, RollBack(h, pc, reason)
    PROVE  Sound(h)
BY RollBackEffect, QuietEnd DEF Typed

LEMMA OutcomeSound ==
    ASSUME Typed, NEW h \in Handlers, handler[h].pc # "idle", UnchangedTables, OutcomeFor(h)
    PROVE  Sound(h)
BY OutcomeEffect, QuietEnd DEF Typed, Active

LEMMA AnswerSound ==
    ASSUME Typed, NEW h \in Handlers,
           \/ RejectCrossTenant(h) \/ AnswerFromRecord(h) \/ OrderNotFound(h)
           \/ UnknownProduct(h) \/ PaymentKeyTaken(h) \/ AnswerRaced(h)
    PROVE  Sound(h)
<1>1. {"CROSS_TENANT_MUTATION", "ORDER_NOT_FOUND", "PRODUCT_NOT_FOUND", "INTERNAL_ERROR"}
         \subseteq Answers
  BY DEF Answers
<1>2. CASE RejectCrossTenant(h)
  BY <1>1, <1>2, RefusalSound DEF RejectCrossTenant, At
<1>3. CASE AnswerFromRecord(h)
  BY <1>3, OutcomeSound DEF AnswerFromRecord, At
<1>4. CASE OrderNotFound(h)
  BY <1>1, <1>4, RefusalSound DEF OrderNotFound, At
<1>5. CASE UnknownProduct(h)
  BY <1>1, <1>5, RefusalSound DEF UnknownProduct, BumpSucceeds, At
<1>6. CASE PaymentKeyTaken(h)
  BY <1>1, <1>6, RefusalSound DEF PaymentKeyTaken, BumpSucceeds, At
<1>7. CASE AnswerRaced(h)
  BY <1>7, OutcomeSound DEF AnswerRaced, At
<1> QED  BY <1>2, <1>3, <1>4, <1>5, <1>6, <1>7

LEMMA GiveUpSound ==
    ASSUME Typed, NEW h \in Handlers, LoseCreation(h) \/ LoseVersionGuard(h) \/ LoseIdRace(h)
    PROVE  Sound(h)
<1>1. /\ {"confirming", "conflicting", "raced"} \subseteq Phases \ Active
      /\ {"none", "ORDER_ALREADY_EXISTS", "ORDER_VERSION_CONFLICT"} \subseteq Reasons
      /\ "CROSS_TENANT_MUTATION" \in Answers
  BY DEF Phases, Active, Reasons, Answers
<1>2. CASE LoseCreation(h)
  BY <1>1, <1>2, RefusalSound, RollBackSound DEF LoseCreation, At
<1>3. CASE LoseVersionGuard(h)
  BY <1>1, <1>3, RollBackSound DEF LoseVersionGuard, At
<1>4. CASE LoseIdRace(h)
  BY <1>1, <1>4, RollBackSound DEF LoseIdRace, BumpSucceeds, At
<1> QED  BY <1>2, <1>3, <1>4

(* Recording a result keeps the table of results typed. *)
LEMMA RecordTyped ==
    ASSUME Typed, NEW r \in Requests, NEW row \in Row, NEW held \in Held, Record(r, row, held)
    PROVE  /\ processed' \in [MutationIds -> RecordType]
           /\ processed'[r.id] = [hash |-> RequestHash(r), row |-> row, lines |-> held]
           /\ \A id \in MutationIds \ {r.id} : processed'[id] = processed[id]
<1>1. r.id \in MutationIds /\ RequestHash(r) \in Hashes
  BY RequestFacts
<1> QED  BY <1>1 DEF Typed, TablesTyped, Record, RecordType

LEMMA PublishTyped ==
    ASSUME Typed, NEW r \in Requests, NEW version \in Nat \ {0}, Publish(r, version)
    PROVE  outbox' \subseteq [order : OrderIds, version : Nat \ {0}, type : Announced,
                              tenant : Tenants, by : MutationIds]
BY RequestFacts DEF Typed, TablesTyped, Publish

LEMMA CreateSound ==
    ASSUME Typed, NEW h \in Handlers, CreateOrder(h)
    PROVE  Sound(h)
<1> DEFINE r == handler[h].req
           o == r.order
           row == [tenant |-> r.tenant, table |-> r.table, status |-> "OPEN",
                   version |-> 1, total |-> 0]
<1>1. /\ handler[h].pc = "writing" /\ r.type = "CREATE_ORDER" /\ ~Exists(orders[o])
      /\ orders' = [orders EXCEPT ![o] = row]
      /\ Record(r, row, lines[o]) /\ Publish(r, 1) /\ Reply(h, "APPLIED", row, lines[o])
      /\ UNCHANGED <<lines, payments, conflictLog>>
  BY DEF CreateOrder, At
<1>2. r \in Requests /\ o \in OrderIds /\ r.tenant \in Tenants /\ r.table \in Tables
  BY <1>1, RequestFacts DEF Typed, HandlersTyped
<1>3. 0 \in Totals
  BY TotalAssumption, RowFacts DEF Totals, Held
<1>4. row \in Row /\ row.version = 1
  BY <1>2, <1>3 DEF Row, Statuses
<1>5. lines[o] \in Held /\ orders[o] \in Row /\ orders[o].version = 0
  BY <1>1, <1>2, RowFacts DEF Typed, TablesTyped, NoRow
<1> HIDE DEF row
<1>6. TablesTyped'
  <2>1. orders' \in [OrderIds -> Row]
    BY <1>1, <1>2, <1>4 DEF Typed, TablesTyped
  <2>2. processed' \in [MutationIds -> RecordType]
    BY <1>1, <1>2, <1>4, <1>5, RecordTyped
  <2>3. outbox' \subseteq [order : OrderIds, version : Nat \ {0}, type : Announced,
                           tenant : Tenants, by : MutationIds]
    BY <1>1, <1>2, PublishTyped
  <2> QED  BY <1>1, <2>1, <2>2, <2>3 DEF Typed, TablesTyped
<1>7. Evolves
  BY <1>1, <1>2, <1>4, <1>5 DEF Evolves, Typed, TablesTyped, Exists
<1>8. Becomes(h, "replied", row, lines[o]) /\ HandlersTyped'
  BY <1>1, <1>4, <1>5, ReplyEffect DEF Typed, Answers
<1> QED  BY <1>6, <1>7, <1>8, NoSnapshot DEF Sound, Typed, Becomes, Active

LEMMA ApplySound ==
    ASSUME Typed, Snapshots, NEW h \in Handlers, ApplyChange(h)
    PROVE  Sound(h)
<1> DEFINE r == handler[h].req
           o == r.order
<1>1. /\ r \in Requests /\ o \in OrderIds /\ Exists(Current(r))
      /\ Verdict(r).kind = "apply"
      /\ orders' = [orders EXCEPT ![o] = NewRow(r)]
      /\ lines' = [lines EXCEPT ![o] = NewLines(r)]
      /\ InsertPayment(r, Current(r).total)
      /\ Record(r, NewRow(r), NewLines(r))
      /\ Publish(r, NewRow(r).version)
      /\ Reply(h, "APPLIED", NewRow(r), NewLines(r))
      /\ UNCHANGED conflictLog
  BY ApplyEffect
<1>2. /\ NewLines(r) \in Held /\ NewRow(r) \in Row /\ Current(r).version \in Nat
      /\ NewRow(r).version = Current(r).version + 1
      /\ NewRow(r).tenant = Current(r).tenant
  BY <1>1, NewRowFacts
<1>3. Current(r).total \in Totals /\ r.id \in MutationIds
  BY <1>1, RequestFacts, RowFacts DEF Typed, TablesTyped, Current
<1>4. payments' \subseteq [order : OrderIds, by : MutationIds, amount : Totals]
  BY <1>1, <1>3 DEF Typed, TablesTyped, InsertPayment
<1>5. TablesTyped'
  <2>1. orders' \in [OrderIds -> Row] /\ lines' \in [OrderIds -> Held]
    BY <1>1, <1>2 DEF Typed, TablesTyped
  <2>2. processed' \in [MutationIds -> RecordType]
    BY <1>1, <1>2, RecordTyped
  <2>3. outbox' \subseteq [order : OrderIds, version : Nat \ {0}, type : Announced,
                           tenant : Tenants, by : MutationIds]
    BY <1>1, <1>2, PublishTyped
  <2> QED  BY <1>1, <1>4, <2>1, <2>2, <2>3 DEF Typed, TablesTyped
<1>6. Evolves
  BY <1>1, <1>2 DEF Evolves, Typed, TablesTyped, Current
<1>7. Becomes(h, "replied", NewRow(r), NewLines(r)) /\ HandlersTyped'
  BY <1>1, <1>2, ReplyEffect DEF Typed, Answers, ApplyChange, Writable, BumpSucceeds, At
<1> QED  BY <1>5, <1>6, <1>7, NoSnapshot DEF Sound, Typed, Becomes, Active

LEMMA ConflictStepsSound ==
    ASSUME Typed, NEW h \in Handlers,
           FindProcessed(h) \/ ReadCanonicalRow(h) \/ LogConflict(h)
    PROVE  Sound(h)
<1> DEFINE r == handler[h].req
           o == r.order
<1>1. /\ handler[h].pc \in {"conflicting", "readingCanonical", "loggingConflict"}
      /\ r \in Requests /\ o \in OrderIds
  BY RequestFacts DEF Typed, HandlersTyped, FindProcessed, ReadCanonicalRow, LogConflict, At
<1>2. /\ handler[h].row \in Row /\ orders[o] \in Row /\ lines[o] \in Held /\ NoLines \in Held
      /\ {"readingCanonical", "loggingConflict"} \subseteq Phases /\ "CONFLICT" \in Answers
  BY <1>1, RowFacts DEF Typed, TablesTyped, HandlersTyped, HandlerType, Phases, Answers
<1>3. CASE FindProcessed(h)
  <2>1. CASE OutcomeFor(h)
    BY <1>1, <1>3, <2>1, OutcomeSound DEF FindProcessed
  <2>2. CASE Goto(h, "readingCanonical")
    BY <1>1, <1>2, <1>3, <2>2, GotoEffect, QuietEnd DEF FindProcessed, Typed, Active
  <2> QED  BY <1>3, <2>1, <2>2 DEF FindProcessed
<1>4. CASE ReadCanonicalRow(h)
  BY <1>1, <1>2, <1>4, SawEffect, QuietEnd DEF ReadCanonicalRow, Typed, Active
<1>5. CASE LogConflict(h)
  <2>1. Becomes(h, "replied", handler[h].row, lines[o]) /\ HandlersTyped'
    BY <1>1, <1>2, <1>5, ReplyEffect DEF LogConflict, Typed
  <2>2. TablesTyped' /\ Evolves
    BY <1>1, <1>5 DEF LogConflict, Typed, TablesTyped, Evolves
  <2> QED  BY <2>1, <2>2, NoSnapshot DEF Sound, Typed, Becomes, Active
<1> QED  BY <1>3, <1>4, <1>5

LEMMA ConfirmSound ==
    ASSUME Typed, NEW h \in Handlers, Confirm(h)
    PROVE  Sound(h)
<1> DEFINE r == handler[h].req
           o == r.order
           verdict == DecideOn(orders[o], lines[o], r)
<1>1. handler[h].pc = "confirming" /\ r \in Requests /\ o \in OrderIds /\ r.type \in MutationTypes
  BY RequestFacts DEF Typed, HandlersTyped, Confirm, At
<1>2. /\ orders[o] \in Row /\ lines[o] \in Held
      /\ "conflicting" \in Phases \ Active /\ "ALREADY_APPLIED" \in Answers
      /\ "ORDER_VERSION_CONFLICT" \in Reasons
  BY <1>1 DEF Typed, TablesTyped, Phases, Answers, Reasons, Active
<1>3. Evolves
  BY DEF Confirm, Evolves
<1>4. CASE /\ verdict.kind = "already-applied"
           /\ IF Recorded(r.id) THEN UNCHANGED processed ELSE Record(r, orders[o], lines[o])
           /\ Reply(h, "ALREADY_APPLIED", orders[o], lines[o])
  <2>1. Becomes(h, "replied", orders[o], lines[o]) /\ HandlersTyped'
    BY <1>1, <1>2, <1>4, ReplyEffect DEF Typed
  <2>2. processed' \in [MutationIds -> RecordType]
    BY <1>1, <1>2, <1>4, RecordTyped DEF Typed, TablesTyped
  <2>3. TablesTyped'
    BY <2>2 DEF Confirm, Typed, TablesTyped
  <2> QED  BY <1>3, <2>1, <2>3, NoSnapshot DEF Sound, Typed, Becomes, Active
<1>5. CASE /\ verdict.kind = "conflict" /\ RollBack(h, "conflicting", verdict.reason)
           /\ UNCHANGED processed
  <2>1. verdict.reason \in Reasons
    <3>1. CASE Exists(orders[o])
      BY <1>1, <1>2, <3>1, DecideAnswers, RowFacts DEF DecideOn, View
    <3>2. CASE ~Exists(orders[o])
      BY <3>2 DEF DecideOn, Apply, Reasons
    <3> QED  BY <3>1, <3>2
  <2>2. UnchangedTables
    BY <1>5 DEF Confirm, UnchangedTables
  <2> QED  BY <1>1, <1>2, <1>5, <2>1, <2>2, RollBackSound
<1>6. CASE /\ verdict.kind = "apply" /\ RollBack(h, "conflicting", "ORDER_VERSION_CONFLICT")
           /\ UNCHANGED processed
  <2>1. UnchangedTables
    BY <1>6 DEF Confirm, UnchangedTables
  <2> QED  BY <1>1, <1>2, <1>6, <2>1, RollBackSound
<1> QED  BY <1>4, <1>5, <1>6 DEF Confirm

LEMMA EndSound ==
    ASSUME Typed, NEW h \in Handlers, Finish(h) \/ Crash(h)
    PROVE  Sound(h)
<1>1. UnchangedTables /\ handler' = [handler EXCEPT ![h] = IdleHandler]
  BY DEF Finish, Crash
<1>2. IdleHandler \in HandlerType /\ IdleHandler.pc = "idle"
  BY RowFacts DEF IdleHandler, FreshHandler
<1>3. /\ handler' \in [Handlers -> HandlerType] /\ handler'[h].pc = "idle"
      /\ \A g \in Handlers \ {h} : handler'[g] = handler[g]
  BY <1>1, <1>2 DEF Typed, HandlersTyped
<1>4. HandlersTyped'
  BY <1>3 DEF Typed, HandlersTyped
<1> QED  BY <1>1, <1>3, <1>4, QuietTables, NoSnapshot DEF Sound, Typed, Active

LEMMA StepSound ==
    ASSUME Typed, Snapshots, NEW h \in Handlers,
           Step(h) \/ Crash(h) \/ \E r \in Requests : Receive(h, r)
    PROVE  Sound(h)
<1>1. CASE Step(h)
  BY <1>1, ReadOrderSound, ReadLinesSound, DecideSound, AnswerSound, GiveUpSound, CreateSound,
     ApplySound, ConflictStepsSound, ConfirmSound, EndSound DEF Step
<1>2. CASE Crash(h)
  BY <1>2, EndSound
<1>3. CASE \E r \in Requests : Receive(h, r)
  BY <1>3, ReceiveSound
<1> QED  BY <1>1, <1>2, <1>3

Grounded == Typed /\ Snapshots

LEMMA GroundedInit == Init => Grounded
<1> SUFFICES ASSUME Init PROVE Grounded
  OBVIOUS
<1>1. IdleHandler.pc = "idle" /\ IdleHandler.row = NoRow
  BY DEF IdleHandler, FreshHandler
<1>2. TablesTyped /\ HandlersTyped
  BY <1>1, RowFacts DEF Init, TablesTyped, HandlersTyped
<1>3. Snapshots
  BY <1>1 DEF Init, Snapshots, Snapshot
<1> QED  BY <1>2, <1>3 DEF Grounded, Typed

LEMMA GroundedStep == Grounded /\ [Next]_vars => Grounded'
<1> SUFFICES ASSUME Grounded, [Next]_vars PROVE Grounded'
  OBVIOUS
<1>1. CASE Next
  <2>1. PICK h \in Handlers : Step(h) \/ Crash(h) \/ \E r \in Requests : Receive(h, r)
    BY <1>1 DEF Next
  <2>2. Sound(h)
    BY <2>1, StepSound DEF Grounded
  <2>3. \A g \in Handlers : Snapshot(g)'
    BY <2>2, OthersKeepSnapshot DEF Grounded, Sound, Typed
  <2> QED  BY <2>2, <2>3 DEF Grounded, Sound, Snapshots
<1>2. CASE UNCHANGED vars
  <2>1. Typed'
    BY <1>2 DEF vars, Grounded, Typed, TablesTyped, HandlersTyped
  <2>2. Snapshots'
    BY <1>2 DEF vars, Grounded, Snapshots, Snapshot, Behind, Current
  <2> QED  BY <2>1, <2>2 DEF Grounded
<1> QED  BY <1>1, <1>2

(* For every pool of requests and any interleaving, the tables hold rows   *)
(* of the declared types: in particular the status an applied mutation     *)
(* leaves is always one of the lifecycle's (decide() on the snapshot).     *)
(* The one thing assumed is that prices are natural numbers of cents.      *)
THEOREM TypeCorrect ==
    ASSUME \A held \in [Products -> Nat] : LinesTotal(held) \in Nat
    PROVE  Spec => []TypeOK
<1>1. Totals \subseteq Nat
  BY DEF Totals
<1>2. Grounded => TypeOK
  BY <1>1, RequestsAssumption
  DEF Grounded, Typed, TablesTyped, HandlersTyped, Row, Held, TypeOK
<1> QED  BY <1>2, GroundedInit, GroundedStep, PTL DEF Spec

(* The invariant, packaged for the theorems below. *)
LEMMA GroundedAlways == Spec => []Grounded
BY GroundedInit, GroundedStep, PTL DEF Spec

----------------------------------------------------------------------------
(* The ledger: what the tables say of each other *)

(* Nothing but a creation and an applied change touches an order; the rest *)
(* at most records a result under a new mutation id.                       *)
Still ==
    /\ UNCHANGED <<orders, lines, payments, outbox>>
    /\ \A id \in MutationIds : Recorded(id) => processed'[id] = processed[id]

LEMMA StepKinds ==
    ASSUME Typed, [Next]_vars
    PROVE  Still \/ \E h \in Handlers : CreateOrder(h) \/ ApplyChange(h)
<1>1. CASE UNCHANGED vars
  BY <1>1 DEF vars, Still
<1>2. ASSUME NEW h \in Handlers, Step(h) \/ Crash(h) \/ \E r \in Requests : Receive(h, r),
             ~CreateOrder(h), ~ApplyChange(h)
      PROVE  Still
  <2>1. CASE Confirm(h)
    <3>1. UNCHANGED <<orders, lines, payments, outbox>>
      BY <2>1 DEF Confirm
    <3>2. handler[h].req.id \in MutationIds
      BY <2>1, RequestFacts DEF Typed, HandlersTyped, Confirm, At
    <3>3. \/ UNCHANGED processed
          \/ /\ ~Recorded(handler[h].req.id)
             /\ Record(handler[h].req, orders[handler[h].req.order], lines[handler[h].req.order])
      BY <2>1 DEF Confirm
    <3> QED  BY <3>1, <3>2, <3>3 DEF Still, Record, Typed, TablesTyped
  <2>2. CASE LogConflict(h)
    BY <2>2 DEF LogConflict, Still
  <2>3. CASE \/ Finish(h) \/ Crash(h) \/ \E r \in Requests : Receive(h, r)
             \/ ReadOrder(h) \/ ReadLines(h) \/ DecideOnSnapshot(h)
             \/ FindProcessed(h) \/ ReadCanonicalRow(h)
    BY <2>3 DEF Still, UnchangedTables, Finish, Crash, Receive, ReadOrder, ReadLines,
                DecideOnSnapshot, FindProcessed, ReadCanonicalRow
  <2>4. CASE \/ RejectCrossTenant(h) \/ AnswerFromRecord(h) \/ OrderNotFound(h)
             \/ UnknownProduct(h) \/ PaymentKeyTaken(h) \/ AnswerRaced(h)
             \/ LoseCreation(h) \/ LoseVersionGuard(h) \/ LoseIdRace(h)
    BY <2>4 DEF Still, UnchangedTables, RejectCrossTenant, AnswerFromRecord, OrderNotFound,
                UnknownProduct, PaymentKeyTaken, AnswerRaced, LoseCreation, LoseVersionGuard,
                LoseIdRace
  <2> QED  BY <1>2, <2>1, <2>2, <2>3, <2>4 DEF Step
<1> QED  BY <1>1, <1>2 DEF Next

(* What a creation does to the tables. *)
LEMMA CreateEffect ==
    ASSUME Typed, NEW h \in Handlers, CreateOrder(h), NEW r, r = handler[h].req
    PROVE  /\ r \in Requests /\ r.order \in OrderIds /\ r.id \in MutationIds
           /\ r.type = "CREATE_ORDER" /\ ~Recorded(r.id)
           /\ orders[r.order] = NoRow
           /\ orders' = [orders EXCEPT ![r.order] =
                 [tenant |-> r.tenant, table |-> r.table, status |-> "OPEN",
                  version |-> 1, total |-> 0]]
           /\ Record(r, [tenant |-> r.tenant, table |-> r.table, status |-> "OPEN",
                         version |-> 1, total |-> 0], lines[r.order])
           /\ Publish(r, 1)
           /\ Reply(h, "APPLIED", [tenant |-> r.tenant, table |-> r.table, status |-> "OPEN",
                                   version |-> 1, total |-> 0], lines[r.order])
           /\ UNCHANGED <<lines, payments, conflictLog>>
<1>1. handler[h].pc = "writing" /\ r.type = "CREATE_ORDER" /\ ~Exists(orders[r.order])
  BY DEF CreateOrder, At
<1>2. r \in Requests /\ r.order \in OrderIds /\ r.id \in MutationIds
  BY <1>1, RequestFacts DEF Typed, HandlersTyped
<1>3. orders[r.order] = NoRow
  BY <1>1, <1>2, RowFacts DEF Typed, TablesTyped
<1> QED  BY <1>1, <1>2, <1>3 DEF CreateOrder

(* A mutation that took effect is recorded, so it does not do so again. *)
EffectsRecorded == \A e \in outbox : Recorded(e.by)

EventsInv == OutboxFollowsVersions /\ EffectsRecorded

(* An event of the next version, of a mutation without one, joins the rest. *)
LEMMA OneMoreEvent ==
    ASSUME Typed, TablesTyped', EventsInv, NEW r \in Requests, ~Recorded(r.id),
           NEW row \in Row, NEW held \in Held,
           row.version = orders[r.order].version + 1,
           orders' = [orders EXCEPT ![r.order] = row],
           Record(r, row, held), Publish(r, row.version)
    PROVE  EventsInv'
<1> DEFINE o == r.order
           new == [order |-> o, version |-> row.version, type |-> EventType[r.type],
                   tenant |-> r.tenant, by |-> r.id]
<1>1. o \in OrderIds /\ r.id \in MutationIds /\ RequestHash(r) # NoHash
  BY RequestFacts
<1>2. outbox' = outbox \cup {new} /\ orders'[o] = row
  BY <1>1 DEF Publish, Typed, TablesTyped
<1>3. \A e \in outbox : /\ e.by \in MutationIds /\ e.order \in OrderIds /\ e.version \in Nat
                        /\ e.by # r.id
  BY DEF EventsInv, EffectsRecorded, Typed, TablesTyped
<1>4. orders[o].version \in Nat
  BY <1>1, RowFacts DEF Typed, TablesTyped
<1>5. \A e \in outbox : e.order = o => e.version \in 1 .. orders[o].version
  BY <1>1 DEF EventsInv, OutboxFollowsVersions
<1>6. \A e \in outbox : ~(e.order = o /\ e.version = row.version)
  BY <1>4, <1>5
<1>7. ASSUME NEW e \in outbox', NEW f \in outbox',
             e.by = f.by \/ (e.order = f.order /\ e.version = f.version)
      PROVE  e = f
  BY <1>2, <1>3, <1>6, <1>7 DEF EventsInv, OutboxFollowsVersions
<1>8. ASSUME NEW p \in OrderIds
      PROVE  {e.version : e \in {x \in outbox' : x.order = p}} = 1 .. orders'[p].version
  <2>1. {e.version : e \in {x \in outbox : x.order = p}} = 1 .. orders[p].version
    BY DEF EventsInv, OutboxFollowsVersions
  <2>2. CASE p = o
    <3>1. {e.version : e \in {x \in outbox' : x.order = o}} =
            {e.version : e \in {x \in outbox : x.order = o}} \cup {row.version}
      <4>1. {x \in outbox' : x.order = o} = {x \in outbox : x.order = o} \cup {new}
        BY <1>2
      <4>2. new.version = row.version
        OBVIOUS
      <4> HIDE DEF new
      <4> QED  BY <4>1, <4>2
    <3>2. (1 .. orders[o].version) \cup {row.version} = 1 .. row.version
      BY <1>4
    <3> QED  BY <1>2, <2>1, <2>2, <3>1, <3>2
  <2>3. CASE p # o
    <3>1. {x \in outbox' : x.order = p} = {x \in outbox : x.order = p}
      BY <1>2, <2>3
    <3>2. orders'[p] = orders[p]
      BY <1>1, <2>3 DEF Typed, TablesTyped
    <3> QED  BY <2>1, <3>1, <3>2
  <2> QED  BY <2>2, <2>3
<1>9. EffectsRecorded'
  <2>1. Recorded(r.id)'
    <3>1. processed'[r.id] = [hash |-> RequestHash(r), row |-> row, lines |-> held]
      BY RecordTyped
    <3>2. processed'[r.id].hash = RequestHash(r)
      BY <3>1
    <3> QED  BY <1>1, <3>2 DEF Recorded, NoRecord
  <2>2. \A e \in outbox : Recorded(e.by)'
    BY <1>3, RecordTyped DEF EventsInv, EffectsRecorded, Recorded
  <2> QED  BY <1>2, <2>1, <2>2 DEF EffectsRecorded
<1> QED  BY <1>7, <1>8, <1>9 DEF EventsInv, OutboxFollowsVersions

LEMMA EventsStep == Grounded /\ Grounded' /\ EventsInv /\ [Next]_vars => EventsInv'
<1> SUFFICES ASSUME Grounded, Grounded', EventsInv, [Next]_vars PROVE EventsInv'
  OBVIOUS
<1>1. CASE Still
  <2>1. \A e \in outbox : Recorded(e.by)'
    BY <1>1 DEF Still, EventsInv, EffectsRecorded, Recorded, Grounded, Typed, TablesTyped
  <2> QED  BY <1>1, <2>1 DEF Still, EventsInv, EffectsRecorded, OutboxFollowsVersions
<1>2. ASSUME NEW h \in Handlers, CreateOrder(h) PROVE EventsInv'
  <2> DEFINE r == handler[h].req
             row == [tenant |-> r.tenant, table |-> r.table, status |-> "OPEN",
                     version |-> 1, total |-> 0]
  <2>1. /\ r \in Requests /\ r.order \in OrderIds /\ ~Recorded(r.id)
        /\ orders[r.order] = NoRow
        /\ orders' = [orders EXCEPT ![r.order] = row]
        /\ Record(r, row, lines[r.order]) /\ Publish(r, 1)
    BY <1>2, CreateEffect DEF Grounded
  <2>2. row = orders'[r.order] /\ row \in Row /\ lines[r.order] \in Held
    BY <2>1 DEF Grounded, Typed, TablesTyped
  <2>3. row.version = 1 /\ orders[r.order].version = 0
    BY <2>1 DEF NoRow
  <2>4. row.version = orders[r.order].version + 1 /\ Publish(r, row.version)
    BY <2>1, <2>3
  <2> HIDE DEF row
  <2> QED  BY <2>1, <2>2, <2>4, OneMoreEvent DEF Grounded, Typed
<1>3. ASSUME NEW h \in Handlers, ApplyChange(h) PROVE EventsInv'
  BY <1>3, ApplyEffect, NewRowFacts, OneMoreEvent DEF Grounded, Typed, Current
<1> QED  BY <1>1, <1>2, <1>3, StepKinds DEF Grounded

(* However requests are repeated, raced and cut short, version n of an     *)
(* order has exactly the events 1..n and no mutation id caused two.        *)
THEOREM EventsFollowVersions == Spec => []OutboxFollowsVersions
<1>1. Init => EventsInv
  <2> SUFFICES ASSUME Init PROVE EventsInv
    OBVIOUS
  <2>1. outbox = {} /\ \A o \in OrderIds : orders[o].version = 0
    BY DEF Init, NoRow
  <2>2. 1 .. 0 = {}
    OBVIOUS
  <2> QED  BY <2>1, <2>2 DEF EventsInv, EffectsRecorded, OutboxFollowsVersions
<1>2. EventsInv => OutboxFollowsVersions
  BY DEF EventsInv
<1> QED  BY <1>1, <1>2, EventsStep, GroundedAlways, PTL DEF Spec

----------------------------------------------------------------------------
(* Money, the lifecycle and the freezing of lines *)

(* What the verdict on an order as it stands says about an applied change. *)
LEMMA VerdictMoves ==
    ASSUME Typed, NEW r \in Requests, Exists(Current(r)), Verdict(r).kind = "apply"
    PROVE  /\ r.type # "CREATE_ORDER"
           /\ Current(r).status \notin {"PAID", "CANCELLED"}
           /\ IF r.type \in ItemMutations
              THEN Current(r).status = "OPEN" /\ NewRow(r).status = "OPEN"
              ELSE IsValidTransition(Current(r).status, NewRow(r).status)
           /\ NewRow(r).status = "PAID" <=> r.type = "PAY"
<1> DEFINE view == View(Current(r), lines[r.order])
<1>1. view.status = Current(r).status /\ r.type \in MutationTypes
  BY RequestFacts DEF View
<1>2. NewRow(r).status = Verdict(r).next /\ Current(r).status \in Statuses
  BY NewRowFacts
<1>3. /\ ~IsTerminalStatus(view.status) /\ r.type # "CREATE_ORDER"
      /\ IF r.type \in ItemMutations
         THEN view.status = "OPEN" /\ Decide(view, r).next = "OPEN"
         ELSE IsValidTransition(view.status, Decide(view, r).next)
      /\ Decide(view, r).next = "PAID" <=> r.type = "PAY"
  BY <1>1, <1>2, DecideApplies DEF Verdict
<1>4. view.status \notin {"PAID", "CANCELLED"}
  BY <1>3 DEF IsTerminalStatus, AllowedTransitions
<1> QED  BY <1>1, <1>2, <1>3, <1>4 DEF Verdict

LinesOfNothing == \A o \in OrderIds : ~Exists(orders[o]) => lines[o] = NoLines

MoneyInv == PaymentsMatchOrders /\ TotalsFollowLines /\ LinesOfNothing

LEMMA MoneyCreate ==
    ASSUME Typed, Typed', MoneyInv, NEW h \in Handlers, CreateOrder(h)
    PROVE  MoneyInv'
<1> DEFINE r == handler[h].req
           o == r.order
<1>1. /\ o \in OrderIds /\ orders[o] = NoRow /\ UNCHANGED <<lines, payments>>
      /\ orders' = [orders EXCEPT ![o] =
            [tenant |-> r.tenant, table |-> r.table, status |-> "OPEN",
             version |-> 1, total |-> 0]]
  BY CreateEffect
<1>2. /\ orders'[o].status = "OPEN" /\ orders'[o].total = 0 /\ orders'[o].version = 1
      /\ \A p \in OrderIds \ {o} : orders'[p] = orders[p]
  BY <1>1 DEF Typed, TablesTyped
<1>3. /\ orders[o].status # "PAID" /\ ~Exists(orders[o])
  BY <1>1 DEF NoRow, Exists
<1>4. \A pay \in payments : pay.order \in OrderIds /\ pay.order # o
  BY <1>1, <1>3 DEF MoneyInv, PaymentsMatchOrders, Typed, TablesTyped
<1>5. PaymentsMatchOrders'
  BY <1>1, <1>2, <1>4 DEF MoneyInv, PaymentsMatchOrders
<1>6. TotalsFollowLines'
  BY <1>1, <1>2, <1>3, TotalAssumption DEF MoneyInv, TotalsFollowLines, LinesOfNothing, Exists
<1>7. LinesOfNothing'
  BY <1>1, <1>2 DEF MoneyInv, LinesOfNothing, Exists
<1> QED  BY <1>5, <1>6, <1>7 DEF MoneyInv

LEMMA MoneyApply ==
    ASSUME Typed, Snapshots, MoneyInv, NEW h \in Handlers, ApplyChange(h)
    PROVE  MoneyInv'
<1> DEFINE r == handler[h].req
           o == r.order
<1>1. /\ r \in Requests /\ o \in OrderIds /\ Exists(Current(r)) /\ Verdict(r).kind = "apply"
      /\ orders' = [orders EXCEPT ![o] = NewRow(r)]
      /\ lines' = [lines EXCEPT ![o] = NewLines(r)]
      /\ InsertPayment(r, Current(r).total)
  BY ApplyEffect
<1>2. /\ orders'[o] = NewRow(r) /\ lines'[o] = NewLines(r)
      /\ \A p \in OrderIds \ {o} : orders'[p] = orders[p] /\ lines'[p] = lines[p]
  BY <1>1 DEF Typed, TablesTyped
<1>3. /\ NewRow(r).version = Current(r).version + 1 /\ Current(r).version \in Nat
      /\ NewRow(r).total = IF r.type \in ItemMutations THEN LinesTotal(NewLines(r))
                                                       ELSE Current(r).total
  BY <1>1, NewRowFacts
<1>4. /\ r.type # "CREATE_ORDER"
      /\ orders[o].status # "PAID"
      /\ NewRow(r).status = "PAID" <=> r.type = "PAY"
  BY <1>1, VerdictMoves DEF Current
<1>5. r.type \notin ItemMutations => NewLines(r) = lines[o]
  BY DEF NewLines, LinesAfter, ItemMutations
<1>6. \A pay \in payments : pay.order \in OrderIds /\ pay.order # o
  BY <1>1, <1>4 DEF MoneyInv, PaymentsMatchOrders, Typed, TablesTyped
<1>7. PaymentsMatchOrders'
  <2>1. CASE r.type = "PAY"
    <3> DEFINE new == [order |-> o, by |-> r.id, amount |-> Current(r).total]
    <3>1. payments' = payments \cup {new} /\ new.order = o /\ new.amount = NewRow(r).total
      BY <1>1, <1>3, <2>1 DEF InsertPayment, ItemMutations
    <3> HIDE DEF new
    <3> QED
      BY <1>2, <1>4, <1>6, <2>1, <3>1 DEF MoneyInv, PaymentsMatchOrders
  <2>2. CASE r.type # "PAY"
    <3>1. payments' = payments
      BY <1>1, <2>2 DEF InsertPayment
    <3> QED
      BY <1>2, <1>4, <1>6, <2>2, <3>1 DEF MoneyInv, PaymentsMatchOrders
  <2> QED  BY <2>1, <2>2
<1>8. TotalsFollowLines'
  BY <1>1, <1>2, <1>3, <1>5 DEF MoneyInv, TotalsFollowLines, Current
<1>9. LinesOfNothing'
  BY <1>2, <1>3 DEF MoneyInv, LinesOfNothing, Exists
<1> QED  BY <1>7, <1>8, <1>9 DEF MoneyInv

LEMMA MoneyStep == Grounded /\ Grounded' /\ MoneyInv /\ [Next]_vars => MoneyInv'
<1> SUFFICES ASSUME Grounded, Grounded', MoneyInv, [Next]_vars PROVE MoneyInv'
  OBVIOUS
<1>1. CASE Still
  BY <1>1 DEF Still, MoneyInv, PaymentsMatchOrders, TotalsFollowLines, LinesOfNothing
<1>2. ASSUME NEW h \in Handlers, CreateOrder(h) PROVE MoneyInv'
  BY <1>2, MoneyCreate DEF Grounded
<1>3. ASSUME NEW h \in Handlers, ApplyChange(h) PROVE MoneyInv'
  BY <1>3, MoneyApply DEF Grounded
<1> QED  BY <1>1, <1>2, <1>3, StepKinds DEF Grounded

LEMMA MoneyAlways == Spec => []MoneyInv
<1>1. Init => MoneyInv
  <2> SUFFICES ASSUME Init PROVE MoneyInv
    OBVIOUS
  <2>1. payments = {} /\ \A o \in OrderIds : orders[o] = NoRow /\ lines[o] = NoLines
    BY DEF Init
  <2> QED
    BY <2>1 DEF MoneyInv, PaymentsMatchOrders, TotalsFollowLines, LinesOfNothing, NoRow, Exists
<1> QED  BY <1>1, MoneyStep, GroundedAlways, PTL DEF Spec

(* An order is PAID exactly when it has a payment, it has one, and the     *)
(* amount is its total, although a payment's amount is the total read      *)
(* before the guarded update.                                              *)
THEOREM PaymentsMatch == Spec => []PaymentsMatchOrders
<1>1. MoneyInv => PaymentsMatchOrders
  BY DEF MoneyInv
<1> QED  BY <1>1, MoneyAlways, PTL

(* A committed order's total is that of its lines. *)
THEOREM TotalsFollow == Spec => []TotalsFollowLines
<1>1. MoneyInv => TotalsFollowLines
  BY DEF MoneyInv
<1> QED  BY <1>1, MoneyAlways, PTL

(* Though the decision is taken on an earlier read, the status of a        *)
(* committed order only moves along ALLOWED_TRANSITIONS.                   *)
THEOREM MovesAreLegal == Spec => StatusMovesLegally
<1> DEFINE Legal == \A o \in OrderIds :
               Exists(orders[o]) /\ orders'[o].status # orders[o].status =>
                   IsValidTransition(orders[o].status, orders'[o].status)
<1>1. Grounded /\ [Next]_vars => [Legal]_vars
  <2> SUFFICES ASSUME Grounded, [Next]_vars PROVE Legal
    OBVIOUS
  <2>1. CASE Still
    BY <2>1 DEF Still
  <2>2. ASSUME NEW h \in Handlers, CreateOrder(h) PROVE Legal
    <3> DEFINE p == handler[h].req.order
    <3>1. p \in OrderIds /\ ~Exists(orders[p])
      <4>1. p \in OrderIds /\ orders[p] = NoRow
        BY <2>2, CreateEffect DEF Grounded
      <4> QED  BY <4>1 DEF NoRow, Exists
    <3>2. \A o \in OrderIds \ {p} : orders'[o] = orders[o]
      <4>1. PICK row : orders' = [orders EXCEPT ![p] = row]
        BY <2>2 DEF CreateOrder
      <4> QED  BY <3>1, <4>1 DEF Grounded, Typed, TablesTyped
    <3> QED  BY <3>1, <3>2
  <2>3. ASSUME NEW h \in Handlers, ApplyChange(h) PROVE Legal
    <3> DEFINE r == handler[h].req
    <3>1. /\ r \in Requests /\ r.order \in OrderIds /\ Exists(Current(r))
          /\ Verdict(r).kind = "apply"
          /\ orders' = [orders EXCEPT ![r.order] = NewRow(r)]
      BY <2>3, ApplyEffect DEF Grounded
    <3>2. /\ orders'[r.order] = NewRow(r)
          /\ \A o \in OrderIds \ {r.order} : orders'[o] = orders[o]
      BY <3>1 DEF Grounded, Typed, TablesTyped
    <3>3. NewRow(r).status # Current(r).status =>
            IsValidTransition(Current(r).status, NewRow(r).status)
      BY <3>1, VerdictMoves DEF Grounded
    <3> QED  BY <3>2, <3>3 DEF Current
  <2> QED  BY <2>1, <2>2, <2>3, StepKinds DEF Grounded
<1> QED  BY <1>1, GroundedAlways, PTL DEF Spec, StatusMovesLegally

(* No line changes once the kitchen has the order or it has ended. *)
THEOREM LinesFreeze == Spec => LinesFrozenOnceSent
<1> DEFINE Frozen == \A o \in OrderIds :
               lines'[o] # lines[o] => orders[o].status = "OPEN" /\ orders'[o].status = "OPEN"
<1>1. Grounded /\ [Next]_vars => [Frozen]_vars
  <2> SUFFICES ASSUME Grounded, [Next]_vars PROVE Frozen
    OBVIOUS
  <2>1. CASE Still
    BY <2>1 DEF Still
  <2>2. ASSUME NEW h \in Handlers, CreateOrder(h) PROVE Frozen
    BY <2>2 DEF CreateOrder
  <2>3. ASSUME NEW h \in Handlers, ApplyChange(h) PROVE Frozen
    <3> DEFINE r == handler[h].req
    <3>1. /\ r \in Requests /\ r.order \in OrderIds /\ Exists(Current(r))
          /\ Verdict(r).kind = "apply"
          /\ orders' = [orders EXCEPT ![r.order] = NewRow(r)]
          /\ lines' = [lines EXCEPT ![r.order] = NewLines(r)]
      BY <2>3, ApplyEffect DEF Grounded
    <3>2. /\ orders'[r.order] = NewRow(r) /\ lines'[r.order] = NewLines(r)
          /\ \A o \in OrderIds \ {r.order} : lines'[o] = lines[o]
      BY <3>1 DEF Grounded, Typed, TablesTyped
    <3>3. r.type \notin ItemMutations => NewLines(r) = lines[r.order]
      BY DEF NewLines, LinesAfter, ItemMutations
    <3>4. r.type \in ItemMutations => Current(r).status = "OPEN" /\ NewRow(r).status = "OPEN"
      BY <3>1, VerdictMoves DEF Grounded
    <3> QED  BY <3>2, <3>3, <3>4 DEF Current
  <2> QED  BY <2>1, <2>2, <2>3, StepKinds DEF Grounded
<1> QED  BY <1>1, GroundedAlways, PTL DEF Spec, LinesFrozenOnceSent

----------------------------------------------------------------------------
(* What clients are told.  A request that is refused as a conflict is      *)
(* doomed: its order has moved past its base version, or the order as it   *)
(* stands conflicts with it, and neither ever changes back into a verdict  *)
(* that would let it apply.                                                *)

HasOrder(r) == Exists(Current(r)) /\ Current(r).tenant = r.tenant /\ r.base <= Current(r).version

Doomed(r) == HasOrder(r) /\ (r.base < Current(r).version \/ Verdict(r).kind = "conflict")

Refused(r) == \A e \in outbox : e.by = r.id => processed[r.id].hash # RequestHash(r)

(* r is true of an order as shown: it had its effect no later, or the      *)
(* order satisfies it already.                                             *)
Holds(row, held, r) ==
    \/ \E e \in outbox : e.by = r.id /\ e.order = r.order /\ e.version <= row.version
    \/ DecideOn(row, held, r).kind = "already-applied"

RecordTrue(id) ==
    \E r \in Requests : /\ r.id = id /\ processed[id].hash = RequestHash(r)
                        /\ ~Foreign(processed[id].row, r)
                        /\ Holds(processed[id].row, processed[id].lines, r)

RecordsTrue == \A id \in MutationIds : Recorded(id) => RecordTrue(id)

EventsOwned == \A e \in outbox : e.tenant = orders[e.order].tenant

LogDoomed == \A r \in conflictLog : Doomed(r) /\ Refused(r)

Acknowledged(h) ==
    LET r == handler[h].req  row == handler[h].row IN
    \/ /\ processed[r.id].hash = RequestHash(r)
       /\ \E e \in outbox : e.by = r.id /\ e.order = r.order /\ e.version <= row.version
    \/ DecideOn(row, handler[h].lines, r).kind = "already-applied"

Outcome(h) ==
    LET r == handler[h].req  pc == handler[h].pc IN
    /\ pc = "confirming" =>
          HasOrder(r) /\ (r.base < Current(r).version \/ Verdict(r).kind # "apply")
    /\ pc \in {"conflicting", "readingCanonical", "loggingConflict"} => Doomed(r)
    /\ pc \in {"readingCanonical", "loggingConflict"} => Refused(r)
    /\ pc \in {"loggingConflict", "replied"} => ~Foreign(handler[h].row, r)
    /\ pc = "replied" /\ handler[h].answer \in {"APPLIED", "ALREADY_APPLIED"} => Acknowledged(h)

Outcomes == \A h \in Handlers : Outcome(h)

ToldInv == EventsInv /\ EventsOwned /\ RecordsTrue /\ LogDoomed /\ Outcomes

(* A mutation that takes effect in a step is not recorded and not doomed   *)
(* before it, and is recorded by it.                                       *)
TakesEffect(s, e) ==
    /\ e.by = s.id /\ e.order = s.order /\ e.tenant = s.tenant
    /\ ~Recorded(s.id) /\ ~Doomed(s)
    /\ processed'[s.id].hash = RequestHash(s)
    /\ processed'[s.id].row.version = e.version
    /\ processed'[s.id].row.tenant = s.tenant
    /\ orders'[s.order].tenant = s.tenant

Grows ==
    /\ outbox \subseteq outbox'
    /\ \A id \in MutationIds : Recorded(id) => processed'[id] = processed[id] /\ Recorded(id)'
    /\ \A e \in outbox' \ outbox : \E s \in Requests : TakesEffect(s, e)

LEMMA CreateTakesEffect ==
    ASSUME Typed, NEW h \in Handlers, CreateOrder(h), NEW r, r = handler[h].req
    PROVE  /\ \A id \in MutationIds \ {r.id} : processed'[id] = processed[id]
           /\ outbox \subseteq outbox'
           /\ \E e \in outbox' : TakesEffect(r, e) /\ \A f \in outbox' \ outbox : f = e
<1> DEFINE row == [tenant |-> r.tenant, table |-> r.table, status |-> "OPEN",
                   version |-> 1, total |-> 0]
           e == [order |-> r.order, version |-> 1, type |-> EventType[r.type],
                 tenant |-> r.tenant, by |-> r.id]
<1>1. /\ r \in Requests /\ r.order \in OrderIds /\ r.id \in MutationIds
      /\ ~Recorded(r.id) /\ orders[r.order] = NoRow
      /\ orders' = [orders EXCEPT ![r.order] = row]
      /\ Record(r, row, lines[r.order]) /\ Publish(r, 1)
  BY CreateEffect
<1>2. processed' = [processed EXCEPT ![r.id] =
                      [hash |-> RequestHash(r), row |-> row, lines |-> lines[r.order]]]
  BY <1>1 DEF Record
<1>3. /\ \A id \in MutationIds \ {r.id} : processed'[id] = processed[id]
      /\ processed'[r.id] = [hash |-> RequestHash(r), row |-> row, lines |-> lines[r.order]]
  BY <1>1, <1>2 DEF Typed, TablesTyped
<1>4. processed'[r.id].hash = RequestHash(r) /\ processed'[r.id].row = row
  BY <1>3
<1>5. orders'[r.order] = row
  BY <1>1 DEF Typed, TablesTyped
<1>6. ~Doomed(r)
  BY <1>1 DEF Doomed, HasOrder, Current, Exists, NoRow
<1>7. TakesEffect(r, e)
  BY <1>1, <1>4, <1>5, <1>6 DEF TakesEffect
<1>8. outbox' = outbox \cup {e}
  BY <1>1 DEF Publish
<1> QED  BY <1>3, <1>7, <1>8

LEMMA ApplyTakesEffect ==
    ASSUME Typed, Snapshots, NEW h \in Handlers, ApplyChange(h), NEW r, r = handler[h].req
    PROVE  /\ \A id \in MutationIds \ {r.id} : processed'[id] = processed[id]
           /\ outbox \subseteq outbox'
           /\ \E e \in outbox' : TakesEffect(r, e) /\ \A f \in outbox' \ outbox : f = e
<1> DEFINE e == [order |-> r.order, version |-> NewRow(r).version, type |-> EventType[r.type],
                 tenant |-> r.tenant, by |-> r.id]
<1>1. /\ r \in Requests /\ r.order \in OrderIds /\ Exists(Current(r)) /\ ~Recorded(r.id)
      /\ Current(r).tenant = r.tenant /\ Verdict(r).kind = "apply"
      /\ orders' = [orders EXCEPT ![r.order] = NewRow(r)]
      /\ Record(r, NewRow(r), NewLines(r)) /\ Publish(r, NewRow(r).version)
  BY ApplyEffect
<1>2. r.id \in MutationIds /\ r.base \in Nat
  BY <1>1, RequestFacts
<1>3. NewRow(r).tenant = Current(r).tenant
  BY <1>1, NewRowFacts
<1>4. processed' = [processed EXCEPT ![r.id] =
                      [hash |-> RequestHash(r), row |-> NewRow(r), lines |-> NewLines(r)]]
  BY <1>1 DEF Record
<1>5. /\ \A id \in MutationIds \ {r.id} : processed'[id] = processed[id]
      /\ processed'[r.id] = [hash |-> RequestHash(r), row |-> NewRow(r), lines |-> NewLines(r)]
  BY <1>2, <1>4 DEF Typed, TablesTyped
<1>6. processed'[r.id].hash = RequestHash(r) /\ processed'[r.id].row = NewRow(r)
  BY <1>5
<1>7. orders'[r.order] = NewRow(r)
  BY <1>1 DEF Typed, TablesTyped
<1>8. Current(r).version = r.base
  BY DEF ApplyChange, Writable, BumpSucceeds, Current
<1>9. ~Doomed(r)
  BY <1>1, <1>2, <1>8 DEF Doomed
<1>10. TakesEffect(r, e)
  BY <1>1, <1>3, <1>6, <1>7, <1>9 DEF TakesEffect
<1>11. outbox' = outbox \cup {e}
  BY <1>1 DEF Publish
<1> QED  BY <1>5, <1>10, <1>11

LEMMA GrowsStep ==
    ASSUME Grounded, [Next]_vars
    PROVE  Grows
<1>1. CASE Still
  BY <1>1 DEF Still, Grows, Recorded
<1>2. ASSUME NEW h \in Handlers, CreateOrder(h) PROVE Grows
  <2> DEFINE r == handler[h].req
  <2>1. /\ \A id \in MutationIds \ {r.id} : processed'[id] = processed[id]
        /\ outbox \subseteq outbox' /\ ~Recorded(r.id)
        /\ \A f \in outbox' \ outbox : TakesEffect(r, f)
    BY <1>2, CreateTakesEffect DEF Grounded, TakesEffect
  <2>2. r \in Requests
    BY <1>2, CreateEffect DEF Grounded
  <2> QED  BY <2>1, <2>2 DEF Grows, Recorded
<1>3. ASSUME NEW h \in Handlers, ApplyChange(h) PROVE Grows
  <2> DEFINE r == handler[h].req
  <2>1. /\ \A id \in MutationIds \ {r.id} : processed'[id] = processed[id]
        /\ outbox \subseteq outbox' /\ ~Recorded(r.id)
        /\ \A f \in outbox' \ outbox : TakesEffect(r, f)
    BY <1>3, ApplyTakesEffect DEF Grounded, TakesEffect
  <2>2. r \in Requests
    BY <1>3, ApplyEffect DEF Grounded
  <2> QED  BY <2>1, <2>2 DEF Grows, Recorded
<1> QED  BY <1>1, <1>2, <1>3, StepKinds DEF Grounded

LEMMA StepEvolves ==
    ASSUME Grounded, [Next]_vars
    PROVE  Evolves
<1>1. CASE UNCHANGED vars
  BY <1>1 DEF vars, Evolves
<1>2. CASE Next
  BY <1>2, StepSound DEF Next, Grounded, Sound
<1> QED  BY <1>1, <1>2

LEMMA HasOrderStable ==
    ASSUME Typed, TablesTyped', Evolves, NEW r \in Requests, HasOrder(r)
    PROVE  /\ HasOrder(r)'
           /\ \/ r.base < Current(r)'.version
              \/ Verdict(r)' = Verdict(r) /\ Current(r)' = Current(r)
<1> DEFINE o == r.order
<1>1. o \in OrderIds /\ r.base \in Nat
  BY RequestFacts
<1>2. orders[o].version \in Nat /\ orders'[o].version \in Nat
  BY <1>1, RowFacts DEF Typed, TablesTyped
<1>3. CASE orders'[o] = orders[o] /\ lines'[o] = lines[o]
  BY <1>3 DEF HasOrder, Current, Verdict
<1>4. CASE /\ orders'[o].version > orders[o].version
           /\ Exists(orders[o]) => orders'[o].tenant = orders[o].tenant
  BY <1>1, <1>2, <1>4 DEF HasOrder, Current, Exists
<1> QED  BY <1>1, <1>3, <1>4 DEF Evolves

LEMMA DoomedStable ==
    ASSUME Typed, TablesTyped', Evolves, NEW r \in Requests, Doomed(r)
    PROVE  Doomed(r)'
BY HasOrderStable DEF Doomed

LEMMA RefusedStable ==
    ASSUME Typed, EventsInv, Grows, NEW r \in Requests, Doomed(r), Refused(r)
    PROVE  Refused(r)'
<1> SUFFICES ASSUME NEW e \in outbox', e.by = r.id
             PROVE  processed'[r.id].hash # RequestHash(r)
  BY DEF Refused
<1>1. r.id \in MutationIds
  BY RequestFacts
<1>2. CASE e \in outbox
  <2>1. Recorded(r.id)
    BY <1>2 DEF EventsInv, EffectsRecorded
  <2> QED  BY <1>1, <1>2, <2>1 DEF Grows, Refused
<1>3. CASE e \notin outbox
  <2>1. PICK s \in Requests : TakesEffect(s, e)
    BY <1>3 DEF Grows
  <2>2. s.id = r.id /\ s # r /\ processed'[r.id].hash = RequestHash(s)
    BY <2>1 DEF TakesEffect
  <2> QED  BY <2>2, ClientsAssumption
<1> QED  BY <1>2, <1>3

(* A handler that does not move keeps telling the truth. *)
LEMMA OthersKeepOutcome ==
    ASSUME Grounded, Grounded', ToldInv, Evolves, Grows,
           NEW g \in Handlers, handler'[g] = handler[g]
    PROVE  Outcome(g)'
<1> DEFINE r == handler[g].req
<1>1. Outcome(g) /\ EventsInv /\ Typed /\ TablesTyped'
  BY DEF ToldInv, Outcomes, Grounded, Typed
<1>2. CASE handler[g].pc \notin {"confirming", "conflicting", "readingCanonical",
                                 "loggingConflict", "replied"}
  BY <1>2 DEF Outcome
<1>3. CASE handler[g].pc = "confirming"
  <2>1. r \in Requests
    BY <1>3 DEF Grounded, Typed, HandlersTyped
  <2>2. HasOrder(r) /\ (r.base < Current(r).version \/ Verdict(r).kind # "apply")
    BY <1>1, <1>3 DEF Outcome
  <2>3. HasOrder(r)' /\ (r.base < Current(r)'.version \/ Verdict(r)'.kind # "apply")
    <3>1. r.base \in Nat /\ r.order \in OrderIds
      BY <2>1, RequestFacts
    <3>2. (Verdict(r)' = Verdict(r) /\ Current(r)' = Current(r)) \/ r.base < Current(r)'.version
      BY <1>1, <2>1, <2>2, HasOrderStable
    <3>3. HasOrder(r)'
      BY <1>1, <2>1, <2>2, HasOrderStable
    <3> QED  BY <2>2, <3>2, <3>3
  <2> QED  BY <1>3, <2>3 DEF Outcome
<1>4. CASE handler[g].pc \in {"conflicting", "readingCanonical", "loggingConflict"}
  <2>1. r \in Requests
    BY <1>4 DEF Grounded, Typed, HandlersTyped
  <2>2. Doomed(r) /\ Doomed(r)'
    BY <1>1, <1>4, <2>1, DoomedStable DEF Outcome
  <2>3. handler[g].pc \in {"readingCanonical", "loggingConflict"} => Refused(r)'
    BY <1>1, <1>4, <2>1, <2>2, RefusedStable DEF Outcome
  <2>4. handler[g].pc = "loggingConflict" => ~Foreign(handler[g].row, r)
    BY <1>1 DEF Outcome
  <2> QED  BY <1>4, <2>2, <2>3, <2>4 DEF Outcome
<1>5. CASE handler[g].pc = "replied"
  <2>1. r \in Requests /\ r.id \in MutationIds
    BY <1>5, RequestFacts DEF Grounded, Typed, HandlersTyped
  <2>2. ~Foreign(handler[g].row, r)
    BY <1>1, <1>5 DEF Outcome
  <2>3. ASSUME handler[g].answer \in {"APPLIED", "ALREADY_APPLIED"} PROVE Acknowledged(g)'
    <3>1. Acknowledged(g)
      BY <1>1, <1>5, <2>3 DEF Outcome
    <3>2. CASE DecideOn(handler[g].row, handler[g].lines, r).kind = "already-applied"
      BY <3>2 DEF Acknowledged
    <3>3. CASE /\ processed[r.id].hash = RequestHash(r)
               /\ \E e \in outbox : /\ e.by = r.id /\ e.order = r.order
                                    /\ e.version <= handler[g].row.version
      <4>1. PICK e \in outbox : /\ e.by = r.id /\ e.order = r.order
                                /\ e.version <= handler[g].row.version
        BY <3>3
      <4>2. Recorded(r.id) /\ e \in outbox'
        BY <1>1, <4>1 DEF EventsInv, EffectsRecorded, Grows
      <4>3. processed'[r.id].hash = RequestHash(r)
        BY <2>1, <3>3, <4>2 DEF Grows
      <4> QED  BY <4>1, <4>2, <4>3 DEF Acknowledged
    <3> QED  BY <3>1, <3>2, <3>3 DEF Acknowledged
  <2> QED  BY <1>5, <2>2, <2>3 DEF Outcome
<1> QED  BY <1>2, <1>3, <1>4, <1>5

(* A result that is on record for this very request is true of it. *)
LEMMA RecordIsMine ==
    ASSUME Typed, RecordsTrue, NEW r \in Requests, processed[r.id].hash = RequestHash(r)
    PROVE  /\ ~Foreign(processed[r.id].row, r)
           /\ Holds(processed[r.id].row, processed[r.id].lines, r)
<1>1. r.id \in MutationIds /\ RequestHash(r) # NoHash
  BY RequestFacts
<1>2. Recorded(r.id)
  BY <1>1 DEF Recorded, NoRecord
<1>3. PICK s \in Requests : /\ s.id = r.id /\ processed[r.id].hash = RequestHash(s)
                            /\ ~Foreign(processed[r.id].row, s)
                            /\ Holds(processed[r.id].row, processed[r.id].lines, s)
  BY <1>1, <1>2 DEF RecordsTrue, RecordTrue
<1>4. s = r
  BY <1>3, ClientsAssumption
<1> QED  BY <1>3, <1>4

LEMMA OutcomeForTold ==
    ASSUME Typed, RecordsTrue, NEW h \in Handlers, handler[h].pc # "idle",
           UnchangedTables, OutcomeFor(h)
    PROVE  Outcome(h)'
<1> DEFINE r == handler[h].req
<1>1. r \in Requests
  BY DEF Typed, HandlersTyped
<1>2. CASE /\ Becomes(h, "replied", NoRow, NoLines)
           /\ handler'[h].answer = "MUTATION_ID_REUSED"
  BY <1>2, RowFacts DEF Outcome, Becomes, Foreign
<1>3. CASE /\ processed[r.id].hash = RequestHash(r)
           /\ Becomes(h, "replied", processed[r.id].row, processed[r.id].lines)
           /\ handler'[h].answer = "ALREADY_APPLIED"
  <2>1. ~Foreign(processed[r.id].row, r) /\ Holds(processed[r.id].row, processed[r.id].lines, r)
    BY <1>1, <1>3, RecordIsMine
  <2>2. Acknowledged(h)'
    BY <1>3, <2>1 DEF Acknowledged, Holds, Becomes, UnchangedTables
  <2> QED  BY <1>3, <2>1, <2>2 DEF Outcome, Becomes
<1> QED  BY <1>2, <1>3, OutcomeEffect

LEMMA RefuseTold ==
    ASSUME Typed, NEW h \in Handlers, handler[h].pc # "idle", Refuse(h, "CROSS_TENANT_MUTATION")
              \/ Refuse(h, "ORDER_NOT_FOUND") \/ Refuse(h, "PRODUCT_NOT_FOUND")
              \/ Refuse(h, "INTERNAL_ERROR")
    PROVE  Outcome(h)'
<1>1. PICK answer \in {"CROSS_TENANT_MUTATION", "ORDER_NOT_FOUND", "PRODUCT_NOT_FOUND",
                       "INTERNAL_ERROR"} : Refuse(h, answer)
  OBVIOUS
<1>2. Becomes(h, "replied", NoRow, NoLines) /\ handler'[h].answer = answer
  BY <1>1, RefuseEffect DEF Typed, Answers
<1> QED  BY <1>2, RowFacts DEF Outcome, Becomes, Foreign

LEMMA DecideTold ==
    ASSUME Typed, Snapshots, NEW h \in Handlers, DecideOnSnapshot(h), NEW r, r = handler[h].req
    PROVE  Outcome(h)'
<1> DEFINE row == handler[h].row
           verdict == DecideOn(row, handler[h].lines, r)
<1>1. handler[h].pc = "checking" /\ r \in Requests /\ UnchangedTables /\ ~Foreign(row, r)
  BY DEF DecideOnSnapshot, At, Typed, HandlersTyped
<1>2. r.order \in OrderIds /\ r.base \in Nat
  BY <1>1, RequestFacts
<1>3. row.version \in Nat /\ Current(r).version \in Nat
  BY <1>2, RowFacts DEF Typed, TablesTyped, HandlersTyped, HandlerType, Current
<1>4. /\ Behind(h)
      /\ Exists(row) /\ row.version = Current(r).version => handler[h].lines = lines[r.order]
  BY <1>1 DEF Snapshots, Snapshot
<1>5. ASSUME Exists(row)
      PROVE  HasOrder(r) /\ (r.base < Current(r).version \/ verdict = Verdict(r))
  <2>1. HasOrder(r)
    BY <1>1, <1>2, <1>3, <1>4, <1>5 DEF HasOrder, Behind, Exists, Foreign
  <2>2. CASE row.version = Current(r).version
    BY <1>4, <1>5, <2>1, <2>2 DEF Behind, DecideOn, Verdict
  <2>3. CASE row.version # Current(r).version
    BY <1>2, <1>3, <1>4, <1>5, <2>1, <2>3 DEF Behind
  <2> QED  BY <2>1, <2>2, <2>3
<1>6. verdict.kind # "apply" => Exists(row)
  BY DEF DecideOn, Apply
<1>7. CASE verdict.kind = "apply" /\ Goto(h, "writing")
  BY <1>7, GotoEffect DEF Goto, Outcome, Typed, HandlersTyped, HandlerType
<1>8. CASE verdict.kind = "conflict" /\ RollBack(h, "conflicting", verdict.reason)
  <2>1. handler'[h].pc = "conflicting" /\ handler'[h].req = r
    BY <1>8 DEF RollBack, Typed, HandlersTyped, HandlerType
  <2>2. Doomed(r)
    BY <1>5, <1>6, <1>8 DEF Doomed
  <2>3. Doomed(r)'
    BY <1>1, <2>2, QuietTables, DoomedStable
  <2> QED  BY <2>1, <2>3 DEF Outcome
<1>9. CASE verdict.kind = "already-applied" /\ RollBack(h, "confirming", "none")
  <2>1. handler'[h].pc = "confirming" /\ handler'[h].req = r
    BY <1>9 DEF RollBack, Typed, HandlersTyped, HandlerType
  <2>2. HasOrder(r) /\ (r.base < Current(r).version \/ Verdict(r).kind # "apply")
    BY <1>5, <1>6, <1>9
  <2>3. (HasOrder(r) /\ (r.base < Current(r).version \/ Verdict(r).kind # "apply"))'
    <3>1. HasOrder(r)'
      BY <1>1, <2>2, QuietTables, HasOrderStable
    <3>2. r.base < Current(r)'.version \/ (Verdict(r)' = Verdict(r) /\ Current(r)' = Current(r))
      BY <1>1, <2>2, QuietTables, HasOrderStable
    <3> QED  BY <2>2, <3>1, <3>2
  <2> QED  BY <2>1, <2>3 DEF Outcome
<1> QED  BY <1>7, <1>8, <1>9 DEF DecideOnSnapshot

LEMMA EffectTold ==
    ASSUME Grounded, Grounded', NEW h \in Handlers, CreateOrder(h) \/ ApplyChange(h)
    PROVE  Outcome(h)'
<1> DEFINE r == handler[h].req
<1>1. PICK e \in outbox' : TakesEffect(r, e)
  BY CreateTakesEffect, ApplyTakesEffect DEF Grounded
<1>2. r.id \in MutationIds /\ handler[h].pc = "writing"
  BY RequestFacts DEF Grounded, Typed, HandlersTyped, CreateOrder, ApplyChange, Writable,
                      BumpSucceeds, At
<1>3. PICK row \in Row, held \in Held : Record(r, row, held) /\ Reply(h, "APPLIED", row, held)
  <2>1. CASE CreateOrder(h)
    <3> DEFINE row == [tenant |-> r.tenant, table |-> r.table, status |-> "OPEN",
                       version |-> 1, total |-> 0]
    <3>1. /\ r.order \in OrderIds /\ Record(r, row, lines[r.order])
          /\ Reply(h, "APPLIED", row, lines[r.order])
          /\ orders' = [orders EXCEPT ![r.order] = row]
      BY <2>1, CreateEffect DEF Grounded
    <3>2. row \in Row /\ lines[r.order] \in Held
      <4>1. row = orders'[r.order]
        BY <3>1 DEF Grounded, Typed, TablesTyped
      <4> QED  BY <3>1, <4>1 DEF Grounded, Typed, TablesTyped
    <3> QED  BY <3>1, <3>2
  <2>2. CASE ApplyChange(h)
    BY <2>2, ApplyEffect, NewRowFacts DEF Grounded
  <2> QED  BY <2>1, <2>2
<1>4. Becomes(h, "replied", row, held) /\ handler'[h].answer = "APPLIED"
  BY <1>2, <1>3, ReplyEffect DEF Grounded, Typed, Answers
<1>5. processed'[r.id].row = row
  <2>1. processed'[r.id] = [hash |-> RequestHash(r), row |-> row, lines |-> held]
    BY <1>2, <1>3 DEF Record, Grounded, Typed, TablesTyped
  <2> QED  BY <2>1
<1>6. row.version = e.version /\ row.tenant = r.tenant /\ row.version \in Nat
  BY <1>1, <1>3, <1>5, RowFacts DEF TakesEffect
<1>7. Acknowledged(h)'
  BY <1>1, <1>4, <1>6 DEF Acknowledged, TakesEffect, Becomes
<1> QED  BY <1>4, <1>6, <1>7 DEF Outcome, Becomes, Foreign

LEMMA GiveUpTold ==
    ASSUME Typed, Snapshots, NEW h \in Handlers,
           LoseCreation(h) \/ LoseVersionGuard(h) \/ LoseIdRace(h), NEW r, r = handler[h].req
    PROVE  Outcome(h)'
<1>1. handler[h].pc = "writing" /\ r \in Requests /\ UnchangedTables
  BY DEF LoseCreation, LoseVersionGuard, LoseIdRace, BumpSucceeds, At, Typed, HandlersTyped
<1>2. r.order \in OrderIds /\ r.base \in Nat /\ (r.type = "CREATE_ORDER" => r.base = 0)
  BY <1>1, RequestFacts, RequestsAssumption
<1>3. handler[h].row.version \in Nat /\ Current(r).version \in Nat
  BY <1>2, RowFacts DEF Typed, TablesTyped, HandlersTyped, HandlerType, Current
<1>4. CASE LoseCreation(h)
  <2>1. r.type = "CREATE_ORDER" /\ Exists(Current(r)) /\ r.base < Current(r).version
    BY <1>2, <1>3, <1>4 DEF LoseCreation, Current, Exists
  <2>2. CASE Refuse(h, "CROSS_TENANT_MUTATION")
    BY <1>1, <2>2, RefuseTold
  <2>3. ASSUME NEW pc \in {"confirming", "conflicting"}, NEW reason, RollBack(h, pc, reason),
               ~Foreign(Current(r), r)
        PROVE  Outcome(h)'
    <3>1. handler'[h].pc = pc /\ handler'[h].req = r
      BY <2>3 DEF RollBack, Typed, HandlersTyped, HandlerType
    <3>2. HasOrder(r) /\ Doomed(r)
      BY <1>2, <1>3, <2>1, <2>3 DEF HasOrder, Doomed, Foreign
    <3>3. HasOrder(r)' /\ Doomed(r)' /\ r.base < Current(r)'.version
      <4>1. HasOrder(r)' /\ Doomed(r)'
        BY <1>1, <3>2, QuietTables, HasOrderStable, DoomedStable
      <4>2. Current(r)' = Current(r)
        BY <1>1 DEF Current, UnchangedTables
      <4> QED  BY <2>1, <4>1, <4>2
    <3> QED  BY <3>1, <3>3 DEF Outcome
  <2> QED  BY <1>4, <2>2, <2>3 DEF LoseCreation, Current
<1>5. CASE LoseVersionGuard(h)
  <2>1. r.type # "CREATE_ORDER" /\ Current(r).version # r.base
    BY <1>5 DEF LoseVersionGuard, Current
  <2>2. Exists(handler[h].row) /\ ~Foreign(handler[h].row, r) /\ Behind(h)
    BY <1>1, <2>1 DEF Snapshots, Snapshot
  <2>3. Doomed(r)
    BY <1>2, <1>3, <2>1, <2>2 DEF Doomed, HasOrder, Behind, Foreign, Exists
  <2>4. Doomed(r)'
    BY <1>1, <2>3, QuietTables, DoomedStable
  <2>5. handler'[h].pc = "conflicting" /\ handler'[h].req = r
    BY <1>5 DEF LoseVersionGuard, RollBack, Typed, HandlersTyped, HandlerType
  <2> QED  BY <2>4, <2>5 DEF Outcome
<1>6. CASE LoseIdRace(h)
  <2>1. handler'[h].pc = "raced"
    BY <1>6 DEF LoseIdRace, RollBack, Typed, HandlersTyped, HandlerType
  <2> QED  BY <2>1 DEF Outcome
<1> QED  BY <1>4, <1>5, <1>6

LEMMA ConflictTold ==
    ASSUME Typed, ToldInv, NEW h \in Handlers,
           FindProcessed(h) \/ ReadCanonicalRow(h) \/ LogConflict(h), NEW r, r = handler[h].req
    PROVE  Outcome(h)'
<1>1. /\ handler[h].pc \in {"conflicting", "readingCanonical", "loggingConflict"}
      /\ r \in Requests
  BY DEF FindProcessed, ReadCanonicalRow, LogConflict, At, Typed, HandlersTyped
<1>2. r.order \in OrderIds /\ Doomed(r) /\ Outcome(h)
  BY <1>1, RequestFacts DEF ToldInv, Outcomes, Outcome
<1>3. CASE FindProcessed(h)
  <2>1. CASE OutcomeFor(h)
    BY <1>1, <1>3, <2>1, OutcomeForTold DEF FindProcessed, ToldInv
  <2>2. CASE ~Recorded(r.id) /\ Goto(h, "readingCanonical")
    <3>1. handler'[h].pc = "readingCanonical" /\ handler'[h].req = r
      BY <2>2 DEF Goto, Typed, HandlersTyped, HandlerType
    <3>2. \A e \in outbox : e.by # r.id
      BY <2>2 DEF ToldInv, EventsInv, EffectsRecorded
    <3>3. UnchangedTables
      BY <1>3 DEF FindProcessed
    <3>4. Doomed(r)'
      BY <1>1, <1>2, <3>3, QuietTables, DoomedStable
    <3>5. Refused(r)'
      BY <3>2, <3>3 DEF Refused, UnchangedTables
    <3> QED  BY <3>1, <3>4, <3>5 DEF Outcome
  <2> QED  BY <1>3, <2>1, <2>2 DEF FindProcessed
<1>4. CASE ReadCanonicalRow(h)
  <2>1. /\ handler'[h].pc = "loggingConflict" /\ handler'[h].req = r
        /\ handler'[h].row = orders[r.order]
    BY <1>4 DEF ReadCanonicalRow, Saw, Typed, HandlersTyped, HandlerType
  <2>2. UnchangedTables /\ handler[h].pc = "readingCanonical"
    BY <1>4 DEF ReadCanonicalRow, At
  <2>3. Doomed(r)'
    BY <1>1, <1>2, <2>2, QuietTables, DoomedStable
  <2>4. Refused(r)'
    BY <1>2, <2>2 DEF Outcome, Refused, UnchangedTables
  <2>5. ~Foreign(orders[r.order], r)
    BY <1>2 DEF Doomed, HasOrder, Foreign, Current
  <2> QED  BY <2>1, <2>3, <2>4, <2>5 DEF Outcome
<1>5. CASE LogConflict(h)
  <2>1. handler[h].row \in Row /\ lines[r.order] \in Held
    BY <1>2 DEF Typed, TablesTyped, HandlersTyped, HandlerType
  <2>2. Becomes(h, "replied", handler[h].row, lines[r.order]) /\ handler'[h].answer = "CONFLICT"
    BY <1>1, <1>5, <2>1, ReplyEffect DEF LogConflict, Typed, Answers
  <2>3. ~Foreign(handler[h].row, r)
    BY <1>2, <1>5 DEF Outcome, LogConflict, At
  <2> QED  BY <2>2, <2>3 DEF Outcome, Becomes
<1> QED  BY <1>3, <1>4, <1>5

LEMMA ConfirmTold ==
    ASSUME Typed, Typed', Evolves, Outcomes, NEW h \in Handlers, Confirm(h),
           NEW r, r = handler[h].req
    PROVE  Outcome(h)'
<1> DEFINE verdict == DecideOn(orders[r.order], lines[r.order], r)
<1>1. handler[h].pc = "confirming" /\ r \in Requests /\ r.order \in OrderIds
  BY RequestFacts DEF Confirm, At, Typed, HandlersTyped
<1>2. /\ HasOrder(r) /\ (r.base < Current(r).version \/ Verdict(r).kind # "apply")
  BY <1>1 DEF Outcomes, Outcome
<1>3. verdict = Verdict(r) /\ ~Foreign(orders[r.order], r)
  BY <1>2 DEF HasOrder, DecideOn, Verdict, Current, Foreign
<1>4. CASE verdict.kind = "already-applied" /\ Reply(h, "ALREADY_APPLIED", orders[r.order],
                                                     lines[r.order])
  <2>1. Becomes(h, "replied", orders[r.order], lines[r.order])
    BY <1>1, <1>4, ReplyEffect DEF Typed, TablesTyped, Answers
  <2>2. Acknowledged(h)'
    BY <1>4, <2>1 DEF Acknowledged, Becomes
  <2> QED  BY <1>3, <2>1, <2>2 DEF Outcome, Becomes
<1>5. ASSUME NEW reason, RollBack(h, "conflicting", reason), verdict.kind \in {"conflict", "apply"}
      PROVE  Outcome(h)'
  <2>1. handler'[h].pc = "conflicting" /\ handler'[h].req = r
    BY <1>5 DEF RollBack, Typed, HandlersTyped, HandlerType
  <2>2. Doomed(r)
    BY <1>2, <1>3, <1>5 DEF Doomed
  <2>3. Doomed(r)'
    BY <1>1, <2>2, DoomedStable DEF Typed
  <2> QED  BY <2>1, <2>3 DEF Outcome
<1> QED  BY <1>4, <1>5 DEF Confirm

LEMMA ReadTold ==
    ASSUME Typed, NEW h \in Handlers,
           \/ ReadOrder(h) \/ ReadLines(h) \/ Finish(h) \/ Crash(h)
           \/ \E r \in Requests : Receive(h, r)
    PROVE  Outcome(h)'
<1>1. handler'[h].pc \in {"readingLines", "checking", "idle", "reading"}
  BY DEF ReadOrder, ReadLines, Finish, Crash, Receive, Saw, Start, IdleHandler, FreshHandler,
         Typed, HandlersTyped, HandlerType
<1> QED  BY <1>1 DEF Outcome

LEMMA AnswerTold ==
    ASSUME Typed, RecordsTrue, NEW h \in Handlers,
           \/ RejectCrossTenant(h) \/ AnswerFromRecord(h) \/ OrderNotFound(h)
           \/ UnknownProduct(h) \/ PaymentKeyTaken(h) \/ AnswerRaced(h)
    PROVE  Outcome(h)'
<1>1. CASE AnswerFromRecord(h) \/ AnswerRaced(h)
  BY <1>1, OutcomeForTold DEF AnswerFromRecord, AnswerRaced, At
<1>2. CASE RejectCrossTenant(h) \/ OrderNotFound(h) \/ UnknownProduct(h) \/ PaymentKeyTaken(h)
  BY <1>2, RefuseTold DEF RejectCrossTenant, OrderNotFound, UnknownProduct, PaymentKeyTaken,
                          BumpSucceeds, At
<1> QED  BY <1>1, <1>2

LEMMA OutcomesStep ==
    ASSUME Grounded, Grounded', ToldInv, [Next]_vars
    PROVE  Outcomes'
<1>1. Evolves /\ Grows
  BY StepEvolves, GrowsStep
<1>2. CASE UNCHANGED vars
  BY <1>1, <1>2, OthersKeepOutcome DEF vars, Outcomes
<1>3. ASSUME NEW h \in Handlers, Step(h) \/ Crash(h) \/ \E r \in Requests : Receive(h, r)
      PROVE  Outcomes'
  <2>1. \A g \in Handlers \ {h} : handler'[g] = handler[g]
    BY <1>3, StepSound DEF Grounded, Sound
  <2>2. \A g \in Handlers \ {h} : Outcome(g)'
    BY <1>1, <2>1, OthersKeepOutcome
  <2>3. Outcome(h)'
    <3>1. CASE CreateOrder(h) \/ ApplyChange(h)
      BY <3>1, EffectTold
    <3>2. CASE DecideOnSnapshot(h)
      BY <3>2, DecideTold DEF Grounded
    <3>3. CASE LoseCreation(h) \/ LoseVersionGuard(h) \/ LoseIdRace(h)
      BY <3>3, GiveUpTold DEF Grounded
    <3>4. CASE FindProcessed(h) \/ ReadCanonicalRow(h) \/ LogConflict(h)
      BY <3>4, ConflictTold DEF Grounded
    <3>5. CASE Confirm(h)
      BY <1>1, <3>5, ConfirmTold DEF Grounded, ToldInv
    <3>6. CASE \/ RejectCrossTenant(h) \/ AnswerFromRecord(h) \/ OrderNotFound(h)
               \/ UnknownProduct(h) \/ PaymentKeyTaken(h) \/ AnswerRaced(h)
      BY <3>6, AnswerTold DEF Grounded, ToldInv
    <3>7. CASE \/ ReadOrder(h) \/ ReadLines(h) \/ Finish(h) \/ Crash(h)
               \/ \E r \in Requests : Receive(h, r)
      BY <3>7, ReadTold DEF Grounded
    <3> QED  BY <1>3, <3>1, <3>2, <3>3, <3>4, <3>5, <3>6, <3>7 DEF Step
  <2> QED  BY <2>2, <2>3 DEF Outcomes
<1> QED  BY <1>2, <1>3 DEF Next

(* Who writes the conflict log, and who records a result without an effect. *)
LEMMA WhoWrites ==
    ASSUME [Next]_vars
    PROVE  /\ conflictLog' = conflictLog \/ \E h \in Handlers : LogConflict(h)
           /\ processed' = processed
                 \/ \E h \in Handlers : CreateOrder(h) \/ ApplyChange(h) \/ Confirm(h)
<1>1. CASE UNCHANGED vars
  BY <1>1 DEF vars
<1>2. ASSUME NEW h \in Handlers, Step(h) \/ Crash(h) \/ \E r \in Requests : Receive(h, r),
             ~LogConflict(h)
      PROVE  conflictLog' = conflictLog
  BY <1>2 DEF Step, UnchangedTables, Crash, Receive, ReadOrder, ReadLines, RejectCrossTenant,
              AnswerFromRecord, OrderNotFound, DecideOnSnapshot, CreateOrder, LoseCreation,
              LoseVersionGuard, UnknownProduct, PaymentKeyTaken, ApplyChange, LoseIdRace,
              AnswerRaced, FindProcessed, ReadCanonicalRow, Confirm, Finish
<1>3. ASSUME NEW h \in Handlers, Step(h) \/ Crash(h) \/ \E r \in Requests : Receive(h, r),
             ~CreateOrder(h), ~ApplyChange(h), ~Confirm(h)
      PROVE  processed' = processed
  BY <1>3 DEF Step, UnchangedTables, Crash, Receive, ReadOrder, ReadLines, RejectCrossTenant,
              AnswerFromRecord, OrderNotFound, DecideOnSnapshot, LoseCreation,
              LoseVersionGuard, UnknownProduct, PaymentKeyTaken, LoseIdRace,
              AnswerRaced, FindProcessed, ReadCanonicalRow, LogConflict, Finish
<1> QED  BY <1>1, <1>2, <1>3 DEF Next

LEMMA RecordsStep ==
    ASSUME Grounded, Grounded', ToldInv, [Next]_vars
    PROVE  RecordsTrue'
<1> SUFFICES ASSUME NEW id \in MutationIds, Recorded(id)'
             PROVE  RecordTrue(id)'
  BY DEF RecordsTrue
<1>1. Grows
  BY GrowsStep
<1>2. CASE Recorded(id)
  <2>1. processed'[id] = processed[id]
    BY <1>1, <1>2 DEF Grows
  <2>2. PICK r \in Requests : /\ r.id = id /\ processed[id].hash = RequestHash(r)
                              /\ ~Foreign(processed[id].row, r)
                              /\ Holds(processed[id].row, processed[id].lines, r)
    BY <1>2 DEF ToldInv, RecordsTrue, RecordTrue
  <2>3. \/ \E e \in outbox' : /\ e.by = r.id /\ e.order = r.order
                               /\ e.version <= processed'[id].row.version
        \/ DecideOn(processed'[id].row, processed'[id].lines, r).kind = "already-applied"
    BY <1>1, <2>1, <2>2 DEF Holds, Grows
  <2> QED  BY <2>1, <2>2, <2>3 DEF RecordTrue, Holds
<1>3. ASSUME ~Recorded(id), NEW h \in Handlers, CreateOrder(h) \/ ApplyChange(h)
      PROVE  RecordTrue(id)'
  <2> DEFINE r == handler[h].req
  <2>1. PICK e \in outbox' : TakesEffect(r, e)
    BY <1>3, CreateTakesEffect, ApplyTakesEffect DEF Grounded
  <2>2. r \in Requests /\ id = r.id
    <3>1. r \in Requests
      BY <1>3, CreateEffect, ApplyEffect DEF Grounded
    <3>2. \A other \in MutationIds \ {r.id} : processed'[other] = processed[other]
      BY <1>3, CreateTakesEffect, ApplyTakesEffect DEF Grounded
    <3> QED  BY <1>3, <3>1, <3>2 DEF Recorded
  <2>3. processed'[id].row.version \in Nat
    BY RowFacts DEF Grounded, Typed, TablesTyped, RecordType
  <2>4. /\ processed'[id].hash = RequestHash(r)
        /\ ~Foreign(processed'[id].row, r)
        /\ e.by = r.id /\ e.order = r.order /\ e.version <= processed'[id].row.version
    BY <2>1, <2>2, <2>3 DEF TakesEffect, Foreign
  <2>5. \E s \in Requests : /\ s.id = id /\ processed'[id].hash = RequestHash(s)
                            /\ ~Foreign(processed'[id].row, s)
                            /\ \E f \in outbox' : /\ f.by = s.id /\ f.order = s.order
                                                  /\ f.version <= processed'[id].row.version
    BY <2>1, <2>2, <2>4
  <2> QED  BY <2>5 DEF RecordTrue, Holds
<1>4. ASSUME ~Recorded(id), NEW h \in Handlers, Confirm(h), processed' # processed
      PROVE  RecordTrue(id)'
  <2> DEFINE r == handler[h].req
             row == orders[r.order]
             held == lines[r.order]
  <2>1. handler[h].pc = "confirming" /\ r \in Requests /\ r.id \in MutationIds
    BY <1>4, RequestFacts DEF Confirm, At, Grounded, Typed, HandlersTyped
  <2>2. Record(r, row, held) /\ DecideOn(row, held, r).kind = "already-applied"
    BY <1>4 DEF Confirm
  <2>3. ~Foreign(row, r)
    BY <2>1 DEF ToldInv, Outcomes, Outcome, HasOrder, Current, Foreign
  <2>4. /\ processed'[r.id] = [hash |-> RequestHash(r), row |-> row, lines |-> held]
        /\ \A other \in MutationIds \ {r.id} : processed'[other] = processed[other]
    BY <2>1, <2>2 DEF Record, Grounded, Typed, TablesTyped
  <2>5. id = r.id
    BY <1>4, <2>4 DEF Recorded
  <2>6. /\ processed'[id].hash = RequestHash(r) /\ processed'[id].row = row
        /\ processed'[id].lines = held
    BY <2>4, <2>5
  <2>7. \E s \in Requests : /\ s.id = id /\ processed'[id].hash = RequestHash(s)
                            /\ ~Foreign(processed'[id].row, s)
                            /\ DecideOn(processed'[id].row, processed'[id].lines, s).kind
                                 = "already-applied"
    BY <2>1, <2>2, <2>3, <2>5, <2>6
  <2> QED  BY <2>7 DEF RecordTrue, Holds
<1>5. CASE processed' = processed
  BY <1>2, <1>5 DEF Recorded
<1> QED  BY <1>2, <1>3, <1>4, <1>5, WhoWrites

LEMMA LogStep ==
    ASSUME Grounded, Grounded', ToldInv, [Next]_vars
    PROVE  LogDoomed'
<1> SUFFICES ASSUME NEW r \in conflictLog' PROVE Doomed(r)' /\ Refused(r)'
  BY DEF LogDoomed
<1>1. Evolves /\ Grows /\ EventsInv /\ Typed /\ TablesTyped'
  BY StepEvolves, GrowsStep DEF ToldInv, Grounded, Typed
<1>2. r \in Requests /\ Doomed(r) /\ Refused(r)
  <2>1. CASE r \in conflictLog
    BY <2>1 DEF ToldInv, LogDoomed, Grounded, Typed, TablesTyped
  <2>2. CASE r \notin conflictLog
    <3>1. PICK h \in Handlers : LogConflict(h)
      BY <2>2, WhoWrites
    <3>2. r = handler[h].req /\ handler[h].pc = "loggingConflict"
      BY <2>2, <3>1 DEF LogConflict, At
    <3> QED  BY <3>2 DEF ToldInv, Outcomes, Outcome, Grounded, Typed, HandlersTyped
  <2> QED  BY <2>1, <2>2
<1>3. Doomed(r)'
  BY <1>1, <1>2, DoomedStable
<1>4. Refused(r)'
  BY <1>1, <1>2, RefusedStable
<1> QED  BY <1>3, <1>4

LEMMA OwnedStep ==
    ASSUME Grounded, Grounded', ToldInv, [Next]_vars
    PROVE  EventsOwned'
<1> SUFFICES ASSUME NEW e \in outbox' PROVE e.tenant = orders'[e.order].tenant
  BY DEF EventsOwned
<1>1. Evolves /\ Grows
  BY StepEvolves, GrowsStep
<1>2. CASE e \in outbox
  <2>1. e.order \in OrderIds /\ e.tenant = orders[e.order].tenant /\ e.tenant \in Tenants
    BY <1>2 DEF ToldInv, EventsOwned, Grounded, Typed, TablesTyped
  <2>2. Exists(orders[e.order])
    <3>1. orders[e.order] \in Row /\ NULL \notin Tenants
      BY <2>1, RequestsAssumption DEF Grounded, Typed, TablesTyped
    <3> QED  BY <2>1, <3>1, RowFacts DEF NoRow
  <2> QED  BY <1>1, <2>1, <2>2 DEF Evolves
<1>3. CASE e \notin outbox
  BY <1>1, <1>3 DEF Grows, TakesEffect
<1> QED  BY <1>2, <1>3

LEMMA ToldAlways == Spec => [](Grounded /\ ToldInv)
<1>1. Init => ToldInv
  <2> SUFFICES ASSUME Init PROVE ToldInv
    OBVIOUS
  <2>1. /\ outbox = {} /\ conflictLog = {}
        /\ \A id \in MutationIds : processed[id] = NoRecord
        /\ \A h \in Handlers : handler[h] = IdleHandler
    BY DEF Init
  <2>2. EventsInv
    <3>1. \A o \in OrderIds : orders[o].version = 0
      BY DEF Init, NoRow
    <3>2. 1 .. 0 = {}
      OBVIOUS
    <3> QED  BY <2>1, <3>1, <3>2 DEF EventsInv, EffectsRecorded, OutboxFollowsVersions
  <2>3. Outcomes
    BY <2>1 DEF Outcomes, Outcome, IdleHandler, FreshHandler
  <2> QED  BY <2>1, <2>2, <2>3 DEF ToldInv, EventsOwned, RecordsTrue, Recorded, LogDoomed
<1>2. Grounded /\ Grounded' /\ ToldInv /\ [Next]_vars => ToldInv'
  BY EventsStep, OwnedStep, RecordsStep, LogStep, OutcomesStep DEF ToldInv
<1> QED  BY <1>1, <1>2, GroundedAlways, PTL DEF Spec

(* A mutation in the conflict log never had an effect and never will. *)
THEOREM ConflictsHadNoEffect == Spec => []ConflictMeansNoEffect
<1>1. ToldInv => ConflictMeansNoEffect
  BY DEF ToldInv, LogDoomed, Refused, ConflictMeansNoEffect
<1> QED  BY <1>1, ToldAlways, PTL

(* An APPLIED or ALREADY_APPLIED answer is true of the order it carries. *)
THEOREM AcknowledgementsAreTrue == Spec => []AcknowledgedIsTrue
<1>1. ToldInv => AcknowledgedIsTrue
  BY DEF ToldInv, Outcomes, Outcome, Acknowledged, AcknowledgedIsTrue
<1> QED  BY <1>1, ToldAlways, PTL

(* No restaurant changes or is shown another's order. *)
THEOREM TenantsAreIsolated == Spec => []TenantIsolation
<1>1. ToldInv => TenantIsolation
  BY DEF ToldInv, EventsOwned, Outcomes, Outcome, TenantIsolation
<1> QED  BY <1>1, ToldAlways, PTL
=============================================================================
