---------------------------- MODULE OrderDomain ----------------------------
(***************************************************************************)
(* The pure rules of the system: the order lifecycle (packages/domain/src/ *)
(* status.ts) and decide(), the one place that answers "may this mutation  *)
(* apply to the order as it stands?" (packages/domain/src/decide.ts).      *)
(*                                                                         *)
(* A view of an order is a record with at least the fields table, status   *)
(* and lines, where lines[p] is the quantity of product p and 0 means the  *)
(* order has no line for it.  A command is a record with the fields type,  *)
(* table, product and quantity, of which each type reads its own.          *)
(***************************************************************************)
EXTENDS Naturals

Statuses == {"OPEN", "SENT_TO_KITCHEN", "PREPARING", "READY", "PAID", "CANCELLED"}

AllowedTransitions ==
    [ OPEN            |-> {"SENT_TO_KITCHEN", "PAID", "CANCELLED"},
      SENT_TO_KITCHEN |-> {"PREPARING", "CANCELLED"},
      PREPARING       |-> {"READY", "CANCELLED"},
      READY           |-> {"PAID", "CANCELLED"},
      PAID            |-> {},
      CANCELLED       |-> {} ]

IsValidTransition(from, to) == to \in AllowedTransitions[from]

IsTerminalStatus(status) == AllowedTransitions[status] = {}

MutationTypes ==
    {"CREATE_ORDER", "ADD_ITEM", "REMOVE_ITEM", "CHANGE_QUANTITY",
     "SEND_TO_KITCHEN", "START_PREPARING", "MARK_READY", "PAY", "CANCEL"}

ItemMutations == {"ADD_ITEM", "REMOVE_ITEM", "CHANGE_QUANTITY"}

(* The three answers of decide(), as one shape: "next" is the status an    *)
(* applied mutation leaves the order in, "reason" why it is refused.       *)
Apply(next)      == [kind |-> "apply", next |-> next, reason |-> "none"]
AlreadyApplied   == [kind |-> "already-applied", next |-> "none", reason |-> "none"]
Conflict(reason) == [kind |-> "conflict", next |-> "none", reason |-> reason]

DecideCreate(order, table) ==
    IF order.table = table THEN AlreadyApplied ELSE Conflict("ORDER_ALREADY_EXISTS")

DecideCancel(status) ==
    CASE status = "CANCELLED" -> AlreadyApplied
      [] status = "PAID"      -> Conflict("ORDER_ALREADY_PAID")
      [] OTHER                -> Apply("CANCELLED")

(* Item changes are refused once the kitchen has the order. Removing a     *)
(* line that is not there is a repeat; changing one is a conflict.         *)
DecideItemChange(order, cmd) ==
    LET held == order.lines[cmd.product] > 0 IN
    IF order.status # "OPEN" THEN Conflict("ORDER_ALREADY_SENT_TO_KITCHEN")
    ELSE IF cmd.type = "ADD_ITEM" \/ held THEN Apply(order.status)
    ELSE IF cmd.type = "REMOVE_ITEM" THEN AlreadyApplied
    ELSE Conflict("ITEM_NOT_IN_ORDER")

DecideTransition(from, to) ==
    IF IsValidTransition(from, to) THEN Apply(to) ELSE Conflict("INVALID_STATUS_TRANSITION")

DecideSend(status) ==
    IF status = "OPEN" THEN Apply("SENT_TO_KITCHEN") ELSE Conflict("ORDER_ALREADY_SENT_TO_KITCHEN")

(* Why an order in a terminal status refuses everything but CANCEL. *)
BlockingReason == [CANCELLED |-> "ORDER_CANCELLED", PAID |-> "ORDER_ALREADY_PAID"]

DecideLive(order, cmd) ==
    CASE cmd.type \in ItemMutations     -> DecideItemChange(order, cmd)
      [] cmd.type = "SEND_TO_KITCHEN"   -> DecideSend(order.status)
      [] cmd.type = "START_PREPARING"   -> DecideTransition(order.status, "PREPARING")
      [] cmd.type = "MARK_READY"        -> DecideTransition(order.status, "READY")
      [] cmd.type = "PAY"               -> DecideTransition(order.status, "PAID")

(* decide() for an order that exists. CANCEL is answered before the        *)
(* terminal statuses are refused.                                          *)
Decide(order, cmd) ==
    CASE cmd.type = "CREATE_ORDER" -> DecideCreate(order, cmd.table)
      [] cmd.type = "CANCEL"       -> DecideCancel(order.status)
      [] OTHER -> IF IsTerminalStatus(order.status)
                  THEN Conflict(BlockingReason[order.status])
                  ELSE DecideLive(order, cmd)
=============================================================================
