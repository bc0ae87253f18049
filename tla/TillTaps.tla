------------------------------ MODULE TillTaps ------------------------------
(***************************************************************************)
(* What the queue of TerminalSync does to the quantity of one line: adds   *)
(* and the + and - buttons of the till (stepQuantity in order.ts), whose   *)
(* mutations carry the absolute quantity the projection has just then      *)
(* (project-queue.ts), against the arithmetic of the server                *)
(* (mutation-handler.ts).                                                  *)
(*                                                                         *)
(* A snapshot is known by its version, so the quantities an order has had  *)
(* on the server, version by version, say what every snapshot holds.  The  *)
(* removal a - makes of the last one is left out.                          *)
(***************************************************************************)
EXTENDS TerminalSync, FiniteSets

VARIABLES
    quantities,     \* server: the quantity at each version of an order
    wants,          \* payload of each intent as it was formed: what it does to the
                    \* quantity, and the version it is based on
    blurred         \* history: orders with a step planned over a snapshot that was old, or
                    \* that had a mutation of the queue already

tapVars == <<quantities, wants, blurred>>

Taps == {"add", "plus", "minus"}

Nothing == [tap |-> "none", n |-> 0, base |-> 0]

TapInit ==
    /\ quantities = [o \in Orders |-> <<>>]
    /\ wants = [i \in Intents |-> Nothing]
    /\ blurred = {}

(* The insert ... on conflict do update, and the update of a line.         *)
After(want, q) ==
    CASE want.tap = "add" -> q + 1
      [] want.tap \in {"plus", "minus"} -> IF q > 0 THEN want.n ELSE q
      [] want.tap = "none" -> q

(* What the order on screen holds, before the queue is folded onto it. *)
ShownQuantity == IF shown = 0 THEN 0 ELSE quantities[current][shown]

(* Faulty variant of ProjectedQuantity: the rendered line is read, as the  *)
(* template used to do.                                                    *)
RenderedQuantity == ShownQuantity

(* projectQueue, as far as the line goes: the line of the first n intents. *)
ProjectedQuantity ==
    LET Folded[n \in 0..MaxIntents] ==
            IF n = 0 THEN ShownQuantity
            ELSE IF n \in Queued(mirror, current) THEN After(wants[n], Folded[n - 1])
            ELSE Folded[n - 1]
    IN  Folded[MaxIntents]

(* The projection folds a mutation that the snapshot has already.          *)
FoldedTwice == \E i \in Queued(mirror, current) : mirror[i].base < shown

(* The disk has a later snapshot than the screen.                          *)
ScreenIsOld == shown < cached[current]

(* The plan of a command, made inside its link of the chain. *)
Planned(tap) ==
    CASE tap = "add"   -> [tap |-> tap, n |-> 1, base |-> Projected]
      [] tap = "plus"  -> [tap |-> tap, n |-> ProjectedQuantity + 1, base |-> Projected]
      [] tap = "minus" -> [tap |-> tap, n |-> ProjectedQuantity - 1, base |-> Projected]

(* stepQuantity plans nothing on a line the order does not have. *)
Tap(tap) ==
    /\ Command("change")
    /\ tap = "plus" => ProjectedQuantity > 0
    /\ tap = "minus" => ProjectedQuantity > 1
    /\ wants' = [wants EXCEPT ![Len(intents) + 1] = Planned(tap)]
    /\ blurred' = IF (FoldedTwice \/ ScreenIsOld) /\ tap # "add" THEN blurred \cup {current} ELSE blurred
    /\ UNCHANGED quantities

QuantityNow(o) == IF version[o] = 0 THEN 0 ELSE quantities[o][version[o]]

(* The line after a mutation, if it took effect. *)
Counted(req) ==
    LET o == OrderOf(req.intent) IN
    quantities' = IF version'[o] = version[o] THEN quantities
                  ELSE [quantities EXCEPT ![o] = Append(@, After(wants[req.intent], QuantityNow(o)))]

ServeCounted(c) == Serve(c) /\ Counted(call[c].req) /\ UNCHANGED <<wants, blurred>>

ServeLooseCounted(req) == ServeLoose(req) /\ Counted(req) /\ UNCHANGED <<wants, blurred>>

(* The other terminal adds one. *)
OtherAdds(o) ==
    /\ OtherTerminal(o)
    /\ quantities' = [quantities EXCEPT ![o] = Append(@, QuantityNow(o) + 1)]
    /\ UNCHANGED <<wants, blurred>>

(* Everything that neither makes a plan nor reaches the server. *)
Uncounted ==
    \/ \E c \in Callers : TakeCanonical(c) \/ DeleteRow(c) \/ HaltQueue(c) \/ Lose(c)
    \/ \E o \in Orders : CreateOrder(o) \/ FocusOrder(o)
    \/ \E r \in Rebases : RebaseHalted(r) \/ Rebase(r)
    \/ Trigger \/ Pass \/ Hydrate \/ Visit
    \/ Clear \/ DiscardHalted
    \/ AskOrder \/ TakeOrder \/ Reload

TapNext ==
    \/ \E tap \in Taps : Tap(tap)
    \/ \E c \in Callers : ServeCounted(c)
    \/ \E req \in loose : ServeLooseCounted(req)
    \/ \E o \in Orders : OtherAdds(o)
    \/ Uncounted /\ UNCHANGED tapVars

TapSpec == Init /\ TapInit /\ [][TapNext]_<<vars, tapVars>>
----------------------------------------------------------------------------
(* Properties *)

TapsOf(o, kinds) == {i \in Formed : OrderOf(i) = o /\ wants[i].tap \in kinds}

OwnOf(o) == {i \in Formed : OrderOf(i) = o}

(* Each mutation of this terminal took effect under the id it was formed   *)
(* with; what else happened to the order are the adds of the other one.    *)
AsFormed(o) == \A i \in OwnOf(o) : effects[i] = 1 /\ minted[i] = 1

AddedUp(o) ==
    QuantityNow(o) + Cardinality(TapsOf(o, {"minus"}))
        = Cardinality(TapsOf(o, {"add", "plus"})) + version[o] - Cardinality(OwnOf(o))

(* Taps at rush speed add up: whatever was lost, reloaded or sent again,   *)
(* the server holds what the operator tapped and what the other terminal   *)
(* added, though a step says how many and not how many more (stepQuantity, *)
(* nextBaseVersion).  Excepted is a step planned over a mutation that was  *)
(* counted twice, see EveryTapCounts, or over a snapshot that a hydration  *)
(* had read before the disk had a later one, and an order that a hydration *)
(* put back on the screen, see HydrationKeepsTheScreen.                    *)
TapsAddUp == \A o \in Orders \ (blurred \cup strayed) : AsFormed(o) => AddedUp(o)

(* The comment on stepQuantity: two quick + do not end as one, because the *)
(* line is read from the projection inside the serialized link, which by   *)
(* then includes every earlier tap.                                        *)
EveryTapCounts == \A o \in Orders : AsFormed(o) => AddedUp(o)
=============================================================================
