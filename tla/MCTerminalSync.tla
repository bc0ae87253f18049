--------------------------- MODULE MCTerminalSync ---------------------------
(***************************************************************************)
(* The terminal in six settings.  "stays" has two orders and a screen that *)
(* is never left.  The others have one order: "presses" leaves the screen  *)
(* and nothing goes wrong, "crosses" does so with a third mutation, "logs" *)
(* has the log of conflicts and a screen that is never left, "taps" has    *)
(* the quantities, "leaves" has the log, the visit and the faults together.*)
(***************************************************************************)
EXTENDS ConflictLog, TillTaps, TLC

CONSTANTS o1, o2, Settings

VARIABLE setting

OneOrder(length) == Len(intents) <= length /\ \A i, j \in Formed : OrderOf(i) = OrderOf(j)

HasLog == setting \in {"logs", "leaves"}

(* What the bounds of the configuration leave to each setting. *)
Within ==
    /\ setting \in {"stays", "logs"} => visit.count = 0
    /\ setting # "logs" => changes <= 1
    /\ setting = "stays"   => /\ OneOrder(2) \/ \A i \in Formed : minted[i] <= 2
                              /\ OneOrder(3) \/ changes + faults <= 1
    /\ setting = "presses" => OneOrder(2) /\ faults = 0
    /\ setting = "crosses" => OneOrder(3) /\ faults = 0 /\ \A i \in Formed : minted[i] <= 2
    /\ setting = "taps"    => visit.count = 0 /\ OneOrder(3)
                              /\ \A i \in Formed : minted[i] <= 1
    /\ setting = "logs"    => changes + faults <= 2
    /\ HasLog => OneOrder(2) /\ \A i \in Formed : /\ minted[i] <= 2
                                           /\ intents[i].stored
                                           /\ intents[i].kind # "invalid"

(* Where no tap is counted TapsAddUp excepts every order. *)
MCInit ==
    /\ Init /\ LogInit /\ setting \in Settings
    /\ IF setting = "taps" THEN TapInit
       ELSE /\ quantities = [o \in Orders |-> <<>>]
            /\ wants = [i \in Intents |-> Nothing]
            /\ blurred = Orders

MCNext ==
    /\ IF HasLog THEN LogNext /\ UNCHANGED tapVars
       ELSE IF setting = "taps" THEN TapNext /\ UNCHANGED logVars
       ELSE Next /\ UNCHANGED <<logVars, tapVars>>
    /\ UNCHANGED setting
    /\ Within'

MCSpec == MCInit /\ [][MCNext]_<<vars, logVars, tapVars, setting>>

OrderSymmetry == Permutations(Orders)
=============================================================================
