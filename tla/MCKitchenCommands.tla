------------------------- MODULE MCKitchenCommands -------------------------
(***************************************************************************)
(* A display, two orders and two API instances, in five scenarios that     *)
(* leave each other's part out: a rail with broadcasts that overtake each  *)
(* other, one with two tickets, a display that is reloaded and left while  *)
(* its commands are lost and nothing is broadcast, of one order and with   *)
(* two versions of it, and a command amid broadcasts.                      *)
(***************************************************************************)
EXTENDS KitchenCommands, TLC

CONSTANTS o1, o2, i1, i2

Scenario(instances, n, m, f, presses, k, v) ==
    [instances |-> instances, versions |-> (o1 :> n @@ o2 :> m), faults |-> f,
     commands |-> presses, calls |-> k, visits |-> v]

MCScenarios ==
    { Scenario({i1, i2}, 3, 0, 1, 0, 0, 0),
      Scenario({i1},     2, 1, 0, 0, 0, 0),
      Scenario({},       1, 0, 1, 2, 2, 1),
      Scenario({},       2, 0, 1, 1, 1, 1),
      Scenario({i1},     2, 0, 0, 1, 1, 1) }

DoubtScenario == { Scenario({}, 1, 0, 1, 3, 2, 1) }
=============================================================================
