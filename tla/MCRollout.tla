------------------------------- MODULE MCRollout -------------------------------
(* Rollout with one screen, two requests at once and one operator.  The    *)
(* restaurant is out of reach of a rollout of 10 per cent.                 *)
EXTENDS Rollout, TLC

CONSTANTS r1, d1

Position   == r1 :> 60
TenPerCent == [enabled |-> NULL, percent |-> 10]
Everyone   == [enabled |-> TRUE, percent |-> 100]
Toggles    == {TenPerCent, Everyone}
=============================================================================
