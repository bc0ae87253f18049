------------------------ MODULE MCKitchenProjection ------------------------
(* KitchenProjection on two workers and the order of a table that the      *)
(* kitchen starts on before it is cancelled.                               *)
EXTENDS KitchenProjection, TLC

CONSTANTS o1, c1, c2

ConsumerSymmetry == Permutations(Consumers)

Lives ==
    [o \in Orders |-> <<"OrderCreated", "OrderSentToKitchen", "OrderPreparing", "OrderCancelled">>]
=============================================================================
