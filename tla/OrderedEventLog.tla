-------------------------- MODULE OrderedEventLog --------------------------
(***************************************************************************)
(* What the publisher promises to the readers of the topic, without        *)
(* workers, leases, retries or a broker: each order's events appear in     *)
(* version order, and one is left behind only after it was given up (dead  *)
(* lettered), after which its successors may pass it.                      *)
(***************************************************************************)
EXTENDS Naturals

CONSTANTS
    Orders,
    LastVersion     \* how many events an order has at most

VARIABLES
    committed,      \* per order, how many events it has
    delivered,      \* the events with a record on the topic
    abandoned       \* the events that were ever given up

vars == <<committed, delivered, abandoned>>

Events == Orders \X (1 .. LastVersion)

Earlier(e) == {f \in Events : f[1] = e[1] /\ f[2] < e[2]}

Exists(e) == e[2] <= committed[e[1]]

MayFollow(e) == Earlier(e) \subseteq delivered \cup abandoned

Append(o) ==
    /\ committed[o] < LastVersion
    /\ committed' = [committed EXCEPT ![o] = @ + 1]
    /\ UNCHANGED <<delivered, abandoned>>

Deliver(e) ==
    /\ Exists(e) /\ MayFollow(e)
    /\ delivered' = delivered \cup {e}
    /\ UNCHANGED <<committed, abandoned>>

Abandon(e) ==
    /\ Exists(e) /\ MayFollow(e)
    /\ abandoned' = abandoned \cup {e}
    /\ UNCHANGED <<committed, delivered>>

Init ==
    /\ committed = [o \in Orders |-> 0]
    /\ delivered = {}
    /\ abandoned = {}

Next ==
    \/ \E o \in Orders : Append(o)
    \/ \E e \in Events : Deliver(e) \/ Abandon(e)

Spec == Init /\ [][Next]_vars
=============================================================================
