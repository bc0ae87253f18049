---------------------------- MODULE TicketBoard ----------------------------
(***************************************************************************)
(* What the kitchen consumer promises to whoever prints its tickets: an    *)
(* order gets at most one ticket, a cancelled one stays cancelled, and the *)
(* committed creation of a ticket is followed by at most one attempt to    *)
(* enqueue it, which a crash may swallow.                                  *)
(***************************************************************************)
CONSTANTS Orders

VARIABLES
    ticket,         \* per order: none, live or cancelled
    announcing      \* orders whose ticket was just committed, to be enqueued next

vars == <<ticket, announcing>>

Create(o) ==
    /\ ticket[o] = "none"
    /\ ticket' = [ticket EXCEPT ![o] = "live"]
    /\ announcing' = announcing \cup {o}

Cancel(o) ==
    /\ ticket[o] = "live"
    /\ ticket' = [ticket EXCEPT ![o] = "cancelled"]
    /\ UNCHANGED announcing

(* The enqueue was tried, or will never be. *)
Announced(o) ==
    /\ o \in announcing
    /\ announcing' = announcing \ {o}
    /\ UNCHANGED ticket

Init ==
    /\ ticket = [o \in Orders |-> "none"]
    /\ announcing = {}

Next == \E o \in Orders : Create(o) \/ Cancel(o) \/ Announced(o)

Spec == Init /\ [][Next]_vars
=============================================================================
