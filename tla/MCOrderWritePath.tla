-------------------------- MODULE MCOrderWritePath --------------------------
(***************************************************************************)
(* OrderWritePath on two small pools of requests.  A behaviour draws its   *)
(* requests from one of them; every request of the pool may arrive at any  *)
(* time, any number of times, in any order.                                *)
(***************************************************************************)
EXTENDS OrderWritePath, FiniteSetsExt, TLC

HandlerSymmetry == Permutations(Handlers)

Price(p) == 5
MCLinesTotal(held) == MapThenSumSet(LAMBDA p : held[p] * Price(p), DOMAIN held)

CONSTANTS h1, h2, x, y, t1, t2, o1, o2, tea, ghost, m1, m2, m3, m4, m5, m6, m7, m8, m9, m10,
          n1, n2, n3, n4, n5, n6, n7

Req(id, o, tenant, type, table, p, q, base) ==
    [id |-> id, order |-> o, tenant |-> tenant, type |-> type, table |-> table,
     product |-> p, quantity |-> q, base |-> base]

Create(id, o, tenant, table)  == Req(id, o, tenant, "CREATE_ORDER", table, NULL, 0, 0)
Item(id, o, type, p, q, base) == Req(id, o, x, type, NULL, p, q, base)
Move(id, o, type, base)       == Req(id, o, x, type, NULL, NULL, 0, base)

(* One order through its life: two terminals race item changes, payment    *)
(* and cancellation against the kitchen's transitions.                     *)
LifecyclePool ==
    { Create(m1, o1, x, t1),
      Item(m2, o1, "ADD_ITEM", tea, 1, 1),
      Item(m3, o1, "REMOVE_ITEM", tea, 0, 1),
      Item(m4, o1, "CHANGE_QUANTITY", tea, 3, 2),
      Move(m5, o1, "SEND_TO_KITCHEN", 2),
      Move(m6, o1, "PAY", 2),
      Move(m7, o1, "CANCEL", 2),
      Move(m8, o1, "START_PREPARING", 3),
      Move(m9, o1, "MARK_READY", 4),
      Move(m10, o1, "PAY", 5) }

(* Identities: two restaurants pick one order id, a creation is repeated   *)
(* under its id and under new ones, and mutation ids are used twice, across *)
(* contents and across orders.                                             *)
IdentityPool ==
    { Create(n1, o1, x, t1),
      Create(n2, o1, x, t1),
      Create(n2, o2, x, t1),
      Create(n3, o1, y, t1),
      Create(n4, o1, x, t2),
      Item(n5, o1, "REMOVE_ITEM", tea, 0, 1),
      Move(n5, o2, "CANCEL", 1),
      Item(n6, o2, "ADD_ITEM", ghost, 1, 1),
      Move(n7, o1, "PAY", 1),
      Move(n7, o2, "PAY", 1) }

AllRequests == LifecyclePool \cup IdentityPool

VARIABLE pool

MCInit == Init /\ pool \in {LifecyclePool, IdentityPool}

MCNext ==
    /\ \E h \in Handlers : Step(h) \/ Crash(h) \/ \E r \in pool : Receive(h, r)
    /\ UNCHANGED pool

MCSpec == MCInit /\ [][MCNext]_<<vars, pool>>
=============================================================================
