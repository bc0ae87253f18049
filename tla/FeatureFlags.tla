----------------------------- MODULE FeatureFlags -----------------------------
(***************************************************************************)
(* The feature flag of apps/api/src/modules/config: its row in the table,  *)
(* the versioned Redis cache in front of it, and the requests that read it *)
(* (GET /api/config, GET /api/debug/flags) or write it (POST               *)
(* /api/debug/flags/:key).  There is one key, realtime.websocket_push.     *)
(*                                                                         *)
(* The writes of the row are numbered, and rows that were read carry in    *)
(* asOf the number of the write they show.                                 *)
(***************************************************************************)
EXTENDS Naturals, FiniteSets

CONSTANTS
    Handlers,       \* requests the API serves at once
    Patches,        \* what operators change: the switch, the percentage, or both
    Bucket,         \* flagBucket: the position of each restaurant in the rollout
    MaxWrites,      \* bound on the toggles
    MaxOutages,     \* bound on the Redis commands that fail or come late
    NULL            \* no row, no version, or a field a patch does not name

Row    == [enabled: BOOLEAN, percent: 0..100]
Seeded == [enabled |-> TRUE, percent |-> 100]

ASSUME FlagsAssumption ==
    /\ Patches \subseteq [enabled: BOOLEAN \cup {NULL}, percent: 0..100 \cup {NULL}]
    /\ {MaxWrites, MaxOutages} \subseteq Nat
    /\ NULL \notin Nat \cup BOOLEAN

VARIABLES
    row,            \* feature_flags: the row, NULL in a database seeded without it
    payload,        \* Redis: the cached rows, at most one element
    counter,        \* Redis: the invalidation counter, 0 while it is missing
    delayed,        \* fills whose command timed out and may still arrive
    handler,        \* the request each handler serves
    writes,         \* history: how often the row was written
    told,           \* history: the last write that an invalidation has covered
    outages

flagVars == <<row, payload, counter, delayed, handler, writes, told, outages>>

Filled  == [version: Nat, row: Row \cup {NULL}, asOf: Nat]
Stages  == {"idle", "invalidating", "looking", "missed", "filling", "answered"}
Handler == [at: Stages, version: Nat \cup {NULL}, row: Row \cup {NULL}, asOf: Nat, since: Nat]

Idle == [at |-> "idle", version |-> NULL, row |-> NULL, asOf |-> 0, since |-> 0]
-----------------------------------------------------------------------------
(* §15's rule for one restaurant, and a patch of the fields it names.      *)

Resolves(r, restaurant) ==
    /\ r # NULL
    /\ r.enabled
    /\ Bucket[restaurant] < r.percent

Or(value, default) == IF value = NULL THEN default ELSE value

Patched(r, p) ==
    LET old == IF r = NULL THEN [enabled |-> FALSE, percent |-> 0] ELSE r
    IN  [enabled |-> Or(p.enabled, old.enabled), percent |-> Or(p.percent, old.percent)]

Hit == {p \in payload : p.version = counter}

Looking == [at |-> "looking", version |-> NULL, row |-> NULL, asOf |-> 0, since |-> told]
Answered(r, n, s) == [at |-> "answered", version |-> NULL, row |-> r, asOf |-> n, since |-> s]
-----------------------------------------------------------------------------
Init ==
    /\ row \in {Seeded, NULL}
    /\ payload = {}
    /\ counter = 0
    /\ delayed = {}
    /\ handler = [h \in Handlers |-> Idle]
    /\ writes = 0
    /\ told = 0
    /\ outages = 0

(* A request that reads the flag arrives. *)
Arrive(h) ==
    /\ handler[h].at = "idle"
    /\ handler' = [handler EXCEPT ![h] = Looking]
    /\ UNCHANGED <<row, payload, counter, delayed, writes, told, outages>>

(* loadFlags reads the payload and the counter at one instant. *)
Lookup(h) ==
    /\ handler[h].at = "looking"
    /\ \/ \E p \in Hit :
            handler' = [handler EXCEPT ![h] = Answered(p.row, p.asOf, handler[h].since)]
       \/ /\ Hit = {}
          /\ handler' = [handler EXCEPT ![h] =
                [at |-> "missed", version |-> counter, row |-> NULL, asOf |-> 0,
                 since |-> handler[h].since]]
    /\ UNCHANGED <<row, payload, counter, delayed, writes, told, outages>>

(* A lookup that threw has seen no version, so it will fill nothing. *)
LookupFails(h) ==
    /\ handler[h].at = "looking"
    /\ outages < MaxOutages
    /\ outages' = outages + 1
    /\ handler' = [handler EXCEPT ![h] =
            [at |-> "missed", version |-> NULL, row |-> NULL, asOf |-> 0,
             since |-> handler[h].since]]
    /\ UNCHANGED <<row, payload, counter, delayed, writes, told>>

ReadTable(h) ==
    /\ handler[h].at = "missed"
    /\ handler' = [handler EXCEPT ![h] =
            IF handler[h].version = NULL
            THEN Answered(row, writes, handler[h].since)
            ELSE [at |-> "filling", version |-> handler[h].version, row |-> row,
                  asOf |-> writes, since |-> handler[h].since]]
    /\ UNCHANGED <<row, payload, counter, delayed, writes, told, outages>>

FillOf(h) ==
    [version |-> handler[h].version, row |-> handler[h].row, asOf |-> handler[h].asOf]

(* The fill is awaited, and its failure swallowed. *)
Fill(h) ==
    /\ handler[h].at = "filling"
    /\ payload' = {FillOf(h)}
    /\ handler' = [handler EXCEPT ![h] =
            Answered(handler[h].row, handler[h].asOf, handler[h].since)]
    /\ UNCHANGED <<row, counter, delayed, writes, told, outages>>

FillFails(h) ==
    /\ handler[h].at = "filling"
    /\ outages < MaxOutages
    /\ outages' = outages + 1
    /\ delayed' \in {delayed, delayed \cup {FillOf(h)}}
    /\ handler' = [handler EXCEPT ![h] =
            Answered(handler[h].row, handler[h].asOf, handler[h].since)]
    /\ UNCHANGED <<row, payload, counter, writes, told>>

(* A fill nobody waits for any more reaches Redis. *)
LateFill ==
    \E fill \in delayed :
        /\ payload' = {fill}
        /\ delayed' = delayed \ {fill}
        /\ UNCHANGED <<row, counter, handler, writes, told, outages>>

(* POST /api/debug/flags/:key writes the row, then invalidates, then reads *)
(* the state it replies with as any other request does.                    *)
WriteFlag(h, patch) ==
    /\ handler[h].at = "idle"
    /\ writes < MaxWrites
    /\ row' = Patched(row, patch)
    /\ writes' = writes + 1
    /\ handler' = [handler EXCEPT ![h] =
            [at |-> "invalidating", version |-> NULL, row |-> NULL, asOf |-> 0, since |-> 0]]
    /\ UNCHANGED <<payload, counter, delayed, told, outages>>

(* Faulty variant of Invalidated: it deletes the payload and counts nothing. *)
PayloadDeleted ==
    /\ counter' = counter
    /\ payload' = {}

Invalidated ==
    /\ counter' = counter + 1
    /\ payload' = payload

Invalidate(h) ==
    /\ handler[h].at = "invalidating"
    /\ Invalidated
    /\ told' = writes
    /\ handler' = [handler EXCEPT ![h] =
            [at |-> "looking", version |-> NULL, row |-> NULL, asOf |-> 0, since |-> writes]]
    /\ UNCHANGED <<row, delayed, writes, outages>>

(* Swallowed: the row is written and the cached rows last one TTL. *)
InvalidateFails(h) ==
    /\ handler[h].at = "invalidating"
    /\ outages < MaxOutages
    /\ outages' = outages + 1
    /\ handler' = [handler EXCEPT ![h] = Looking]
    /\ UNCHANGED <<row, payload, counter, delayed, writes, told>>

Reply(h) ==
    /\ handler[h].at = "answered"
    /\ handler' = [handler EXCEPT ![h] = Idle]
    /\ UNCHANGED <<row, payload, counter, delayed, writes, told, outages>>

(* The TTL of the payload.  The counter has none. *)
Expire ==
    /\ payload # {}
    /\ payload' = {}
    /\ UNCHANGED <<row, counter, delayed, handler, writes, told, outages>>
-----------------------------------------------------------------------------
Serve(h) ==
    \/ Lookup(h)
    \/ ReadTable(h)
    \/ Fill(h)
    \/ Invalidate(h)

Stumble(h) ==
    \/ LookupFails(h)
    \/ FillFails(h)
    \/ InvalidateFails(h)

Next ==
    \/ \E h \in Handlers : \/ Arrive(h)
                           \/ Serve(h)
                           \/ Stumble(h)
                           \/ Reply(h)
                           \/ \E p \in Patches : WriteFlag(h, p)
    \/ LateFill
    \/ Expire

Spec == Init /\ [][Next]_flagVars
-----------------------------------------------------------------------------
TypeOK ==
    /\ row \in Row \cup {NULL}
    /\ payload \subseteq Filled
    /\ counter \in Nat
    /\ delayed \subseteq Filled
    /\ handler \in [Handlers -> Handler]
    /\ writes \in Nat
    /\ told \in Nat
    /\ outages \in Nat

(* A toggle is fleet-wide and immediate: once the invalidation that follows *)
(* a write is done, no request that arrives is answered with older rows -   *)
(* from the table, from the cache, or from a fill that was read before the  *)
(* write and lands after the invalidation (redis-flag-cache.ts, ADR 019).   *)
ToggleIsImmediate ==
    \A h \in Handlers :
        handler[h].at = "answered" => handler[h].asOf >= handler[h].since
=============================================================================
