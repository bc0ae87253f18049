---------------------------- MODULE TerminalSync ----------------------------
(***************************************************************************)
(* The queue of one terminal and the engine that drains it: the order      *)
(* store, the sync engine and the IndexedDB repository of apps/web/src,    *)
(* against a server that answers as OrderWritePath does and a second       *)
(* terminal that changes the same orders.                                  *)
(*                                                                         *)
(* An intent is what the operator asked for, numbered in the order of its  *)
(* createdAt.  Its mutation id is the pair of the intent and k, the number *)
(* of ids minted for it.  Of a snapshot only the version is kept, and an   *)
(* undefined snapshot has version 0.  All orders are OPEN: the rules of    *)
(* decide() refuse the changes of kind "invalid" and no other.             *)
(***************************************************************************)
EXTENDS Naturals, Sequences

CONSTANTS
    Orders,         \* orders the terminal may create
    MaxIntents,     \* bound on the operator's mutations
    MaxIds,         \* bound on the mutation ids of one intent
    MaxChanges,     \* bound on the other terminal's changes
    MaxVisits,      \* bound on leaving the route
    MaxFaults,      \* bound on lost answers, failed disk writes, reloads and
                    \* commands the server refuses flatly
    NULL            \* no order

ASSUME ConstantsAssumption ==
    /\ {MaxIntents, MaxIds, MaxChanges, MaxVisits, MaxFaults} \subseteq Nat
    /\ MaxIds > 0
    /\ NULL \notin Orders

VARIABLES
    version, taken,     \* server: the version of each order, and processed_mutations
    loose,              \* requests on their way with nobody waiting for the answer
    rows,               \* disk: pendingMutations, at most one row per intent
    cached,             \* disk: the orders table, the version of each snapshot
    pointer,            \* disk: currentOrderId of syncMetadata
    mirror,             \* memory: queue.value, the rows as they were read last
    current, shown,     \* memory: currentOrderId.value and the version of order.value
    hydration,          \* memory: where hydrate() is, and what it read
    reading,            \* memory: the answer of a refetch on its way
    visit,              \* memory: the screen is open, its detach() waits in the chain of
                        \* commands, what its buttons wait for, and how often it was left
    call,               \* memory: the mutation each caller of attempt() has in hand
    pass,               \* memory: the pass and the rows it has left, with the first of their group
    rebase,             \* memory: the rebases in progress
    intents,            \* history: the order and kind of each intent, and if it was stored
    minted,             \* history: how many ids each intent has had
    effects,            \* history: how often each intent took effect
    tried,              \* history: ids that were sent and not answered with a refusal
    doubted,            \* history: intents whose id was tried, or in the hands of a rebase
                        \* or a pass, when it was dropped for a new one or for good
    givenUp,            \* history: intents the operator discarded
    strayed,            \* history: orders a hydration showed though the pointer had moved on
    changes, faults     \* changes of the other terminal and faults so far

serverVars  == <<version, taken, changes>>
diskVars    == <<rows, cached, pointer>>
screenVars  == <<mirror, current, shown, hydration, reading, visit>>
engineVars  == <<call, pass, rebase>>
historyVars == <<intents, minted, effects, tried, doubted, givenUp, strayed>>
vars == <<serverVars, loose, diskVars, screenVars, engineVars, historyVars, faults>>

Intents == 1..MaxIntents
Formed  == DOMAIN intents
OrderOf(i) == intents[i].order

Rebases == {"first rebase", "second rebase"}
Callers == {"pass", "direct"} \cup Rebases

NoRow  == [order |-> NULL, k |-> 0, base |-> 0, status |-> "none"]
NoCall == [step |-> "idle", req |-> [intent |-> 0, k |-> 0, base |-> 0], seen |-> 0]

IdlePass   == [running |-> FALSE, todo |-> {}, again |-> FALSE]
IdleRebase == [phase |-> "idle", order |-> NULL, version |-> 0,
               head |-> [intent |-> 0, k |-> 0, base |-> 0]]
Hydrated   == [phase |-> "done", order |-> NULL, version |-> 0]
NoReading  == [order |-> NULL, version |-> 0]
Opened     == [open |-> TRUE, leaving |-> FALSE, busy |-> "nothing", count |-> 0]

Fault ==
    /\ faults < MaxFaults
    /\ faults' = faults + 1

(* guarded(): a write the disk refuses is reported and has no effect.      *)
WriteFails == Fault /\ UNCHANGED rows

Later(a, b) == IF a >= b THEN a ELSE b

----------------------------------------------------------------------------
(* The queue, as read from the disk or from its mirror *)

Queued(q, o) == {i \in Intents : q[i] # NoRow /\ q[i].order = o}

Sendable(q, o) == \A i \in Queued(q, o) : q[i].status \in {"PENDING", "SYNCING"}

Halted == current # NULL /\ ~Sendable(mirror, current)

(* Orders of this terminal that are halted out of sight. *)
HaltedElsewhere == {o \in Orders \ {current} : ~Sendable(mirror, o)}

(* groupByOrder: the first row of an order places its group. *)
FirstOf(q, i) == CHOOSE f \in Queued(q, q[i].order) :
                     \A j \in Queued(q, q[i].order) : f <= j

RequestOf(q, i) == [intent |-> i, k |-> q[i].k, base |-> q[i].base]

ToSend(q, i) == [req |-> RequestOf(q, i), group |-> FirstOf(q, i)]

(* Faulty variant of SendList: a group is judged by its head only. *)
SendListByHead(q) ==
    {ToSend(q, i) : i \in {j \in Intents : q[j].status \in {"PENDING", "SYNCING"}}}

SendList(q) == {ToSend(q, i) : i \in {j \in Intents : q[j] # NoRow /\ Sendable(q, q[j].order)}}

(* Group by group, and a group in the order of its rows. *)
Before(a, b) ==
    \/ a.group < b.group
    \/ a.group = b.group /\ a.req.intent <= b.req.intent

(* The version projectQueue gives the order on screen.                     *)
Projected ==
    LET queued  == Queued(mirror, current)
        last    == CHOOSE i \in queued : \A j \in queued : j <= i
        created == \E i \in queued : intents[i].kind = "create"
    IN  IF queued = {} \/ (shown = 0 /\ ~created) THEN shown
        ELSE IF intents[last].kind = "create" /\ shown > 0 THEN shown
        ELSE mirror[last].base + 1

HasRow(req) == rows[req.intent].k = req.k

(* setPendingStatus: an update of a row that is gone does nothing. *)
WithStatus(req, status) ==
    IF HasRow(req) THEN [rows EXCEPT ![req.intent].status = status] ELSE rows

(* deletePending *)
Without(req) == IF HasRow(req) THEN [rows EXCEPT ![req.intent] = NoRow] ELSE rows

(* Faulty variant of WithHalt: the refused row is put, not updated. *)
WithHaltPut(req) ==
    [i \in Intents |->
        IF i = req.intent THEN [rows[i] EXCEPT !.status = "CONFLICT"]
        ELSE IF i > req.intent /\ i \in Queued(rows, OrderOf(req.intent))
        THEN [rows[i] EXCEPT !.status = "BLOCKED"]
        ELSE rows[i]]

(* haltQueue *)
WithHalt(req) ==
    [i \in Intents |->
        IF i = req.intent /\ HasRow(req) THEN [rows[i] EXCEPT !.status = "CONFLICT"]
        ELSE IF i > req.intent /\ i \in Queued(rows, OrderOf(req.intent))
        THEN [rows[i] EXCEPT !.status = "BLOCKED"]
        ELSE rows[i]]

(* Faulty variant of WithDiscard: the refused row goes alone. *)
WithHeadDiscarded(o) ==
    [i \in Intents |-> IF i \in Queued(rows, o) /\ rows[i].status = "CONFLICT"
                       THEN NoRow ELSE rows[i]]

(* discardOrderQueue *)
WithDiscard(o) == [i \in Intents |-> IF i \in Queued(rows, o) THEN NoRow ELSE rows[i]]

(* Faulty variant of WithFailedSwap: the old row is deleted first. *)
WithRowLost(i) == [rows EXCEPT ![i] = NoRow]

(* reissue, when its transaction does not commit *)
WithFailedSwap(i) == rows

(* Faulty variant of Referenced: the queue is not asked. *)
PointedAt(o) == o = pointer

(* What pruneOrders spares. *)
Referenced(o) == o = pointer \/ Queued(rows, o) # {}

(* putSnapshotIfNewer *)
Cached(o, v) == [cached EXCEPT ![o] = Later(@, v)]

(* An answer is cached and says nothing of which order the terminal is on, *)
(* a read of the order on screen does.                                     *)
CacheOrder(o, v) == cached' = Cached(o, v)
SaveOrder(o, v)  == CacheOrder(o, v) /\ pointer' = o

SetCurrentOrder(o) == pointer' = o
ClearCurrentOrder  == pointer' = NULL

ReadOrder(o) == cached[o]

(* savePending: behind every row there is. *)
SavePending(i, identity) ==
    [rows EXCEPT ![i] = [order |-> identity.order, k |-> 1, base |-> identity.base,
                         status |-> "PENDING"]]

----------------------------------------------------------------------------
(* The server *)

Repeats(req) ==
    \/ <<req.intent, req.k>> \in taken
    \/ intents[req.intent].kind = "create" /\ version[OrderOf(req.intent)] > 0

Fits(req) == ~Repeats(req) /\ version[OrderOf(req.intent)] = req.base

(* Faulty variant of Answer: the version is compared before the record is  *)
(* looked up.                                                              *)
AnswerByVersion(req) ==
    CASE version[OrderOf(req.intent)] # req.base -> "conflict"
      [] version[OrderOf(req.intent)] = req.base ->
            IF intents[req.intent].kind = "invalid" THEN "refused" ELSE "applied"

Answer(req) ==
    CASE Repeats(req) -> "applied"
      [] ~Repeats(req) /\ ~Fits(req) -> "conflict"
      [] Fits(req) -> IF intents[req.intent].kind = "invalid" THEN "refused" ELSE "applied"

(* POST /api/orders/:id/mutations: a mutation and its record are one       *)
(* transaction.                                                            *)
Process(req) ==
    /\ IF Answer(req) = "applied" /\ ~Repeats(req)
       THEN /\ version' = [version EXCEPT ![OrderOf(req.intent)] = @ + 1]
            /\ effects' = [effects EXCEPT ![req.intent] = @ + 1]
       ELSE UNCHANGED <<version, effects>>
    /\ taken' = IF Answer(req) = "applied" THEN taken \cup {<<req.intent, req.k>>} ELSE taken

Serve(c) ==
    LET req == call[c].req IN
    /\ call[c].step = "sent"
    /\ Process(req)
    /\ call' = [call EXCEPT ![c].step = Answer(req), ![c].seen = version'[OrderOf(req.intent)]]
    /\ UNCHANGED <<changes, loose, diskVars, screenVars, pass, rebase,
                   intents, minted, tried, doubted, givenUp, strayed, faults>>

ServeLoose(req) ==
    /\ req \in loose
    /\ Process(req)
    /\ loose' = loose \ {req}
    /\ UNCHANGED <<changes, diskVars, screenVars, engineVars,
                   intents, minted, tried, doubted, givenUp, strayed, faults>>

OtherTerminal(o) ==
    /\ changes < MaxChanges
    /\ version[o] > 0
    /\ version' = [version EXCEPT ![o] = @ + 1]
    /\ changes' = changes + 1
    /\ UNCHANGED <<taken, loose, diskVars, screenVars, engineVars, historyVars, faults>>

----------------------------------------------------------------------------
(* attempt(): mark the row, send, settle.  Its callers are a pass, a       *)
(* rebase and a command whose row could not be stored.                     *)

Send(c, req, q) ==
    /\ call' = [call EXCEPT ![c] = [step |-> "sent", req |-> req, seen |-> 0]]
    /\ rows' = q
    /\ tried' = tried \cup {<<req.intent, req.k>>}

(* Faulty variant of Remaining: a halted order is not left. *)
RemainingOnHalt(todo, result, req) ==
    IF result = "failed" THEN {} ELSE {e \in todo : e.req # req}

(* What is left of a pass: a halt ends the group, a lost answer the pass.  *)
Remaining(todo, result, req) ==
    CASE result = "applied" -> {e \in todo : e.req # req}
      [] result = "halted"  -> {e \in todo : OrderOf(e.req.intent) # OrderOf(req.intent)}
      [] result = "failed"  -> {}

(* What the caller does with the result. *)
Return(c, result) ==
    LET req == call[c].req IN
    /\ call' = [call EXCEPT ![c] = NoCall]
    /\ pass' = IF c # "pass" THEN pass
               ELSE [pass EXCEPT !.todo = Remaining(@, result, req)]
    /\ rebase' = IF c \notin Rebases THEN rebase
                 ELSE [rebase EXCEPT ![c].phase = IF result = "applied" THEN "reading" ELSE "ending",
                                     ![c].version = IF result = "applied" THEN call[c].seen ELSE @]

(* No answer came: the request was cut off, or its answer was. *)
Lose(c) ==
    LET req == call[c].req IN
    /\ call[c].step \in {"sent", "applied", "conflict", "refused"}
    /\ Fault
    /\ loose' = IF call[c].step = "sent" THEN loose \cup {req} ELSE loose
    /\ rows' = WithStatus(req, "PENDING")
    /\ Return(c, "failed")
    /\ UNCHANGED <<serverVars, cached, pointer, screenVars, historyVars>>

(* adopt, of a snapshot the screen is on *)
Adopted(v) == shown' = Later(shown, v)

(* onCanonical: cached whatever the screen shows, displayed only if it is  *)
(* open and shows the order.                                               *)
TakeCanonical(c) ==
    LET o == OrderOf(call[c].req.intent) IN
    /\ call[c].step \in {"applied", "conflict"}
    /\ CacheOrder(o, call[c].seen)
    /\ IF visit.open /\ current = o THEN Adopted(call[c].seen) ELSE UNCHANGED shown
    /\ call' = [call EXCEPT ![c].step = IF @ = "applied" THEN "cached" ELSE "halting"]
    /\ UNCHANGED <<serverVars, loose, rows, pointer, mirror, current, hydration, reading,
                   visit, pass, rebase, historyVars, faults>>

DeleteRow(c) ==
    /\ call[c].step = "cached"
    /\ \/ rows' = Without(call[c].req) /\ UNCHANGED faults
       \/ WriteFails
    /\ Return(c, "applied")
    /\ UNCHANGED <<serverVars, loose, cached, pointer, screenVars, historyVars>>

HaltQueue(c) ==
    /\ call[c].step \in {"halting", "refused"}
    /\ \/ rows' = WithHalt(call[c].req) /\ UNCHANGED faults
       \/ WriteFails
    /\ tried' = tried \ {<<call[c].req.intent, call[c].req.k>>}
    /\ Return(c, "halted")
    /\ UNCHANGED <<serverVars, loose, cached, pointer, screenVars,
                   intents, minted, effects, doubted, givenUp, strayed>>

----------------------------------------------------------------------------
(* A pass *)

(* Faulty variant of Run: a trigger during a pass is dropped. *)
RunIfIdle(queue) ==
    pass' = IF pass.running THEN pass
            ELSE [running |-> TRUE, todo |-> SendList(queue), again |-> FALSE]

(* run(): one pass at a time over the queue as it is on disk; a trigger    *)
(* during a pass asks for another.                                         *)
Run(queue) ==
    pass' = IF pass.running THEN [pass EXCEPT !.again = TRUE]
            ELSE [running |-> TRUE, todo |-> SendList(queue), again |-> FALSE]

(* refreshQueue: a screen that is closed mirrors nothing. *)
Mirrored(q) == IF visit.open THEN q ELSE [i \in Intents |-> NoRow]

(* The triggers that no command makes: the socket connects, the browser    *)
(* comes back online, Sync now.  Left out are those during a pass and      *)
(* those with nothing to send or to show.                                  *)
Trigger ==
    /\ visit.open /\ ~pass.running
    /\ SendList(rows) # {} \/ mirror # rows
    /\ Run(rows)
    /\ UNCHANGED <<serverVars, loose, diskVars, screenVars, call, rebase, historyVars, faults>>

PassSends ==
    /\ call["pass"] = NoCall
    /\ \E e \in pass.todo :
        /\ \A other \in pass.todo : Before(e, other)
        /\ Send("pass", e.req, WithStatus(e.req, "SYNCING"))
    /\ UNCHANGED <<serverVars, loose, cached, pointer, screenVars, pass, rebase,
                   intents, minted, effects, doubted, givenUp, strayed, faults>>

PassEnds ==
    /\ pass.running /\ pass.todo = {}
    /\ call["pass"] = NoCall
    /\ mirror' = Mirrored(rows)
    /\ pass' = IF pass.again THEN [IdlePass EXCEPT !.running = TRUE, !.todo = SendList(rows)]
               ELSE IdlePass
    /\ UNCHANGED <<serverVars, loose, diskVars, current, shown, hydration, reading, visit,
                   call, rebase, historyVars, faults>>

----------------------------------------------------------------------------
(* Commands.  The link of a stored one is run as one step; that of one     *)
(* which could not be stored ends when its request is answered.            *)

(* The flag of the component that disables its buttons; the other actions  *)
(* behind it are steps of their own.                                       *)
Committing == visit.busy # "nothing"

(* serialize(): the links run one by one. *)
ChainIsFree == call["direct"] = NoCall /\ ~visit.leaving

(* A button of an open screen that can be pressed, and its link run. *)
Pressed == visit.open /\ ~Committing /\ ChainIsFree

(* identityFor: stamped at the projected version. *)
Identity(o, kind, base) == [order |-> o, kind |-> kind, base |-> base]

(* sendUnstored: the link lasts until the answer. *)
SendUnstored(i, base) == Send("direct", [intent |-> i, k |-> 1, base |-> base], rows)

(* stageOrSend *)
Stage(identity) ==
    LET i     == Len(intents) + 1
        queue == SavePending(i, identity)
        Form(stored) == intents' = Append(intents, [order |-> identity.order,
                                                    kind |-> identity.kind, stored |-> stored])
    IN  /\ i \in Intents
        /\ minted' = [minted EXCEPT ![i] = 1]
        /\ \/ /\ Form(TRUE)
              /\ rows' = queue
              /\ Run(queue)
              /\ IF identity.kind = "invalid" THEN Fault ELSE UNCHANGED faults
              /\ UNCHANGED <<call, tried>>
           \/ /\ Fault
              /\ Form(FALSE)
              /\ SendUnstored(i, identity.base)
              /\ UNCHANGED pass
        /\ mirror' = rows'
        /\ UNCHANGED <<effects, doubted, givenUp, strayed>>

CreateOrder(o) ==
    /\ Pressed /\ ~Halted
    /\ Projected = 0
    /\ \A i \in Formed : OrderOf(i) # o
    /\ Stage(Identity(o, "create", 0))
    /\ current' = o /\ shown' = 0 /\ SetCurrentOrder(o)
    /\ UNCHANGED <<serverVars, loose, cached, hydration, reading, visit, rebase>>

(* addItem, removeItem, changeQuantity, stepQuantity, sendToKitchen, pay   *)
(* and cancel: one the server would apply, and one decide() would refuse.  *)
CommandKinds == {"change", "invalid"}

Command(kind) ==
    /\ Pressed /\ ~Halted
    /\ current # NULL /\ Projected > 0
    /\ Stage(Identity(current, kind, Projected))
    /\ UNCHANGED <<serverVars, loose, cached, pointer, current, shown, hydration, reading, visit,
                   rebase>>

(* clear(): "New order" *)
Clear ==
    /\ Pressed /\ ~Halted
    /\ current # NULL /\ Projected > 0
    /\ current' = NULL /\ shown' = 0 /\ ClearCurrentOrder
    /\ UNCHANGED <<serverVars, loose, rows, cached, mirror, hydration, reading, visit, engineVars,
                   historyVars, faults>>

FocusOrder(o) ==
    /\ Pressed
    /\ o # current /\ \E i \in Formed : OrderOf(i) = o
    /\ ~Halted \/ o \in HaltedElsewhere
    /\ current' = o /\ shown' = ReadOrder(o) /\ SetCurrentOrder(o)
    /\ UNCHANGED <<serverVars, loose, rows, cached, mirror, hydration, reading, visit, engineVars,
                   historyVars, faults>>

----------------------------------------------------------------------------
(* The two ways out of a halt *)

(* A rebase or a pass has the request in hand and is yet to send it. *)
YetToSend(req) ==
    \/ \E r \in Rebases : rebase[r].phase = "sending" /\ rebase[r].head = req
    \/ \E e \in pass.todo : e.req = req

DiscardHalted ==
    /\ visit.open /\ ~Committing /\ Halted
    /\ LET held == Queued(rows, current) IN
       \/ /\ rows' = WithDiscard(current)
          /\ givenUp' = givenUp \cup held
          /\ doubted' = doubted \cup {i \in held : \/ <<i, rows[i].k>> \in tried
                                               \/ YetToSend(RequestOf(rows, i))}
          /\ UNCHANGED faults
       \/ WriteFails /\ UNCHANGED <<givenUp, doubted>>
    /\ mirror' = rows'
    /\ UNCHANGED <<serverVars, loose, cached, pointer, current, shown, hydration, reading, visit,
                   engineVars, intents, minted, effects, tried, strayed>>

(* A second rebase runs beside a first one whose screen was left. *)
RebaseHalted(r) ==
    /\ visit.open /\ ~Committing /\ Halted
    /\ rebase[r] = IdleRebase
    /\ r = "second rebase" => rebase["first rebase"] # IdleRebase
    /\ \A i \in Queued(rows, current) : minted[i] < MaxIds
    /\ rebase' = [rebase EXCEPT ![r] = [phase |-> "reading", order |-> current,
                                         version |-> shown, head |-> IdleRebase.head]]
    /\ visit' = [visit EXCEPT !.busy = r]
    /\ UNCHANGED <<serverVars, loose, diskVars, mirror, current, shown, hydration, reading,
                   call, pass, historyVars, faults>>

ReadHead(r) ==
    LET group == Queued(rows, rebase[r].order) IN
    /\ rebase[r].phase = "reading"
    /\ \/ /\ group = {}
          /\ rebase' = [rebase EXCEPT ![r].phase = "ending"]
       \/ \E i \in group :
            /\ \A j \in group : i <= j
            /\ minted[i] < MaxIds
            /\ rebase' = [rebase EXCEPT ![r].phase = "reissuing", ![r].head = RequestOf(rows, i)]
    /\ UNCHANGED <<serverVars, loose, diskVars, screenVars, call, pass, historyVars, faults>>

(* reissue: the row is put under a new id, also when the old one is gone. *)
Reissue(r) ==
    LET head == rebase[r].head
        i    == head.intent
        k    == minted[i] + 1
        b    == IF intents[i].kind = "create" THEN 0 ELSE rebase[r].version
    IN  /\ rebase[r].phase = "reissuing" /\ minted[i] < MaxIds
        /\ \/ /\ rows' = [rows EXCEPT ![i] = [order |-> rebase[r].order, k |-> k, base |-> b,
                                         status |-> "PENDING"]]
              /\ minted' = [minted EXCEPT ![i] = k]
              /\ doubted' = IF \/ <<i, head.k>> \in tried \/ YetToSend(head)
                               \/ rows[i].k # head.k
                            THEN doubted \cup {i} ELSE doubted
              /\ rebase' = [rebase EXCEPT ![r].phase = "sending",
                                          ![r].head = [intent |-> i, k |-> k, base |-> b]]
              /\ UNCHANGED faults
           \/ /\ Fault
              /\ rebase' = [rebase EXCEPT ![r].phase = "ending"]
              /\ rows' = WithFailedSwap(i)
              /\ UNCHANGED <<minted, doubted>>
        /\ UNCHANGED <<serverVars, loose, cached, pointer, screenVars, call, pass,
                       intents, effects, tried, givenUp, strayed>>

RebaseSends(r) ==
    /\ rebase[r].phase = "sending" /\ call[r] = NoCall
    /\ Send(r, rebase[r].head, WithStatus(rebase[r].head, "SYNCING"))
    /\ UNCHANGED <<serverVars, loose, cached, pointer, screenVars, pass, rebase,
                   intents, minted, effects, doubted, givenUp, strayed, faults>>

RebaseEnds(r) ==
    /\ rebase[r].phase = "ending"
    /\ mirror' = Mirrored(rows)
    /\ rebase' = [rebase EXCEPT ![r] = IdleRebase]
    /\ visit' = IF visit.busy = r THEN [visit EXCEPT !.busy = "nothing"] ELSE visit
    /\ UNCHANGED <<serverVars, loose, diskVars, current, shown, hydration, reading, call, pass,
                   historyVars, faults>>

----------------------------------------------------------------------------
(* Leaving the route and coming back.  Store and engine outlive the screen;*)
(* another terminal's screen in between is left out.                       *)

Emptied == current' = NULL /\ shown' = 0

(* onBeforeUnmount: detach() waits for its turn in the chain, the claim is *)
(* released at once.  A hydration that has not restored yet never will.    *)
Leave ==
    /\ visit.open /\ visit.count < MaxVisits
    /\ IF ChainIsFree THEN Emptied ELSE UNCHANGED <<current, shown>>
    /\ visit' = [open |-> FALSE, leaving |-> ~ChainIsFree, busy |-> "nothing",
                 count |-> visit.count + 1]
    /\ hydration' = IF hydration.phase = "pruning" THEN hydration ELSE Hydrated
    /\ UNCHANGED <<serverVars, loose, diskVars, mirror, reading, engineVars, historyVars, faults>>

(* detach(), when the link before it has ended, whoever is on the screen.  *)
Detach ==
    /\ visit.leaving /\ call["direct"] = NoCall
    /\ Emptied
    /\ visit' = [visit EXCEPT !.leaving = FALSE]
    /\ UNCHANGED <<serverVars, loose, diskVars, mirror, hydration, reading, engineVars,
                   historyVars, faults>>

(* useTerminal and hydrate *)
OpenAgain ==
    /\ ~visit.open
    /\ visit' = [visit EXCEPT !.open = TRUE]
    /\ hydration' = [Hydrated EXCEPT !.phase = "reading"]
    /\ UNCHANGED <<serverVars, loose, diskVars, mirror, current, shown, reading, engineVars,
                   historyVars, faults>>

----------------------------------------------------------------------------
(* Canonical reads, and reloads *)

(* refetch(), as far as the server's answer.  A read that fails does       *)
(* nothing; one that can bring nothing new is left out.                    *)
AskOrder ==
    /\ visit.open /\ reading = NoReading
    /\ current # NULL /\ version[current] > 0
    /\ version[current] > shown \/ version[current] > cached[current] \/ pointer # current
    /\ reading' = [order |-> current, version |-> version[current]]
    /\ UNCHANGED <<serverVars, loose, diskVars, mirror, current, shown, hydration,
                   visit, engineVars, historyVars, faults>>

TakeOrder ==
    /\ reading # NoReading
    /\ IF current = reading.order
       THEN /\ Adopted(reading.version)
            /\ SaveOrder(current, reading.version)
       ELSE UNCHANGED <<shown, cached, pointer>>
    /\ reading' = NoReading
    /\ UNCHANGED <<serverVars, loose, rows, mirror, current, hydration, visit, engineVars,
                   historyVars, faults>>

(* The tab dies and the screen is opened again. What was on its way to the *)
(* server may still arrive.                                                *)
Reload ==
    /\ Fault
    /\ loose' = loose \cup {call[c].req : c \in {d \in Callers : call[d].step = "sent"}}
    /\ mirror' = [i \in Intents |-> NoRow]
    /\ current' = NULL /\ shown' = 0
    /\ hydration' = [Hydrated EXCEPT !.phase = "reading"]
    /\ reading' = NoReading
    /\ visit' = [Opened EXCEPT !.count = visit.count]
    /\ call' = [c \in Callers |-> NoCall] /\ pass' = IdlePass
    /\ rebase' = [r \in Rebases |-> IdleRebase]
    /\ UNCHANGED <<serverVars, diskVars, historyVars>>

(* normalizeSyncing and readTerminalState *)
HydrateReads ==
    /\ hydration.phase = "reading"
    /\ rows' = [i \in Intents |-> IF rows[i].status = "SYNCING"
                                  THEN [rows[i] EXCEPT !.status = "PENDING"] ELSE rows[i]]
    /\ hydration' = [phase |-> "restoring", order |-> pointer,
                     version |-> IF pointer = NULL THEN 0 ELSE ReadOrder(pointer)]
    /\ UNCHANGED <<serverVars, loose, cached, pointer, mirror, current, shown, reading, visit,
                   engineVars, historyVars, faults>>

(* The pointer is restored if there is none, the snapshot if none is held, *)
(* and adopting it moves currentOrderId; then the mirror is read, and the  *)
(* queue is drained.                                                       *)
HydrateRestores ==
    /\ hydration.phase = "restoring"
    /\ IF hydration.version > 0 /\ shown = 0
       THEN current' = hydration.order /\ shown' = hydration.version
       ELSE current' = (IF current = NULL THEN hydration.order ELSE current) /\ UNCHANGED shown
    /\ strayed' = strayed \cup ({current'} \ {pointer, NULL})
    /\ mirror' = rows
    /\ Run(rows)
    /\ hydration' = [Hydrated EXCEPT !.phase = "pruning"]
    /\ UNCHANGED <<serverVars, loose, diskVars, reading, visit, call, rebase, intents, minted, effects,
                   tried, doubted, givenUp, faults>>

(* pruneOrders *)
HydratePrunes ==
    /\ hydration.phase = "pruning" /\ ~pass.running
    /\ cached' = [o \in Orders |-> IF Referenced(o) THEN cached[o] ELSE 0]
    /\ hydration' = Hydrated
    /\ UNCHANGED <<serverVars, loose, rows, pointer, mirror, current, shown, reading, visit,
                   engineVars, historyVars, faults>>

----------------------------------------------------------------------------
Init ==
    /\ version = [o \in Orders |-> 0] /\ taken = {} /\ loose = {}
    /\ rows = [i \in Intents |-> NoRow] /\ mirror = rows
    /\ cached = [o \in Orders |-> 0] /\ pointer = NULL
    /\ current = NULL /\ shown = 0
    /\ hydration = Hydrated /\ reading = NoReading /\ visit = Opened
    /\ call = [c \in Callers |-> NoCall] /\ pass = IdlePass
    /\ rebase = [r \in Rebases |-> IdleRebase]
    /\ intents = <<>>
    /\ minted = [i \in Intents |-> 0] /\ effects = [i \in Intents |-> 0]
    /\ tried = {} /\ doubted = {} /\ givenUp = {} /\ strayed = {}
    /\ changes = 0 /\ faults = 0

Attempt(c) == Serve(c) \/ TakeCanonical(c) \/ DeleteRow(c) \/ HaltQueue(c)

Pass == PassSends \/ PassEnds

Rebase(r) == ReadHead(r) \/ Reissue(r) \/ RebaseSends(r) \/ RebaseEnds(r)

Visit == Leave \/ Detach \/ OpenAgain

Hydrate == HydrateReads \/ HydrateRestores \/ HydratePrunes

Next ==
    \/ \E c \in Callers : Attempt(c) \/ Lose(c)
    \/ \E req \in loose : ServeLoose(req)
    \/ \E o \in Orders : OtherTerminal(o) \/ CreateOrder(o) \/ FocusOrder(o)
    \/ \E kind \in CommandKinds : Command(kind)
    \/ \E r \in Rebases : RebaseHalted(r) \/ Rebase(r)
    \/ Trigger \/ Pass \/ Hydrate \/ Visit
    \/ Clear \/ DiscardHalted
    \/ AskOrder \/ TakeOrder \/ Reload

Spec == Init /\ [][Next]_vars

----------------------------------------------------------------------------
Request == [intent : Intents, k : 1..MaxIds, base : Nat]

RowType == [order : Orders, k : 1..MaxIds, base : Nat,
            status : {"PENDING", "SYNCING", "CONFLICT", "BLOCKED"}] \cup {NoRow}

Kinds == {"create"} \cup CommandKinds

CallType == [step : {"sent", "applied", "conflict", "refused", "cached", "halting"},
             req : Request, seen : Nat] \cup {NoCall}

PassType == [running : BOOLEAN, todo : SUBSET [req : Request, group : Intents], again : BOOLEAN]

RebaseType == [phase : {"idle", "reading", "reissuing", "sending", "ending"},
               order : Orders \cup {NULL}, version : Nat, head : Request \cup {IdleRebase.head}]

ServerTypeOK ==
    /\ version \in [Orders -> Nat] /\ taken \subseteq Intents \X (1..MaxIds)
    /\ loose \subseteq Request /\ changes \in Nat

DiskTypeOK ==
    /\ rows \in [Intents -> RowType]
    /\ cached \in [Orders -> Nat] /\ pointer \in Orders \cup {NULL}

ScreenTypeOK ==
    /\ mirror \in [Intents -> RowType]
    /\ current \in Orders \cup {NULL} /\ shown \in Nat
    /\ hydration \in [phase : {"done", "reading", "restoring", "pruning"},
                      order : Orders \cup {NULL}, version : Nat]
    /\ reading \in [order : Orders \cup {NULL}, version : Nat]
    /\ visit \in [open : BOOLEAN, leaving : BOOLEAN, busy : Rebases \cup {"nothing"}, count : Nat]

EngineTypeOK ==
    /\ call \in [Callers -> CallType] /\ pass \in PassType /\ rebase \in [Rebases -> RebaseType]

HistoryTypeOK ==
    /\ intents \in Seq([order : Orders, kind : Kinds, stored : BOOLEAN]) /\ Formed \subseteq Intents
    /\ minted \in [Intents -> 0..MaxIds] /\ effects \in [Intents -> Nat]
    /\ tried \subseteq Intents \X (1..MaxIds)
    /\ doubted \subseteq Intents /\ givenUp \subseteq Intents
    /\ strayed \subseteq Orders
    /\ faults \in Nat

(* The types of the variables. *)
TypeOK == ServerTypeOK /\ DiskTypeOK /\ ScreenTypeOK /\ EngineTypeOK /\ HistoryTypeOK

Stored(i) == intents[i].stored

(* The mutations of an order take effect in the order the operator formed  *)
(* them: none while an earlier one, without effect so far, is still queued *)
(* (section 14; queueStamp, reissue and the one-pass rule are what it      *)
(* rests on).  Excepted is a row that was discarded or settled and put     *)
(* back by a rebase whose screen was left, see NeverOvertaken.             *)
QueueOrder ==
    \A i, j \in Formed :
        /\ i < j /\ OrderOf(i) = OrderOf(j)
        /\ Stored(j) /\ effects[j] > 0
        /\ rows[i] # NoRow /\ i \notin doubted
        => effects[i] > 0

(* An intent that reached the disk leaves it only after its effect or a    *)
(* decision of the operator to discard it, whatever is lost and whenever   *)
(* the tab dies.                                                           *)
StoredIsNotForgotten ==
    \A i \in Formed :
        Stored(i) => rows[i] # NoRow \/ effects[i] > 0 \/ i \in givenUp

(* Re-sends are harmless: an intent takes effect twice only after a rebase *)
(* minted a new id for it though the old one had been sent and not refused.*)
DoubledOnlyInDoubt ==
    \A i \in Formed : effects[i] > 1 => i \in doubted

(* A discard is final, except for a mutation that had been sent and not    *)
(* refused.                                                                *)
DiscardIsFinal ==
    [][\A i \in givenUp \ doubted : effects'[i] = effects[i]]_vars

(* A halt stops its order: nothing takes effect behind a row that is       *)
(* CONFLICT or BLOCKED, unless that one took effect itself or was put back *)
(* (section 14.1).                                                         *)
HaltStops ==
    [][\A i, j \in Formed :
          /\ i < j /\ OrderOf(i) = OrderOf(j) /\ Stored(j)
          /\ rows[i].status \in {"CONFLICT", "BLOCKED"}
          /\ effects[i] = 0 /\ i \notin doubted
          => effects'[j] = effects[j]]_vars

(* A reload can show every queued order: the mutation that creates it is   *)
(* still queued or a snapshot of it is cached: the answer is cached before *)
(* the row is dropped, and pruning spares what is pointed at or queued.    *)
(* Excepted are an order that a hydration put back on the screen after the *)
(* operator had left it, see HydrationKeepsTheScreen; a row that was       *)
(* settled or discarded and put back by a rebase whose screen was left;    *)
(* and an order whose create a rebase has put back, for then the screen    *)
(* may mirror a create that has left the queue.                            *)
ReloadShowsQueue ==
    \A i \in Formed :
        /\ rows[i] # NoRow /\ i \notin doubted /\ OrderOf(i) \notin strayed
        /\ \A j \in Formed :
               intents[j].kind = "create" /\ OrderOf(j) = OrderOf(i) => minted[j] = 1
        => \/ cached[OrderOf(i)] > 0
           \/ \E j \in Queued(rows, OrderOf(i)) : intents[j].kind = "create"

(* A trigger is never lost: with no pass running, and nothing having gone  *)
(* wrong, the disk holds no row that could be sent (a trigger during a     *)
(* pass makes it loop), but for the one a rebase is about to send.         *)
NothingIsLeftBehind ==
    \A i \in Intents :
        /\ faults = 0 /\ ~pass.running
        /\ rows[i] # NoRow /\ \A r \in Rebases : rows[i].order # rebase[r].order
        => ~Sendable(rows, rows[i].order)

(* The comment on hydrate(): a slow disk read does not replace the order   *)
(* the operator created while it was in flight.                            *)
HydrationKeepsTheScreen ==
    [][/\ hydration.phase = "restoring" /\ hydration'.phase = "pruning"
       /\ current # NULL
       => current' = current]_vars

(* The queue of an order is sent in the order it was formed (section 14),  *)
(* also when a rebase puts back a row that is gone.                        *)
NeverOvertaken ==
    \A i, j \in Formed :
        /\ i < j /\ OrderOf(i) = OrderOf(j)
        /\ Stored(j) /\ effects[j] > 0
        /\ rows[i] # NoRow
        => effects[i] > 0

(* local-store.ts on reissue, engine.ts on rebase: the same intent applied *)
(* twice is what a stable mutation id exists to prevent.                   *)
AppliedOnce == \A i \in Formed : effects[i] <= 1
=============================================================================
