------------------------- MODULE TerminalSync_proofs -------------------------
(***************************************************************************)
(* Proofs about the queue of one terminal: the type invariant; that an     *)
(* intent which reached the disk is forgotten only after its effect or by  *)
(* a decision of the operator; that the intents of an order take effect in *)
(* their order, and none behind a halt; that an intent takes effect twice  *)
(* only after an id of it was dropped in doubt; and that a discard is      *)
(* final.                                                                  *)
(***************************************************************************)
EXTENDS TerminalSync, WellFoundedInduction, SequenceTheorems, TLAPS

-----------------------------------------------------------------------------
(* The inductive invariant, variable by variable. *)

KindOf(i) == intents[i].kind

(* A create is the first intent of its order, so there is one at most. *)
CreatesAreFirst ==
    \A i, j \in Formed : OrderOf(i) = OrderOf(j) /\ KindOf(i) = "create" => i <= j

(* The server has an order from the effect of its create on, and takes no  *)
(* id without an effect of its intent.                                     *)
EffectsTrue ==
    /\ \A i \in Formed : effects[i] > 0 => version[OrderOf(i)] > 0
    /\ \A i \in Formed : KindOf(i) = "create" /\ version[OrderOf(i)] > 0 => effects[i] > 0
    /\ \A m \in taken : m[1] \in Formed /\ effects[m[1]] > 0
    /\ \A o \in Orders : version[o] > 0 => \E i \in Formed : OrderOf(i) = o
    /\ \A i \in Intents \ Formed : effects[i] = 0

(* A create is based on nothing; any other request on a version, or the    *)
(* order is known to exist.                                                *)
Genuine(req, formed, at) ==
    /\ req \in Request /\ req.intent \in DOMAIN formed
    /\ formed[req.intent].kind = "create" => req.base = 0
    /\ formed[req.intent].kind # "create" =>
           req.base > 0 \/ at[formed[req.intent].order] > 0

HaltedRow(row) == row.status \in {"CONFLICT", "BLOCKED"}

(* The create of an order is queued before the order exists. *)
CreateQueued(o) ==
    \E j \in Formed : KindOf(j) = "create" /\ OrderOf(j) = o /\ rows[j] # NoRow

RowTrue(i) ==
    /\ i \in Formed /\ Stored(i) /\ rows[i].order = OrderOf(i)
    /\ Genuine(RequestOf(rows, i), intents, version)
    /\ HaltedRow(rows[i]) => version[OrderOf(i)] > 0
    /\ KindOf(i) = "create" \/ version[OrderOf(i)] > 0 \/ CreateQueued(OrderOf(i))

RowsTrue == \A i \in Intents : rows[i] # NoRow => RowTrue(i)

(* The mirror may be behind the disk: a create it holds is queued still or *)
(* has had its effect.                                                     *)
MirrorTrue ==
    \A i \in Intents : mirror[i] # NoRow =>
        /\ i \in Formed /\ mirror[i].order = OrderOf(i)
        /\ HaltedRow(mirror[i]) => version[OrderOf(i)] > 0
        /\ KindOf(i) = "create" => rows[i] # NoRow \/ version[OrderOf(i)] > 0

(* No snapshot is ahead of the server. *)
KnownAt(o, v, at) == IF o = NULL THEN v = 0 ELSE v <= at[o]

NothingIsAhead ==
    /\ \A o \in Orders : cached[o] <= version[o]
    /\ KnownAt(current, shown, version)
    /\ KnownAt(hydration.order, hydration.version, version)
    /\ KnownAt(reading.order, reading.version, version)

(* What a pass or a rebase has in hand was stored, and its order exists    *)
(* unless it creates it; a direct request is of the last intent, which was *)
(* not stored.  A create is never refused.                                 *)
CallTrue(c) ==
    LET i == call[c].req.intent IN
    /\ Genuine(call[c].req, intents, version)
    /\ call[c].seen <= version[OrderOf(i)]
    /\ call[c].step \in {"applied", "cached"} => effects[i] > 0
    /\ call[c].step \in {"conflict", "refused", "halting"} => KindOf(i) # "create"
    /\ c # "direct" => Stored(i) /\ (KindOf(i) = "create" \/ version[OrderOf(i)] > 0)
    /\ c = "direct" => ~Stored(i) /\ i = Len(intents)
    /\ c \in Rebases => rebase[c].phase = "sending" /\ call[c].req = rebase[c].head

CallsTrue == \A c \in Callers : call[c] # NoCall => CallTrue(c)

LooseTrue == \A req \in loose : Genuine(req, intents, version)

CreateAhead(e) ==
    \E f \in pass.todo : /\ KindOf(f.req.intent) = "create" /\ f.group = e.group
                         /\ OrderOf(f.req.intent) = OrderOf(e.req.intent)

ToDoTrue(e) ==
    LET i == e.req.intent IN
    /\ Genuine(e.req, intents, version) /\ Stored(i)
    /\ KindOf(i) = "create" \/ version[OrderOf(i)] > 0 \/ CreateAhead(e)

PassTrue == \A e \in pass.todo : ToDoTrue(e)

RebaseTrue(r) ==
    LET i == rebase[r].head.intent IN
    /\ rebase[r].order \in Orders /\ version[rebase[r].order] > 0
    /\ rebase[r].version <= version[rebase[r].order]
    /\ rebase[r].phase \in {"reissuing", "sending"} =>
           /\ Genuine(rebase[r].head, intents, version)
           /\ Stored(i) /\ OrderOf(i) = rebase[r].order

RebasesTrue == \A r \in Rebases : rebase[r].phase # "idle" => RebaseTrue(r)

Inv ==
    /\ TypeOK /\ CreatesAreFirst /\ EffectsTrue /\ RowsTrue /\ MirrorTrue /\ NothingIsAhead
    /\ CallsTrue /\ LooseTrue /\ PassTrue /\ RebasesTrue

-----------------------------------------------------------------------------
(* Facts about numbers and about the operators of the model. *)

(* Intents are positive numbers up to the bound. *)
LEMMA IntentsAreNumbers == Intents \subseteq Nat /\ \A i \in Intents : i > 0 /\ i <= MaxIntents
  BY ConstantsAssumption DEF Intents, ConstantsAssumption

(* The order of the numbers is well-founded. *)
LEMMA LeastNumber ==
    ASSUME NEW S, S \subseteq Nat, S # {}
    PROVE  \E m \in S : \A j \in S : m <= j
<1>1. PICK m \in S : \A j \in S : ~(<<j, m>> \in OpToRel(<, Nat))
  BY NatLessThanWellFounded, WFMin
<1>2. \A j \in S : ~(j < m)
  BY <1>1 DEF OpToRel
<1>. QED
  BY <1>2

(* Every non-empty set of intents has a least one.                         *)
LEMMA LeastIntent ==
    ASSUME NEW S, S \subseteq Intents, S # {}
    PROVE  \E m \in S : \A j \in S : m <= j
  BY IntentsAreNumbers, LeastNumber

(* Every non-empty set of intents has a greatest one.                      *)
LEMMA GreatestIntent ==
    ASSUME NEW S, S \subseteq Intents, S # {}
    PROVE  \E m \in S : \A j \in S : j <= m
<1> DEFINE Missing == {MaxIntents - i : i \in S}
<1>1. Missing \subseteq Nat
  BY IntentsAreNumbers, ConstantsAssumption DEF ConstantsAssumption
<1>2. PICK i \in S : TRUE
  OBVIOUS
<1>3. MaxIntents - i \in Missing
  BY <1>2
<1> HIDE DEF Missing
<1>4. PICK n \in Missing : \A k \in Missing : n <= k
  BY <1>1, <1>3, LeastNumber
<1>5. PICK m \in S : n = MaxIntents - m
  BY <1>4 DEF Missing
<1>6. ASSUME NEW j \in S PROVE j <= m
  <2>1. MaxIntents - j \in Missing
    BY DEF Missing
  <2>2. MaxIntents - m <= MaxIntents - j
    BY <1>4, <1>5, <2>1
  <2>3. m \in Nat /\ j \in Nat /\ MaxIntents \in Nat
    BY <1>5, IntentsAreNumbers, ConstantsAssumption DEF ConstantsAssumption
  <2>4. QED
    BY <2>2, <2>3
<1>7. QED
  BY <1>5, <1>6

(* What is known of an intent once it is formed. *)
LEMMA FormedIntents ==
    ASSUME TypeOK
    PROVE  \A i \in Formed : /\ i \in Intents /\ OrderOf(i) \in Orders
                             /\ KindOf(i) \in Kinds /\ Stored(i) \in BOOLEAN
<1>1. intents \in Seq([order : Orders, kind : Kinds, stored : BOOLEAN])
  BY DEF TypeOK, HistoryTypeOK
<1>2. \A i \in Formed : intents[i] \in [order : Orders, kind : Kinds, stored : BOOLEAN]
  BY <1>1, LenProperties, ElementOfSeq DEF Formed
<1>3. Formed \subseteq Intents
  BY DEF TypeOK, HistoryTypeOK
<1>. QED
  BY <1>2, <1>3 DEF OrderOf, KindOf, Stored

(* A row is of an order and its id has a number; no row has neither.       *)
LEMMA RowIsThere ==
    ASSUME NEW row \in RowType
    PROVE  /\ row # NoRow => /\ row.order \in Orders /\ row.k \in 1..MaxIds /\ row.base \in Nat
                             /\ row.status \in {"PENDING", "SYNCING", "CONFLICT", "BLOCKED"}
           /\ row.order \in Orders => row # NoRow
           /\ row.k # 0 => row # NoRow
           /\ row.status # "none" => row # NoRow
  BY ConstantsAssumption DEF ConstantsAssumption, RowType, NoRow

LEMMA RowMarked ==
    ASSUME NEW row \in RowType, row # NoRow,
           NEW status \in {"PENDING", "SYNCING", "CONFLICT", "BLOCKED"},
           NEW marked, marked = [row EXCEPT !.status = status]
    PROVE  /\ marked \in RowType /\ marked # NoRow /\ marked.status = status
           /\ marked.order = row.order /\ marked.k = row.k /\ marked.base = row.base
<1>1. row \in [order : Orders, k : 1..MaxIds, base : Nat,
                status : {"PENDING", "SYNCING", "CONFLICT", "BLOCKED"}]
  BY DEF RowType
<1>2. marked \in [order : Orders, k : 1..MaxIds, base : Nat,
                   status : {"PENDING", "SYNCING", "CONFLICT", "BLOCKED"}]
  BY <1>1
<1>3. marked.status = status /\ marked.order = row.order /\ marked.k = row.k /\ marked.base = row.base
  BY <1>1
<1>4. marked # NoRow
  BY <1>3 DEF NoRow
<1>5. QED
  BY <1>2, <1>3, <1>4 DEF RowType

(* The request made of a row. *)
LEMMA RequestOfRow ==
    ASSUME NEW q \in [Intents -> RowType], NEW i \in Intents, q[i] # NoRow
    PROVE  /\ RequestOf(q, i) \in Request /\ RequestOf(q, i).intent = i
           /\ RequestOf(q, i).k = q[i].k /\ RequestOf(q, i).base = q[i].base
  BY RowIsThere DEF RequestOf, Request

-----------------------------------------------------------------------------
(* What stays true as long as its own variables do, while versions grow,   *)
(* effects are counted and intents are formed.                             *)

Onward ==
    /\ \A o \in Orders : version[o] \in Nat /\ version'[o] \in Nat /\ version[o] <= version'[o]
    /\ \A i \in Intents : effects[i] \in Nat /\ effects'[i] \in Nat /\ effects[i] <= effects'[i]
    /\ \A i \in Formed : i \in DOMAIN intents' /\ intents'[i] = intents[i]

LEMMA OnwardAsTyped ==
    ASSUME TypeOK, UNCHANGED <<version, effects, intents>>
    PROVE  Onward
  BY DEF TypeOK, ServerTypeOK, HistoryTypeOK, Onward, Formed

LEMMA GenuineKept ==
    ASSUME TypeOK, Onward, NEW req, Genuine(req, intents, version)
    PROVE  Genuine(req, intents', version')
  BY FormedIntents DEF Onward, Genuine, Formed, OrderOf

LEMMA IntentKept ==
    ASSUME TypeOK, Onward, NEW i \in Formed
    PROVE  /\ i \in Formed' /\ OrderOf(i)' = OrderOf(i) /\ KindOf(i)' = KindOf(i)
           /\ Stored(i)' = Stored(i)
           /\ version[OrderOf(i)] > 0 => version'[OrderOf(i)] > 0
           /\ effects[i] > 0 => effects'[i] > 0
           /\ \A n \in Nat : n <= version[OrderOf(i)] => n <= version'[OrderOf(i)]
  BY FormedIntents DEF Onward, Formed, OrderOf, KindOf, Stored

LEMMA LooseKept ==
    ASSUME TypeOK, Onward, LooseTrue, loose' \subseteq loose
    PROVE  LooseTrue'
  BY GenuineKept DEF LooseTrue

(* The rows keep all but their status, and only what the server knows of   *)
(* is halted.                                                              *)
Marked ==
    /\ rows' \in [Intents -> RowType]
    /\ \A i \in Intents :
           /\ rows'[i] = NoRow <=> rows[i] = NoRow
           /\ rows'[i].order = rows[i].order /\ rows'[i].k = rows[i].k
           /\ rows'[i].base = rows[i].base
           /\ rows[i] # NoRow /\ HaltedRow(rows'[i]) => version'[OrderOf(i)] > 0

LEMMA RowKept ==
    ASSUME TypeOK, Onward, NEW i \in Intents, RowTrue(i),
           rows'[i].order = rows[i].order, rows'[i].k = rows[i].k, rows'[i].base = rows[i].base,
           HaltedRow(rows'[i]) => version'[OrderOf(i)] > 0,
           \A j \in Formed :
               KindOf(j) = "create" /\ OrderOf(j) = OrderOf(i) /\ rows[j] # NoRow
               => rows'[j] # NoRow \/ version'[OrderOf(i)] > 0
    PROVE  RowTrue(i)'
<1>1. i \in Formed
  BY DEF RowTrue
<1>2. RequestOf(rows, i)' = RequestOf(rows, i)
  BY DEF RequestOf
<1>3. Genuine(RequestOf(rows, i), intents, version)'
  BY <1>2, GenuineKept DEF RowTrue
<1>4. CreateQueued(OrderOf(i)) => CreateQueued(OrderOf(i))' \/ version'[OrderOf(i)] > 0
  <2>1. ASSUME NEW j \in Formed, KindOf(j) = "create", OrderOf(j) = OrderOf(i), rows[j] # NoRow,
               ~(version'[OrderOf(i)] > 0)
        PROVE  /\ j \in Formed' /\ KindOf(j)' = "create" /\ OrderOf(j)' = OrderOf(i)'
               /\ rows'[j] # NoRow
    BY <1>1, <2>1, IntentKept
  <2>2. QED
    BY <2>1 DEF CreateQueued
<1>5. rows'[i].order = OrderOf(i)'
  BY <1>1, IntentKept DEF RowTrue
<1>6. HaltedRow(rows[i])' => version'[OrderOf(i)'] > 0
  BY <1>1, IntentKept DEF HaltedRow
<1>7. KindOf(i)' = "create" \/ version'[OrderOf(i)'] > 0 \/ CreateQueued(OrderOf(i))'
  BY <1>1, <1>4, IntentKept DEF RowTrue
<1>8. QED
  BY <1>1, <1>3, <1>5, <1>6, <1>7, IntentKept DEF RowTrue

LEMMA RowsKept ==
    ASSUME TypeOK, Onward, RowsTrue, Marked
    PROVE  RowsTrue'
<1> SUFFICES ASSUME NEW i \in Intents, rows'[i] # NoRow
             PROVE  RowTrue(i)'
  BY DEF RowsTrue
<1>1. rows[i] # NoRow /\ RowTrue(i)
  BY DEF RowsTrue, Marked
<1>2. HaltedRow(rows'[i]) => version'[OrderOf(i)] > 0
  BY <1>1 DEF Marked
<1>3. \A j \in Formed : rows[j] # NoRow => rows'[j] # NoRow
  BY FormedIntents DEF Marked
<1>4. QED
  BY <1>1, <1>2, <1>3, RowKept DEF Marked

LEMMA RowsUntouched ==
    ASSUME TypeOK, Onward, RowsTrue, rows' = rows
    PROVE  Marked
<1>1. rows \in [Intents -> RowType]
  BY DEF TypeOK, DiskTypeOK
<1>2. ASSUME NEW i \in Intents, rows[i] # NoRow, HaltedRow(rows[i])
      PROVE  version'[OrderOf(i)] > 0
  <2>1. i \in Formed /\ version[OrderOf(i)] > 0
    BY <1>2 DEF RowsTrue, RowTrue
  <2>2. QED
    BY <2>1, IntentKept
<1>3. QED
  BY <1>1, <1>2 DEF Marked

LEMMA MirrorKept ==
    ASSUME TypeOK, Onward, MirrorTrue, mirror' = mirror,
           \A i \in Intents :
               rows[i] # NoRow => rows'[i] # NoRow \/ version'[OrderOf(i)] > 0
    PROVE  MirrorTrue'
<1> SUFFICES ASSUME NEW i \in Intents, mirror[i] # NoRow
             PROVE  /\ i \in Formed' /\ mirror[i].order = OrderOf(i)'
                    /\ HaltedRow(mirror[i]) => version'[OrderOf(i)'] > 0
                    /\ KindOf(i)' = "create" => rows'[i] # NoRow \/ version'[OrderOf(i)'] > 0
  BY DEF MirrorTrue, HaltedRow
<1>1. i \in Formed
  BY DEF MirrorTrue
<1>2. QED
  BY <1>1, IntentKept DEF MirrorTrue

(* A mirror that was read from the disk. *)
LEMMA MirrorRead ==
    ASSUME RowsTrue', mirror' = rows'
    PROVE  MirrorTrue'
  BY DEF RowsTrue, RowTrue, MirrorTrue, HaltedRow

(* A mirror of nothing. *)
LEMMA MirrorEmptied ==
    ASSUME mirror' = [i \in Intents |-> NoRow]
    PROVE  MirrorTrue'
  BY DEF MirrorTrue

LEMMA KnownKept ==
    ASSUME TypeOK, Onward, NEW o \in Orders \cup {NULL}, NEW v \in Nat, KnownAt(o, v, version)
    PROVE  KnownAt(o, v, version')
  BY DEF Onward, KnownAt

LEMMA NothingAheadKept ==
    ASSUME TypeOK, Onward, NothingIsAhead,
           UNCHANGED <<cached, current, shown, hydration, reading>>
    PROVE  NothingIsAhead'
<1>1. /\ current \in Orders \cup {NULL} /\ shown \in Nat
      /\ hydration.order \in Orders \cup {NULL} /\ hydration.version \in Nat
      /\ reading.order \in Orders \cup {NULL} /\ reading.version \in Nat
      /\ \A o \in Orders : cached[o] \in Nat
  BY DEF TypeOK, ServerTypeOK, DiskTypeOK, ScreenTypeOK
<1>2. \A o \in Orders : cached[o] <= version'[o]
  BY <1>1 DEF Onward, NothingIsAhead
<1>3. /\ KnownAt(current, shown, version') /\ KnownAt(hydration.order, hydration.version, version')
      /\ KnownAt(reading.order, reading.version, version')
  BY <1>1, KnownKept DEF NothingIsAhead
<1>4. QED
  BY <1>2, <1>3 DEF NothingIsAhead, KnownAt

(* A request in hand, whatever became of it meanwhile. *)
LEMMA CallKept ==
    ASSUME TypeOK, Onward, NEW c \in Callers, CallTrue(c),
           call'[c].req = call[c].req,
           call'[c].seen \in Nat,
           call'[c].seen <= version'[OrderOf(call[c].req.intent)],
           call'[c].step \in {"applied", "cached"} => effects'[call[c].req.intent] > 0,
           call'[c].step \in {"conflict", "refused", "halting"} =>
               KindOf(call[c].req.intent) # "create",
           c \in Rebases => /\ rebase'[c].phase = rebase[c].phase
                            /\ rebase'[c].head = rebase[c].head,
           c = "direct" => Len(intents') = Len(intents)
    PROVE  CallTrue(c)'
<1> DEFINE i == call[c].req.intent
<1>1. i \in Formed
  BY DEF CallTrue, Genuine, Formed
<1>2. Genuine(call[c].req, intents, version)'
  BY GenuineKept DEF CallTrue
<1>3. c # "direct" => Stored(i)' /\ (KindOf(i)' = "create" \/ version'[OrderOf(i)'] > 0)
  BY <1>1, IntentKept DEF CallTrue
<1>4. c = "direct" => ~Stored(i)' /\ i = Len(intents')
  BY <1>1, IntentKept DEF CallTrue
<1>5. OrderOf(i)' = OrderOf(i) /\ KindOf(i)' = KindOf(i)
  BY <1>1, IntentKept
<1>6. c \in Rebases => rebase'[c].phase = "sending" /\ call'[c].req = rebase'[c].head
  BY DEF CallTrue
<1>7. i' = i
  OBVIOUS
<1>8. QED
  BY <1>2, <1>3, <1>4, <1>5, <1>6, <1>7 DEF CallTrue, Stored, OrderOf, KindOf

LEMMA CallUntouched ==
    ASSUME TypeOK, Onward, NEW c \in Callers, call[c] # NoCall, CallTrue(c),
           call'[c] = call[c],
           c \in Rebases => /\ rebase'[c].phase = rebase[c].phase
                            /\ rebase'[c].head = rebase[c].head,
           c = "direct" => Len(intents') = Len(intents)
    PROVE  CallTrue(c)'
<1>1. call[c].req.intent \in Formed
  BY DEF CallTrue, Genuine, Formed
<1>2. call[c].seen \in Nat
  BY DEF TypeOK, EngineTypeOK, CallType, NoCall
<1>3. /\ call'[c].seen <= version'[OrderOf(call[c].req.intent)]
      /\ call'[c].step \in {"applied", "cached"} => effects'[call[c].req.intent] > 0
      /\ call'[c].step \in {"conflict", "refused", "halting"} =>
             KindOf(call[c].req.intent) # "create"
  BY <1>1, <1>2, IntentKept DEF CallTrue
<1>4. QED
  BY <1>2, <1>3, CallKept

(* What is left of a pass.  What went was the whole order, or the order is *)
(* there.                                                                  *)
LEMMA PassKept ==
    ASSUME TypeOK, Onward, PassTrue, pass'.todo \subseteq pass.todo,
           \A f \in pass.todo \ pass'.todo : \A e \in pass'.todo :
               OrderOf(f.req.intent) = OrderOf(e.req.intent)
                   => version'[OrderOf(f.req.intent)] > 0
    PROVE  PassTrue'
<1> SUFFICES ASSUME NEW e \in pass'.todo PROVE ToDoTrue(e)'
  BY DEF PassTrue
<1>1. ToDoTrue(e) /\ e \in pass.todo
  BY DEF PassTrue
<1>2. \A f \in pass.todo : f.req.intent \in Formed
  BY DEF PassTrue, ToDoTrue, Genuine, Formed
<1>3. Genuine(e.req, intents, version)' /\ Stored(e.req.intent)'
  BY <1>1, <1>2, GenuineKept, IntentKept DEF ToDoTrue
<1>4. ASSUME CreateAhead(e), ~(version'[OrderOf(e.req.intent)] > 0) PROVE CreateAhead(e)'
  <2>1. PICK f \in pass.todo : /\ KindOf(f.req.intent) = "create" /\ f.group = e.group
                               /\ OrderOf(f.req.intent) = OrderOf(e.req.intent)
    BY <1>4 DEF CreateAhead
  <2>2. f \in pass'.todo
    BY <1>4, <2>1
  <2>3. /\ KindOf(f.req.intent)' = "create"
        /\ OrderOf(f.req.intent)' = OrderOf(e.req.intent)'
    BY <1>1, <1>2, <2>1, IntentKept
  <2>4. QED
    BY <2>1, <2>2, <2>3 DEF CreateAhead
<1>5. KindOf(e.req.intent)' = "create" \/ version'[OrderOf(e.req.intent)'] > 0 \/ CreateAhead(e)'
  BY <1>1, <1>2, <1>4, IntentKept DEF ToDoTrue
<1>6. QED
  BY <1>3, <1>5 DEF ToDoTrue

LEMMA RebaseKept ==
    ASSUME TypeOK, Onward, NEW r \in Rebases, RebaseTrue(r),
           rebase'[r].order = rebase[r].order, rebase'[r].head = rebase[r].head,
           rebase'[r].version <= version'[rebase[r].order],
           rebase'[r].phase \in {"reissuing", "sending"} =>
               rebase[r].phase \in {"reissuing", "sending"}
    PROVE  RebaseTrue(r)'
<1>1. rebase[r].order \in Orders /\ version'[rebase[r].order] > 0
  BY DEF RebaseTrue, Onward
<1>2. ASSUME rebase'[r].phase \in {"reissuing", "sending"}
      PROVE  /\ Genuine(rebase[r].head, intents', version')
             /\ Stored(rebase[r].head.intent)' /\ OrderOf(rebase[r].head.intent)' = rebase[r].order
  <2>1. rebase[r].head.intent \in Formed
    BY <1>2 DEF RebaseTrue, Genuine, Formed
  <2>2. QED
    BY <1>2, <2>1, GenuineKept, IntentKept DEF RebaseTrue
<1>3. QED
  BY <1>1, <1>2 DEF RebaseTrue, Stored, OrderOf

LEMMA RebaseUntouched ==
    ASSUME TypeOK, Onward, NEW r \in Rebases, RebaseTrue(r), rebase'[r] = rebase[r]
    PROVE  RebaseTrue(r)'
<1>1. rebase[r].order \in Orders /\ rebase[r].version \in Nat
  BY DEF RebaseTrue, TypeOK, EngineTypeOK, RebaseType
<1>2. rebase'[r].version <= version'[rebase[r].order]
  BY <1>1 DEF RebaseTrue, Onward
<1>3. QED
  BY <1>2, RebaseKept

LEMMA EffectsKept ==
    ASSUME EffectsTrue, CreatesAreFirst, UNCHANGED <<version, taken, effects, intents>>
    PROVE  EffectsTrue' /\ CreatesAreFirst'
  BY DEF EffectsTrue, CreatesAreFirst, Formed, OrderOf, KindOf

(* Types of what a step leaves alone. *)
LEMMA TypedUntouched ==
    ASSUME TypeOK
    PROVE  /\ UNCHANGED <<serverVars, loose>> => ServerTypeOK'
           /\ UNCHANGED diskVars => DiskTypeOK'
           /\ UNCHANGED screenVars => ScreenTypeOK'
           /\ UNCHANGED engineVars => EngineTypeOK'
           /\ UNCHANGED <<historyVars, faults>> => HistoryTypeOK'
<1>1. UNCHANGED <<serverVars, loose>> => ServerTypeOK'
  BY DEF TypeOK, ServerTypeOK, serverVars
<1>2. UNCHANGED diskVars => DiskTypeOK'
  BY DEF TypeOK, DiskTypeOK, diskVars
<1>3. UNCHANGED screenVars => ScreenTypeOK'
  BY DEF TypeOK, ScreenTypeOK, screenVars
<1>4. UNCHANGED engineVars => EngineTypeOK'
  BY DEF TypeOK, EngineTypeOK, engineVars
<1>5. UNCHANGED <<historyVars, faults>> => HistoryTypeOK'
  BY DEF TypeOK, HistoryTypeOK, historyVars, Formed
<1>6. QED
  BY <1>1, <1>2, <1>3, <1>4, <1>5

-----------------------------------------------------------------------------
(* The server: each request it takes has had an effect, and nothing but a  *)
(* create brings an order about.                                           *)

LEMMA AnswersAreThree ==
    ASSUME TypeOK, NEW req, Genuine(req, intents, version)
    PROVE  /\ Answer(req) \in {"applied", "conflict", "refused"}
           /\ Answer(req) = "applied" => Repeats(req) \/ Fits(req)
           /\ Answer(req) # "applied" => KindOf(req.intent) # "create"
<1>1. /\ Answer(req) \in {"applied", "conflict", "refused"}
      /\ Answer(req) = "applied" => Repeats(req) \/ Fits(req)
  BY DEF Answer, Repeats, Fits
<1>2. ASSUME KindOf(req.intent) = "create" PROVE Answer(req) = "applied"
  <2>1. req.intent \in Formed /\ OrderOf(req.intent) \in Orders /\ req.base = 0
    BY <1>2, FormedIntents DEF Genuine, Formed, KindOf
  <2>2. Repeats(req) \/ Fits(req)
    BY <1>2, <2>1 DEF Repeats, Fits, KindOf, TypeOK, ServerTypeOK
  <2>3. QED
    BY <1>2, <2>2 DEF Answer, KindOf, Fits
<1>3. QED
  BY <1>1, <1>2

LEMMA ProcessCounts ==
    ASSUME TypeOK, CreatesAreFirst, EffectsTrue, NEW req, Genuine(req, intents, version),
           Process(req), UNCHANGED intents
    PROVE  /\ version' \in [Orders -> Nat] /\ effects' \in [Intents -> Nat]
           /\ taken' \subseteq Intents \X (1..MaxIds)
           /\ Onward /\ EffectsTrue' /\ CreatesAreFirst'
           /\ Answer(req) = "applied" => effects'[req.intent] > 0
<1> DEFINE i == req.intent
           o == OrderOf(req.intent)
<1>1. /\ i \in Formed /\ i \in Intents /\ o \in Orders /\ req \in Request /\ req.base \in Nat
      /\ version \in [Orders -> Nat] /\ effects \in [Intents -> Nat]
      /\ taken \subseteq Intents \X (1..MaxIds) /\ req.k \in 1..MaxIds
  BY FormedIntents DEF Genuine, Formed, TypeOK, ServerTypeOK, HistoryTypeOK, Request
<1>2. CreatesAreFirst'
  BY EffectsKept DEF CreatesAreFirst, Formed, OrderOf, KindOf
<1>3. CASE Answer(req) = "applied" /\ ~Repeats(req)
  <2>1. /\ version' = [version EXCEPT ![o] = @ + 1] /\ effects' = [effects EXCEPT ![i] = @ + 1]
        /\ taken' = taken \cup {<<i, req.k>>}
    BY <1>3 DEF Process
  <2>2. version[o] = req.base
    BY <1>3, AnswersAreThree DEF Fits
  <2>3. KindOf(i) = "create" \/ version[o] > 0
    BY <1>1, <2>2 DEF Genuine, OrderOf, KindOf
  <2>4. /\ version' \in [Orders -> Nat] /\ effects' \in [Intents -> Nat]
        /\ version'[o] = version[o] + 1 /\ effects'[i] = effects[i] + 1
        /\ \A p \in Orders : p # o => version'[p] = version[p]
        /\ \A j \in Intents : j # i => effects'[j] = effects[j]
    BY <1>1, <2>1
  <2>5. Onward
    BY <1>1, <2>4 DEF Onward, Formed
  <2>6. \A j \in Formed' : /\ j \in Formed /\ j \in Intents
                           /\ OrderOf(j)' = OrderOf(j) /\ KindOf(j)' = KindOf(j)
    BY FormedIntents DEF Formed, OrderOf, KindOf
  <2>7. \A j \in Formed : effects'[j] > 0 => version'[OrderOf(j)] > 0
    <3> SUFFICES ASSUME NEW j \in Formed, effects'[j] > 0 PROVE version'[OrderOf(j)] > 0
      OBVIOUS
    <3>1. CASE OrderOf(j) = o
      BY <1>1, <2>4, <3>1
    <3>2. CASE OrderOf(j) # o
      BY <1>1, <2>4, <3>2, FormedIntents DEF EffectsTrue
    <3>3. QED
      BY <3>1, <3>2
  <2>8. \A j \in Formed : KindOf(j) = "create" /\ version'[OrderOf(j)] > 0 => effects'[j] > 0
    <3> SUFFICES ASSUME NEW j \in Formed, KindOf(j) = "create", version'[OrderOf(j)] > 0
                 PROVE  effects'[j] > 0
      OBVIOUS
    <3>1. CASE j = i
      BY <1>1, <2>4, <3>1
    <3>2. CASE OrderOf(j) # o
      BY <1>1, <2>4, <3>2, FormedIntents DEF EffectsTrue
    <3>3. CASE OrderOf(j) = o /\ j # i
      <4>1. version[o] > 0
        <5>1. CASE KindOf(i) = "create"
          <6>1. i <= j /\ j <= i
            BY <1>1, <3>3, <5>1 DEF CreatesAreFirst
          <6>2. i \in Nat /\ j \in Nat
            BY <1>1, FormedIntents, IntentsAreNumbers
          <6>3. QED
            BY <3>3, <6>1, <6>2
        <5>2. QED
          BY <2>3, <5>1
      <4>2. QED
        BY <1>1, <2>4, <3>3, <4>1, FormedIntents DEF EffectsTrue
    <3>4. QED
      BY <3>1, <3>2, <3>3
  <2>9. \A m \in taken' : m[1] \in Formed /\ effects'[m[1]] > 0
    <3> SUFFICES ASSUME NEW m \in taken' PROVE m[1] \in Formed /\ effects'[m[1]] > 0
      OBVIOUS
    <3>1. CASE m \in taken
      BY <1>1, <2>4, <3>1, FormedIntents DEF EffectsTrue
    <3>2. CASE m = <<i, req.k>>
      BY <1>1, <2>4, <3>2
    <3>3. QED
      BY <2>1, <3>1, <3>2
  <2>10. /\ \A p \in Orders : version'[p] > 0 => \E j \in Formed : OrderOf(j) = p
         /\ \A j \in Intents \ Formed : effects'[j] = 0
    BY <1>1, <2>4 DEF EffectsTrue
  <2>11. EffectsTrue'
    BY <2>6, <2>7, <2>8, <2>9, <2>10 DEF EffectsTrue, Formed, OrderOf, KindOf
  <2>12. taken' \subseteq Intents \X (1..MaxIds)
    BY <1>1, <2>1
  <2>13. QED
    BY <1>1, <1>2, <2>4, <2>5, <2>11, <2>12
<1>4. CASE ~(Answer(req) = "applied" /\ ~Repeats(req))
  <2>1. version' = version /\ effects' = effects
    BY <1>4 DEF Process
  <2>2. Onward
    BY <2>1, OnwardAsTyped
  <2>3. Answer(req) = "applied" => effects[i] > 0
    <3>1. ASSUME Repeats(req) PROVE effects[i] > 0
      <4>1. CASE <<i, req.k>> \in taken
        BY <4>1 DEF EffectsTrue
      <4>2. CASE KindOf(i) = "create" /\ version[o] > 0
        BY <1>1, <4>2 DEF EffectsTrue
      <4>3. QED
        BY <3>1, <4>1, <4>2 DEF Repeats, KindOf
    <3>2. QED
      BY <1>4, <3>1
  <2>4. taken' = taken \/ (Answer(req) = "applied" /\ taken' = taken \cup {<<i, req.k>>})
    BY DEF Process
  <2>5. taken' \subseteq Intents \X (1..MaxIds)
    BY <1>1, <2>4
  <2>6. \A m \in taken' : m[1] \in Formed /\ effects[m[1]] > 0
    <3> SUFFICES ASSUME NEW m \in taken' PROVE m[1] \in Formed /\ effects[m[1]] > 0
      OBVIOUS
    <3>1. CASE m \in taken
      BY <3>1 DEF EffectsTrue
    <3>2. CASE Answer(req) = "applied" /\ m = <<i, req.k>>
      BY <1>1, <2>3, <3>2
    <3>3. QED
      BY <2>4, <3>1, <3>2
  <2>7. EffectsTrue'
    BY <2>1, <2>6 DEF EffectsTrue, Formed, OrderOf, KindOf
  <2>8. QED
    BY <1>1, <1>2, <2>1, <2>2, <2>3, <2>5, <2>7
<1>5. QED
  BY <1>3, <1>4

LEMMA CallHasRequest ==
    ASSUME TypeOK, CallsTrue, NEW c \in Callers, call[c].step # "idle"
    PROVE  /\ call[c] # NoCall /\ CallTrue(c) /\ Genuine(call[c].req, intents, version)
           /\ call[c].req \in Request /\ call[c].seen \in Nat
           /\ call[c].req.intent \in Formed /\ call[c].req.intent \in Intents
           /\ OrderOf(call[c].req.intent) \in Orders
<1>1. call[c] # NoCall
  BY DEF NoCall
<1>2. CallTrue(c)
  BY <1>1 DEF CallsTrue
<1>3. Genuine(call[c].req, intents, version)
  BY <1>2 DEF CallTrue
<1>4. call[c].req \in Request /\ call[c].seen \in Nat /\ call[c].req.intent \in Formed
  BY <1>1, <1>3 DEF TypeOK, EngineTypeOK, CallType, Genuine, Formed
<1>5. QED
  BY <1>1, <1>2, <1>3, <1>4, FormedIntents

LEMMA ServeKeeps ==
    ASSUME Inv, NEW c \in Callers, Serve(c)
    PROVE  Inv'
<1> USE DEF Inv
<1> DEFINE req == call[c].req
           o   == OrderOf(call[c].req.intent)
<1>1. /\ call[c].step = "sent" /\ Process(req)
      /\ call' = [call EXCEPT ![c].step = Answer(req), ![c].seen = version'[o]]
      /\ UNCHANGED <<changes, loose, diskVars, screenVars, pass, rebase,
                     intents, minted, tried, doubted, givenUp, strayed, faults>>
  BY DEF Serve
<1>2. /\ call[c] # NoCall /\ CallTrue(c) /\ Genuine(req, intents, version) /\ o \in Orders
      /\ req \in Request /\ req.intent \in Formed
  BY <1>1, CallHasRequest
<1>3. /\ version' \in [Orders -> Nat] /\ effects' \in [Intents -> Nat]
      /\ taken' \subseteq Intents \X (1..MaxIds)
      /\ Onward /\ EffectsTrue' /\ CreatesAreFirst'
      /\ Answer(req) = "applied" => effects'[req.intent] > 0
  BY <1>1, <1>2, ProcessCounts
<1>4. /\ Answer(req) \in {"applied", "conflict", "refused"}
      /\ Answer(req) # "applied" => KindOf(req.intent) # "create"
  BY <1>2, AnswersAreThree
<1>5. call[c] \in [step : {"sent", "applied", "conflict", "refused", "cached", "halting"},
                   req : Request, seen : Nat]
  BY <1>2 DEF TypeOK, EngineTypeOK, CallType
<1>6. /\ call'[c] = [step |-> Answer(req), req |-> req, seen |-> version'[o]]
      /\ \A d \in Callers : d # c => call'[d] = call[d]
      /\ call' \in [Callers -> CallType]
  BY <1>1, <1>2, <1>3, <1>4, <1>5 DEF TypeOK, EngineTypeOK, CallType
<1>7. TypeOK'
  <2>1. ServerTypeOK'
    BY <1>1, <1>3 DEF TypeOK, ServerTypeOK
  <2>2. HistoryTypeOK'
    BY <1>1, <1>3 DEF TypeOK, HistoryTypeOK, Formed
  <2>3. EngineTypeOK'
    BY <1>1, <1>6 DEF TypeOK, EngineTypeOK
  <2>4. QED
    BY <1>1, <2>1, <2>2, <2>3, TypedUntouched DEF TypeOK
<1>8. Marked
  BY <1>1, <1>3, RowsUntouched DEF diskVars
<1>9. RowsTrue' /\ MirrorTrue' /\ NothingIsAhead' /\ LooseTrue' /\ PassTrue'
  BY <1>1, <1>3, <1>8, RowsKept, MirrorKept, NothingAheadKept, LooseKept, PassKept
     DEF diskVars, screenVars
<1>10. RebasesTrue'
  BY <1>1, <1>3, RebaseUntouched DEF RebasesTrue
<1>11. CallsTrue'
  <2> SUFFICES ASSUME NEW d \in Callers, call'[d] # NoCall PROVE CallTrue(d)'
    BY DEF CallsTrue
  <2>1. CASE d = c
    <3>1. version'[o] \in Nat /\ call'[c].seen = version'[o] /\ call'[c].req = req
      BY <1>2, <1>3, <1>6
    <3>2. /\ call'[c].step \in {"applied", "cached"} => effects'[req.intent] > 0
          /\ call'[c].step \in {"conflict", "refused", "halting"} => KindOf(req.intent) # "create"
      BY <1>3, <1>4, <1>6
    <3>3. rebase' = rebase /\ intents' = intents
      BY <1>1
    <3>4. call'[c].seen <= version'[o]
      BY <3>1
    <3>5. CallTrue(c)'
      BY <1>2, <1>3, <3>1, <3>2, <3>3, <3>4, CallKept
    <3>6. QED
      BY <2>1, <3>5
  <2>2. CASE d # c
    BY <1>1, <1>3, <1>6, <2>2, CallUntouched DEF CallsTrue
  <2>3. QED
    BY <2>1, <2>2
<1>12. QED
  BY <1>3, <1>7, <1>9, <1>10, <1>11

LEMMA ServeLooseKeeps ==
    ASSUME Inv, NEW req \in loose, ServeLoose(req)
    PROVE  Inv'
<1> USE DEF Inv
<1>1. /\ Process(req) /\ loose' = loose \ {req}
      /\ UNCHANGED <<changes, diskVars, screenVars, engineVars,
                     intents, minted, tried, doubted, givenUp, strayed, faults>>
  BY DEF ServeLoose
<1>2. Genuine(req, intents, version)
  BY DEF LooseTrue
<1>3. /\ version' \in [Orders -> Nat] /\ effects' \in [Intents -> Nat]
      /\ taken' \subseteq Intents \X (1..MaxIds)
      /\ Onward /\ EffectsTrue' /\ CreatesAreFirst'
  BY <1>1, <1>2, ProcessCounts
<1>4. TypeOK'
  <2>1. ServerTypeOK'
    BY <1>1, <1>3 DEF TypeOK, ServerTypeOK
  <2>2. HistoryTypeOK'
    BY <1>1, <1>3 DEF TypeOK, HistoryTypeOK, Formed
  <2>3. QED
    BY <1>1, <2>1, <2>2, TypedUntouched DEF TypeOK
<1>5. Marked
  BY <1>1, <1>3, RowsUntouched DEF diskVars
<1>6. RowsTrue' /\ MirrorTrue' /\ NothingIsAhead' /\ LooseTrue' /\ PassTrue'
  BY <1>1, <1>3, <1>5, RowsKept, MirrorKept, NothingAheadKept, LooseKept, PassKept
     DEF diskVars, screenVars, engineVars
<1>7. RebasesTrue' /\ CallsTrue'
  BY <1>1, <1>3, RebaseUntouched, CallUntouched DEF RebasesTrue, CallsTrue, engineVars
<1>8. QED
  BY <1>3, <1>4, <1>6, <1>7

LEMMA OtherTerminalKeeps ==
    ASSUME Inv, NEW o \in Orders, OtherTerminal(o)
    PROVE  Inv'
<1> USE DEF Inv
<1>1. /\ version[o] > 0 /\ version' = [version EXCEPT ![o] = @ + 1] /\ changes' = changes + 1
      /\ UNCHANGED <<taken, loose, diskVars, screenVars, engineVars, historyVars, faults>>
  BY DEF OtherTerminal
<1>2. /\ version' \in [Orders -> Nat] /\ version'[o] = version[o] + 1
      /\ \A p \in Orders : p # o => version'[p] = version[p]
  BY <1>1 DEF TypeOK, ServerTypeOK
<1>3. Onward
  BY <1>1, <1>2 DEF TypeOK, ServerTypeOK, HistoryTypeOK, Onward, historyVars, Formed
<1>4. TypeOK'
  <2>1. ServerTypeOK'
    BY <1>1, <1>2 DEF TypeOK, ServerTypeOK
  <2>2. QED
    BY <1>1, <2>1, TypedUntouched DEF TypeOK
<1>5. \A p \in Orders : version'[p] > 0 <=> version[p] > 0
  BY <1>1, <1>2 DEF TypeOK, ServerTypeOK
<1>6. EffectsTrue' /\ CreatesAreFirst'
  BY <1>1, <1>5, FormedIntents
     DEF EffectsTrue, CreatesAreFirst, historyVars, Formed, OrderOf, KindOf
<1>7. Marked
  BY <1>1, <1>3, RowsUntouched DEF diskVars
<1>8. RowsTrue' /\ MirrorTrue' /\ NothingIsAhead' /\ LooseTrue' /\ PassTrue'
  BY <1>1, <1>3, <1>7, RowsKept, MirrorKept, NothingAheadKept, LooseKept, PassKept
     DEF diskVars, screenVars, engineVars
<1>9. RebasesTrue' /\ CallsTrue'
  BY <1>1, <1>3, RebaseUntouched, CallUntouched DEF RebasesTrue, CallsTrue, engineVars, historyVars
<1>10. QED
  BY <1>4, <1>6, <1>8, <1>9

-----------------------------------------------------------------------------
(* attempt() *)

LEMMA ReturnKeeps ==
    ASSUME Inv, NEW c \in Callers, NEW result \in {"applied", "halted", "failed"},
           Return(c, result), call[c].step # "idle",
           UNCHANGED <<version, effects, intents>>,
           result = "applied" => effects[call[c].req.intent] > 0
    PROVE  /\ CallsTrue' /\ PassTrue' /\ RebasesTrue'
           /\ call' \in [Callers -> CallType]
           /\ pass' \in PassType
           /\ rebase' \in [Rebases -> RebaseType]
<1> USE DEF Inv
<1> DEFINE req == call[c].req
           o   == OrderOf(call[c].req.intent)
           left == Remaining(pass.todo, result, req)
<1>1. /\ CallTrue(c) /\ req \in Request /\ call[c].seen \in Nat /\ req.intent \in Formed
      /\ o \in Orders
  BY CallHasRequest
<1>2. /\ call' = [call EXCEPT ![c] = NoCall]
      /\ pass' = IF c # "pass" THEN pass ELSE [pass EXCEPT !.todo = left]
      /\ rebase' = IF c \notin Rebases THEN rebase
                   ELSE [rebase EXCEPT
                            ![c].phase = IF result = "applied" THEN "reading" ELSE "ending",
                            ![c].version = IF result = "applied" THEN call[c].seen ELSE @]
  BY DEF Return
<1>3. Onward
  BY OnwardAsTyped
<1>4. /\ left \subseteq pass.todo
      /\ \A f \in pass.todo \ left : \A e \in left :
             OrderOf(f.req.intent) = OrderOf(e.req.intent)
                 => result = "applied" /\ f.req = req
  BY DEF Remaining
<1>5. /\ call' \in [Callers -> CallType]
      /\ call'[c] = NoCall /\ \A d \in Callers : d # c => call'[d] = call[d]
  BY <1>2 DEF TypeOK, EngineTypeOK, CallType
<1>6. /\ pass' \in PassType
      /\ pass'.todo = pass.todo \/ pass'.todo = left
  BY <1>2, <1>4 DEF TypeOK, EngineTypeOK, PassType
<1>7. PassTrue'
  <2>1. result = "applied" => version[o] > 0
    BY <1>1 DEF EffectsTrue
  <2>2. QED
    BY <1>3, <1>4, <1>6, <2>1, PassKept
<1>8. /\ rebase' \in [Rebases -> RebaseType]
      /\ \A r \in Rebases : r # c => rebase'[r] = rebase[r]
      /\ c \in Rebases => /\ rebase'[c].order = rebase[c].order /\ rebase'[c].head = rebase[c].head
                          /\ rebase'[c].version = IF result = "applied" THEN call[c].seen
                                                  ELSE rebase[c].version
                          /\ rebase'[c].phase \in {"reading", "ending"}
  BY <1>1, <1>2 DEF TypeOK, EngineTypeOK, CallType, RebaseType
<1>9. RebasesTrue'
  <2> SUFFICES ASSUME NEW r \in Rebases, rebase'[r].phase # "idle" PROVE RebaseTrue(r)'
    BY DEF RebasesTrue
  <2>1. CASE r = c
    <3>1. rebase[c].phase = "sending" /\ req = rebase[c].head
      BY <1>1, <2>1 DEF CallTrue
    <3>2. RebaseTrue(c) /\ o = rebase[c].order
      BY <2>1, <3>1 DEF RebasesTrue, RebaseTrue
    <3>3. rebase'[c].version <= version'[rebase[c].order]
      BY <1>1, <1>8, <2>1, <3>2 DEF CallTrue, RebaseTrue
    <3>4. QED
      BY <1>3, <1>8, <2>1, <3>2, <3>3, RebaseKept
  <2>2. CASE r # c
    BY <1>3, <1>8, <2>2, RebaseUntouched DEF RebasesTrue
  <2>3. QED
    BY <2>1, <2>2
<1>10. CallsTrue'
  <2> SUFFICES ASSUME NEW d \in Callers, call'[d] # NoCall PROVE CallTrue(d)'
    BY DEF CallsTrue
  <2>1. d # c /\ call'[d] = call[d]
    BY <1>5
  <2>2. d \in Rebases => rebase'[d] = rebase[d]
    BY <1>8, <2>1
  <2>3. QED
    BY <1>3, <2>1, <2>2, CallUntouched DEF CallsTrue
<1>11. QED
  BY <1>5, <1>6, <1>7, <1>8, <1>9, <1>10

(* A row is marked under its own id only, and a halt reaches no row of an  *)
(* order that the server does not know.                                    *)
LEMMA StatusMarks ==
    ASSUME TypeOK, RowsTrue, Onward, NEW req \in Request, NEW status \in {"PENDING", "SYNCING"},
           rows' = WithStatus(req, status)
    PROVE  Marked
<1>1. rows \in [Intents -> RowType] /\ req.intent \in Intents /\ req.k \in 1..MaxIds
  BY DEF TypeOK, DiskTypeOK, Request
<1>2. CASE ~HasRow(req)
  BY <1>2, RowsUntouched DEF WithStatus
<1>3. CASE HasRow(req)
  <2>1. rows' = [rows EXCEPT ![req.intent].status = status]
    BY <1>3 DEF WithStatus
  <2>2. rows[req.intent] # NoRow
    BY <1>1, <1>3, RowIsThere, ConstantsAssumption DEF HasRow, NoRow, ConstantsAssumption
  <2>3. rows'[req.intent] = [rows[req.intent] EXCEPT !.status = status]
    BY <1>1, <2>1
  <2>4. /\ rows'[req.intent] \in RowType /\ rows'[req.intent] # NoRow
        /\ rows'[req.intent].order = rows[req.intent].order
        /\ rows'[req.intent].k = rows[req.intent].k
        /\ rows'[req.intent].base = rows[req.intent].base
        /\ rows'[req.intent].status = status
    BY <1>1, <2>2, <2>3, RowMarked
  <2>5. \A i \in Intents : i # req.intent => rows'[i] = rows[i]
    BY <1>1, <2>1
  <2>6. rows' \in [Intents -> RowType]
    BY <1>1, <2>1, <2>4, <2>5
  <2>7. ASSUME NEW i \in Intents, rows[i] # NoRow, HaltedRow(rows'[i])
        PROVE  version'[OrderOf(i)] > 0
    <3>1. i # req.intent
      BY <2>4, <2>7 DEF HaltedRow
    <3>2. i \in Formed /\ version[OrderOf(i)] > 0
      BY <2>5, <2>7, <3>1 DEF RowsTrue, RowTrue
    <3>3. QED
      BY <3>2, IntentKept
  <2>8. QED
    BY <2>2, <2>4, <2>5, <2>6, <2>7 DEF Marked
<1>4. QED
  BY <1>2, <1>3

LEMMA HaltMarks ==
    ASSUME TypeOK, RowsTrue, Onward, NEW req \in Request, req.intent \in Formed,
           rows' = WithHalt(req),
           \/ version[OrderOf(req.intent)] > 0
           \/ ~Stored(req.intent) /\ req.intent = Len(intents)
    PROVE  Marked
<1> DEFINE o == OrderOf(req.intent)
<1>1. /\ rows \in [Intents -> RowType] /\ req.intent \in Intents /\ req.k \in 1..MaxIds
      /\ o \in Orders
  BY FormedIntents DEF TypeOK, DiskTypeOK, Request
<1>2. ASSUME NEW i \in Intents
      PROVE  \/ rows'[i] = rows[i]
             \/ /\ rows[i] # NoRow /\ OrderOf(i) = o /\ version[o] > 0
                /\ \E s \in {"CONFLICT", "BLOCKED"} : rows'[i] = [rows[i] EXCEPT !.status = s]
  <2>1. CASE i = req.intent /\ HasRow(req)
    <3>1. rows'[i] = [rows[i] EXCEPT !.status = "CONFLICT"]
      BY <2>1 DEF WithHalt
    <3>2. rows[i] # NoRow
      BY <1>1, <2>1, RowIsThere, ConstantsAssumption DEF HasRow, NoRow, ConstantsAssumption
    <3>3. Stored(i)
      BY <3>2 DEF RowsTrue, RowTrue
    <3>4. QED
      BY <2>1, <3>1, <3>2, <3>3
  <2>2. CASE ~(i = req.intent /\ HasRow(req)) /\ i > req.intent /\ i \in Queued(rows, o)
    <3>1. rows'[i] = [rows[i] EXCEPT !.status = "BLOCKED"]
      BY <2>2 DEF WithHalt
    <3>2. rows[i] # NoRow /\ rows[i].order = o
      BY <2>2 DEF Queued
    <3>3. i \in Formed /\ OrderOf(i) = o
      BY <3>2 DEF RowsTrue, RowTrue
    <3>4. i \in Nat /\ Len(intents) \in Nat /\ i <= Len(intents)
      BY <3>3, IntentsAreNumbers, LenProperties DEF TypeOK, HistoryTypeOK, Formed
    <3>5. version[o] > 0
      BY <2>2, <3>4
    <3>6. QED
      BY <3>1, <3>2, <3>3, <3>5
  <2>3. CASE ~(i = req.intent /\ HasRow(req)) /\ ~(i > req.intent /\ i \in Queued(rows, o))
    BY <2>3 DEF WithHalt
  <2>4. QED
    BY <2>1, <2>2, <2>3
<1>3. ASSUME NEW i \in Intents
      PROVE  /\ rows'[i] \in RowType /\ (rows'[i] = NoRow <=> rows[i] = NoRow)
             /\ rows'[i].order = rows[i].order /\ rows'[i].k = rows[i].k
             /\ rows'[i].base = rows[i].base
             /\ rows[i] # NoRow /\ HaltedRow(rows'[i]) => version'[OrderOf(i)] > 0
  <2>1. CASE rows'[i] = rows[i]
    <3>1. rows[i] # NoRow /\ HaltedRow(rows[i]) => i \in Formed /\ version[OrderOf(i)] > 0
      BY DEF RowsTrue, RowTrue
    <3>2. QED
      BY <1>1, <2>1, <3>1, IntentKept
  <2>2. CASE ~(rows'[i] = rows[i])
    <3>1. /\ rows[i] # NoRow /\ OrderOf(i) = o /\ version[o] > 0
          /\ \E s \in {"CONFLICT", "BLOCKED"} : rows'[i] = [rows[i] EXCEPT !.status = s]
      BY <1>2, <2>2
    <3>2. version'[o] > 0
      BY <1>1, <3>1 DEF Onward
    <3>3. QED
      BY <1>1, <3>1, <3>2, RowMarked
  <2>3. QED
    BY <2>1, <2>2
<1>4. rows' = [i \in Intents |-> rows'[i]]
  BY DEF WithHalt
<1>5. QED
  BY <1>3, <1>4 DEF Marked

(* Rows that leave the queue take no create with them that others need. *)
LEMMA RowsRemoved ==
    ASSUME TypeOK, Onward, RowsTrue, rows' \in [Intents -> RowType],
           \A i \in Intents : rows'[i] = rows[i] \/ rows'[i] = NoRow,
           \A i, j \in Intents :
               /\ rows[j] # NoRow /\ rows'[j] = NoRow /\ KindOf(j) = "create"
               /\ rows'[i] # NoRow /\ OrderOf(i) = OrderOf(j)
               => version'[OrderOf(j)] > 0
    PROVE  RowsTrue'
<1> SUFFICES ASSUME NEW i \in Intents, rows'[i] # NoRow
             PROVE  RowTrue(i)'
  BY DEF RowsTrue
<1>1. rows'[i] = rows[i] /\ rows[i] # NoRow /\ RowTrue(i)
  BY DEF RowsTrue
<1>2. HaltedRow(rows'[i]) => version'[OrderOf(i)] > 0
  BY <1>1, IntentKept DEF RowTrue
<1>3. \A j \in Formed :
          KindOf(j) = "create" /\ OrderOf(j) = OrderOf(i) /\ rows[j] # NoRow
          => rows'[j] # NoRow \/ version'[OrderOf(i)] > 0
  BY FormedIntents
<1>4. QED
  BY <1>1, <1>2, <1>3, RowKept

(* What a marked queue leaves true. *)
LEMMA MarkedKeeps ==
    ASSUME Inv, Marked, UNCHANGED <<version, effects, intents>>
    PROVE  RowsTrue' /\ (mirror' = mirror => MirrorTrue')
<1>1. Onward
  BY OnwardAsTyped DEF Inv
<1>2. \A i \in Intents : rows[i] # NoRow => rows'[i] # NoRow
  BY DEF Marked
<1>3. QED
  BY <1>1, <1>2, RowsKept, MirrorKept DEF Inv

LEMMA LoseKeeps ==
    ASSUME Inv, NEW c \in Callers, Lose(c)
    PROVE  Inv'
<1> USE DEF Inv
<1> DEFINE req == call[c].req
<1>1. /\ call[c].step # "idle" /\ faults' = faults + 1
      /\ loose' = loose \/ loose' = loose \cup {req}
      /\ rows' = WithStatus(req, "PENDING") /\ Return(c, "failed")
      /\ UNCHANGED <<serverVars, cached, pointer, screenVars, historyVars>>
  BY DEF Lose, Fault
<1>2. req \in Request /\ Genuine(req, intents, version)
  BY <1>1, CallHasRequest
<1>3. Onward /\ UNCHANGED <<version, taken, effects, intents>>
  BY <1>1, OnwardAsTyped DEF serverVars, historyVars
<1>4. Marked
  BY <1>1, <1>2, <1>3, StatusMarks
<1>5. /\ CallsTrue' /\ PassTrue' /\ RebasesTrue'
      /\ call' \in [Callers -> CallType] /\ pass' \in PassType /\ rebase' \in [Rebases -> RebaseType]
  BY <1>1, <1>3, ReturnKeeps
<1>6. TypeOK'
  <2>1. ServerTypeOK'
    BY <1>1, <1>2 DEF TypeOK, ServerTypeOK, serverVars
  <2>2. DiskTypeOK'
    BY <1>1, <1>4 DEF TypeOK, DiskTypeOK, Marked
  <2>3. EngineTypeOK'
    BY <1>5 DEF EngineTypeOK
  <2>4. HistoryTypeOK'
    BY <1>1 DEF TypeOK, HistoryTypeOK, historyVars, Formed
  <2>5. QED
    BY <1>1, <2>1, <2>2, <2>3, <2>4, TypedUntouched DEF TypeOK
<1>7. RowsTrue' /\ MirrorTrue' /\ NothingIsAhead' /\ EffectsTrue' /\ CreatesAreFirst'
  BY <1>1, <1>3, <1>4, MarkedKeeps, NothingAheadKept, EffectsKept DEF screenVars
<1>8. LooseTrue'
  BY <1>1, <1>2, <1>3 DEF LooseTrue
<1>9. QED
  BY <1>5, <1>6, <1>7, <1>8

LEMMA HaltQueueKeeps ==
    ASSUME Inv, NEW c \in Callers, HaltQueue(c)
    PROVE  Inv'
<1> USE DEF Inv
<1> DEFINE req == call[c].req
<1>1. /\ call[c].step \in {"halting", "refused"} /\ Return(c, "halted")
      /\ \/ rows' = WithHalt(req) /\ faults' = faults
         \/ rows' = rows /\ faults' = faults + 1
      /\ tried' \subseteq tried
      /\ UNCHANGED <<serverVars, loose, cached, pointer, screenVars,
                     intents, minted, effects, doubted, givenUp, strayed>>
  BY DEF HaltQueue, WriteFails, Fault
<1>2. req \in Request /\ req.intent \in Formed /\ CallTrue(c) /\ call[c].step # "idle"
  BY <1>1, CallHasRequest
<1>3. Onward /\ UNCHANGED <<version, taken, effects, intents>>
  BY <1>1, OnwardAsTyped DEF serverVars
<1>4. Marked
  <2>1. version[OrderOf(req.intent)] > 0 \/ (~Stored(req.intent) /\ req.intent = Len(intents))
    BY <1>1, <1>2 DEF CallTrue
  <2>2. QED
    BY <1>1, <1>2, <1>3, <2>1, HaltMarks, RowsUntouched
<1>5. /\ CallsTrue' /\ PassTrue' /\ RebasesTrue'
      /\ call' \in [Callers -> CallType] /\ pass' \in PassType /\ rebase' \in [Rebases -> RebaseType]
  BY <1>1, <1>2, <1>3, ReturnKeeps
<1>6. TypeOK'
  <2>1. DiskTypeOK'
    BY <1>1, <1>4 DEF TypeOK, DiskTypeOK, Marked
  <2>2. EngineTypeOK'
    BY <1>5 DEF EngineTypeOK
  <2>3. HistoryTypeOK'
    BY <1>1 DEF TypeOK, HistoryTypeOK, Formed
  <2>4. QED
    BY <1>1, <2>1, <2>2, <2>3, TypedUntouched DEF TypeOK
<1>7. RowsTrue' /\ MirrorTrue' /\ NothingIsAhead' /\ EffectsTrue' /\ CreatesAreFirst' /\ LooseTrue'
  BY <1>1, <1>3, <1>4, MarkedKeeps, NothingAheadKept, EffectsKept, LooseKept DEF screenVars
<1>8. QED
  BY <1>5, <1>6, <1>7

LEMMA DeleteRowKeeps ==
    ASSUME Inv, NEW c \in Callers, DeleteRow(c)
    PROVE  Inv'
<1> USE DEF Inv
<1> DEFINE req == call[c].req
<1>1. /\ call[c].step = "cached" /\ Return(c, "applied")
      /\ rows' = rows \/ (HasRow(req) /\ rows' = [rows EXCEPT ![req.intent] = NoRow])
      /\ faults' = faults \/ faults' = faults + 1
      /\ UNCHANGED <<serverVars, loose, cached, pointer, screenVars, historyVars>>
  BY DEF DeleteRow, Without, WriteFails, Fault
<1>2. /\ req \in Request /\ req.intent \in Formed /\ req.intent \in Intents
      /\ effects[req.intent] > 0 /\ version[OrderOf(req.intent)] > 0
  BY <1>1, CallHasRequest DEF CallTrue, EffectsTrue
<1>3. Onward /\ UNCHANGED <<version, taken, effects, intents>>
  BY <1>1, OnwardAsTyped DEF serverVars, historyVars
<1>4. /\ rows' \in [Intents -> RowType]
      /\ \A i \in Intents : i # req.intent => rows'[i] = rows[i]
      /\ rows'[req.intent] = rows[req.intent] \/ rows'[req.intent] = NoRow
  BY <1>1, <1>2 DEF TypeOK, DiskTypeOK, RowType
<1>5. RowsTrue' /\ MirrorTrue'
  <2>1. RowsTrue'
    BY <1>2, <1>3, <1>4, RowsRemoved
  <2>2. mirror' = mirror
    BY <1>1 DEF screenVars
  <2>3. \A i \in Intents : rows[i] # NoRow => rows'[i] # NoRow \/ version'[OrderOf(i)] > 0
    BY <1>2, <1>3, <1>4
  <2>4. QED
    BY <1>3, <2>1, <2>2, <2>3, MirrorKept
<1>6. /\ CallsTrue' /\ PassTrue' /\ RebasesTrue'
      /\ call' \in [Callers -> CallType] /\ pass' \in PassType /\ rebase' \in [Rebases -> RebaseType]
  BY <1>1, <1>2, <1>3, ReturnKeeps
<1>7. TypeOK'
  <2>1. DiskTypeOK'
    BY <1>1, <1>4 DEF TypeOK, DiskTypeOK
  <2>2. EngineTypeOK'
    BY <1>6 DEF EngineTypeOK
  <2>3. HistoryTypeOK'
    BY <1>1 DEF TypeOK, HistoryTypeOK, Formed, historyVars
  <2>4. QED
    BY <1>1, <2>1, <2>2, <2>3, TypedUntouched DEF TypeOK
<1>8. NothingIsAhead' /\ EffectsTrue' /\ CreatesAreFirst' /\ LooseTrue'
  BY <1>1, <1>3, NothingAheadKept, EffectsKept, LooseKept DEF screenVars
<1>9. QED
  BY <1>5, <1>6, <1>7, <1>8

LEMMA TakeCanonicalKeeps ==
    ASSUME Inv, NEW c \in Callers, TakeCanonical(c)
    PROVE  Inv'
<1> USE DEF Inv
<1> DEFINE req == call[c].req
           o   == OrderOf(call[c].req.intent)
           v   == call[c].seen
<1>1. /\ call[c].step \in {"applied", "conflict"}
      /\ cached' = [cached EXCEPT ![o] = Later(@, v)]
      /\ shown' = shown \/ (current = o /\ shown' = Later(shown, v))
      /\ call' = [call EXCEPT ![c].step = IF @ = "applied" THEN "cached" ELSE "halting"]
      /\ UNCHANGED <<serverVars, loose, rows, pointer, mirror, current, hydration, reading,
                     visit, pass, rebase, historyVars, faults>>
  BY DEF TakeCanonical, CacheOrder, Cached, Adopted
<1>2. /\ call[c] # NoCall /\ CallTrue(c) /\ o \in Orders /\ v \in Nat /\ v <= version[o]
      /\ req \in Request /\ req.intent \in Formed
  BY <1>1, CallHasRequest DEF CallTrue
<1>3. Onward /\ UNCHANGED <<version, taken, effects, intents>>
  BY <1>1, OnwardAsTyped DEF serverVars, historyVars
<1>4. call[c] \in [step : {"sent", "applied", "conflict", "refused", "cached", "halting"},
                   req : Request, seen : Nat]
  BY <1>2 DEF TypeOK, EngineTypeOK, CallType
<1>5. /\ call' \in [Callers -> CallType]
      /\ call'[c].req = req /\ call'[c].seen = v
      /\ call'[c].step = IF call[c].step = "applied" THEN "cached" ELSE "halting"
      /\ \A d \in Callers : d # c => call'[d] = call[d]
  BY <1>1, <1>4 DEF TypeOK, EngineTypeOK, CallType
<1>6. /\ cached' \in [Orders -> Nat] /\ shown' \in Nat
      /\ \A p \in Orders : cached'[p] <= version[p]
      /\ KnownAt(current, shown', version)
  <2>1. /\ cached \in [Orders -> Nat] /\ shown \in Nat /\ version \in [Orders -> Nat]
        /\ o # NULL
    BY <1>2, ConstantsAssumption
       DEF TypeOK, DiskTypeOK, ScreenTypeOK, ServerTypeOK, ConstantsAssumption
  <2>2. Later(cached[o], v) \in Nat /\ Later(cached[o], v) <= version[o]
    BY <1>2, <2>1 DEF Later, NothingIsAhead
  <2>3. Later(shown, v) \in Nat /\ (current = o => Later(shown, v) <= version[o])
    BY <1>2, <2>1 DEF Later, NothingIsAhead, KnownAt
  <2>4. /\ cached' \in [Orders -> Nat] /\ \A p \in Orders : cached'[p] <= version[p]
    BY <1>1, <1>2, <2>1, <2>2 DEF NothingIsAhead
  <2>5. shown' \in Nat /\ KnownAt(current, shown', version)
    BY <1>1, <1>2, <2>1, <2>3 DEF NothingIsAhead, KnownAt
  <2>6. QED
    BY <2>4, <2>5
<1>7. TypeOK'
  <2>1. DiskTypeOK'
    BY <1>1, <1>6 DEF TypeOK, DiskTypeOK
  <2>2. EngineTypeOK'
    BY <1>1, <1>5 DEF TypeOK, EngineTypeOK
  <2>3. ScreenTypeOK'
    BY <1>1, <1>6 DEF TypeOK, ScreenTypeOK
  <2>4. QED
    BY <1>1, <2>1, <2>2, <2>3, TypedUntouched DEF TypeOK
<1>8. Marked
  BY <1>1, <1>3, RowsUntouched
<1>9. /\ RowsTrue' /\ MirrorTrue' /\ EffectsTrue' /\ CreatesAreFirst' /\ LooseTrue' /\ PassTrue'
      /\ RebasesTrue'
  BY <1>1, <1>3, <1>8, MarkedKeeps, EffectsKept, LooseKept, PassKept, RebaseUntouched
     DEF RebasesTrue
<1>10. NothingIsAhead'
  BY <1>1, <1>3, <1>6 DEF NothingIsAhead, KnownAt
<1>11. CallsTrue'
  <2> SUFFICES ASSUME NEW d \in Callers, call'[d] # NoCall PROVE CallTrue(d)'
    BY DEF CallsTrue
  <2>1. /\ call'[c].step \in {"applied", "cached"} => effects'[req.intent] > 0
        /\ call'[c].step \in {"conflict", "refused", "halting"} => KindOf(req.intent) # "create"
        /\ rebase' = rebase /\ intents' = intents /\ v <= version'[o]
    BY <1>1, <1>2, <1>3, <1>5 DEF CallTrue
  <2>2. CallTrue(c)'
    BY <1>2, <1>3, <1>5, <2>1, CallKept
  <2>3. d # c => CallTrue(d)'
    BY <1>3, <1>5, <2>1, CallUntouched DEF CallsTrue
  <2>4. QED
    BY <2>2, <2>3
<1>12. QED
  BY <1>7, <1>9, <1>10, <1>11

-----------------------------------------------------------------------------
(* A pass *)

LEMMA SendListTyped ==
    ASSUME NEW q \in [Intents -> RowType]
    PROVE  SendList(q) \subseteq [req : Request, group : Intents]
<1> SUFFICES ASSUME NEW i \in Intents, q[i] # NoRow
             PROVE  ToSend(q, i) \in [req : Request, group : Intents]
  BY DEF SendList
<1>1. RequestOf(q, i) \in Request
  BY RequestOfRow
<1>2. Queued(q, q[i].order) \subseteq Intents /\ Queued(q, q[i].order) # {}
  BY DEF Queued
<1>3. FirstOf(q, i) \in Intents
  BY <1>2, LeastIntent DEF FirstOf
<1>4. QED
  BY <1>1, <1>3 DEF ToSend

(* A pass that lists the queue as it is on disk. *)
LEMMA PassListed ==
    ASSUME DiskTypeOK', HistoryTypeOK', RowsTrue', pass'.todo = SendList(rows')
    PROVE  PassTrue'
<1> SUFFICES ASSUME NEW e \in pass'.todo
             PROVE  ToDoTrue(e)'
  BY DEF PassTrue
<1>0. PICK i \in Intents : rows'[i] # NoRow /\ Sendable(rows', rows'[i].order) /\ e = ToSend(rows', i)
  BY DEF SendList
<1>1. RowTrue(i)' /\ rows' \in [Intents -> RowType]
  BY <1>0 DEF RowsTrue, DiskTypeOK
<1>2. e.req = RequestOf(rows, i)' /\ e.req.intent = i /\ e.group = FirstOf(rows', i)
  BY <1>0 DEF ToSend, RequestOf
<1>3. Genuine(e.req, intents', version') /\ Stored(e.req.intent)'
  BY <1>1, <1>2 DEF RowTrue
<1>4. ASSUME CreateQueued(OrderOf(i))' PROVE CreateAhead(e)'
  <2>1. PICK j \in Formed' : /\ KindOf(j)' = "create" /\ OrderOf(j)' = OrderOf(i)'
                             /\ rows'[j] # NoRow
    BY <1>4 DEF CreateQueued
  <2>2. j \in Intents /\ RowTrue(j)'
    BY <2>1 DEF RowsTrue, HistoryTypeOK
  <2>3. rows'[j].order = rows'[i].order
    BY <1>1, <2>1, <2>2 DEF RowTrue
  <2>4. ToSend(rows', j) \in pass'.todo
    BY <1>0, <2>1, <2>2, <2>3 DEF SendList
  <2>5. FirstOf(rows', j) = FirstOf(rows', i)
    BY <2>3 DEF FirstOf
  <2>6. ToSend(rows', j).req.intent = j /\ ToSend(rows', j).group = e.group
    BY <1>2, <2>5 DEF ToSend, RequestOf
  <2>7. QED
    BY <1>2, <2>1, <2>4, <2>6 DEF CreateAhead
<1>5. KindOf(i)' = "create" \/ version'[OrderOf(i)'] > 0 \/ CreateAhead(e)'
  BY <1>1, <1>4 DEF RowTrue
<1>6. QED
  BY <1>2, <1>3, <1>5 DEF ToDoTrue

LEMMA RunKeeps ==
    ASSUME Inv, Onward, DiskTypeOK', HistoryTypeOK', RowsTrue', Run(rows')
    PROVE  PassTrue' /\ pass' \in PassType
<1>1. SendList(rows') \subseteq [req : Request, group : Intents]
  BY SendListTyped DEF DiskTypeOK
<1>2. pass \in PassType /\ PassTrue
  BY DEF Inv, TypeOK, EngineTypeOK
<1>3. CASE pass.running
  <2>1. pass' \in PassType /\ pass'.todo = pass.todo
    BY <1>2, <1>3 DEF Run, PassType
  <2>2. QED
    BY <1>2, <2>1, PassKept DEF Inv
<1>4. CASE ~pass.running
  <2>1. pass' \in PassType /\ pass'.todo = SendList(rows')
    BY <1>1, <1>4 DEF Run, PassType
  <2>2. QED
    BY <2>1, PassListed
<1>5. QED
  BY <1>3, <1>4

LEMMA SendKeeps ==
    ASSUME Inv, Onward, NEW c \in Callers, NEW req,
           call' = [call EXCEPT ![c] = [step |-> "sent", req |-> req, seen |-> 0]],
           rebase' = rebase,
           Genuine(req, intents', version'), OrderOf(req.intent)' \in Orders,
           c # "direct" => /\ Stored(req.intent)' /\ Len(intents') = Len(intents)
                           /\ KindOf(req.intent)' = "create" \/ version'[OrderOf(req.intent)'] > 0,
           c = "direct" => ~Stored(req.intent)' /\ req.intent = Len(intents'),
           c \in Rebases => rebase[c].phase = "sending" /\ req = rebase[c].head
    PROVE  CallsTrue' /\ call' \in [Callers -> CallType]
<1>1. /\ req \in Request /\ version'[OrderOf(req.intent)'] \in Nat
      /\ call \in [Callers -> CallType]
  BY DEF Inv, TypeOK, EngineTypeOK, Onward, Genuine
<1>2. /\ call' \in [Callers -> CallType]
      /\ call'[c] = [step |-> "sent", req |-> req, seen |-> 0]
      /\ \A d \in Callers : d # c => call'[d] = call[d]
  BY <1>1 DEF CallType
<1>3. CallTrue(c)'
  BY <1>1, <1>2 DEF CallTrue, OrderOf, Stored, KindOf
<1>4. ASSUME NEW d \in Callers, d # c, call'[d] # NoCall PROVE CallTrue(d)'
  <2>1. d = "direct" => Len(intents') = Len(intents)
    BY <1>4
  <2>2. QED
    BY <1>2, <1>4, <2>1, CallUntouched DEF Inv, CallsTrue
<1>5. QED
  BY <1>2, <1>3, <1>4 DEF CallsTrue

(* What a step leaves true that neither reaches the server nor forms an    *)
(* intent nor touches a call or a rebase.                                  *)
LEMMA RestKept ==
    ASSUME Inv, UNCHANGED <<version, taken, loose, effects, intents>>
    PROVE  /\ Onward /\ EffectsTrue' /\ CreatesAreFirst' /\ LooseTrue'
           /\ UNCHANGED <<call, rebase>> => CallsTrue'
           /\ UNCHANGED rebase => RebasesTrue'
           /\ UNCHANGED pass => PassTrue'
           /\ UNCHANGED <<cached, current, shown, hydration, reading>> => NothingIsAhead'
           /\ UNCHANGED rows => RowsTrue'
           /\ UNCHANGED <<rows, mirror>> => MirrorTrue'
<1>1. Onward /\ EffectsTrue' /\ CreatesAreFirst' /\ LooseTrue'
  BY OnwardAsTyped, EffectsKept, LooseKept DEF Inv
<1>2. UNCHANGED <<call, rebase>> => CallsTrue'
  BY <1>1, CallUntouched DEF CallsTrue, Inv
<1>3. UNCHANGED rebase => RebasesTrue'
  BY <1>1, RebaseUntouched DEF RebasesTrue, Inv
<1>4. UNCHANGED pass => PassTrue'
  BY <1>1, PassKept DEF Inv
<1>5. UNCHANGED <<cached, current, shown, hydration, reading>> => NothingIsAhead'
  BY <1>1, NothingAheadKept DEF Inv
<1>6. UNCHANGED rows => RowsTrue'
  BY <1>1, RowsUntouched, MarkedKeeps DEF Inv
<1>7. UNCHANGED <<rows, mirror>> => MirrorTrue'
  BY <1>1, RowsUntouched, MarkedKeeps DEF Inv
<1>8. QED
  BY <1>1, <1>2, <1>3, <1>4, <1>5, <1>6, <1>7

LEMMA TriggerKeeps ==
    ASSUME Inv, Trigger
    PROVE  Inv'
<1> USE DEF Inv
<1>1. /\ rows' = rows /\ Run(rows')
      /\ UNCHANGED <<serverVars, loose, diskVars, screenVars, call, rebase, historyVars, faults>>
  BY DEF Trigger, diskVars
<1>2. ServerTypeOK' /\ DiskTypeOK' /\ ScreenTypeOK' /\ HistoryTypeOK'
  BY <1>1, TypedUntouched
<1>3. /\ Onward /\ EffectsTrue' /\ CreatesAreFirst' /\ LooseTrue' /\ CallsTrue' /\ RebasesTrue'
      /\ NothingIsAhead' /\ RowsTrue' /\ MirrorTrue'
  BY <1>1, RestKept DEF serverVars, diskVars, screenVars, historyVars
<1>4. PassTrue' /\ pass' \in PassType
  BY <1>1, <1>2, <1>3, RunKeeps
<1>5. TypeOK'
  BY <1>1, <1>2, <1>4 DEF TypeOK, EngineTypeOK
<1>6. QED
  BY <1>3, <1>4, <1>5

LEMMA PassSendsKeeps ==
    ASSUME Inv, PassSends
    PROVE  Inv'
<1> USE DEF Inv
<1>1. PICK e \in pass.todo : /\ \A other \in pass.todo : Before(e, other)
                             /\ Send("pass", e.req, WithStatus(e.req, "SYNCING"))
  BY DEF PassSends
<1> DEFINE req == e.req
<1>2. /\ call' = [call EXCEPT !["pass"] = [step |-> "sent", req |-> req, seen |-> 0]]
      /\ rows' = WithStatus(req, "SYNCING") /\ tried' = tried \cup {<<req.intent, req.k>>}
      /\ UNCHANGED <<serverVars, loose, cached, pointer, screenVars, pass, rebase,
                     intents, minted, effects, doubted, givenUp, strayed, faults>>
  BY <1>1 DEF PassSends, Send
<1>3. /\ Genuine(req, intents, version) /\ req \in Request /\ req.intent \in Formed
      /\ Stored(req.intent) /\ OrderOf(req.intent) \in Orders
  BY FormedIntents DEF PassTrue, ToDoTrue, Genuine, Formed
<1>4. KindOf(req.intent) = "create" \/ version[OrderOf(req.intent)] > 0
  <2> SUFFICES ASSUME CreateAhead(e), KindOf(req.intent) # "create" PROVE FALSE
    BY DEF PassTrue, ToDoTrue
  <2>1. PICK f \in pass.todo : /\ KindOf(f.req.intent) = "create" /\ f.group = e.group
                               /\ OrderOf(f.req.intent) = OrderOf(e.req.intent)
    BY DEF CreateAhead
  <2>2. f.req.intent \in Formed
    BY DEF PassTrue, ToDoTrue, Genuine, Formed
  <2>3. /\ f.req.intent \in Nat /\ e.req.intent \in Nat /\ e.group \in Nat
    BY <1>3, <2>2, FormedIntents, IntentsAreNumbers DEF TypeOK, EngineTypeOK, PassType
  <2>4. f.req.intent <= e.req.intent /\ f.req.intent # e.req.intent
    BY <1>3, <2>1, <2>2 DEF CreatesAreFirst
  <2>5. Before(e, f)
    BY <1>1
  <2>6. QED
    BY <2>1, <2>3, <2>4, <2>5 DEF Before
<1>5. Onward /\ UNCHANGED <<version, taken, effects, intents>>
  BY <1>2, OnwardAsTyped DEF serverVars
<1>6. Marked
  BY <1>2, <1>3, <1>5, StatusMarks
<1>7. CallsTrue' /\ call' \in [Callers -> CallType]
  <2>1. /\ Genuine(req, intents', version') /\ Stored(req.intent)'
        /\ OrderOf(req.intent)' \in Orders /\ Len(intents') = Len(intents)
        /\ KindOf(req.intent)' = "create" \/ version'[OrderOf(req.intent)'] > 0
    BY <1>3, <1>4, <1>5 DEF Stored, OrderOf, KindOf
  <2>2. "pass" \in Callers /\ "pass" # "direct" /\ "pass" \notin Rebases
    BY DEF Callers, Rebases
  <2>3. QED
    BY <1>2, <1>5, <2>1, <2>2, SendKeeps
<1>8. TypeOK'
  <2>1. DiskTypeOK'
    BY <1>2, <1>6 DEF TypeOK, DiskTypeOK, Marked
  <2>2. EngineTypeOK'
    BY <1>2, <1>7 DEF TypeOK, EngineTypeOK
  <2>3. HistoryTypeOK'
    BY <1>2, <1>3 DEF TypeOK, HistoryTypeOK, Formed, Request
  <2>4. QED
    BY <1>2, <2>1, <2>2, <2>3, TypedUntouched DEF TypeOK
<1>9. RowsTrue' /\ MirrorTrue'
  BY <1>2, <1>5, <1>6, MarkedKeeps DEF screenVars
<1>10. /\ NothingIsAhead' /\ EffectsTrue' /\ CreatesAreFirst' /\ LooseTrue' /\ PassTrue'
       /\ RebasesTrue'
  BY <1>2, <1>5, RestKept DEF screenVars
<1>11. QED
  BY <1>7, <1>8, <1>9, <1>10

LEMMA PassEndsKeeps ==
    ASSUME Inv, PassEnds
    PROVE  Inv'
<1> USE DEF Inv
<1>1. /\ mirror' = rows \/ mirror' = [i \in Intents |-> NoRow]
      /\ pass' = IF pass.again THEN [IdlePass EXCEPT !.running = TRUE, !.todo = SendList(rows)]
                 ELSE IdlePass
      /\ UNCHANGED <<serverVars, loose, diskVars, current, shown, hydration, reading, visit,
                     call, rebase, historyVars, faults>>
  BY DEF PassEnds, Mirrored
<1>2. rows' = rows
  BY <1>1 DEF diskVars
<1>3. ServerTypeOK' /\ DiskTypeOK' /\ HistoryTypeOK'
  BY <1>1, TypedUntouched
<1>4. /\ Onward /\ EffectsTrue' /\ CreatesAreFirst' /\ LooseTrue' /\ CallsTrue' /\ RebasesTrue'
      /\ NothingIsAhead' /\ RowsTrue'
  BY <1>1, RestKept DEF serverVars, diskVars, historyVars
<1>5. MirrorTrue'
  BY <1>1, <1>2, <1>4, MirrorRead, MirrorEmptied
<1>6. SendList(rows) \subseteq [req : Request, group : Intents]
  BY SendListTyped DEF TypeOK, DiskTypeOK
<1>7. PassTrue' /\ pass' \in PassType
  <2>1. CASE pass.again
    <3>1. pass' = [running |-> TRUE, todo |-> SendList(rows), again |-> FALSE]
      BY <1>1, <2>1 DEF IdlePass
    <3>2. pass' \in PassType /\ pass'.todo = SendList(rows')
      BY <1>2, <1>6, <3>1 DEF PassType
    <3>3. QED
      BY <1>3, <1>4, <3>2, PassListed
  <2>2. CASE ~pass.again
    <3>1. pass' = IdlePass
      BY <1>1, <2>2
    <3>2. QED
      BY <3>1 DEF IdlePass, PassType, PassTrue
  <2>3. QED
    BY <2>1, <2>2
<1>8. TypeOK'
  <2>1. EngineTypeOK'
    BY <1>1, <1>7 DEF TypeOK, EngineTypeOK
  <2>2. mirror' \in [Intents -> RowType]
    BY <1>1 DEF TypeOK, DiskTypeOK, RowType
  <2>3. ScreenTypeOK'
    BY <1>1, <2>2 DEF TypeOK, ScreenTypeOK
  <2>4. QED
    BY <1>3, <2>1, <2>3 DEF TypeOK
<1>9. QED
  BY <1>4, <1>5, <1>7, <1>8

-----------------------------------------------------------------------------
(* Commands *)

LEMMA ProjectedTyped ==
    ASSUME Inv
    PROVE  Projected \in Nat
<1> DEFINE queued == Queued(mirror, current)
           last   == CHOOSE i \in queued : \A j \in queued : j <= i
<1>1. shown \in Nat /\ mirror \in [Intents -> RowType] /\ queued \subseteq Intents
  BY DEF Inv, TypeOK, ScreenTypeOK, Queued
<1>2. ASSUME queued # {} PROVE mirror[last].base + 1 \in Nat
  <2>1. last \in queued
    BY <1>1, <1>2, GreatestIntent
  <2>2. mirror[last] # NoRow /\ mirror[last] \in RowType
    BY <1>1, <2>1 DEF Queued
  <2>3. QED
    BY <2>2, RowIsThere
<1>3. QED
  BY <1>1, <1>2 DEF Projected

(* What is projected above nothing is known to the server, or its create   *)
(* is in the queue.                                                        *)
LEMMA ProjectedIsThere ==
    ASSUME Inv, current # NULL, Projected > 0
    PROVE  version[current] > 0 \/ CreateQueued(current)
<1>1. current \in Orders /\ shown \in Nat /\ version[current] \in Nat /\ shown <= version[current]
  BY DEF Inv, TypeOK, ScreenTypeOK, ServerTypeOK, NothingIsAhead, KnownAt
<1>2. CASE shown > 0
  BY <1>1, <1>2
<1>3. CASE shown = 0
  <2>1. PICK i \in Queued(mirror, current) : KindOf(i) = "create"
    BY <1>3 DEF Projected, KindOf
  <2>2. /\ i \in Intents /\ mirror[i] # NoRow /\ i \in Formed /\ OrderOf(i) = current
    BY <2>1 DEF Queued, Inv, MirrorTrue
  <2>3. rows[i] # NoRow \/ version[current] > 0
    BY <2>1, <2>2 DEF Inv, MirrorTrue
  <2>4. QED
    BY <2>1, <2>2, <2>3 DEF CreateQueued
<1>4. QED
  BY <1>1, <1>2, <1>3

(* A new intent is the last one, and the first of its order if it creates  *)
(* it.                                                                     *)
LEMMA StageForms ==
    ASSUME Inv, NEW o \in Orders, NEW kind \in Kinds, NEW stored \in BOOLEAN,
           NEW i, i = Len(intents) + 1, i \in Intents,
           intents' = Append(intents, [order |-> o, kind |-> kind, stored |-> stored]),
           UNCHANGED <<version, taken, effects>>,
           kind = "create" => \A j \in Formed : OrderOf(j) # o
    PROVE  /\ Onward /\ EffectsTrue' /\ CreatesAreFirst'
           /\ intents' \in Seq([order : Orders, kind : Kinds, stored : BOOLEAN])
           /\ i \notin Formed /\ Formed' = Formed \cup {i} /\ Len(intents') = i
           /\ OrderOf(i)' = o /\ KindOf(i)' = kind /\ Stored(i)' = stored
<1> DEFINE new == [order |-> o, kind |-> kind, stored |-> stored]
<1>1. /\ intents \in Seq([order : Orders, kind : Kinds, stored : BOOLEAN])
      /\ new \in [order : Orders, kind : Kinds, stored : BOOLEAN]
      /\ TypeOK /\ EffectsTrue /\ CreatesAreFirst
  BY DEF Inv, TypeOK, HistoryTypeOK
<1>2. /\ intents' \in Seq([order : Orders, kind : Kinds, stored : BOOLEAN])
      /\ Len(intents') = i /\ \A j \in 1..Len(intents) : intents'[j] = intents[j]
      /\ intents'[i] = new
  <2>1. intents' = Append(intents, new)
    OBVIOUS
  <2> HIDE DEF new
  <2>2. QED
    BY <1>1, <2>1, AppendProperties
<1>3. /\ Formed = 1..Len(intents) /\ Formed' = 1..i /\ Len(intents) \in Nat
  BY <1>1, <1>2, LenProperties DEF Formed
<1>4. i \notin Formed /\ Formed' = Formed \cup {i}
  BY <1>3
<1>5. Onward
  BY <1>1, <1>2, <1>3, <1>4
     DEF Onward, TypeOK, ServerTypeOK, HistoryTypeOK, Formed
<1>6. OrderOf(i)' = o /\ KindOf(i)' = kind /\ Stored(i)' = stored
  BY <1>2 DEF OrderOf, KindOf, Stored
<1>7. \A j \in Formed : OrderOf(j)' = OrderOf(j) /\ KindOf(j)' = KindOf(j) /\ j \in Nat /\ j <= i
  BY <1>1, <1>3, <1>5, IntentKept
<1>8. CreatesAreFirst'
  <2> SUFFICES ASSUME NEW a \in Formed', NEW b \in Formed', OrderOf(a)' = OrderOf(b)',
                      KindOf(a)' = "create"
               PROVE  a <= b
    BY DEF CreatesAreFirst
  <2>1. CASE a = i /\ b = i
    BY <1>3, <2>1
  <2>2. CASE a = i /\ b # i
    BY <1>4, <1>6, <1>7, <2>2
  <2>3. CASE a # i /\ b = i
    BY <1>4, <1>7, <2>3
  <2>4. CASE a # i /\ b # i
    BY <1>1, <1>4, <1>7, <2>4 DEF CreatesAreFirst
  <2>5. QED
    BY <2>1, <2>2, <2>3, <2>4
<1>9. EffectsTrue'
  <2>1. effects[i] = 0
    BY <1>1, <1>4 DEF EffectsTrue
  <2>2. kind = "create" => ~(version[o] > 0)
    BY <1>1 DEF EffectsTrue
  <2>3. \A j \in Formed' : effects'[j] > 0 => version'[OrderOf(j)'] > 0
    BY <1>1, <1>4, <1>7, <2>1 DEF EffectsTrue
  <2>4. \A j \in Formed' : KindOf(j)' = "create" /\ version'[OrderOf(j)'] > 0 => effects'[j] > 0
    BY <1>1, <1>4, <1>6, <1>7, <2>2 DEF EffectsTrue
  <2>5. \A m \in taken' : m[1] \in Formed' /\ effects'[m[1]] > 0
    BY <1>1, <1>4 DEF EffectsTrue
  <2>6. \A p \in Orders : version'[p] > 0 => \E j \in Formed' : OrderOf(j)' = p
    BY <1>1, <1>4, <1>7 DEF EffectsTrue
  <2>7. \A j \in Intents \ Formed' : effects'[j] = 0
    BY <1>1, <1>4 DEF EffectsTrue
  <2>8. QED
    BY <2>3, <2>4, <2>5, <2>6, <2>7 DEF EffectsTrue, OrderOf, KindOf
<1>10. QED
  BY <1>2, <1>4, <1>5, <1>6, <1>8, <1>9

(* A command whose row the disk took. *)
LEMMA StoredKeeps ==
    ASSUME Inv, NEW o \in Orders, NEW kind \in Kinds, NEW base \in Nat,
           NEW i, i = Len(intents) + 1, i \in Intents,
           intents' = Append(intents, [order |-> o, kind |-> kind, stored |-> TRUE]),
           rows' = [rows EXCEPT ![i] = [order |-> o, k |-> 1, base |-> base, status |-> "PENDING"]],
           UNCHANGED <<version, taken, effects>>,
           kind = "create" => base = 0 /\ \A j \in Formed : OrderOf(j) # o,
           kind # "create" => base > 0 /\ (version[o] > 0 \/ CreateQueued(o))
    PROVE  RowsTrue' /\ rows' \in [Intents -> RowType]
<1>0. kind = "create" => \A j \in Formed : OrderOf(j) # o
  OBVIOUS
<1>1. /\ Onward /\ i \notin Formed /\ Formed' = Formed \cup {i}
      /\ OrderOf(i)' = o /\ KindOf(i)' = kind /\ Stored(i)' = TRUE
  BY <1>0, StageForms, TRUE \in BOOLEAN
<1> USE DEF Inv
<1> DEFINE row == [order |-> o, k |-> 1, base |-> base, status |-> "PENDING"]
<1>2. /\ row \in RowType /\ row # NoRow /\ ~HaltedRow(row) /\ 1 \in 1..MaxIds
  BY ConstantsAssumption DEF RowType, NoRow, HaltedRow, ConstantsAssumption
<1>3. /\ rows' \in [Intents -> RowType] /\ rows'[i] = row
      /\ \A j \in Intents : j # i => rows'[j] = rows[j]
  BY <1>2 DEF TypeOK, DiskTypeOK
<1>4. RequestOf(rows, i)' = [intent |-> i, k |-> 1, base |-> base]
  BY <1>3 DEF RequestOf
<1>5. Genuine(RequestOf(rows, i), intents, version)'
  BY <1>1, <1>2, <1>4 DEF Genuine, Request, Formed, KindOf
<1>6. CreateQueued(o) => CreateQueued(o)'
  <2> SUFFICES ASSUME NEW j \in Formed, KindOf(j) = "create", OrderOf(j) = o, rows[j] # NoRow
               PROVE  CreateQueued(o)'
    BY DEF CreateQueued
  <2>1. j # i /\ j \in Intents /\ j \in Formed' /\ KindOf(j)' = "create" /\ OrderOf(j)' = o
    BY <1>1, IntentKept, FormedIntents
  <2>2. QED
    BY <1>3, <2>1 DEF CreateQueued
<1>7. RowTrue(i)'
  BY <1>1, <1>2, <1>3, <1>5, <1>6 DEF RowTrue, HaltedRow
<1>8. ASSUME NEW j \in Intents, j # i, rows'[j] # NoRow PROVE RowTrue(j)'
  <2>1. RowTrue(j) /\ rows'[j] = rows[j]
    BY <1>3, <1>8 DEF RowsTrue
  <2>2. HaltedRow(rows'[j]) => version'[OrderOf(j)] > 0
    BY <2>1 DEF RowTrue
  <2>3. \A l \in Formed : rows[l] # NoRow => rows'[l] # NoRow
    BY <1>1, <1>3, FormedIntents
  <2>4. QED
    BY <1>1, <2>1, <2>2, <2>3, RowKept
<1>9. QED
  BY <1>3, <1>7, <1>8 DEF RowsTrue

LEMMA StageKeeps ==
    ASSUME Inv, ChainIsFree, NEW o \in Orders, NEW kind \in Kinds, NEW base \in Nat,
           Stage(Identity(o, kind, base)), UNCHANGED <<serverVars, loose, rebase, cached>>,
           pointer' \in Orders \cup {NULL},
           kind = "create" => base = 0 /\ \A j \in Formed : OrderOf(j) # o,
           kind # "create" => base > 0 /\ (version[o] > 0 \/ CreateQueued(o))
    PROVE  /\ Onward /\ EffectsTrue' /\ CreatesAreFirst' /\ LooseTrue' /\ RowsTrue' /\ MirrorTrue'
           /\ CallsTrue' /\ PassTrue' /\ RebasesTrue'
           /\ DiskTypeOK' /\ EngineTypeOK' /\ HistoryTypeOK' /\ mirror' = rows'
<1> USE DEF Inv
<1>0. PICK i : i = Len(intents) + 1
  OBVIOUS
<1> DEFINE row == [order |-> o, k |-> 1, base |-> base, status |-> "PENDING"]
           req == [intent |-> i, k |-> 1, base |-> base]
<1>1. /\ i \in Intents /\ minted' = [minted EXCEPT ![i] = 1] /\ mirror' = rows'
      /\ UNCHANGED <<version, taken, loose, rebase, cached, effects, doubted, givenUp, strayed>>
      /\ faults' = faults \/ faults' = faults + 1
  BY <1>0 DEF Stage, Identity, serverVars, Fault
<1>2. \/ /\ intents' = Append(intents, [order |-> o, kind |-> kind, stored |-> TRUE])
         /\ rows' = [rows EXCEPT ![i] = row] /\ Run(rows') /\ UNCHANGED <<call, tried>>
      \/ /\ intents' = Append(intents, [order |-> o, kind |-> kind, stored |-> FALSE])
         /\ rows' = rows /\ UNCHANGED pass
         /\ call' = [call EXCEPT !["direct"] = [step |-> "sent", req |-> req, seen |-> 0]]
         /\ tried' = tried \cup {<<i, 1>>}
  BY <1>0 DEF Stage, Identity, SavePending, SendUnstored, Send
<1>3. /\ kind = "create" => \A j \in Formed : OrderOf(j) # o
      /\ UNCHANGED <<version, taken, effects>>
  BY <1>1
<1>4. /\ Onward /\ EffectsTrue' /\ CreatesAreFirst'
      /\ intents' \in Seq([order : Orders, kind : Kinds, stored : BOOLEAN])
      /\ i \notin Formed /\ Formed' = Formed \cup {i} /\ Len(intents') = i
      /\ OrderOf(i)' = o /\ KindOf(i)' = kind
  <2>1. CASE intents' = Append(intents, [order |-> o, kind |-> kind, stored |-> TRUE])
    BY <1>0, <1>1, <1>3, <2>1, StageForms, TRUE \in BOOLEAN
  <2>2. CASE intents' = Append(intents, [order |-> o, kind |-> kind, stored |-> FALSE])
    BY <1>0, <1>1, <1>3, <2>2, StageForms, FALSE \in BOOLEAN
  <2>3. QED
    BY <1>2, <2>1, <2>2
<1>5. RowsTrue' /\ rows' \in [Intents -> RowType]
  <2>1. CASE rows' = rows
    BY <1>4, <2>1, RowsUntouched, RowsKept DEF Marked
  <2>2. CASE rows' # rows
    BY <1>0, <1>1, <1>2, <2>2, StoredKeeps
  <2>3. QED
    BY <2>1, <2>2
<1>6. MirrorTrue' /\ LooseTrue'
  BY <1>1, <1>4, <1>5, MirrorRead, LooseKept
<1>7. RebasesTrue'
  BY <1>1, <1>4, RebaseUntouched DEF RebasesTrue
<1>8. DiskTypeOK'
  BY <1>1, <1>5 DEF TypeOK, DiskTypeOK
<1>9. HistoryTypeOK'
  <2>1. minted' \in [Intents -> 0..MaxIds] /\ 1 \in 1..MaxIds
    BY <1>1, ConstantsAssumption DEF TypeOK, HistoryTypeOK, ConstantsAssumption
  <2>2. tried' \subseteq Intents \X (1..MaxIds)
    BY <1>1, <1>2, <2>1 DEF TypeOK, HistoryTypeOK
  <2>3. Formed' \subseteq Intents
    BY <1>1, <1>4 DEF TypeOK, HistoryTypeOK
  <2>4. QED
    BY <1>1, <1>4, <2>1, <2>2, <2>3 DEF TypeOK, HistoryTypeOK
<1>10. PassTrue' /\ pass' \in PassType
  <2>1. CASE pass' = pass
    BY <1>4, <2>1, PassKept DEF TypeOK, EngineTypeOK
  <2>2. CASE Run(rows')
    BY <1>4, <1>5, <1>8, <1>9, <2>2, RunKeeps
  <2>3. QED
    BY <1>2, <2>1, <2>2
<1>11. CallsTrue' /\ call' \in [Callers -> CallType]
  <2>1. CASE call' = call
    <3>1. call["direct"] = NoCall
      BY DEF ChainIsFree
    <3>2. QED
      BY <1>1, <1>4, <2>1, <3>1, CallUntouched DEF CallsTrue, TypeOK, EngineTypeOK
  <2>2. CASE intents' = Append(intents, [order |-> o, kind |-> kind, stored |-> FALSE])
             /\ call' = [call EXCEPT !["direct"] = [step |-> "sent", req |-> req, seen |-> 0]]
    <3>1. Stored(i)' = FALSE
      BY <1>0, <1>1, <1>3, <2>2, StageForms, FALSE \in BOOLEAN
    <3>2. req \in Request /\ req.intent = i
      BY <1>1, ConstantsAssumption DEF Request, ConstantsAssumption
    <3>3. Genuine(req, intents', version')
      BY <1>4, <3>2 DEF Genuine, Formed, KindOf
    <3>4. "direct" \in Callers /\ "direct" \notin Rebases
      BY DEF Callers, Rebases
    <3>5. OrderOf(req.intent)' \in Orders
      BY <1>4 DEF OrderOf
    <3>6. ~Stored(req.intent)' /\ req.intent = Len(intents')
      BY <1>4, <3>1 DEF Stored
    <3> HIDE DEF req
    <3>7. QED
      BY <1>1, <1>4, <2>2, <3>3, <3>4, <3>5, <3>6, SendKeeps
  <2>3. QED
    BY <1>2, <2>1, <2>2
<1>12. EngineTypeOK'
  BY <1>1, <1>10, <1>11 DEF TypeOK, EngineTypeOK
<1>13. QED
  BY <1>1, <1>4, <1>5, <1>6, <1>7, <1>8, <1>9, <1>10, <1>11, <1>12

LEMMA CreateOrderKeeps ==
    ASSUME Inv, NEW o \in Orders, CreateOrder(o)
    PROVE  Inv'
<1>1. /\ ChainIsFree /\ \A i \in Formed : OrderOf(i) # o
      /\ Stage(Identity(o, "create", 0))
      /\ current' = o /\ shown' = 0 /\ pointer' = o
      /\ UNCHANGED <<serverVars, loose, cached, hydration, reading, visit, rebase>>
  BY DEF CreateOrder, Pressed, SetCurrentOrder
<1>2. /\ Onward /\ EffectsTrue' /\ CreatesAreFirst' /\ LooseTrue' /\ RowsTrue' /\ MirrorTrue'
      /\ CallsTrue' /\ PassTrue' /\ RebasesTrue'
      /\ DiskTypeOK' /\ EngineTypeOK' /\ HistoryTypeOK' /\ mirror' = rows'
  <2>1. "create" \in Kinds /\ 0 \in Nat /\ pointer' \in Orders \cup {NULL}
    BY <1>1 DEF Kinds
  <2>2. QED
    BY <1>1, <2>1, StageKeeps
<1>3. TypeOK /\ NothingIsAhead
  BY DEF Inv
<1>4. NothingIsAhead'
  <2>1. /\ hydration.order \in Orders \cup {NULL} /\ hydration.version \in Nat
        /\ reading.order \in Orders \cup {NULL} /\ reading.version \in Nat
        /\ version[o] \in Nat /\ o # NULL
    BY <1>3, ConstantsAssumption DEF TypeOK, ServerTypeOK, ScreenTypeOK, ConstantsAssumption
  <2>2. QED
    BY <1>1, <1>3, <2>1 DEF NothingIsAhead, KnownAt, serverVars
<1>5. TypeOK'
  <2>1. ServerTypeOK'
    BY <1>1, <1>3, TypedUntouched
  <2>2. ScreenTypeOK'
    BY <1>1, <1>2, <1>3 DEF TypeOK, ScreenTypeOK, DiskTypeOK
  <2>3. QED
    BY <1>2, <2>1, <2>2 DEF TypeOK
<1>6. QED
  BY <1>2, <1>4, <1>5 DEF Inv

LEMMA CommandKeeps ==
    ASSUME Inv, NEW kind \in CommandKinds, Command(kind)
    PROVE  Inv'
<1>1. /\ ChainIsFree /\ current # NULL /\ Projected > 0
      /\ Stage(Identity(current, kind, Projected))
      /\ UNCHANGED <<serverVars, loose, cached, pointer, current, shown, hydration, reading,
                     visit, rebase>>
  BY DEF Command, Pressed
<1>2. TypeOK /\ NothingIsAhead
  BY DEF Inv
<1>3. /\ Onward /\ EffectsTrue' /\ CreatesAreFirst' /\ LooseTrue' /\ RowsTrue' /\ MirrorTrue'
      /\ CallsTrue' /\ PassTrue' /\ RebasesTrue'
      /\ DiskTypeOK' /\ EngineTypeOK' /\ HistoryTypeOK' /\ mirror' = rows'
  <2>1. current \in Orders /\ kind \in Kinds /\ kind # "create" /\ pointer' \in Orders \cup {NULL}
    BY <1>1, <1>2 DEF TypeOK, DiskTypeOK, ScreenTypeOK, Kinds, CommandKinds
  <2>2. version[current] > 0 \/ CreateQueued(current)
    BY <1>1, ProjectedIsThere
  <2>3. Projected \in Nat
    BY ProjectedTyped
  <2>4. UNCHANGED <<serverVars, loose, rebase, cached>>
    BY <1>1
  <2>5. QED
    BY <1>1, <2>1, <2>2, <2>3, <2>4, StageKeeps
<1>4. NothingIsAhead'
  BY <1>1, <1>2, <1>3, NothingAheadKept
<1>5. TypeOK'
  <2>1. ServerTypeOK'
    BY <1>1, <1>2, TypedUntouched
  <2>2. ScreenTypeOK'
    BY <1>1, <1>2, <1>3 DEF TypeOK, ScreenTypeOK, DiskTypeOK
  <2>3. QED
    BY <1>3, <2>1, <2>2 DEF TypeOK
<1>6. QED
  BY <1>3, <1>4, <1>5 DEF Inv

(* Another order, or none, is put on the screen. *)
LEMMA ShownKeeps ==
    ASSUME Inv,
           UNCHANGED <<serverVars, loose, rows, cached, mirror, engineVars, historyVars, faults>>,
           pointer' \in Orders \cup {NULL}, ScreenTypeOK', NothingIsAhead'
    PROVE  Inv'
<1>1. UNCHANGED <<version, taken, loose, effects, intents, call, rebase, pass, rows, mirror>>
  BY DEF serverVars, engineVars, historyVars
<1>2. /\ EffectsTrue' /\ CreatesAreFirst' /\ LooseTrue' /\ CallsTrue' /\ RebasesTrue' /\ PassTrue'
      /\ RowsTrue' /\ MirrorTrue'
  BY <1>1, RestKept
<1>3. TypeOK'
  <2>1. ServerTypeOK' /\ EngineTypeOK' /\ HistoryTypeOK'
    BY TypedUntouched DEF Inv
  <2>2. DiskTypeOK'
    BY DEF Inv, TypeOK, DiskTypeOK
  <2>3. QED
    BY <2>1, <2>2 DEF TypeOK
<1>4. QED
  BY <1>2, <1>3 DEF Inv

LEMMA ClearKeeps ==
    ASSUME Inv, Clear
    PROVE  Inv'
<1>1. /\ current' = NULL /\ shown' = 0 /\ pointer' = NULL
      /\ UNCHANGED <<serverVars, loose, rows, cached, mirror, hydration, reading, visit,
                     engineVars, historyVars, faults>>
  BY DEF Clear, ClearCurrentOrder
<1>2. ScreenTypeOK'
  BY <1>1 DEF Inv, TypeOK, ScreenTypeOK
<1>3. NothingIsAhead'
  BY <1>1 DEF Inv, NothingIsAhead, KnownAt, serverVars
<1>4. QED
  BY <1>1, <1>2, <1>3, ShownKeeps

LEMMA FocusOrderKeeps ==
    ASSUME Inv, NEW o \in Orders, FocusOrder(o)
    PROVE  Inv'
<1>1. /\ current' = o /\ shown' = cached[o] /\ pointer' = o
      /\ UNCHANGED <<serverVars, loose, rows, cached, mirror, hydration, reading, visit,
                     engineVars, historyVars, faults>>
  BY DEF FocusOrder, SetCurrentOrder, ReadOrder
<1>2. cached[o] \in Nat /\ o # NULL
  BY ConstantsAssumption DEF Inv, TypeOK, DiskTypeOK, ConstantsAssumption
<1>3. ScreenTypeOK'
  BY <1>1, <1>2 DEF Inv, TypeOK, ScreenTypeOK
<1>4. NothingIsAhead'
  BY <1>1, <1>2 DEF Inv, NothingIsAhead, KnownAt, serverVars
<1>5. QED
  BY <1>1, <1>3, <1>4, ShownKeeps

-----------------------------------------------------------------------------
(* The two ways out of a halt *)

LEMMA DiscardHaltedKeeps ==
    ASSUME Inv, DiscardHalted
    PROVE  Inv'
<1>1. /\ Halted
      /\ rows' = WithDiscard(current) \/ rows' = rows
      /\ mirror' = rows'
      /\ givenUp' \subseteq givenUp \cup Queued(rows, current)
      /\ doubted' \subseteq doubted \cup Queued(rows, current)
      /\ faults' \in {faults, faults + 1}
      /\ UNCHANGED <<serverVars, loose, cached, pointer, current, shown, hydration, reading, visit,
                     engineVars, intents, minted, effects, tried, strayed>>
  BY DEF DiscardHalted, WriteFails, Fault
<1>2. TypeOK /\ RowsTrue /\ UNCHANGED <<version, taken, loose, effects, intents, call, rebase, pass>>
  BY <1>1 DEF Inv, serverVars, engineVars
<1>3. /\ Onward /\ EffectsTrue' /\ CreatesAreFirst' /\ LooseTrue' /\ CallsTrue' /\ RebasesTrue'
      /\ PassTrue' /\ NothingIsAhead'
  BY <1>1, <1>2, RestKept
<1>4. rows \in [Intents -> RowType] /\ rows' \in [Intents -> RowType]
  BY <1>1, <1>2 DEF TypeOK, DiskTypeOK, WithDiscard, RowType
<1>5. RowsTrue'
  <2>1. CASE rows' = rows
    BY <1>2, <2>1, RestKept
  <2>2. CASE rows' = WithDiscard(current)
    <3>1. \A i \in Intents : rows'[i] = IF i \in Queued(rows, current) THEN NoRow ELSE rows[i]
      BY <2>2 DEF WithDiscard
    <3>2. \A i \in Intents : rows[i] # NoRow => rows[i].order = OrderOf(i)
      BY <1>2 DEF RowsTrue, RowTrue
    <3>3. ASSUME NEW i \in Intents, NEW j \in Intents, rows[j] # NoRow, rows'[j] = NoRow,
                 rows'[i] # NoRow, OrderOf(i) = OrderOf(j)
          PROVE  FALSE
      <4>1. rows[j].order = current
        BY <3>1, <3>3 DEF Queued
      <4>2. rows[i] # NoRow /\ rows[i].order = current
        BY <3>1, <3>2, <3>3, <4>1
      <4>3. QED
        BY <3>1, <3>3, <4>2 DEF Queued
    <3>4. QED
      BY <1>2, <1>3, <1>4, <3>1, <3>3, RowsRemoved
  <2>3. QED
    BY <1>1, <2>1, <2>2
<1>6. MirrorTrue'
  BY <1>1, <1>5, MirrorRead
<1>7. TypeOK'
  <2>1. ServerTypeOK' /\ EngineTypeOK'
    BY <1>1, <1>2, TypedUntouched
  <2>2. DiskTypeOK'
    BY <1>1, <1>2, <1>4 DEF TypeOK, DiskTypeOK
  <2>3. ScreenTypeOK'
    BY <1>1, <1>2, <1>4 DEF TypeOK, ScreenTypeOK
  <2>4. HistoryTypeOK'
    <3>1. Queued(rows, current) \subseteq Intents
      BY DEF Queued
    <3>2. Formed' = Formed /\ faults' \in Nat
      BY <1>1, <1>2 DEF Formed, TypeOK, HistoryTypeOK
    <3>3. QED
      BY <1>1, <1>2, <3>1, <3>2 DEF TypeOK, HistoryTypeOK
  <2>5. QED
    BY <2>1, <2>2, <2>3, <2>4 DEF TypeOK
<1>8. QED
  BY <1>3, <1>5, <1>6, <1>7 DEF Inv

(* What a step of a rebase, and nothing else, leaves. *)
LEMMA OnlyRebase ==
    ASSUME Inv, NEW r \in Rebases,
           \A other \in Rebases \ {r} : rebase'[other] = rebase[other],
           rebase' \in [Rebases -> RebaseType],
           rebase'[r].phase # "idle" => RebaseTrue(r)',
           UNCHANGED <<serverVars, loose, diskVars, current, shown, hydration, reading,
                       pass, historyVars, faults>>,
           CallsTrue', call' \in [Callers -> CallType], ScreenTypeOK', MirrorTrue'
    PROVE  Inv'
<1>1. UNCHANGED <<version, taken, loose, effects, intents, pass, rows, cached, current, shown,
                  hydration, reading>>
  BY DEF serverVars, historyVars, diskVars
<1>2. /\ EffectsTrue' /\ CreatesAreFirst' /\ LooseTrue' /\ PassTrue' /\ RowsTrue'
      /\ NothingIsAhead' /\ Onward
  BY <1>1, RestKept
<1>3. RebasesTrue'
  <2> SUFFICES ASSUME NEW other \in Rebases, other # r, rebase'[other].phase # "idle"
               PROVE  RebaseTrue(other)'
    BY DEF RebasesTrue
  <2>1. rebase'[other] = rebase[other] /\ RebaseTrue(other) /\ TypeOK
    BY DEF Inv, RebasesTrue
  <2>2. QED
    BY <1>2, <2>1, RebaseUntouched
<1>4. TypeOK'
  <2>1. ServerTypeOK' /\ HistoryTypeOK' /\ DiskTypeOK'
    BY TypedUntouched DEF Inv
  <2>2. EngineTypeOK'
    BY <1>1 DEF Inv, TypeOK, EngineTypeOK
  <2>3. QED
    BY <2>1, <2>2 DEF TypeOK
<1>5. QED
  BY <1>2, <1>3, <1>4 DEF Inv

LEMMA RebaseHaltedKeeps ==
    ASSUME Inv, NEW r \in Rebases, RebaseHalted(r)
    PROVE  Inv'
<1>1. /\ Halted /\ rebase[r] = IdleRebase
      /\ rebase' = [rebase EXCEPT ![r] = [phase |-> "reading", order |-> current,
                                          version |-> shown, head |-> IdleRebase.head]]
      /\ visit' = [visit EXCEPT !.busy = r]
      /\ UNCHANGED <<serverVars, loose, diskVars, mirror, current, shown, hydration, reading,
                     call, pass, historyVars, faults>>
  BY DEF RebaseHalted
<1>2. TypeOK
  BY DEF Inv
<1>3. /\ current \in Orders /\ shown \in Nat /\ shown <= version[current]
      /\ version[current] \in Nat
  BY <1>1 DEF Halted, Inv, TypeOK, ScreenTypeOK, ServerTypeOK, NothingIsAhead, KnownAt
<1>4. version[current] > 0
  <2>1. PICK i \in Queued(mirror, current) : mirror[i].status \notin {"PENDING", "SYNCING"}
    BY <1>1 DEF Halted, Sendable
  <2>2. /\ i \in Intents /\ mirror[i] # NoRow /\ mirror[i].order = current
        /\ mirror[i] \in RowType
    BY <1>2, <2>1 DEF Queued, TypeOK, ScreenTypeOK
  <2>3. HaltedRow(mirror[i])
    BY <2>1, <2>2, RowIsThere DEF HaltedRow
  <2>4. QED
    BY <2>2, <2>3 DEF Inv, MirrorTrue
<1>5. /\ rebase' \in [Rebases -> RebaseType]
      /\ rebase'[r] = [phase |-> "reading", order |-> current, version |-> shown,
                       head |-> IdleRebase.head]
      /\ \A other \in Rebases \ {r} : rebase'[other] = rebase[other]
  BY <1>1, <1>2, <1>3 DEF TypeOK, EngineTypeOK, RebaseType
<1>6. RebaseTrue(r)'
  BY <1>1, <1>3, <1>4, <1>5 DEF RebaseTrue, serverVars
<1>7. CallsTrue' /\ call' \in [Callers -> CallType]
  <2>1. ASSUME NEW c \in Callers, call[c] # NoCall PROVE CallTrue(c)'
    <3>1. CallTrue(c) /\ c # r
      BY <1>1, <2>1 DEF Inv, CallsTrue, CallTrue, IdleRebase
    <3>2. UNCHANGED <<version, effects, intents>>
      BY <1>1 DEF serverVars, historyVars
    <3>3. Onward
      BY <1>2, <3>2, OnwardAsTyped
    <3>4. QED
      BY <1>1, <1>2, <1>5, <2>1, <3>1, <3>2, <3>3, CallUntouched
  <2>2. QED
    BY <1>1, <1>2, <2>1 DEF CallsTrue, TypeOK, EngineTypeOK
<1>8. ScreenTypeOK'
  BY <1>1, <1>2 DEF TypeOK, ScreenTypeOK
<1>9. MirrorTrue'
  BY <1>1, RestKept DEF serverVars, historyVars, diskVars
<1>10. QED
  BY <1>1, <1>5, <1>6, <1>7, <1>8, <1>9, OnlyRebase

LEMMA ReadHeadKeeps ==
    ASSUME Inv, NEW r \in Rebases, ReadHead(r)
    PROVE  Inv'
<1>1. /\ rebase[r].phase = "reading"
      /\ \/ rebase' = [rebase EXCEPT ![r].phase = "ending"]
         \/ \E i \in Queued(rows, rebase[r].order) :
                rebase' = [rebase EXCEPT ![r].phase = "reissuing", ![r].head = RequestOf(rows, i)]
      /\ UNCHANGED <<serverVars, loose, diskVars, screenVars, call, pass, historyVars, faults>>
  BY DEF ReadHead
<1>2. TypeOK /\ RebaseTrue(r)
  BY <1>1 DEF Inv, RebasesTrue
<1>3. /\ rebase \in [Rebases -> RebaseType] /\ rebase[r] \in RebaseType
      /\ rows \in [Intents -> RowType]
  BY <1>2 DEF TypeOK, EngineTypeOK, DiskTypeOK
<1>4. UNCHANGED <<version, effects, intents>> /\ Onward
  BY <1>1, <1>2, OnwardAsTyped DEF serverVars, historyVars
<1>5. /\ rebase' \in [Rebases -> RebaseType] /\ RebaseTrue(r)'
      /\ \A other \in Rebases \ {r} : rebase'[other] = rebase[other]
  <2>1. CASE rebase' = [rebase EXCEPT ![r].phase = "ending"]
    <3>1. /\ rebase' \in [Rebases -> RebaseType]
          /\ rebase'[r].order = rebase[r].order /\ rebase'[r].version = rebase[r].version
          /\ rebase'[r].phase = "ending"
          /\ \A other \in Rebases \ {r} : rebase'[other] = rebase[other]
      BY <1>3, <2>1 DEF RebaseType
    <3>2. QED
      BY <1>2, <1>4, <3>1 DEF RebaseTrue
  <2>2. ASSUME NEW i \in Queued(rows, rebase[r].order),
               rebase' = [rebase EXCEPT ![r].phase = "reissuing", ![r].head = RequestOf(rows, i)]
        PROVE  /\ rebase' \in [Rebases -> RebaseType] /\ RebaseTrue(r)'
               /\ \A other \in Rebases \ {r} : rebase'[other] = rebase[other]
    <3>1. i \in Intents /\ rows[i] # NoRow /\ rows[i].order = rebase[r].order /\ RowTrue(i)
      BY <2>2 DEF Queued, Inv, RowsTrue
    <3>2. PICK head \in Request : head = RequestOf(rows, i) /\ head.intent = i
      BY <1>3, <3>1, RequestOfRow
    <3>3. /\ rebase' \in [Rebases -> RebaseType]
          /\ rebase'[r].order = rebase[r].order /\ rebase'[r].version = rebase[r].version
          /\ rebase'[r].head = head
          /\ \A other \in Rebases \ {r} : rebase'[other] = rebase[other]
      BY <1>3, <2>2, <3>2 DEF RebaseType
    <3>4. Genuine(head, intents', version') /\ Stored(i)' /\ OrderOf(i)' = rebase[r].order
      BY <1>4, <3>1, <3>2 DEF RowTrue, Stored, OrderOf
    <3>5. QED
      BY <1>2, <1>4, <3>2, <3>3, <3>4 DEF RebaseTrue, Stored, OrderOf
  <2>3. QED
    BY <1>1, <2>1, <2>2
<1>6. CallsTrue' /\ call' \in [Callers -> CallType]
  <2>1. ASSUME NEW c \in Callers, call[c] # NoCall PROVE CallTrue(c)'
    <3>1. CallTrue(c) /\ c # r
      BY <1>1, <2>1 DEF Inv, CallsTrue, CallTrue
    <3>2. QED
      BY <1>1, <1>2, <1>4, <1>5, <2>1, <3>1, CallUntouched
  <2>2. QED
    BY <1>1, <1>2, <2>1 DEF CallsTrue, TypeOK, EngineTypeOK
<1>7. ScreenTypeOK' /\ MirrorTrue'
  BY <1>1, <1>2, TypedUntouched, RestKept DEF serverVars, historyVars, diskVars, screenVars
<1>8. QED
  BY <1>1, <1>5, <1>6, <1>7, OnlyRebase DEF screenVars

LEMMA ReissueKeeps ==
    ASSUME Inv, NEW r \in Rebases, Reissue(r)
    PROVE  Inv'
<1>0. PICK i, k, b : /\ i = rebase[r].head.intent /\ k = minted[i] + 1
                     /\ b = IF KindOf(i) = "create" THEN 0 ELSE rebase[r].version
  OBVIOUS
<1> DEFINE row  == [order |-> rebase[r].order, k |-> k, base |-> b, status |-> "PENDING"]
           head == [intent |-> i, k |-> k, base |-> b]
<1>1. /\ rebase[r].phase = "reissuing" /\ minted[i] < MaxIds
      /\ \/ /\ rows' = [rows EXCEPT ![i] = row] /\ minted' = [minted EXCEPT ![i] = k]
            /\ doubted' \subseteq doubted \cup {i}
            /\ rebase' = [rebase EXCEPT ![r].phase = "sending", ![r].head = head]
            /\ UNCHANGED faults
         \/ /\ faults' = faults + 1 /\ rows' = rows
            /\ rebase' = [rebase EXCEPT ![r].phase = "ending"]
            /\ UNCHANGED <<minted, doubted>>
      /\ UNCHANGED <<serverVars, loose, cached, pointer, screenVars, call, pass,
                     intents, effects, tried, givenUp, strayed>>
  BY <1>0 DEF Reissue, Fault, WithFailedSwap, KindOf
<1>2. TypeOK /\ RebaseTrue(r) /\ RowsTrue /\ UNCHANGED <<version, taken, effects, intents>>
  BY <1>1 DEF Inv, RebasesTrue, serverVars
<1>3. /\ rebase \in [Rebases -> RebaseType] /\ rebase[r] \in RebaseType
      /\ rows \in [Intents -> RowType] /\ minted \in [Intents -> 0..MaxIds]
  BY <1>2 DEF TypeOK, EngineTypeOK, DiskTypeOK, HistoryTypeOK
<1>4. /\ i \in Formed /\ i \in Intents /\ Stored(i) /\ OrderOf(i) = rebase[r].order
      /\ rebase[r].order \in Orders /\ version[rebase[r].order] > 0
  BY <1>0, <1>1, <1>2, FormedIntents DEF RebaseTrue, Genuine, Formed
<1>5. k \in 1..MaxIds /\ b \in Nat /\ head \in Request
  BY <1>0, <1>1, <1>3, <1>4, ConstantsAssumption DEF RebaseType, ConstantsAssumption, Request
<1>6. Onward
  BY <1>2, OnwardAsTyped
<1>7. Genuine(head, intents', version')
  BY <1>0, <1>2, <1>4, <1>5 DEF Genuine, Formed, KindOf, OrderOf
<1>8. /\ EffectsTrue' /\ CreatesAreFirst' /\ LooseTrue' /\ PassTrue' /\ NothingIsAhead'
  BY <1>1, <1>2, RestKept DEF screenVars
<1>9. /\ rows' \in [Intents -> RowType] /\ RowsTrue'
      /\ \A j \in Intents : rows[j] # NoRow => rows'[j] # NoRow
  <2>1. CASE rows' = rows
    BY <1>2, <1>3, <1>6, <2>1, RowsUntouched, RowsKept
  <2>2. CASE rows' = [rows EXCEPT ![i] = row]
    <3>1. row \in RowType /\ row # NoRow /\ ~HaltedRow(row)
      BY <1>4, <1>5 DEF RowType, NoRow, HaltedRow
    <3>2. /\ rows' \in [Intents -> RowType] /\ rows'[i] = row
          /\ \A j \in Intents : j # i => rows'[j] = rows[j]
      BY <1>3, <1>4, <2>2, <3>1
    <3>3. RowTrue(i)'
      <4>1. RequestOf(rows, i)' = head
        BY <3>2 DEF RequestOf
      <4>2. /\ i \in Formed' /\ Stored(i)' /\ rows'[i].order = OrderOf(i)'
            /\ version'[OrderOf(i)'] > 0 /\ ~HaltedRow(rows'[i])
        BY <1>2, <1>4, <3>1, <3>2 DEF Formed, Stored, OrderOf
      <4>3. QED
        BY <1>7, <4>1, <4>2 DEF RowTrue, HaltedRow
    <3>4. ASSUME NEW j \in Intents, j # i, rows'[j] # NoRow PROVE RowTrue(j)'
      <4>1. RowTrue(j) /\ rows'[j] = rows[j]
        BY <1>2, <3>2, <3>4 DEF RowsTrue
      <4>2. HaltedRow(rows'[j]) => version'[OrderOf(j)] > 0
        BY <1>2, <4>1 DEF RowTrue
      <4>3. \A l \in Formed : rows[l] # NoRow => rows'[l] # NoRow
        BY <1>2, <3>1, <3>2, FormedIntents
      <4>4. QED
        BY <1>2, <1>6, <4>1, <4>2, <4>3, RowKept
    <3>5. QED
      BY <3>1, <3>2, <3>3, <3>4 DEF RowsTrue
  <2>3. QED
    BY <1>1, <2>1, <2>2
<1>10. MirrorTrue'
  BY <1>1, <1>2, <1>6, <1>9, MirrorKept DEF screenVars, Inv
<1>11. /\ rebase' \in [Rebases -> RebaseType] /\ RebaseTrue(r)'
       /\ \A other \in Rebases \ {r} : rebase'[other] = rebase[other]
  <2>1. CASE rebase' = [rebase EXCEPT ![r].phase = "ending"]
    <3>1. /\ rebase' \in [Rebases -> RebaseType]
          /\ rebase'[r].order = rebase[r].order /\ rebase'[r].version = rebase[r].version
          /\ rebase'[r].phase = "ending"
          /\ \A other \in Rebases \ {r} : rebase'[other] = rebase[other]
      BY <1>3, <2>1 DEF RebaseType
    <3>2. QED
      BY <1>2, <3>1 DEF RebaseTrue
  <2>2. CASE rebase' = [rebase EXCEPT ![r].phase = "sending", ![r].head = head]
    <3> HIDE DEF head
    <3>1. /\ rebase' \in [Rebases -> RebaseType]
          /\ rebase'[r].order = rebase[r].order /\ rebase'[r].version = rebase[r].version
          /\ rebase'[r].head = head
          /\ \A other \in Rebases \ {r} : rebase'[other] = rebase[other]
      BY <1>3, <1>5, <2>2 DEF RebaseType
    <3>2. head.intent = i
      BY DEF head
    <3>3. QED
      BY <1>2, <1>4, <1>7, <3>1, <3>2 DEF RebaseTrue, Stored, OrderOf
  <2>3. QED
    BY <1>1, <2>1, <2>2
<1>12. RebasesTrue'
  <2> SUFFICES ASSUME NEW other \in Rebases, other # r, rebase'[other].phase # "idle"
               PROVE  RebaseTrue(other)'
    BY <1>11 DEF RebasesTrue
  <2>1. rebase'[other] = rebase[other] /\ RebaseTrue(other)
    BY <1>11 DEF Inv, RebasesTrue
  <2>2. QED
    BY <1>2, <1>6, <2>1, RebaseUntouched
<1>13. CallsTrue' /\ call' \in [Callers -> CallType]
  <2>1. ASSUME NEW c \in Callers, call[c] # NoCall PROVE CallTrue(c)'
    <3>1. CallTrue(c) /\ c # r
      BY <1>1, <2>1 DEF Inv, CallsTrue, CallTrue
    <3>2. QED
      BY <1>1, <1>2, <1>6, <1>11, <2>1, <3>1, CallUntouched
  <2>2. QED
    BY <1>1, <1>2, <2>1 DEF CallsTrue, TypeOK, EngineTypeOK
<1>14. TypeOK'
  <2>1. ServerTypeOK' /\ ScreenTypeOK'
    BY <1>1, <1>2, TypedUntouched
  <2>2. DiskTypeOK'
    BY <1>1, <1>2, <1>9 DEF TypeOK, DiskTypeOK
  <2>3. EngineTypeOK'
    BY <1>1, <1>2, <1>11, <1>13 DEF TypeOK, EngineTypeOK
  <2>4. HistoryTypeOK'
    <3>1. Formed' = Formed /\ faults' \in Nat /\ minted' \in [Intents -> 0..MaxIds]
      BY <1>1, <1>2, <1>3, <1>4, <1>5 DEF Formed, TypeOK, HistoryTypeOK
    <3>2. doubted' \subseteq Intents
      BY <1>1, <1>2, <1>4 DEF TypeOK, HistoryTypeOK
    <3>3. QED
      BY <1>1, <1>2, <3>1, <3>2 DEF TypeOK, HistoryTypeOK
  <2>5. QED
    BY <2>1, <2>2, <2>3, <2>4 DEF TypeOK
<1>15. QED
  BY <1>8, <1>9, <1>10, <1>12, <1>13, <1>14 DEF Inv

LEMMA RebaseSendsKeeps ==
    ASSUME Inv, NEW r \in Rebases, RebaseSends(r)
    PROVE  Inv'
<1>0. PICK head : head = rebase[r].head
  OBVIOUS
<1>1. /\ rebase[r].phase = "sending"
      /\ call' = [call EXCEPT ![r] = [step |-> "sent", req |-> head, seen |-> 0]]
      /\ rows' = WithStatus(head, "SYNCING")
      /\ tried' = tried \cup {<<head.intent, head.k>>}
      /\ UNCHANGED <<serverVars, loose, cached, pointer, screenVars, pass, rebase,
                     intents, minted, effects, doubted, givenUp, strayed, faults>>
  BY <1>0 DEF RebaseSends, Send
<1>2. TypeOK /\ RowsTrue /\ RebaseTrue(r) /\ UNCHANGED <<version, taken, effects, intents>>
  BY <1>1 DEF Inv, RebasesTrue, serverVars
<1>3. /\ head \in Request /\ Genuine(head, intents, version)
      /\ head.intent \in Formed /\ head.intent \in Intents /\ head.k \in 1..MaxIds
      /\ Stored(head.intent) /\ OrderOf(head.intent) \in Orders
      /\ version[OrderOf(head.intent)] > 0
  BY <1>0, <1>1, <1>2, FormedIntents DEF RebaseTrue, Genuine, Formed, Request
<1>4. Onward
  BY <1>2, OnwardAsTyped
<1>5. Marked
  BY <1>1, <1>2, <1>3, <1>4, StatusMarks
<1>6. RowsTrue' /\ MirrorTrue'
  BY <1>1, <1>2, <1>5, MarkedKeeps DEF screenVars
<1>7. /\ EffectsTrue' /\ CreatesAreFirst' /\ LooseTrue' /\ RebasesTrue' /\ PassTrue'
      /\ NothingIsAhead'
  BY <1>1, <1>2, RestKept DEF screenVars
<1>8. CallsTrue' /\ call' \in [Callers -> CallType]
  <2>1. r \in Callers /\ r # "direct"
    BY DEF Callers, Rebases
  <2>2. /\ Genuine(head, intents', version') /\ OrderOf(head.intent)' \in Orders
        /\ Stored(head.intent)' /\ version'[OrderOf(head.intent)'] > 0
    BY <1>2, <1>3 DEF Stored, OrderOf
  <2>3. QED
    BY <1>0, <1>1, <1>2, <1>4, <2>1, <2>2, SendKeeps
<1>9. TypeOK'
  <2>1. ServerTypeOK' /\ ScreenTypeOK'
    BY <1>1, <1>2, TypedUntouched
  <2>2. DiskTypeOK'
    BY <1>1, <1>2, <1>5 DEF TypeOK, DiskTypeOK, Marked
  <2>3. EngineTypeOK'
    BY <1>1, <1>2, <1>8 DEF TypeOK, EngineTypeOK
  <2>4. HistoryTypeOK'
    BY <1>1, <1>2, <1>3 DEF TypeOK, HistoryTypeOK, Formed
  <2>5. QED
    BY <2>1, <2>2, <2>3, <2>4 DEF TypeOK
<1>10. QED
  BY <1>6, <1>7, <1>8, <1>9 DEF Inv

LEMMA RebaseEndsKeeps ==
    ASSUME Inv, NEW r \in Rebases, RebaseEnds(r)
    PROVE  Inv'
<1>1. /\ rebase[r].phase = "ending" /\ mirror' = Mirrored(rows)
      /\ rebase' = [rebase EXCEPT ![r] = IdleRebase]
      /\ visit' = visit \/ visit' = [visit EXCEPT !.busy = "nothing"]
      /\ UNCHANGED <<serverVars, loose, diskVars, current, shown, hydration, reading, call, pass,
                     historyVars, faults>>
  BY DEF RebaseEnds
<1>2. TypeOK /\ RowsTrue /\ UNCHANGED <<version, taken, loose, rows, effects, intents>>
  BY <1>1 DEF Inv, serverVars, historyVars, diskVars
<1>3. IdleRebase \in RebaseType /\ IdleRebase.phase = "idle"
  BY DEF IdleRebase, RebaseType
<1>4. /\ rebase' \in [Rebases -> RebaseType] /\ rebase'[r].phase = "idle"
      /\ \A other \in Rebases \ {r} : rebase'[other] = rebase[other]
  BY <1>1, <1>2, <1>3 DEF TypeOK, EngineTypeOK
<1>5. CallsTrue' /\ call' \in [Callers -> CallType]
  <2>1. ASSUME NEW c \in Callers, call[c] # NoCall PROVE CallTrue(c)'
    <3>1. CallTrue(c) /\ c # r
      BY <1>1, <2>1 DEF Inv, CallsTrue, CallTrue
    <3>2. Onward
      BY <1>2, OnwardAsTyped
    <3>3. QED
      BY <1>1, <1>2, <1>4, <2>1, <3>1, <3>2, CallUntouched
  <2>2. QED
    BY <1>1, <1>2, <2>1 DEF CallsTrue, TypeOK, EngineTypeOK
<1>6. RowsTrue'
  BY <1>2, RestKept
<1>7. MirrorTrue'
  <2>1. CASE mirror' = rows'
    BY <1>6, <2>1, MirrorRead
  <2>2. CASE mirror' = [i \in Intents |-> NoRow]
    BY <2>2, MirrorEmptied
  <2>3. QED
    BY <1>1, <1>2, <2>1, <2>2 DEF Mirrored
<1>8. ScreenTypeOK'
  <2>1. mirror' \in [Intents -> RowType]
    BY <1>1, <1>2 DEF TypeOK, DiskTypeOK, RowType, Mirrored
  <2>2. QED
    BY <1>1, <1>2, <2>1 DEF TypeOK, ScreenTypeOK
<1>9. QED
  BY <1>1, <1>4, <1>5, <1>7, <1>8, OnlyRebase

-----------------------------------------------------------------------------
(* Leaving the route, reading from the server, and the hydration *)

(* What a step of the screen leaves. *)
LEMMA OnlyScreen ==
    ASSUME Inv,
           UNCHANGED <<serverVars, loose, diskVars, mirror, engineVars, historyVars, faults>>,
           ScreenTypeOK', NothingIsAhead'
    PROVE  Inv'
<1>1. pointer' \in Orders \cup {NULL} /\ UNCHANGED <<rows, cached>>
  BY DEF diskVars, Inv, TypeOK, DiskTypeOK
<1>2. QED
  BY <1>1, ShownKeeps

LEMMA LeaveKeeps ==
    ASSUME Inv, Leave
    PROVE  Inv'
<1>1. /\ UNCHANGED <<current, shown>> \/ (current' = NULL /\ shown' = 0)
      /\ visit' = [open |-> FALSE, leaving |-> ~ChainIsFree, busy |-> "nothing",
                   count |-> visit.count + 1]
      /\ hydration' = hydration \/ hydration' = Hydrated
      /\ UNCHANGED <<serverVars, loose, diskVars, mirror, reading, engineVars, historyVars, faults>>
  BY DEF Leave, Emptied
<1>2. (~ChainIsFree) \in BOOLEAN
  BY DEF ChainIsFree
<1>3. Hydrated.order = NULL /\ Hydrated.version = 0 /\
      Hydrated \in [phase : {"done", "reading", "restoring", "pruning"},
                    order : Orders \cup {NULL}, version : Nat]
  BY DEF Hydrated
<1>4. ScreenTypeOK'
  BY <1>1, <1>2, <1>3 DEF Inv, TypeOK, ScreenTypeOK
<1>5. NothingIsAhead'
  BY <1>1, <1>3 DEF Inv, NothingIsAhead, KnownAt, serverVars, diskVars
<1>6. QED
  BY <1>1, <1>4, <1>5, OnlyScreen

LEMMA DetachKeeps ==
    ASSUME Inv, Detach
    PROVE  Inv'
<1>1. /\ current' = NULL /\ shown' = 0 /\ visit' = [visit EXCEPT !.leaving = FALSE]
      /\ UNCHANGED <<serverVars, loose, diskVars, mirror, hydration, reading, engineVars,
                     historyVars, faults>>
  BY DEF Detach, Emptied
<1>2. ScreenTypeOK'
  BY <1>1 DEF Inv, TypeOK, ScreenTypeOK
<1>3. NothingIsAhead'
  BY <1>1 DEF Inv, NothingIsAhead, KnownAt, serverVars, diskVars
<1>4. QED
  BY <1>1, <1>2, <1>3, OnlyScreen

LEMMA OpenAgainKeeps ==
    ASSUME Inv, OpenAgain
    PROVE  Inv'
<1>1. /\ visit' = [visit EXCEPT !.open = TRUE]
      /\ hydration' = [Hydrated EXCEPT !.phase = "reading"]
      /\ UNCHANGED <<serverVars, loose, diskVars, mirror, current, shown, reading, engineVars,
                     historyVars, faults>>
  BY DEF OpenAgain
<1>2. /\ hydration'.order = NULL /\ hydration'.version = 0
      /\ hydration' \in [phase : {"done", "reading", "restoring", "pruning"},
                         order : Orders \cup {NULL}, version : Nat]
  BY <1>1 DEF Hydrated
<1>3. ScreenTypeOK'
  BY <1>1, <1>2 DEF Inv, TypeOK, ScreenTypeOK
<1>4. NothingIsAhead'
  BY <1>1, <1>2 DEF Inv, NothingIsAhead, KnownAt, serverVars, diskVars
<1>5. QED
  BY <1>1, <1>3, <1>4, OnlyScreen

LEMMA AskOrderKeeps ==
    ASSUME Inv, AskOrder
    PROVE  Inv'
<1>1. /\ current # NULL
      /\ reading' = [order |-> current, version |-> version[current]]
      /\ UNCHANGED <<serverVars, loose, diskVars, mirror, current, shown, hydration,
                     visit, engineVars, historyVars, faults>>
  BY DEF AskOrder
<1>2. current \in Orders /\ version[current] \in Nat
  BY <1>1 DEF Inv, TypeOK, ScreenTypeOK, ServerTypeOK
<1>3. ScreenTypeOK'
  BY <1>1, <1>2 DEF Inv, TypeOK, ScreenTypeOK
<1>4. NothingIsAhead'
  BY <1>1, <1>2 DEF Inv, NothingIsAhead, KnownAt, serverVars, diskVars
<1>5. QED
  BY <1>1, <1>3, <1>4, OnlyScreen

LEMMA TakeOrderKeeps ==
    ASSUME Inv, TakeOrder
    PROVE  Inv'
<1>1. /\ reading # NoReading /\ reading' = NoReading
      /\ \/ /\ current = reading.order /\ shown' = Later(shown, reading.version)
            /\ cached' = Cached(current, reading.version) /\ pointer' = current
         \/ UNCHANGED <<shown, cached, pointer>>
      /\ UNCHANGED <<serverVars, loose, rows, mirror, current, hydration, visit, engineVars,
                     historyVars, faults>>
  BY DEF TakeOrder, Adopted, SaveOrder, CacheOrder
<1>2. TypeOK /\ NothingIsAhead /\ UNCHANGED <<version, taken, loose, effects, intents, call, rebase, pass,
                                              rows, mirror>>
  BY <1>1 DEF Inv, serverVars, engineVars, historyVars
<1>3. /\ EffectsTrue' /\ CreatesAreFirst' /\ LooseTrue' /\ CallsTrue' /\ RebasesTrue' /\ PassTrue'
      /\ RowsTrue' /\ MirrorTrue'
  BY <1>2, RestKept
<1>4. /\ reading \in [order : Orders \cup {NULL}, version : Nat]
      /\ current \in Orders \cup {NULL} /\ shown \in Nat
      /\ cached \in [Orders -> Nat] /\ pointer \in Orders \cup {NULL}
      /\ version \in [Orders -> Nat]
      /\ hydration.order \in Orders \cup {NULL} /\ hydration.version \in Nat
  BY <1>2 DEF TypeOK, ServerTypeOK, DiskTypeOK, ScreenTypeOK
<1>5. NoReading.order = NULL /\ NoReading.version = 0
      /\ NoReading \in [order : Orders \cup {NULL}, version : Nat]
  BY DEF NoReading
<1>6. ASSUME current = reading.order
      PROVE  current \in Orders /\ reading.version <= version[current]
  <2>1. KnownAt(reading.order, reading.version, version)
    BY <1>2 DEF NothingIsAhead
  <2>2. reading.order # NULL
    <3>1. SUFFICES ASSUME reading.order = NULL PROVE FALSE
      OBVIOUS
    <3>2. reading.version = 0
      BY <2>1, <3>1 DEF KnownAt
    <3>3. QED
      BY <1>1, <1>4, <3>1, <3>2 DEF NoReading
  <2>3. QED
    BY <1>4, <1>6, <2>1, <2>2 DEF KnownAt
<1>7. /\ cached' \in [Orders -> Nat] /\ pointer' \in Orders \cup {NULL} /\ shown' \in Nat
      /\ \A o \in Orders : cached'[o] <= version[o]
      /\ KnownAt(current, shown', version)
  <2>1. CASE UNCHANGED <<shown, cached, pointer>>
    BY <1>2, <1>4, <2>1 DEF NothingIsAhead
  <2>2. CASE /\ current = reading.order /\ shown' = Later(shown, reading.version)
             /\ cached' = Cached(current, reading.version) /\ pointer' = current
    <3>1. current \in Orders /\ reading.version <= version[current] /\ reading.version \in Nat
      BY <1>4, <1>6, <2>2
    <3>2. /\ shown' \in Nat /\ shown' <= version[current]
      BY <1>2, <1>4, <2>2, <3>1 DEF NothingIsAhead, KnownAt, Later
    <3>3. /\ cached' \in [Orders -> Nat]
          /\ \A o \in Orders : cached'[o] \in {cached[o], Later(cached[o], reading.version)}
          /\ \A o \in Orders : o # current => cached'[o] = cached[o]
      BY <1>4, <2>2, <3>1 DEF Cached, Later
    <3>4. \A o \in Orders : cached'[o] <= version[o]
      BY <1>2, <1>4, <3>1, <3>3 DEF NothingIsAhead, Later
    <3>5. KnownAt(current, shown', version)
      BY <3>1, <3>2, ConstantsAssumption DEF KnownAt, ConstantsAssumption
    <3>6. pointer' \in Orders \cup {NULL}
      BY <2>2, <3>1
    <3>7. QED
      BY <3>2, <3>3, <3>4, <3>5, <3>6
  <2>3. QED
    BY <1>1, <2>1, <2>2
<1>8. NothingIsAhead'
  BY <1>1, <1>2, <1>5, <1>7 DEF NothingIsAhead, KnownAt
<1>9. TypeOK'
  <2>1. ServerTypeOK' /\ EngineTypeOK' /\ HistoryTypeOK'
    BY <1>1, <1>2, TypedUntouched
  <2>2. DiskTypeOK' /\ ScreenTypeOK'
    BY <1>1, <1>2, <1>5, <1>7 DEF TypeOK, DiskTypeOK, ScreenTypeOK
  <2>3. QED
    BY <2>1, <2>2 DEF TypeOK
<1>10. QED
  BY <1>3, <1>8, <1>9 DEF Inv

LEMMA ReloadKeeps ==
    ASSUME Inv, Reload
    PROVE  Inv'
<1>1. /\ faults' = faults + 1
      /\ loose' = loose \cup {call[c].req : c \in {d \in Callers : call[d].step = "sent"}}
      /\ mirror' = [i \in Intents |-> NoRow]
      /\ current' = NULL /\ shown' = 0
      /\ hydration' = [Hydrated EXCEPT !.phase = "reading"]
      /\ reading' = NoReading
      /\ visit' = [Opened EXCEPT !.count = visit.count]
      /\ call' = [c \in Callers |-> NoCall] /\ pass' = IdlePass
      /\ rebase' = [r \in Rebases |-> IdleRebase]
      /\ UNCHANGED <<serverVars, diskVars, historyVars>>
  BY DEF Reload, Fault
<1>2. TypeOK /\ UNCHANGED <<version, taken, effects, intents, rows, cached>>
  BY <1>1 DEF Inv, serverVars, historyVars, diskVars
<1>3. Onward /\ Marked
  BY <1>2, OnwardAsTyped, RowsUntouched DEF Inv
<1>4. EffectsTrue' /\ CreatesAreFirst' /\ RowsTrue' /\ MirrorTrue'
  BY <1>1, <1>2, <1>3, EffectsKept, MarkedKeeps, MirrorEmptied DEF Inv
<1>5. \A req \in loose' : req \in Request /\ Genuine(req, intents, version)
  <2>1. \A req \in loose : req \in Request /\ Genuine(req, intents, version)
    BY DEF Inv, TypeOK, ServerTypeOK, LooseTrue
  <2>2. ASSUME NEW c \in Callers, call[c].step = "sent"
        PROVE  call[c].req \in Request /\ Genuine(call[c].req, intents, version)
    BY <2>2, CallHasRequest DEF Inv
  <2>3. QED
    BY <1>1, <2>1, <2>2
<1>6. LooseTrue'
  BY <1>2, <1>5 DEF LooseTrue
<1>7. CallsTrue' /\ PassTrue' /\ RebasesTrue'
  BY <1>1 DEF CallsTrue, PassTrue, IdlePass, RebasesTrue, IdleRebase
<1>8. /\ hydration'.order = NULL /\ hydration'.version = 0
      /\ hydration' \in [phase : {"done", "reading", "restoring", "pruning"},
                         order : Orders \cup {NULL}, version : Nat]
      /\ reading'.order = NULL /\ reading'.version = 0
      /\ reading' \in [order : Orders \cup {NULL}, version : Nat]
  BY <1>1 DEF Hydrated, NoReading
<1>9. NothingIsAhead'
  BY <1>1, <1>2, <1>8 DEF Inv, NothingIsAhead, KnownAt
<1>10. TypeOK'
  <2>1. ServerTypeOK'
    BY <1>1, <1>2, <1>5 DEF TypeOK, ServerTypeOK, serverVars
  <2>2. DiskTypeOK'
    BY <1>1, <1>2, TypedUntouched
  <2>3. ScreenTypeOK'
    BY <1>1, <1>2, <1>8 DEF TypeOK, ScreenTypeOK, Opened, RowType
  <2>4. EngineTypeOK'
    BY <1>1 DEF EngineTypeOK, CallType, PassType, IdlePass, RebaseType, IdleRebase
  <2>5. HistoryTypeOK'
    BY <1>1, <1>2 DEF TypeOK, HistoryTypeOK, historyVars, Formed
  <2>6. QED
    BY <2>1, <2>2, <2>3, <2>4, <2>5 DEF TypeOK
<1>11. QED
  BY <1>4, <1>6, <1>7, <1>9, <1>10 DEF Inv

LEMMA HydrateReadsKeeps ==
    ASSUME Inv, HydrateReads
    PROVE  Inv'
<1>1. /\ rows' = [i \in Intents |-> IF rows[i].status = "SYNCING"
                                    THEN [rows[i] EXCEPT !.status = "PENDING"] ELSE rows[i]]
      /\ hydration' = [phase |-> "restoring", order |-> pointer,
                       version |-> IF pointer = NULL THEN 0 ELSE cached[pointer]]
      /\ UNCHANGED <<serverVars, loose, cached, pointer, mirror, current, shown, reading, visit,
                     engineVars, historyVars, faults>>
  BY DEF HydrateReads, ReadOrder
<1>2. TypeOK /\ UNCHANGED <<version, taken, loose, effects, intents, call, rebase, pass>>
  BY <1>1 DEF Inv, serverVars, engineVars, historyVars
<1>3. /\ Onward /\ EffectsTrue' /\ CreatesAreFirst' /\ LooseTrue' /\ CallsTrue' /\ RebasesTrue'
      /\ PassTrue'
  BY <1>2, RestKept
<1>4. Marked
  <2>1. rows \in [Intents -> RowType]
    BY <1>2 DEF TypeOK, DiskTypeOK
  <2>2. ASSUME NEW i \in Intents
        PROVE  /\ rows'[i] \in RowType
               /\ rows'[i] = NoRow <=> rows[i] = NoRow
               /\ rows'[i].order = rows[i].order /\ rows'[i].k = rows[i].k
               /\ rows'[i].base = rows[i].base
               /\ rows[i] # NoRow /\ HaltedRow(rows'[i]) => version'[OrderOf(i)] > 0
    <3>1. CASE rows[i].status = "SYNCING"
      <4>1. rows[i] # NoRow /\ rows'[i] = [rows[i] EXCEPT !.status = "PENDING"]
        BY <1>1, <3>1 DEF NoRow
      <4>2. /\ rows'[i] \in RowType /\ rows'[i] # NoRow /\ rows'[i].status = "PENDING"
            /\ rows'[i].order = rows[i].order /\ rows'[i].k = rows[i].k
            /\ rows'[i].base = rows[i].base
        BY <2>1, <4>1, RowMarked
      <4>3. QED
        BY <4>1, <4>2 DEF HaltedRow
    <3>2. CASE rows[i].status # "SYNCING"
      <4>1. rows'[i] = rows[i]
        BY <1>1, <3>2
      <4>2. QED
        BY <1>2, <2>1, <4>1 DEF Inv, RowsTrue, RowTrue
    <3>3. QED
      BY <3>1, <3>2
  <2>3. rows' = [i \in Intents |-> rows'[i]]
    BY <1>1
  <2>4. QED
    BY <2>2, <2>3 DEF Marked
<1>5. RowsTrue' /\ MirrorTrue'
  BY <1>1, <1>2, <1>4, MarkedKeeps
<1>6. /\ hydration'.order = pointer /\ hydration'.order \in Orders \cup {NULL}
      /\ hydration'.version = IF pointer = NULL THEN 0 ELSE cached[pointer]
      /\ hydration' \in [phase : {"done", "reading", "restoring", "pruning"},
                         order : Orders \cup {NULL}, version : Nat]
  BY <1>1, <1>2 DEF TypeOK, DiskTypeOK
<1>7. NothingIsAhead'
  BY <1>1, <1>2, <1>6 DEF Inv, NothingIsAhead, KnownAt
<1>8. TypeOK'
  <2>1. ServerTypeOK' /\ EngineTypeOK' /\ HistoryTypeOK'
    BY <1>1, <1>2, TypedUntouched
  <2>2. DiskTypeOK'
    BY <1>1, <1>2, <1>4 DEF TypeOK, DiskTypeOK, Marked
  <2>3. ScreenTypeOK'
    BY <1>1, <1>2, <1>6 DEF TypeOK, ScreenTypeOK
  <2>4. QED
    BY <2>1, <2>2, <2>3 DEF TypeOK
<1>9. QED
  BY <1>3, <1>5, <1>7, <1>8 DEF Inv

LEMMA HydrateRestoresKeeps ==
    ASSUME Inv, HydrateRestores
    PROVE  Inv'
<1>1. /\ IF hydration.version > 0 /\ shown = 0
         THEN current' = hydration.order /\ shown' = hydration.version
         ELSE current' = (IF current = NULL THEN hydration.order ELSE current) /\ shown' = shown
      /\ strayed' = strayed \cup ({current'} \ {pointer, NULL})
      /\ mirror' = rows /\ Run(rows)
      /\ hydration' = [Hydrated EXCEPT !.phase = "pruning"]
      /\ UNCHANGED <<serverVars, loose, diskVars, reading, visit, call, rebase, intents, minted,
                     effects, tried, doubted, givenUp, faults>>
  BY DEF HydrateRestores
<1>2. /\ TypeOK /\ NothingIsAhead
      /\ UNCHANGED <<version, taken, loose, effects, intents, call, rebase, rows, cached>>
  BY <1>1 DEF Inv, serverVars, diskVars
<1>3. /\ Onward /\ EffectsTrue' /\ CreatesAreFirst' /\ LooseTrue' /\ CallsTrue' /\ RebasesTrue'
      /\ RowsTrue'
  BY <1>2, RestKept
<1>4. MirrorTrue'
  BY <1>1, <1>2, <1>3, MirrorRead
<1>5. /\ hydration.order \in Orders \cup {NULL} /\ hydration.version \in Nat
      /\ KnownAt(hydration.order, hydration.version, version)
      /\ current \in Orders \cup {NULL} /\ shown \in Nat /\ KnownAt(current, shown, version)
      /\ version \in [Orders -> Nat]
  BY <1>2 DEF TypeOK, ScreenTypeOK, ServerTypeOK, NothingIsAhead
<1>6. /\ current' \in Orders \cup {NULL} /\ shown' \in Nat /\ KnownAt(current', shown', version)
  <2>1. CASE hydration.version > 0 /\ shown = 0
    BY <1>1, <1>5, <2>1
  <2>2. CASE ~(hydration.version > 0 /\ shown = 0)
    BY <1>1, <1>5, <2>2 DEF KnownAt
  <2>3. QED
    BY <2>1, <2>2
<1>7. /\ hydration'.order = NULL /\ hydration'.version = 0
      /\ hydration' \in [phase : {"done", "reading", "restoring", "pruning"},
                         order : Orders \cup {NULL}, version : Nat]
  BY <1>1 DEF Hydrated
<1>8. NothingIsAhead'
  BY <1>1, <1>2, <1>6, <1>7 DEF NothingIsAhead, KnownAt
<1>9. DiskTypeOK'
  BY <1>1, <1>2, TypedUntouched
<1>10. HistoryTypeOK'
  BY <1>1, <1>2, <1>6 DEF TypeOK, HistoryTypeOK, Formed
<1>11. PassTrue' /\ pass' \in PassType
  BY <1>1, <1>2, <1>3, <1>9, <1>10, RunKeeps
<1>12. TypeOK'
  <2>1. ServerTypeOK'
    BY <1>1, <1>2, TypedUntouched
  <2>2. ScreenTypeOK'
    BY <1>1, <1>2, <1>6, <1>7 DEF TypeOK, ScreenTypeOK, DiskTypeOK
  <2>3. EngineTypeOK'
    BY <1>1, <1>2, <1>11 DEF TypeOK, EngineTypeOK
  <2>4. QED
    BY <1>9, <1>10, <2>1, <2>2, <2>3 DEF TypeOK
<1>13. QED
  BY <1>3, <1>4, <1>8, <1>11, <1>12 DEF Inv

LEMMA HydratePrunesKeeps ==
    ASSUME Inv, HydratePrunes
    PROVE  Inv'
<1>1. /\ cached' = [o \in Orders |-> IF Referenced(o) THEN cached[o] ELSE 0]
      /\ hydration' = Hydrated
      /\ UNCHANGED <<serverVars, loose, rows, pointer, mirror, current, shown, reading, visit,
                     engineVars, historyVars, faults>>
  BY DEF HydratePrunes
<1>2. TypeOK /\ UNCHANGED <<version, taken, loose, effects, intents, call, rebase, pass, rows, mirror>>
  BY <1>1 DEF Inv, serverVars, engineVars, historyVars
<1>3. /\ EffectsTrue' /\ CreatesAreFirst' /\ LooseTrue' /\ CallsTrue' /\ RebasesTrue' /\ PassTrue'
      /\ RowsTrue' /\ MirrorTrue'
  BY <1>2, RestKept
<1>4. /\ hydration'.order = NULL /\ hydration'.version = 0
      /\ hydration' \in [phase : {"done", "reading", "restoring", "pruning"},
                         order : Orders \cup {NULL}, version : Nat]
  BY <1>1 DEF Hydrated
<1>5. /\ cached' \in [Orders -> Nat] /\ \A o \in Orders : cached'[o] <= version[o]
  <2>1. /\ cached \in [Orders -> Nat] /\ version \in [Orders -> Nat]
        /\ \A o \in Orders : cached[o] <= version[o]
    BY <1>2 DEF Inv, TypeOK, DiskTypeOK, ServerTypeOK, NothingIsAhead
  <2>2. \A o \in Orders : cached'[o] \in {cached[o], 0}
    BY <1>1
  <2>3. cached' = [o \in Orders |-> cached'[o]]
    BY <1>1
  <2>4. QED
    BY <2>1, <2>2, <2>3
<1>6. NothingIsAhead'
  BY <1>1, <1>2, <1>4, <1>5 DEF Inv, NothingIsAhead, KnownAt
<1>7. TypeOK'
  <2>1. ServerTypeOK' /\ EngineTypeOK' /\ HistoryTypeOK'
    BY <1>1, <1>2, TypedUntouched
  <2>2. DiskTypeOK' /\ ScreenTypeOK'
    BY <1>1, <1>2, <1>4, <1>5 DEF TypeOK, DiskTypeOK, ScreenTypeOK
  <2>3. QED
    BY <2>1, <2>2 DEF TypeOK
<1>8. QED
  BY <1>3, <1>6, <1>7 DEF Inv

-----------------------------------------------------------------------------
(* The invariant of the specification. *)

LEMMA InvInit ==
    ASSUME Init
    PROVE  Inv
<1> USE DEF Init
<1>1. /\ intents = <<>> /\ Formed = {} /\ Formed \subseteq Intents
      /\ intents \in Seq([order : Orders, kind : Kinds, stored : BOOLEAN])
  BY DEF Formed
<1>2. TypeOK
  <2>1. ServerTypeOK
    BY DEF ServerTypeOK
  <2>2. DiskTypeOK
    BY DEF DiskTypeOK, RowType
  <2>3. ScreenTypeOK
    BY DEF ScreenTypeOK, RowType, Hydrated, NoReading, Opened
  <2>4. EngineTypeOK
    BY DEF EngineTypeOK, CallType, PassType, IdlePass, RebaseType, IdleRebase
  <2>5. HistoryTypeOK
    BY <1>1, ConstantsAssumption DEF HistoryTypeOK, ConstantsAssumption
  <2>6. QED
    BY <2>1, <2>2, <2>3, <2>4, <2>5 DEF TypeOK
<1>3. CreatesAreFirst /\ EffectsTrue
  BY <1>1 DEF CreatesAreFirst, EffectsTrue
<1>4. RowsTrue /\ MirrorTrue /\ LooseTrue
  BY DEF RowsTrue, MirrorTrue, LooseTrue
<1>5. NothingIsAhead
  BY DEF NothingIsAhead, KnownAt, Hydrated, NoReading
<1>6. CallsTrue /\ PassTrue /\ RebasesTrue
  BY DEF CallsTrue, PassTrue, IdlePass, RebasesTrue, IdleRebase
<1>7. QED
  BY <1>2, <1>3, <1>4, <1>5, <1>6 DEF Inv

LEMMA Stutters ==
    ASSUME Inv, UNCHANGED vars
    PROVE  Inv'
<1>1. UNCHANGED <<serverVars, loose, diskVars, screenVars, engineVars, historyVars, faults>>
  BY DEF vars
<1>2. UNCHANGED <<version, taken, loose, effects, intents, call, rebase, pass, rows, mirror,
                  cached, current, shown, hydration, reading>>
  BY <1>1 DEF serverVars, diskVars, screenVars, engineVars, historyVars
<1>3. /\ EffectsTrue' /\ CreatesAreFirst' /\ LooseTrue' /\ CallsTrue' /\ RebasesTrue' /\ PassTrue'
      /\ RowsTrue' /\ MirrorTrue' /\ NothingIsAhead'
  BY <1>2, RestKept
<1>4. TypeOK'
  BY <1>1, TypedUntouched DEF Inv, TypeOK
<1>5. QED
  BY <1>3, <1>4 DEF Inv

LEMMA InvStep ==
    ASSUME Inv, [Next]_vars
    PROVE  Inv'
<1>1. ASSUME NEW c \in Callers, Attempt(c) \/ Lose(c) PROVE Inv'
  BY <1>1, ServeKeeps, TakeCanonicalKeeps, DeleteRowKeeps, HaltQueueKeeps, LoseKeeps DEF Attempt
<1>2. ASSUME NEW req \in loose, ServeLoose(req) PROVE Inv'
  BY <1>2, ServeLooseKeeps
<1>3. ASSUME NEW o \in Orders, OtherTerminal(o) \/ CreateOrder(o) \/ FocusOrder(o) PROVE Inv'
  BY <1>3, OtherTerminalKeeps, CreateOrderKeeps, FocusOrderKeeps
<1>4. ASSUME NEW kind \in CommandKinds, Command(kind) PROVE Inv'
  BY <1>4, CommandKeeps
<1>5. ASSUME NEW r \in Rebases, RebaseHalted(r) \/ Rebase(r) PROVE Inv'
  BY <1>5, RebaseHaltedKeeps, ReadHeadKeeps, ReissueKeeps, RebaseSendsKeeps, RebaseEndsKeeps
     DEF Rebase
<1>6. CASE Trigger \/ Pass
  BY <1>6, TriggerKeeps, PassSendsKeeps, PassEndsKeeps DEF Pass
<1>7. CASE Hydrate
  BY <1>7, HydrateReadsKeeps, HydrateRestoresKeeps, HydratePrunesKeeps DEF Hydrate
<1>8. CASE Visit
  BY <1>8, LeaveKeeps, DetachKeeps, OpenAgainKeeps DEF Visit
<1>9. CASE Clear \/ DiscardHalted
  BY <1>9, ClearKeeps, DiscardHaltedKeeps
<1>10. CASE AskOrder \/ TakeOrder \/ Reload
  BY <1>10, AskOrderKeeps, TakeOrderKeeps, ReloadKeeps
<1>11. CASE UNCHANGED vars
  BY <1>11, Stutters
<1>12. QED
  BY <1>1, <1>2, <1>3, <1>4, <1>5, <1>6, <1>7, <1>8, <1>9, <1>10, <1>11 DEF Next

(* The invariant holds of every reachable state. *)
THEOREM Invariant == Spec => []Inv
<1>1. Init => Inv
  BY InvInit
<1>2. Inv /\ [Next]_vars => Inv'
  BY InvStep
<1>3. QED
  BY <1>1, <1>2, PTL DEF Spec

(* The types of the variables: the queue, the disk, the engine and the     *)
(* history, for any number of orders, mutations and faults.                *)
THEOREM TypeCorrect == Spec => []TypeOK
<1>1. Inv => TypeOK
  BY DEF Inv
<1>2. QED
  BY <1>1, Invariant, PTL

-----------------------------------------------------------------------------
(* Nothing that was stored is forgotten. *)

(* A marked row is a row. *)
LEMMA RowsStay ==
    ASSUME TypeOK, NEW req, NEW i \in Intents, rows[i] # NoRow,
           \/ rows' = WithHalt(req)
           \/ \E status \in {"PENDING", "SYNCING"} : rows' = WithStatus(req, status)
           \/ rows' = [j \in Intents |-> IF rows[j].status = "SYNCING"
                                         THEN [rows[j] EXCEPT !.status = "PENDING"] ELSE rows[j]]
    PROVE  rows'[i] # NoRow
<1>1. rows \in [Intents -> RowType] /\ rows[i] \in RowType
  BY DEF TypeOK, DiskTypeOK
<1>2. \A status \in {"PENDING", "SYNCING", "CONFLICT", "BLOCKED"} :
          [rows[i] EXCEPT !.status = status] # NoRow
  BY <1>1, RowMarked
<1>3. \/ rows'[i] = rows[i]
      \/ \E status \in {"PENDING", "SYNCING", "CONFLICT", "BLOCKED"} :
             rows'[i] = [rows[i] EXCEPT !.status = status]
  <2>1. CASE rows' = WithHalt(req)
    BY <1>1, <2>1 DEF WithHalt
  <2>2. ASSUME NEW status \in {"PENDING", "SYNCING"}, rows' = WithStatus(req, status)
        PROVE  rows'[i] = rows[i] \/ rows'[i] = [rows[i] EXCEPT !.status = status]
    BY <1>1, <2>2 DEF WithStatus
  <2>3. CASE rows' = [j \in Intents |-> IF rows[j].status = "SYNCING"
                                        THEN [rows[j] EXCEPT !.status = "PENDING"] ELSE rows[j]]
    BY <1>1, <2>3
  <2>4. QED
    BY <2>1, <2>2, <2>3
<1>4. QED
  BY <1>2, <1>3

(* The two ways a row may go. *)
LEMMA StoredKeptIf ==
    ASSUME TypeOK, Onward, StoredIsNotForgotten, intents' = intents, givenUp \subseteq givenUp',
           \A i \in Intents :
               rows[i] # NoRow => rows'[i] # NoRow \/ effects'[i] > 0 \/ i \in givenUp'
    PROVE  StoredIsNotForgotten'
<1> SUFFICES ASSUME NEW i \in Formed, Stored(i)
             PROVE  rows'[i] # NoRow \/ effects'[i] > 0 \/ i \in givenUp'
  BY DEF StoredIsNotForgotten, Formed, Stored
<1>1. i \in Intents
  BY FormedIntents
<1>2. rows[i] # NoRow \/ effects[i] > 0 \/ i \in givenUp
  BY DEF StoredIsNotForgotten
<1>3. QED
  BY <1>1, <1>2, IntentKept

LEMMA StoredKeptByAttempts ==
    ASSUME Inv, StoredIsNotForgotten, NEW c \in Callers, Attempt(c) \/ Lose(c)
    PROVE  StoredIsNotForgotten'
<1> DEFINE req == call[c].req
<1>1. TypeOK /\ EffectsTrue /\ CreatesAreFirst /\ CallsTrue
  BY DEF Inv
<1>2. CASE Serve(c)
  <2>1. /\ call[c].step = "sent" /\ Process(req)
        /\ UNCHANGED <<rows, intents, givenUp>>
    BY <1>2 DEF Serve, diskVars
  <2>2. Onward
    BY <1>1, <2>1, CallHasRequest, ProcessCounts
  <2>3. QED
    BY <1>1, <2>1, <2>2, StoredKeptIf
<1>3. CASE TakeCanonical(c)
  <2>1. UNCHANGED <<version, effects, rows, intents, givenUp>>
    BY <1>3 DEF TakeCanonical, serverVars, historyVars
  <2>2. QED
    BY <1>1, <2>1, OnwardAsTyped, StoredKeptIf
<1>4. CASE DeleteRow(c)
  <2>1. /\ call[c].step = "cached"
        /\ rows' = Without(req) \/ rows' = rows
        /\ UNCHANGED <<version, effects, intents, givenUp>>
    BY <1>4 DEF DeleteRow, WriteFails, serverVars, historyVars
  <2>2. req.intent \in Intents /\ effects[req.intent] > 0
    BY <1>1, <2>1, <1>4, CallHasRequest DEF CallTrue, DeleteRow
  <2>3. \A i \in Intents : rows'[i] = rows[i] \/ i = req.intent
    BY <1>1, <2>1, <2>2 DEF Without, TypeOK, DiskTypeOK
  <2>4. QED
    BY <1>1, <2>1, <2>2, <2>3, OnwardAsTyped, StoredKeptIf
<1>5. CASE HaltQueue(c)
  <2>1. /\ rows' = WithHalt(req) \/ rows' = rows
        /\ UNCHANGED <<version, effects, intents, givenUp>>
    BY <1>5 DEF HaltQueue, WriteFails, serverVars
  <2>2. \A i \in Intents : rows[i] # NoRow => rows'[i] # NoRow
    BY <1>1, <2>1, RowsStay
  <2>3. QED
    BY <1>1, <2>1, <2>2, OnwardAsTyped, StoredKeptIf
<1>6. CASE Lose(c)
  <2>1. /\ rows' = WithStatus(req, "PENDING")
        /\ UNCHANGED <<version, effects, intents, givenUp>>
    BY <1>6 DEF Lose, serverVars, historyVars
  <2>2. \A i \in Intents : rows[i] # NoRow => rows'[i] # NoRow
    BY <1>1, <2>1, RowsStay
  <2>3. QED
    BY <1>1, <2>1, <2>2, OnwardAsTyped, StoredKeptIf
<1>7. QED
  BY <1>2, <1>3, <1>4, <1>5, <1>6 DEF Attempt

LEMMA StoredKeptByStage ==
    ASSUME Inv, StoredIsNotForgotten, NEW o \in Orders, NEW kind \in Kinds, NEW base \in Nat,
           Stage(Identity(o, kind, base)), UNCHANGED serverVars,
           kind = "create" => \A j \in Formed : OrderOf(j) # o
    PROVE  StoredIsNotForgotten'
<1>0. PICK i : i = Len(intents) + 1
  OBVIOUS
<1>1. TypeOK /\ i \in Intents /\ UNCHANGED <<version, taken, effects, givenUp>>
  BY <1>0 DEF Inv, Stage, serverVars
<1>2. PICK stored \in BOOLEAN :
          /\ intents' = Append(intents, [order |-> o, kind |-> kind, stored |-> stored])
          /\ IF stored THEN rows' = [rows EXCEPT ![i] = [order |-> o, k |-> 1, base |-> base,
                                                         status |-> "PENDING"]]
             ELSE rows' = rows
  BY <1>0 DEF Stage, Identity, SavePending, SendUnstored, Send
<1>3. Onward /\ Formed' = Formed \cup {i} /\ Stored(i)' = stored
  BY <1>0, <1>1, <1>2, StageForms
<1>4. /\ \A j \in Intents : j # i => rows'[j] = rows[j]
      /\ stored => rows'[i] # NoRow
  BY <1>1, <1>2 DEF TypeOK, DiskTypeOK, NoRow
<1>5. ASSUME NEW j \in Formed, j # i, Stored(j)'
      PROVE  rows'[j] # NoRow \/ effects'[j] > 0 \/ j \in givenUp'
  BY <1>1, <1>3, <1>4, <1>5, IntentKept, FormedIntents DEF StoredIsNotForgotten
<1>6. QED
  BY <1>3, <1>4, <1>5 DEF StoredIsNotForgotten, Stored

LEMMA StoredKeptStep ==
    ASSUME Inv, StoredIsNotForgotten, [Next]_vars
    PROVE  StoredIsNotForgotten'
<1>1. TypeOK /\ EffectsTrue /\ CreatesAreFirst
  BY DEF Inv
<1>2. ASSUME UNCHANGED <<version, effects, intents, rows, givenUp>> PROVE StoredIsNotForgotten'
  BY <1>1, <1>2, OnwardAsTyped, StoredKeptIf
<1>3. ASSUME NEW c \in Callers, Attempt(c) \/ Lose(c) PROVE StoredIsNotForgotten'
  BY <1>3, StoredKeptByAttempts
<1>4. ASSUME NEW req \in loose, ServeLoose(req) PROVE StoredIsNotForgotten'
  <2>1. Process(req) /\ UNCHANGED <<rows, intents, givenUp>>
    BY <1>4 DEF ServeLoose, diskVars
  <2>2. Onward
    BY <1>1, <1>4, <2>1, ProcessCounts DEF Inv, LooseTrue
  <2>3. QED
    BY <1>1, <2>1, <2>2, StoredKeptIf
<1>5. ASSUME NEW o \in Orders, OtherTerminal(o) PROVE StoredIsNotForgotten'
  <2>1. version' = [version EXCEPT ![o] = @ + 1] /\ UNCHANGED <<effects, rows, intents, givenUp>>
    BY <1>5 DEF OtherTerminal, diskVars, historyVars
  <2>2. Onward
    BY <1>1, <2>1 DEF Onward, TypeOK, ServerTypeOK, HistoryTypeOK, Formed
  <2>3. QED
    BY <1>1, <2>1, <2>2, StoredKeptIf
<1>6. ASSUME NEW o \in Orders, CreateOrder(o) PROVE StoredIsNotForgotten'
  <2>1. /\ Stage(Identity(o, "create", 0)) /\ UNCHANGED serverVars
        /\ \A j \in Formed : OrderOf(j) # o
    BY <1>6 DEF CreateOrder
  <2>2. "create" \in Kinds /\ 0 \in Nat
    BY DEF Kinds
  <2>3. QED
    BY <2>1, <2>2, StoredKeptByStage
<1>7. ASSUME NEW kind \in CommandKinds, Command(kind) PROVE StoredIsNotForgotten'
  <2>1. /\ Stage(Identity(current, kind, Projected)) /\ UNCHANGED serverVars
        /\ current # NULL
    BY <1>7 DEF Command
  <2>2. /\ kind \in Kinds /\ kind # "create" /\ current \in Orders
    BY <1>1, <2>1 DEF Kinds, CommandKinds, TypeOK, ScreenTypeOK
  <2>3. Projected \in Nat
    BY ProjectedTyped
  <2>4. QED
    BY <2>1, <2>2, <2>3, StoredKeptByStage
<1>8. ASSUME NEW r \in Rebases, Reissue(r) PROVE StoredIsNotForgotten'
  <2>1. /\ UNCHANGED <<version, effects, intents, givenUp>>
        /\ \/ rows' = rows
           \/ \E i \in Intents : \E k, b :
                  rows' = [rows EXCEPT ![i] = [order |-> rebase[r].order, k |-> k, base |-> b,
                                               status |-> "PENDING"]]
    <3>1. rebase[r].head.intent \in Intents
      BY <1>1, <1>8, FormedIntents DEF Reissue, Inv, RebasesTrue, RebaseTrue, Genuine, Formed
    <3>2. QED
      BY <1>8, <3>1 DEF Reissue, WithFailedSwap, serverVars
  <2>2. \A i \in Intents : rows[i] # NoRow => rows'[i] # NoRow
    BY <1>1, <2>1 DEF TypeOK, DiskTypeOK, NoRow
  <2>3. QED
    BY <1>1, <2>1, <2>2, OnwardAsTyped, StoredKeptIf
<1>9. ASSUME NEW r \in Rebases, RebaseSends(r) PROVE StoredIsNotForgotten'
  <2>1. /\ rows' = WithStatus(rebase[r].head, "SYNCING")
        /\ UNCHANGED <<version, effects, intents, givenUp>>
    BY <1>9 DEF RebaseSends, Send, serverVars
  <2>2. \A i \in Intents : rows[i] # NoRow => rows'[i] # NoRow
    BY <1>1, <2>1, RowsStay
  <2>3. QED
    BY <1>1, <2>1, <2>2, OnwardAsTyped, StoredKeptIf
<1>10. ASSUME NEW r \in Rebases, RebaseHalted(r) \/ ReadHead(r) \/ RebaseEnds(r)
       PROVE StoredIsNotForgotten'
  BY <1>2, <1>10 DEF RebaseHalted, ReadHead, RebaseEnds, serverVars, diskVars, historyVars
<1>11. CASE PassSends
  <2>1. /\ \E req : rows' = WithStatus(req, "SYNCING")
        /\ UNCHANGED <<version, effects, intents, givenUp>>
    BY <1>11 DEF PassSends, Send, serverVars
  <2>2. \A i \in Intents : rows[i] # NoRow => rows'[i] # NoRow
    BY <1>1, <2>1, RowsStay
  <2>3. QED
    BY <1>1, <2>1, <2>2, OnwardAsTyped, StoredKeptIf
<1>12. CASE HydrateReads
  <2>1. UNCHANGED <<version, effects, intents, givenUp>>
    BY <1>12 DEF HydrateReads, serverVars, historyVars
  <2>2. \A i \in Intents : rows[i] # NoRow => rows'[i] # NoRow
    BY <1>1, <1>12, RowsStay DEF HydrateReads
  <2>3. QED
    BY <1>1, <2>1, <2>2, OnwardAsTyped, StoredKeptIf
<1>13. CASE DiscardHalted
  <2>1. /\ \/ rows' = WithDiscard(current) /\ givenUp' = givenUp \cup Queued(rows, current)
           \/ rows' = rows /\ givenUp' = givenUp
        /\ UNCHANGED <<version, effects, intents>>
    BY <1>13 DEF DiscardHalted, WriteFails, serverVars
  <2>2. /\ givenUp \subseteq givenUp'
        /\ \A i \in Intents : rows[i] # NoRow => rows'[i] # NoRow \/ i \in givenUp'
    BY <2>1 DEF WithDiscard
  <2>3. QED
    BY <1>1, <2>1, <2>2, OnwardAsTyped, StoredKeptIf
<1>14. CASE Trigger \/ PassEnds \/ HydrateRestores \/ HydratePrunes \/ Visit
  BY <1>2, <1>14 DEF Trigger, PassEnds, HydrateRestores, HydratePrunes, Visit, Leave, Detach,
                     OpenAgain, serverVars, diskVars, historyVars
<1>15. CASE Clear \/ AskOrder \/ TakeOrder \/ Reload \/ \E o \in Orders : FocusOrder(o)
  BY <1>2, <1>15 DEF Clear, AskOrder, TakeOrder, Reload, FocusOrder, serverVars, diskVars,
                     historyVars
<1>16. CASE UNCHANGED vars
  BY <1>2, <1>16 DEF vars, serverVars, diskVars, historyVars
<1>17. QED
  BY <1>3, <1>4, <1>5, <1>6, <1>7, <1>8, <1>9, <1>10, <1>11, <1>12, <1>13, <1>14, <1>15, <1>16
     DEF Next, Rebase, Pass, Hydrate

(* A mutation that reached the disk leaves it only after its effect, or    *)
(* because the operator discarded it: no lost answer, refused write, halt, *)
(* rebase, reload or change of screen forgets one (offline queue, section  *)
(* 14).                                                                    *)
THEOREM StoredKept == Spec => []StoredIsNotForgotten
<1>1. Init => StoredIsNotForgotten
  BY DEF Init, StoredIsNotForgotten, Formed
<1>2. Inv /\ StoredIsNotForgotten /\ [Next]_vars => StoredIsNotForgotten'
  BY StoredKeptStep
<1>3. QED
  BY <1>1, <1>2, Invariant, PTL DEF Spec

-----------------------------------------------------------------------------
(* The mutations of an order take effect in their order.                   *)

(* A row that nothing behind it need wait for. *)
Settled(i) == rows[i] # NoRow => effects[i] > 0 \/ i \in doubted

NoneAhead(j) == \A i \in Formed : i < j /\ OrderOf(i) = OrderOf(j) => Settled(i)

(* A stored mutation that was read as the head of the queue, was sent by a *)
(* pass or a rebase, or took effect.                                       *)
Released(j) ==
    /\ Stored(j)
    /\ \/ effects[j] > 0
       \/ \E c \in Callers \ {"direct"} : call[c] # NoCall /\ call[c].req.intent = j
       \/ \E req \in loose : req.intent = j
       \/ \E r \in Rebases : /\ rebase[r].phase \in {"reissuing", "sending"}
                             /\ rebase[r].head.intent = j

ReleasedInOrder == \A j \in Formed : Released(j) => NoneAhead(j)

(* What a pass has left of an order is every row that has to be waited for.*)
InTurn ==
    \A e \in pass.todo : \A i \in Formed :
        i < e.req.intent /\ OrderOf(i) = OrderOf(e.req.intent)
        => Settled(i) \/ \E f \in pass.todo : f.req.intent = i /\ f.group = e.group

(* A row comes into the queue behind every other, or is put back. *)
Steady ==
    /\ Onward /\ doubted \subseteq doubted'
    /\ \A i \in Formed : rows'[i] # NoRow => rows[i] # NoRow \/ i \in doubted'
    /\ \A i \in Formed' \ Formed : \A j \in Formed : ~(i < j)

LEMMA SettledKept ==
    ASSUME Inv, Steady
    PROVE  /\ \A i \in Formed : Settled(i) => Settled(i)'
           /\ \A j \in Formed : NoneAhead(j) => NoneAhead(j)'
<1>1. TypeOK /\ Onward
  BY DEF Inv, Steady
<1>2. ASSUME NEW i \in Formed, Settled(i) PROVE Settled(i)'
  BY <1>1, <1>2, IntentKept DEF Settled, Steady
<1>3. ASSUME NEW j \in Formed, NoneAhead(j) PROVE NoneAhead(j)'
  <2> SUFFICES ASSUME NEW i \in Formed', i < j, OrderOf(i)' = OrderOf(j)' PROVE Settled(i)'
    BY DEF NoneAhead
  <2>1. i \in Formed
    BY DEF Steady
  <2>2. OrderOf(i) = OrderOf(j)
    BY <1>1, <2>1, IntentKept
  <2>3. QED
    BY <1>2, <1>3, <2>1, <2>2 DEF NoneAhead
<1>4. QED
  BY <1>2, <1>3

(* Most steps form no mutation and put no row back. *)
LEMMA SteadyIf ==
    ASSUME Inv, Onward, UNCHANGED intents, doubted \subseteq doubted',
           \A i \in Formed : rows'[i] # NoRow => rows[i] # NoRow \/ i \in doubted'
    PROVE  Steady
  BY DEF Steady, Formed

(* No row comes of marking one, or of letting one go. *)
LEMMA NoRowComes ==
    ASSUME TypeOK, NEW i \in Intents, rows[i] = NoRow,
           \/ \E req \in Request : rows' = WithHalt(req) /\ OrderOf(req.intent) \in Orders
           \/ \E req \in Request : rows' = Without(req)
           \/ \E req \in Request, status \in {"PENDING", "SYNCING"} : rows' = WithStatus(req, status)
           \/ rows' = [j \in Intents |-> IF rows[j].status = "SYNCING"
                                         THEN [rows[j] EXCEPT !.status = "PENDING"] ELSE rows[j]]
           \/ rows' = WithDiscard(current)
           \/ rows' = rows
    PROVE  rows'[i] = NoRow
<1>1. rows \in [Intents -> RowType]
  BY DEF TypeOK, DiskTypeOK
<1>2. ASSUME NEW req \in Request, rows' = WithHalt(req)
      PROVE  rows'[i] = NoRow
  <2>1. ~(i = req.intent /\ HasRow(req)) /\ i \notin Queued(rows, OrderOf(req.intent))
    <3>1. req.k # 0 /\ rows[i].k = 0
      BY ConstantsAssumption DEF Request, NoRow, ConstantsAssumption
    <3>2. QED
      BY <3>1 DEF HasRow, Queued
  <2>2. QED
    BY <1>2, <2>1 DEF WithHalt
<1>3. ASSUME NEW req \in Request, rows' = Without(req) PROVE rows'[i] = NoRow
  BY <1>1, <1>3 DEF Without
<1>4. ASSUME NEW req \in Request, NEW status \in {"PENDING", "SYNCING"},
             rows' = WithStatus(req, status)
      PROVE  rows'[i] = NoRow
  <2>1. ~(i = req.intent /\ HasRow(req))
    BY ConstantsAssumption DEF Request, NoRow, HasRow, ConstantsAssumption
  <2>2. QED
    BY <1>1, <1>4, <2>1 DEF WithStatus
<1>5. CASE rows' = [j \in Intents |-> IF rows[j].status = "SYNCING"
                                      THEN [rows[j] EXCEPT !.status = "PENDING"] ELSE rows[j]]
  BY <1>5 DEF NoRow
<1>6. CASE rows' = WithDiscard(current) \/ rows' = rows
  BY <1>6 DEF WithDiscard
<1>7. QED
  BY <1>2, <1>3, <1>4, <1>5, <1>6

LEMMA SteadyByStage ==
    ASSUME Inv, NEW o \in Orders, NEW kind \in Kinds, NEW base \in Nat,
           Stage(Identity(o, kind, base)), UNCHANGED serverVars,
           kind = "create" => \A j \in Formed : OrderOf(j) # o
    PROVE  Steady
<1>0. PICK i : i = Len(intents) + 1
  OBVIOUS
<1>1. TypeOK /\ i \in Intents /\ UNCHANGED <<version, taken, effects, doubted>>
  BY <1>0 DEF Inv, Stage, serverVars
<1>2. PICK stored \in BOOLEAN :
          /\ intents' = Append(intents, [order |-> o, kind |-> kind, stored |-> stored])
          /\ IF stored THEN rows' = [rows EXCEPT ![i] = [order |-> o, k |-> 1, base |-> base,
                                                         status |-> "PENDING"]]
             ELSE rows' = rows
  BY <1>0 DEF Stage, Identity, SavePending, SendUnstored, Send
<1>3. Onward /\ i \notin Formed /\ Formed' = Formed \cup {i}
  BY <1>0, <1>1, <1>2, StageForms
<1>4. \A j \in Intents : j # i => rows'[j] = rows[j]
  BY <1>1, <1>2 DEF TypeOK, DiskTypeOK
<1>5. \A j \in Formed : j \in Intents /\ j # i
  BY <1>1, <1>3, FormedIntents
<1>6. \A j \in Formed : ~(i < j)
  <2>1. intents \in Seq([order : Orders, kind : Kinds, stored : BOOLEAN])
    BY <1>1 DEF TypeOK, HistoryTypeOK
  <2>2. Formed = 1..Len(intents) /\ Len(intents) \in Nat
    BY <2>1, LenProperties DEF Formed
  <2>3. QED
    BY <1>0, <2>2
<1>7. QED
  BY <1>1, <1>3, <1>4, <1>5, <1>6 DEF Steady

LEMMA SteadyByAttempts ==
    ASSUME Inv, NEW c \in Callers, Attempt(c) \/ Lose(c)
    PROVE  Steady
<1> DEFINE req == call[c].req
<1>1. TypeOK /\ EffectsTrue /\ CreatesAreFirst /\ CallsTrue
  BY DEF Inv
<1>2. CASE Serve(c)
  <2>1. /\ call[c].step = "sent" /\ Process(req) /\ UNCHANGED <<rows, intents, doubted>>
    BY <1>2 DEF Serve, diskVars
  <2>2. Onward
    BY <1>1, <2>1, CallHasRequest, ProcessCounts
  <2>3. QED
    BY <2>1, <2>2, SteadyIf
<1>3. CASE ~Serve(c)
  <2>1. /\ UNCHANGED <<version, effects, intents, doubted>>
        /\ call[c].step # "idle"
        /\ \/ rows' = rows \/ rows' = Without(req) \/ rows' = WithHalt(req)
           \/ rows' = WithStatus(req, "PENDING")
    <3>1. CASE TakeCanonical(c)
      BY <3>1 DEF TakeCanonical, serverVars, historyVars
    <3>2. CASE DeleteRow(c)
      BY <3>2 DEF DeleteRow, WriteFails, serverVars, historyVars
    <3>3. CASE HaltQueue(c)
      BY <3>3 DEF HaltQueue, WriteFails, serverVars
    <3>4. CASE Lose(c)
      BY <3>4 DEF Lose, serverVars, historyVars
    <3>5. QED
      BY <1>3, <3>1, <3>2, <3>3, <3>4 DEF Attempt
  <2>2. req \in Request /\ OrderOf(req.intent) \in Orders
    BY <1>1, <2>1, CallHasRequest
  <2>3. \A i \in Intents : rows[i] = NoRow => rows'[i] = NoRow
    BY <1>1, <2>1, <2>2, NoRowComes
  <2>4. QED
    BY <1>1, <2>1, <2>3, OnwardAsTyped, SteadyIf, FormedIntents
<1>4. QED
  BY <1>2, <1>3

LEMMA SteadyStep ==
    ASSUME Inv, [Next]_vars
    PROVE  Steady
<1>1. TypeOK /\ EffectsTrue /\ CreatesAreFirst
  BY DEF Inv
<1>2. ASSUME UNCHANGED <<version, effects, intents, rows, doubted>> PROVE Steady
  BY <1>1, <1>2, OnwardAsTyped, SteadyIf
<1>3. ASSUME NEW c \in Callers, Attempt(c) \/ Lose(c) PROVE Steady
  BY <1>3, SteadyByAttempts
<1>4. ASSUME NEW req \in loose, ServeLoose(req) PROVE Steady
  <2>1. Process(req) /\ UNCHANGED <<rows, intents, doubted>>
    BY <1>4 DEF ServeLoose, diskVars
  <2>2. Onward
    BY <1>1, <1>4, <2>1, ProcessCounts DEF Inv, LooseTrue
  <2>3. QED
    BY <2>1, <2>2, SteadyIf
<1>5. ASSUME NEW o \in Orders, OtherTerminal(o) PROVE Steady
  <2>1. version' = [version EXCEPT ![o] = @ + 1] /\ UNCHANGED <<effects, rows, intents, doubted>>
    BY <1>5 DEF OtherTerminal, diskVars, historyVars
  <2>2. Onward
    BY <1>1, <2>1 DEF Onward, TypeOK, ServerTypeOK, HistoryTypeOK, Formed
  <2>3. QED
    BY <2>1, <2>2, SteadyIf
<1>6. ASSUME NEW o \in Orders, CreateOrder(o) PROVE Steady
  <2>1. /\ Stage(Identity(o, "create", 0)) /\ UNCHANGED serverVars
        /\ \A j \in Formed : OrderOf(j) # o
    BY <1>6 DEF CreateOrder
  <2>2. "create" \in Kinds /\ 0 \in Nat
    BY DEF Kinds
  <2>3. QED
    BY <2>1, <2>2, SteadyByStage
<1>7. ASSUME NEW kind \in CommandKinds, Command(kind) PROVE Steady
  <2>1. /\ Stage(Identity(current, kind, Projected)) /\ UNCHANGED serverVars
        /\ current # NULL
    BY <1>7 DEF Command
  <2>2. /\ kind \in Kinds /\ kind # "create" /\ current \in Orders
    BY <1>1, <2>1 DEF Kinds, CommandKinds, TypeOK, ScreenTypeOK
  <2>3. Projected \in Nat
    BY ProjectedTyped
  <2>4. QED
    BY <2>1, <2>2, <2>3, SteadyByStage
<1>8. ASSUME NEW r \in Rebases, Reissue(r) PROVE Steady
  <2>0. PICK i : i = rebase[r].head.intent
    OBVIOUS
  <2>1. /\ rebase[r].head.k \in 1..MaxIds /\ i \in Intents
    BY <1>1, <1>8, <2>0, FormedIntents
       DEF Reissue, Inv, RebasesTrue, RebaseTrue, Genuine, Formed, Request
  <2>2. UNCHANGED <<version, effects, intents>> /\ doubted \subseteq doubted'
    BY <1>8 DEF Reissue, serverVars
  <2>3. \/ rows' = rows
        \/ /\ \E row : rows' = [rows EXCEPT ![i] = row]
           /\ rows[i].k # rebase[r].head.k => i \in doubted'
    BY <1>8, <2>0 DEF Reissue, WithFailedSwap
  <2>4. rows[i] = NoRow => rows[i].k # rebase[r].head.k
    BY <2>1, ConstantsAssumption DEF NoRow, ConstantsAssumption
  <2>5. \A j \in Intents : rows[j] = NoRow => rows'[j] = NoRow \/ j \in doubted'
    BY <1>1, <2>1, <2>3, <2>4 DEF TypeOK, DiskTypeOK
  <2>6. QED
    BY <1>1, <2>2, <2>5, OnwardAsTyped, SteadyIf, FormedIntents
<1>9. ASSUME NEW r \in Rebases, RebaseSends(r) PROVE Steady
  <2>1. /\ rows' = WithStatus(rebase[r].head, "SYNCING")
        /\ UNCHANGED <<version, effects, intents, doubted>>
    BY <1>9 DEF RebaseSends, Send, serverVars
  <2>2. rebase[r].head \in Request
    BY <1>9 DEF RebaseSends, Inv, RebasesTrue, RebaseTrue, Genuine
  <2>3. \A i \in Intents : rows[i] = NoRow => rows'[i] = NoRow
    BY <1>1, <2>1, <2>2, NoRowComes
  <2>4. QED
    BY <1>1, <2>1, <2>3, OnwardAsTyped, SteadyIf, FormedIntents
<1>10. ASSUME NEW r \in Rebases, RebaseHalted(r) \/ ReadHead(r) \/ RebaseEnds(r) PROVE Steady
  BY <1>2, <1>10 DEF RebaseHalted, ReadHead, RebaseEnds, serverVars, diskVars, historyVars
<1>11. CASE PassSends
  <2>1. PICK e \in pass.todo : rows' = WithStatus(e.req, "SYNCING")
    BY <1>11 DEF PassSends, Send
  <2>2. UNCHANGED <<version, effects, intents, doubted>> /\ e.req \in Request
    BY <1>11 DEF PassSends, serverVars, Inv, PassTrue, ToDoTrue, Genuine
  <2>3. \A i \in Intents : rows[i] = NoRow => rows'[i] = NoRow
    BY <1>1, <2>1, <2>2, NoRowComes
  <2>4. QED
    BY <1>1, <2>2, <2>3, OnwardAsTyped, SteadyIf, FormedIntents
<1>12. CASE HydrateReads
  <2>1. UNCHANGED <<version, effects, intents, doubted>>
    BY <1>12 DEF HydrateReads, serverVars, historyVars
  <2>2. \A i \in Intents : rows[i] = NoRow => rows'[i] = NoRow
    BY <1>1, <1>12, NoRowComes DEF HydrateReads
  <2>3. QED
    BY <1>1, <2>1, <2>2, OnwardAsTyped, SteadyIf, FormedIntents
<1>13. CASE DiscardHalted
  <2>1. /\ rows' = WithDiscard(current) \/ rows' = rows
        /\ UNCHANGED <<version, effects, intents>> /\ doubted \subseteq doubted'
    BY <1>13 DEF DiscardHalted, WriteFails, serverVars
  <2>2. \A i \in Intents : rows[i] = NoRow => rows'[i] = NoRow
    BY <1>1, <2>1, NoRowComes
  <2>3. QED
    BY <1>1, <2>1, <2>2, OnwardAsTyped, SteadyIf, FormedIntents
<1>14. CASE Trigger \/ PassEnds \/ HydrateRestores \/ HydratePrunes \/ Visit
  BY <1>2, <1>14 DEF Trigger, PassEnds, HydrateRestores, HydratePrunes, Visit, Leave, Detach,
                     OpenAgain, serverVars, diskVars, historyVars
<1>15. CASE Clear \/ AskOrder \/ TakeOrder \/ Reload \/ \E o \in Orders : FocusOrder(o)
  BY <1>2, <1>15 DEF Clear, AskOrder, TakeOrder, Reload, FocusOrder, serverVars, diskVars,
                     historyVars
<1>16. CASE UNCHANGED vars
  BY <1>2, <1>16 DEF vars, serverVars, diskVars, historyVars
<1>17. QED
  BY <1>3, <1>4, <1>5, <1>6, <1>7, <1>8, <1>9, <1>10, <1>11, <1>12, <1>13, <1>14, <1>15, <1>16
     DEF Next, Rebase, Pass, Hydrate

(* What is released is in its turn already. *)
LEMMA ReleasedSoFar ==
    ASSUME Inv, ReleasedInOrder
    PROVE  /\ \A j \in Formed : Stored(j) /\ effects[j] > 0 => NoneAhead(j)
           /\ \A c \in Callers \ {"direct"} :
                  call[c] # NoCall => call[c].req.intent \in Formed /\ NoneAhead(call[c].req.intent)
           /\ \A req \in loose : /\ req.intent \in Formed
                                 /\ Stored(req.intent) => NoneAhead(req.intent)
           /\ \A r \in Rebases :
                  rebase[r].phase \in {"reissuing", "sending"}
                  => rebase[r].head.intent \in Formed /\ NoneAhead(rebase[r].head.intent)
<1>1. \A j \in Formed : Stored(j) /\ effects[j] > 0 => NoneAhead(j)
  BY DEF ReleasedInOrder, Released
<1>2. ASSUME NEW c \in Callers \ {"direct"}, call[c] # NoCall
      PROVE  call[c].req.intent \in Formed /\ NoneAhead(call[c].req.intent)
  <2>1. call[c].req.intent \in Formed /\ Stored(call[c].req.intent)
    BY <1>2 DEF Inv, CallsTrue, CallTrue, Genuine, Formed
  <2>2. QED
    BY <1>2, <2>1 DEF ReleasedInOrder, Released
<1>3. ASSUME NEW req \in loose
      PROVE  req.intent \in Formed /\ (Stored(req.intent) => NoneAhead(req.intent))
  <2>1. req.intent \in Formed
    BY DEF Inv, LooseTrue, Genuine, Formed
  <2>2. QED
    BY <2>1 DEF ReleasedInOrder, Released
<1>4. ASSUME NEW r \in Rebases, rebase[r].phase \in {"reissuing", "sending"}
      PROVE  rebase[r].head.intent \in Formed /\ NoneAhead(rebase[r].head.intent)
  <2>1. rebase[r].head.intent \in Formed /\ Stored(rebase[r].head.intent)
    BY <1>4 DEF Inv, RebasesTrue, RebaseTrue, Genuine, Formed
  <2>2. QED
    BY <1>4, <2>1 DEF ReleasedInOrder, Released
<1>5. QED
  BY <1>1, <1>2, <1>3, <1>4

LEMMA InOrderIf ==
    ASSUME Inv, Steady, UNCHANGED intents,
           \A j \in Formed : Stored(j) /\ effects'[j] > 0 => NoneAhead(j),
           \A c \in Callers \ {"direct"} : call'[c] # NoCall => NoneAhead(call'[c].req.intent),
           \A req \in loose' : Stored(req.intent) => NoneAhead(req.intent),
           \A r \in Rebases : rebase'[r].phase \in {"reissuing", "sending"}
                              => NoneAhead(rebase'[r].head.intent)
    PROVE  ReleasedInOrder'
<1> SUFFICES ASSUME NEW j \in Formed', Released(j)' PROVE NoneAhead(j)'
  BY DEF ReleasedInOrder
<1>1. j \in Formed /\ Stored(j)
  BY DEF Formed, Released, Stored
<1>2. NoneAhead(j)
  <2>1. CASE effects'[j] > 0
    BY <1>1, <2>1
  <2>2. CASE \E c \in Callers \ {"direct"} : call'[c] # NoCall /\ call'[c].req.intent = j
    BY <1>1, <2>2
  <2>3. CASE \E req \in loose' : req.intent = j
    BY <1>1, <2>3
  <2>4. CASE \E r \in Rebases : /\ rebase'[r].phase \in {"reissuing", "sending"}
                                /\ rebase'[r].head.intent = j
    BY <1>1, <2>4
  <2>5. QED
    BY <2>1, <2>2, <2>3, <2>4 DEF Released
<1>3. QED
  BY <1>1, <1>2, SettledKept

(* Most steps release nothing. *)
LEMMA NothingReleased ==
    ASSUME Inv, Steady, ReleasedInOrder, UNCHANGED <<intents, effects>>, loose' \subseteq loose,
           \A c \in Callers \ {"direct"} :
               call'[c] # NoCall => call[c] # NoCall /\ call'[c].req = call[c].req,
           \A r \in Rebases :
               rebase'[r].phase \in {"reissuing", "sending"}
               => /\ rebase[r].phase \in {"reissuing", "sending"}
                  /\ rebase'[r].head.intent = rebase[r].head.intent
    PROVE  ReleasedInOrder'
<1>1. \A j \in Formed : Stored(j) /\ effects'[j] > 0 => NoneAhead(j)
  BY ReleasedSoFar
<1>2. ASSUME NEW c \in Callers \ {"direct"}, call'[c] # NoCall
      PROVE  NoneAhead(call'[c].req.intent)
  BY <1>2, ReleasedSoFar
<1>3. \A req \in loose' : Stored(req.intent) => NoneAhead(req.intent)
  BY ReleasedSoFar
<1>4. ASSUME NEW r \in Rebases, rebase'[r].phase \in {"reissuing", "sending"}
      PROVE  NoneAhead(rebase'[r].head.intent)
  BY <1>4, ReleasedSoFar
<1>5. QED
  BY <1>1, <1>2, <1>3, <1>4, InOrderIf

(* A request takes effect in its turn. *)
LEMMA ProcessedInTurn ==
    ASSUME Inv, ReleasedInOrder, NEW req, Genuine(req, intents, version), Process(req),
           Stored(req.intent) => NoneAhead(req.intent), NEW j \in Formed, Stored(j), effects'[j] > 0
    PROVE  NoneAhead(j)
<1>1. effects \in [Intents -> Nat] /\ j \in Intents
  BY FormedIntents DEF Inv, TypeOK, HistoryTypeOK
<1>2. CASE j = req.intent
  BY <1>2
<1>3. CASE j # req.intent
  <2>1. effects'[j] = effects[j]
    BY <1>1, <1>3 DEF Process
  <2>2. QED
    BY <2>1, ReleasedSoFar
<1>4. QED
  BY <1>2, <1>3

LEMMA InOrderByAttempts ==
    ASSUME Inv, Steady, ReleasedInOrder, NEW c \in Callers, Attempt(c) \/ Lose(c)
    PROVE  ReleasedInOrder'
<1> DEFINE req == call[c].req
<1>1. TypeOK /\ CallsTrue /\ call \in [Callers -> CallType] /\ rebase \in [Rebases -> RebaseType]
  BY DEF Inv, TypeOK, EngineTypeOK
<1>2. call[c].step # "idle"
  BY DEF Attempt, Serve, TakeCanonical, DeleteRow, HaltQueue, Lose
<1>3. /\ call[c] # NoCall /\ CallTrue(c) /\ Genuine(req, intents, version) /\ req.intent \in Formed
  BY <1>1, <1>2, CallHasRequest
<1>4. Stored(req.intent) => NoneAhead(req.intent)
  <2>1. CASE c = "direct"
    BY <1>3, <2>1 DEF CallTrue
  <2>2. CASE c # "direct"
    BY <1>3, <2>2, ReleasedSoFar
  <2>3. QED
    BY <2>1, <2>2
<1>5. CASE Serve(c) \/ TakeCanonical(c)
  <2>1. /\ \A d \in Callers : d # c => call'[d] = call[d]
        /\ call'[c].req = req
        /\ UNCHANGED <<intents, loose, rebase>>
        /\ effects' = effects \/ Process(req)
    <3>0. call[c] \in [step : {"sent", "applied", "conflict", "refused", "cached", "halting"},
                       req : Request, seen : Nat]
      BY <1>1, <1>3 DEF CallType
    <3>1. CASE Serve(c)
      BY <1>1, <3>0, <3>1 DEF Serve
    <3>2. CASE TakeCanonical(c)
      BY <1>1, <3>0, <3>2 DEF TakeCanonical, historyVars
    <3>3. QED
      BY <1>5, <3>1, <3>2
  <2>2. \A j \in Formed : Stored(j) /\ effects'[j] > 0 => NoneAhead(j)
    BY <1>3, <1>4, <2>1, ReleasedSoFar, ProcessedInTurn
  <2>3. ASSUME NEW d \in Callers \ {"direct"}, call'[d] # NoCall
        PROVE  NoneAhead(call'[d].req.intent)
    BY <1>3, <2>1, <2>3, ReleasedSoFar
  <2>4. QED
    BY <2>1, <2>2, <2>3, ReleasedSoFar, InOrderIf
<1>6. ASSUME NEW result, Return(c, result)
      PROVE  /\ \A d \in Callers : call'[d] # NoCall => call'[d] = call[d]
             /\ \A r \in Rebases : \/ rebase'[r] = rebase[r]
                                   \/ rebase'[r].phase \in {"reading", "ending"}
  <2>1. call' = [call EXCEPT ![c] = NoCall]
    BY <1>6 DEF Return
  <2>2. c \in Rebases => rebase'[c].phase \in {"reading", "ending"}
    BY <1>1, <1>6 DEF Return, RebaseType
  <2>3. \A r \in Rebases : r # c => rebase'[r] = rebase[r]
    BY <1>1, <1>6 DEF Return
  <2>4. QED
    BY <1>1, <2>1, <2>2, <2>3
<1>7. CASE DeleteRow(c) \/ HaltQueue(c)
  <2>1. UNCHANGED <<intents, effects, loose>> /\ \E result : Return(c, result)
    BY <1>7 DEF DeleteRow, HaltQueue, historyVars
  <2>2. /\ \A d \in Callers : call'[d] # NoCall => call'[d] = call[d]
        /\ \A r \in Rebases : \/ rebase'[r] = rebase[r]
                              \/ rebase'[r].phase \in {"reading", "ending"}
    BY <1>6, <2>1
  <2>3. QED
    BY <2>1, <2>2, NothingReleased
<1>8. CASE Lose(c)
  <2>1. /\ UNCHANGED <<intents, effects>> /\ Return(c, "failed")
        /\ loose' \subseteq loose \cup {req}
    BY <1>8 DEF Lose, historyVars
  <2>2. /\ \A d \in Callers : call'[d] # NoCall => call'[d] = call[d]
        /\ \A r \in Rebases : \/ rebase'[r] = rebase[r]
                              \/ rebase'[r].phase \in {"reading", "ending"}
    BY <1>6, <2>1
  <2>3. /\ \A j \in Formed : Stored(j) /\ effects'[j] > 0 => NoneAhead(j)
        /\ \A other \in loose' : Stored(other.intent) => NoneAhead(other.intent)
    BY <1>4, <2>1, ReleasedSoFar
  <2>4. ASSUME NEW d \in Callers \ {"direct"}, call'[d] # NoCall
        PROVE  NoneAhead(call'[d].req.intent)
    BY <2>2, <2>4, ReleasedSoFar
  <2>5. ASSUME NEW r \in Rebases, rebase'[r].phase \in {"reissuing", "sending"}
        PROVE  NoneAhead(rebase'[r].head.intent)
    BY <2>2, <2>5, ReleasedSoFar
  <2>6. QED
    BY <2>1, <2>3, <2>4, <2>5, InOrderIf
<1>9. QED
  BY <1>5, <1>7, <1>8 DEF Attempt

LEMMA InOrderByStage ==
    ASSUME Inv, Steady, ReleasedInOrder,
           NEW o \in Orders, NEW kind \in Kinds, NEW base \in Nat,
           Stage(Identity(o, kind, base)), UNCHANGED <<serverVars, loose, rebase>>,
           kind = "create" => \A j \in Formed : OrderOf(j) # o
    PROVE  ReleasedInOrder'
<1>0. PICK i : i = Len(intents) + 1
  OBVIOUS
<1>1. /\ TypeOK /\ i \in Intents /\ UNCHANGED <<version, taken, effects>>
      /\ \A c \in Callers : c # "direct" => call'[c] = call[c]
  BY <1>0 DEF Inv, TypeOK, EngineTypeOK, Stage, SendUnstored, Send, serverVars
<1>2. PICK stored \in BOOLEAN :
          intents' = Append(intents, [order |-> o, kind |-> kind, stored |-> stored])
  BY <1>0 DEF Stage, Identity
<1>3. Onward /\ i \notin Formed /\ Formed' = Formed \cup {i}
  BY <1>0, <1>1, <1>2, StageForms
<1>4. effects[i] = 0
  BY <1>1, <1>3 DEF Inv, EffectsTrue
<1>5. ASSUME NEW j \in Formed', Released(j)' PROVE j \in Formed /\ Released(j)
  <2>1. CASE effects'[j] > 0
    <3>1. j \in Formed
      BY <1>1, <1>3, <1>4, <2>1
    <3>2. QED
      BY <1>1, <1>3, <1>5, <2>1, <3>1, IntentKept DEF Released
  <2>2. CASE \E c \in Callers \ {"direct"} : call'[c] # NoCall /\ call'[c].req.intent = j
    <3>1. PICK c \in Callers \ {"direct"} : call[c] # NoCall /\ call[c].req.intent = j
      BY <1>1, <2>2
    <3>2. j \in Formed
      BY <3>1, ReleasedSoFar
    <3>3. QED
      BY <1>1, <1>3, <1>5, <3>1, <3>2, IntentKept DEF Released
  <2>3. CASE \E req \in loose' : req.intent = j
    <3>1. j \in Formed
      BY <2>3, ReleasedSoFar
    <3>2. QED
      BY <1>1, <1>3, <1>5, <2>3, <3>1, IntentKept DEF Released
  <2>4. CASE \E r \in Rebases : /\ rebase'[r].phase \in {"reissuing", "sending"}
                                /\ rebase'[r].head.intent = j
    <3>1. j \in Formed
      BY <2>4, ReleasedSoFar
    <3>2. QED
      BY <1>1, <1>3, <1>5, <2>4, <3>1, IntentKept DEF Released
  <2>5. QED
    BY <1>5, <2>1, <2>2, <2>3, <2>4 DEF Released
<1>6. QED
  BY <1>5, SettledKept DEF ReleasedInOrder

(* The first row of a pass, and of the queue, waits for nothing. *)
LEMMA FirstWaits ==
    ASSUME Inv, InTurn, NEW e \in pass.todo, \A other \in pass.todo : Before(e, other)
    PROVE  NoneAhead(e.req.intent)
<1> SUFFICES ASSUME NEW i \in Formed, i < e.req.intent, OrderOf(i) = OrderOf(e.req.intent),
                    ~Settled(i)
             PROVE  FALSE
  BY DEF NoneAhead
<1>1. PICK f \in pass.todo : f.req.intent = i /\ f.group = e.group
  BY DEF InTurn
<1>2. /\ e \in [req : Request, group : Intents] /\ e.req.intent \in Intents /\ i \in Intents
  BY FormedIntents DEF Inv, TypeOK, EngineTypeOK, PassType, Request
<1>3. e.group \in Nat /\ e.req.intent \in Nat /\ i \in Nat
  BY <1>2, IntentsAreNumbers
<1>4. e.req.intent <= i
  BY <1>1, <1>3 DEF Before
<1>5. QED
  BY <1>3, <1>4

LEMMA InOrderStep ==
    ASSUME Inv, ReleasedInOrder, InTurn, [Next]_vars
    PROVE  ReleasedInOrder'
<1>1. /\ TypeOK /\ call \in [Callers -> CallType] /\ rebase \in [Rebases -> RebaseType]
  BY DEF Inv, TypeOK, EngineTypeOK
<1>2. Steady
  BY SteadyStep
<1>3. ASSUME UNCHANGED <<intents, effects, loose, call, rebase>> PROVE ReleasedInOrder'
  BY <1>2, <1>3, NothingReleased
<1>4. ASSUME NEW c \in Callers, Attempt(c) \/ Lose(c) PROVE ReleasedInOrder'
  BY <1>2, <1>4, InOrderByAttempts
<1>5. ASSUME NEW req \in loose, ServeLoose(req) PROVE ReleasedInOrder'
  <2>1. Process(req) /\ loose' = loose \ {req} /\ UNCHANGED <<intents, call, rebase>>
    BY <1>5 DEF ServeLoose, engineVars
  <2>2. \A j \in Formed : Stored(j) /\ effects'[j] > 0 => NoneAhead(j)
    BY <2>1, ReleasedSoFar, ProcessedInTurn DEF Inv, LooseTrue
  <2>3. QED
    BY <1>2, <2>1, <2>2, ReleasedSoFar, InOrderIf
<1>6. ASSUME NEW o \in Orders, OtherTerminal(o) PROVE ReleasedInOrder'
  BY <1>3, <1>6 DEF OtherTerminal, engineVars, historyVars
<1>7. ASSUME NEW o \in Orders, CreateOrder(o) PROVE ReleasedInOrder'
  <2>1. /\ Stage(Identity(o, "create", 0)) /\ UNCHANGED <<serverVars, loose, rebase>>
        /\ \A j \in Formed : OrderOf(j) # o
    BY <1>7 DEF CreateOrder
  <2>2. "create" \in Kinds /\ 0 \in Nat
    BY DEF Kinds
  <2>3. QED
    BY <1>2, <2>1, <2>2, InOrderByStage
<1>8. ASSUME NEW kind \in CommandKinds, Command(kind) PROVE ReleasedInOrder'
  <2>1. /\ Stage(Identity(current, kind, Projected)) /\ UNCHANGED <<serverVars, loose, rebase>>
        /\ current # NULL
    BY <1>8 DEF Command
  <2>2. /\ kind \in Kinds /\ kind # "create" /\ current \in Orders
    BY <1>1, <2>1 DEF Kinds, CommandKinds, TypeOK, ScreenTypeOK
  <2>3. Projected \in Nat
    BY ProjectedTyped
  <2>4. QED
    BY <1>2, <2>1, <2>2, <2>3, InOrderByStage
<1>9. ASSUME NEW r \in Rebases, RebaseHalted(r) \/ RebaseEnds(r) PROVE ReleasedInOrder'
  <2>1. UNCHANGED <<intents, effects, loose, call>>
    BY <1>9 DEF RebaseHalted, RebaseEnds, historyVars
  <2>2. /\ \A other \in Rebases : other # r => rebase'[other] = rebase[other]
        /\ rebase'[r].phase \in {"reading", "idle"}
    <3>1. CASE RebaseHalted(r)
      BY <1>1, <3>1 DEF RebaseHalted
    <3>2. CASE RebaseEnds(r)
      BY <1>1, <3>2 DEF RebaseEnds, IdleRebase
    <3>3. QED
      BY <1>9, <3>1, <3>2
  <2>3. QED
    BY <1>2, <2>1, <2>2, NothingReleased
<1>10. ASSUME NEW r \in Rebases, ReadHead(r) PROVE ReleasedInOrder'
  <2>1. /\ UNCHANGED <<intents, effects, loose, call>>
        /\ \/ rebase' = [rebase EXCEPT ![r].phase = "ending"]
           \/ \E i \in Queued(rows, rebase[r].order) :
                  /\ \A j \in Queued(rows, rebase[r].order) : i <= j
                  /\ rebase' = [rebase EXCEPT ![r].phase = "reissuing",
                                              ![r].head = RequestOf(rows, i)]
    BY <1>10 DEF ReadHead, historyVars
  <2>2. CASE rebase' = [rebase EXCEPT ![r].phase = "ending"]
    <3>1. /\ \A other \in Rebases : other # r => rebase'[other] = rebase[other]
          /\ rebase'[r].phase = "ending"
      BY <1>1, <2>2 DEF RebaseType
    <3>2. QED
      BY <1>2, <2>1, <3>1, NothingReleased
  <2>3. ASSUME NEW i \in Queued(rows, rebase[r].order),
               \A j \in Queued(rows, rebase[r].order) : i <= j,
               rebase' = [rebase EXCEPT ![r].phase = "reissuing", ![r].head = RequestOf(rows, i)]
        PROVE  ReleasedInOrder'
    <3>1. /\ \A other \in Rebases : other # r => rebase'[other] = rebase[other]
          /\ rebase'[r].head.intent = i
      BY <1>1, <2>3 DEF RebaseType, RequestOf
    <3>2. NoneAhead(i)
      <4>1. i \in Intents /\ rows[i] # NoRow /\ rows[i].order = rebase[r].order
        BY <2>3 DEF Queued
      <4>2. \A j \in Intents : rows[j] # NoRow => j \in Formed /\ rows[j].order = OrderOf(j)
        BY DEF Inv, RowsTrue, RowTrue
      <4>3. \A j \in Formed : rows[j] # NoRow /\ OrderOf(j) = OrderOf(i) => i <= j
        BY <2>3, <4>1, <4>2, <1>1, FormedIntents DEF Queued
      <4>4. \A j \in Formed : j \in Nat /\ i \in Nat
        BY <1>1, <4>1, FormedIntents, IntentsAreNumbers
      <4>5. QED
        BY <4>3, <4>4 DEF NoneAhead, Settled
    <3>3. ASSUME NEW other \in Rebases, rebase'[other].phase \in {"reissuing", "sending"}
          PROVE  NoneAhead(rebase'[other].head.intent)
      BY <3>1, <3>2, <3>3, ReleasedSoFar
    <3>4. QED
      BY <1>2, <2>1, <3>3, ReleasedSoFar, InOrderIf
  <2>4. QED
    BY <2>1, <2>2, <2>3
<1>11. ASSUME NEW r \in Rebases, Reissue(r) PROVE ReleasedInOrder'
  <2>1. /\ rebase[r].phase = "reissuing" /\ UNCHANGED <<intents, effects, loose, call>>
        /\ \/ rebase' = [rebase EXCEPT ![r].phase = "ending"]
           \/ \E k, b : rebase' = [rebase EXCEPT ![r].phase = "sending",
                                       ![r].head = [intent |-> rebase[r].head.intent,
                                                    k |-> k, base |-> b]]
    BY <1>11 DEF Reissue
  <2>2. /\ \A other \in Rebases : other # r => rebase'[other] = rebase[other]
        /\ rebase'[r].head.intent = rebase[r].head.intent
    BY <1>1, <2>1 DEF RebaseType
  <2>3. ASSUME NEW other \in Rebases, rebase'[other].phase \in {"reissuing", "sending"}
        PROVE  /\ rebase[other].phase \in {"reissuing", "sending"}
               /\ rebase'[other].head.intent = rebase[other].head.intent
    BY <2>1, <2>2, <2>3
  <2>4. QED
    BY <1>2, <2>1, <2>3, NothingReleased
<1>12. ASSUME NEW r \in Rebases, RebaseSends(r) PROVE ReleasedInOrder'
  <2>1. /\ rebase[r].phase = "sending" /\ UNCHANGED <<intents, effects, loose, rebase>>
        /\ call' = [call EXCEPT ![r] = [step |-> "sent", req |-> rebase[r].head, seen |-> 0]]
    BY <1>12 DEF RebaseSends, Send
  <2>2. ASSUME NEW c \in Callers \ {"direct"}, call'[c] # NoCall
        PROVE  NoneAhead(call'[c].req.intent)
    <3>1. CASE c = r
      BY <1>1, <2>1, <3>1, ReleasedSoFar
    <3>2. CASE c # r
      BY <1>1, <2>1, <2>2, <3>2, ReleasedSoFar
    <3>3. QED
      BY <3>1, <3>2
  <2>3. QED
    BY <1>2, <2>1, <2>2, ReleasedSoFar, InOrderIf
<1>13. CASE PassSends
  <2>1. PICK e \in pass.todo : /\ \A other \in pass.todo : Before(e, other)
                               /\ call' = [call EXCEPT !["pass"] = [step |-> "sent", req |-> e.req,
                                                                    seen |-> 0]]
    BY <1>13 DEF PassSends, Send
  <2>2. UNCHANGED <<intents, effects, loose, rebase>>
    BY <1>13 DEF PassSends
  <2>3. ASSUME NEW c \in Callers \ {"direct"}, call'[c] # NoCall
        PROVE  NoneAhead(call'[c].req.intent)
    <3>1. CASE c = "pass"
      BY <1>1, <2>1, <3>1, FirstWaits
    <3>2. CASE c # "pass"
      BY <1>1, <2>1, <2>3, <3>2, ReleasedSoFar
    <3>3. QED
      BY <3>1, <3>2
  <2>4. QED
    BY <1>2, <2>2, <2>3, ReleasedSoFar, InOrderIf
<1>14. CASE Trigger \/ PassEnds \/ HydrateReads \/ HydrateRestores \/ HydratePrunes
  BY <1>3, <1>14 DEF Trigger, PassEnds, HydrateReads, HydrateRestores, HydratePrunes, engineVars,
                     historyVars
<1>15. CASE Visit
  BY <1>3, <1>15 DEF Visit, Leave, Detach, OpenAgain, engineVars, historyVars
<1>16. CASE Clear \/ DiscardHalted \/ AskOrder \/ TakeOrder \/ \E o \in Orders : FocusOrder(o)
  BY <1>3, <1>16 DEF Clear, DiscardHalted, AskOrder, TakeOrder, FocusOrder, engineVars, historyVars
<1>17. CASE Reload
  <2>1. /\ UNCHANGED <<intents, effects>>
        /\ loose' = loose \cup {call[c].req : c \in {d \in Callers : call[d].step = "sent"}}
        /\ \A c \in Callers : call'[c] = NoCall
        /\ \A r \in Rebases : rebase'[r].phase = "idle"
    BY <1>17 DEF Reload, historyVars, IdleRebase
  <2>2. ASSUME NEW c \in Callers, call[c].step = "sent", Stored(call[c].req.intent)
        PROVE  NoneAhead(call[c].req.intent)
    <3>1. call[c] # NoCall /\ CallTrue(c)
      BY <1>1, <2>2, CallHasRequest DEF Inv
    <3>2. c # "direct"
      BY <2>2, <3>1 DEF CallTrue
    <3>3. QED
      BY <3>1, <3>2, ReleasedSoFar
  <2>3. \A req \in loose' : Stored(req.intent) => NoneAhead(req.intent)
    BY <2>1, <2>2, ReleasedSoFar
  <2>4. QED
    BY <1>2, <2>1, <2>3, ReleasedSoFar, InOrderIf
<1>18. CASE UNCHANGED vars
  BY <1>3, <1>18 DEF vars, engineVars, historyVars
<1>19. QED
  BY <1>4, <1>5, <1>6, <1>7, <1>8, <1>9, <1>10, <1>11, <1>12, <1>13, <1>14, <1>15, <1>16, <1>17,
     <1>18 DEF Next, Rebase, Pass, Hydrate

(* What leaves a pass has had its effect, or takes its order with it. *)
LEMMA InTurnIf ==
    ASSUME Inv, Steady, InTurn, pass'.todo \subseteq pass.todo,
           \A f \in pass.todo \ pass'.todo : \A e \in pass'.todo :
               OrderOf(f.req.intent) = OrderOf(e.req.intent) => effects'[f.req.intent] > 0
    PROVE  InTurn'
<1> SUFFICES ASSUME NEW e \in pass'.todo, NEW i \in Formed', i < e.req.intent,
                    OrderOf(i)' = OrderOf(e.req.intent)', ~Settled(i)'
             PROVE  \E f \in pass'.todo : f.req.intent = i /\ f.group = e.group
  BY DEF InTurn
<1>1. TypeOK /\ Onward
  BY DEF Inv, Steady
<1>2. e \in pass.todo /\ e.req.intent \in Formed
  BY DEF Inv, PassTrue, ToDoTrue, Genuine, Formed
<1>3. i \in Formed
  BY <1>2 DEF Steady
<1>4. OrderOf(i) = OrderOf(e.req.intent) /\ ~Settled(i)
  BY <1>1, <1>2, <1>3, IntentKept, SettledKept
<1>5. PICK f \in pass.todo : f.req.intent = i /\ f.group = e.group
  BY <1>2, <1>3, <1>4 DEF InTurn
<1>6. ~(effects'[i] > 0)
  BY DEF Settled
<1>7. f \in pass'.todo
  BY <1>4, <1>5, <1>6
<1>8. QED
  BY <1>5, <1>7

LEMMA InTurnListed ==
    ASSUME Inv', pass'.todo = SendList(rows')
    PROVE  InTurn'
<1> SUFFICES ASSUME NEW e \in pass'.todo, NEW i \in Formed', i < e.req.intent,
                    OrderOf(i)' = OrderOf(e.req.intent)', rows'[i] # NoRow
             PROVE  \E f \in pass'.todo : f.req.intent = i /\ f.group = e.group
  BY DEF InTurn, Settled
<1>1. PICK j \in Intents : rows'[j] # NoRow /\ Sendable(rows', rows'[j].order) /\ e = ToSend(rows', j)
  BY DEF SendList
<1>2. e.req.intent = j /\ e.group = FirstOf(rows', j)
  BY <1>1 DEF ToSend, RequestOf
<1>3. i \in Intents /\ rows'[i].order = OrderOf(i)' /\ rows'[j].order = OrderOf(j)'
  BY <1>1 DEF Inv, TypeOK, HistoryTypeOK, RowsTrue, RowTrue
<1>4. rows'[i].order = rows'[j].order
  BY <1>2, <1>3 DEF OrderOf
<1>5. ToSend(rows', i) \in pass'.todo
  BY <1>1, <1>3, <1>4 DEF SendList
<1>6. ToSend(rows', i).req.intent = i /\ ToSend(rows', i).group = e.group
  BY <1>2, <1>4 DEF ToSend, RequestOf, FirstOf
<1>7. QED
  BY <1>5, <1>6

LEMMA InTurnByRun ==
    ASSUME Inv, Inv', Steady, InTurn, Run(rows')
    PROVE  InTurn'
<1>1. pass \in PassType
  BY DEF Inv, TypeOK, EngineTypeOK
<1>2. CASE pass.running
  <2>1. pass'.todo = pass.todo
    BY <1>1, <1>2 DEF Run, PassType
  <2>2. QED
    BY <2>1, InTurnIf
<1>3. CASE ~pass.running
  <2>1. pass'.todo = SendList(rows')
    BY <1>3 DEF Run
  <2>2. QED
    BY <2>1, InTurnListed
<1>4. QED
  BY <1>2, <1>3

LEMMA InTurnByReturn ==
    ASSUME Inv, Steady, InTurn, NEW c \in Callers, NEW result \in {"applied", "halted", "failed"},
           Return(c, result), result = "applied" => effects'[call[c].req.intent] > 0
    PROVE  InTurn'
<1> DEFINE left == Remaining(pass.todo, result, call[c].req)
<1>1. pass' = IF c # "pass" THEN pass ELSE [pass EXCEPT !.todo = left]
  BY DEF Return
<1>2. /\ left \subseteq pass.todo
      /\ \A f \in pass.todo \ left : \A e \in left :
             OrderOf(f.req.intent) = OrderOf(e.req.intent)
                 => result = "applied" /\ f.req = call[c].req
  BY DEF Remaining
<1>3. pass'.todo = pass.todo \/ pass'.todo = left
  BY <1>1, <1>2 DEF Inv, TypeOK, EngineTypeOK, PassType
<1>4. QED
  BY <1>2, <1>3, InTurnIf

LEMMA InTurnStep ==
    ASSUME Inv, Inv', InTurn, [Next]_vars
    PROVE  InTurn'
<1>1. Steady /\ TypeOK
  BY SteadyStep DEF Inv
<1>2. ASSUME UNCHANGED pass PROVE InTurn'
  BY <1>1, <1>2, InTurnIf
<1>3. ASSUME Run(rows') PROVE InTurn'
  BY <1>1, <1>3, InTurnByRun
<1>4. ASSUME NEW c \in Callers, Serve(c) \/ TakeCanonical(c) PROVE InTurn'
  BY <1>2, <1>4 DEF Serve, TakeCanonical
<1>5. ASSUME NEW c \in Callers, DeleteRow(c) PROVE InTurn'
  <2>1. call[c].step = "cached" /\ Return(c, "applied") /\ UNCHANGED effects
    BY <1>5 DEF DeleteRow, historyVars
  <2>2. effects'[call[c].req.intent] > 0
    BY <1>1, <2>1, CallHasRequest DEF Inv, CallTrue
  <2>3. QED
    BY <1>1, <2>1, <2>2, InTurnByReturn
<1>6. ASSUME NEW c \in Callers, HaltQueue(c) \/ Lose(c) PROVE InTurn'
  <2>1. Return(c, "halted") \/ Return(c, "failed")
    BY <1>6 DEF HaltQueue, Lose
  <2>2. QED
    BY <1>1, <2>1, InTurnByReturn
<1>7. ASSUME NEW o \in Orders, NEW kind, NEW base,
             Stage(Identity(o, kind, base))
      PROVE  InTurn'
  <2>1. Run(rows') \/ UNCHANGED pass
    BY <1>7 DEF Stage
  <2>2. QED
    BY <1>2, <1>3, <2>1
<1>8. ASSUME NEW o \in Orders, OtherTerminal(o) \/ CreateOrder(o) \/ FocusOrder(o) PROVE InTurn'
  BY <1>2, <1>7, <1>8 DEF OtherTerminal, CreateOrder, FocusOrder, engineVars
<1>9. ASSUME NEW kind \in CommandKinds, Command(kind) PROVE InTurn'
  <2>1. current \in Orders /\ Stage(Identity(current, kind, Projected))
    BY <1>1, <1>9 DEF Command, TypeOK, ScreenTypeOK
  <2>2. QED
    BY <1>7, <2>1
<1>10. ASSUME NEW req \in loose, ServeLoose(req) PROVE InTurn'
  BY <1>2, <1>10 DEF ServeLoose, engineVars
<1>11. ASSUME NEW r \in Rebases, RebaseHalted(r) \/ Rebase(r) PROVE InTurn'
  BY <1>2, <1>11 DEF RebaseHalted, Rebase, ReadHead, Reissue, RebaseSends, RebaseEnds
<1>12. CASE Trigger
  BY <1>3, <1>12 DEF Trigger, diskVars
<1>13. CASE PassSends
  BY <1>2, <1>13 DEF PassSends
<1>14. CASE PassEnds
  <2>1. pass' = IF pass.again THEN [IdlePass EXCEPT !.running = TRUE, !.todo = SendList(rows)]
                ELSE IdlePass
    BY <1>14 DEF PassEnds
  <2>2. rows' = rows
    BY <1>14 DEF PassEnds, diskVars
  <2>3. CASE pass.again
    BY <2>1, <2>2, <2>3, InTurnListed DEF IdlePass
  <2>4. CASE ~pass.again
    BY <2>1, <2>4 DEF IdlePass, InTurn
  <2>5. QED
    BY <2>3, <2>4
<1>15. CASE HydrateRestores
  BY <1>3, <1>15 DEF HydrateRestores, diskVars
<1>16. CASE HydrateReads \/ HydratePrunes \/ Visit
  BY <1>2, <1>16 DEF HydrateReads, HydratePrunes, Visit, Leave, Detach, OpenAgain, engineVars
<1>17. CASE Clear \/ DiscardHalted \/ AskOrder \/ TakeOrder
  BY <1>2, <1>17 DEF Clear, DiscardHalted, AskOrder, TakeOrder, engineVars
<1>18. CASE Reload
  BY <1>18 DEF Reload, IdlePass, InTurn
<1>19. CASE UNCHANGED vars
  BY <1>2, <1>19 DEF vars, engineVars
<1>20. QED
  BY <1>4, <1>5, <1>6, <1>8, <1>9, <1>10, <1>11, <1>12, <1>13, <1>14, <1>15, <1>16, <1>17, <1>18,
     <1>19 DEF Next, Attempt, Pass, Hydrate

(* No mutation is read as the head of the queue, sent, or served while an  *)
(* earlier one of its order, which has had no effect, is queued.           *)
LEMMA InOrder == Spec => [](Inv /\ ReleasedInOrder /\ InTurn)
<1>1. Init => ReleasedInOrder /\ InTurn
  BY DEF Init, ReleasedInOrder, InTurn, Formed, IdlePass
<1>2. Inv /\ Inv' /\ ReleasedInOrder /\ InTurn /\ [Next]_vars => ReleasedInOrder' /\ InTurn'
  BY InOrderStep, InTurnStep
<1>3. QED
  BY <1>1, <1>2, Invariant, PTL DEF Spec

(* The mutations of an order take effect in the order the operator formed  *)
(* them, however passes, rebases, reloads and lost answers interleave      *)
(* (section 14).                                                           *)
THEOREM InQueueOrder == Spec => []QueueOrder
<1>1. Inv /\ ReleasedInOrder => QueueOrder
  <2> SUFFICES ASSUME Inv, ReleasedInOrder, NEW i \in Formed, NEW j \in Formed,
                      i < j, OrderOf(i) = OrderOf(j), Stored(j), effects[j] > 0,
                      rows[i] # NoRow, i \notin doubted
               PROVE  effects[i] > 0
    BY DEF QueueOrder
  <2>1. QED
    BY ReleasedSoFar DEF NoneAhead, Settled
<1>2. QED
  BY <1>1, InOrder, PTL

(* A halted row that had no effect stops every mutation behind it, whoever *)
(* has it in hand and whatever is on its way (section 14.1).               *)
THEOREM HaltsHold == Spec => HaltStops
<1> DEFINE Stop(i, j) ==
        /\ i < j /\ OrderOf(i) = OrderOf(j) /\ Stored(j)
        /\ rows[i].status \in {"CONFLICT", "BLOCKED"}
        /\ effects[i] = 0 /\ i \notin doubted
           Stops == \A i, j \in Formed : Stop(i, j) => effects'[j] = effects[j]
<1>1. ASSUME Inv, ReleasedInOrder, [Next]_vars, NEW i \in Formed, NEW j \in Formed, Stop(i, j)
      PROVE  effects'[j] = effects[j]
  <2>1. /\ rows[i] # NoRow /\ ~Settled(i) /\ ~NoneAhead(j)
    BY <1>1 DEF NoRow, Settled, NoneAhead
  <2>2. ASSUME NEW req, Process(req), Genuine(req, intents, version),
               Stored(req.intent) => NoneAhead(req.intent)
        PROVE  effects'[j] = effects[j]
    <3>1. j # req.intent
      BY <1>1, <2>1, <2>2
    <3>2. effects \in [Intents -> Nat]
      BY <1>1 DEF Inv, TypeOK, HistoryTypeOK
    <3>3. \/ effects' = effects
          \/ effects' = [effects EXCEPT ![req.intent] = @ + 1]
      BY <2>2 DEF Process
    <3>4. j \in Intents
      BY <1>1, FormedIntents DEF Inv, TypeOK, HistoryTypeOK
    <3>5. QED
      BY <3>1, <3>2, <3>3, <3>4
  <2>3. ASSUME NEW c \in Callers, Serve(c) PROVE effects'[j] = effects[j]
    <3>1. call[c].step = "sent" /\ Process(call[c].req)
      BY <2>3 DEF Serve
    <3>2. call[c] # NoCall /\ CallTrue(c) /\ Genuine(call[c].req, intents, version)
      BY <1>1, <3>1, CallHasRequest DEF Inv
    <3>3. Stored(call[c].req.intent) => NoneAhead(call[c].req.intent)
      <4>1. CASE c = "direct"
        BY <3>2, <4>1 DEF CallTrue
      <4>2. CASE c # "direct"
        BY <1>1, <3>2, <4>2, ReleasedSoFar
      <4>3. QED
        BY <4>1, <4>2
    <3>4. QED
      BY <2>2, <3>1, <3>2, <3>3
  <2>4. ASSUME NEW req \in loose, ServeLoose(req) PROVE effects'[j] = effects[j]
    BY <1>1, <2>2, <2>4, ReleasedSoFar DEF ServeLoose, Inv, LooseTrue
  <2>5. CASE UNCHANGED effects
    BY <2>5
  <2>6. [Next]_vars => \/ \E c \in Callers : Serve(c)
                       \/ \E req \in loose : ServeLoose(req)
                       \/ UNCHANGED effects
    BY DEF Next, Attempt, TakeCanonical, DeleteRow, HaltQueue, Lose, OtherTerminal, CreateOrder,
           FocusOrder, Command, Stage, RebaseHalted, Rebase, ReadHead, Reissue, RebaseSends,
           RebaseEnds, Trigger, Pass, PassSends, PassEnds, Hydrate, HydrateReads, HydrateRestores,
           HydratePrunes, Visit, Leave, Detach, OpenAgain, Clear, DiscardHalted, AskOrder,
           TakeOrder, Reload, vars, historyVars
  <2>7. QED
    BY <1>1, <2>3, <2>4, <2>5, <2>6
<1>2. Inv /\ ReleasedInOrder /\ [Next]_vars => [Stops]_vars
  BY <1>1
<1>3. HaltStops <=> [][Stops]_vars
  BY DEF HaltStops
<1>4. QED
  BY <1>2, <1>3, InOrder, PTL DEF Spec

-----------------------------------------------------------------------------
(* An intent takes effect once: where its requests are, under which ids    *)
(* and on which bases.                                                     *)

IdOf(req)   == <<req.intent, req.k>>
At(req)     == version[OrderOf(req.intent)]

(* The order has left the base of the request behind: it will never fit.   *)
Behind(req) == req.base < At(req)

(* On its way to the server, or back from it.                              *)
Held(req) ==
    \/ req \in loose
    \/ \E c \in Callers : call[c] # NoCall /\ call[c].req = req

Ready(req) == Held(req) \/ YetToSend(req)

InQueue(req) == \E i \in Intents : rows[i] # NoRow /\ req = RequestOf(rows, i)

Live(req) ==
    \/ Ready(req) \/ InQueue(req)
    \/ \E r \in Rebases : rebase[r].phase = "reissuing" /\ rebase[r].head = req

(* Ids are minted one after the other, a row has the last of its intent.   *)
IdsAreMinted ==
    /\ \A req \in Request : Live(req) => req.k <= minted[req.intent]
    /\ \A m \in taken : m[2] <= minted[m[1]]
    /\ \A i \in Intents : rows[i] # NoRow => rows[i].k = minted[i]
    /\ \A i \in Intents \ Formed : minted[i] = 0
    /\ givenUp \subseteq Formed

(* An id stands for one request.                                           *)
OneBase == \A p, q \in Request : Live(p) /\ Live(q) /\ IdOf(p) = IdOf(q) => p.base = q.base

TakenIsBehind == \A req \in Request : Live(req) /\ IdOf(req) \in taken => Behind(req)

(* What an answer says is true.                                            *)
AnswerTrue(c) ==
    LET req == call[c].req IN
    /\ call[c].step \in {"applied", "cached"} => Repeats(req)
    /\ call[c].step \in {"conflict", "halting"} /\ Stored(req.intent)
           => Behind(req) /\ IdOf(req) \notin taken
    /\ call[c].step = "refused" => KindOf(req.intent) = "invalid"

AnswersTrue == \A c \in Callers : call[c] # NoCall => AnswerTrue(c)

(* A stored change is the kind that is reissued and may take effect.       *)
Reissued(i) == KindOf(i) = "change" /\ Stored(i)

HeldTried ==
    \A req \in Request : Held(req) /\ Reissued(req.intent) => IdOf(req) \in tried \/ Behind(req)

TakenTried == \A m \in taken : Reissued(m[1]) => m \in tried

GivenUpGone ==
    \A i \in givenUp : /\ version[OrderOf(i)] > 0
                       /\ i \notin doubted => rows[i] = NoRow

(* An id that was dropped without a doubt has no effect any more.          *)
Dropped(req) == req.k < minted[req.intent] \/ req.intent \in givenUp

DroppedIsBehind ==
    \A req \in Request :
        /\ Ready(req) /\ Dropped(req)
        /\ KindOf(req.intent) = "change" /\ req.intent \notin doubted
        => Behind(req)

(* The effect of a change that is in no doubt is that of its last id.      *)
LastIdCounts ==
    \A i \in Formed : /\ KindOf(i) = "create" => effects[i] <= 1
                      /\ KindOf(i) = "invalid" => effects[i] = 0
                      /\ KindOf(i) = "change" /\ i \notin doubted
                         => /\ effects[i] <= 1
                            /\ effects[i] = 1 => <<i, minted[i]>> \in taken

Identities ==
    /\ IdsAreMinted /\ OneBase /\ TakenIsBehind /\ AnswersTrue /\ HeldTried /\ TakenTried
    /\ GivenUpGone /\ DroppedIsBehind /\ LastIdCounts

(* A row is based on a version the order has, or gets from a row ahead.    *)
ReachedFrom(base, i) ==
    /\ rows[i] # NoRow /\ ~Repeats(RequestOf(rows, i))
    /\ base <= Later(rows[i].base, version[OrderOf(i)]) + 1

RowReached(j) ==
    \/ rows[j].base <= version[OrderOf(j)]
    \/ \E i \in Formed : i < j /\ OrderOf(i) = OrderOf(j) /\ ReachedFrom(rows[j].base, i)

RowsReached == \A j \in Intents : rows[j] # NoRow => RowReached(j)

MirrorReached ==
    \A i \in Intents : mirror[i] # NoRow =>
        mirror[i].base < version[OrderOf(i)] \/ ReachedFrom(mirror[i].base + 1, i)

ToDoReached(e) ==
    \/ e.req.base <= At(e.req)
    \/ \E f \in pass.todo : /\ f.group = e.group /\ f.req.intent < e.req.intent
                            /\ OrderOf(f.req.intent) = OrderOf(e.req.intent)
                            /\ ~Repeats(f.req)
                            /\ e.req.base <= Later(f.req.base, At(e.req)) + 1

PassReached == \A e \in pass.todo : ToDoReached(e)

(* What is sent for a row is based on a version the order has.             *)
SentReached ==
    /\ \A req \in loose : Stored(req.intent) => req.base <= At(req)
    /\ \A c \in Callers \ {"direct"} : call[c] # NoCall => call[c].req.base <= At(call[c].req)
    /\ \A r \in Rebases :
           LET head == rebase[r].head IN
           /\ rebase[r].phase = "sending" => head.base <= At(head)
           /\ rebase[r].phase = "reissuing" /\ rows[head.intent] # NoRow
              => rows[head.intent].base <= At(head)

Bases == RowsReached /\ MirrorReached /\ PassReached /\ SentReached

OnceInv == Identities /\ Bases

LEMMA LiveIsGenuine ==
    ASSUME Inv, NEW req \in Request, Live(req)
    PROVE  /\ Genuine(req, intents, version) /\ req.intent \in Formed /\ req.intent \in Intents
           /\ OrderOf(req.intent) \in Orders /\ At(req) \in Nat /\ req.base \in Nat
           /\ req.k \in Nat /\ req.k > 0 /\ KindOf(req.intent) \in Kinds
<1>1. TypeOK
  BY DEF Inv
<1>2. Held(req) => Genuine(req, intents, version)
  BY DEF Held, Inv, LooseTrue, CallsTrue, CallTrue
<1>3. YetToSend(req) => Genuine(req, intents, version)
  BY DEF YetToSend, Inv, PassTrue, ToDoTrue, RebasesTrue, RebaseTrue
<1>4. InQueue(req) => Genuine(req, intents, version)
  BY DEF InQueue, Inv, RowsTrue, RowTrue
<1>5. (\E r \in Rebases : rebase[r].phase = "reissuing" /\ rebase[r].head = req)
      => Genuine(req, intents, version)
  BY DEF Inv, RebasesTrue, RebaseTrue
<1>6. Genuine(req, intents, version)
  BY <1>2, <1>3, <1>4, <1>5 DEF Live, Ready
<1>7. req.intent \in Formed
  BY <1>6 DEF Genuine, Formed
<1>8. /\ req.intent \in Intents /\ OrderOf(req.intent) \in Orders /\ KindOf(req.intent) \in Kinds
  BY <1>1, <1>7, FormedIntents
<1>9. At(req) \in Nat
  BY <1>1, <1>8 DEF At, TypeOK, ServerTypeOK
<1>10. req.base \in Nat /\ req.k \in 1..MaxIds
  BY DEF Request
<1>11. QED
  BY <1>6, <1>7, <1>8, <1>9, <1>10, ConstantsAssumption DEF ConstantsAssumption

(* The requests of the rows are live. *)
LEMMA RowIsLive ==
    ASSUME Inv, NEW i \in Intents, rows[i] # NoRow
    PROVE  /\ RequestOf(rows, i) \in Request /\ Live(RequestOf(rows, i)) /\ InQueue(RequestOf(rows, i))
           /\ RequestOf(rows, i).intent = i /\ RequestOf(rows, i).k = rows[i].k
           /\ RequestOf(rows, i).base = rows[i].base
           /\ i \in Formed /\ Stored(i) /\ OrderOf(i) \in Orders /\ rows[i].order = OrderOf(i)
           /\ rows[i].base \in Nat /\ version[OrderOf(i)] \in Nat
<1>1. rows \in [Intents -> RowType] /\ TypeOK
  BY DEF Inv, TypeOK, DiskTypeOK
<1>2. i \in Formed /\ Stored(i) /\ rows[i].order = OrderOf(i)
  BY DEF Inv, RowsTrue, RowTrue
<1>3. OrderOf(i) \in Orders /\ version[OrderOf(i)] \in Nat
  BY <1>1, <1>2, FormedIntents DEF TypeOK, ServerTypeOK
<1>4. rows[i].base \in Nat
  BY <1>1, RowIsThere
<1>5. InQueue(RequestOf(rows, i))
  BY DEF InQueue
<1>6. QED
  BY <1>1, <1>2, <1>3, <1>4, <1>5, RequestOfRow DEF Live

LEMMA RequestsAreEqual ==
    ASSUME NEW p \in Request, NEW q \in Request, IdOf(p) = IdOf(q), p.base = q.base
    PROVE  p = q
  BY DEF Request, IdOf

(* What the server has left behind stays behind. *)
LEMMA BehindKept ==
    ASSUME Inv, Onward, NEW req \in Request, Live(req)
    PROVE  /\ At(req)' \in Nat /\ At(req) <= At(req)'
           /\ Behind(req) => Behind(req)'
           /\ req.base <= At(req) => req.base <= At(req)'
           /\ KindOf(req.intent)' = KindOf(req.intent) /\ Stored(req.intent)' = Stored(req.intent)
           /\ OrderOf(req.intent)' = OrderOf(req.intent)
<1>1. /\ req.intent \in Formed /\ OrderOf(req.intent) \in Orders /\ req.base \in Nat /\ At(req) \in Nat
  BY LiveIsGenuine
<1>2. TypeOK
  BY DEF Inv
<1>3. /\ OrderOf(req.intent)' = OrderOf(req.intent) /\ KindOf(req.intent)' = KindOf(req.intent)
      /\ Stored(req.intent)' = Stored(req.intent)
  BY <1>1, <1>2, IntentKept
<1>4. At(req)' = version'[OrderOf(req.intent)]
  BY <1>3 DEF At
<1>5. At(req)' \in Nat /\ At(req) <= At(req)'
  BY <1>1, <1>4 DEF Onward, At
<1>6. QED
  BY <1>1, <1>3, <1>5 DEF Behind

LEMMA RepeatsKept ==
    ASSUME Inv, Onward, taken \subseteq taken', NEW req \in Request, Live(req), Repeats(req)
    PROVE  Repeats(req)'
<1>1. /\ req.intent \in Formed /\ TypeOK
  BY LiveIsGenuine DEF Inv
<1>2. /\ KindOf(req.intent)' = KindOf(req.intent) /\ OrderOf(req.intent)' = OrderOf(req.intent)
      /\ version[OrderOf(req.intent)] > 0 => version'[OrderOf(req.intent)] > 0
  BY <1>1, IntentKept
<1>3. QED
  BY <1>2 DEF Repeats, KindOf

(* A repeat is of a request that is behind: the answer tells an effect.    *)
LEMMA RepeatsIsBehind ==
    ASSUME Inv, TakenIsBehind, NEW req \in Request, Live(req), Repeats(req)
    PROVE  Behind(req)
<1>1. CASE IdOf(req) \in taken
  BY <1>1 DEF TakenIsBehind
<1>2. CASE KindOf(req.intent) = "create" /\ At(req) > 0
  BY <1>2, LiveIsGenuine DEF Genuine, Behind, KindOf
<1>3. QED
  BY <1>1, <1>2 DEF Repeats, IdOf, KindOf, At

(* What processing a request does. *)
LEMMA ProcessTakes ==
    ASSUME Inv, NEW req \in Request, Live(req), Process(req), UNCHANGED intents
    PROVE  /\ Onward /\ taken \subseteq taken' /\ taken' \subseteq taken \cup {IdOf(req)}
           /\ \/ /\ version' = version /\ effects' = effects
                 /\ IdOf(req) \in taken' \ taken => KindOf(req.intent) = "create" /\ At(req) > 0
              \/ /\ ~Repeats(req) /\ At(req) = req.base /\ KindOf(req.intent) # "invalid"
                 /\ version' = [version EXCEPT ![OrderOf(req.intent)] = @ + 1]
                 /\ effects' = [effects EXCEPT ![req.intent] = @ + 1]
                 /\ taken' = taken \cup {IdOf(req)}
<1>1. Genuine(req, intents, version) /\ TypeOK /\ CreatesAreFirst /\ EffectsTrue
  BY LiveIsGenuine DEF Inv
<1>2. Onward
  BY <1>1, ProcessCounts
<1>3. taken' = IF Answer(req) = "applied" THEN taken \cup {IdOf(req)} ELSE taken
  BY DEF Process, IdOf
<1>4. CASE Answer(req) = "applied" /\ ~Repeats(req)
  <2>1. Fits(req)
    BY <1>1, <1>4, AnswersAreThree
  <2>2. KindOf(req.intent) # "invalid"
    BY <1>4, <2>1 DEF Answer, Fits, KindOf
  <2>3. QED
    BY <1>2, <1>3, <1>4, <2>1, <2>2 DEF Process, Fits, At
<1>5. CASE ~(Answer(req) = "applied" /\ ~Repeats(req))
  <2>1. version' = version /\ effects' = effects
    BY <1>5 DEF Process
  <2>2. IdOf(req) \in taken' \ taken => Repeats(req)
    BY <1>3, <1>5
  <2>3. IdOf(req) \in taken' \ taken => KindOf(req.intent) = "create" /\ At(req) > 0
    BY <2>2 DEF Repeats, IdOf, KindOf, At
  <2>4. QED
    BY <1>2, <1>3, <2>1, <2>3
<1>6. QED
  BY <1>4, <1>5

(* A request that the server takes from now on had its effect, and is one  *)
(* version behind.                                                         *)
LEMMA BecomesRepeated ==
    ASSUME Inv, OneBase, NEW req \in Request, Live(req), Process(req), UNCHANGED intents,
           NEW p \in Request, Live(p), ~Repeats(p), Repeats(p)'
    PROVE  At(p) = p.base /\ At(p)' = p.base + 1
<1>1. /\ p.intent \in Formed /\ OrderOf(p.intent) \in Orders /\ OrderOf(req.intent) \in Orders
      /\ Genuine(p, intents, version) /\ At(p) \in Nat /\ version \in [Orders -> Nat]
  BY LiveIsGenuine DEF Inv, TypeOK, ServerTypeOK
<1>2. /\ KindOf(p.intent)' = KindOf(p.intent) /\ OrderOf(p.intent)' = OrderOf(p.intent)
      /\ IdOf(p)' = IdOf(p) /\ At(p)' = version'[OrderOf(p.intent)]
  BY DEF KindOf, OrderOf, IdOf, At
<1>3. /\ IdOf(p) \notin taken
      /\ ~(KindOf(p.intent) = "create" /\ At(p) > 0)
      /\ IdOf(p) \in taken' \/ (KindOf(p.intent) = "create" /\ At(p)' > 0)
  BY <1>2 DEF Repeats, IdOf, KindOf, At
<1>4. IdOf(p) = IdOf(req) => p.intent = req.intent /\ p.base = req.base /\ At(p) = At(req)
  BY DEF OneBase, IdOf, At
<1>5. CASE version' = version
  <2>1. IdOf(p) \in taken'
    BY <1>2, <1>3, <1>5 DEF At
  <2>2. IdOf(p) = IdOf(req)
    BY <1>3, <2>1, ProcessTakes
  <2>3. version' # version \/ (KindOf(req.intent) = "create" /\ At(req) > 0)
    BY <1>1, <1>3, <2>1, <2>2, ProcessTakes
  <2>4. QED
    BY <1>3, <1>4, <1>5, <2>2, <2>3
<1>6. CASE version' # version
  <2>1. /\ At(req) = req.base
        /\ version' = [version EXCEPT ![OrderOf(req.intent)] = @ + 1]
        /\ taken' = taken \cup {IdOf(req)}
    BY <1>6, ProcessTakes
  <2>2. CASE IdOf(p) = IdOf(req)
    BY <1>1, <1>2, <1>4, <2>1, <2>2 DEF At
  <2>3. CASE IdOf(p) # IdOf(req)
    <3>1. KindOf(p.intent) = "create" /\ At(p)' > 0
      BY <1>3, <2>1, <2>3
    <3>2. At(p) = 0 /\ p.base = 0
      BY <1>1, <1>3, <3>1 DEF Genuine, KindOf
    <3>3. At(p)' = 1
      BY <1>1, <1>2, <2>1, <3>1, <3>2 DEF At
    <3>4. QED
      BY <3>2, <3>3
  <2>4. QED
    BY <2>2, <2>3
<1>7. QED
  BY <1>5, <1>6

LEMMA TakenKept ==
    ASSUME Inv, OneBase, TakenIsBehind, NEW req \in Request, Live(req), Process(req),
           UNCHANGED intents, \A p \in Request : Live(p)' => Live(p)
    PROVE  TakenIsBehind'
<1> SUFFICES ASSUME NEW p \in Request, Live(p), IdOf(p) \in taken'
             PROVE  Behind(p)'
  BY DEF TakenIsBehind, IdOf
<1>1. Onward
  BY ProcessTakes
<1>2. CASE Repeats(p)
  BY <1>1, <1>2, RepeatsIsBehind, BehindKept
<1>3. CASE ~Repeats(p)
  <2>1. Repeats(p)'
    BY DEF Repeats, IdOf
  <2>2. QED
    BY <1>3, <2>1, BecomesRepeated, LiveIsGenuine DEF Behind
<1>4. QED
  BY <1>2, <1>3

(* An answer stays true while the server goes on. *)
Continues(c) ==
    /\ call[c] # NoCall /\ call'[c].req = call[c].req
    /\ \/ call'[c].step = call[c].step
       \/ call[c].step = "applied" /\ call'[c].step = "cached"
       \/ call[c].step = "conflict" /\ call'[c].step = "halting"

LEMMA AnswerKept ==
    ASSUME Inv, Onward, taken \subseteq taken', NEW c \in Callers, AnswerTrue(c), Continues(c),
           \A p \in Request :
               Live(p) /\ Behind(p) /\ KindOf(p.intent) # "create" /\ IdOf(p) \in taken'
               => IdOf(p) \in taken
    PROVE  AnswerTrue(c)'
<1> PICK req : req = call[c].req
  OBVIOUS
<1>1. call[c] # NoCall /\ call'[c].req = req /\ CallTrue(c)
  BY DEF Continues, Inv, CallsTrue
<1>2. req \in Request /\ Live(req)
  BY <1>1 DEF CallTrue, Genuine, Live, Ready, Held
<1>3. /\ KindOf(req.intent)' = KindOf(req.intent) /\ Stored(req.intent)' = Stored(req.intent)
      /\ Behind(req) => Behind(req)'
  BY <1>2, BehindKept
<1>4. call'[c].step \in {"applied", "cached"} => Repeats(req)'
  BY <1>2, RepeatsKept DEF AnswerTrue, Continues
<1>5. call'[c].step \in {"conflict", "halting"} /\ Stored(req.intent)
      => Behind(req)' /\ IdOf(req) \notin taken'
  <2> SUFFICES ASSUME call'[c].step \in {"conflict", "halting"}, Stored(req.intent)
               PROVE  Behind(req)' /\ IdOf(req) \notin taken'
    OBVIOUS
  <2>1. call[c].step \in {"conflict", "halting"}
    BY DEF Continues
  <2>2. Behind(req) /\ IdOf(req) \notin taken /\ KindOf(req.intent) # "create"
    BY <1>1, <2>1 DEF AnswerTrue, CallTrue
  <2>3. QED
    BY <1>2, <1>3, <2>2
<1>6. call'[c].step = "refused" => KindOf(req.intent) = "invalid"
  BY DEF AnswerTrue, Continues
<1>7. QED
  BY <1>1, <1>3, <1>4, <1>5, <1>6 DEF AnswerTrue, Behind, At, Repeats, IdOf, KindOf, Stored, OrderOf

(* A step that mints no id and processes no request: what is live after it *)
(* was live before, and what is sent was in somebody's hands or queued.    *)
NoneComes ==
    /\ \A req \in Request :
           /\ Held(req)' => Held(req) \/ (YetToSend(req) /\ IdOf(req) \in tried')
           /\ YetToSend(req)' => YetToSend(req) \/ (InQueue(req) /\ givenUp' = givenUp)
           /\ \A r \in Rebases : rebase'[r].phase = "reissuing" /\ rebase'[r].head = req
                                 => Live(req)
    /\ \A i \in Intents : rows'[i] # NoRow =>
           rows[i] # NoRow /\ rows'[i].k = rows[i].k /\ rows'[i].base = rows[i].base

(* An id is forgotten by the screen only if the server refused it for good. *)
Forgotten ==
    \A m \in tried \ tried' :
        Reissued(m[1]) => /\ m \notin taken
                          /\ \A req \in Request : Live(req) /\ IdOf(req) = m => Behind(req)

(* A discarded row that is in no doubt was in nobody's hands.              *)
Discarded ==
    /\ givenUp \subseteq givenUp' /\ doubted \subseteq doubted'
    /\ \A i \in givenUp' \ givenUp :
           /\ i \in Formed /\ version[OrderOf(i)] > 0 /\ rows'[i] = NoRow
           /\ rows[i] # NoRow
           /\ i \notin doubted' => /\ IdOf(RequestOf(rows, i)) \notin tried
                                   /\ ~YetToSend(RequestOf(rows, i))

LEMMA NoneIsNew ==
    ASSUME NoneComes, Inv, Inv', UNCHANGED intents
    PROVE  /\ \A req \in Request : Live(req)' => Live(req)
           /\ \A req \in Request : Ready(req)' => \/ Ready(req)
                                                  \/ InQueue(req) /\ givenUp' = givenUp
<1>1. ASSUME NEW req \in Request, InQueue(req)'
      PROVE  InQueue(req)
  <2>1. PICK i \in Intents : rows'[i] # NoRow /\ req = RequestOf(rows', i)
    BY <1>1 DEF InQueue, RequestOf
  <2>2. rows[i] # NoRow /\ rows'[i].k = rows[i].k /\ rows'[i].base = rows[i].base
    BY <2>1 DEF NoneComes
  <2>3. req = RequestOf(rows, i)
    BY <2>1, <2>2 DEF RequestOf
  <2>4. QED
    BY <2>2, <2>3 DEF InQueue
<1>2. ASSUME NEW req \in Request, Ready(req)'
      PROVE  Ready(req) \/ (InQueue(req) /\ givenUp' = givenUp)
  BY <1>2 DEF Ready, NoneComes
<1>3. ASSUME NEW req \in Request, Live(req)'
      PROVE  Live(req)
  BY <1>1, <1>2, <1>3 DEF Live, NoneComes
<1>4. QED
  BY <1>2, <1>3

LEMMA IdentitiesKept ==
    ASSUME Inv, Inv', Identities, Onward, UNCHANGED <<taken, effects, minted, intents>>,
           NoneComes, Forgotten, Discarded,
           \A c \in Callers : call'[c] # NoCall => Continues(c) \/ call'[c].step = "sent"
    PROVE  Identities'
<1> USE DEF Identities
<1>1. /\ \A req \in Request : Live(req)' => Live(req)
      /\ \A req \in Request : Ready(req)' => \/ Ready(req)
                                             \/ InQueue(req) /\ givenUp' = givenUp
  BY NoneIsNew
<1>2. IdsAreMinted'
  <2>1. \A req \in Request : Live(req)' => req.k <= minted[req.intent]
    BY <1>1 DEF IdsAreMinted
  <2>2. \A i \in Intents : rows'[i] # NoRow => rows'[i].k = minted[i]
    BY DEF IdsAreMinted, NoneComes
  <2>3. givenUp' \subseteq Formed
    BY DEF Discarded, IdsAreMinted
  <2>4. QED
    BY <2>1, <2>2, <2>3 DEF IdsAreMinted, Formed
<1>3. OneBase'
  BY <1>1 DEF OneBase, IdOf
<1>4. TakenIsBehind'
  BY <1>1, BehindKept DEF TakenIsBehind, IdOf
<1>5. AnswersTrue'
  <2> SUFFICES ASSUME NEW c \in Callers, call'[c] # NoCall
               PROVE  AnswerTrue(c)'
    BY DEF AnswersTrue
  <2>1. CASE call'[c].step = "sent"
    BY <2>1 DEF AnswerTrue
  <2>2. CASE Continues(c)
    <3>1. AnswerTrue(c)
      BY <2>2 DEF Continues, AnswersTrue
    <3>2. QED
      BY <2>2, <3>1, AnswerKept
  <2>3. QED
    BY <2>1, <2>2
<1>6. HeldTried'
  <2> SUFFICES ASSUME NEW req \in Request, Held(req)', Reissued(req.intent)'
               PROVE  IdOf(req)' \in tried' \/ Behind(req)'
    BY DEF HeldTried
  <2>1. Live(req)
    BY <1>1 DEF Live, Ready
  <2>2. IdOf(req)' = IdOf(req) /\ Reissued(req.intent) /\ (Behind(req) => Behind(req)')
    BY <2>1, BehindKept DEF IdOf, Reissued
  <2>3. IdOf(req) \in tried' \/ IdOf(req) \in tried \/ Behind(req)
    BY <2>2 DEF NoneComes, HeldTried
  <2>4. IdOf(req) \in tried \ tried' => Behind(req)
    BY <2>1, <2>2 DEF Forgotten, IdOf
  <2>5. QED
    BY <2>2, <2>3, <2>4
<1>7. TakenTried'
  <2> SUFFICES ASSUME NEW m \in taken, Reissued(m[1])' PROVE m \in tried'
    BY DEF TakenTried
  <2>1. Reissued(m[1])
    BY DEF Reissued, KindOf, Stored
  <2>2. QED
    BY <2>1 DEF TakenTried, Forgotten
<1>8. GivenUpGone'
  <2> SUFFICES ASSUME NEW i \in givenUp'
               PROVE  version'[OrderOf(i)'] > 0 /\ (i \notin doubted' => rows'[i] = NoRow)
    BY DEF GivenUpGone
  <2>1. i \in Formed /\ version[OrderOf(i)] > 0
    BY DEF IdsAreMinted, GivenUpGone, Discarded
  <2>2. TypeOK
    BY DEF Inv
  <2>3. version'[OrderOf(i)'] > 0
    BY <2>1, <2>2, IntentKept
  <2>4. i \in Intents
    BY <2>1, <2>2, FormedIntents
  <2>5. i \notin doubted' => rows'[i] = NoRow
    BY <2>4 DEF GivenUpGone, Discarded, NoneComes
  <2>6. QED
    BY <2>3, <2>5
<1>9. DroppedIsBehind'
  <2> SUFFICES ASSUME NEW req \in Request, Ready(req)', Dropped(req)',
                      KindOf(req.intent)' = "change", req.intent \notin doubted'
               PROVE  Behind(req)'
    BY DEF DroppedIsBehind
  <2>1. Live(req)
    BY <1>1 DEF Live
  <2>2. /\ KindOf(req.intent) = "change" /\ (Behind(req) => Behind(req)')
        /\ req.intent \notin doubted /\ req.intent \in Intents
    BY <2>1, BehindKept, LiveIsGenuine DEF Discarded
  <2>3. req.k <= minted[req.intent] /\ req.k \in Nat /\ minted[req.intent] \in Nat
    BY <2>1, <2>2, LiveIsGenuine, ConstantsAssumption
       DEF IdsAreMinted, Inv, TypeOK, HistoryTypeOK, ConstantsAssumption
  <2>4. CASE Ready(req) /\ Dropped(req)
    BY <2>2, <2>4 DEF DroppedIsBehind
  <2>5. CASE ~Ready(req)
    <3>1. InQueue(req) /\ givenUp' = givenUp
      BY <1>1, <2>5
    <3>2. PICK i \in Intents : rows[i] # NoRow /\ req = RequestOf(rows, i)
      BY <3>1 DEF InQueue
    <3>3. req.intent = i /\ req.k = rows[i].k
      BY <3>2, RowIsLive
    <3>4. req.k = minted[i]
      BY <3>2, <3>3 DEF IdsAreMinted
    <3>5. i \in givenUp
      BY <2>3, <3>1, <3>3, <3>4 DEF Dropped
    <3>6. QED
      BY <2>2, <3>2, <3>3, <3>5 DEF GivenUpGone
  <2>6. CASE Ready(req) /\ ~Dropped(req)
    <3> DEFINE i == req.intent
    <3>1. i \in givenUp' \ givenUp
      BY <2>6 DEF Dropped
    <3>2. rows[i] # NoRow /\ IdOf(RequestOf(rows, i)) \notin tried /\ ~YetToSend(RequestOf(rows, i))
      BY <3>1 DEF Discarded
    <3>3. req.k = minted[i] /\ rows[i].k = minted[i]
      BY <2>2, <2>3, <2>6, <3>2 DEF Dropped, IdsAreMinted
    <3>4. /\ RequestOf(rows, i) \in Request /\ Live(RequestOf(rows, i)) /\ Stored(i)
          /\ IdOf(RequestOf(rows, i)) = IdOf(req)
      BY <2>2, <3>2, <3>3, RowIsLive DEF IdOf
    <3>5. RequestOf(rows, i) = req
      BY <2>1, <3>4, RequestsAreEqual DEF OneBase
    <3>6. Held(req)
      BY <2>6, <3>2, <3>5 DEF Ready
    <3>7. Behind(req)
      BY <2>2, <3>2, <3>4, <3>5, <3>6 DEF HeldTried, Reissued
    <3>8. QED
      BY <2>2, <3>7
  <2>7. QED
    BY <2>4, <2>5, <2>6
<1>10. LastIdCounts'
  BY DEF LastIdCounts, Discarded, Formed, KindOf
<1>11. QED
  BY <1>2, <1>3, <1>4, <1>5, <1>6, <1>7, <1>8, <1>9, <1>10

(* A request is processed: nothing but the server and its answer change.   *)
LEMMA ProcessedKeepsIdentities ==
    ASSUME Inv, Inv', Identities, NEW req \in Request, Held(req), Process(req),
           UNCHANGED <<rows, pass, rebase, intents, minted, tried, doubted, givenUp>>,
           \A p \in Request : Held(p)' => Held(p),
           \A c \in Callers : call'[c] # NoCall => Continues(c) \/ AnswerTrue(c)'
    PROVE  Identities'
<1> USE DEF Identities
<1>1. Live(req) /\ Ready(req)
  BY DEF Live, Ready
<1>2. /\ Onward /\ taken \subseteq taken' /\ taken' \subseteq taken \cup {IdOf(req)}
      /\ \/ /\ version' = version /\ effects' = effects
            /\ IdOf(req) \in taken' \ taken => KindOf(req.intent) = "create" /\ At(req) > 0
         \/ /\ ~Repeats(req) /\ At(req) = req.base /\ KindOf(req.intent) # "invalid"
            /\ version' = [version EXCEPT ![OrderOf(req.intent)] = @ + 1]
            /\ effects' = [effects EXCEPT ![req.intent] = @ + 1]
            /\ taken' = taken \cup {IdOf(req)}
  BY <1>1, ProcessTakes
<1>3. /\ req.intent \in Formed /\ req.intent \in Intents /\ OrderOf(req.intent) \in Orders
      /\ At(req) \in Nat /\ req.base \in Nat
      /\ req.k \in Nat /\ KindOf(req.intent) \in Kinds /\ Genuine(req, intents, version)
  BY <1>1, LiveIsGenuine
<1>4. /\ \A p \in Request : YetToSend(p)' = YetToSend(p)
      /\ \A p \in Request : InQueue(p)' = InQueue(p)
  BY DEF YetToSend, InQueue, RequestOf
<1>5. /\ \A p \in Request : Ready(p)' => Ready(p)
      /\ \A p \in Request : Live(p)' => Live(p)
  BY <1>4 DEF Ready, Live
<1>6. IdsAreMinted'
  <2>1. \A p \in Request : Live(p)' => p.k <= minted[p.intent]
    BY <1>5 DEF IdsAreMinted
  <2>2. \A m \in taken' : m[2] <= minted[m[1]]
    BY <1>1, <1>2 DEF IdsAreMinted, IdOf
  <2>3. QED
    BY <2>1, <2>2 DEF IdsAreMinted, Formed
<1>7. OneBase'
  BY <1>5 DEF OneBase, IdOf
<1>8. TakenIsBehind'
  BY <1>1, <1>5, TakenKept
<1>9. ASSUME NEW p \in Request, Live(p), Behind(p), KindOf(p.intent) # "create", IdOf(p) \in taken'
      PROVE  IdOf(p) \in taken
  <2> SUFFICES ASSUME IdOf(p) \notin taken PROVE FALSE
    OBVIOUS
  <2>1. IdOf(p) = IdOf(req)
    BY <1>2, <1>9
  <2>2. p.intent = req.intent /\ p.base = req.base /\ At(p) = At(req)
    BY <1>1, <1>9, <2>1 DEF OneBase, IdOf, At
  <2>3. At(req) = req.base
    BY <1>2, <1>9, <2>1, <2>2
  <2>4. QED
    BY <1>3, <1>9, <2>2, <2>3 DEF Behind
<1>10. AnswersTrue'
  <2> SUFFICES ASSUME NEW c \in Callers, call'[c] # NoCall, Continues(c)
               PROVE  AnswerTrue(c)'
    BY DEF AnswersTrue
  <2>1. AnswerTrue(c)
    BY DEF Continues, AnswersTrue
  <2>2. QED
    BY <1>2, <1>9, <2>1, AnswerKept
<1>11. HeldTried'
  <2> SUFFICES ASSUME NEW p \in Request, Held(p), Reissued(p.intent)
               PROVE  IdOf(p) \in tried \/ Behind(p)'
    BY DEF HeldTried, Reissued, KindOf, Stored, IdOf
  <2>1. Live(p)
    BY DEF Live, Ready
  <2>2. QED
    BY <1>2, <2>1, BehindKept DEF HeldTried
<1>12. TakenTried'
  <2> SUFFICES ASSUME NEW m \in taken', Reissued(m[1]) PROVE m \in tried
    BY DEF TakenTried, Reissued, KindOf, Stored
  <2>1. CASE m \in taken
    BY <2>1 DEF TakenTried
  <2>2. CASE m \notin taken
    <3>1. m = IdOf(req)
      BY <1>2, <2>2
    <3>2. KindOf(req.intent) = "change" /\ Stored(req.intent)
      BY <3>1 DEF Reissued, IdOf
    <3>3. At(req) = req.base
      BY <1>2, <2>2, <3>1, <3>2
    <3>4. ~Behind(req)
      BY <1>3, <3>3 DEF Behind
    <3>5. QED
      BY <3>1, <3>2, <3>4 DEF HeldTried, Reissued
  <2>3. QED
    BY <2>1, <2>2
<1>13. GivenUpGone'
  <2> SUFFICES ASSUME NEW i \in givenUp PROVE version'[OrderOf(i)] > 0
    BY DEF GivenUpGone, OrderOf
  <2>1. i \in Formed /\ TypeOK
    BY DEF IdsAreMinted, Inv
  <2>2. QED
    BY <1>2, <2>1, IntentKept DEF GivenUpGone
<1>14. DroppedIsBehind'
  <2> SUFFICES ASSUME NEW p \in Request, Ready(p), Dropped(p),
                      KindOf(p.intent) = "change", p.intent \notin doubted
               PROVE  Behind(p)'
    BY <1>5 DEF DroppedIsBehind, Dropped, KindOf
  <2>1. Live(p)
    BY DEF Live
  <2>2. QED
    BY <1>2, <2>1, BehindKept DEF DroppedIsBehind
<1>15. LastIdCounts'
  <2> SUFFICES ASSUME NEW i \in Formed
               PROVE  /\ KindOf(i) = "create" => effects'[i] <= 1
                      /\ KindOf(i) = "invalid" => effects'[i] = 0
                      /\ KindOf(i) = "change" /\ i \notin doubted
                         => effects'[i] <= 1 /\ (effects'[i] = 1 => <<i, minted[i]>> \in taken')
    BY DEF LastIdCounts, Formed, KindOf
  <2>1. i \in Intents /\ effects[i] \in Nat
    BY FormedIntents DEF Inv, TypeOK, HistoryTypeOK
  <2>2. CASE effects' = effects \/ i # req.intent
    <3>1. effects'[i] = effects[i]
      BY <1>2, <1>3, <2>1, <2>2 DEF Inv, TypeOK, HistoryTypeOK
    <3>2. QED
      BY <1>2, <3>1 DEF LastIdCounts
  <2>3. CASE effects' # effects /\ i = req.intent
    <3>1. /\ ~Repeats(req) /\ At(req) = req.base /\ KindOf(i) # "invalid"
          /\ effects'[i] = effects[i] + 1 /\ taken' = taken \cup {IdOf(req)}
      BY <1>2, <1>3, <2>3 DEF Inv, TypeOK, HistoryTypeOK
    <3>2. ASSUME KindOf(i) = "create"
          PROVE  effects[i] = 0
      <4>1. ~(version[OrderOf(i)] > 0)
        BY <2>3, <3>1, <3>2 DEF Repeats, KindOf
      <4>2. QED
        BY <2>1, <4>1 DEF Inv, EffectsTrue
    <3>3. ASSUME KindOf(i) = "change", i \notin doubted
          PROVE  effects[i] = 0 /\ <<i, minted[i]>> \in taken'
      <4>1. ~Behind(req)
        BY <1>3, <3>1 DEF Behind
      <4>2. ~Dropped(req)
        BY <1>1, <2>3, <3>3, <4>1 DEF DroppedIsBehind
      <4>3. req.k = minted[i]
        BY <1>1, <1>3, <2>3, <4>2 DEF Dropped, IdsAreMinted, Inv, TypeOK, HistoryTypeOK
      <4>4. <<i, minted[i]>> = IdOf(req) /\ IdOf(req) \notin taken
        BY <2>3, <3>1, <4>3 DEF IdOf, Repeats
      <4>5. QED
        BY <2>1, <3>1, <3>3, <4>4 DEF LastIdCounts
    <3>4. QED
      BY <2>1, <3>1, <3>2, <3>3
  <2>4. QED
    BY <2>2, <2>3
<1>16. QED
  BY <1>6, <1>7, <1>8, <1>10, <1>11, <1>12, <1>13, <1>14, <1>15

(* A request that is answered stays in the hands it was in. *)
LEMMA ServeHolds ==
    ASSUME Inv, NEW c \in Callers, Serve(c)
    PROVE  /\ call[c] # NoCall /\ call[c].req \in Request /\ Held(call[c].req)
           /\ call'[c].req = call[c].req /\ call'[c].step = Answer(call[c].req)
           /\ call'[c].seen = version'[OrderOf(call[c].req.intent)]
           /\ \A d \in Callers : d # c => call'[d] = call[d]
           /\ \A p \in Request : Held(p)' => Held(p)
<1> PICK req : req = call[c].req
  OBVIOUS
<1>1. /\ call[c].step = "sent" /\ loose' = loose
      /\ call' = [call EXCEPT ![c].step = Answer(req), ![c].seen = version'[OrderOf(req.intent)]]
  BY DEF Serve
<1>2. call[c] # NoCall /\ req \in Request /\ call \in [Callers -> CallType]
  BY <1>1, CallHasRequest DEF Inv, TypeOK, EngineTypeOK
<1>3. call[c] \in [step : {"sent", "applied", "conflict", "refused", "cached", "halting"},
                   req : Request, seen : Nat]
  BY <1>2 DEF CallType
<1>4. /\ call'[c].req = req /\ call'[c].step = Answer(req)
      /\ call'[c].seen = version'[OrderOf(req.intent)]
      /\ \A d \in Callers : d # c => call'[d] = call[d]
  BY <1>1, <1>2, <1>3
<1>5. Held(req)
  BY <1>2 DEF Held
<1>6. \A p \in Request : Held(p)' => Held(p)
  <2> SUFFICES ASSUME NEW p \in Request, NEW d \in Callers, call'[d] # NoCall, call'[d].req = p
               PROVE  Held(p)
    BY <1>1 DEF Held
  <2>1. CASE d = c
    BY <1>4, <1>5, <2>1
  <2>2. CASE d # c
    BY <1>4, <2>2 DEF Held
  <2>3. QED
    BY <2>1, <2>2
<1>7. QED
  BY <1>2, <1>4, <1>5, <1>6

LEMMA ServeKeepsIdentities ==
    ASSUME Inv, Inv', Identities, SentReached, NEW c \in Callers, Serve(c)
    PROVE  Identities'
<1> PICK req : req = call[c].req
  OBVIOUS
<1>1. /\ call[c].step = "sent" /\ Process(req)
      /\ call' = [call EXCEPT ![c].step = Answer(req), ![c].seen = version'[OrderOf(req.intent)]]
      /\ UNCHANGED <<changes, loose, diskVars, screenVars, pass, rebase,
                     intents, minted, tried, doubted, givenUp, strayed, faults>>
  BY DEF Serve
<1>2. /\ call[c] # NoCall /\ CallTrue(c) /\ req \in Request /\ call \in [Callers -> CallType]
      /\ Genuine(req, intents, version)
  BY <1>1, CallHasRequest DEF Inv, TypeOK, EngineTypeOK
<1>4. /\ call'[c].req = req /\ call'[c].step = Answer(req)
      /\ \A d \in Callers : d # c => call'[d] = call[d]
  BY ServeHolds
<1>5. Held(req) /\ Live(req)
  BY <1>2 DEF Held, Live, Ready
<1>6. \A p \in Request : Held(p)' => Held(p)
  BY ServeHolds
<1>7. /\ At(req) \in Nat /\ req.base \in Nat
  BY <1>2, <1>5, LiveIsGenuine
<1>8. AnswerTrue(c)'
  <2>1. Answer(req) \in {"applied", "cached"} => Repeats(req)'
    BY <1>1 DEF Process, Answer, Repeats
  <2>2. Answer(req) \in {"conflict", "halting"} /\ Stored(req.intent)
        => Behind(req)' /\ IdOf(req) \notin taken'
    <3> SUFFICES ASSUME Answer(req) \in {"conflict", "halting"}, Stored(req.intent)
                 PROVE  Behind(req)' /\ IdOf(req) \notin taken'
      OBVIOUS
    <3>1. Answer(req) = "conflict"
      BY <1>2, AnswersAreThree DEF Inv
    <3>2. ~Repeats(req) /\ ~Fits(req)
      BY <3>1 DEF Answer, Fits
    <3>3. version' = version /\ taken' = taken
      BY <1>1, <3>1 DEF Process
    <3>4. c # "direct"
      BY <1>2 DEF CallTrue
    <3>5. req.base <= At(req) /\ At(req) # req.base
      BY <1>2, <3>2, <3>4 DEF SentReached, Fits, At
    <3>6. At(req)' = At(req)
      BY <1>1, <3>3 DEF At, OrderOf
    <3>7. IdOf(req) \notin taken
      BY <3>2 DEF Repeats, IdOf
    <3>8. QED
      BY <1>7, <3>3, <3>5, <3>6, <3>7 DEF Behind
  <2>3. Answer(req) = "refused" => KindOf(req.intent) = "invalid"
    BY <1>2, AnswersAreThree DEF Answer, KindOf
  <2>4. KindOf(req.intent)' = KindOf(req.intent) /\ Stored(req.intent)' = Stored(req.intent)
    BY <1>1 DEF KindOf, Stored
  <2>5. QED
    BY <1>4, <2>1, <2>2, <2>3, <2>4 DEF AnswerTrue, Behind, At, Repeats, IdOf, KindOf, Stored, OrderOf
<1>9. \A d \in Callers : call'[d] # NoCall => Continues(d) \/ AnswerTrue(d)'
  <2> SUFFICES ASSUME NEW d \in Callers, call'[d] # NoCall, d # c PROVE Continues(d)
    BY <1>8
  <2>1. QED
    BY <1>4 DEF Continues
<1>10. QED
  BY <1>1, <1>2, <1>5, <1>6, <1>9, ProcessedKeepsIdentities DEF diskVars

LEMMA ServeLooseKeepsIdentities ==
    ASSUME Inv, Inv', Identities, NEW req \in loose, ServeLoose(req)
    PROVE  Identities'
<1>1. /\ Process(req) /\ loose' = loose \ {req}
      /\ UNCHANGED <<changes, diskVars, screenVars, engineVars,
                     intents, minted, tried, doubted, givenUp, strayed, faults>>
  BY DEF ServeLoose
<1>2. req \in Request /\ Held(req)
  BY DEF Inv, TypeOK, ServerTypeOK, Held
<1>3. \A p \in Request : Held(p)' => Held(p)
  BY <1>1 DEF Held, engineVars
<1>4. \A c \in Callers : call'[c] # NoCall => Continues(c)
  BY <1>1 DEF Continues, engineVars
<1>5. QED
  BY <1>1, <1>2, <1>3, <1>4, ProcessedKeepsIdentities DEF diskVars, engineVars

(* A new id is minted for an intent, which may be a new one.  If no doubt  *)
(* is left of it, its last id was in the queue and in nobody's hands.      *)
MintedFor(new) ==
    /\ new.k = minted[new.intent] + 1 /\ minted' = [minted EXCEPT ![new.intent] = new.k]
    /\ Formed' = Formed \cup {new.intent}
    /\ \A req \in Request :
           /\ Held(req)' => \/ Held(req)
                            \/ req = new /\ ~Stored(new.intent)'
           /\ Ready(req)' => \/ Ready(req) \/ req = new
                             \/ InQueue(req) /\ req.intent # new.intent
           /\ Live(req)' => Live(req) \/ req = new
    /\ rows'[new.intent] # NoRow => rows'[new.intent].k = new.k
    /\ \A i \in Intents \ {new.intent} : rows'[i] = rows[i]
    /\ doubted \subseteq doubted'
    /\ new.intent \in Formed \ doubted' =>
           LET last == RequestOf(rows, new.intent) IN
           rows[new.intent] # NoRow /\ IdOf(last) \notin tried /\ ~YetToSend(last)

LEMMA MintedKeepsIdentities ==
    ASSUME Inv, Inv', Identities, Onward, NEW new \in Request, MintedFor(new),
           UNCHANGED <<taken, effects, givenUp>>, tried \subseteq tried',
           \A c \in Callers : call'[c] # NoCall => Continues(c) \/ call'[c].step = "sent"
    PROVE  Identities'
<1> USE DEF Identities
<1> PICK i : i = new.intent
  OBVIOUS
<1>0. TypeOK /\ minted \in [Intents -> 0..MaxIds]
  BY DEF Inv, TypeOK, HistoryTypeOK
<1>1. /\ i \in Intents /\ new.k \in Nat /\ minted \in [Intents -> 0..MaxIds] /\ MaxIds \in Nat
      /\ TypeOK
  BY <1>0, ConstantsAssumption DEF Request, ConstantsAssumption
<1>2. /\ minted'[i] = new.k /\ minted[i] \in Nat /\ new.k = minted[i] + 1
      /\ \A j \in Intents : j # i => minted'[j] = minted[j]
      /\ \A j \in Intents : minted[j] \in Nat /\ minted'[j] \in Nat /\ minted[j] <= minted'[j]
  BY <1>1 DEF MintedFor
<1>3. \A req \in Request : Live(req) => /\ req.intent \in Intents /\ req.intent \in Formed
                                        /\ req.k \in Nat /\ req.k <= minted[req.intent]
  BY LiveIsGenuine DEF IdsAreMinted
<1>4. \A req \in Request : Live(req) /\ req.intent = i => req.k < new.k
  BY <1>2, <1>3
<1>5. \A m \in taken : /\ m[1] \in Intents /\ m[1] \in Formed
                       /\ m[2] \in Nat /\ m[2] <= minted[m[1]]
  BY <1>1 DEF Inv, TypeOK, ServerTypeOK, EffectsTrue, IdsAreMinted
<1>6. IdsAreMinted'
  <2>1. \A req \in Request : Live(req)' => req.k <= minted'[req.intent]
    BY <1>1, <1>2, <1>3 DEF MintedFor
  <2>2. \A m \in taken : m[2] <= minted'[m[1]]
    BY <1>2, <1>5
  <2>3. ASSUME NEW j \in Intents, rows'[j] # NoRow PROVE rows'[j].k = minted'[j]
    BY <1>2, <2>3 DEF MintedFor, IdsAreMinted
  <2>4. \A j \in Intents \ Formed' : minted'[j] = 0
    BY <1>2 DEF MintedFor, IdsAreMinted
  <2>5. givenUp \subseteq Formed'
    BY DEF MintedFor, IdsAreMinted
  <2>6. QED
    BY <2>1, <2>2, <2>3, <2>4, <2>5 DEF IdsAreMinted
<1>7. OneBase'
  <2> SUFFICES ASSUME NEW p \in Request, NEW q \in Request, Live(p)', Live(q)', IdOf(p) = IdOf(q)
               PROVE  p.base = q.base
    BY DEF OneBase, IdOf
  <2>1. p.intent = q.intent /\ p.k = q.k
    BY DEF IdOf
  <2>2. CASE p = new \/ q = new
    BY <1>1, <1>4, <2>1, <2>2 DEF MintedFor
  <2>3. CASE p # new /\ q # new
    BY <2>3 DEF MintedFor, OneBase
  <2>4. QED
    BY <2>2, <2>3
<1>8. TakenIsBehind'
  <2> SUFFICES ASSUME NEW req \in Request, Live(req)', IdOf(req) \in taken PROVE Behind(req)'
    BY DEF TakenIsBehind, IdOf
  <2>1. req.k <= minted[req.intent]
    BY <1>5 DEF IdOf
  <2>2. req # new
    BY <1>2, <2>1
  <2>3. Live(req)
    BY <2>2 DEF MintedFor
  <2>4. QED
    BY <2>3, BehindKept DEF TakenIsBehind
<1>9. AnswersTrue'
  <2> SUFFICES ASSUME NEW c \in Callers, call'[c] # NoCall
               PROVE  AnswerTrue(c)'
    BY DEF AnswersTrue
  <2>1. CASE call'[c].step = "sent"
    BY <2>1 DEF AnswerTrue
  <2>2. CASE Continues(c)
    <3>1. AnswerTrue(c)
      BY <2>2 DEF Continues, AnswersTrue
    <3>2. QED
      BY <2>2, <3>1, AnswerKept
  <2>3. QED
    BY <2>1, <2>2
<1>10. HeldTried'
  <2> SUFFICES ASSUME NEW req \in Request, Held(req)', Reissued(req.intent)'
               PROVE  IdOf(req) \in tried' \/ Behind(req)'
    BY DEF HeldTried, IdOf
  <2>1. Held(req)
    BY DEF MintedFor, Reissued, Stored
  <2>2. Live(req)
    BY <2>1 DEF Live, Ready
  <2>3. Reissued(req.intent) /\ (Behind(req) => Behind(req)')
    BY <2>2, BehindKept DEF Reissued
  <2>4. QED
    BY <2>1, <2>3 DEF HeldTried
<1>11. TakenTried'
  <2> SUFFICES ASSUME NEW m \in taken, Reissued(m[1])' PROVE m \in tried
    BY DEF TakenTried
  <2>1. Reissued(m[1])
    BY <1>1, <1>5, IntentKept DEF Reissued
  <2>2. QED
    BY <2>1 DEF TakenTried
<1>12. i \in givenUp => i \in doubted'
  BY DEF GivenUpGone, IdsAreMinted, MintedFor
<1>13. GivenUpGone'
  <2> SUFFICES ASSUME NEW j \in givenUp
               PROVE  version'[OrderOf(j)'] > 0 /\ (j \notin doubted' => rows'[j] = NoRow)
    BY DEF GivenUpGone
  <2>1. j \in Formed /\ j \in Intents
    BY <1>1, FormedIntents DEF IdsAreMinted
  <2>2. version'[OrderOf(j)'] > 0
    BY <1>1, <2>1, IntentKept DEF GivenUpGone
  <2>3. j \notin doubted' => rows'[j] = NoRow
    BY <1>12, <2>1 DEF GivenUpGone, MintedFor
  <2>4. QED
    BY <2>2, <2>3
<1>14. DroppedIsBehind'
  <2> SUFFICES ASSUME NEW req \in Request, Ready(req)', Dropped(req)',
                      KindOf(req.intent)' = "change", req.intent \notin doubted'
               PROVE  Behind(req)'
    BY DEF DroppedIsBehind
  <2>1. req # new
    BY <1>2, <1>12 DEF Dropped
  <2>2. Live(req)
    BY <2>1 DEF MintedFor, Live
  <2>3. /\ KindOf(req.intent) = "change" /\ (Behind(req) => Behind(req)')
        /\ req.intent \notin doubted /\ req.intent \in Intents
    BY <2>2, BehindKept, LiveIsGenuine DEF MintedFor
  <2>4. Ready(req) \/ (InQueue(req) /\ req.intent # i)
    BY <2>1 DEF MintedFor
  <2>5. CASE Ready(req) /\ Dropped(req)
    BY <2>3, <2>5 DEF DroppedIsBehind
  <2>6. CASE ~Ready(req)
    <3>1. InQueue(req) /\ req.intent # i
      BY <2>4, <2>6
    <3>2. PICK j \in Intents : rows[j] # NoRow /\ req = RequestOf(rows, j)
      BY <3>1 DEF InQueue
    <3>3. req.intent = j /\ req.k = rows[j].k
      BY <3>2, RowIsLive
    <3>4. req.k = minted'[j]
      BY <1>2, <3>1, <3>2, <3>3 DEF IdsAreMinted
    <3>5. j \in givenUp
      BY <1>2, <3>3, <3>4 DEF Dropped
    <3>6. QED
      BY <2>3, <3>2, <3>3, <3>5 DEF GivenUpGone
  <2>7. CASE Ready(req) /\ ~Dropped(req)
    <3>1. req.intent = i /\ req.k = minted[i]
      BY <1>2, <1>3, <2>2, <2>7 DEF Dropped
    <3>2. rows[i] # NoRow /\ IdOf(RequestOf(rows, i)) \notin tried /\ ~YetToSend(RequestOf(rows, i))
      BY <1>3, <2>2, <3>1 DEF MintedFor
    <3>3. /\ RequestOf(rows, i) \in Request /\ Live(RequestOf(rows, i)) /\ Stored(i)
          /\ IdOf(RequestOf(rows, i)) = IdOf(req)
      BY <1>1, <3>1, <3>2, RowIsLive DEF IdOf, IdsAreMinted
    <3>4. RequestOf(rows, i) = req
      BY <2>2, <3>3, RequestsAreEqual DEF OneBase
    <3>5. Held(req)
      BY <2>7, <3>2, <3>4 DEF Ready
    <3>6. QED
      BY <2>3, <3>1, <3>2, <3>3, <3>4, <3>5 DEF HeldTried, Reissued
  <2>8. QED
    BY <2>5, <2>6, <2>7
<1>15. LastIdCounts'
  <2> SUFFICES ASSUME NEW j \in Formed'
               PROVE  /\ KindOf(j)' = "create" => effects[j] <= 1
                      /\ KindOf(j)' = "invalid" => effects[j] = 0
                      /\ KindOf(j)' = "change" /\ j \notin doubted'
                         => effects[j] <= 1 /\ (effects[j] = 1 => <<j, minted'[j]>> \in taken)
    BY DEF LastIdCounts
  <2>1. CASE j \notin Formed
    <3>1. j = i
      BY <2>1 DEF MintedFor
    <3>2. effects[j] = 0
      BY <1>1, <2>1, <3>1 DEF Inv, EffectsTrue
    <3>3. QED
      BY <3>2
  <2>2. CASE j \in Formed
    <3>1. KindOf(j)' = KindOf(j) /\ j \in Intents
      BY <1>1, <2>2, IntentKept, FormedIntents
    <3>2. CASE j # i
      BY <1>2, <2>2, <3>1, <3>2 DEF LastIdCounts, MintedFor
    <3>3. CASE j = i
      <4> SUFFICES ASSUME KindOf(i) = "change", i \notin doubted'
                   PROVE  effects[i] <= 1 /\ effects[i] # 1
        BY <2>2, <3>1, <3>3 DEF LastIdCounts
      <4>1. rows[i] # NoRow /\ IdOf(RequestOf(rows, i)) \notin tried
        BY <2>2, <3>3 DEF MintedFor
      <4>2. Stored(i) /\ IdOf(RequestOf(rows, i)) = <<i, minted[i]>>
        BY <1>1, <4>1, RowIsLive DEF IdOf, IdsAreMinted
      <4>3. <<i, minted[i]>> \notin taken
        BY <4>1, <4>2 DEF TakenTried, Reissued
      <4>4. QED
        BY <2>2, <3>3, <4>3 DEF LastIdCounts, MintedFor
    <3>4. QED
      BY <3>2, <3>3
  <2>3. QED
    BY <2>1, <2>2
<1>16. QED
  BY <1>6, <1>7, <1>8, <1>9, <1>10, <1>11, <1>13, <1>14, <1>15

-----------------------------------------------------------------------------
(* Step by step: who holds what, after a step that mints and processes     *)
(* nothing.                                                                *)

RowsCarried ==
    \A i \in Intents : rows'[i] # NoRow =>
        /\ rows[i] # NoRow /\ rows'[i].order = rows[i].order
        /\ rows'[i].k = rows[i].k /\ rows'[i].base = rows[i].base

RebasesCarried ==
    \A r \in Rebases : rebase'[r].phase \in {"reissuing", "sending"} =>
        \/ rebase'[r].phase = rebase[r].phase /\ rebase'[r].head = rebase[r].head
        \/ rebase'[r].phase = "reissuing" /\ InQueue(rebase'[r].head)

PassCarried ==
    \/ pass'.todo \subseteq pass.todo
    \/ pass'.todo = SendList(rows) /\ rows' = rows /\ givenUp' = givenUp

CallsCarried == \A c \in Callers : call'[c] # NoCall => Continues(c)

LooseCarried ==
    loose' \subseteq loose \cup {call[c].req : c \in {d \in Callers : call[d] # NoCall}}

Carried == RowsCarried /\ RebasesCarried /\ PassCarried /\ CallsCarried /\ LooseCarried

Quiet == Onward /\ UNCHANGED <<taken, effects, minted, intents>>

LEMMA CarriedIsNone ==
    ASSUME Inv, Carried
    PROVE  NoneComes
<1> USE DEF Carried
<1>1. ASSUME NEW req \in Request, Held(req)' PROVE Held(req)
  <2>1. CASE req \in loose'
    BY <2>1 DEF LooseCarried, Held
  <2>2. ASSUME NEW c \in Callers, call'[c] # NoCall, call'[c].req = req PROVE Held(req)
    BY <2>2 DEF CallsCarried, Continues, Held
  <2>3. QED
    BY <1>1, <2>1, <2>2 DEF Held
<1>2. ASSUME NEW req \in Request, YetToSend(req)'
      PROVE  YetToSend(req) \/ (InQueue(req) /\ givenUp' = givenUp)
  <2>1. ASSUME NEW r \in Rebases, rebase'[r].phase = "sending", rebase'[r].head = req
        PROVE  YetToSend(req)
    BY <2>1 DEF RebasesCarried, YetToSend
  <2>2. ASSUME NEW e \in pass'.todo, e.req = req
        PROVE  YetToSend(req) \/ (InQueue(req) /\ givenUp' = givenUp)
    <3>1. CASE e \in pass.todo
      BY <2>2, <3>1 DEF YetToSend
    <3>2. CASE e \in SendList(rows) /\ givenUp' = givenUp
      BY <2>2, <3>2 DEF SendList, ToSend, InQueue
    <3>3. QED
      BY <2>2, <3>1, <3>2 DEF PassCarried
  <2>3. QED
    BY <1>2, <2>1, <2>2 DEF YetToSend
<1>3. ASSUME NEW r \in Rebases, rebase'[r].phase = "reissuing"
      PROVE  Live(rebase'[r].head)
  BY <1>3 DEF RebasesCarried, Live
<1>4. QED
  BY <1>1, <1>2, <1>3 DEF NoneComes, RowsCarried

LEMMA CarriedKeepsIdentities ==
    ASSUME Inv, Inv', Identities, Quiet, Carried, Forgotten, Discarded
    PROVE  Identities'
  BY CarriedIsNone, IdentitiesKept DEF Quiet, Carried, CallsCarried

LEMMA NothingDropped ==
    ASSUME UNCHANGED <<tried, doubted, givenUp>>
    PROVE  Forgotten /\ Discarded
  BY DEF Forgotten, Discarded

(* A row that is marked or let go. *)
LEMMA RowsCarriedBy ==
    ASSUME Inv,
           \/ \E req \in Request : rows' = WithHalt(req) /\ OrderOf(req.intent) \in Orders
           \/ \E req \in Request : rows' = Without(req)
           \/ \E req \in Request, status \in {"PENDING", "SYNCING"} : rows' = WithStatus(req, status)
           \/ rows' = [j \in Intents |-> IF rows[j].status = "SYNCING"
                                         THEN [rows[j] EXCEPT !.status = "PENDING"] ELSE rows[j]]
           \/ rows' = WithDiscard(current)
           \/ rows' = rows
    PROVE  RowsCarried
<1> SUFFICES ASSUME NEW i \in Intents, rows'[i] # NoRow
             PROVE  /\ rows[i] # NoRow /\ rows'[i].order = rows[i].order
                    /\ rows'[i].k = rows[i].k /\ rows'[i].base = rows[i].base
  BY DEF RowsCarried
<1>1. TypeOK /\ rows \in [Intents -> RowType]
  BY DEF Inv, TypeOK, DiskTypeOK
<1>2. rows[i] # NoRow
  BY <1>1, NoRowComes
<1>3. \/ rows'[i] = rows[i]
      \/ \E s \in {"PENDING", "SYNCING", "CONFLICT", "BLOCKED"} :
             rows'[i] = [rows[i] EXCEPT !.status = s]
  <2>1. ASSUME NEW req \in Request, rows' = WithHalt(req)
        PROVE  rows'[i] = rows[i] \/ \E s \in {"CONFLICT", "BLOCKED"} :
                                         rows'[i] = [rows[i] EXCEPT !.status = s]
    BY <2>1 DEF WithHalt
  <2>2. ASSUME NEW req \in Request, rows' = Without(req)
        PROVE  rows'[i] = rows[i]
    BY <1>1, <2>2 DEF Without
  <2>3. ASSUME NEW req \in Request, NEW s \in {"PENDING", "SYNCING"}, rows' = WithStatus(req, s)
        PROVE  rows'[i] = rows[i] \/ rows'[i] = [rows[i] EXCEPT !.status = s]
    BY <1>1, <2>3 DEF WithStatus
  <2>4. CASE rows' = WithDiscard(current)
    BY <2>4 DEF WithDiscard
  <2>5. CASE rows' = [j \in Intents |-> IF rows[j].status = "SYNCING"
                                        THEN [rows[j] EXCEPT !.status = "PENDING"] ELSE rows[j]]
    BY <1>1, <2>5
  <2>6. QED
    BY <2>1, <2>2, <2>3, <2>4, <2>5
<1>4. rows[i] \in RowType
  BY <1>1
<1>5. QED
  BY <1>2, <1>3, <1>4, RowMarked

LEMMA ReturnCarries ==
    ASSUME Inv, NEW c \in Callers, NEW result \in {"applied", "halted", "failed"},
           Return(c, result)
    PROVE  /\ CallsCarried /\ RebasesCarried /\ pass'.todo \subseteq pass.todo
           /\ \A r \in Rebases : rebase'[r].phase \in {"reissuing", "sending"}
                                 => rebase'[r] = rebase[r]
<1>1. /\ call \in [Callers -> CallType] /\ rebase \in [Rebases -> RebaseType] /\ pass \in PassType
  BY DEF Inv, TypeOK, EngineTypeOK
<1>2. CallsCarried
  BY <1>1 DEF Return, CallsCarried, Continues
<1>3. \A r \in Rebases : rebase'[r].phase \in {"reissuing", "sending"} => rebase'[r] = rebase[r]
  <2>1. CASE c \notin Rebases
    BY <2>1 DEF Return
  <2>2. CASE c \in Rebases
    <3>1. PICK v : rebase' = [rebase EXCEPT
                       ![c].phase = IF result = "applied" THEN "reading" ELSE "ending",
                       ![c].version = v]
      BY <2>2 DEF Return
    <3>2. /\ \A r \in Rebases : r # c => rebase'[r] = rebase[r]
          /\ rebase'[c].phase \in {"reading", "ending"}
      BY <1>1, <2>2, <3>1 DEF RebaseType
    <3>3. QED
      BY <3>2
  <2>3. QED
    BY <2>1, <2>2
<1>4. pass'.todo \subseteq pass.todo
  <2>1. CASE c # "pass"
    BY <2>1 DEF Return
  <2>2. CASE c = "pass"
    <3>1. pass'.todo = Remaining(pass.todo, result, call[c].req)
      BY <1>1, <2>2 DEF Return, PassType
    <3>2. QED
      BY <3>1 DEF Remaining
  <2>3. QED
    BY <2>1, <2>2
<1>5. QED
  BY <1>2, <1>3, <1>4 DEF RebasesCarried

(* Nobody has anything new in hand. *)
LEMMA EngineCarries ==
    ASSUME Inv, UNCHANGED <<loose, call, rebase>>
    PROVE  /\ CallsCarried /\ RebasesCarried /\ LooseCarried
           /\ pass' = pass \/ (Run(rows) /\ rows' = rows /\ givenUp' = givenUp)
              => PassCarried
<1>1. pass \in PassType
  BY DEF Inv, TypeOK, EngineTypeOK
<1>2. CallsCarried /\ RebasesCarried /\ LooseCarried
  BY DEF CallsCarried, Continues, RebasesCarried, LooseCarried
<1>3. Run(rows) => pass'.todo \in {pass.todo, SendList(rows)}
  BY <1>1 DEF Run, PassType
<1>4. QED
  BY <1>2, <1>3 DEF PassCarried

LEMMA CarriedByAttempts ==
    ASSUME Inv, NEW c \in Callers,
           TakeCanonical(c) \/ DeleteRow(c) \/ HaltQueue(c) \/ Lose(c)
    PROVE  Quiet /\ Carried
<1> PICK req : req = call[c].req
  OBVIOUS
<1>1. /\ TypeOK /\ CallsTrue /\ call \in [Callers -> CallType]
  BY DEF Inv, TypeOK, EngineTypeOK
<1>2. /\ UNCHANGED <<version, taken, effects, minted, intents>> /\ call[c].step # "idle"
  BY DEF TakeCanonical, DeleteRow, HaltQueue, Lose, serverVars, historyVars
<1>3. Quiet
  BY <1>1, <1>2, OnwardAsTyped DEF Quiet
<1>4. call[c] # NoCall /\ req \in Request /\ OrderOf(req.intent) \in Orders
  BY <1>1, <1>2, CallHasRequest
<1>5. CASE TakeCanonical(c)
  <2>1. /\ UNCHANGED <<rows, rebase, pass, loose>>
        /\ call' = [call EXCEPT ![c].step = IF @ = "applied" THEN "cached" ELSE "halting"]
        /\ call[c].step \in {"applied", "conflict"}
    BY <1>5 DEF TakeCanonical
  <2>2. call[c] \in [step : {"sent", "applied", "conflict", "refused", "cached", "halting"},
                     req : Request, seen : Nat]
    BY <1>1, <1>4 DEF CallType
  <2>3. Continues(c) /\ \A d \in Callers : d # c => call'[d] = call[d]
    BY <1>1, <1>4, <2>1, <2>2 DEF Continues
  <2>4. CallsCarried
    BY <2>3 DEF CallsCarried, Continues
  <2>5. QED
    BY <1>3, <2>1, <2>4 DEF Carried, RowsCarried, RebasesCarried, PassCarried, LooseCarried
<1>6. CASE DeleteRow(c)
  <2>1. Return(c, "applied") /\ (rows' = Without(req) \/ rows' = rows) /\ loose' = loose
    BY <1>6 DEF DeleteRow, WriteFails
  <2>2. RowsCarried
    BY <1>4, <2>1, RowsCarriedBy
  <2>3. QED
    BY <1>3, <2>1, <2>2, ReturnCarries DEF Carried, PassCarried, LooseCarried
<1>7. CASE HaltQueue(c)
  <2>1. Return(c, "halted") /\ (rows' = WithHalt(req) \/ rows' = rows) /\ loose' = loose
    BY <1>7 DEF HaltQueue, WriteFails
  <2>2. RowsCarried
    BY <1>4, <2>1, RowsCarriedBy
  <2>3. QED
    BY <1>3, <2>1, <2>2, ReturnCarries DEF Carried, PassCarried, LooseCarried
<1>8. CASE Lose(c)
  <2>1. /\ Return(c, "failed") /\ rows' = WithStatus(req, "PENDING")
        /\ loose' = loose \/ loose' = loose \cup {req}
    BY <1>8 DEF Lose
  <2>2. RowsCarried
    BY <1>4, <2>1, RowsCarriedBy
  <2>3. LooseCarried
    BY <1>4, <2>1 DEF LooseCarried
  <2>4. QED
    BY <1>3, <2>1, <2>2, <2>3, ReturnCarries DEF Carried, PassCarried
<1>9. QED
  BY <1>5, <1>6, <1>7, <1>8

LEMMA CarriedByRebase ==
    ASSUME Inv, NEW r \in Rebases, RebaseHalted(r) \/ ReadHead(r) \/ RebaseEnds(r)
    PROVE  Quiet /\ Carried /\ UNCHANGED <<tried, doubted, givenUp>>
<1>1. /\ TypeOK /\ call \in [Callers -> CallType] /\ rebase \in [Rebases -> RebaseType]
  BY DEF Inv, TypeOK, EngineTypeOK
<1>2. /\ UNCHANGED <<version, taken, effects, minted, intents, rows, loose, tried, doubted, givenUp>>
      /\ UNCHANGED call /\ UNCHANGED pass
  BY DEF RebaseHalted, ReadHead, RebaseEnds, serverVars, diskVars, historyVars
<1>3. Quiet
  BY <1>1, <1>2, OnwardAsTyped DEF Quiet
<1>4. RebasesCarried
  <2> SUFFICES ASSUME NEW other \in Rebases,
                      rebase'[other].phase \in {"reissuing", "sending"}, other = r
               PROVE  rebase'[r].phase = "reissuing" /\ InQueue(rebase'[r].head)
    <3>1. \A other \in Rebases : other # r => rebase'[other] = rebase[other]
      <4>1. \E x : rebase' = [rebase EXCEPT ![r] = x]
        BY DEF RebaseHalted, RebaseEnds, ReadHead
      <4>2. QED
        BY <1>1, <4>1
    <3>2. QED
      BY <3>1 DEF RebasesCarried
  <2>1. CASE RebaseHalted(r) \/ RebaseEnds(r)
    <3>1. \E x : rebase' = [rebase EXCEPT ![r] = x] /\ x.phase \in {"reading", "idle"}
      <4>1. CASE RebaseHalted(r)
        <5> DEFINE x == [phase |-> "reading", order |-> current,
                         version |-> shown, head |-> IdleRebase.head]
        <5>1. rebase' = [rebase EXCEPT ![r] = x]
          BY <4>1 DEF RebaseHalted
        <5>2. x.phase \in {"reading", "idle"}
          OBVIOUS
        <5> HIDE DEF x
        <5>3. QED
          BY <5>1, <5>2
      <4>2. CASE RebaseEnds(r)
        BY <4>2 DEF RebaseEnds, IdleRebase
      <4>3. QED
        BY <2>1, <4>1, <4>2
    <3>2. rebase'[r].phase \in {"reading", "idle"}
      BY <1>1, <3>1
    <3>3. QED
      BY <3>2
  <2>2. CASE ReadHead(r)
    <3>1. PICK i \in Queued(rows, rebase[r].order) :
              rebase' = [rebase EXCEPT ![r].phase = "reissuing", ![r].head = RequestOf(rows, i)]
      BY <1>1, <2>2 DEF ReadHead, RebaseType
    <3>2. rebase'[r].phase = "reissuing" /\ rebase'[r].head = RequestOf(rows, i)
      BY <1>1, <3>1 DEF RebaseType
    <3>3. QED
      BY <3>2 DEF InQueue, Queued
  <2>3. QED
    BY <2>1, <2>2
<1>5. QED
  BY <1>2, <1>3, <1>4 DEF Carried, RowsCarried, PassCarried, LooseCarried, CallsCarried, Continues

LEMMA CarriedByScreen ==
    ASSUME Inv,
           \/ \E o \in Orders : OtherTerminal(o) \/ FocusOrder(o)
           \/ Clear \/ AskOrder \/ TakeOrder \/ Reload \/ Trigger \/ PassEnds \/ Hydrate \/ Visit
           \/ UNCHANGED vars
    PROVE  Quiet /\ Carried /\ UNCHANGED <<tried, doubted, givenUp>>
<1>1. /\ TypeOK /\ call \in [Callers -> CallType] /\ rebase \in [Rebases -> RebaseType]
      /\ pass \in PassType
  BY DEF Inv, TypeOK, EngineTypeOK
<1>2. UNCHANGED <<taken, effects, minted, intents, tried, doubted, givenUp>>
  BY DEF OtherTerminal, FocusOrder, Clear, AskOrder, TakeOrder, Reload, Trigger, PassEnds, Hydrate,
         HydrateReads, HydrateRestores, HydratePrunes, Visit, Leave, Detach, OpenAgain,
         serverVars, historyVars, vars
<1>3. Onward
  <2>1. CASE version' = version
    BY <1>1, <1>2, <2>1, OnwardAsTyped
  <2>2. ASSUME NEW o \in Orders, OtherTerminal(o) PROVE Onward
    <3>1. version' = [version EXCEPT ![o] = @ + 1]
      BY <2>2 DEF OtherTerminal
    <3>2. QED
      BY <1>1, <1>2, <3>1 DEF Onward, TypeOK, ServerTypeOK, HistoryTypeOK, Formed
  <2>3. QED
    BY <2>1, <2>2
       DEF FocusOrder, Clear, AskOrder, TakeOrder, Reload, Trigger, PassEnds, Hydrate,
           HydrateReads, HydrateRestores, HydratePrunes, Visit, Leave, Detach, OpenAgain,
           serverVars, vars
<1>4. CASE Reload
  <2>1. /\ loose' = loose \cup {call[c].req : c \in {d \in Callers : call[d].step = "sent"}}
        /\ call' = [c \in Callers |-> NoCall] /\ pass' = IdlePass /\ rows' = rows
        /\ rebase' = [r \in Rebases |-> IdleRebase]
    BY <1>4 DEF Reload, diskVars
  <2>2. LooseCarried
    BY <2>1 DEF LooseCarried, NoCall
  <2>3. RebasesCarried /\ pass'.todo = {} /\ CallsCarried
    BY <2>1 DEF RebasesCarried, IdleRebase, IdlePass, CallsCarried
  <2>4. QED
    BY <1>2, <1>3, <2>1, <2>2, <2>3 DEF Quiet, Carried, RowsCarried, PassCarried
<1>5. CASE ~Reload
  <2>1. UNCHANGED <<loose, call, rebase>>
    BY <1>5
       DEF OtherTerminal, FocusOrder, Clear, AskOrder, TakeOrder, Trigger, PassEnds, Hydrate,
           HydrateReads, HydrateRestores, HydratePrunes, Visit, Leave, Detach, OpenAgain,
           engineVars, vars
  <2>2. CallsCarried /\ RebasesCarried /\ LooseCarried
    BY <2>1, EngineCarries
  <2>3. CASE HydrateReads
    <3>1. pass' = pass
      BY <2>3 DEF HydrateReads, engineVars
    <3>2. RowsCarried
      BY <2>3, RowsCarriedBy DEF HydrateReads
    <3>3. QED
      BY <1>2, <1>3, <2>2, <3>1, <3>2 DEF Quiet, Carried, PassCarried
  <2>4. CASE PassEnds
    <3>1. /\ rows' = rows
          /\ pass' = IF pass.again THEN [IdlePass EXCEPT !.running = TRUE, !.todo = SendList(rows)]
                     ELSE IdlePass
      BY <2>4 DEF PassEnds, diskVars
    <3>2. pass'.todo = SendList(rows) \/ pass'.todo = {}
      BY <3>1 DEF IdlePass
    <3>3. QED
      BY <1>2, <1>3, <2>2, <3>1, <3>2 DEF Quiet, Carried, PassCarried, RowsCarried
  <2>5. CASE ~HydrateReads /\ ~PassEnds
    <3>1. rows' = rows /\ (pass' = pass \/ Run(rows))
      BY <1>5, <2>5
         DEF OtherTerminal, FocusOrder, Clear, AskOrder, TakeOrder, Trigger, Hydrate,
             HydrateRestores, HydratePrunes, Visit, Leave, Detach, OpenAgain,
             engineVars, vars, diskVars
    <3>2. QED
      BY <1>2, <1>3, <2>1, <2>2, <3>1, EngineCarries DEF Quiet, Carried, RowsCarried
  <2>6. QED
    BY <2>3, <2>4, <2>5
<1>6. QED
  BY <1>4, <1>5

(* What is sent was in somebody's hands. *)
LEMMA SendBringsNone ==
    ASSUME Inv, NEW c \in Callers, NEW req \in Request, YetToSend(req),
           Send(c, req, WithStatus(req, "SYNCING")), UNCHANGED <<loose, pass, rebase>>
    PROVE  NoneComes
<1>1. call \in [Callers -> CallType]
  BY DEF Inv, TypeOK, EngineTypeOK
<1>2. /\ call' = [call EXCEPT ![c] = [step |-> "sent", req |-> req, seen |-> 0]]
      /\ rows' = WithStatus(req, "SYNCING") /\ tried' = tried \cup {IdOf(req)}
  BY DEF Send, IdOf
<1>3. RowsCarried
  BY <1>2, RowsCarriedBy
<1>4. ASSUME NEW p \in Request, Held(p)'
      PROVE  Held(p) \/ (YetToSend(p) /\ IdOf(p) \in tried')
  <2>1. ASSUME NEW d \in Callers, call'[d] # NoCall, call'[d].req = p
        PROVE  Held(p) \/ (YetToSend(p) /\ IdOf(p) \in tried')
    <3>1. CASE d = c
      BY <1>1, <1>2, <2>1, <3>1
    <3>2. CASE d # c
      BY <1>1, <1>2, <2>1, <3>2 DEF Held
    <3>3. QED
      BY <3>1, <3>2
  <2>2. QED
    BY <1>4, <2>1 DEF Held
<1>5. QED
  BY <1>3, <1>4 DEF NoneComes, YetToSend, RowsCarried, Live

LEMMA SendKeepsIdentities ==
    ASSUME Inv, Inv', Identities, NEW c \in Callers, NEW req \in Request, YetToSend(req),
           Send(c, req, WithStatus(req, "SYNCING")),
           UNCHANGED <<version, taken, effects, minted, intents, loose, pass, rebase,
                       doubted, givenUp>>
    PROVE  Identities'
<1>1. /\ TypeOK /\ call \in [Callers -> CallType]
  BY DEF Inv, TypeOK, EngineTypeOK
<1>2. /\ call' = [call EXCEPT ![c] = [step |-> "sent", req |-> req, seen |-> 0]]
      /\ rows' = WithStatus(req, "SYNCING") /\ tried' = tried \cup {IdOf(req)}
  BY DEF Send, IdOf
<1>3. Onward
  BY <1>1, OnwardAsTyped
<1>6. NoneComes
  BY SendBringsNone
<1>7. ASSUME NEW d \in Callers, call'[d] # NoCall
      PROVE  Continues(d) \/ call'[d].step = "sent"
  BY <1>1, <1>2, <1>7 DEF Continues
<1>8. Forgotten /\ Discarded
  BY <1>2 DEF Forgotten, Discarded
<1>9. QED
  BY <1>3, <1>6, <1>7, <1>8, IdentitiesKept

LEMMA AttemptsKeepIdentities ==
    ASSUME Inv, Inv', Identities, SentReached, NEW c \in Callers, Attempt(c) \/ Lose(c)
    PROVE  Identities'
<1>1. CASE Serve(c)
  BY <1>1, ServeKeepsIdentities
<1>2. CASE TakeCanonical(c) \/ DeleteRow(c) \/ Lose(c)
  <2>1. UNCHANGED <<tried, doubted, givenUp>>
    BY <1>2 DEF TakeCanonical, DeleteRow, Lose, historyVars
  <2>2. QED
    BY <1>2, <2>1, NothingDropped, CarriedByAttempts, CarriedKeepsIdentities
<1>3. CASE HaltQueue(c)
  <2> PICK req : req = call[c].req
    OBVIOUS
  <2>1. /\ tried' = tried \ {IdOf(req)} /\ UNCHANGED <<doubted, givenUp>>
        /\ call[c].step \in {"halting", "refused"}
    BY <1>3 DEF HaltQueue, IdOf
  <2>2. /\ call[c] # NoCall /\ req \in Request
    BY <2>1, CallHasRequest DEF Inv
  <2>3. Live(req) /\ AnswerTrue(c)
    BY <2>2 DEF Live, Ready, Held, Identities, AnswersTrue
  <2>4. ASSUME Reissued(req.intent)
        PROVE  /\ IdOf(req) \notin taken
               /\ \A p \in Request : Live(p) /\ IdOf(p) = IdOf(req) => Behind(p)
    <3>1. call[c].step = "halting"
      BY <2>1, <2>3, <2>4 DEF AnswerTrue, Reissued
    <3>2. Behind(req) /\ IdOf(req) \notin taken
      BY <2>3, <2>4, <3>1 DEF AnswerTrue, Reissued
    <3>3. ASSUME NEW p \in Request, Live(p), IdOf(p) = IdOf(req) PROVE Behind(p)
      <4>1. p.intent = req.intent /\ p.base = req.base
        BY <2>2, <2>3, <3>3 DEF Identities, OneBase, IdOf
      <4>2. QED
        BY <3>2, <4>1 DEF Behind, At
    <3>4. QED
      BY <3>2, <3>3
  <2>5. Forgotten
    BY <2>1, <2>4 DEF Forgotten, IdOf
  <2>6. Discarded
    BY <2>1 DEF Discarded
  <2>7. QED
    BY <1>3, <2>5, <2>6, CarriedByAttempts, CarriedKeepsIdentities
<1>4. QED
  BY <1>1, <1>2, <1>3 DEF Attempt

LEMMA CarriedByDiscard ==
    ASSUME Inv, DiscardHalted
    PROVE  Quiet /\ Carried /\ Forgotten /\ Discarded
<1> PICK dropped : dropped = Queued(rows, current)
  OBVIOUS
<1>1. /\ \/ /\ rows' = WithDiscard(current) /\ givenUp' = givenUp \cup dropped
            /\ doubted' = doubted \cup {i \in dropped : \/ <<i, rows[i].k>> \in tried
                                                     \/ YetToSend(RequestOf(rows, i))}
         \/ rows' = rows /\ UNCHANGED <<givenUp, doubted>>
      /\ UNCHANGED <<version, taken, effects, minted, intents, tried, loose, call, pass, rebase>>
      /\ Halted
  BY DEF DiscardHalted, WriteFails, serverVars, engineVars
<1>2. TypeOK /\ rows \in [Intents -> RowType] /\ pass \in PassType
  BY DEF Inv, TypeOK, DiskTypeOK, EngineTypeOK
<1>3. Quiet
  BY <1>1, <1>2, OnwardAsTyped DEF Quiet
<1>4. RowsCarried
  BY <1>1, RowsCarriedBy
<1>5. Carried
  BY <1>1, <1>4
     DEF Carried, RebasesCarried, PassCarried, CallsCarried, Continues, LooseCarried
<1>6. ASSUME NEW i \in givenUp' \ givenUp
      PROVE  /\ i \in Formed /\ version[OrderOf(i)] > 0 /\ rows'[i] = NoRow /\ rows[i] # NoRow
             /\ i \notin doubted' => /\ IdOf(RequestOf(rows, i)) \notin tried
                                     /\ ~YetToSend(RequestOf(rows, i))
  <2>1. /\ rows' = WithDiscard(current) /\ i \in dropped
        /\ doubted' = doubted \cup {j \in dropped : \/ <<j, rows[j].k>> \in tried
                                                 \/ YetToSend(RequestOf(rows, j))}
    BY <1>1, <1>6
  <2>2. i \in Intents /\ rows[i] # NoRow /\ rows[i].order = current
    BY <2>1 DEF Queued
  <2>3. rows'[i] = NoRow
    BY <2>1, <2>2 DEF WithDiscard
  <2>4. i \in Formed /\ OrderOf(i) = current /\ IdOf(RequestOf(rows, i)) = <<i, rows[i].k>>
    BY <2>2, RowIsLive DEF IdOf
  <2>5. version[current] > 0
    <3>1. current \in Orders /\ mirror \in [Intents -> RowType]
      BY <1>1, <1>2 DEF Halted, TypeOK, ScreenTypeOK
    <3>2. PICK j \in Queued(mirror, current) : mirror[j].status \notin {"PENDING", "SYNCING"}
      BY <1>1 DEF Halted, Sendable
    <3>3. /\ j \in Intents /\ mirror[j] # NoRow /\ mirror[j].order = current
          /\ HaltedRow(mirror[j])
      BY <3>1, <3>2, RowIsThere DEF Queued, HaltedRow
    <3>4. QED
      BY <3>3 DEF Inv, MirrorTrue
  <2>6. i \notin doubted' => IdOf(RequestOf(rows, i)) \notin tried /\ ~YetToSend(RequestOf(rows, i))
    BY <2>1, <2>4
  <2>7. QED
    BY <2>2, <2>3, <2>4, <2>5, <2>6
<1>7. Discarded
  BY <1>1, <1>6 DEF Discarded
<1>8. Forgotten
  BY <1>1 DEF Forgotten
<1>9. QED
  BY <1>3, <1>5, <1>7, <1>8

(* What a reissue does when it commits. *)
Reissues(r, new) ==
    LET i == new.intent IN
    /\ i = rebase[r].head.intent /\ new.k = minted[i] + 1
    /\ new.base = IF KindOf(i) = "create" THEN 0 ELSE rebase[r].version
    /\ rows' = [rows EXCEPT ![i] = [order |-> rebase[r].order, k |-> new.k, base |-> new.base,
                                    status |-> "PENDING"]]
    /\ minted' = [minted EXCEPT ![i] = new.k]
    /\ doubted \subseteq doubted'
    /\ i \notin doubted' => /\ <<i, rebase[r].head.k>> \notin tried
                            /\ ~YetToSend(rebase[r].head) /\ rows[i].k = rebase[r].head.k
    /\ rebase' = [rebase EXCEPT ![r].phase = "sending", ![r].head = new]

LEMMA ReissueMints ==
    ASSUME Inv, NEW r \in Rebases, Reissue(r)
    PROVE  /\ UNCHANGED <<version, taken, effects, intents, tried, givenUp, loose, call, pass, mirror>>
           /\ rebase[r].phase = "reissuing" /\ rebase[r].head \in Request
           /\ Live(rebase[r].head)
           /\ \/ \E new \in Request : Reissues(r, new)
              \/ /\ UNCHANGED <<minted, doubted, rows>>
                 /\ rebase' = [rebase EXCEPT ![r].phase = "ending"]
<1>0. PICK i, k, b : /\ i = rebase[r].head.intent /\ k = minted[i] + 1
                     /\ b = IF KindOf(i) = "create" THEN 0 ELSE rebase[r].version
  OBVIOUS
<1> DEFINE row == [order |-> rebase[r].order, k |-> k, base |-> b, status |-> "PENDING"]
           new == [intent |-> i, k |-> k, base |-> b]
<1>1. /\ rebase[r].phase = "reissuing" /\ minted[i] < MaxIds
      /\ \/ /\ rows' = [rows EXCEPT ![i] = row] /\ minted' = [minted EXCEPT ![i] = k]
            /\ doubted' = IF \/ <<i, rebase[r].head.k>> \in tried \/ YetToSend(rebase[r].head)
                             \/ rows[i].k # rebase[r].head.k
                          THEN doubted \cup {i} ELSE doubted
            /\ rebase' = [rebase EXCEPT ![r].phase = "sending", ![r].head = new]
         \/ /\ rows' = rows
            /\ rebase' = [rebase EXCEPT ![r].phase = "ending"]
            /\ UNCHANGED <<minted, doubted>>
      /\ UNCHANGED <<version, taken, effects, intents, tried, givenUp, loose, call, pass, mirror>>
  BY <1>0 DEF Reissue, WithFailedSwap, KindOf, serverVars, screenVars
<1>2. RebaseTrue(r) /\ rebase \in [Rebases -> RebaseType] /\ minted \in [Intents -> 0..MaxIds]
  BY <1>1 DEF Inv, RebasesTrue, TypeOK, EngineTypeOK, HistoryTypeOK
<1>3. Genuine(rebase[r].head, intents, version) /\ rebase[r].head \in Request
  BY <1>1, <1>2 DEF RebaseTrue, Genuine
<1>4. i \in Intents /\ Live(rebase[r].head)
  BY <1>0, <1>1, <1>3 DEF Request, Live
<1>5. k \in 1..MaxIds /\ b \in Nat
  BY <1>0, <1>1, <1>2, <1>4, ConstantsAssumption DEF RebaseType, ConstantsAssumption
<1>6. new \in Request /\ new.intent = i /\ new.k = k /\ new.base = b
  BY <1>4, <1>5 DEF Request
<1>7. CASE UNCHANGED <<minted, doubted, rows>> /\ rebase' = [rebase EXCEPT ![r].phase = "ending"]
  BY <1>1, <1>3, <1>4, <1>7
<1>8. CASE ~(UNCHANGED <<minted, doubted, rows>> /\ rebase' = [rebase EXCEPT ![r].phase = "ending"])
  <2>1. Reissues(r, new)
    BY <1>0, <1>1, <1>6, <1>8 DEF Reissues
  <2>2. QED
    BY <1>1, <1>3, <1>4, <1>6, <2>1
<1>9. QED
  BY <1>7, <1>8

(* A reissue mints the id of the request it puts in the queue. *)
LEMMA ReissueMintsFor ==
    ASSUME Inv, Identities, NEW r \in Rebases, Reissue(r), NEW new \in Request, Reissues(r, new)
    PROVE  MintedFor(new)
<1>0. /\ UNCHANGED <<version, taken, effects, intents, tried, givenUp, loose, call, pass>>
      /\ rebase[r].phase = "reissuing" /\ rebase[r].head \in Request
      /\ Live(rebase[r].head)
      /\ rebase \in [Rebases -> RebaseType] /\ rows \in [Intents -> RowType]
  BY ReissueMints DEF Inv, TypeOK, EngineTypeOK, DiskTypeOK
<1> PICK i, head : i = new.intent /\ head = rebase[r].head
  OBVIOUS
<1>1. /\ i = head.intent /\ new.k = minted[i] + 1 /\ minted' = [minted EXCEPT ![i] = new.k]
      /\ rows' = [rows EXCEPT ![i] = [order |-> rebase[r].order, k |-> new.k, base |-> new.base,
                                      status |-> "PENDING"]]
      /\ doubted \subseteq doubted'
      /\ i \notin doubted' => /\ <<i, head.k>> \notin tried
                              /\ ~YetToSend(head) /\ rows[i].k = head.k
      /\ rebase' = [rebase EXCEPT ![r].phase = "sending", ![r].head = new]
  BY DEF Reissues
<1>2. i \in Formed /\ i \in Intents /\ head.k > 0
  BY <1>0, <1>1, LiveIsGenuine
<1>3. /\ rebase'[r].phase = "sending" /\ rebase'[r].head = new
      /\ \A other \in Rebases : other # r => rebase'[other] = rebase[other]
  BY <1>0, <1>1 DEF RebaseType
<1>4. /\ rows'[i].k = new.k /\ rows'[i].base = new.base
      /\ \A j \in Intents : j # i => rows'[j] = rows[j]
  BY <1>0, <1>1, <1>2
<1>5. ASSUME NEW req \in Request, Ready(req)'
      PROVE  Ready(req) \/ req = new
  <2>1. Held(req)' => Held(req)
    BY <1>0 DEF Held
  <2>2. YetToSend(req)' => YetToSend(req) \/ req = new
    BY <1>0, <1>3 DEF YetToSend
  <2>3. QED
    BY <1>5, <2>1, <2>2 DEF Ready
<1>6. ASSUME NEW req \in Request, InQueue(req)'
      PROVE  InQueue(req) \/ req = new
  <2>1. PICK j \in Intents : rows'[j] # NoRow /\ req = RequestOf(rows', j)
    BY <1>6 DEF InQueue, RequestOf
  <2>2. CASE j = i
    <3>1. IdOf(req) = IdOf(new) /\ req.base = new.base
      BY <1>4, <2>1, <2>2 DEF RequestOf, IdOf
    <3>2. QED
      BY <3>1, RequestsAreEqual
  <2>3. CASE j # i
    BY <1>4, <2>1, <2>3 DEF InQueue, RequestOf
  <2>4. QED
    BY <2>2, <2>3
<1>7. ASSUME NEW req \in Request, Live(req)'
      PROVE  Live(req) \/ req = new
  BY <1>3, <1>5, <1>6, <1>7 DEF Live
<1>8. ASSUME i \in Formed \ doubted'
      PROVE  LET last == RequestOf(rows, i) IN
             rows[i] # NoRow /\ IdOf(last) \notin tried /\ ~YetToSend(last)
  <2>1. /\ <<i, head.k>> \notin tried /\ ~YetToSend(head) /\ rows[i].k = head.k
    BY <1>1, <1>8
  <2>2. rows[i] # NoRow
    BY <1>2, <2>1, ConstantsAssumption DEF NoRow
  <2>3. /\ RequestOf(rows, i) \in Request /\ Live(RequestOf(rows, i))
        /\ IdOf(RequestOf(rows, i)) = IdOf(head) /\ IdOf(head) = <<i, head.k>>
    BY <1>1, <1>2, <2>1, <2>2, RowIsLive DEF IdOf
  <2>4. RequestOf(rows, i) = head
    BY <1>0, <2>3, RequestsAreEqual DEF Identities, OneBase
  <2>5. QED
    BY <2>1, <2>2, <2>3, <2>4
<1>9. Formed' = Formed \cup {i}
  BY <1>0, <1>2 DEF Formed
<1>10. \A req \in Request : Held(req)' => Held(req)
  BY <1>0 DEF Held
<1>11. QED
  BY <1>1, <1>4, <1>5, <1>7, <1>8, <1>9, <1>10 DEF MintedFor

LEMMA ReissueKeepsIdentities ==
    ASSUME Inv, Inv', Identities, NEW r \in Rebases, Reissue(r)
    PROVE  Identities'
<1>1. /\ UNCHANGED <<version, taken, effects, intents, tried, givenUp, loose, call, pass>>
      /\ rebase[r].phase = "reissuing" /\ rebase[r].head \in Request
      /\ Live(rebase[r].head)
      /\ \/ \E new \in Request : Reissues(r, new)
         \/ /\ UNCHANGED <<minted, doubted, rows>>
            /\ rebase' = [rebase EXCEPT ![r].phase = "ending"]
  BY ReissueMints
<1>2. /\ TypeOK /\ rebase \in [Rebases -> RebaseType] /\ rows \in [Intents -> RowType]
      /\ Onward
  BY <1>1, OnwardAsTyped DEF Inv, TypeOK, EngineTypeOK, DiskTypeOK
<1>3. CASE UNCHANGED <<minted, doubted, rows>> /\ rebase' = [rebase EXCEPT ![r].phase = "ending"]
  <2>1. RebasesCarried
    BY <1>2, <1>3 DEF RebasesCarried, RebaseType
  <2>2. Quiet /\ Carried
    BY <1>1, <1>2, <1>3, <2>1
       DEF Quiet, Carried, RowsCarried, PassCarried, CallsCarried, Continues, LooseCarried
  <2>3. QED
    BY <1>1, <1>3, <2>2, NothingDropped, CarriedKeepsIdentities
<1>4. ASSUME NEW new \in Request, Reissues(r, new)
      PROVE  Identities'
  <2>1. MintedFor(new)
    BY <1>4, ReissueMintsFor
  <2>2. \A c \in Callers : call'[c] # NoCall => Continues(c)
    BY <1>1 DEF Continues
  <2>3. QED
    BY <1>1, <1>2, <2>1, <2>2, MintedKeepsIdentities
<1>5. QED
  BY <1>1, <1>3, <1>4

(* What forming an intent does: its row is stored, or it is sent at once.  *)
Forms(new, o, kind) ==
    LET i == new.intent IN
    /\ i \notin Formed /\ Formed' = Formed \cup {i} /\ \A j \in Formed : j < i
    /\ OrderOf(i)' = o /\ KindOf(i)' = kind
    /\ minted' = [minted EXCEPT ![i] = 1] /\ new.k = 1
    /\ rows[i] = NoRow /\ \A j \in Intents : j # i => rows'[j] = rows[j]
    /\ \/ /\ Stored(i)' = TRUE
          /\ rows'[i] = [order |-> o, k |-> 1, base |-> new.base, status |-> "PENDING"]
          /\ call' = call
          /\ pass'.todo \in {pass.todo, SendList(rows')}
       \/ /\ Stored(i)' = FALSE
          /\ rows' = rows /\ pass' = pass
          /\ call'["direct"].req = new /\ call'["direct"].step = "sent"
          /\ \A c \in Callers : c # "direct" => call'[c] = call[c]

LEMMA StageMints ==
    ASSUME Inv, NEW o \in Orders, NEW kind \in Kinds, NEW base \in Nat,
           Stage(Identity(o, kind, base)), UNCHANGED <<serverVars, loose, rebase>>,
           kind = "create" => \A j \in Formed : OrderOf(j) # o
    PROVE  /\ Onward /\ mirror' = rows' /\ tried \subseteq tried'
           /\ UNCHANGED <<version, taken, effects, doubted, givenUp, loose, rebase>>
           /\ \E new \in Request : Forms(new, o, kind) /\ new.base = base
<1>0. PICK i : i = Len(intents) + 1
  OBVIOUS
<1> DEFINE row == [order |-> o, k |-> 1, base |-> base, status |-> "PENDING"]
           new == [intent |-> i, k |-> 1, base |-> base]
<1>1. /\ i \in Intents /\ minted' = [minted EXCEPT ![i] = 1] /\ mirror' = rows'
      /\ UNCHANGED <<version, taken, effects, doubted, givenUp, loose, rebase>>
  BY <1>0 DEF Stage, Identity, serverVars
<1>2. \/ /\ intents' = Append(intents, [order |-> o, kind |-> kind, stored |-> TRUE])
         /\ rows' = [rows EXCEPT ![i] = row] /\ Run(rows') /\ call' = call /\ tried' = tried
      \/ /\ intents' = Append(intents, [order |-> o, kind |-> kind, stored |-> FALSE])
         /\ rows' = rows /\ pass' = pass
         /\ call' = [call EXCEPT !["direct"] = [step |-> "sent", req |-> new, seen |-> 0]]
         /\ tried' = tried \cup {<<i, 1>>}
  BY <1>0 DEF Stage, Identity, SavePending, SendUnstored, Send
<1>3. PICK stored \in BOOLEAN :
          /\ intents' = Append(intents, [order |-> o, kind |-> kind, stored |-> stored])
          /\ IF stored THEN rows' = [rows EXCEPT ![i] = row] /\ Run(rows') /\ call' = call
             ELSE /\ rows' = rows /\ pass' = pass
                  /\ call' = [call EXCEPT !["direct"] = [step |-> "sent", req |-> new, seen |-> 0]]
  BY <1>2
<1>4. /\ Onward /\ i \notin Formed /\ Formed' = Formed \cup {i}
      /\ OrderOf(i)' = o /\ KindOf(i)' = kind /\ Stored(i)' = stored
  BY <1>0, <1>1, <1>3, StageForms
<1>5. new \in Request /\ new.intent = i /\ new.k = 1 /\ new.base = base
  BY <1>1, ConstantsAssumption DEF Request, ConstantsAssumption
<1>6. /\ rows \in [Intents -> RowType] /\ call \in [Callers -> CallType] /\ pass \in PassType
      /\ intents \in Seq([order : Orders, kind : Kinds, stored : BOOLEAN])
  BY DEF Inv, TypeOK, DiskTypeOK, EngineTypeOK, HistoryTypeOK
<1>7. \A j \in Formed : j < i
  <2>1. Formed = 1..Len(intents) /\ Len(intents) \in Nat
    BY <1>6, LenProperties DEF Formed
  <2>2. QED
    BY <1>0, <2>1
<1>8. rows[i] = NoRow
  BY <1>1, <1>4 DEF Inv, RowsTrue, RowTrue
<1>9. CASE stored = TRUE
  <2>1. rows' = [rows EXCEPT ![i] = row] /\ Run(rows') /\ call' = call
    BY <1>3, <1>9
  <2>2. rows'[i] = row /\ \A j \in Intents : j # i => rows'[j] = rows[j]
    BY <1>1, <1>6, <2>1
  <2>3. pass'.todo \in {pass.todo, SendList(rows')}
    BY <1>6, <2>1 DEF Run, PassType
  <2> HIDE DEF new
  <2>4. Forms(new, o, kind)
    BY <1>1, <1>4, <1>5, <1>7, <1>8, <1>9, <2>1, <2>2, <2>3 DEF Forms
  <2>5. QED
    BY <1>1, <1>2, <1>4, <1>5, <2>4
<1>10. CASE stored = FALSE
  <2>1. /\ rows' = rows /\ pass' = pass
        /\ call' = [call EXCEPT !["direct"] = [step |-> "sent", req |-> new, seen |-> 0]]
    BY <1>3, <1>10
  <2>2. /\ call'["direct"].req = new /\ call'["direct"].step = "sent"
        /\ \A c \in Callers : c # "direct" => call'[c] = call[c]
    BY <1>6, <2>1 DEF Callers
  <2> HIDE DEF new
  <2>3. Forms(new, o, kind)
    BY <1>1, <1>4, <1>5, <1>7, <1>8, <1>10, <2>1, <2>2 DEF Forms
  <2>4. QED
    BY <1>1, <1>2, <1>4, <1>5, <2>3
<1>11. QED
  BY <1>9, <1>10

(* Forming an intent mints its first id. *)
LEMMA StageMintsFor ==
    ASSUME Inv, Identities, NEW o \in Orders, NEW kind \in Kinds, NEW base \in Nat,
           Stage(Identity(o, kind, base)), UNCHANGED <<serverVars, loose, rebase>>,
           kind = "create" => \A j \in Formed : OrderOf(j) # o
    PROVE  \E new \in Request : Forms(new, o, kind) /\ new.base = base /\ MintedFor(new)
<1>1. PICK new \in Request : Forms(new, o, kind) /\ new.base = base
  BY StageMints
<1>2. /\ Onward /\ tried \subseteq tried'
      /\ UNCHANGED <<version, taken, effects, doubted, givenUp, loose, rebase>>
  BY StageMints
<1> PICK i : i = new.intent
  OBVIOUS
<1>3. /\ i \in Intents /\ i \notin Formed /\ minted[i] = 0 /\ TypeOK
  BY <1>1 DEF Forms, Request, Identities, IdsAreMinted, Inv
<1>4. /\ new.k = minted[i] + 1 /\ minted' = [minted EXCEPT ![i] = new.k]
      /\ Formed' = Formed \cup {i}
  BY <1>1, <1>3 DEF Forms
<1>5. \A j \in Intents : rows[j] # NoRow => j \in Formed /\ j # i
  BY <1>3 DEF Inv, RowsTrue, RowTrue
<1>6. /\ \A j \in Intents : j # i => rows'[j] = rows[j]
      /\ rows'[i] # NoRow => rows'[i].k = new.k /\ rows'[i].base = new.base
  BY <1>1, <1>3 DEF Forms
<1>7. ASSUME NEW j \in Intents, rows'[j] # NoRow
      PROVE  \/ j = i /\ RequestOf(rows', j) = new
             \/ j # i /\ rows[j] # NoRow /\ RequestOf(rows', j) = RequestOf(rows, j)
  <2>1. CASE j = i
    <3>1. new = [intent |-> i, k |-> new.k, base |-> new.base]
      BY DEF Request
    <3>2. QED
      BY <1>6, <1>7, <2>1, <3>1 DEF RequestOf
  <2>2. CASE j # i
    BY <1>6, <1>7, <2>2 DEF RequestOf
  <2>3. QED
    BY <2>1, <2>2
<1>8. ASSUME NEW req \in Request, Held(req)'
      PROVE  Held(req) \/ (req = new /\ ~Stored(i)')
  <2>1. ASSUME NEW c \in Callers, call'[c] # NoCall, call'[c].req = req
        PROVE  Held(req) \/ (req = new /\ ~Stored(i)')
    BY <1>1, <2>1 DEF Forms, Held
  <2>2. QED
    BY <1>2, <1>8, <2>1 DEF Held
<1>9. ASSUME NEW req \in Request, YetToSend(req)'
      PROVE  YetToSend(req) \/ req = new \/ (InQueue(req) /\ req.intent # i)
  <2>1. ASSUME NEW e \in SendList(rows'), e.req = req
        PROVE  req = new \/ (InQueue(req) /\ req.intent # i)
    <3>1. PICK j \in Intents : rows'[j] # NoRow /\ req = RequestOf(rows', j)
      BY <2>1 DEF SendList, ToSend
    <3>2. req.intent = j
      BY <3>1 DEF RequestOf
    <3>3. QED
      BY <1>7, <3>1, <3>2 DEF InQueue
  <2>2. pass'.todo \in {pass.todo, SendList(rows')}
    BY <1>1 DEF Forms
  <2>3. QED
    BY <1>2, <1>9, <2>1, <2>2 DEF YetToSend
<1>10. \A req \in Request : InQueue(req)' => InQueue(req) \/ req = new
  BY <1>7 DEF InQueue, RequestOf
<1>11. ASSUME NEW req \in Request
       PROVE  /\ Ready(req)' => Ready(req) \/ req = new \/ (InQueue(req) /\ req.intent # i)
              /\ Live(req)' => Live(req) \/ req = new
  BY <1>2, <1>8, <1>9, <1>10 DEF Live, Ready
<1>12. MintedFor(new)
  BY <1>2, <1>3, <1>4, <1>6, <1>8, <1>11 DEF MintedFor
<1>13. QED
  BY <1>1, <1>12

LEMMA StageKeepsIdentities ==
    ASSUME Inv, Inv', Identities, NEW o \in Orders, NEW kind \in Kinds, NEW base \in Nat,
           Stage(Identity(o, kind, base)), UNCHANGED <<serverVars, loose, rebase>>,
           kind = "create" => \A j \in Formed : OrderOf(j) # o
    PROVE  Identities'
<1>1. PICK new \in Request : Forms(new, o, kind) /\ MintedFor(new)
  BY StageMintsFor
<1>2. /\ Onward /\ tried \subseteq tried'
      /\ UNCHANGED <<version, taken, effects, doubted, givenUp, loose, rebase>>
  BY StageMints
<1>3. \A c \in Callers : call'[c] # NoCall => Continues(c) \/ call'[c].step = "sent"
  BY <1>1 DEF Forms, Continues
<1>4. QED
  BY <1>1, <1>2, <1>3, MintedKeepsIdentities

LEMMA IdentitiesStep ==
    ASSUME Inv, Inv', Identities, SentReached, [Next]_vars
    PROVE  Identities'
<1>1. ASSUME NEW c \in Callers, Attempt(c) \/ Lose(c) PROVE Identities'
  BY <1>1, AttemptsKeepIdentities
<1>2. ASSUME NEW req \in loose, ServeLoose(req) PROVE Identities'
  BY <1>2, ServeLooseKeepsIdentities
<1>3. ASSUME NEW o \in Orders, CreateOrder(o) PROVE Identities'
  <2>1. /\ Stage(Identity(o, "create", 0)) /\ UNCHANGED <<serverVars, loose, rebase>>
        /\ \A j \in Formed : OrderOf(j) # o
    BY <1>3 DEF CreateOrder
  <2>2. "create" \in Kinds /\ 0 \in Nat
    BY DEF Kinds
  <2>3. QED
    BY <2>1, <2>2, StageKeepsIdentities
<1>4. ASSUME NEW kind \in CommandKinds, Command(kind) PROVE Identities'
  <2>1. /\ Stage(Identity(current, kind, Projected)) /\ UNCHANGED <<serverVars, loose, rebase>>
        /\ current # NULL
    BY <1>4 DEF Command
  <2>2. /\ kind \in Kinds /\ kind # "create" /\ current \in Orders
    BY <2>1 DEF Kinds, CommandKinds, Inv, TypeOK, ScreenTypeOK
  <2>3. Projected \in Nat
    BY ProjectedTyped
  <2>4. QED
    BY <2>1, <2>2, <2>3, StageKeepsIdentities
<1>5. ASSUME NEW r \in Rebases, Reissue(r) PROVE Identities'
  BY <1>5, ReissueKeepsIdentities
<1>6. ASSUME NEW r \in Rebases, RebaseSends(r) PROVE Identities'
  <2>1. /\ Send(r, rebase[r].head, WithStatus(rebase[r].head, "SYNCING"))
        /\ rebase[r].phase = "sending"
        /\ UNCHANGED <<version, taken, effects, minted, intents, loose, pass, rebase, doubted, givenUp>>
    BY <1>6 DEF RebaseSends, serverVars
  <2>2. rebase[r].head \in Request /\ r \in Callers
    BY <2>1 DEF Inv, RebasesTrue, RebaseTrue, Genuine, Callers
  <2>3. YetToSend(rebase[r].head)
    BY <2>1 DEF YetToSend
  <2>4. QED
    BY <2>1, <2>2, <2>3, SendKeepsIdentities
<1>7. CASE PassSends
  <2>1. PICK e \in pass.todo : Send("pass", e.req, WithStatus(e.req, "SYNCING"))
    BY <1>7 DEF PassSends
  <2>2. UNCHANGED <<version, taken, effects, minted, intents, loose, pass, rebase, doubted, givenUp>>
    BY <1>7 DEF PassSends, serverVars
  <2>3. /\ e.req \in Request /\ "pass" \in Callers /\ YetToSend(e.req)
    BY DEF Inv, PassTrue, ToDoTrue, Genuine, Callers, YetToSend
  <2>4. QED
    BY <2>1, <2>2, <2>3, SendKeepsIdentities
<1>8. ASSUME NEW r \in Rebases, RebaseHalted(r) \/ ReadHead(r) \/ RebaseEnds(r) PROVE Identities'
  BY <1>8, CarriedByRebase, NothingDropped, CarriedKeepsIdentities
<1>9. CASE DiscardHalted
  BY <1>9, CarriedByDiscard, CarriedKeepsIdentities
<1>10. CASE \/ \E o \in Orders : OtherTerminal(o) \/ FocusOrder(o)
            \/ Clear \/ AskOrder \/ TakeOrder \/ Reload \/ Trigger \/ PassEnds \/ Hydrate \/ Visit
            \/ UNCHANGED vars
  BY <1>10, CarriedByScreen, NothingDropped, CarriedKeepsIdentities
<1>11. QED
  BY <1>1, <1>2, <1>3, <1>4, <1>5, <1>6, <1>7, <1>8, <1>9, <1>10 DEF Next, Rebase, Pass

-----------------------------------------------------------------------------
(* On which versions requests are based.                                   *)

(* The request has had its effect in this step.                            *)
Overtaken(p) == At(p) = p.base /\ At(p)' = p.base + 1

(* What another row may rest on: the row stays, or its effect has come.    *)
Holds(p) ==
    \/ InQueue(p)' /\ ~Repeats(p)'
    \/ Overtaken(p)

RowsHold ==
    \A p \in Request : InQueue(p) /\ ~Repeats(p) =>
        \/ Holds(p)
        \/ mirror' # mirror /\ \A j \in Intents : rows'[j] # NoRow => OrderOf(j) # OrderOf(p.intent)

LEMMA ReachedStays ==
    ASSUME Inv, Inv', Onward, UNCHANGED intents, NEW i \in Intents, NEW base \in Nat,
           ReachedFrom(base, i), NEW p, p = RequestOf(rows, i), Holds(p)
    PROVE  ReachedFrom(base, i)' \/ base <= version'[OrderOf(i)]
<1>1. /\ rows[i] # NoRow /\ ~Repeats(p) /\ base <= Later(rows[i].base, version[OrderOf(i)]) + 1
  BY DEF ReachedFrom
<1>2. /\ p \in Request /\ p.intent = i /\ p.base = rows[i].base /\ At(p) = version[OrderOf(i)]
      /\ OrderOf(i) \in Orders /\ rows[i].base \in Nat /\ version[OrderOf(i)] \in Nat
  BY <1>1, RowIsLive DEF At
<1>3. /\ At(p)' = version'[OrderOf(i)] /\ version'[OrderOf(i)] \in Nat
      /\ version[OrderOf(i)] <= version'[OrderOf(i)]
  BY <1>2 DEF At, OrderOf, Onward
<1>4. CASE Overtaken(p)
  <2>1. Later(rows[i].base, version[OrderOf(i)]) = rows[i].base
    BY <1>2, <1>4 DEF Overtaken, Later
  <2>2. QED
    BY <1>1, <1>2, <1>3, <1>4, <2>1 DEF Overtaken
<1>5. CASE InQueue(p)' /\ ~Repeats(p)'
  <2>1. PICK j \in Intents : rows'[j] # NoRow /\ p = RequestOf(rows', j)
    BY <1>5 DEF InQueue, RequestOf
  <2>2. j = i /\ rows'[i].base = p.base
    BY <1>2, <2>1 DEF RequestOf
  <2>3. ~Repeats(RequestOf(rows, i))'
    BY <1>5, <2>1, <2>2 DEF Repeats, RequestOf
  <2>4. base <= Later(rows'[i].base, version'[OrderOf(i)]) + 1
    BY <1>1, <1>2, <1>3, <2>2 DEF Later
  <2>5. OrderOf(i)' = OrderOf(i)
    BY DEF OrderOf
  <2>6. QED
    BY <2>1, <2>2, <2>3, <2>4, <2>5 DEF ReachedFrom
<1>6. QED
  BY <1>4, <1>5 DEF Holds

LEMMA RowsReachedKept ==
    ASSUME Inv, Inv', Onward, UNCHANGED intents, RowsReached, RowsCarried, RowsHold
    PROVE  RowsReached'
<1> SUFFICES ASSUME NEW j \in Intents, rows'[j] # NoRow
             PROVE  RowReached(j)'
  BY DEF RowsReached
<1>1. rows[j] # NoRow /\ rows'[j].base = rows[j].base
  BY DEF RowsCarried
<1>2. /\ j \in Formed /\ OrderOf(j) \in Orders /\ rows[j].base \in Nat
      /\ version[OrderOf(j)] \in Nat /\ version'[OrderOf(j)] \in Nat
      /\ version[OrderOf(j)] <= version'[OrderOf(j)] /\ OrderOf(j)' = OrderOf(j)
  BY <1>1, RowIsLive DEF Onward, OrderOf
<1>3. CASE rows[j].base <= version[OrderOf(j)]
  BY <1>1, <1>2, <1>3 DEF RowReached
<1>4. ASSUME NEW i \in Formed, i < j, OrderOf(i) = OrderOf(j), ReachedFrom(rows[j].base, i)
      PROVE  RowReached(j)'
  <2> PICK base, p : base = rows[j].base /\ p = RequestOf(rows, i)
    OBVIOUS
  <2>1. i \in Intents /\ rows[i] # NoRow /\ ~Repeats(p)
    BY <1>4, FormedIntents DEF ReachedFrom, Inv
  <2>2. p \in Request /\ InQueue(p) /\ p.intent = i
    BY <2>1, RowIsLive
  <2>3. Holds(p)
    BY <1>4, <2>1, <2>2 DEF RowsHold
  <2>4. ReachedFrom(base, i)' \/ base <= version'[OrderOf(i)]
    BY <1>2, <1>4, <2>1, <2>3, ReachedStays
  <2>5. i \in Formed' /\ OrderOf(i)' = OrderOf(j)'
    BY <1>4 DEF Formed, OrderOf
  <2>6. QED
    BY <1>1, <1>2, <1>4, <2>4, <2>5 DEF RowReached, ReachedFrom
<1>5. QED
  BY <1>1, <1>3, <1>4 DEF RowsReached, RowReached

LEMMA MirrorIsFormed ==
    ASSUME Inv, NEW i \in Intents, mirror[i] # NoRow
    PROVE  /\ i \in Formed /\ mirror[i].base \in Nat /\ mirror[i].order = OrderOf(i)
           /\ OrderOf(i) \in Orders /\ version[OrderOf(i)] \in Nat
<1>1. i \in Formed /\ TypeOK /\ mirror[i].order = OrderOf(i)
  BY DEF Inv, MirrorTrue
<1>2. mirror[i] \in RowType /\ OrderOf(i) \in Orders /\ version[OrderOf(i)] \in Nat
  BY <1>1, FormedIntents DEF TypeOK, ScreenTypeOK, ServerTypeOK
<1>3. QED
  BY <1>1, <1>2, RowIsThere

LEMMA MirrorReachedKept ==
    ASSUME Inv, Inv', Onward, UNCHANGED <<intents, mirror>>, MirrorReached, RowsHold
    PROVE  MirrorReached'
<1> SUFFICES ASSUME NEW i \in Intents, mirror[i] # NoRow
             PROVE  \/ mirror[i].base < version'[OrderOf(i)]
                    \/ ReachedFrom(mirror[i].base + 1, i)'
  BY DEF MirrorReached, OrderOf
<1> PICK base, p : base = mirror[i].base + 1 /\ p = RequestOf(rows, i)
  OBVIOUS
<1>1. /\ i \in Formed /\ mirror[i].base \in Nat /\ OrderOf(i) \in Orders
      /\ version[OrderOf(i)] \in Nat /\ version'[OrderOf(i)] \in Nat
      /\ version[OrderOf(i)] <= version'[OrderOf(i)]
  BY MirrorIsFormed DEF Onward
<1>2. CASE mirror[i].base < version[OrderOf(i)]
  BY <1>1, <1>2
<1>3. CASE ReachedFrom(base, i)
  <2>1. rows[i] # NoRow /\ ~Repeats(p)
    BY <1>3 DEF ReachedFrom
  <2>2. p \in Request /\ InQueue(p)
    BY <2>1, RowIsLive
  <2>3. Holds(p)
    BY <2>1, <2>2 DEF RowsHold
  <2>4. ReachedFrom(base, i)' \/ base <= version'[OrderOf(i)]
    BY <1>1, <1>3, <2>3, ReachedStays
  <2>5. ReachedFrom(base, i)' => ReachedFrom(mirror[i].base + 1, i)'
    BY DEF ReachedFrom
  <2>6. QED
    BY <1>1, <2>4, <2>5
<1>4. QED
  BY <1>2, <1>3 DEF MirrorReached

(* A step that takes no request in repeats nothing that it did not before. *)
SameRepeats ==
    /\ UNCHANGED <<taken, intents>>
    /\ \A o \in Orders : version'[o] > 0 => version[o] > 0

LEMMA RepeatsSame ==
    ASSUME Inv, Onward, SameRepeats, NEW req \in Request, req.intent \in Formed
    PROVE  Repeats(req)' <=> Repeats(req)
<1>1. /\ OrderOf(req.intent) \in Orders /\ OrderOf(req.intent)' = OrderOf(req.intent)
      /\ KindOf(req.intent)' = KindOf(req.intent)
  BY FormedIntents DEF Inv, SameRepeats, OrderOf, KindOf
<1>2. version'[OrderOf(req.intent)] > 0 <=> version[OrderOf(req.intent)] > 0
  BY <1>1 DEF SameRepeats, Onward
<1>3. QED
  BY <1>1, <1>2 DEF Repeats, SameRepeats, KindOf

(* A mirror that was read from the disk, in a step that repeats nothing    *)
(* new.                                                                    *)
LEMMA MirrorReachedRead ==
    ASSUME Inv, Inv', Onward, SameRepeats, TakenIsBehind, RowsCarried, mirror' = rows'
    PROVE  MirrorReached'
<1> SUFFICES ASSUME NEW i \in Intents, mirror'[i] # NoRow
             PROVE  \/ rows'[i].base < version'[OrderOf(i)]
                    \/ ReachedFrom(mirror[i].base + 1, i)'
  BY DEF MirrorReached, OrderOf, SameRepeats
<1> PICK p : p = RequestOf(rows, i)
  OBVIOUS
<1>1. /\ rows[i] # NoRow /\ rows'[i].base = rows[i].base /\ RequestOf(rows', i) = p
  BY DEF RowsCarried, RequestOf
<1>2. /\ p \in Request /\ Live(p) /\ p.intent = i /\ p.base = rows[i].base /\ i \in Formed
      /\ rows[i].base \in Nat
  BY <1>1, RowIsLive
<1>3. /\ At(p)' = version'[OrderOf(i)] /\ At(p)' \in Nat
      /\ Behind(p)' <=> p.base < version'[OrderOf(i)]
  BY <1>2, BehindKept DEF At, Behind, OrderOf, SameRepeats
<1>4. CASE Repeats(p)
  BY <1>1, <1>2, <1>3, <1>4, RepeatsIsBehind, BehindKept
<1>5. CASE ~Repeats(p)
  <2>1. ~Repeats(p)'
    BY <1>2, <1>5, RepeatsSame
  <2>2. ~Repeats(RequestOf(rows, i))'
    BY <1>1, <2>1 DEF Repeats, RequestOf
  <2>3. mirror'[i].base + 1 <= Later(rows'[i].base, version'[OrderOf(i)']) + 1
    BY <1>1, <1>2, <1>3 DEF Later, OrderOf, SameRepeats
  <2>4. QED
    BY <2>2, <2>3 DEF ReachedFrom
<1>6. QED
  BY <1>4, <1>5

PassHolds ==
    \A f \in pass.todo : ~Repeats(f.req) =>
        \/ f \in pass'.todo /\ ~Repeats(f.req)'
        \/ Overtaken(f.req)
        \/ \A e \in pass'.todo : OrderOf(e.req.intent) # OrderOf(f.req.intent)

LEMMA ToDoIsLive ==
    ASSUME Inv, NEW e \in pass.todo
    PROVE  /\ e.req \in Request /\ Live(e.req) /\ e.req.intent \in Formed
           /\ At(e.req) \in Nat /\ e.req.base \in Nat
<1>1. e.req \in Request /\ Live(e.req)
  BY DEF Inv, PassTrue, ToDoTrue, Genuine, Live, Ready, YetToSend
<1>2. QED
  BY <1>1, LiveIsGenuine

LEMMA PassReachedKept ==
    ASSUME Inv, Inv', Onward, PassReached, pass'.todo \subseteq pass.todo, PassHolds
    PROVE  PassReached'
<1> SUFFICES ASSUME NEW e \in pass'.todo
             PROVE  ToDoReached(e)'
  BY DEF PassReached
<1>1. /\ e \in pass.todo /\ e.req \in Request /\ Live(e.req) /\ e.req.intent \in Formed
      /\ At(e.req) \in Nat /\ e.req.base \in Nat
  BY ToDoIsLive
<1>2. /\ At(e.req)' \in Nat /\ At(e.req) <= At(e.req)'
      /\ OrderOf(e.req.intent)' = OrderOf(e.req.intent)
  BY <1>1, BehindKept
<1>3. CASE e.req.base <= At(e.req)
  BY <1>1, <1>2, <1>3 DEF ToDoReached
<1>4. ASSUME NEW f \in pass.todo, f.group = e.group, f.req.intent < e.req.intent,
             OrderOf(f.req.intent) = OrderOf(e.req.intent), ~Repeats(f.req),
             e.req.base <= Later(f.req.base, At(e.req)) + 1
      PROVE  ToDoReached(e)'
  <2>1. /\ f.req \in Request /\ Live(f.req) /\ f.req.intent \in Formed
        /\ At(f.req) \in Nat /\ f.req.base \in Nat
    BY ToDoIsLive
  <2>2. /\ OrderOf(f.req.intent)' = OrderOf(f.req.intent) /\ At(f.req) = At(e.req)
        /\ At(f.req)' = At(e.req)'
    BY <1>2, <1>4, <2>1, BehindKept DEF At
  <2>3. CASE f \in pass'.todo /\ ~Repeats(f.req)'
    <3>1. e.req.base <= Later(f.req.base, At(e.req)') + 1
      BY <1>1, <1>2, <1>4, <2>1 DEF Later
    <3>2. QED
      BY <1>2, <1>4, <2>2, <2>3, <3>1 DEF ToDoReached
  <2>4. CASE Overtaken(f.req)
    BY <1>1, <1>4, <2>1, <2>2, <2>4 DEF Overtaken, Later, ToDoReached
  <2>5. QED
    BY <1>4, <2>3, <2>4 DEF PassHolds
<1>5. QED
  BY <1>1, <1>3, <1>4 DEF PassReached, ToDoReached

LEMMA PassReachedListed ==
    ASSUME Inv', RowsReached', pass'.todo = SendList(rows')
    PROVE  PassReached'
<1> SUFFICES ASSUME NEW e \in pass'.todo
             PROVE  ToDoReached(e)'
  BY DEF PassReached
<1>1. PICK j \in Intents : /\ rows'[j] # NoRow /\ Sendable(rows', rows'[j].order)
                           /\ e = ToSend(rows', j)
  BY DEF SendList
<1>2. /\ e.req.intent = j /\ e.req.base = rows'[j].base /\ e.group = FirstOf(rows', j)
  BY <1>1 DEF ToSend, RequestOf
<1>3. RowTrue(j)' /\ RowReached(j)'
  BY <1>1 DEF Inv, RowsTrue, RowsReached
<1>4. CASE rows'[j].base <= version'[OrderOf(j)']
  BY <1>2, <1>4 DEF ToDoReached, At, OrderOf
<1>5. ASSUME NEW i \in Formed', i < j, OrderOf(i)' = OrderOf(j)', ReachedFrom(rows[j].base, i)'
      PROVE  ToDoReached(e)'
  <2>1. i \in Intents /\ rows'[i] # NoRow /\ ~Repeats(RequestOf(rows, i))'
    BY <1>5 DEF Inv, TypeOK, HistoryTypeOK, ReachedFrom
  <2>2. RowTrue(i)' /\ rows'[i].order = rows'[j].order
    BY <1>3, <1>5, <2>1 DEF Inv, RowsTrue, RowTrue
  <2>3. ToSend(rows', i) \in pass'.todo
    BY <1>1, <2>1, <2>2 DEF SendList
  <2>4. /\ ToSend(rows', i).req = RequestOf(rows', i) /\ ToSend(rows', i).group = FirstOf(rows', i)
        /\ RequestOf(rows', i).intent = i /\ RequestOf(rows', i).base = rows'[i].base
    BY DEF ToSend, RequestOf
  <2>5. FirstOf(rows', i) = FirstOf(rows', j)
    BY <2>2 DEF FirstOf
  <2>6. rows'[j].base <= Later(rows'[i].base, version'[OrderOf(i)']) + 1
    BY <1>5 DEF ReachedFrom
  <2> PICK f : f = ToSend(rows', i)
    OBVIOUS
  <2>7. /\ f \in pass'.todo /\ f.group = e.group /\ f.req.intent = i
        /\ OrderOf(f.req.intent)' = OrderOf(e.req.intent)'
        /\ f.req.base = rows'[i].base
    BY <1>2, <1>5, <2>3, <2>4, <2>5 DEF OrderOf
  <2>8. ~Repeats(f.req)'
    BY <2>1, <2>4 DEF Repeats, RequestOf
  <2>9. e.req.base <= Later(f.req.base, At(e.req)') + 1
    BY <1>2, <1>5, <2>6, <2>7 DEF At, OrderOf
  <2>10. QED
    BY <1>2, <1>5, <2>7, <2>8, <2>9 DEF ToDoReached
<1>6. QED
  BY <1>3, <1>4, <1>5 DEF RowReached

(* The head a rebase has taken up is the first of its order.               *)
HeadsReached ==
    \A r \in Rebases : rebase'[r].phase \in {"reissuing", "sending"} =>
        \/ rebase'[r].phase = rebase[r].phase /\ rebase'[r].head = rebase[r].head
        \/ LET i == rebase'[r].head.intent IN
           rebase'[r].phase = "reissuing" /\ i \in Intents /\ rows[i].base <= version[OrderOf(i)]

(* What is sent for a row from now on.                                     *)
CallsReached ==
    \A c \in Callers \ {"direct"} : call'[c] # NoCall =>
        \E req \in Request : call'[c].req = req /\ Live(req) /\ req.base <= At(req)

LEMMA CallsReachedKept ==
    ASSUME Inv, SentReached,
           \A c \in Callers : call'[c] # NoCall => call[c] # NoCall /\ call'[c].req = call[c].req
    PROVE  CallsReached
<1> SUFFICES ASSUME NEW c \in Callers \ {"direct"}, call'[c] # NoCall
             PROVE  \E req \in Request : call'[c].req = req /\ Live(req) /\ req.base <= At(req)
  BY DEF CallsReached
<1>1. call[c] # NoCall /\ call'[c].req = call[c].req
  OBVIOUS
<1>2. call[c].req \in Request /\ Live(call[c].req)
  BY <1>1 DEF Inv, CallsTrue, CallTrue, Genuine, Live, Ready, Held
<1>3. QED
  BY <1>1, <1>2 DEF SentReached

LEMMA SentReachedKept ==
    ASSUME Inv, Inv', Onward, UNCHANGED intents, SentReached,
           RowsCarried, CallsReached, LooseCarried, HeadsReached
    PROVE  SentReached'
<1>1. \A req \in Request : Live(req) /\ req.base <= At(req) => req.base <= At(req)'
  BY BehindKept
<1>2. ASSUME NEW c \in Callers, call[c] # NoCall
      PROVE  /\ call[c].req \in Request /\ Live(call[c].req) /\ CallTrue(c)
  <2>1. CallTrue(c)
    BY <1>2 DEF Inv, CallsTrue
  <2>2. QED
    BY <1>2, <2>1 DEF CallTrue, Genuine, Live, Ready, Held
<1>3. ASSUME NEW req \in loose', Stored(req.intent)'
      PROVE  req.base <= At(req)'
  <2>1. Stored(req.intent)
    BY <1>3 DEF Stored
  <2>2. CASE req \in loose
    <3>1. req \in Request /\ Live(req) /\ req.base <= At(req)
      BY <2>1, <2>2 DEF SentReached, Inv, LooseTrue, Genuine, Live, Ready, Held
    <3>2. QED
      BY <1>1, <3>1
  <2>3. ASSUME NEW c \in Callers, call[c] # NoCall, req = call[c].req PROVE req.base <= At(req)'
    <3>1. req \in Request /\ Live(req) /\ c # "direct"
      BY <1>2, <2>1, <2>3 DEF CallTrue
    <3>2. req.base <= At(req)
      BY <2>3, <3>1 DEF SentReached
    <3>3. QED
      BY <1>1, <3>1, <3>2
  <2>4. QED
    BY <2>2, <2>3 DEF LooseCarried
<1>4. ASSUME NEW c \in Callers \ {"direct"}, call'[c] # NoCall, NEW req, req = call'[c].req
      PROVE  req.base <= At(req)'
  <2>1. req \in Request /\ Live(req) /\ req.base <= At(req)
    BY <1>4 DEF CallsReached
  <2>2. QED
    BY <1>1, <2>1
<1>5. ASSUME NEW r \in Rebases, NEW head, head = rebase'[r].head
      PROVE  /\ rebase'[r].phase = "sending" => head.base <= At(head)'
             /\ rebase'[r].phase = "reissuing" /\ rows'[head.intent] # NoRow
                => rows'[head.intent].base <= At(head)'
  <2>1. ASSUME rebase'[r].phase = "sending"
        PROVE  head.base <= At(head)'
    <3>1. rebase[r].phase = "sending" /\ head = rebase[r].head
      BY <1>5, <2>1 DEF HeadsReached
    <3>2. head \in Request /\ Live(head)
      BY <3>1 DEF Inv, RebasesTrue, RebaseTrue, Genuine, Live, Ready, YetToSend
    <3>3. head.base <= At(head)
      BY <3>1 DEF SentReached
    <3>4. QED
      BY <1>1, <3>2, <3>3
  <2>2. ASSUME rebase'[r].phase = "reissuing", rows'[head.intent] # NoRow
        PROVE  rows'[head.intent].base <= At(head)'
    <3>1. head \in Request /\ Genuine(head, intents', version')
      BY <1>5, <2>2 DEF Inv, RebasesTrue, RebaseTrue, Genuine
    <3>2. /\ head.intent \in Intents /\ rows[head.intent] # NoRow
          /\ rows'[head.intent].base = rows[head.intent].base
      BY <2>2, <3>1 DEF Request, RowsCarried
    <3>3. rows[head.intent].base <= version[OrderOf(head.intent)]
      BY <1>5, <2>2, <3>2 DEF HeadsReached, SentReached, At
    <3>4. /\ OrderOf(head.intent) \in Orders /\ rows[head.intent].base \in Nat
      BY <3>2, RowIsLive
    <3>5. At(head)' = version'[OrderOf(head.intent)]
      BY DEF At, OrderOf
    <3>6. QED
      BY <3>2, <3>3, <3>4, <3>5 DEF Onward
  <2>3. QED
    BY <2>1, <2>2
<1>6. QED
  BY <1>3, <1>4, <1>5 DEF SentReached

(* No row is lost that others may rest on. *)
NoneLost ==
    \A i \in Intents : rows[i] # NoRow /\ ~Repeats(RequestOf(rows, i)) => rows'[i] # NoRow

LEMMA NoneLostHolds ==
    ASSUME Inv, Onward, SameRepeats, RowsCarried, NoneLost
    PROVE  RowsHold
<1> SUFFICES ASSUME NEW p \in Request, InQueue(p), ~Repeats(p)
             PROVE  InQueue(p)' /\ ~Repeats(p)'
  BY DEF RowsHold, Holds
<1>1. PICK i \in Intents : rows[i] # NoRow /\ p = RequestOf(rows, i)
  BY DEF InQueue
<1>2. rows'[i] # NoRow /\ RequestOf(rows', i) = p
  BY <1>1 DEF NoneLost, RowsCarried, RequestOf
<1>3. p.intent \in Formed
  BY <1>1, RowIsLive
<1>4. ~Repeats(p)'
  BY <1>3, RepeatsSame
<1>5. InQueue(p)'
  BY <1>2 DEF InQueue, RequestOf
<1>6. QED
  BY <1>4, <1>5

LEMMA PassStays ==
    ASSUME Inv, Onward, SameRepeats, NEW gone,
           pass'.todo = {e \in pass.todo : e.req # gone}, Repeats(gone) \/ gone \notin Request
    PROVE  PassHolds
<1> SUFFICES ASSUME NEW f \in pass.todo, ~Repeats(f.req)
             PROVE  f \in pass'.todo /\ ~Repeats(f.req)'
  BY DEF PassHolds
<1>1. f.req \in Request /\ f.req.intent \in Formed
  BY ToDoIsLive
<1>2. QED
  BY <1>1, RepeatsSame

LEMMA QuietKeepsBases ==
    ASSUME Inv, Inv', Identities, Bases, Onward, SameRepeats, Carried, RowsHold, HeadsReached,
           \/ mirror' = mirror \/ mirror' = rows' \/ mirror' = [i \in Intents |-> NoRow],
           \/ pass' = pass
           \/ pass'.todo \subseteq pass.todo /\ PassHolds
           \/ pass'.todo = SendList(rows')
    PROVE  Bases'
<1> USE DEF Bases, Carried
<1>1. UNCHANGED intents
  BY DEF SameRepeats
<1>2. RowsReached'
  BY <1>1, RowsReachedKept
<1>3. MirrorReached'
  <2>1. CASE mirror' = mirror
    BY <1>1, <2>1, MirrorReachedKept
  <2>2. CASE mirror' = rows'
    BY <2>2, MirrorReachedRead DEF Identities
  <2>3. CASE mirror' = [i \in Intents |-> NoRow]
    BY <2>3 DEF MirrorReached
  <2>4. QED
    BY <2>1, <2>2, <2>3
<1>4. PassReached'
  <2>1. CASE pass' = pass
    <3>1. PassHolds
      <4> SUFFICES ASSUME NEW f \in pass.todo, ~Repeats(f.req) PROVE ~Repeats(f.req)'
        BY <2>1 DEF PassHolds
      <4>1. QED
        BY ToDoIsLive, RepeatsSame
    <3>2. QED
      BY <2>1, <3>1, PassReachedKept
  <2>2. CASE pass'.todo \subseteq pass.todo /\ PassHolds
    BY <2>2, PassReachedKept
  <2>3. CASE pass'.todo = SendList(rows')
    BY <1>2, <2>3, PassReachedListed
  <2>4. QED
    BY <2>1, <2>2, <2>3
<1>5. SentReached'
  <2>1. CallsReached
    BY <1>1, CallsReachedKept DEF CallsCarried, Continues
  <2>2. QED
    BY <1>1, <2>1, SentReachedKept
<1>6. QED
  BY <1>2, <1>3, <1>4, <1>5

LEMMA AttemptsKeepBases ==
    ASSUME Inv, Inv', Identities, Bases, NEW c \in Callers,
           TakeCanonical(c) \/ DeleteRow(c) \/ HaltQueue(c) \/ Lose(c)
    PROVE  Bases'
<1> PICK req : req = call[c].req
  OBVIOUS
<1>1. Quiet /\ Carried /\ UNCHANGED <<version, taken, intents, mirror>> /\ call[c].step # "idle"
  BY CarriedByAttempts
     DEF TakeCanonical, DeleteRow, HaltQueue, Lose, serverVars, historyVars, screenVars
<1>2. /\ Onward /\ SameRepeats /\ TypeOK /\ pass \in PassType /\ rows \in [Intents -> RowType]
  BY <1>1 DEF Quiet, SameRepeats, Inv, TypeOK, EngineTypeOK, DiskTypeOK
<1>3. /\ call[c] # NoCall /\ req \in Request
  BY <1>1, CallHasRequest DEF Inv
<1>4. CASE TakeCanonical(c)
  <2>1. UNCHANGED <<rows, rebase, pass>>
    BY <1>4 DEF TakeCanonical
  <2>2. RowsHold
    BY <1>1, <1>2, <2>1, NoneLostHolds DEF NoneLost, Carried
  <2>3. HeadsReached
    BY <2>1 DEF HeadsReached
  <2>4. QED
    BY <1>1, <1>2, <2>1, <2>2, <2>3, QuietKeepsBases
<1>5. CASE DeleteRow(c)
  <2>1. Return(c, "applied") /\ (rows' = Without(req) \/ rows' = rows) /\ call[c].step = "cached"
    BY <1>5 DEF DeleteRow, WriteFails
  <2>2. Repeats(req) /\ Live(req)
    BY <1>3, <2>1 DEF Identities, AnswersTrue, AnswerTrue, Live, Ready, Held
  <2>3. NoneLost
    <3> SUFFICES ASSUME NEW i \in Intents, rows[i] # NoRow, ~Repeats(RequestOf(rows, i))
                 PROVE  rows'[i] # NoRow
      BY DEF NoneLost
    <3>1. CASE i = req.intent /\ HasRow(req)
      <4>1. /\ RequestOf(rows, i) \in Request /\ Live(RequestOf(rows, i))
            /\ IdOf(RequestOf(rows, i)) = IdOf(req)
        BY <3>1, RowIsLive DEF IdOf, HasRow
      <4>2. RequestOf(rows, i) = req
        BY <1>3, <2>2, <4>1, RequestsAreEqual DEF Identities, OneBase
      <4>3. QED
        BY <2>2, <4>2
    <3>2. CASE ~(i = req.intent /\ HasRow(req))
      BY <1>2, <2>1, <3>2 DEF Without
    <3>3. QED
      BY <3>1, <3>2
  <2>4. RowsHold
    BY <1>1, <1>2, <2>3, NoneLostHolds DEF Carried
  <2>5. HeadsReached /\ pass'.todo \subseteq pass.todo
    BY <2>1, ReturnCarries DEF HeadsReached
  <2>6. pass' = pass \/ PassHolds
    <3>1. CASE c # "pass"
      BY <2>1, <3>1 DEF Return
    <3>2. CASE c = "pass"
      <4>1. pass'.todo = {e \in pass.todo : e.req # req}
        BY <1>2, <2>1, <3>2 DEF Return, PassType, Remaining
      <4>2. QED
        BY <1>2, <2>2, <4>1, PassStays
    <3>3. QED
      BY <3>1, <3>2
  <2>7. QED
    BY <1>1, <1>2, <2>4, <2>5, <2>6, QuietKeepsBases
<1>6. CASE HaltQueue(c)
  <2>1. Return(c, "halted") /\ (rows' = WithHalt(req) \/ rows' = rows)
    BY <1>6 DEF HaltQueue, WriteFails
  <2>2. NoneLost
    BY <1>2, <2>1, RowsStay DEF NoneLost
  <2>3. RowsHold
    BY <1>1, <1>2, <2>2, NoneLostHolds DEF Carried
  <2>4. HeadsReached /\ pass'.todo \subseteq pass.todo
    BY <2>1, ReturnCarries DEF HeadsReached
  <2>5. pass' = pass \/ PassHolds
    <3>1. CASE c # "pass"
      BY <2>1, <3>1 DEF Return
    <3>2. CASE c = "pass"
      <4>1. pass'.todo = {e \in pass.todo : OrderOf(e.req.intent) # OrderOf(req.intent)}
        BY <1>2, <2>1, <3>2 DEF Return, PassType, Remaining
      <4>2. ASSUME NEW f \in pass.todo, ~Repeats(f.req), f \in pass'.todo
            PROVE  ~Repeats(f.req)'
        BY <1>2, <4>2, ToDoIsLive, RepeatsSame
      <4>3. QED
        BY <4>1, <4>2 DEF PassHolds
    <3>3. QED
      BY <3>1, <3>2
  <2>6. QED
    BY <1>1, <1>2, <2>3, <2>4, <2>5, QuietKeepsBases
<1>7. CASE Lose(c)
  <2>1. Return(c, "failed") /\ rows' = WithStatus(req, "PENDING")
    BY <1>7 DEF Lose
  <2>2. NoneLost
    BY <1>2, <2>1, RowsStay DEF NoneLost
  <2>3. RowsHold
    BY <1>1, <1>2, <2>2, NoneLostHolds DEF Carried
  <2>4. HeadsReached /\ pass'.todo \subseteq pass.todo
    BY <2>1, ReturnCarries DEF HeadsReached
  <2>5. pass' = pass \/ PassHolds
    <3>1. CASE c # "pass"
      BY <2>1, <3>1 DEF Return
    <3>2. CASE c = "pass"
      <4>1. pass'.todo = {}
        BY <1>2, <2>1, <3>2 DEF Return, PassType, Remaining
      <4>2. QED
        BY <4>1 DEF PassHolds
    <3>3. QED
      BY <3>1, <3>2
  <2>6. QED
    BY <1>1, <1>2, <2>3, <2>4, <2>5, QuietKeepsBases
<1>8. QED
  BY <1>4, <1>5, <1>6, <1>7

(* The first row of an order rests on no other one.                        *)
LEMMA FirstIsReached ==
    ASSUME Inv, RowsReached, NEW o, NEW i \in Queued(rows, o),
           \A j \in Queued(rows, o) : i <= j
    PROVE  i \in Intents /\ rows[i] # NoRow /\ rows[i].base <= version[OrderOf(i)]
<1>1. i \in Intents /\ rows[i] # NoRow /\ rows[i].order = o
  BY DEF Queued
<1>2. OrderOf(i) = o
  BY <1>1, RowIsLive
<1>3. ASSUME NEW j \in Formed, j < i, OrderOf(j) = OrderOf(i), rows[j] # NoRow
      PROVE  FALSE
  <2>1. j \in Intents /\ j \in Nat /\ i \in Nat
    BY <1>1, FormedIntents, IntentsAreNumbers DEF Inv
  <2>2. j \in Queued(rows, o)
    BY <1>2, <1>3, <2>1, RowIsLive DEF Queued
  <2>3. QED
    BY <1>3, <2>1, <2>2
<1>4. QED
  BY <1>1, <1>3 DEF RowsReached, RowReached, ReachedFrom

LEMMA RebaseKeepsBases ==
    ASSUME Inv, Inv', Identities, Bases, NEW r \in Rebases,
           RebaseHalted(r) \/ ReadHead(r) \/ RebaseEnds(r)
    PROVE  Bases'
<1>1. /\ Quiet /\ Carried /\ UNCHANGED <<version, taken, intents, rows>> /\ UNCHANGED pass
  BY CarriedByRebase DEF RebaseHalted, ReadHead, RebaseEnds, serverVars, historyVars, diskVars
<1>2. /\ Onward /\ SameRepeats /\ rebase \in [Rebases -> RebaseType]
  BY <1>1 DEF Quiet, SameRepeats, Inv, TypeOK, EngineTypeOK
<1>3. RowsHold
  BY <1>1, <1>2, NoneLostHolds DEF NoneLost, Carried
<1>4. mirror' = mirror \/ mirror' = rows' \/ mirror' = [i \in Intents |-> NoRow]
  BY <1>1 DEF RebaseHalted, ReadHead, RebaseEnds, screenVars, Mirrored
<1>5. HeadsReached
  <2>1. CASE ReadHead(r) /\ rebase'[r].phase = "reissuing"
    <3>1. PICK i \in Queued(rows, rebase[r].order) :
              /\ \A j \in Queued(rows, rebase[r].order) : i <= j
              /\ rebase' = [rebase EXCEPT ![r].phase = "reissuing", ![r].head = RequestOf(rows, i)]
      BY <1>2, <2>1 DEF ReadHead, RebaseType
    <3>2. /\ \A other \in Rebases : other # r => rebase'[other] = rebase[other]
          /\ rebase'[r].phase = "reissuing" /\ rebase'[r].head.intent = i
      BY <1>2, <3>1 DEF RebaseType, RequestOf
    <3>3. i \in Intents /\ rows[i].base <= version[OrderOf(i)]
      BY <3>1, FirstIsReached DEF Bases
    <3>4. QED
      BY <3>2, <3>3 DEF HeadsReached
  <2>2. CASE ~(ReadHead(r) /\ rebase'[r].phase = "reissuing")
    <3>1. \E x : rebase' = [rebase EXCEPT ![r] = x]
      BY DEF RebaseHalted, RebaseEnds, ReadHead
    <3>2. \A other \in Rebases : other # r => rebase'[other] = rebase[other]
      BY <1>2, <3>1
    <3>3. rebase'[r].phase \notin {"reissuing", "sending"}
      <4>1. CASE RebaseHalted(r)
        <5> DEFINE x == [phase |-> "reading", order |-> current,
                         version |-> shown, head |-> IdleRebase.head]
        <5>1. rebase' = [rebase EXCEPT ![r] = x]
          BY <4>1 DEF RebaseHalted
        <5>2. x.phase = "reading"
          OBVIOUS
        <5> HIDE DEF x
        <5>3. QED
          BY <1>2, <5>1, <5>2
      <4>2. CASE RebaseEnds(r)
        BY <1>2, <4>2 DEF RebaseEnds, IdleRebase
      <4>3. CASE ReadHead(r)
        <5>1. \/ rebase' = [rebase EXCEPT ![r].phase = "ending"]
              \/ \E i \in Intents : rebase' = [rebase EXCEPT ![r].phase = "reissuing",
                                                             ![r].head = RequestOf(rows, i)]
          BY <4>3 DEF ReadHead, Queued
        <5>2. rebase'[r].phase \in {"ending", "reissuing"}
          BY <1>2, <5>1 DEF RebaseType
        <5>3. QED
          BY <2>2, <4>3, <5>2
      <4>4. QED
        BY <4>1, <4>2, <4>3
    <3>4. QED
      BY <3>2, <3>3 DEF HeadsReached
  <2>3. QED
    BY <2>1, <2>2
<1>6. QED
  BY <1>1, <1>2, <1>3, <1>4, <1>5, QuietKeepsBases

LEMMA ScreenKeepsBases ==
    ASSUME Inv, Inv', Identities, Bases,
           \/ \E o \in Orders : OtherTerminal(o) \/ FocusOrder(o)
           \/ Clear \/ AskOrder \/ TakeOrder \/ Reload \/ Trigger \/ PassEnds \/ Hydrate \/ Visit
           \/ UNCHANGED vars
    PROVE  Bases'
<1>1. Quiet /\ Carried
  BY CarriedByScreen
<1>2. /\ TypeOK /\ pass \in PassType /\ rows \in [Intents -> RowType]
  BY DEF Inv, TypeOK, EngineTypeOK, DiskTypeOK
<1>3. SameRepeats
  <2>1. ASSUME NEW o \in Orders, OtherTerminal(o)
        PROVE  \A p \in Orders : version'[p] > 0 => version[p] > 0
    <3>1. version' = [version EXCEPT ![o] = @ + 1] /\ version[o] > 0
      BY <2>1 DEF OtherTerminal
    <3>2. QED
      BY <1>2, <3>1 DEF TypeOK, ServerTypeOK
  <2>2. CASE ~\E o \in Orders : OtherTerminal(o)
    <3>1. version' = version
      BY <2>2
         DEF FocusOrder, Clear, AskOrder, TakeOrder, Reload, Trigger, PassEnds, Hydrate,
             HydrateReads, HydrateRestores, HydratePrunes, Visit, Leave, Detach, OpenAgain,
             serverVars, vars
    <3>2. QED
      BY <1>1, <3>1 DEF Quiet, SameRepeats
  <2>3. QED
    BY <1>1, <2>1, <2>2 DEF Quiet, SameRepeats
<1>4. CASE Reload
  <2>1. /\ mirror' = [i \in Intents |-> NoRow] /\ pass' = IdlePass /\ rows' = rows
        /\ rebase' = [r \in Rebases |-> IdleRebase]
    BY <1>4 DEF Reload, diskVars
  <2>2. HeadsReached /\ pass'.todo = {} /\ PassHolds /\ NoneLost
    BY <2>1 DEF HeadsReached, IdleRebase, IdlePass, PassHolds, NoneLost
  <2>3. QED
    BY <1>1, <1>3, <2>1, <2>2, NoneLostHolds, QuietKeepsBases DEF Quiet, Carried
<1>5. CASE ~Reload
  <2>1. UNCHANGED rebase
    BY <1>5
       DEF OtherTerminal, FocusOrder, Clear, AskOrder, TakeOrder, Trigger, PassEnds, Hydrate,
           HydrateReads, HydrateRestores, HydratePrunes, Visit, Leave, Detach, OpenAgain,
           engineVars, vars
  <2>2. HeadsReached
    BY <2>1 DEF HeadsReached
  <2>3. CASE HydrateReads
    <3>1. /\ UNCHANGED <<pass, mirror>>
          /\ rows' = [i \in Intents |-> IF rows[i].status = "SYNCING"
                                        THEN [rows[i] EXCEPT !.status = "PENDING"] ELSE rows[i]]
      BY <2>3 DEF HydrateReads, engineVars
    <3>2. NoneLost
      BY <1>2, <3>1, RowsStay DEF NoneLost
    <3>3. QED
      BY <1>1, <1>3, <2>2, <3>1, <3>2, NoneLostHolds, QuietKeepsBases DEF Quiet, Carried
  <2>4. CASE ~HydrateReads
    <3>1. rows' = rows
      BY <1>5, <2>4
         DEF OtherTerminal, FocusOrder, Clear, AskOrder, TakeOrder, Trigger, PassEnds, Hydrate,
             HydrateRestores, HydratePrunes, Visit, Leave, Detach, OpenAgain,
             diskVars, vars
    <3>2. mirror' = mirror \/ mirror' = rows' \/ mirror' = [i \in Intents |-> NoRow]
      BY <1>5, <2>4, <3>1
         DEF OtherTerminal, FocusOrder, Clear, AskOrder, TakeOrder, Trigger, PassEnds, Hydrate,
             HydrateRestores, HydratePrunes, Visit, Leave, Detach, OpenAgain,
             screenVars, vars, Mirrored
    <3>3. pass' = pass \/ Run(rows) \/ PassEnds
      BY <1>5, <2>4
         DEF OtherTerminal, FocusOrder, Clear, AskOrder, TakeOrder, Trigger, Hydrate,
             HydrateRestores, HydratePrunes, Visit, Leave, Detach, OpenAgain,
             engineVars, vars
    <3>4. pass' = pass \/ (pass'.todo = pass.todo) \/ pass'.todo = SendList(rows') \/ pass'.todo = {}
      <4>1. CASE pass' = pass
        BY <4>1
      <4>2. CASE Run(rows)
        BY <1>2, <3>1, <4>2 DEF Run, PassType
      <4>3. CASE PassEnds
        BY <3>1, <4>3 DEF PassEnds, IdlePass
      <4>4. QED
        BY <3>3, <4>1, <4>2, <4>3
    <3>5. pass'.todo = pass.todo \/ pass'.todo = {} => PassHolds
      <4> SUFFICES ASSUME pass'.todo = pass.todo, NEW f \in pass.todo, ~Repeats(f.req)
                   PROVE  ~Repeats(f.req)'
        BY DEF PassHolds
      <4>1. QED
        BY <1>1, <1>3, ToDoIsLive, RepeatsSame DEF Quiet
    <3>6. NoneLost
      BY <3>1 DEF NoneLost
    <3>7. RowsHold
      BY <1>1, <1>3, <3>6, NoneLostHolds DEF Quiet, Carried
    <3>8. QED
      BY <1>1, <1>3, <2>2, <3>2, <3>4, <3>5, <3>7, QuietKeepsBases DEF Quiet
  <2>5. QED
    BY <2>3, <2>4
<1>6. QED
  BY <1>4, <1>5

LEMMA DiscardKeepsBases ==
    ASSUME Inv, Inv', Identities, Bases, DiscardHalted
    PROVE  Bases'
<1>1. Quiet /\ Carried
  BY CarriedByDiscard
<1>2. /\ rows' = WithDiscard(current) \/ rows' = rows
      /\ mirror' = rows' /\ UNCHANGED <<version, taken, intents, pass, rebase>>
  BY DEF DiscardHalted, WriteFails, serverVars, engineVars
<1>3. Onward /\ SameRepeats /\ HeadsReached
  BY <1>1, <1>2 DEF Quiet, SameRepeats, HeadsReached
<1>4. CASE rows' = rows
  BY <1>1, <1>2, <1>3, <1>4, NoneLostHolds, QuietKeepsBases DEF NoneLost, Carried
<1>5. CASE rows' = WithDiscard(current) /\ rows' # rows
  <2>1. mirror' # mirror
    <3>1. current \in Orders /\ mirror \in [Intents -> RowType]
      BY DEF DiscardHalted, Halted, Inv, TypeOK, ScreenTypeOK
    <3>2. PICK j \in Queued(mirror, current) : mirror[j].status \notin {"PENDING", "SYNCING"}
      BY DEF DiscardHalted, Halted, Sendable
    <3>3. j \in Intents /\ mirror[j] # NoRow /\ mirror[j].order = current
      BY <3>2 DEF Queued
    <3>4. mirror'[j] = NoRow \/ (mirror'[j] = rows[j] /\ j \notin Queued(rows, current))
      BY <1>2, <1>5, <3>3 DEF WithDiscard
    <3>5. mirror'[j] # mirror[j]
      BY <3>3, <3>4 DEF Queued
    <3>6. QED
      BY <3>5
  <2>2. RowsHold
    <3> SUFFICES ASSUME NEW p \in Request, InQueue(p), ~Repeats(p)
                 PROVE  Holds(p) \/ \A j \in Intents : rows'[j] # NoRow => OrderOf(j) # OrderOf(p.intent)
      BY <2>1 DEF RowsHold
    <3>1. PICK i \in Intents : rows[i] # NoRow /\ p = RequestOf(rows, i)
      BY DEF InQueue
    <3>2. p.intent = i /\ i \in Formed /\ OrderOf(i) = rows[i].order
      BY <3>1, RowIsLive
    <3>3. CASE rows[i].order = current
      <4>1. ASSUME NEW j \in Intents, rows'[j] # NoRow PROVE OrderOf(j) # OrderOf(i)
        <5>1. j \notin Queued(rows, current) /\ rows'[j] = rows[j]
          BY <1>5, <4>1 DEF WithDiscard
        <5>2. OrderOf(j) = rows[j].order /\ rows[j].order # current
          BY <4>1, <5>1, RowIsLive DEF Queued
        <5>3. QED
          BY <3>2, <3>3, <5>2
      <4>2. QED
        BY <3>2, <4>1
    <3>4. CASE rows[i].order # current
      <4>1. rows'[i] = rows[i] /\ RequestOf(rows', i) = p
        BY <1>5, <3>1, <3>4 DEF WithDiscard, Queued, RequestOf
      <4>2. InQueue(p)'
        BY <3>1, <4>1 DEF InQueue, RequestOf
      <4>3. ~Repeats(p)'
        BY <1>3, <3>2, RepeatsSame
      <4>4. QED
        BY <4>2, <4>3 DEF Holds
    <3>5. QED
      BY <3>3, <3>4
  <2>3. QED
    BY <1>1, <1>2, <1>3, <2>2, QuietKeepsBases
<1>6. QED
  BY <1>2, <1>4, <1>5

(* A request is sent whose base the order has reached. *)
LEMMA SendKeepsBases ==
    ASSUME Inv, Inv', Identities, Bases, NEW c \in Callers, NEW req \in Request, YetToSend(req),
           req.base <= At(req), Send(c, req, WithStatus(req, "SYNCING")),
           UNCHANGED <<version, taken, effects, intents, loose, pass, rebase, mirror>>
    PROVE  Bases'
<1>1. /\ TypeOK /\ call \in [Callers -> CallType]
  BY DEF Inv, TypeOK, EngineTypeOK
<1>2. /\ call' = [call EXCEPT ![c] = [step |-> "sent", req |-> req, seen |-> 0]]
      /\ rows' = WithStatus(req, "SYNCING")
  BY DEF Send
<1>3. Onward /\ SameRepeats
  BY <1>1, OnwardAsTyped DEF SameRepeats
<1>4. RowsCarried /\ NoneLost
  BY <1>1, <1>2, RowsCarriedBy, RowsStay DEF NoneLost, TypeOK, DiskTypeOK
<1>5. RowsHold
  BY <1>3, <1>4, NoneLostHolds
<1>6. RowsReached' /\ MirrorReached'
  BY <1>3, <1>4, <1>5, RowsReachedKept, MirrorReachedKept DEF Bases
<1>7. PassReached'
  <2>1. PassHolds
    BY <1>3, ToDoIsLive, RepeatsSame DEF PassHolds
  <2>2. QED
    BY <1>3, <2>1, PassReachedKept DEF Bases
<1>8. CallsReached
  <2> SUFFICES ASSUME NEW d \in Callers \ {"direct"}, call'[d] # NoCall
               PROVE  \E p \in Request : call'[d].req = p /\ Live(p) /\ p.base <= At(p)
    BY DEF CallsReached
  <2>1. CASE d = c
    BY <1>1, <1>2, <2>1 DEF Live, Ready
  <2>2. CASE d # c
    <3>1. call'[d] = call[d]
      BY <1>1, <1>2, <2>2
    <3>2. call[d].req \in Request /\ Live(call[d].req)
      BY <3>1 DEF Inv, CallsTrue, CallTrue, Genuine, Live, Ready, Held
    <3>3. QED
      BY <3>1, <3>2 DEF Bases, SentReached
  <2>3. QED
    BY <2>1, <2>2
<1>9. SentReached'
  BY <1>3, <1>4, <1>8, SentReachedKept DEF Bases, LooseCarried, HeadsReached
<1>10. QED
  BY <1>6, <1>7, <1>9 DEF Bases

LEMMA SendsKeepBases ==
    ASSUME Inv, Inv', Identities, Bases, PassSends \/ \E r \in Rebases : RebaseSends(r)
    PROVE  Bases'
<1>1. UNCHANGED <<version, taken, effects, intents, loose, pass, rebase, mirror>>
  BY DEF PassSends, RebaseSends, serverVars, screenVars
<1>2. CASE PassSends
  <2>1. PICK e \in pass.todo : /\ \A other \in pass.todo : Before(e, other)
                               /\ Send("pass", e.req, WithStatus(e.req, "SYNCING"))
    BY <1>2 DEF PassSends
  <2>2. e.req \in Request /\ e.req.intent \in Intents /\ "pass" \in Callers /\ YetToSend(e.req)
    BY ToDoIsLive, LiveIsGenuine DEF Callers, YetToSend
  <2>3. ASSUME NEW f \in pass.todo, f.group = e.group, f.req.intent < e.req.intent PROVE FALSE
    <3>1. /\ f.req.intent \in Nat /\ e.req.intent \in Nat /\ e.group \in Nat
      BY <2>2, ToDoIsLive, LiveIsGenuine, IntentsAreNumbers DEF Inv, TypeOK, EngineTypeOK, PassType
    <3>2. Before(e, f)
      BY <2>1
    <3>3. QED
      BY <2>3, <3>1, <3>2 DEF Before
  <2>4. e.req.base <= At(e.req)
    BY <2>3 DEF Bases, PassReached, ToDoReached
  <2>5. QED
    BY <1>1, <2>1, <2>2, <2>4, SendKeepsBases
<1>3. ASSUME NEW r \in Rebases, RebaseSends(r) PROVE Bases'
  <2> PICK req : req = rebase[r].head
    OBVIOUS
  <2>1. /\ rebase[r].phase = "sending" /\ Send(r, req, WithStatus(req, "SYNCING"))
    BY <1>3 DEF RebaseSends
  <2>2. /\ req \in Request /\ YetToSend(req) /\ r \in Callers
    BY <2>1 DEF Inv, RebasesTrue, RebaseTrue, Genuine, YetToSend, Callers
  <2>3. req.base <= At(req)
    BY <2>1 DEF Bases, SentReached
  <2>4. QED
    BY <1>1, <2>1, <2>2, <2>3, SendKeepsBases
<1>4. QED
  BY <1>2, <1>3

(* A request is processed: nothing but the server and its answer change.   *)
LEMMA ProcessedKeepsBases ==
    ASSUME Inv, Inv', Identities, Bases, NEW req \in Request, Held(req), Process(req),
           UNCHANGED <<rows, pass, rebase, intents, mirror>>, loose' \subseteq loose,
           \A c \in Callers : call'[c] # NoCall => call[c] # NoCall /\ call'[c].req = call[c].req
    PROVE  Bases'
<1>1. Live(req) /\ OneBase
  BY DEF Live, Ready, Identities
<1>2. Onward
  BY <1>1, ProcessTakes
<1>3. \A p \in Request : Live(p) /\ ~Repeats(p) => ~Repeats(p)' \/ Overtaken(p)
  BY <1>1, BecomesRepeated DEF Overtaken
<1>4. RowsCarried
  BY DEF RowsCarried
<1>5. RowsHold
  <2> SUFFICES ASSUME NEW p \in Request, InQueue(p), ~Repeats(p)
               PROVE  Holds(p)
    BY DEF RowsHold
  <2>1. InQueue(p)'
    BY DEF InQueue, RequestOf
  <2>2. QED
    BY <1>3, <2>1 DEF Holds, Live
<1>6. RowsReached' /\ MirrorReached'
  BY <1>2, <1>4, <1>5, RowsReachedKept, MirrorReachedKept DEF Bases
<1>7. PassReached'
  <2>1. PassHolds
    BY <1>3, ToDoIsLive DEF PassHolds
  <2>2. QED
    BY <1>2, <2>1, PassReachedKept DEF Bases
<1>8. SentReached'
  <2>1. CallsReached
    BY CallsReachedKept DEF Bases
  <2>2. QED
    BY <1>2, <1>4, <2>1, SentReachedKept DEF Bases, LooseCarried, HeadsReached
<1>9. QED
  BY <1>6, <1>7, <1>8 DEF Bases

LEMMA ServesKeepBases ==
    ASSUME Inv, Inv', Identities, Bases,
           (\E c \in Callers : Serve(c)) \/ (\E req \in loose : ServeLoose(req))
    PROVE  Bases'
<1>1. ASSUME NEW c \in Callers, Serve(c) PROVE Bases'
  <2> PICK req : req = call[c].req
    OBVIOUS
  <2>1. /\ call[c].step = "sent" /\ Process(req)
        /\ \E step, seen : call' = [call EXCEPT ![c].step = step, ![c].seen = seen]
        /\ UNCHANGED <<rows, pass, rebase, intents, mirror, loose>>
    BY <1>1 DEF Serve, diskVars, screenVars
  <2>2. /\ call[c] # NoCall /\ CallTrue(c) /\ req \in Request /\ call \in [Callers -> CallType]
    BY <2>1, CallHasRequest DEF Inv, TypeOK, EngineTypeOK
  <2>3. call[c] \in [step : {"sent", "applied", "conflict", "refused", "cached", "halting"},
                     req : Request, seen : Nat]
    BY <2>2 DEF CallType
  <2>4. Held(req)
    BY <2>2 DEF Held
  <2>5. ASSUME NEW d \in Callers, call'[d] # NoCall
        PROVE  call[d] # NoCall /\ call'[d].req = call[d].req
    <3>1. CASE d = c
      BY <2>1, <2>2, <2>3, <3>1
    <3>2. CASE d # c
      BY <2>1, <2>2, <2>5, <3>2
    <3>3. QED
      BY <3>1, <3>2
  <2>6. QED
    BY <2>1, <2>2, <2>4, <2>5, ProcessedKeepsBases
<1>2. ASSUME NEW req \in loose, ServeLoose(req) PROVE Bases'
  <2>1. /\ Process(req) /\ loose' = loose \ {req}
        /\ UNCHANGED <<rows, pass, rebase, call, intents, mirror>>
    BY <1>2 DEF ServeLoose, diskVars, screenVars, engineVars
  <2>2. req \in Request /\ Held(req)
    BY DEF Inv, TypeOK, ServerTypeOK, Held
  <2>3. QED
    BY <2>1, <2>2, ProcessedKeepsBases
<1>3. QED
  BY <1>1, <1>2

(* The ids of a row and of all it rests on are there, but for the new one. *)
LEMMA ReissueKeepsBases ==
    ASSUME Inv, Inv', Identities, Bases, NEW r \in Rebases, Reissue(r)
    PROVE  Bases'
<1> PICK head, i : head = rebase[r].head /\ i = head.intent
  OBVIOUS
<1>1. /\ UNCHANGED <<version, taken, effects, intents, tried, givenUp, loose, call, pass, mirror>>
      /\ rebase[r].phase = "reissuing" /\ head \in Request /\ Live(head)
      /\ \/ \E new \in Request : Reissues(r, new)
         \/ /\ UNCHANGED <<minted, doubted, rows>>
            /\ rebase' = [rebase EXCEPT ![r].phase = "ending"]
  BY ReissueMints
<1>2. /\ TypeOK /\ rebase \in [Rebases -> RebaseType] /\ rows \in [Intents -> RowType]
      /\ i \in Formed /\ i \in Intents /\ OrderOf(i) \in Orders /\ version[OrderOf(i)] \in Nat
      /\ OrderOf(i) = rebase[r].order /\ rebase[r].version <= version[OrderOf(i)]
      /\ version[OrderOf(i)] > 0 /\ rebase[r].version \in Nat
  <2>1. RebaseTrue(r)
    BY <1>1 DEF Inv, RebasesTrue
  <2>2. QED
    BY <1>1, <2>1, LiveIsGenuine
       DEF RebaseTrue, Inv, TypeOK, EngineTypeOK, DiskTypeOK, ServerTypeOK, RebaseType, At
<1>3. Onward /\ SameRepeats
  BY <1>1, <1>2, OnwardAsTyped DEF SameRepeats
<1>4. PassReached'
  <2>1. PassHolds
    BY <1>1, <1>3, ToDoIsLive, RepeatsSame DEF PassHolds
  <2>2. QED
    BY <1>1, <1>3, <2>1, PassReachedKept DEF Bases
<1>5. CASE /\ UNCHANGED <<minted, doubted, rows>>
           /\ rebase' = [rebase EXCEPT ![r].phase = "ending"]
  <2>1. RowsCarried /\ NoneLost
    BY <1>5 DEF RowsCarried, NoneLost
  <2>2. RowsHold
    BY <1>3, <2>1, NoneLostHolds
  <2>3. RowsReached' /\ MirrorReached'
    BY <1>1, <1>3, <2>1, <2>2, RowsReachedKept, MirrorReachedKept DEF Bases
  <2>4. HeadsReached
    BY <1>2, <1>5 DEF HeadsReached, RebaseType
  <2>5. CallsReached
    BY <1>1, CallsReachedKept DEF Bases
  <2>6. QED
    BY <1>1, <1>3, <1>4, <2>1, <2>3, <2>4, <2>5, SentReachedKept DEF Bases, LooseCarried
<1>6. ASSUME NEW new \in Request, Reissues(r, new) PROVE Bases'
  <2>1. /\ new.intent = i /\ new.k = minted[i] + 1
        /\ new.base = IF KindOf(i) = "create" THEN 0 ELSE rebase[r].version
        /\ rows' = [rows EXCEPT ![i] = [order |-> rebase[r].order, k |-> new.k,
                                        base |-> new.base, status |-> "PENDING"]]
        /\ rebase' = [rebase EXCEPT ![r].phase = "sending", ![r].head = new]
    BY <1>6 DEF Reissues
  <2>2. /\ rows'[i] # NoRow /\ rows'[i].k = new.k /\ rows'[i].base = new.base
        /\ \A j \in Intents : j # i => rows'[j] = rows[j]
    BY <1>2, <2>1 DEF NoRow
  <2>3. new.base \in Nat /\ new.base <= version[OrderOf(i)]
    BY <1>2, <2>1 DEF Request
  <2>4. /\ rebase'[r].phase = "sending" /\ rebase'[r].head = new
        /\ \A s \in Rebases : s # r => rebase'[s] = rebase[s]
    BY <1>2, <2>1 DEF RebaseType
  <2>5. \A j \in Formed : OrderOf(j)' = OrderOf(j)
    BY <1>1 DEF OrderOf
  (* What rests on the row of i rests on the new row, or is reached. *)
  <2>6. ASSUME NEW j \in Intents, NEW base \in Nat, ReachedFrom(base, j)
        PROVE  ReachedFrom(base, j)' \/ (base <= version'[OrderOf(j)])
    <3>1. /\ rows[j] # NoRow /\ ~Repeats(RequestOf(rows, j)) /\ j \in Formed
          /\ base <= Later(rows[j].base, version[OrderOf(j)]) + 1
          /\ rows[j].base \in Nat /\ version[OrderOf(j)] \in Nat
          /\ RequestOf(rows, j) \in Request /\ RequestOf(rows, j).intent = j
      BY <2>6, RowIsLive DEF ReachedFrom
    <3>2. OrderOf(j)' = OrderOf(j)
      BY <2>5, <3>1
    <3>3. CASE j # i
      <4>1. rows'[j] = rows[j] /\ RequestOf(rows', j) = RequestOf(rows, j)
        BY <2>2, <3>3 DEF RequestOf
      <4>2. ~Repeats(RequestOf(rows, j))'
        BY <1>1, <3>1, <4>1 DEF Repeats, RequestOf, OrderOf
      <4>3. QED
        BY <1>1, <3>1, <3>2, <4>1, <4>2 DEF ReachedFrom
    <3>4. CASE j = i
      <4>1. rows[i].base <= version[OrderOf(i)]
        BY <1>1, <3>1, <3>4 DEF Bases, SentReached, At
      <4>2. base <= version[OrderOf(i)] + 1
        BY <3>1, <3>4, <4>1 DEF Later
      <4>3. base <= Later(rows'[i].base, version'[OrderOf(i)]) + 1
        BY <1>1, <1>2, <2>2, <2>3, <4>2 DEF Later
      <4>4. KindOf(i) # "create"
        BY <1>2, <3>1, <3>4 DEF Repeats, KindOf
      <4>5. <<i, new.k>> \notin taken
        BY <1>2, <2>1 DEF Identities, IdsAreMinted, TypeOK, HistoryTypeOK
      <4>6. ~Repeats(RequestOf(rows, i))'
        BY <1>1, <2>2, <4>4, <4>5 DEF Repeats, RequestOf, KindOf
      <4>7. QED
        BY <2>2, <3>2, <3>4, <4>3, <4>6 DEF ReachedFrom
    <3>5. QED
      BY <3>3, <3>4
  <2>7. RowsReached'
    <3> SUFFICES ASSUME NEW j \in Intents, rows'[j] # NoRow
                 PROVE  RowReached(j)'
      BY DEF RowsReached
    <3>1. CASE j = i
      BY <1>1, <1>2, <2>2, <2>3, <2>5, <3>1 DEF RowReached
    <3>2. CASE j # i
      <4> PICK base : base = rows[j].base
        OBVIOUS
      <4>1. /\ rows[j] # NoRow /\ rows'[j].base = base /\ base \in Nat /\ j \in Formed
            /\ OrderOf(j)' = OrderOf(j)
        BY <2>2, <2>5, <3>2, RowIsLive
      <4>2. CASE base <= version[OrderOf(j)]
        BY <1>1, <4>1, <4>2 DEF RowReached
      <4>3. ASSUME NEW l \in Formed, l < j, OrderOf(l) = OrderOf(j), ReachedFrom(base, l)
            PROVE  RowReached(j)'
        <5>1. l \in Intents /\ l \in Formed' /\ OrderOf(l)' = OrderOf(l)
          BY <1>1, <1>2, <2>5, FormedIntents DEF Formed
        <5>2. ReachedFrom(base, l)' \/ base <= version'[OrderOf(l)]
          BY <2>6, <4>1, <4>3, <5>1
        <5>3. QED
          BY <4>1, <4>3, <5>1, <5>2 DEF RowReached, ReachedFrom
      <4>4. QED
        BY <4>1, <4>2, <4>3 DEF Bases, RowsReached, RowReached
    <3>3. QED
      BY <3>1, <3>2
  <2>8. MirrorReached'
    <3> SUFFICES ASSUME NEW j \in Intents, mirror[j] # NoRow
                 PROVE  \/ mirror[j].base < version'[OrderOf(j)]
                        \/ ReachedFrom(mirror[j].base + 1, j)'
      BY <1>1 DEF MirrorReached, OrderOf
    <3> PICK base : base = mirror[j].base + 1
      OBVIOUS
    <3>1. mirror[j].base \in Nat /\ version[OrderOf(j)] \in Nat
      BY MirrorIsFormed
    <3>2. CASE mirror[j].base < version[OrderOf(j)]
      BY <1>1, <3>2
    <3>3. CASE ReachedFrom(base, j)
      <4>1. ReachedFrom(base, j)' \/ (base <= version'[OrderOf(j)])
        BY <2>6, <3>1, <3>3
      <4>2. ReachedFrom(base, j)' => ReachedFrom(mirror[j].base + 1, j)'
        BY <1>1 DEF ReachedFrom
      <4>3. QED
        BY <1>1, <3>1, <4>1, <4>2
    <3>4. QED
      BY <3>2, <3>3 DEF Bases, MirrorReached
  <2>9. SentReached'
    <3>1. \A req \in loose' : Stored(req.intent)' => req.base <= At(req)'
      BY <1>1 DEF Bases, SentReached, Stored, At, OrderOf
    <3>2. \A c \in Callers \ {"direct"} : call'[c] # NoCall => call'[c].req.base <= At(call[c].req)'
      BY <1>1 DEF Bases, SentReached, At, OrderOf
    <3>3. ASSUME NEW s \in Rebases, NEW h, h = rebase'[s].head
          PROVE  /\ rebase'[s].phase = "sending" => h.base <= At(h)'
                 /\ rebase'[s].phase = "reissuing" /\ rows'[h.intent] # NoRow
                    => rows'[h.intent].base <= At(h)'
      <4>0. At(h)' = At(h)
        BY <1>1 DEF At, OrderOf
      <4>1. CASE s = r
        BY <2>1, <2>3, <2>4, <3>3, <4>0, <4>1 DEF At
      <4>2. CASE s # r
        <5>1. rebase[s] = rebase'[s]
          BY <2>4, <4>2
        <5>2. /\ rebase[s].phase = "sending" => h.base <= At(h)
              /\ rebase[s].phase = "reissuing" /\ rows[h.intent] # NoRow
                 => rows[h.intent].base <= At(h)
          BY <3>3, <5>1 DEF Bases, SentReached
        <5>3. rebase'[s].phase = "reissuing" => h.intent \in Intents
          BY <3>3, <5>1 DEF Inv, RebasesTrue, RebaseTrue, Genuine, Request
        <5>4. CASE h.intent = i
          BY <2>2, <2>3, <4>0, <5>1, <5>2, <5>4 DEF At
        <5>5. CASE h.intent # i
          BY <2>2, <4>0, <5>1, <5>2, <5>3, <5>5
        <5>6. QED
          BY <5>4, <5>5
      <4>3. QED
        BY <4>1, <4>2
    <3>4. QED
      BY <3>1, <3>2, <3>3 DEF SentReached
  <2>10. QED
    BY <1>4, <2>7, <2>8, <2>9 DEF Bases
<1>7. QED
  BY <1>1, <1>5, <1>6

(* The version the screen is projected at is one the order has, or gets    *)
(* from the last row.                                                      *)
LEMMA ProjectedReached ==
    ASSUME Inv, MirrorReached, current # NULL
    PROVE  \/ Projected <= version[current]
           \/ \E i \in Formed : OrderOf(i) = current /\ ReachedFrom(Projected, i)
<1> DEFINE queued == Queued(mirror, current)
           last   == CHOOSE i \in queued : \A j \in queued : j <= i
<1>1. shown \in Nat /\ version[current] \in Nat /\ shown <= version[current] /\ queued \subseteq Intents
  BY DEF Inv, TypeOK, ScreenTypeOK, ServerTypeOK, NothingIsAhead, KnownAt, Queued
<1>2. CASE Projected = shown
  BY <1>1, <1>2
<1>3. CASE Projected # shown
  <2>1. queued # {} /\ Projected = mirror[last].base + 1
    BY <1>3 DEF Projected
  <2>2. last \in queued
    BY <1>1, <2>1, GreatestIntent
  <2>3. /\ last \in Intents /\ mirror[last] # NoRow /\ mirror[last].order = current
    BY <2>2 DEF Queued
  <2>4. /\ last \in Formed /\ OrderOf(last) = current /\ mirror[last].base \in Nat
    BY <2>3, MirrorIsFormed
  <2> HIDE DEF last
  <2>5. mirror[last].base < version[OrderOf(last)] \/ ReachedFrom(mirror[last].base + 1, last)
    BY <2>3 DEF MirrorReached
  <2>6. QED
    BY <1>1, <2>1, <2>4, <2>5
<1>4. QED
  BY <1>2, <1>3

(* A new intent is based on what its screen projects. *)
LEMMA StageKeepsBases ==
    ASSUME Inv, Inv', Identities, Bases, NEW o \in Orders, NEW kind \in Kinds, NEW base \in Nat,
           Stage(Identity(o, kind, base)), UNCHANGED <<serverVars, loose, rebase>>,
           kind = "create" => \A j \in Formed : OrderOf(j) # o,
           \/ base <= version[o]
           \/ \E i \in Formed : OrderOf(i) = o /\ ReachedFrom(base, i)
    PROVE  Bases'
<1>1. PICK new \in Request : Forms(new, o, kind) /\ new.base = base
  BY StageMints
<1>2. /\ Onward /\ mirror' = rows'
      /\ UNCHANGED <<version, taken, effects, doubted, givenUp, loose, rebase>>
  BY StageMints
<1> PICK n : n = new.intent
  OBVIOUS
<1>3. /\ n \in Intents /\ n \notin Formed /\ minted[n] = 0 /\ TypeOK
      /\ version \in [Orders -> Nat] /\ rows[n] = NoRow
  BY <1>1 DEF Forms, Request, Identities, IdsAreMinted, Inv, TypeOK, ServerTypeOK
<1>4. /\ Formed' = Formed \cup {n} /\ OrderOf(n)' = o /\ KindOf(n)' = kind
      /\ \A j \in Formed : j < n
      /\ \A j \in Intents : j # n => rows'[j] = rows[j]
      /\ rows'[n] # NoRow => rows'[n] = [order |-> o, k |-> 1, base |-> base, status |-> "PENDING"]
  BY <1>1, <1>3 DEF Forms
<1>5. ASSUME NEW j \in Formed
      PROVE  /\ j \in Intents /\ j # n /\ OrderOf(j)' = OrderOf(j) /\ KindOf(j)' = KindOf(j)
             /\ Stored(j)' = Stored(j) /\ rows'[j] = rows[j] /\ j \in Formed'
             /\ RequestOf(rows', j) = RequestOf(rows, j)
             /\ OrderOf(j) \in Orders
  BY <1>2, <1>3, <1>4, IntentKept, FormedIntents DEF RequestOf
<1>6. ASSUME NEW p \in Request, p.intent \in Formed
      PROVE  (Repeats(p)' <=> Repeats(p)) /\ At(p)' = At(p)
  BY <1>2, <1>5, <1>6 DEF Repeats, At, KindOf
<1>7. ASSUME NEW b \in Nat, NEW j \in Formed, ReachedFrom(b, j)
      PROVE  ReachedFrom(b, j)'
  <2>1. rows[j] # NoRow /\ ~Repeats(RequestOf(rows, j)) /\ j \in Intents
    BY <1>5, <1>7 DEF ReachedFrom
  <2>2. RequestOf(rows, j) \in Request /\ RequestOf(rows, j).intent = j
    BY <2>1, RowIsLive
  <2>3. ~Repeats(RequestOf(rows, j))'
    <3> PICK p : p = RequestOf(rows, j)
      OBVIOUS
    <3>1. ~Repeats(p)' /\ RequestOf(rows', j) = p
      BY <1>5, <1>6, <2>1, <2>2
    <3>2. QED
      BY <3>1 DEF Repeats, RequestOf
  <2>4. QED
    BY <1>2, <1>5, <1>7, <2>1, <2>3 DEF ReachedFrom
<1>8. RowsReached'
  <2> SUFFICES ASSUME NEW j \in Intents, rows'[j] # NoRow
               PROVE  RowReached(j)'
    BY DEF RowsReached
  <2>1. CASE j = n
    <3>1. rows'[j].base = base /\ OrderOf(j)' = o
      BY <1>4, <2>1
    <3>2. CASE base <= version[o]
      BY <1>2, <3>1, <3>2 DEF RowReached
    <3>3. ASSUME NEW i \in Formed, OrderOf(i) = o, ReachedFrom(base, i)
          PROVE  RowReached(j)'
      <4>1. ReachedFrom(base, i)' /\ i \in Formed' /\ i < j /\ OrderOf(i)' = OrderOf(j)'
        BY <1>4, <1>5, <1>7, <2>1, <3>1, <3>3
      <4>2. QED
        BY <3>1, <4>1 DEF RowReached, ReachedFrom
    <3>4. QED
      BY <3>2, <3>3
  <2>2. CASE j # n
    <3> PICK b : b = rows[j].base
      OBVIOUS
    <3>1. rows[j] # NoRow /\ rows'[j].base = b /\ b \in Nat /\ j \in Formed
      BY <1>4, <2>2, RowIsLive
    <3>2. CASE b <= version[OrderOf(j)]
      BY <1>2, <1>5, <3>1, <3>2 DEF RowReached
    <3>3. ASSUME NEW i \in Formed, i < j, OrderOf(i) = OrderOf(j), ReachedFrom(b, i)
          PROVE  RowReached(j)'
      <4>1. ReachedFrom(b, i)' /\ i \in Formed' /\ OrderOf(i)' = OrderOf(j)'
        BY <1>5, <1>7, <3>1, <3>3
      <4>2. QED
        BY <3>1, <3>3, <4>1 DEF RowReached, ReachedFrom
    <3>4. QED
      BY <3>1, <3>2, <3>3 DEF Bases, RowsReached, RowReached
  <2>3. QED
    BY <2>1, <2>2
<1>9. MirrorReached'
  <2> SUFFICES ASSUME NEW j \in Intents, rows'[j] # NoRow
               PROVE  \/ rows'[j].base < version'[OrderOf(j)']
                      \/ ReachedFrom(mirror[j].base + 1, j)'
    BY <1>2 DEF MirrorReached
  <2>1. /\ rows'[j].base \in Nat /\ version'[OrderOf(j)'] \in Nat
    <3>1. TypeOK' /\ j \in Formed' /\ OrderOf(j)' \in Orders /\ rows'[j] \in RowType
      <4>1. j \in Formed' /\ TypeOK'
        BY DEF Inv, RowsTrue, RowTrue
      <4>2. OrderOf(j)' \in Orders
        BY <1>4, <1>5, <4>1
      <4>3. QED
        BY <4>1, <4>2 DEF TypeOK, DiskTypeOK
    <3>2. QED
      BY <1>2, <1>3, <3>1, RowIsThere
  <2>2. ~Repeats(RequestOf(rows, j))' => ReachedFrom(mirror[j].base + 1, j)'
    <3>1. mirror'[j].base + 1 <= Later(rows'[j].base, version'[OrderOf(j)']) + 1
      BY <1>2, <2>1 DEF Later
    <3>2. QED
      BY <3>1 DEF ReachedFrom
  <2>3. CASE j = n
    <3>1. <<n, 1>> \notin taken
      BY <1>3 DEF Identities, IdsAreMinted
    <3>2. kind = "create" => version[o] = 0
      BY <1>3 DEF Inv, EffectsTrue
    <3>3. /\ rows'[j].k = 1 /\ OrderOf(j)' = o /\ KindOf(j)' = kind
      BY <1>4, <2>3
    <3>4. ~Repeats(RequestOf(rows, j))'
      BY <1>2, <2>3, <3>1, <3>2, <3>3 DEF Repeats, RequestOf, KindOf
    <3>5. QED
      BY <2>2, <3>4
  <2>4. CASE j # n
    <3> PICK p : p = RequestOf(rows, j)
      OBVIOUS
    <3>1. /\ rows[j] # NoRow /\ j \in Formed /\ p \in Request /\ Live(p) /\ p.intent = j
          /\ p.base = rows[j].base
      BY <1>4, <2>4, RowIsLive
    <3>2. RequestOf(rows', j) = p /\ rows'[j].base = p.base
      BY <1>5, <3>1
    <3>3. CASE Repeats(p)
      <4>1. p.base < version[OrderOf(j)]
        BY <3>1, <3>3, RepeatsIsBehind DEF Identities, Behind, At
      <4>2. QED
        BY <1>2, <1>5, <3>1, <3>2, <4>1
    <3>4. CASE ~Repeats(p)
      <4>1. ~Repeats(p)'
        BY <1>6, <3>1, <3>4
      <4>2. ~Repeats(RequestOf(rows, j))'
        BY <3>2, <4>1 DEF Repeats, RequestOf
      <4>3. QED
        BY <2>2, <4>2
    <3>5. QED
      BY <3>3, <3>4
  <2>5. QED
    BY <2>3, <2>4
<1>10. PassReached'
  <2>1. CASE pass'.todo = SendList(rows')
    BY <1>8, <2>1, PassReachedListed
  <2>2. CASE pass'.todo = pass.todo
    <3>1. PassHolds
      BY <1>6, <2>2, ToDoIsLive DEF PassHolds
    <3>2. QED
      BY <1>2, <2>2, <3>1, PassReachedKept DEF Bases
  <2>3. pass'.todo \in {pass.todo, SendList(rows')}
    BY <1>1 DEF Forms
  <2>4. QED
    BY <2>1, <2>2, <2>3
<1>11. SentReached'
  <2>1. ASSUME NEW req \in loose', Stored(req.intent)' PROVE req.base <= At(req)'
    <3>1. req \in loose /\ req \in Request /\ req.intent \in Formed
      BY <1>2, <2>1 DEF Inv, LooseTrue, Genuine, Formed
    <3>2. QED
      BY <1>5, <1>6, <2>1, <3>1 DEF Bases, SentReached
  <2>2. ASSUME NEW c \in Callers \ {"direct"}, call'[c] # NoCall, NEW req, req = call'[c].req
        PROVE  req.base <= At(req)'
    <3>1. call'[c] = call[c]
      BY <1>1, <2>2 DEF Forms
    <3>2. req \in Request /\ req.intent \in Formed
      BY <2>2, <3>1 DEF Inv, CallsTrue, CallTrue, Genuine, Formed
    <3>3. req.base <= At(req)
      BY <2>2, <3>1 DEF Bases, SentReached
    <3>4. QED
      BY <1>6, <3>2, <3>3
  <2>3. ASSUME NEW r \in Rebases, NEW head, head = rebase'[r].head
        PROVE  /\ rebase'[r].phase = "sending" => head.base <= At(head)'
               /\ rebase'[r].phase = "reissuing" /\ rows'[head.intent] # NoRow
                  => rows'[head.intent].base <= At(head)'
    <3> SUFFICES ASSUME rebase[r].phase \in {"sending", "reissuing"}
                 PROVE  /\ rebase[r].phase = "sending" => head.base <= At(head)'
                        /\ rebase[r].phase = "reissuing" /\ rows'[head.intent] # NoRow
                           => rows'[head.intent].base <= At(head)'
      BY <1>2
    <3>1. rebase[r].head = head
      BY <1>2, <2>3
    <3>2. head \in Request /\ head.intent \in Formed
      BY <3>1 DEF Inv, RebasesTrue, RebaseTrue, Genuine, Formed
    <3>3. /\ rebase[r].phase = "sending" => head.base <= At(head)
          /\ rebase[r].phase = "reissuing" /\ rows[head.intent] # NoRow
             => rows[head.intent].base <= At(head)
      BY <3>1 DEF Bases, SentReached
    <3>4. QED
      BY <1>5, <1>6, <3>2, <3>3
  <2>4. QED
    BY <2>1, <2>2, <2>3 DEF SentReached
<1>12. QED
  BY <1>8, <1>9, <1>10, <1>11 DEF Bases

LEMMA BasesStep ==
    ASSUME Inv, Inv', Identities, Bases, [Next]_vars
    PROVE  Bases'
<1>1. ASSUME NEW c \in Callers, Attempt(c) \/ Lose(c) PROVE Bases'
  BY <1>1, AttemptsKeepBases, ServesKeepBases DEF Attempt
<1>2. ASSUME NEW req \in loose, ServeLoose(req) PROVE Bases'
  BY <1>2, ServesKeepBases
<1>3. ASSUME NEW o \in Orders, CreateOrder(o) PROVE Bases'
  <2>1. /\ Stage(Identity(o, "create", 0)) /\ UNCHANGED <<serverVars, loose, rebase>>
        /\ \A j \in Formed : OrderOf(j) # o
    BY <1>3 DEF CreateOrder
  <2>2. "create" \in Kinds /\ 0 \in Nat /\ 0 <= version[o]
    BY DEF Kinds, Inv, TypeOK, ServerTypeOK
  <2>3. QED
    BY <2>1, <2>2, StageKeepsBases
<1>4. ASSUME NEW kind \in CommandKinds, Command(kind) PROVE Bases'
  <2>1. /\ Stage(Identity(current, kind, Projected)) /\ UNCHANGED <<serverVars, loose, rebase>>
        /\ current # NULL
    BY <1>4 DEF Command
  <2>2. /\ kind \in Kinds /\ kind # "create" /\ current \in Orders
    BY <2>1 DEF Kinds, CommandKinds, Inv, TypeOK, ScreenTypeOK
  <2>3. Projected \in Nat
    BY ProjectedTyped
  <2>4. \/ Projected <= version[current]
        \/ \E i \in Formed : OrderOf(i) = current /\ ReachedFrom(Projected, i)
    BY <2>1, ProjectedReached DEF Bases
  <2>5. QED
    BY <2>1, <2>2, <2>3, <2>4, StageKeepsBases
<1>5. ASSUME NEW r \in Rebases, RebaseHalted(r) \/ Rebase(r) PROVE Bases'
  BY <1>5, RebaseKeepsBases, ReissueKeepsBases, SendsKeepBases DEF Rebase
<1>6. CASE PassSends
  BY <1>6, SendsKeepBases
<1>7. CASE DiscardHalted
  BY <1>7, DiscardKeepsBases
<1>8. CASE \/ \E o \in Orders : OtherTerminal(o) \/ FocusOrder(o)
           \/ Clear \/ AskOrder \/ TakeOrder \/ Reload \/ Trigger \/ PassEnds \/ Hydrate \/ Visit
           \/ UNCHANGED vars
  BY <1>8, ScreenKeepsBases
<1>9. QED
  BY <1>1, <1>2, <1>3, <1>4, <1>5, <1>6, <1>7, <1>8 DEF Next, Pass

LEMMA OnceInit ==
    ASSUME Init
    PROVE  OnceInv
<1>1. /\ loose = {} /\ taken = {} /\ givenUp = {} /\ tried = {} /\ intents = <<>>
      /\ \A i \in Intents : rows[i] = NoRow /\ mirror[i] = NoRow /\ minted[i] = 0
      /\ \A c \in Callers : call[c] = NoCall
      /\ \A r \in Rebases : rebase[r].phase = "idle"
      /\ pass.todo = {} /\ Formed = {}
  BY DEF Init, IdleRebase, IdlePass, Formed
<1>2. \A req \in Request : ~Live(req) /\ ~Held(req) /\ ~Ready(req)
  BY <1>1 DEF Live, Held, Ready, YetToSend, InQueue
<1>3. Identities
  BY <1>1, <1>2
     DEF Identities, IdsAreMinted, OneBase, TakenIsBehind, AnswersTrue, HeldTried, TakenTried,
         GivenUpGone, DroppedIsBehind, LastIdCounts
<1>4. Bases
  BY <1>1 DEF Bases, RowsReached, MirrorReached, PassReached, SentReached
<1>5. QED
  BY <1>3, <1>4 DEF OnceInv

LEMMA OnceInvariant == Spec => [](Inv /\ OnceInv)
<1>1. Init => OnceInv
  BY OnceInit
<1>2. Inv /\ Inv' /\ OnceInv /\ [Next]_vars => OnceInv'
  BY IdentitiesStep, BasesStep DEF OnceInv, Bases
<1>3. QED
  BY <1>1, <1>2, Invariant, PTL DEF Spec

(* Re-sends are harmless: whatever is lost, retried, read again after a    *)
(* reload or rebased, a mutation takes effect once, unless its id was      *)
(* dropped while it was in doubt (processed_mutations, section 14.2).      *)
THEOREM TwiceOnlyInDoubt == Spec => []DoubledOnlyInDoubt
<1>1. Inv /\ OnceInv => DoubledOnlyInDoubt
  <2> SUFFICES ASSUME Inv, OnceInv, NEW i \in Formed, i \notin doubted
               PROVE  effects[i] <= 1
    <3>1. ASSUME Inv, NEW i \in Formed, effects[i] <= 1 PROVE ~(effects[i] > 1)
      BY <3>1, FormedIntents DEF Inv, TypeOK, HistoryTypeOK
    <3>2. QED
      BY <3>1 DEF DoubledOnlyInDoubt
  <2>1. KindOf(i) \in {"create", "change", "invalid"}
    BY FormedIntents DEF Inv, Kinds, CommandKinds
  <2>2. /\ KindOf(i) = "create" => effects[i] <= 1
        /\ KindOf(i) = "invalid" => effects[i] = 0
        /\ KindOf(i) = "change" => effects[i] <= 1
    BY DEF OnceInv, Identities, LastIdCounts
  <2>3. QED
    BY <2>1, <2>2
<1>2. QED
  BY <1>1, OnceInvariant, PTL

(* What the operator has discarded takes no effect from then on, whatever  *)
(* is still on its way and whoever puts its row back, unless it had been   *)
(* sent, or was about to be, and was not refused.                          *)
LEMMA DiscardedTakesNone ==
    ASSUME Inv, Identities, NEW i \in givenUp \ doubted, [Next]_vars
    PROVE  effects'[i] = effects[i]
<1>1. /\ i \in Formed /\ version[OrderOf(i)] > 0 /\ i \in Intents
      /\ KindOf(i) \in {"create", "change", "invalid"} /\ effects \in [Intents -> Nat]
  BY FormedIntents
     DEF Identities, IdsAreMinted, GivenUpGone, Inv, TypeOK, HistoryTypeOK, Kinds, CommandKinds
<1>2. ASSUME NEW req \in Request, Held(req), Process(req), UNCHANGED intents
      PROVE  effects'[i] = effects[i]
  <2>1. Live(req) /\ Ready(req)
    BY <1>2 DEF Live, Ready
  <2>2. CASE effects' = effects
    BY <2>2
  <2>3. CASE req.intent # i
    BY <1>1, <1>2, <2>1, <2>3, ProcessTakes
  <2>4. CASE effects' # effects /\ req.intent = i
    <3>1. ~Repeats(req) /\ At(req) = req.base /\ KindOf(i) # "invalid"
      BY <1>2, <2>1, <2>4, ProcessTakes
    <3>2. KindOf(i) # "create"
      BY <1>1, <2>4, <3>1 DEF Repeats, KindOf
    <3>3. Behind(req)
      BY <1>1, <2>1, <2>4, <3>1, <3>2 DEF Identities, DroppedIsBehind, Dropped
    <3>4. QED
      BY <2>1, <3>1, <3>3, LiveIsGenuine DEF Behind
  <2>5. QED
    BY <2>2, <2>3, <2>4
<1>3. ASSUME NEW c \in Callers, Serve(c) PROVE effects'[i] = effects[i]
  <2>1. /\ call[c].step = "sent" /\ Process(call[c].req) /\ UNCHANGED intents
    BY <1>3 DEF Serve
  <2>2. /\ call[c] # NoCall /\ call[c].req \in Request
    BY <2>1, CallHasRequest DEF Inv
  <2>3. QED
    BY <1>2, <2>1, <2>2 DEF Held
<1>4. ASSUME NEW req \in loose, ServeLoose(req) PROVE effects'[i] = effects[i]
  <2>1. Process(req) /\ UNCHANGED intents /\ req \in Request /\ Held(req)
    BY <1>4 DEF ServeLoose, Inv, TypeOK, ServerTypeOK, Held
  <2>2. QED
    BY <1>2, <2>1
<1>5. \/ \E c \in Callers : Serve(c)
      \/ \E req \in loose : ServeLoose(req)
      \/ UNCHANGED effects
  BY DEF Next, Attempt, TakeCanonical, DeleteRow, HaltQueue, Lose, OtherTerminal, CreateOrder,
         FocusOrder, Command, Stage, RebaseHalted, Rebase, ReadHead, Reissue, RebaseSends,
         RebaseEnds, Trigger, Pass, PassSends, PassEnds, Hydrate, HydrateReads, HydrateRestores,
         HydratePrunes, Visit, Leave, Detach, OpenAgain, Clear, DiscardHalted, AskOrder,
         TakeOrder, Reload, vars, historyVars
<1>6. QED
  BY <1>3, <1>4, <1>5

(* A discard is final: a mutation the operator gave up takes no effect any *)
(* more, unless it was in doubt then (discardOrderQueue, section 14.2).    *)
THEOREM DiscardHolds == Spec => DiscardIsFinal
<1> DEFINE GivenUpStay == \A i \in givenUp \ doubted : effects'[i] = effects[i]
<1>1. Inv /\ OnceInv /\ [Next]_vars => [GivenUpStay]_vars
  BY DiscardedTakesNone DEF OnceInv
<1>2. DiscardIsFinal <=> [][GivenUpStay]_vars
  BY DEF DiscardIsFinal
<1>3. QED
  BY <1>1, <1>2, OnceInvariant, PTL DEF Spec
=============================================================================
