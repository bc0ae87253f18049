--------------------------- MODULE KitchenCommands ---------------------------
(***************************************************************************)
(* The commands of the kitchen display (stores/kitchen.ts, KitchenView):   *)
(* a command is minted against the ticket on the rail, stored, sent, and   *)
(* kept while its answer is out; the operator retries or discards it; the  *)
(* screen is left, entered and reloaded meanwhile.                         *)
(*                                                                         *)
(* A command is named by its mutation id.  Its base version says what it   *)
(* asks for: START_PREPARING of a ticket at version 1, MARK_READY at 2.    *)
(*                                                                         *)
(* The commands of IndexedDB run in the order they were given, and a       *)
(* discard has nothing after its own: it is one step.                      *)
(***************************************************************************)
EXTENDS LiveRail

CONSTANTS
    MaxCommands,    \* bound on the commands the display mints
    MaxCalls        \* bound on the dispatches running at once

(* A scenario bounds the commands and the calls further, and the visits:   *)
(* the reloads and the times the screen is left.                           *)
ASSUME CommandsAssumption ==
    /\ {MaxCommands, MaxCalls} \subseteq Nat
    /\ \A s \in Scenarios : s.commands <= MaxCommands /\ s.calls <= MaxCalls

Ids   == 1..MaxCommands
Calls == 1..MaxCalls

VARIABLES
    command,        \* per id, its order and base version, or NONE
    pending,        \* pendingByOrder: per order, the id held, or NONE
    disk,           \* pendingMutations: the ids with a row
    call,           \* the dispatches that run
    busy,           \* busyOrders of the mounted screen
    restoring,      \* the rows hydrateCommands has read, or NONE
    visits,
    applied,        \* processed_mutations: the ids the server has applied
    straying,       \* requests still on their way that the display has given up
    unsaved,        \* history: ids whose save failed
    sent, settled   \* history: ids that were posted; whose answer came or that were discarded

displayVars == <<pending, disk, call, busy, restoring>>
commandVars == <<command, displayVars, visits, applied, straying, unsaved, sent, settled>>
vars == <<railVars, commandVars>>

Call == [id: Ids, stage: {"saving", "sending", "answered", "deleting", "loading"},
         answer: {"NONE", "APPLIED", "CONFLICT"}, version: Versions, current: BOOLEAN]

OrderOf(id) == command[id].order

NextStatus == <<"PREPARING", "READY">>

Minted == {id \in Ids : command[id] # NONE}

CommandsInit ==
    /\ RailInit
    /\ command = [id \in Ids |-> NONE]
    /\ pending = [o \in Orders |-> NONE]
    /\ disk = {}
    /\ call = [c \in Calls |-> NONE]
    /\ busy = {}
    /\ restoring = NONE
    /\ visits = 0
    /\ applied = [id \in Ids |-> 0]
    /\ straying = {}
    /\ unsaved = {}
    /\ sent = {}
    /\ settled = {}
-----------------------------------------------------------------------------
(* The buttons of a ticket. *)

OnScreen == link \in {"loading", "down", "connected", "joined"}

(* dispatch() up to its first await. *)
Dispatch(c, id, o) ==
    /\ c <= bound.calls
    /\ call[c] = NONE /\ \A d \in 1..(c - 1) : call[d] # NONE
    /\ pending' = [pending EXCEPT ![o] = id]
    /\ busy' = busy \cup {o}
    /\ call' = [call EXCEPT ![c] =
            [id |-> id, stage |-> "saving", answer |-> "NONE", version |-> 0, current |-> TRUE]]
    /\ UNCHANGED <<railVars, disk, restoring, visits, applied, straying, unsaved, sent, settled>>

Press(c, o) ==
    /\ OnScreen /\ o \notin busy /\ pending[o] = NONE
    /\ shown[o] \in {1, 2}
    /\ events[o][shown[o]] # "CANCELLED"
    /\ \E id \in 1..bound.commands :
        /\ command[id] = NONE /\ \A j \in 1..(id - 1) : command[j] # NONE
        /\ command' = [command EXCEPT ![id] = [order |-> o, base |-> shown[o]]]
        /\ Dispatch(c, id, o)

Retry(c, o) ==
    /\ OnScreen /\ o \notin busy /\ pending[o] # NONE
    /\ Dispatch(c, pending[o], o)
    /\ UNCHANGED command

Discard(o) ==
    /\ OnScreen /\ o \notin busy /\ pending[o] # NONE
    /\ pending' = [pending EXCEPT ![o] = NONE]
    /\ disk' = disk \ {pending[o]}
    /\ settled' = settled \cup {pending[o]}
    /\ UNCHANGED <<railVars, command, call, busy, restoring, visits, applied, straying, unsaved,
                   sent>>
-----------------------------------------------------------------------------
(* dispatch() from there on. *)

At(c, stage) == call[c] # NONE /\ call[c].stage = stage

To(c, stage) == call' = [call EXCEPT ![c].stage = stage]

(* Faulty variant of Released: the mark is cleared after the action, and not when it throws. *)
ReleasedOnReturn(c) == IF At(c, "loading") THEN busy \ {OrderOf(call[c].id)} ELSE busy

(* runFor: the busy mark is the one of the screen that pressed the button. *)
Released(c) == IF call[c].current THEN busy \ {OrderOf(call[c].id)} ELSE busy

(* savePending() stores or fails, and the request goes out either way. *)
Save(c) ==
    /\ At(c, "saving")
    /\ To(c, "sending")
    /\ sent' = sent \cup {call[c].id}
    /\ \/ /\ disk' = disk \cup {call[c].id}
          /\ UNCHANGED <<unsaved, faults>>
       \/ /\ Fault
          /\ unsaved' = unsaved \cup {call[c].id}
          /\ UNCHANGED disk
    /\ UNCHANGED <<serverVars, link, inbox, loaderVars, heard, bound, command, pending, busy, restoring,
                   visits, applied, straying, settled>>

(* The mutation handler takes a command of the version the order has, once. *)
Fits(id) ==
    LET o == OrderOf(id)  base == command[id].base
    IN /\ applied[id] = 0
       /\ Len(events[o]) = base
       /\ IsValidTransition(StatusOf(o), NextStatus[base])

Effect(id) ==
    \/ /\ Fits(id)
       /\ Happens(OrderOf(id), NextStatus[command[id].base])
       /\ applied' = [applied EXCEPT ![id] = command[id].base + 1]
    \/ ~Fits(id) /\ UNCHANGED <<events, applied>>

Process(c) ==
    LET id == call[c].id
    IN /\ At(c, "sending")
       /\ Effect(id)
       /\ call' = [call EXCEPT ![c] = [@ EXCEPT
               !.stage = "answered",
               !.answer = IF applied'[id] # 0 THEN "APPLIED" ELSE "CONFLICT",
               !.version = applied'[id]]]
       /\ UNCHANGED <<projected, marked, handling, link, inbox, loaderVars, heard, faults, bound, command,
                      pending, disk, busy, restoring, visits, straying, unsaved, sent, settled>>

(* A request the display has given up is still served. *)
ProcessStray(id) ==
    /\ id \in straying
    /\ straying' = straying \ {id}
    /\ Effect(id)
    /\ UNCHANGED <<projected, marked, handling, link, inbox, loaderVars, heard, faults, bound, command,
                   displayVars, visits, unsaved, sent, settled>>

(* Faulty variant of Forgotten: a failed request leaves no identity behind. *)
ForgottenOnFailure(c) ==
    /\ pending' = [pending EXCEPT ![OrderOf(call[c].id)] = NONE]
    /\ disk' = disk \ {call[c].id}

(* What a failed request leaves of the identity: all of it. *)
Forgotten(c) == UNCHANGED <<pending, disk>>

(* The request times out, or the answer does not come back. *)
Lose(c) ==
    /\ Fault
    /\ At(c, "sending") \/ At(c, "answered")
    /\ straying' = IF At(c, "sending") THEN straying \cup {call[c].id} ELSE straying
    /\ Forgotten(c)
    /\ call' = [call EXCEPT ![c] = NONE]
    /\ busy' = Released(c)
    /\ UNCHANGED <<serverVars, link, inbox, loaderVars, heard, bound, command, restoring, visits, applied,
                   unsaved, sent, settled>>

(* The slot of the order is emptied, whichever command holds it. *)
Receive(c) ==
    /\ At(c, "answered")
    /\ pending' = [pending EXCEPT ![OrderOf(call[c].id)] = NONE]
    /\ settled' = settled \cup {call[c].id}
    /\ To(c, "deleting")
    /\ UNCHANGED <<railVars, command, disk, busy, restoring, visits, applied, straying, unsaved,
                   sent>>

Delete(c) ==
    /\ At(c, "deleting")
    /\ disk' = disk \ {call[c].id}
    /\ Run(IF call[c].answer = "APPLIED"
           THEN {[order |-> OrderOf(call[c].id), version |-> call[c].version]} ELSE {})
    /\ To(c, "loading")
    /\ UNCHANGED <<serverVars, link, inbox, shown, waived, heard, faults, bound,
                   command, pending, busy, restoring, visits, applied, straying, unsaved, sent,
                   settled>>

Return(c) ==
    /\ At(c, "loading") /\ ~Running
    /\ call' = [call EXCEPT ![c] = NONE]
    /\ busy' = Released(c)
    /\ UNCHANGED <<railVars, command, pending, disk, restoring, visits, applied, straying, unsaved,
                   sent, settled>>
-----------------------------------------------------------------------------
(* The screen. *)

(* hydrateCommands() reads the rows of the rail ... *)
ReadRows ==
    /\ link = "unopened" /\ restoring = NONE
    /\ restoring' = disk
    /\ UNCHANGED <<railVars, command, pending, disk, call, busy, visits, applied, straying, unsaved,
                   sent, settled>>

(* ... and fills the slots that are still empty. *)
Restored(o) ==
    IF pending[o] = NONE /\ \E id \in restoring : OrderOf(id) = o
    THEN {id \in restoring : OrderOf(id) = o}
    ELSE {pending[o]}

Hydrate ==
    /\ link = "unopened" /\ restoring # NONE
    /\ pending' \in {p \in [Orders -> Ids \cup {NONE}] : \A o \in Orders : p[o] \in Restored(o)}
    /\ restoring' = NONE
    /\ Load
    /\ UNCHANGED <<command, disk, call, busy, visits, applied, straying, unsaved, sent, settled>>

Unmounted ==
    /\ visits < bound.visits
    /\ visits' = visits + 1
    /\ OnScreen
    /\ link' = "unopened"
    /\ inbox' = <<>>
    /\ busy' = {}
    /\ restoring' = NONE

(* The screen is left and entered again: the store and its calls live on. *)
Revisit ==
    /\ Unmounted
    /\ call' = [c \in Calls |-> IF call[c] = NONE THEN NONE ELSE [call[c] EXCEPT !.current = FALSE]]
    /\ UNCHANGED <<serverVars, loaderVars, heard, faults, bound, command, pending, disk, applied, straying,
                   unsaved, sent, settled>>

(* The page is reloaded: only the disk and what is on its way are left. *)
Reload ==
    /\ Unmounted
    /\ straying' = straying \cup {call[c].id : c \in {d \in Calls : At(d, "sending")}}
    /\ call' = [c \in Calls |-> NONE]
    /\ pending' = [o \in Orders |-> NONE]
    /\ shown' = [o \in Orders |-> 0]
    /\ round' = [k \in Loops |-> NONE]
    /\ queued' = {} /\ again' = FALSE
    /\ heard' = [o \in Orders |-> 0]
    /\ waived' = [o \in Orders |-> 0]
    /\ UNCHANGED <<serverVars, faults, bound, command, disk, applied, unsaved, sent, settled>>
-----------------------------------------------------------------------------
RailStep == (ServerStep \/ LoaderStep \/ SocketStep) /\ UNCHANGED commandVars

CallStep(c) == Process(c) \/ Receive(c) \/ Delete(c) \/ Return(c)

CommandsNext ==
    \/ RailStep
    \/ RailFault /\ UNCHANGED commandVars
    \/ (\E o \in Orders, s \in Statuses : Advance(o, s)) /\ UNCHANGED commandVars
    \/ \E c \in Calls :
        \/ \E o \in Orders : Press(c, o) \/ Retry(c, o)
        \/ Save(c) \/ CallStep(c) \/ Lose(c)
    \/ \E o \in Orders : Discard(o)
    \/ \E id \in Ids : ProcessStray(id)
    \/ ReadRows \/ Hydrate \/ Revisit \/ Reload

(* The consumers, the API and the loader go on; sockets reconnect. *)
Fairness ==
    /\ \A o \in Orders : WF_vars(Project(o) /\ UNCHANGED commandVars)
    /\ WF_vars((\E i \in Instances : Emit(i) \/ \E o \in Orders : Mark(i, o)) /\ UNCHANGED commandVars)
    /\ WF_vars(LoaderStep /\ UNCHANGED commandVars)
    /\ WF_vars(SocketStep /\ UNCHANGED commandVars)
    /\ \A c \in Calls : WF_vars(Save(c)) /\ WF_vars(CallStep(c))
    /\ WF_vars(ReadRows \/ Hydrate)

CommandsSpec == CommandsInit /\ [][CommandsNext]_vars /\ Fairness
-----------------------------------------------------------------------------
CommandsTypeOK ==
    /\ RailTypeOK
    /\ command \in [Ids -> [order: Orders, base: {1, 2}] \cup {NONE}]
    /\ pending \in [Orders -> Ids \cup {NONE}]
    /\ {disk, straying, unsaved, sent, settled} \subseteq SUBSET Ids
    /\ call \in [Calls -> Call \cup {NONE}]
    /\ busy \subseteq Orders
    /\ restoring \in (SUBSET Ids) \cup {NONE}
    /\ applied \in [Ids -> Versions]

(* A list that is replaced wholesale never takes a ticket back: no read    *)
(* lands after one that saw more (coalescing-loader.ts).                   *)
RailNeverMovesBack ==
    [][\A o \in Orders : shown'[o] < shown[o] => Reload]_vars

(* Every event the gate let through is on the rail in the end, unless its  *)
(* round gave up on it: the gate has spent its only hint, so nothing would *)
(* come to correct it (coalescing-loader.ts, kitchen.ts expectationFor).   *)
HeardIsShown ==
    <>[](\A o \in Orders : shown[o] >= heard[o] \/ waived[o] >= heard[o])

(* A command without an answer that was not discarded can still be retried *)
(* under its own id: it is on the card, or it is on the disk, through any  *)
(* reload, late answer and second command (kitchen.ts dispatch).           *)
UnansweredIsKept ==
    \A id \in sent \ settled :
        pending[OrderOf(id)] = id \/ id \in disk \/ id \in unsaved

(* A ticket is never blocked for good: whatever is lost, its buttons come  *)
(* back when the dispatch and the reads it waits for are over              *)
(* (KitchenView.vue runFor).                                               *)
TicketIsUsable == []<>(busy = {})

(* The display has at most one command of an order in doubt: the next is   *)
(* not offered before the last is answered or discarded (KitchenView.vue   *)
(* onMounted: pressing the button again "would mint a second mutationId    *)
(* for a command that may already have applied").                          *)
OneInDoubt ==
    \A i, j \in (sent \ settled) \ unsaved : OrderOf(i) = OrderOf(j) => i = j
=============================================================================
