----------------------------- MODULE ConflictLog -----------------------------
(***************************************************************************)
(* The conflict_log of the server and the reports that close its rows: a   *)
(* conflict writes a row (mutation-handler.ts), a Discard or a Rebase at   *)
(* the terminal reports the mutations that left its queue (order.ts), and  *)
(* the report, sent by nobody who waits for it, closes their rows whenever *)
(* it arrives (record-conflict-resolution.ts).  The terminal is that of    *)
(* TerminalSync; nothing it does depends on the log.                       *)
(*                                                                         *)
(* A row is known by its mutation id; that a repeated request can leave    *)
(* two rows of one id makes no difference to which are open.               *)
(***************************************************************************)
EXTENDS TerminalSync

VARIABLES
    unresolved,     \* mutations with a row whose resolution is null
    resolved,       \* mutations a report has closed a row of
    held,           \* what the queue held of the order when a rebase began
    reports,        \* reports on their way, each a set of mutations
    blind           \* history: mutations reported with no screen open

logVars == <<unresolved, resolved, held, reports, blind>>

(* queuedIdsFor *)
QueuedIds(q, o) == {<<i, q[i].k>> : i \in Queued(q, o)}

LogInit ==
    /\ unresolved = {} /\ resolved = {}
    /\ held = [r \in Rebases |-> {}]
    /\ reports = {} /\ blind = {}

(* recordConflict: the insert is the last write of a refused mutation.     *)
Logged(req) ==
    unresolved' = IF Answer(req) = "conflict" THEN unresolved \cup {<<req.intent, req.k>>}
                  ELSE unresolved

ServeLogged(c) ==
    /\ Serve(c) /\ Logged(call[c].req)
    /\ UNCHANGED <<resolved, held, reports, blind>>

ServeLooseLogged(req) ==
    /\ ServeLoose(req) /\ Logged(req)
    /\ UNCHANGED <<resolved, held, reports, blind>>

(* Faulty variant of Cleared: all that was held is reported. *)
AllCleared(before, o) == before

(* reportResolution: what was held and is not in the mirror any more.      *)
Cleared(before, o) == before \ QueuedIds(mirror', o)

(* The report may never leave: the terminal is offline, or the network is. *)
Report(ids) ==
    \/ /\ ids # {}
       /\ reports' = reports \cup {ids}
       /\ blind' = IF visit.open THEN blind ELSE blind \cup ids
    \/ UNCHANGED <<reports, blind>>

DiscardReported ==
    /\ DiscardHalted
    /\ Report(Cleared(QueuedIds(mirror, current), current))
    /\ UNCHANGED <<unresolved, resolved, held>>

RebaseHeld(r) ==
    /\ RebaseHalted(r)
    /\ held' = [held EXCEPT ![r] = QueuedIds(mirror, current)]
    /\ UNCHANGED <<unresolved, resolved, reports, blind>>

RebaseReported(r) ==
    /\ RebaseEnds(r)
    /\ Report(Cleared(held[r], rebase[r].order))
    /\ held' = [held EXCEPT ![r] = {}]
    /\ UNCHANGED <<unresolved, resolved>>

(* Faulty variant of Closes: the order is looked at, the ids are not. *)
ClosesOrder(ids) == {m \in unresolved : \E n \in ids : OrderOf(m[1]) = OrderOf(n[1])}

(* recordConflictResolution *)
Closes(ids) == unresolved \cap ids

Record(ids) ==
    /\ ids \in reports
    /\ unresolved' = unresolved \ Closes(ids)
    /\ resolved' = resolved \cup Closes(ids)
    /\ reports' = reports \ {ids}
    /\ UNCHANGED <<held, blind, vars>>

ReloadUnreported ==
    /\ Reload
    /\ held' = [r \in Rebases |-> {}]
    /\ UNCHANGED <<unresolved, resolved, reports, blind>>

(* Everything the log hears nothing of. *)
Unlogged ==
    \/ \E c \in Callers : TakeCanonical(c) \/ DeleteRow(c) \/ HaltQueue(c) \/ Lose(c)
    \/ \E o \in Orders : OtherTerminal(o) \/ CreateOrder(o) \/ FocusOrder(o)
    \/ \E kind \in CommandKinds : Command(kind)
    \/ \E r \in Rebases : ReadHead(r) \/ Reissue(r) \/ RebaseSends(r)
    \/ Trigger \/ Pass \/ Hydrate \/ Visit \/ Clear \/ AskOrder \/ TakeOrder

LogNext ==
    \/ \E c \in Callers : ServeLogged(c)
    \/ \E req \in loose : ServeLooseLogged(req)
    \/ \E r \in Rebases : RebaseHeld(r) \/ RebaseReported(r)
    \/ DiscardReported \/ ReloadUnreported
    \/ \E ids \in reports : Record(ids)
    \/ Unlogged /\ UNCHANGED logVars

LogSpec == Init /\ LogInit /\ [][LogNext]_<<vars, logVars>>
----------------------------------------------------------------------------
(* Properties *)

StillQueued(m) == rows[m[1]].k = m[2]

(* The comment on reportResolution, as the code has it: a row is never     *)
(* closed over a mutation that is still in the queue - not over the fresh  *)
(* conflict of a rebase, not after a Discard or a reissue that failed -    *)
(* however late the report arrives.  Excepted is a rebase that ended with  *)
(* the screen closed, see NeverClosedEarly.                                *)
ClosedHasLeft == \A m \in resolved \ blind : ~StillQueued(m)

(* The comment on reportResolution: an attempt that changed nothing sends  *)
(* nothing rather than closing a row over a queue that is still halted.    *)
NeverClosedEarly == \A m \in resolved : ~StillQueued(m)
=============================================================================
