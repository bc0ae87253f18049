--------------------------- MODULE PrintPipeline ---------------------------
(***************************************************************************)
(* Printing kitchen tickets: processPrintJob, the print queue, the         *)
(* reconciliation sweep and the manual retry of apps/worker/src/modules/   *)
(* printing, and the fake printer of apps/api/src/modules/printer.         *)
(*                                                                         *)
(* Tickets come from TicketBoard, which KitchenProjection implements.  The *)
(* lines of an order are frozen when it is sent to the kitchen, so its     *)
(* ticket has one hash: an order stands for its print_jobs row, its BullMQ *)
(* job id and its idempotency key.                                         *)
(***************************************************************************)
EXTENDS Naturals, FiniteSets

CONSTANTS
    Orders,
    Workers,        \* worker processes, each with one print worker and one sweep
    MaxAttempts,    \* PRINT_MAX_ATTEMPTS, of the row and of the BullMQ job alike
    MaxFaults,      \* bound on crashes, lost jobs, lost answers, switches, ...
    NULL            \* no order, no worker

ASSUME ConstantsAssumption ==
    /\ MaxAttempts \in Nat \ {0} /\ MaxFaults \in Nat
    /\ NULL \notin Orders \cup Workers

VARIABLES
    ticket, announcing,     \* kitchen_tickets and its consumer, see TicketBoard
    job,            \* table print_jobs: per order its state and attempt_count
    stale,          \* orders whose row was last updated before PRINT_STALE_MS
    queued,         \* BullMQ: where the job of each order is
    tries,          \* BullMQ: attemptsMade of each job
    holder,         \* BullMQ: the worker with the lock of an active job
    drifting,       \* adds nobody waits for any more, which may still land
    pc,             \* where each print worker is in processPrintJob
    cur,            \* the order it prints
    attempt,        \* the number of its attempt, from the row as it read it
    todo,           \* orders a sweep found and has not enqueued yet
    retrying,       \* orders a manual retry has reset and not enqueued yet
    failing,        \* the switch Fail Printer
    ledger,         \* the keys the printer remembers
    loose,          \* print requests given up, which may still arrive
    paper,          \* history: tickets that came out, per order
    restarts,       \* history: how often the printer forgot its ledger
    faults          \* faults so far

boardVars  == <<ticket, announcing>>
rowVars    == <<job, stale>>
queueVars  == <<queued, tries, holder, drifting>>
workerVars == <<pc, cur, attempt>>
deviceVars == <<failing, ledger, loose, paper, restarts>>
vars == <<boardVars, rowVars, queueVars, workerVars, todo, retrying, deviceVars, faults>>

Board == INSTANCE TicketBoard

NoRow == [state |-> "none", attempts |-> 0]

Settled(o) == job[o].state \in {"PRINTED", "DEAD_LETTER"}

Fault ==
    /\ faults < MaxFaults
    /\ faults' = faults + 1

(* UPDATE print_jobs, which sets updated_at = now(). *)
SetRow(o, state, count) ==
    /\ job' = [job EXCEPT ![o] = [state |-> state, attempts |-> count]]
    /\ stale' = stale \ {o}

----------------------------------------------------------------------------
(* The queue *)

(* BullMQ's add: a job that exists absorbs it. *)
AddJob(o) ==
    /\ queued' = [queued EXCEPT ![o] = IF @ = "absent" THEN "waiting" ELSE @]
    /\ UNCHANGED <<tries, holder>>

(* enqueueWithin: the client is not ready, or the add is rejected; or it   *)
(* overruns, and may land later.                                           *)
EnqueueFails(o) ==
    /\ Fault
    /\ \/ UNCHANGED drifting
       \/ drifting' = drifting \cup {o}
    /\ UNCHANGED <<queued, tries, holder>>

EnqueueLands(o) ==
    /\ AddJob(o)
    /\ UNCHANGED <<drifting, faults>>

LandDrifting(o) ==
    /\ o \in drifting
    /\ AddJob(o)
    /\ drifting' = drifting \ {o}
    /\ UNCHANGED <<boardVars, rowVars, workerVars, todo, retrying, deviceVars, faults>>

RemoveJob(o) ==
    /\ queued' = [queued EXCEPT ![o] = "absent"]
    /\ tries' = [tries EXCEPT ![o] = 0]
    /\ holder' = [holder EXCEPT ![o] = NULL]

BackoffElapses(o) ==
    /\ queued[o] = "delayed"
    /\ queued' = [queued EXCEPT ![o] = "waiting"]
    /\ UNCHANGED <<boardVars, rowVars, tries, holder, drifting, workerVars, todo, retrying,
                   deviceVars, faults>>

(* BullMQ's stalled check takes a job without a living lock away: it goes  *)
(* to the next worker, or is failed, and removed, if it stalled before.  A *)
(* process that is merely slow loses its lock and runs on.                 *)
Stall(o) ==
    /\ queued[o] = "active"
    /\ IF cur[holder[o]] = o THEN Fault ELSE UNCHANGED faults
    /\ \/ /\ queued' = [queued EXCEPT ![o] = "waiting"]
          /\ holder' = [holder EXCEPT ![o] = NULL]
          /\ UNCHANGED tries
       \/ RemoveJob(o)
    /\ UNCHANGED <<boardVars, rowVars, drifting, workerVars, todo, retrying, deviceVars>>

(* Redis comes back without its keys. *)
QueueLost ==
    /\ Fault
    /\ queued' = [o \in Orders |-> "absent"]
    /\ tries' = [o \in Orders |-> 0]
    /\ holder' = [o \in Orders |-> NULL]
    /\ UNCHANGED <<boardVars, rowVars, drifting, workerVars, todo, retrying, deviceVars>>

----------------------------------------------------------------------------
(* Who enqueues: the kitchen consumer, the sweep, a human *)

CreateTicket(o) ==
    /\ Board!Create(o)
    /\ UNCHANGED <<rowVars, queueVars, workerVars, todo, retrying, deviceVars, faults>>

CancelTicket(o) ==
    /\ Board!Cancel(o)
    /\ UNCHANGED <<rowVars, queueVars, workerVars, todo, retrying, deviceVars, faults>>

(* enqueueTicket; a crash before it is one way to fail. *)
Announce(o) ==
    /\ Board!Announced(o)
    /\ EnqueueLands(o) \/ EnqueueFails(o)
    /\ UNCHANGED <<rowVars, workerVars, todo, retrying, deviceVars>>

(* Faulty variant of Orphan: rows that went quiet are not looked for. *)
OrphanUntried(o) ==
    ticket[o] = "live" /\ job[o] = NoRow

(* What reconcilePrintJobs looks for. *)
Orphan(o) ==
    /\ ticket[o] = "live"
    /\ job[o] = NoRow \/ (job[o].state \in {"PENDING", "FAILED"} /\ o \in stale)

Sweep(w) ==
    /\ todo[w] = {}
    /\ \E o \in Orders : Orphan(o)
    /\ todo' = [todo EXCEPT ![w] = {o \in Orders : Orphan(o)}]
    /\ UNCHANGED <<boardVars, rowVars, queueVars, workerVars, retrying, deviceVars, faults>>

(* A failed enqueue ends the pass. *)
SweepEnqueue(w) ==
    /\ \E o \in todo[w] :
        \/ EnqueueLands(o) /\ todo' = [todo EXCEPT ![w] = @ \ {o}]
        \/ EnqueueFails(o) /\ todo' = [todo EXCEPT ![w] = {}]
    /\ UNCHANGED <<boardVars, rowVars, workerVars, retrying, deviceVars>>

(* Faulty variant of ManualReset: the count is kept. *)
ManualResetCounting(o) ==
    /\ job[o].state = "DEAD_LETTER"
    /\ Fault
    /\ SetRow(o, "PENDING", job[o].attempts)
    /\ retrying' = retrying \cup {o}
    /\ UNCHANGED <<boardVars, queueVars, workerVars, todo, deviceVars>>

(* resetDeadLetteredJob, guarded on the state. *)
ManualReset(o) ==
    /\ job[o].state = "DEAD_LETTER"
    /\ Fault
    /\ SetRow(o, "PENDING", 0)
    /\ retrying' = retrying \cup {o}
    /\ UNCHANGED <<boardVars, queueVars, workerVars, todo, deviceVars>>

(* The second half of retryDeadLetteredTicket. *)
RetryEnqueue(o) ==
    /\ o \in retrying
    /\ retrying' = retrying \ {o}
    /\ EnqueueLands(o) \/ EnqueueFails(o)
    /\ UNCHANGED <<boardVars, rowVars, workerVars, todo, deviceVars>>

RowGoesStale(o) ==
    /\ job[o].state \in {"PENDING", "FAILED"} /\ o \notin stale
    /\ stale' = stale \cup {o}
    /\ UNCHANGED <<boardVars, job, queueVars, workerVars, todo, retrying, deviceVars, faults>>

----------------------------------------------------------------------------
(* processPrintJob *)

Goto(w, step) ==
    /\ pc' = [pc EXCEPT ![w] = step]
    /\ UNCHANGED <<cur, attempt>>

Stop(w) ==
    /\ pc' = [pc EXCEPT ![w] = "idle"]
    /\ cur' = [cur EXCEPT ![w] = NULL]
    /\ attempt' = [attempt EXCEPT ![w] = 0]

Take(w, o) ==
    /\ pc[w] = "idle" /\ queued[o] = "waiting"
    /\ queued' = [queued EXCEPT ![o] = "active"]
    /\ holder' = [holder EXCEPT ![o] = w]
    /\ pc' = [pc EXCEPT ![w] = "reading"]
    /\ cur' = [cur EXCEPT ![w] = o]
    /\ UNCHANGED <<boardVars, rowVars, tries, drifting, attempt, todo, retrying, deviceVars, faults>>

(* The row is created, or read if it exists, and decides what happens.     *)
(* Nobody deletes rows, so the two statements are one step.                *)
OpenRow(w) ==
    LET o == cur[w] IN
    /\ pc[w] = "reading"
    /\ \/ Settled(o) /\ Goto(w, "returning")
       \/ /\ ~Settled(o)
          /\ pc' = [pc EXCEPT ![w] = "printing"]
          /\ attempt' = [attempt EXCEPT ![w] = job[o].attempts + 1]
          /\ UNCHANGED cur
    /\ IF job[o] = NoRow THEN SetRow(o, "PENDING", 0) ELSE UNCHANGED rowVars
    /\ UNCHANGED <<boardVars, queueVars, todo, retrying, deviceVars, faults>>

(* Faulty variant of Accept: the key is not looked up. *)
AcceptAlways(o) ==
    /\ ledger' = ledger \cup {o}
    /\ paper' = [paper EXCEPT ![o] = @ + 1]

(* The printer emits a ticket for a key it does not remember. *)
Accept(o) ==
    /\ ledger' = ledger \cup {o}
    /\ paper' = [paper EXCEPT ![o] = IF o \in ledger THEN @ ELSE @ + 1]

Emit(w) ==
    /\ pc[w] = "printing" /\ ~failing
    /\ Accept(cur[w])
    /\ Goto(w, "printed")
    /\ UNCHANGED <<boardVars, rowVars, queueVars, todo, retrying, failing, loose, restarts, faults>>

PrinterOffline(w) ==
    /\ pc[w] = "printing" /\ failing
    /\ Goto(w, "failed")
    /\ UNCHANGED <<boardVars, rowVars, queueVars, todo, retrying, deviceVars, faults>>

(* The answer does not come in time: the ticket is out. *)
AnswerLost(w) ==
    /\ pc[w] = "printed"
    /\ Fault
    /\ Goto(w, "failed")
    /\ UNCHANGED <<boardVars, rowVars, queueVars, todo, retrying, deviceVars>>

(* The request is aborted before the printer has read it. *)
RequestLost(w) ==
    /\ pc[w] = "printing"
    /\ Fault
    /\ loose' = loose \cup {cur[w]}
    /\ Goto(w, "failed")
    /\ UNCHANGED <<boardVars, rowVars, queueVars, todo, retrying, failing, ledger, paper, restarts>>

LateRequest(o) ==
    /\ o \in loose /\ ~failing
    /\ loose' = loose \ {o}
    /\ Accept(o)
    /\ UNCHANGED <<boardVars, rowVars, queueVars, workerVars, todo, retrying, failing, restarts, faults>>

(* Faulty variant of RecordPrinted: a failure is taken for a success. *)
RecordPrintedAnyway(w) ==
    /\ pc[w] \in {"printed", "failed"}
    /\ SetRow(cur[w], "PRINTED", attempt[w])
    /\ Goto(w, "returning")
    /\ UNCHANGED <<boardVars, queueVars, todo, retrying, deviceVars, faults>>

(* Neither update looks at the state the row is in by now. *)
RecordPrinted(w) ==
    /\ pc[w] = "printed"
    /\ SetRow(cur[w], "PRINTED", attempt[w])
    /\ Goto(w, "returning")
    /\ UNCHANGED <<boardVars, queueVars, todo, retrying, deviceVars, faults>>

(* Faulty variant of FailureState: off by one. *)
FailureStateLate(count) == IF count > MaxAttempts THEN "DEAD_LETTER" ELSE "FAILED"

FailureState(count) == IF count >= MaxAttempts THEN "DEAD_LETTER" ELSE "FAILED"

RecordFailure(w) ==
    /\ pc[w] = "failed"
    /\ SetRow(cur[w], FailureState(attempt[w]), attempt[w])
    /\ Goto(w, "throwing")
    /\ UNCHANGED <<boardVars, queueVars, todo, retrying, deviceVars, faults>>

(* A statement of processPrintJob fails, and it throws. *)
StatementFails(w) ==
    /\ pc[w] \in {"reading", "printed", "failed"}
    /\ Fault
    /\ Goto(w, "throwing")
    /\ UNCHANGED <<boardVars, rowVars, queueVars, todo, retrying, deviceVars>>

(* removeOnComplete; a worker that lost the lock changes nothing. *)
Complete(w) ==
    /\ pc[w] = "returning"
    /\ IF holder[cur[w]] = w THEN RemoveJob(cur[w]) ELSE UNCHANGED <<queued, tries, holder>>
    /\ Stop(w)
    /\ UNCHANGED <<boardVars, rowVars, drifting, todo, retrying, deviceVars, faults>>

(* The job is delayed for its backoff, or removed (removeOnFail). *)
FailJob(w) ==
    LET o == cur[w] IN
    /\ pc[w] = "throwing"
    /\ \/ /\ holder[o] # w
          /\ UNCHANGED <<queued, tries, holder>>
       \/ /\ holder[o] = w /\ tries[o] + 1 >= MaxAttempts
          /\ RemoveJob(o)
       \/ /\ holder[o] = w /\ tries[o] + 1 < MaxAttempts
          /\ queued' = [queued EXCEPT ![o] = "delayed"]
          /\ tries' = [tries EXCEPT ![o] = @ + 1]
          /\ holder' = [holder EXCEPT ![o] = NULL]
    /\ Stop(w)
    /\ UNCHANGED <<boardVars, rowVars, drifting, todo, retrying, deviceVars, faults>>

(* The process dies with its print worker and its sweep. *)
Crash(w) ==
    /\ pc[w] # "idle" \/ todo[w] # {}
    /\ Fault
    /\ Stop(w)
    /\ todo' = [todo EXCEPT ![w] = {}]
    /\ UNCHANGED <<boardVars, rowVars, queueVars, retrying, deviceVars>>

SetFailing ==
    /\ Fault
    /\ failing' = ~failing
    /\ UNCHANGED <<boardVars, rowVars, queueVars, workerVars, todo, retrying, ledger, loose, paper,
                   restarts>>

(* The API restarts, and the ledger with it; an eviction forgets less. *)
PrinterRestarts ==
    /\ Fault
    /\ ledger' = {}
    /\ restarts' = restarts + 1
    /\ UNCHANGED <<boardVars, rowVars, queueVars, workerVars, todo, retrying, failing, loose, paper>>

----------------------------------------------------------------------------
Init ==
    /\ Board!Init
    /\ job = [o \in Orders |-> NoRow] /\ stale = {}
    /\ queued = [o \in Orders |-> "absent"] /\ tries = [o \in Orders |-> 0]
    /\ holder = [o \in Orders |-> NULL] /\ drifting = {}
    /\ pc = [w \in Workers |-> "idle"]
    /\ cur = [w \in Workers |-> NULL]
    /\ attempt = [w \in Workers |-> 0]
    /\ todo = [w \in Workers |-> {}]
    /\ retrying = {}
    /\ failing \in BOOLEAN
    /\ ledger = {} /\ loose = {} /\ restarts = 0
    /\ paper = [o \in Orders |-> 0]
    /\ faults = 0

ProcessStep(w) ==
    \/ \E o \in Orders : Take(w, o)
    \/ OpenRow(w) \/ Emit(w) \/ PrinterOffline(w)
    \/ RecordPrinted(w) \/ RecordFailure(w) \/ Complete(w) \/ FailJob(w)

EnqueueStep(o) == Announce(o) \/ RetryEnqueue(o)

SweepStep(w) == Sweep(w) \/ SweepEnqueue(w)

TimeStep(o) == BackoffElapses(o) \/ Stall(o)

Next ==
    \/ \E o \in Orders :
        \/ CreateTicket(o) \/ CancelTicket(o)
        \/ EnqueueStep(o) \/ ManualReset(o) \/ LandDrifting(o)
        \/ TimeStep(o) \/ RowGoesStale(o) \/ LateRequest(o)
    \/ \E w \in Workers :
        \/ ProcessStep(w) \/ SweepStep(w)
        \/ AnswerLost(w) \/ RequestLost(w) \/ StatementFails(w) \/ Crash(w)
    \/ QueueLost \/ SetFailing \/ PrinterRestarts

Spec == Init /\ [][Next]_vars

(* Processes run on, sweeps repeat, backoffs and stalled checks come due,  *)
(* rows grow old. An enqueue fails only by a fault.                        *)
Fairness ==
    /\ \A w \in Workers : WF_vars(ProcessStep(w)) /\ WF_vars(SweepStep(w))
    /\ \A o \in Orders : WF_vars(EnqueueStep(o)) /\ WF_vars(TimeStep(o)) /\ WF_vars(RowGoesStale(o))

FairSpec == Spec /\ Fairness
----------------------------------------------------------------------------
(* Properties *)

TypeOK ==
    /\ job \in [Orders -> [state : {"none", "PENDING", "FAILED", "PRINTED", "DEAD_LETTER"},
                           attempts : 0 .. MaxAttempts]]
    /\ stale \subseteq Orders /\ drifting \subseteq Orders /\ retrying \subseteq Orders
    /\ queued \in [Orders -> {"absent", "waiting", "delayed", "active"}]
    /\ tries \in [Orders -> 0 .. MaxAttempts]
    /\ holder \in [Orders -> Workers \cup {NULL}]
    /\ \A o \in Orders : holder[o] # NULL <=> queued[o] = "active"
    /\ pc \in [Workers -> {"idle", "reading", "printing", "printed", "failed", "returning",
                           "throwing"}]
    /\ cur \in [Workers -> Orders \cup {NULL}]
    /\ \A w \in Workers : cur[w] = NULL <=> pc[w] = "idle"
    /\ attempt \in [Workers -> 0 .. MaxAttempts]
    /\ todo \in [Workers -> SUBSET Orders]
    /\ failing \in BOOLEAN /\ ledger \subseteq Orders /\ loose \subseteq Orders
    /\ paper \in [Orders -> Nat] /\ restarts \in Nat

(* A row that says PRINTED is true of the paper: no crash, lost answer,    *)
(* stalled job or second worker marks a ticket that never came out.        *)
PrintedIsOut == \A o \in Orders : job[o].state = "PRINTED" => paper[o] >= 1

(* A ticket comes out twice only if the printer lost its memory in         *)
(* between: the record and the idempotency key absorb every other retry.   *)
PaperIsBounded == \A o \in Orders : paper[o] <= 1 + restarts

(* The ceiling decides, whoever else writes the row: a row that may be     *)
(* tried again has attempts left (recordFailure, resetDeadLetteredJob).    *)
RetryableHasAttemptsLeft ==
    \A o \in Orders : job[o].state \in {"PENDING", "FAILED"} => job[o].attempts < MaxAttempts

(* "A missing ticket loses an order": every ticket that is not cancelled   *)
(* ends up printed or visibly dead lettered, and stays so, through lost    *)
(* enqueues, lost queues, crashes, stalls and manual retries.              *)
TicketsSettle ==
    \A o \in Orders : <>[](ticket[o] = "live" => Settled(o))

(* Reaching the ceiling "moves the row to DEAD_LETTER, which only a human  *)
(* undoes", and "a stray retry must not resurrect it" (processPrintJob);   *)
(* that a ticket did come out after all is not held against it here.       *)
OnlyHumansUndoDeadLetters ==
    [][\A o \in Orders :
        job[o].state = "DEAD_LETTER" /\ job'[o].state \in {"PENDING", "FAILED"} =>
            o \in retrying' \ retrying]_vars
=============================================================================
