------------------------ MODULE PrintPipeline_proofs ------------------------
(***************************************************************************)
(* Theorems about PrintPipeline, for any number of orders and workers, any *)
(* ceiling and any number of faults.                                       *)
(***************************************************************************)
EXTENDS PrintPipeline, TLAPS

RowTyped ==
    /\ job \in [Orders -> [state : {"none", "PENDING", "FAILED", "PRINTED", "DEAD_LETTER"},
                           attempts : 0 .. MaxAttempts]]
    /\ stale \subseteq Orders

(* The ceiling, for rows that may still be opened: OpenRow adds one to     *)
(* their count, so it is what keeps the count in its range.                *)
AttemptsLeft ==
    \A o \in Orders :
        job[o].state \in {"none", "PENDING", "FAILED"} => job[o].attempts < MaxAttempts

QueueTyped ==
    /\ queued \in [Orders -> {"absent", "waiting", "delayed", "active"}]
    /\ tries \in [Orders -> 0 .. MaxAttempts]
    /\ holder \in [Orders -> Workers \cup {NULL}]
    /\ \A o \in Orders : holder[o] # NULL <=> queued[o] = "active"

WorkerTyped ==
    /\ pc \in [Workers -> {"idle", "reading", "printing", "printed", "failed", "returning",
                           "throwing"}]
    /\ cur \in [Workers -> Orders \cup {NULL}]
    /\ \A w \in Workers : cur[w] = NULL <=> pc[w] = "idle"
    /\ attempt \in [Workers -> 0 .. MaxAttempts]

BacklogTyped ==
    /\ drifting \subseteq Orders /\ retrying \subseteq Orders
    /\ todo \in [Workers -> SUBSET Orders]

DeviceTyped ==
    /\ failing \in BOOLEAN /\ ledger \subseteq Orders /\ loose \subseteq Orders
    /\ paper \in [Orders -> Nat] /\ restarts \in Nat

(* A key in the ledger is one ticket of paper since the last restart, and  *)
(* each life of the ledger before it accounts for one more.                *)
LedgerInv ==
    \A o \in Orders :
        /\ o \in ledger => paper[o] >= 1 /\ paper[o] <= 1 + restarts
        /\ o \notin ledger => paper[o] <= restarts

(* A worker that was told printed was told the truth. *)
ToldInv == \A w \in Workers : pc[w] = "printed" => paper[cur[w]] >= 1

IInv ==
    /\ RowTyped /\ AttemptsLeft /\ QueueTyped /\ WorkerTyped /\ BacklogTyped /\ DeviceTyped
    /\ LedgerInv /\ ToldInv /\ PrintedIsOut

----------------------------------------------------------------------------
(* The helpers of the actions *)

(* A row keeps its ceiling if it is written below it, or settled. *)
LEMMA SetRowTyped ==
    ASSUME RowTyped, AttemptsLeft, NEW o \in Orders, NEW count \in 0 .. MaxAttempts,
           NEW state \in {"PENDING", "FAILED", "PRINTED", "DEAD_LETTER"},
           state \in {"PENDING", "FAILED"} => count < MaxAttempts,
           SetRow(o, state, count)
    PROVE  RowTyped' /\ AttemptsLeft'
<1> DEFINE row == [state |-> state, attempts |-> count]
<1>1. row \in [state : {"none", "PENDING", "FAILED", "PRINTED", "DEAD_LETTER"},
               attempts : 0 .. MaxAttempts]
  OBVIOUS
<1>2. /\ job' = [job EXCEPT ![o] = row]
      /\ stale' \subseteq Orders
  BY DEF SetRow, RowTyped
<1>3. RowTyped'
  BY <1>1, <1>2 DEF RowTyped
<1>4. AttemptsLeft'
  <2> SUFFICES ASSUME NEW p \in Orders, job'[p].state \in {"none", "PENDING", "FAILED"}
               PROVE  job'[p].attempts < MaxAttempts
    BY DEF AttemptsLeft
  <2>1. CASE p = o
    <3>1. job'[p] = row
      BY <1>2, <2>1 DEF RowTyped
    <3> QED
      BY <3>1
  <2>2. CASE p # o
    <3>1. job'[p] = job[p]
      BY <1>2, <2>2 DEF RowTyped
    <3> QED
      BY <3>1 DEF AttemptsLeft
  <2> QED
    BY <2>1, <2>2
<1> QED
  BY <1>3, <1>4

(* A row says PRINTED after SetRow if it is told to, or did before. *)
LEMMA SetRowPrinted ==
    ASSUME RowTyped, PrintedIsOut, NEW o \in Orders, NEW count, NEW state,
           SetRow(o, state, count), UNCHANGED paper,
           state = "PRINTED" => paper[o] >= 1
    PROVE  PrintedIsOut'
<1> SUFFICES ASSUME NEW p \in Orders, job'[p].state = "PRINTED"
             PROVE  paper[p] >= 1
  BY DEF PrintedIsOut
<1>1. CASE p = o
  <2>1. job'[p] = [state |-> state, attempts |-> count]
    BY <1>1 DEF SetRow, RowTyped
  <2> QED
    BY <1>1, <2>1
<1>2. CASE p # o
  <2>1. job'[p] = job[p]
    BY <1>2 DEF SetRow, RowTyped
  <2> QED
    BY <2>1 DEF PrintedIsOut
<1> QED
  BY <1>1, <1>2

LEMMA AddJobTyped ==
    ASSUME QueueTyped, NEW o \in Orders, AddJob(o)
    PROVE  QueueTyped'
BY DEF QueueTyped, AddJob

LEMMA EnqueueTyped ==
    ASSUME QueueTyped, drifting \subseteq Orders, NEW o \in Orders,
           EnqueueLands(o) \/ EnqueueFails(o)
    PROVE  QueueTyped' /\ drifting' \subseteq Orders
<1>1. CASE EnqueueLands(o)
  BY <1>1, AddJobTyped DEF EnqueueLands
<1>2. CASE EnqueueFails(o)
  BY <1>2 DEF EnqueueFails, QueueTyped
<1> QED
  BY <1>1, <1>2

LEMMA RemoveJobTyped ==
    ASSUME QueueTyped, NEW o \in Orders, RemoveJob(o)
    PROVE  QueueTyped'
BY ConstantsAssumption DEF QueueTyped, RemoveJob

LEMMA GotoTyped ==
    ASSUME WorkerTyped, NEW w \in Workers, pc[w] # "idle",
           NEW step \in {"reading", "printing", "printed", "failed", "returning", "throwing"},
           Goto(w, step)
    PROVE  WorkerTyped'
BY DEF WorkerTyped, Goto

LEMMA StopTyped ==
    ASSUME WorkerTyped, NEW w \in Workers, Stop(w)
    PROVE  WorkerTyped'
BY ConstantsAssumption DEF WorkerTyped, Stop

(* A worker that goes anywhere but to printed is told nothing. *)
LEMMA GotoTold ==
    ASSUME WorkerTyped, ToldInv, NEW w \in Workers, NEW step, step # "printed",
           Goto(w, step), UNCHANGED paper
    PROVE  ToldInv'
BY DEF WorkerTyped, ToldInv, Goto

LEMMA StopTold ==
    ASSUME WorkerTyped, ToldInv, NEW w \in Workers, Stop(w), UNCHANGED paper
    PROVE  ToldInv'
BY DEF WorkerTyped, ToldInv, Stop

(* Whatever the ledger holds, paper only grows, and the key is on paper    *)
(* and in the ledger afterwards.                                           *)
LEMMA AcceptKeepsLedger ==
    ASSUME DeviceTyped, LedgerInv, NEW o \in Orders, Accept(o), UNCHANGED restarts
    PROVE  /\ ledger' \subseteq Orders /\ paper' \in [Orders -> Nat]
           /\ LedgerInv'
           /\ paper'[o] >= 1
           /\ \A p \in Orders : paper'[p] >= paper[p]
<1>1. /\ ledger' = ledger \cup {o}
      /\ paper' = [paper EXCEPT ![o] = IF o \in ledger THEN @ ELSE @ + 1]
  BY DEF Accept
<1>2. paper' \in [Orders -> Nat] /\ \A p \in Orders : p # o => paper'[p] = paper[p]
  BY <1>1 DEF DeviceTyped
<1>3. paper'[o] = IF o \in ledger THEN paper[o] ELSE paper[o] + 1
  BY <1>1 DEF DeviceTyped
<1>4. paper'[o] >= 1 /\ paper'[o] >= paper[o] /\ paper'[o] <= 1 + restarts
  BY <1>3 DEF DeviceTyped, LedgerInv
<1>5. LedgerInv'
  BY <1>1, <1>2, <1>4 DEF LedgerInv, DeviceTyped
<1> QED
  BY <1>1, <1>2, <1>4, <1>5 DEF DeviceTyped

(* If paper only grows, what was said of it stays true. *)
LEMMA PaperGrows ==
    ASSUME DeviceTyped, WorkerTyped, PrintedIsOut, paper' \in [Orders -> Nat],
           \A p \in Orders : paper'[p] >= paper[p], UNCHANGED job
    PROVE  /\ PrintedIsOut'
           /\ ToldInv /\ UNCHANGED <<pc, cur>> => ToldInv'
<1>1. PrintedIsOut'
  BY DEF PrintedIsOut, DeviceTyped
<1>2. ASSUME ToldInv, UNCHANGED <<pc, cur>>
      PROVE  ToldInv'
  <2> SUFFICES ASSUME NEW w \in Workers, pc[w] = "printed"
               PROVE  paper'[cur[w]] >= 1
    BY <1>2 DEF ToldInv
  <2>1. cur[w] \in Orders
    BY DEF WorkerTyped
  <2> QED
    BY <1>2, <2>1 DEF ToldInv, DeviceTyped
<1> QED
  BY <1>1, <1>2

(* What a step leaves alone keeps its part of the invariant. *)
LEMMA Unaffected ==
    ASSUME IInv
    PROVE  /\ UNCHANGED rowVars => RowTyped' /\ AttemptsLeft'
           /\ UNCHANGED <<queued, tries, holder>> => QueueTyped'
           /\ UNCHANGED workerVars => WorkerTyped'
           /\ UNCHANGED <<drifting, retrying, todo>> => BacklogTyped'
           /\ UNCHANGED deviceVars => DeviceTyped' /\ LedgerInv'
           /\ UNCHANGED <<pc, cur, paper>> => ToldInv'
           /\ UNCHANGED <<job, paper>> => PrintedIsOut'
<1>1. UNCHANGED rowVars => RowTyped' /\ AttemptsLeft'
  BY DEF IInv, rowVars, RowTyped, AttemptsLeft
<1>2. UNCHANGED <<queued, tries, holder>> => QueueTyped'
  BY DEF IInv, QueueTyped
<1>3. UNCHANGED workerVars => WorkerTyped'
  BY DEF IInv, workerVars, WorkerTyped
<1>4. UNCHANGED <<drifting, retrying, todo>> => BacklogTyped'
  BY DEF IInv, BacklogTyped
<1>5. UNCHANGED deviceVars => DeviceTyped' /\ LedgerInv'
  BY DEF IInv, deviceVars, DeviceTyped, LedgerInv
<1>6. UNCHANGED <<pc, cur, paper>> => ToldInv'
  BY DEF IInv, ToldInv
<1>7. UNCHANGED <<job, paper>> => PrintedIsOut'
  BY DEF IInv, PrintedIsOut
<1> QED
  BY <1>1, <1>2, <1>3, <1>4, <1>5, <1>6, <1>7

----------------------------------------------------------------------------
(* One lemma per group of actions *)

(* Steps of the queue, of those who fill it, and of time. *)
LEMMA QueueSteps ==
    ASSUME IInv, NEW o \in Orders,
           \/ CreateTicket(o) \/ CancelTicket(o) \/ EnqueueStep(o) \/ LandDrifting(o)
           \/ TimeStep(o) \/ RowGoesStale(o) \/ QueueLost
    PROVE  IInv'
<1> USE DEF boardVars, rowVars, queueVars, workerVars, deviceVars
<1>1. CASE CreateTicket(o) \/ CancelTicket(o)
  BY <1>1, Unaffected DEF CreateTicket, CancelTicket, IInv
<1>2. CASE Announce(o)
  <2>1. QueueTyped' /\ drifting' \subseteq Orders
    BY <1>2, EnqueueTyped DEF Announce, IInv, BacklogTyped
  <2> QED
    BY <1>2, <2>1, Unaffected DEF Announce, IInv, BacklogTyped
<1>3. CASE RetryEnqueue(o)
  <2>1. QueueTyped' /\ drifting' \subseteq Orders
    BY <1>3, EnqueueTyped DEF RetryEnqueue, IInv, BacklogTyped
  <2> QED
    BY <1>3, <2>1, Unaffected DEF RetryEnqueue, IInv, BacklogTyped
<1>4. CASE LandDrifting(o)
  <2>1. QueueTyped'
    BY <1>4, AddJobTyped DEF LandDrifting, IInv
  <2> QED
    BY <1>4, <2>1, Unaffected DEF LandDrifting, IInv, BacklogTyped
<1>5. CASE BackoffElapses(o)
  <2>1. QueueTyped'
    BY <1>5 DEF BackoffElapses, IInv, QueueTyped
  <2> QED
    BY <1>5, <2>1, Unaffected DEF BackoffElapses, IInv
<1>6. CASE Stall(o)
  <2>1. CASE RemoveJob(o)
    BY <2>1, <1>6, RemoveJobTyped, Unaffected DEF Stall, IInv
  <2>2. CASE ~RemoveJob(o)
    <3>1. QueueTyped'
      BY <1>6, <2>2, ConstantsAssumption DEF Stall, IInv, QueueTyped
    <3> QED
      BY <1>6, <3>1, Unaffected DEF Stall, IInv
  <2> QED
    BY <2>1, <2>2
<1>7. CASE RowGoesStale(o)
  <2>1. RowTyped' /\ AttemptsLeft'
    BY <1>7 DEF RowGoesStale, IInv, RowTyped, AttemptsLeft
  <2> QED
    BY <1>7, <2>1, Unaffected DEF RowGoesStale, IInv
<1>8. CASE QueueLost
  <2>1. QueueTyped'
    BY <1>8, ConstantsAssumption DEF QueueLost, QueueTyped
  <2> QED
    BY <1>8, <2>1, Unaffected DEF QueueLost, IInv
<1> QED
  BY <1>1, <1>2, <1>3, <1>4, <1>5, <1>6, <1>7, <1>8 DEF EnqueueStep, TimeStep

(* Steps of the sweep and of a human. *)
LEMMA RepairSteps ==
    ASSUME IInv,
           \/ \E w \in Workers : SweepStep(w)
           \/ \E o \in Orders : ManualReset(o)
    PROVE  IInv'
<1> USE DEF boardVars, rowVars, queueVars, workerVars, deviceVars
<1>1. ASSUME NEW w \in Workers, Sweep(w)
      PROVE  IInv'
  <2>1. BacklogTyped'
    BY <1>1 DEF Sweep, IInv, BacklogTyped
  <2> QED
    BY <1>1, <2>1, Unaffected DEF Sweep, IInv
<1>2. ASSUME NEW w \in Workers, SweepEnqueue(w)
      PROVE  IInv'
  <2>1. PICK o \in todo[w] :
            \/ EnqueueLands(o) /\ todo' = [todo EXCEPT ![w] = @ \ {o}]
            \/ EnqueueFails(o) /\ todo' = [todo EXCEPT ![w] = {}]
    BY <1>2 DEF SweepEnqueue
  <2>2. o \in Orders
    BY <1>2 DEF IInv, BacklogTyped
  <2>3. QueueTyped' /\ drifting' \subseteq Orders
    BY <2>1, <2>2, EnqueueTyped DEF IInv, BacklogTyped
  <2>4. BacklogTyped'
    BY <1>2, <2>1, <2>3 DEF SweepEnqueue, IInv, BacklogTyped
  <2> QED
    BY <1>2, <2>3, <2>4, Unaffected DEF SweepEnqueue, IInv
<1>3. ASSUME NEW o \in Orders, ManualReset(o)
      PROVE  IInv'
  <2>1. RowTyped' /\ AttemptsLeft'
    BY <1>3, SetRowTyped, ConstantsAssumption DEF ManualReset, IInv
  <2>2. PrintedIsOut'
    BY <1>3, SetRowPrinted DEF ManualReset, IInv
  <2>3. BacklogTyped'
    BY <1>3 DEF ManualReset, IInv, BacklogTyped
  <2> QED
    BY <1>3, <2>1, <2>2, <2>3, Unaffected DEF ManualReset, IInv
<1> QED
  BY <1>1, <1>2, <1>3 DEF SweepStep

(* A busy worker has an order. *)
LEMMA Busy ==
    ASSUME WorkerTyped, NEW w \in Workers, pc[w] # "idle"
    PROVE  cur[w] \in Orders
BY DEF WorkerTyped

(* Steps between a print worker and BullMQ. *)
LEMMA JobSteps ==
    ASSUME IInv, NEW w \in Workers,
           (\E o \in Orders : Take(w, o)) \/ Complete(w) \/ FailJob(w) \/ Crash(w)
    PROVE  IInv'
<1> USE DEF boardVars, rowVars, queueVars, deviceVars
<1>1. ASSUME NEW o \in Orders, Take(w, o)
      PROVE  IInv'
  <2>1. QueueTyped'
    BY <1>1, ConstantsAssumption DEF Take, IInv, QueueTyped
  <2>2. WorkerTyped'
    BY <1>1, ConstantsAssumption DEF Take, IInv, WorkerTyped
  <2>3. ToldInv'
    BY <1>1 DEF Take, IInv, WorkerTyped, ToldInv
  <2> QED
    BY <1>1, <2>1, <2>2, <2>3, Unaffected DEF Take, IInv
<1>2. CASE Complete(w)
  <2>1. cur[w] \in Orders
    BY <1>2, Busy DEF Complete, IInv
  <2>2. QueueTyped'
    BY <1>2, <2>1, RemoveJobTyped, Unaffected DEF Complete, IInv
  <2>3. WorkerTyped' /\ ToldInv'
    BY <1>2, StopTyped, StopTold DEF Complete, IInv
  <2> QED
    BY <1>2, <2>2, <2>3, Unaffected DEF Complete, IInv
<1>3. CASE FailJob(w)
  <2>1. cur[w] \in Orders
    BY <1>3, Busy DEF FailJob, IInv
  <2>2. QueueTyped'
    <3>1. CASE UNCHANGED <<queued, tries, holder>>
      BY <3>1, Unaffected
    <3>2. CASE RemoveJob(cur[w])
      BY <2>1, <3>2, RemoveJobTyped DEF IInv
    <3>3. CASE /\ tries[cur[w]] + 1 < MaxAttempts
               /\ queued' = [queued EXCEPT ![cur[w]] = "delayed"]
               /\ tries' = [tries EXCEPT ![cur[w]] = @ + 1]
               /\ holder' = [holder EXCEPT ![cur[w]] = NULL]
      BY <2>1, <3>3, ConstantsAssumption DEF IInv, QueueTyped
    <3> QED
      BY <1>3, <3>1, <3>2, <3>3 DEF FailJob
  <2>3. WorkerTyped' /\ ToldInv'
    BY <1>3, StopTyped, StopTold DEF FailJob, IInv
  <2> QED
    BY <1>3, <2>2, <2>3, Unaffected DEF FailJob, IInv
<1>4. CASE Crash(w)
  <2>1. WorkerTyped' /\ ToldInv'
    BY <1>4, StopTyped, StopTold DEF Crash, IInv
  <2>2. BacklogTyped'
    BY <1>4 DEF Crash, IInv, BacklogTyped
  <2> QED
    BY <1>4, <2>1, <2>2, Unaffected DEF Crash, IInv
<1> QED
  BY <1>1, <1>2, <1>3, <1>4

(* Steps of processPrintJob that write the row. *)
LEMMA RowSteps ==
    ASSUME IInv, NEW w \in Workers,
           OpenRow(w) \/ RecordPrinted(w) \/ RecordFailure(w)
    PROVE  IInv'
<1> USE DEF boardVars, queueVars, deviceVars
<1>1. cur[w] \in Orders /\ pc[w] # "idle"
  BY Busy DEF OpenRow, RecordPrinted, RecordFailure, IInv
<1>2. attempt[w] \in 0 .. MaxAttempts
  BY DEF IInv, WorkerTyped
<1>3. CASE OpenRow(w)
  <2>1. RowTyped' /\ AttemptsLeft' /\ PrintedIsOut'
    <3>1. CASE UNCHANGED rowVars
      BY <1>3, <3>1, Unaffected DEF OpenRow, rowVars
    <3>2. CASE SetRow(cur[w], "PENDING", 0)
      BY <1>1, <1>3, <3>2, SetRowTyped, SetRowPrinted, ConstantsAssumption DEF OpenRow, IInv
    <3> QED
      BY <1>3, <3>1, <3>2 DEF OpenRow
  <2>2. WorkerTyped' /\ ToldInv'
    <3>1. CASE Goto(w, "returning")
      BY <1>1, <1>3, <3>1, GotoTyped, GotoTold DEF OpenRow, IInv
    <3>2. CASE /\ ~Settled(cur[w])
               /\ pc' = [pc EXCEPT ![w] = "printing"]
               /\ attempt' = [attempt EXCEPT ![w] = job[cur[w]].attempts + 1]
               /\ UNCHANGED cur
      <4>1. job[cur[w]].attempts + 1 \in 0 .. MaxAttempts
        BY <1>1, <3>2, ConstantsAssumption DEF IInv, RowTyped, AttemptsLeft, Settled
      <4>2. WorkerTyped'
        BY <1>1, <3>2, <4>1 DEF IInv, WorkerTyped
      <4>3. ToldInv'
        BY <1>3, <3>2 DEF OpenRow, IInv, WorkerTyped, ToldInv
      <4> QED
        BY <4>2, <4>3
    <3> QED
      BY <1>3, <3>1, <3>2 DEF OpenRow
  <2> QED
    BY <1>3, <2>1, <2>2, Unaffected DEF OpenRow, IInv
<1>4. CASE RecordPrinted(w)
  <2>1. RowTyped' /\ AttemptsLeft'
    BY <1>1, <1>2, <1>4, SetRowTyped DEF RecordPrinted, IInv
  <2>2. PrintedIsOut'
    BY <1>1, <1>4, SetRowPrinted DEF RecordPrinted, IInv, ToldInv
  <2>3. WorkerTyped' /\ ToldInv'
    BY <1>1, <1>4, GotoTyped, GotoTold DEF RecordPrinted, IInv
  <2> QED
    BY <1>4, <2>1, <2>2, <2>3, Unaffected DEF RecordPrinted, IInv
<1>5. CASE RecordFailure(w)
  <2>1. /\ FailureState(attempt[w]) \in {"FAILED", "DEAD_LETTER"}
        /\ FailureState(attempt[w]) = "FAILED" => attempt[w] < MaxAttempts
    BY <1>2, ConstantsAssumption DEF FailureState
  <2>2. RowTyped' /\ AttemptsLeft'
    BY <1>1, <1>2, <1>5, <2>1, SetRowTyped DEF RecordFailure, IInv
  <2>3. PrintedIsOut'
    BY <1>1, <1>5, <2>1, SetRowPrinted DEF RecordFailure, IInv
  <2>4. WorkerTyped' /\ ToldInv'
    BY <1>1, <1>5, GotoTyped, GotoTold DEF RecordFailure, IInv
  <2> QED
    BY <1>5, <2>2, <2>3, <2>4, Unaffected DEF RecordFailure, IInv
<1> QED
  BY <1>3, <1>4, <1>5

(* Steps of a worker that only move it. *)
LEMMA MovingSteps ==
    ASSUME IInv, NEW w \in Workers,
           PrinterOffline(w) \/ AnswerLost(w) \/ RequestLost(w) \/ StatementFails(w)
    PROVE  IInv'
<1> USE DEF boardVars, rowVars, queueVars, deviceVars
<1>1. CASE PrinterOffline(w) \/ AnswerLost(w) \/ StatementFails(w)
  <2>1. WorkerTyped' /\ ToldInv'
    BY <1>1, GotoTyped, GotoTold DEF PrinterOffline, AnswerLost, StatementFails, IInv
  <2> QED
    BY <1>1, <2>1, Unaffected DEF PrinterOffline, AnswerLost, StatementFails, IInv
<1>2. CASE RequestLost(w)
  <2>1. WorkerTyped' /\ ToldInv'
    BY <1>2, GotoTyped, GotoTold DEF RequestLost, IInv
  <2>2. cur[w] \in Orders
    BY <1>2, Busy DEF RequestLost, IInv
  <2>3. DeviceTyped' /\ LedgerInv'
    BY <1>2, <2>2 DEF RequestLost, IInv, DeviceTyped, LedgerInv
  <2> QED
    BY <1>2, <2>1, <2>3, Unaffected DEF RequestLost, IInv
<1> QED
  BY <1>1, <1>2

(* Steps of the printer. *)
LEMMA DeviceSteps ==
    ASSUME IInv,
           \/ \E w \in Workers : Emit(w)
           \/ \E o \in Orders : LateRequest(o)
           \/ SetFailing \/ PrinterRestarts
    PROVE  IInv'
<1> USE DEF boardVars, rowVars, queueVars, workerVars
<1>1. ASSUME NEW w \in Workers, Emit(w)
      PROVE  IInv'
  <2>1. cur[w] \in Orders /\ pc[w] # "idle"
    BY <1>1, Busy DEF Emit, IInv
  <2>2. /\ ledger' \subseteq Orders /\ paper' \in [Orders -> Nat]
        /\ LedgerInv'
        /\ paper'[cur[w]] >= 1
        /\ \A p \in Orders : paper'[p] >= paper[p]
    BY <1>1, <2>1, AcceptKeepsLedger DEF Emit, IInv
  <2>3. DeviceTyped'
    BY <1>1, <2>2 DEF Emit, IInv, DeviceTyped
  <2>4. PrintedIsOut'
    BY <1>1, <2>2, PaperGrows DEF Emit, IInv
  <2>5. WorkerTyped'
    BY <1>1, <2>1, GotoTyped DEF Emit, IInv
  <2>6. ToldInv'
    <3> SUFFICES ASSUME NEW v \in Workers, pc'[v] = "printed"
                 PROVE  paper'[cur'[v]] >= 1
      BY DEF ToldInv
    <3>1. CASE v = w
      BY <1>1, <2>2, <3>1 DEF Emit, Goto
    <3>2. CASE v # w
      <4>1. pc[v] = "printed" /\ cur'[v] = cur[v]
        BY <1>1, <3>2 DEF Emit, Goto, IInv, WorkerTyped
      <4>2. cur[v] \in Orders /\ paper[cur[v]] >= 1
        BY <4>1, Busy DEF IInv, ToldInv
      <4> QED
        BY <2>2, <4>1, <4>2 DEF IInv, DeviceTyped
    <3> QED
      BY <3>1, <3>2
  <2> QED
    BY <1>1, <2>2, <2>3, <2>4, <2>5, <2>6, Unaffected DEF Emit, IInv
<1>2. ASSUME NEW o \in Orders, LateRequest(o)
      PROVE  IInv'
  <2>1. /\ ledger' \subseteq Orders /\ paper' \in [Orders -> Nat]
        /\ LedgerInv'
        /\ \A p \in Orders : paper'[p] >= paper[p]
    BY <1>2, AcceptKeepsLedger DEF LateRequest, IInv
  <2>2. DeviceTyped'
    BY <1>2, <2>1 DEF LateRequest, IInv, DeviceTyped
  <2>3. PrintedIsOut' /\ ToldInv'
    BY <1>2, <2>1, PaperGrows DEF LateRequest, IInv
  <2> QED
    BY <1>2, <2>1, <2>2, <2>3, Unaffected DEF LateRequest, IInv
<1>3. CASE SetFailing
  <2>1. DeviceTyped' /\ LedgerInv'
    BY <1>3 DEF SetFailing, IInv, DeviceTyped, LedgerInv
  <2> QED
    BY <1>3, <2>1, Unaffected DEF SetFailing, IInv
<1>4. CASE PrinterRestarts
  <2>1. DeviceTyped'
    BY <1>4 DEF PrinterRestarts, IInv, DeviceTyped
  <2>2. LedgerInv'
    BY <1>4 DEF PrinterRestarts, IInv, DeviceTyped, LedgerInv
  <2> QED
    BY <1>4, <2>1, <2>2, Unaffected DEF PrinterRestarts, IInv
<1> QED
  BY <1>1, <1>2, <1>3, <1>4

----------------------------------------------------------------------------
(* The invariant and its consequences *)

LEMMA InitInv == Init => IInv
<1> SUFFICES ASSUME Init PROVE IInv
  OBVIOUS
<1>1. RowTyped /\ AttemptsLeft
  <2>1. \A o \in Orders : job[o] = [state |-> "none", attempts |-> 0]
    BY DEF Init, NoRow
  <2>2. [state |-> "none", attempts |-> 0]
            \in [state : {"none", "PENDING", "FAILED", "PRINTED", "DEAD_LETTER"},
                 attempts : 0 .. MaxAttempts]
    BY ConstantsAssumption
  <2> QED
    BY <2>1, <2>2, ConstantsAssumption DEF Init, NoRow, RowTyped, AttemptsLeft
<1>2. QueueTyped /\ WorkerTyped /\ BacklogTyped
  BY ConstantsAssumption DEF Init, QueueTyped, WorkerTyped, BacklogTyped
<1>3. DeviceTyped /\ LedgerInv /\ ToldInv
  BY DEF Init, DeviceTyped, LedgerInv, ToldInv
<1>4. PrintedIsOut
  BY DEF Init, NoRow, PrintedIsOut
<1> QED
  BY <1>1, <1>2, <1>3, <1>4 DEF IInv

LEMMA StepInv == IInv /\ [Next]_vars => IInv'
<1> SUFFICES ASSUME IInv, [Next]_vars PROVE IInv'
  OBVIOUS
<1>1. CASE UNCHANGED vars
  BY <1>1, Unaffected DEF vars, boardVars, rowVars, queueVars, workerVars, deviceVars, IInv
<1>2. ASSUME NEW o \in Orders,
             \/ CreateTicket(o) \/ CancelTicket(o)
             \/ EnqueueStep(o) \/ ManualReset(o) \/ LandDrifting(o)
             \/ TimeStep(o) \/ RowGoesStale(o) \/ LateRequest(o)
      PROVE  IInv'
  BY <1>2, QueueSteps, RepairSteps, DeviceSteps
<1>3. ASSUME NEW w \in Workers,
             \/ ProcessStep(w) \/ SweepStep(w)
             \/ AnswerLost(w) \/ RequestLost(w) \/ StatementFails(w) \/ Crash(w)
      PROVE  IInv'
  BY <1>3, JobSteps, RowSteps, MovingSteps, DeviceSteps, RepairSteps DEF ProcessStep
<1>4. CASE QueueLost
  <2>1. CASE Orders = {}
    BY <1>4, <2>1, Unaffected, ConstantsAssumption
    DEF QueueLost, boardVars, rowVars, workerVars, deviceVars, IInv, QueueTyped
  <2>2. CASE Orders # {}
    BY <1>4, <2>2, QueueSteps
  <2> QED
    BY <2>1, <2>2
<1>5. CASE SetFailing \/ PrinterRestarts
  BY <1>5, DeviceSteps
<1> QED
  BY <1>1, <1>2, <1>3, <1>4, <1>5 DEF Next

LEMMA Invariance == Spec => []IInv
  BY InitInv, StepInv, PTL DEF Spec

(* Every reachable state is well typed; that the count of a row never      *)
(* exceeds the ceiling needs AttemptsLeft (recordFailure).                 *)
THEOREM TypeCorrect == Spec => []TypeOK
<1>1. IInv => TypeOK
  BY DEF IInv, RowTyped, QueueTyped, WorkerTyped, BacklogTyped, DeviceTyped, TypeOK
<1> QED
  BY <1>1, Invariance, PTL

(* A row that says PRINTED is on paper (processPrintJob).                  *)
THEOREM PrintedIsTrue == Spec => []PrintedIsOut
<1>1. IInv => PrintedIsOut
  BY DEF IInv
<1> QED
  BY <1>1, Invariance, PTL

(* Paper is doubled only by a printer that lost its memory (accept).       *)
THEOREM PaperBounded == Spec => []PaperIsBounded
<1>1. IInv => PaperIsBounded
  BY DEF IInv, DeviceTyped, LedgerInv, PaperIsBounded
<1> QED
  BY <1>1, Invariance, PTL

(* A row that may be tried again has attempts left (recordFailure,         *)
(* resetDeadLetteredJob).                                                  *)
THEOREM CeilingHolds == Spec => []RetryableHasAttemptsLeft
<1>1. IInv => RetryableHasAttemptsLeft
  BY DEF IInv, AttemptsLeft, RetryableHasAttemptsLeft
<1> QED
  BY <1>1, Invariance, PTL
=============================================================================
