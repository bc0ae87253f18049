----------------------------- MODULE MCProcesses -----------------------------
(***************************************************************************)
(* The worker process, an API process and the presence of terminals share  *)
(* no state, so one run explores them one at a time: a behaviour is one of *)
(* the subject's, and the others stand still.                              *)
(***************************************************************************)
EXTENDS WorkerProcess, ApiProcess, Presence

CONSTANT Subjects

VARIABLE subject

processVars == <<workerVars, apiVars, presenceVars, subject>>

MCInit ==
    /\ WorkerInit /\ ApiInit /\ PresenceInit /\ subject \in Subjects
    /\ subject # "worker" => workerFaults = 0

WorkerMoves   == subject = "worker" /\ WorkerNext /\ UNCHANGED <<apiVars, presenceVars, subject>>
ApiMoves      == subject = "api" /\ ApiNext /\ UNCHANGED <<workerVars, presenceVars, subject>>
PresenceMoves == subject = "presence" /\ PresenceNext /\ UNCHANGED <<workerVars, apiVars, subject>>

MCNext == WorkerMoves \/ ApiMoves \/ PresenceMoves

MCFairness ==
    /\ subject = "worker" => WorkerFairness
    /\ subject = "api" => ApiFairness
    /\ subject = "presence" => PresenceFairness

MCSpec == MCInit /\ [][MCNext]_processVars /\ MCFairness

(* The recovery promise, of the behaviours that are about the worker. *)
WorkerComesBack == subject = "worker" => ComesBack
=============================================================================
