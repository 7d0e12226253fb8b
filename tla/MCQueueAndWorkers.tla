-------------------------- MODULE MCQueueAndWorkers --------------------------
(* The queue called by anyone in any order, or by two worker processes that  *)
(* run their loops: an initial state chooses which.                          *)
EXTENDS WorkerRuntime, TLC

CONSTANTS p1, p2, w1, w2, j2

VARIABLE byAnyone

\* Two claims, or three, which reach the clamp of the backoff.
Attempts == [r \in Rows |-> IF r = j2 THEN 3 ELSE 2]

\* Every process has a WORKER_ID of its own.
OwnIds == p1 :> w1 @@ p2 :> w2

\* Processes: one row of each table, due at once.
ProcessesBound ==
  /\ UNCHANGED jobs[j2]
  /\ \A j \in Jobs : jobs[j].status = "absent" => jobs'[j].wait = 0
  /\ \A e \in Events : ~ events[e].stored => events'[e].wait = 0

MCInit == RuntimeInit /\ byAnyone \in BOOLEAN

MCNext ==
  /\ UNCHANGED byAnyone
  /\ IF byAnyone THEN Next /\ UNCHANGED rvars ELSE RuntimeNext /\ ProcessesBound

MCSpec == MCInit /\ [][MCNext]_<<allVars, byAnyone>>
=============================================================================
