---------------------------- MODULE MCWorkerRuntime ----------------------------
(* Instances of WorkerRuntime for TLC. *)
EXTENDS WorkerRuntime, TLC

CONSTANTS p1, p2, w1, w2

TwoAttempts == [r \in Rows |-> 2]
OneAttempt == [r \in Rows |-> 1]

\* Every process has a WORKER_ID of its own ...
OwnIds == p1 :> w1 @@ p2 :> w2
\* ... or two containers fall back to nexora-worker-<the same pid>.
OneId == p1 :> w1 @@ p2 :> w1
SoleId == p1 :> w1
=============================================================================
