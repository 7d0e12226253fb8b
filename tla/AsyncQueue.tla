------------------------------ MODULE AsyncQueue ------------------------------
(***************************************************************************)
(* The two durable work tables, outbox_events and durable_jobs, and the    *)
(* PostgreSQL functions that are the only code allowed to change them:     *)
(* claim, complete, fail, reap and requeue.  Every action is one statement *)
(* or one transaction, which row locks make atomic for the rows it writes. *)
(*                                                                         *)
(* Timestamps are kept as the time still to run (run_at - now() and        *)
(* lease_expires_at - now(), never below 0), so that Tick can go on for    *)
(* ever in a finite state space.                                           *)
(***************************************************************************)
EXTENDS Integers, FiniteSets

CONSTANTS
  Events,       \* rows of outbox_events
  Jobs,         \* rows of durable_jobs
  Workers,      \* the worker ids that claim work (WORKER_ID)
  NoWorker,     \* SQL NULL in lease_owner and locked_by
  MaxAttempts,  \* max_attempts of each row
  MaxDelay,     \* latest first run_at / available_at an enqueue asks for
  LeaseSeconds, \* WORKER_LEASE_SECONDS
  BaseBackoff,  \* WORKER_BASE_BACKOFF_SECONDS
  MaxBackoff,   \* WORKER_MAX_BACKOFF_SECONDS
  BatchSize     \* WORKER_BATCH_SIZE

Rows == Events \cup Jobs

ASSUME QueueAssumption ==
  /\ Events \cap Jobs = {}
  /\ NoWorker \notin Workers
  /\ MaxAttempts \in [Rows -> Nat \ {0}]
  /\ MaxDelay \in Nat
  /\ LeaseSeconds \in Nat \ {0}
  /\ BaseBackoff \in Nat \ {0}
  /\ MaxBackoff \in Nat \ {0}
  /\ BatchSize \in Nat \ {0}

VARIABLES
  events,  \* the rows of outbox_events
  jobs     \* the rows of durable_jobs

vars == <<events, jobs>>

JobStatus ==
  {"absent", "pending", "running", "retry_wait", "succeeded", "dead_lettered"}

\* wait and lease are times still to run; lease is 0 when there is no owner.
JobRow == [status: JobStatus, attempt: Nat, wait: Nat,
           owner: Workers \cup {NoWorker}, lease: 0..LeaseSeconds,
           finished: BOOLEAN]

EventRow == [stored: BOOLEAN, processed: BOOLEAN, dead: BOOLEAN,
             attempts: Nat, wait: Nat,
             owner: Workers \cup {NoWorker}, lease: 0..LeaseSeconds]

TypeOK ==
  /\ events \in [Events -> EventRow]
  /\ jobs \in [Jobs -> JobRow]

Init ==
  /\ events = [e \in Events |->
       [stored |-> FALSE, processed |-> FALSE, dead |-> FALSE, attempts |-> 0,
        wait |-> 0, owner |-> NoWorker, lease |-> 0]]
  /\ jobs = [j \in Jobs |->
       [status |-> "absent", attempt |-> 0, wait |-> 0,
        owner |-> NoWorker, lease |-> 0, finished |-> FALSE]]

-----------------------------------------------------------------------------
(* Retry schedule.  The two bounds are configured independently, and the   *)
(* fail functions raise on an inverted pair instead of clamping it.        *)

BackoffValid == BaseBackoff <= MaxBackoff

\* LEAST(max, base * 2^(attempt - 1)): the product is never below the base.
Backoff(attempt) ==
  LET doubled == BaseBackoff * 2^(attempt - 1)
  IN  IF doubled \in BaseBackoff..MaxBackoff THEN doubled ELSE MaxBackoff

-----------------------------------------------------------------------------
(* Enqueue: the INSERT commits with the business transaction or not at all *)

EnqueueEvent(e) ==
  /\ ~ events[e].stored
  /\ \E d \in 0..MaxDelay :
       events' = [events EXCEPT ![e].stored = TRUE, ![e].wait = d]
  /\ UNCHANGED jobs

EnqueueJob(j) ==
  /\ jobs[j].status = "absent"
  /\ \E d \in 0..MaxDelay :
       jobs' = [jobs EXCEPT ![j].status = "pending", ![j].wait = d]
  /\ UNCHANGED events

-----------------------------------------------------------------------------
(* Claim: FOR UPDATE SKIP LOCKED LIMIT batch.  Rows that another claim     *)
(* holds locked are skipped, so any batch of claimable rows may result.    *)

OpenEvent(e) == events[e].stored /\ ~ events[e].processed /\ ~ events[e].dead

EventClaimable(e) ==
  /\ OpenEvent(e)
  /\ events[e].wait = 0
  /\ events[e].attempts < MaxAttempts[e]
  /\ events[e].owner = NoWorker \/ events[e].lease = 0

\* Fault: the attempt limit is tested after one claim too many.
JobClaimableOnceMore(j) ==
  /\ jobs[j].attempt <= MaxAttempts[j]
  /\ \/ jobs[j].status \in {"pending", "retry_wait"} /\ jobs[j].wait = 0
     \/ jobs[j].status = "running" /\ jobs[j].lease = 0

\* Fault: a running row is claimed without looking at its lease.
JobClaimableWhileLeased(j) ==
  /\ jobs[j].attempt < MaxAttempts[j]
  /\ \/ jobs[j].status \in {"pending", "retry_wait"} /\ jobs[j].wait = 0
     \/ jobs[j].status = "running"

JobClaimable(j) ==
  /\ jobs[j].attempt < MaxAttempts[j]
  /\ \/ jobs[j].status \in {"pending", "retry_wait"} /\ jobs[j].wait = 0
     \/ jobs[j].status = "running" /\ jobs[j].lease = 0

ClaimEvents(w, S) ==
  /\ S # {} /\ Cardinality(S) <= BatchSize
  /\ \A e \in S : EventClaimable(e)
  /\ events' = [e \in Events |->
       IF e \in S
       THEN [events[e] EXCEPT !.attempts = @ + 1, !.owner = w,
                              !.lease = LeaseSeconds]
       ELSE events[e]]
  /\ UNCHANGED jobs

ClaimJobs(w, S) ==
  /\ S # {} /\ Cardinality(S) <= BatchSize
  /\ \A j \in S : JobClaimable(j)
  /\ jobs' = [j \in Jobs |->
       IF j \in S
       THEN [jobs[j] EXCEPT !.status = "running", !.attempt = @ + 1,
                            !.owner = w, !.lease = LeaseSeconds]
       ELSE jobs[j]]
  /\ UNCHANGED events

-----------------------------------------------------------------------------
(* Complete and fail: the guard is the owner's id, not the attempt and not *)
(* an unexpired lease.  When it is false the function returns false/NULL   *)
(* and changes nothing.                                                    *)

\* Fault: any running row may be settled by anybody.
HoldsJobUnfenced(w, j) == jobs[j].status = "running"

HoldsEvent(w, e) == OpenEvent(e) /\ events[e].owner = w
HoldsJob(w, j) == jobs[j].status = "running" /\ jobs[j].owner = w

CompleteEvent(w, e) ==
  /\ HoldsEvent(w, e)
  /\ events' = [events EXCEPT ![e].processed = TRUE, ![e].owner = NoWorker,
                              ![e].lease = 0]
  /\ UNCHANGED jobs

CompleteJob(w, j) ==
  /\ HoldsJob(w, j)
  /\ jobs' = [jobs EXCEPT ![j].status = "succeeded", ![j].owner = NoWorker,
                          ![j].lease = 0, ![j].finished = TRUE]
  /\ UNCHANGED events

\* Fault: one attempt more than the budget before the row is given up.
ExhaustedLate(r, attempt) == attempt > MaxAttempts[r]

Exhausted(r, attempt) == attempt >= MaxAttempts[r]

FailEvent(w, e) ==
  /\ BackoffValid
  /\ HoldsEvent(w, e)
  /\ LET exhausted == Exhausted(e, events[e].attempts)
     IN  events' = [events EXCEPT
           ![e].dead = exhausted,
           ![e].wait = IF exhausted THEN @ ELSE Backoff(events[e].attempts),
           ![e].owner = NoWorker, ![e].lease = 0]
  /\ UNCHANGED jobs

FailJob(w, j) ==
  /\ BackoffValid
  /\ HoldsJob(w, j)
  /\ LET exhausted == Exhausted(j, jobs[j].attempt)
     IN  jobs' = [jobs EXCEPT
           ![j].status = IF exhausted THEN "dead_lettered" ELSE "retry_wait",
           ![j].wait = IF exhausted THEN @ ELSE Backoff(jobs[j].attempt),
           ![j].owner = NoWorker, ![j].lease = 0, ![j].finished = exhausted]
  /\ UNCHANGED events

-----------------------------------------------------------------------------
(* Reap: both reapers run in one statement of the worker's tick.  Only     *)
(* rows with no attempt left are theirs; claim recovers the others.        *)

EventReapable(e) ==
  /\ OpenEvent(e)
  /\ events[e].attempts >= MaxAttempts[e]
  /\ events[e].owner # NoWorker /\ events[e].lease = 0

JobReapable(j) ==
  /\ jobs[j].status = "running"
  /\ jobs[j].attempt >= MaxAttempts[j]
  /\ jobs[j].lease = 0

Reap(E, J) ==
  /\ E \cup J # {}
  /\ Cardinality(E) <= BatchSize /\ Cardinality(J) <= BatchSize
  /\ \A e \in E : EventReapable(e)
  /\ \A j \in J : JobReapable(j)
  /\ events' = [e \in Events |->
       IF e \in E
       THEN [events[e] EXCEPT !.dead = TRUE, !.owner = NoWorker, !.lease = 0]
       ELSE events[e]]
  /\ jobs' = [j \in Jobs |->
       IF j \in J
       THEN [jobs[j] EXCEPT !.status = "dead_lettered", !.owner = NoWorker,
                            !.lease = 0, !.finished = TRUE]
       ELSE jobs[j]]

-----------------------------------------------------------------------------
(* Administrative reprocessing: one transaction checks that the row is     *)
(* dead-lettered, under FOR UPDATE, and gives it a fresh attempt budget.   *)

RequeueEvent(e) ==
  /\ ~ events[e].processed /\ events[e].dead
  /\ events' = [events EXCEPT ![e].dead = FALSE, ![e].attempts = 0,
                              ![e].wait = 0, ![e].owner = NoWorker,
                              ![e].lease = 0]
  /\ UNCHANGED jobs

\* Fault: the attempt counter is not reset.
RequeueJobKeepsAttempt(j) ==
  /\ jobs[j].status = "dead_lettered"
  /\ jobs' = [jobs EXCEPT ![j].status = "retry_wait", ![j].wait = 0,
                          ![j].finished = FALSE]
  /\ UNCHANGED events

\* Fault: any terminal row may be reprocessed.
RequeueJobAnyTerminal(j) ==
  /\ jobs[j].finished
  /\ jobs' = [jobs EXCEPT ![j].status = "retry_wait", ![j].attempt = 0,
                          ![j].wait = 0, ![j].finished = FALSE]
  /\ UNCHANGED events

RequeueJob(j) ==
  /\ jobs[j].status = "dead_lettered"
  /\ jobs' = [jobs EXCEPT ![j].status = "retry_wait", ![j].attempt = 0,
                          ![j].wait = 0, ![j].owner = NoWorker,
                          ![j].lease = 0, ![j].finished = FALSE]
  /\ UNCHANGED events

-----------------------------------------------------------------------------
(* One second of database time passes. *)

Less(t) == IF t > 0 THEN t - 1 ELSE 0

Tick ==
  /\ events' = [e \in Events |-> [events[e] EXCEPT !.wait = Less(@),
                                                   !.lease = Less(@)]]
  /\ jobs' = [j \in Jobs |-> [jobs[j] EXCEPT !.wait = Less(@),
                                             !.lease = Less(@)]]

-----------------------------------------------------------------------------
Claim ==
  \E w \in Workers :
    \/ \E S \in SUBSET Events : ClaimEvents(w, S)
    \/ \E S \in SUBSET Jobs : ClaimJobs(w, S)

Settle ==
  \E w \in Workers :
    \/ \E e \in Events : CompleteEvent(w, e) \/ FailEvent(w, e)
    \/ \E j \in Jobs : CompleteJob(w, j) \/ FailJob(w, j)

Requeue ==
  \/ \E e \in Events : RequeueEvent(e)
  \/ \E j \in Jobs : RequeueJob(j)

Enqueue ==
  \/ \E e \in Events : EnqueueEvent(e)
  \/ \E j \in Jobs : EnqueueJob(j)

Next ==
  \/ Enqueue
  \/ Claim
  \/ Settle
  \/ \E E \in SUBSET Events, J \in SUBSET Jobs : Reap(E, J)
  \/ Requeue
  \/ Tick

Spec == Init /\ [][Next]_vars

-----------------------------------------------------------------------------
(* Safety *)

Terminal(r) ==
  IF r \in Jobs THEN jobs[r].status \in {"succeeded", "dead_lettered"}
                ELSE events[r].processed \/ events[r].dead

Submitted(r) ==
  IF r \in Jobs THEN jobs[r].status # "absent" ELSE events[r].stored

JobChecks(j, row) ==
  /\ row.attempt <= MaxAttempts[j]
  /\ row.status = "running" <=> row.owner # NoWorker
  /\ row.finished <=> row.status \in {"succeeded", "dead_lettered"}
  /\ row.owner = NoWorker => row.lease = 0

EventChecks(e, row) ==
  /\ row.attempts <= MaxAttempts[e]
  /\ ~ (row.processed /\ row.dead)
  /\ row.processed \/ row.dead \/ ~ row.stored => row.owner = NoWorker
  /\ row.owner = NoWorker => row.lease = 0

\* No sequence of calls makes a statement fail on a CHECK of the two tables:
\* attempts stay within max_attempts, a running job has a lock and a terminal
\* one a finish time, and an event is never both processed and dead-lettered.
\* (A failing CHECK would abort a whole batch.)  The functions keep more than
\* the tables ask for: only a running job has a lock, only a terminal one a
\* finish time, and a closed event has no lease.
RowChecks ==
  /\ \A j \in Jobs : JobChecks(j, jobs[j])
  /\ \A e \in Events : EventChecks(e, events[e])

\* A row that has used its last attempt and is not terminal is still leased.
\* Otherwise nothing could ever touch it again: claim wants an attempt left
\* and the reaper wants a lease.
NoStrandedRow ==
  /\ \A j \in Jobs :
       (jobs[j].attempt = MaxAttempts[j] /\ ~ Terminal(j))
         => jobs[j].owner # NoWorker
  /\ \A e \in Events :
       (events[e].attempts = MaxAttempts[e] /\ ~ Terminal(e))
         => events[e].owner # NoWorker

-----------------------------------------------------------------------------
(* Liveness, under the fairness of the processes that use the queue. *)

\* Stored work always ends, even if every worker dies right after claiming:
\* expired leases are reclaimed while attempts remain and reaped after that.
WorkEnds == \A r \in Rows : Submitted(r) ~> Terminal(r)

-----------------------------------------------------------------------------
(* What the tables promise, with the two row layouts and the clock hidden. *)

ItemOfJob(j) ==
  [phase |-> CASE jobs[j].status = "absent" -> "none"
               [] jobs[j].status \in {"pending", "retry_wait"} -> "waiting"
               [] jobs[j].status = "running" -> "leased"
               [] jobs[j].status = "succeeded" -> "done"
               [] jobs[j].status = "dead_lettered" -> "dead",
   used |-> jobs[j].attempt,
   holder |-> jobs[j].owner,
   valid |-> jobs[j].lease > 0]

ItemOfEvent(e) ==
  [phase |-> CASE ~ events[e].stored -> "none"
               [] events[e].processed -> "done"
               [] events[e].dead -> "dead"
               [] OpenEvent(e) /\ events[e].owner # NoWorker -> "leased"
               [] OpenEvent(e) /\ events[e].owner = NoWorker -> "waiting",
   used |-> events[e].attempts,
   holder |-> events[e].owner,
   valid |-> events[e].lease > 0]

Work == INSTANCE LeasedWork WITH
  Items <- Rows,
  Budget <- MaxAttempts,
  item <- [r \in Rows |-> IF r \in Jobs THEN ItemOfJob(r) ELSE ItemOfEvent(r)]

\* Both tables implement the one leased-work contract.
ImplementsLeasedWork == Work!Spec
=============================================================================
