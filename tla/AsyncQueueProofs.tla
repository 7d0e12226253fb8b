--------------------------- MODULE AsyncQueueProofs ---------------------------
(***************************************************************************)
(* Proofs about AsyncQueue for every set of rows and workers and every     *)
(* budget, lease, backoff and batch size.                                  *)
(*                                                                         *)
(* The two tables are handled row by row.  For each way a statement can    *)
(* rewrite a row there is a lemma without state (ClaimedJob, EndedEvent,   *)
(* ...) that the new row satisfies the row invariant if the old one did;   *)
(* the lemma of the action then only says which rows are rewritten.        *)
(***************************************************************************)
EXTENDS AsyncQueue, TLAPS

(***************************************************************************)
(* The inductive invariant.  The two safety invariants carry each other:   *)
(* an exhausted open row is leased, a leased job is running, and only a    *)
(* running job can be failed back to retry_wait.                           *)
(***************************************************************************)
JobInv(j, row) ==
  /\ row \in JobRow
  /\ JobChecks(j, row)
  /\ row.attempt = MaxAttempts[j]
       => row.finished \/ row.owner # NoWorker

EventInv(e, row) ==
  /\ row \in EventRow
  /\ EventChecks(e, row)
  /\ row.attempts = MaxAttempts[e]
       => row.processed \/ row.dead \/ row.owner # NoWorker

QueueInv ==
  /\ events = [e \in Events |-> events[e]]
  /\ jobs = [j \in Jobs |-> jobs[j]]
  /\ \A e \in Events : EventInv(e, events[e])
  /\ \A j \in Jobs : JobInv(j, jobs[j])

-----------------------------------------------------------------------------
(* Lemmas about the operators *)

\* The assumptions about the constants, in the form the steps cite.
LEMMA RowConstants ==
  /\ LeaseSeconds \in Nat \ {0}
  /\ MaxDelay \in Nat
  /\ NoWorker \notin Workers
  /\ \A e \in Events : MaxAttempts[e] \in Nat \ {0} /\ e \notin Jobs
  /\ \A j \in Jobs : MaxAttempts[j] \in Nat \ {0}
BY QueueAssumption DEF Rows

\* The retry delay is a natural number, whatever power the formula reaches.
LEMMA BackoffType ==
  ASSUME NEW attempt
  PROVE  Backoff(attempt) \in Nat
<1>1. BaseBackoff \in Nat /\ MaxBackoff \in Nat
  BY QueueAssumption
<1>2. \A d \in BaseBackoff..MaxBackoff : d \in Nat
  BY <1>1
<1> QED BY <1>1, <1>2 DEF Backoff

\* One second less stays within any bound from zero.
LEMMA LessType ==
  /\ \A n \in Nat : \A t \in 0..n : Less(t) \in 0..n
  /\ \A t \in Nat : Less(t) \in Nat
  /\ Less(0) = 0
BY DEF Less

\* The row invariants are the invariants the runs check.
LEMMA InvImplies == QueueInv => TypeOK /\ RowChecks /\ NoStrandedRow
<1> SUFFICES ASSUME QueueInv PROVE TypeOK /\ RowChecks /\ NoStrandedRow
  OBVIOUS
<1>1. TypeOK
  BY DEF QueueInv, TypeOK, JobInv, EventInv
<1>2. RowChecks
  BY DEF QueueInv, RowChecks, JobInv, EventInv
<1>3. ASSUME NEW j \in Jobs, jobs[j].attempt = MaxAttempts[j], ~ Terminal(j)
      PROVE  jobs[j].owner # NoWorker
  BY <1>3 DEF QueueInv, JobInv, JobChecks, Terminal
<1>4. ASSUME NEW e \in Events, events[e].attempts = MaxAttempts[e],
             ~ Terminal(e)
      PROVE  events[e].owner # NoWorker
  BY <1>4, RowConstants DEF QueueInv, EventInv, Terminal
<1> QED BY <1>1, <1>2, <1>3, <1>4 DEF NoStrandedRow

-----------------------------------------------------------------------------
(* Rows before and after each statement *)

\* A job row whose lock, finish and budget columns agree is in the invariant.
LEMMA JobColumns ==
  ASSUME NEW j \in Jobs, NEW q \in JobRow,
         q.attempt <= MaxAttempts[j],
         \/ q.status = "running" /\ q.finished = FALSE /\ q.owner # NoWorker
         \/ /\ q.status \in {"absent", "pending", "retry_wait"}
            /\ q.finished = FALSE /\ q.owner = NoWorker /\ q.lease = 0
            /\ q.attempt < MaxAttempts[j]
         \/ /\ q.status \in {"succeeded", "dead_lettered"}
            /\ q.finished = TRUE /\ q.owner = NoWorker /\ q.lease = 0
  PROVE  JobInv(j, q)
BY RowConstants DEF JobInv, JobChecks, JobRow

LEMMA EnqueuedJob ==
  ASSUME NEW j \in Jobs, NEW r, JobInv(j, r), r.status = "absent", NEW d \in Nat
  PROVE  JobInv(j, [r EXCEPT !.status = "pending", !.wait = d])
<1> DEFINE q == [r EXCEPT !.status = "pending", !.wait = d]
<1>1. r \in JobRow /\ JobChecks(j, r) /\ "pending" \in JobStatus
  BY DEF JobInv, JobStatus
<1>2. /\ q \in JobRow /\ q.status = "pending" /\ q.attempt = r.attempt
      /\ q.owner = r.owner /\ q.lease = r.lease /\ q.finished = r.finished
  BY <1>1 DEF JobRow
<1>3. r.owner = NoWorker /\ r.lease = 0 /\ r.finished = FALSE
  BY <1>1 DEF JobChecks, JobRow
<1>4. r.attempt # MaxAttempts[j]
  BY <1>3 DEF JobInv
<1>5. r.attempt <= MaxAttempts[j] /\ r.attempt < MaxAttempts[j]
  BY <1>1, <1>4, RowConstants DEF JobChecks, JobRow
<1> HIDE DEF q
<1>6. JobInv(j, q)
  BY <1>2, <1>3, <1>5, JobColumns
<1> QED BY <1>6 DEF q

LEMMA ClaimedJob ==
  ASSUME NEW j \in Jobs, NEW w \in Workers, NEW r, JobInv(j, r),
         r.attempt < MaxAttempts[j],
         r.status \in {"pending", "retry_wait", "running"}
  PROVE  JobInv(j, [r EXCEPT !.status = "running",
                             !.attempt = r.attempt + 1, !.owner = w,
                             !.lease = LeaseSeconds])
<1> DEFINE n == r.attempt + 1
           q == [r EXCEPT !.status = "running", !.attempt = n, !.owner = w,
                          !.lease = LeaseSeconds]
<1>1. r \in JobRow /\ JobChecks(j, r)
  BY DEF JobInv
<1>2. /\ n \in Nat /\ n <= MaxAttempts[j]
      /\ LeaseSeconds \in 0..LeaseSeconds /\ w # NoWorker
  BY <1>1, RowConstants DEF JobRow
<1>3. r.finished = FALSE
  BY <1>1 DEF JobChecks, JobRow
<1> HIDE DEF n
<1>4. /\ q \in JobRow /\ q.status = "running" /\ q.attempt = n
      /\ q.owner = w /\ q.finished = FALSE
  BY <1>1, <1>2, <1>3 DEF JobRow, JobStatus
<1>5. JobInv(j, q)
  BY <1>2, <1>4, JobColumns
<1> QED BY <1>5 DEF n

LEMMA EndedJob ==
  ASSUME NEW j \in Jobs, NEW r, JobInv(j, r),
         NEW s \in {"succeeded", "dead_lettered"}, NEW m \in Nat
  PROVE  JobInv(j, [r EXCEPT !.status = s, !.wait = m, !.owner = NoWorker,
                             !.lease = 0, !.finished = TRUE])
<1> DEFINE q == [r EXCEPT !.status = s, !.wait = m, !.owner = NoWorker,
                          !.lease = 0, !.finished = TRUE]
<1>1. r \in JobRow /\ r.attempt <= MaxAttempts[j]
  BY DEF JobInv, JobChecks
<1>2. 0 \in 0..LeaseSeconds /\ s \in JobStatus
  BY RowConstants DEF JobStatus
<1>3. /\ q \in JobRow /\ q.status = s /\ q.attempt = r.attempt
      /\ q.owner = NoWorker /\ q.lease = 0 /\ q.finished = TRUE
  BY <1>1, <1>2 DEF JobRow
<1> HIDE DEF q
<1>4. JobInv(j, q)
  BY <1>1, <1>3, JobColumns
<1> QED BY <1>4 DEF q

LEMMA WaitingJob ==
  ASSUME NEW j \in Jobs, NEW r, JobInv(j, r), NEW n \in Nat, NEW m \in Nat,
         n < MaxAttempts[j]
  PROVE  JobInv(j, [r EXCEPT !.status = "retry_wait", !.attempt = n,
                             !.wait = m, !.owner = NoWorker, !.lease = 0,
                             !.finished = FALSE])
<1> DEFINE q == [r EXCEPT !.status = "retry_wait", !.attempt = n, !.wait = m,
                          !.owner = NoWorker, !.lease = 0, !.finished = FALSE]
<1>1. r \in JobRow
  BY DEF JobInv
<1>2. 0 \in 0..LeaseSeconds /\ "retry_wait" \in JobStatus
  BY RowConstants DEF JobStatus
<1>3. /\ q \in JobRow /\ q.status = "retry_wait" /\ q.attempt = n
      /\ q.owner = NoWorker /\ q.lease = 0 /\ q.finished = FALSE
  BY <1>1, <1>2 DEF JobRow
<1> HIDE DEF q
<1>4. q.attempt <= MaxAttempts[j] /\ q.attempt < MaxAttempts[j]
  BY <1>3, RowConstants
<1>5. JobInv(j, q)
  BY <1>3, <1>4, JobColumns
<1> QED BY <1>5 DEF q

LEMMA OlderJob ==
  ASSUME NEW j \in Jobs, NEW r, JobInv(j, r)
  PROVE  JobInv(j, [r EXCEPT !.wait = Less(r.wait), !.lease = Less(r.lease)])
<1> DEFINE m == Less(r.wait)
           l == Less(r.lease)
           q == [r EXCEPT !.wait = m, !.lease = l]
<1>1. r \in JobRow /\ JobChecks(j, r)
  BY DEF JobInv
<1>2. m \in Nat /\ l \in 0..LeaseSeconds /\ (r.lease = 0 => l = 0)
  BY <1>1, RowConstants, LessType DEF JobRow
<1> HIDE DEF m, l
<1>3. /\ q \in JobRow /\ q.status = r.status /\ q.attempt = r.attempt
      /\ q.owner = r.owner /\ q.lease = l /\ q.finished = r.finished
  BY <1>1, <1>2 DEF JobRow
<1>4. JobInv(j, q)
  BY <1>1, <1>2, <1>3 DEF JobInv, JobChecks
<1> QED BY <1>4 DEF m, l

\* An event row whose lease, result and budget columns agree is in the
\* invariant.
LEMMA EventColumns ==
  ASSUME NEW e \in Events, NEW q \in EventRow,
         q.attempts <= MaxAttempts[e],
         \/ /\ q.stored = TRUE /\ q.processed = FALSE /\ q.dead = FALSE
            /\ q.owner # NoWorker
         \/ /\ q.processed = FALSE /\ q.dead = FALSE
            /\ q.owner = NoWorker /\ q.lease = 0
            /\ q.attempts < MaxAttempts[e]
         \/ /\ q.processed = ~ q.dead /\ q.owner = NoWorker /\ q.lease = 0
  PROVE  EventInv(e, q)
BY RowConstants DEF EventInv, EventChecks, EventRow

LEMMA EnqueuedEvent ==
  ASSUME NEW e \in Events, NEW r, EventInv(e, r), r.stored = FALSE,
         NEW d \in Nat
  PROVE  EventInv(e, [r EXCEPT !.stored = TRUE, !.wait = d])
<1> DEFINE q == [r EXCEPT !.stored = TRUE, !.wait = d]
<1>1. r \in EventRow /\ EventChecks(e, r)
  BY DEF EventInv
<1>2. /\ q \in EventRow /\ q.processed = r.processed /\ q.dead = r.dead
      /\ q.attempts = r.attempts /\ q.owner = r.owner /\ q.lease = r.lease
  BY <1>1 DEF EventRow
<1>3. r.owner = NoWorker /\ r.lease = 0
  BY <1>1 DEF EventChecks
<1>4. EventChecks(e, q)
  BY <1>1, <1>2, <1>3 DEF EventChecks
<1> QED BY <1>2, <1>4 DEF EventInv

LEMMA ClaimedEvent ==
  ASSUME NEW e \in Events, NEW w \in Workers, NEW r, EventInv(e, r),
         r.attempts < MaxAttempts[e], r.stored, ~ r.processed, ~ r.dead
  PROVE  EventInv(e, [r EXCEPT !.attempts = r.attempts + 1, !.owner = w,
                               !.lease = LeaseSeconds])
<1> DEFINE n == r.attempts + 1
           q == [r EXCEPT !.attempts = n, !.owner = w, !.lease = LeaseSeconds]
<1>1. r \in EventRow
  BY DEF EventInv
<1>2. /\ n \in Nat /\ n <= MaxAttempts[e]
      /\ LeaseSeconds \in 0..LeaseSeconds /\ w # NoWorker
  BY <1>1, RowConstants DEF EventRow
<1>3. r.stored = TRUE /\ r.processed = FALSE /\ r.dead = FALSE
  BY <1>1 DEF EventRow
<1> HIDE DEF n
<1>4. /\ q \in EventRow /\ q.attempts = n /\ q.owner = w
      /\ q.stored = TRUE /\ q.processed = FALSE /\ q.dead = FALSE
  BY <1>1, <1>2, <1>3 DEF EventRow
<1>5. EventInv(e, q)
  BY <1>2, <1>4, EventColumns
<1> QED BY <1>5 DEF n

LEMMA EndedEvent ==
  ASSUME NEW e \in Events, NEW r, EventInv(e, r), NEW p \in BOOLEAN, NEW m \in Nat
  PROVE  EventInv(e, [r EXCEPT !.processed = p, !.dead = ~ p, !.wait = m,
                               !.owner = NoWorker, !.lease = 0])
<1> DEFINE q == [r EXCEPT !.processed = p, !.dead = ~ p, !.wait = m,
                          !.owner = NoWorker, !.lease = 0]
<1>1. r \in EventRow /\ r.attempts <= MaxAttempts[e]
  BY DEF EventInv, EventChecks
<1>2. 0 \in 0..LeaseSeconds /\ (~ p) \in BOOLEAN
  BY RowConstants
<1>3. /\ q \in EventRow /\ q.processed = p /\ q.dead = ~ p
      /\ q.attempts = r.attempts /\ q.owner = NoWorker /\ q.lease = 0
  BY <1>1, <1>2 DEF EventRow
<1> HIDE DEF q
<1>4. q.processed = ~ q.dead
  BY <1>3
<1>5. EventInv(e, q)
  BY <1>1, <1>3, <1>4, EventColumns
<1> QED BY <1>5 DEF q

LEMMA WaitingEvent ==
  ASSUME NEW e \in Events, NEW r, EventInv(e, r), NEW n \in Nat, NEW m \in Nat,
         r.processed = FALSE, n < MaxAttempts[e]
  PROVE  EventInv(e, [r EXCEPT !.dead = FALSE, !.attempts = n, !.wait = m,
                               !.owner = NoWorker, !.lease = 0])
<1> DEFINE q == [r EXCEPT !.dead = FALSE, !.attempts = n, !.wait = m,
                          !.owner = NoWorker, !.lease = 0]
<1>1. r \in EventRow
  BY DEF EventInv
<1>2. 0 \in 0..LeaseSeconds
  BY RowConstants
<1>3. /\ q \in EventRow /\ q.processed = FALSE /\ q.dead = FALSE
      /\ q.attempts = n /\ q.owner = NoWorker /\ q.lease = 0
  BY <1>1, <1>2 DEF EventRow
<1> HIDE DEF q
<1>4. q.attempts <= MaxAttempts[e] /\ q.attempts < MaxAttempts[e]
  BY <1>3, RowConstants
<1>5. EventInv(e, q)
  BY <1>3, <1>4, EventColumns
<1> QED BY <1>5 DEF q

LEMMA OlderEvent ==
  ASSUME NEW e \in Events, NEW r, EventInv(e, r)
  PROVE  EventInv(e, [r EXCEPT !.wait = Less(r.wait), !.lease = Less(r.lease)])
<1> DEFINE m == Less(r.wait)
           l == Less(r.lease)
           q == [r EXCEPT !.wait = m, !.lease = l]
<1>1. r \in EventRow /\ EventChecks(e, r)
  BY DEF EventInv
<1>2. m \in Nat /\ l \in 0..LeaseSeconds /\ (r.lease = 0 => l = 0)
  BY <1>1, RowConstants, LessType DEF EventRow
<1> HIDE DEF m, l
<1>3. /\ q \in EventRow /\ q.stored = r.stored /\ q.processed = r.processed
      /\ q.dead = r.dead /\ q.attempts = r.attempts /\ q.owner = r.owner
      /\ q.lease = l
  BY <1>1, <1>2 DEF EventRow
<1>4. EventInv(e, q)
  BY <1>1, <1>2, <1>3 DEF EventInv, EventChecks
<1> QED BY <1>4 DEF m, l

-----------------------------------------------------------------------------
(* Steps *)

\* A step that rewrites one event row keeps the invariant if the new row does.
LEMMA OneEvent ==
  ASSUME QueueInv, NEW x \in Events, NEW row, EventInv(x, row),
         events' = [events EXCEPT ![x] = row], UNCHANGED jobs
  PROVE  QueueInv'
BY DEF QueueInv, EventInv

\* The same for one job row.
LEMMA OneJob ==
  ASSUME QueueInv, NEW x \in Jobs, NEW row, JobInv(x, row),
         jobs' = [jobs EXCEPT ![x] = row], UNCHANGED events
  PROVE  QueueInv'
BY DEF QueueInv, JobInv

LEMMA InitInv == Init => QueueInv
<1> SUFFICES ASSUME Init PROVE QueueInv
  OBVIOUS
<1> DEFINE u == [stored |-> FALSE, processed |-> FALSE, dead |-> FALSE,
                 attempts |-> 0, wait |-> 0, owner |-> NoWorker, lease |-> 0]
           v == [status |-> "absent", attempt |-> 0, wait |-> 0,
                 owner |-> NoWorker, lease |-> 0, finished |-> FALSE]
<1>1. 0 \in 0..LeaseSeconds /\ "absent" \in JobStatus
  BY RowConstants DEF JobStatus
<1>2. ASSUME NEW e \in Events PROVE EventInv(e, u)
  <2>1. u \in EventRow /\ u.attempts <= MaxAttempts[e] /\ 0 < MaxAttempts[e]
    BY <1>1, RowConstants DEF EventRow
  <2> QED BY <2>1, EventColumns
<1>3. ASSUME NEW j \in Jobs PROVE JobInv(j, v)
  <2>1. v \in JobRow /\ v.attempt <= MaxAttempts[j] /\ 0 < MaxAttempts[j]
    BY <1>1, RowConstants DEF JobRow
  <2> QED BY <2>1, JobColumns
<1>4. /\ events = [e \in Events |-> u] /\ jobs = [j \in Jobs |-> v]
  BY DEF Init
<1> HIDE DEF u, v
<1> QED BY <1>2, <1>3, <1>4 DEF QueueInv

LEMMA EnqueueInv ==
  ASSUME QueueInv, Enqueue
  PROVE  QueueInv'
<1>1. ASSUME NEW e \in Events, EnqueueEvent(e) PROVE QueueInv'
  <2>1. PICK d \in 0..MaxDelay :
          events' = [events EXCEPT ![e].stored = TRUE, ![e].wait = d]
    BY <1>1 DEF EnqueueEvent
  <2>2. /\ EventInv(e, events[e]) /\ d \in Nat
        /\ events[e].stored = FALSE
    BY <1>1, RowConstants DEF QueueInv, EnqueueEvent, EventInv, EventRow
  <2>3. EventInv(e, [events[e] EXCEPT !.stored = TRUE, !.wait = d])
    BY <2>2, EnqueuedEvent
  <2>4. events' = [events EXCEPT ![e] = [events[e] EXCEPT !.stored = TRUE, !.wait = d]]
    BY <2>1
  <2>5. UNCHANGED jobs
    BY <1>1 DEF EnqueueEvent
  <2> QED BY <2>3, <2>4, <2>5, OneEvent
<1>2. ASSUME NEW j \in Jobs, EnqueueJob(j) PROVE QueueInv'
  <2>1. PICK d \in 0..MaxDelay :
          jobs' = [jobs EXCEPT ![j].status = "pending", ![j].wait = d]
    BY <1>2 DEF EnqueueJob
  <2>2. /\ JobInv(j, jobs[j]) /\ d \in Nat
        /\ jobs[j].status = "absent"
    BY <1>2, RowConstants DEF QueueInv, EnqueueJob
  <2>3. JobInv(j, [jobs[j] EXCEPT !.status = "pending", !.wait = d])
    BY <2>2, EnqueuedJob
  <2>4. jobs' = [jobs EXCEPT ![j] = [jobs[j] EXCEPT !.status = "pending", !.wait = d]]
    BY <2>1
  <2>5. UNCHANGED events
    BY <1>2 DEF EnqueueJob
  <2> QED BY <2>3, <2>4, <2>5, OneJob
<1> QED BY <1>1, <1>2 DEF Enqueue

LEMMA ClaimInv ==
  ASSUME QueueInv, Claim
  PROVE  QueueInv'
<1> PICK w \in Workers :
      \/ \E S \in SUBSET Events : ClaimEvents(w, S)
      \/ \E S \in SUBSET Jobs : ClaimJobs(w, S)
  BY DEF Claim
<1>1. ASSUME NEW S \in SUBSET Events, ClaimEvents(w, S) PROVE QueueInv'
  <2>1. ASSUME NEW e \in Events PROVE EventInv(e, events'[e])
    <3>1. EventInv(e, events[e])
      BY DEF QueueInv
    <3>2. CASE e \in S
      <4>1. events'[e] = [events[e] EXCEPT !.attempts = events[e].attempts + 1,
                                    !.owner = w, !.lease = LeaseSeconds]
        BY <1>1, <3>2 DEF ClaimEvents
      <4>2. /\ events[e].attempts < MaxAttempts[e]
            /\ events[e].stored /\ ~ events[e].processed /\ ~ events[e].dead
        BY <1>1, <3>2 DEF ClaimEvents, EventClaimable, OpenEvent
      <4>3. EventInv(e, [events[e] EXCEPT !.attempts = events[e].attempts + 1,
                                    !.owner = w, !.lease = LeaseSeconds])
        BY <3>1, <4>2, ClaimedEvent
      <4> QED BY <4>1, <4>3
    <3>3. CASE e \notin S
      BY <1>1, <3>1, <3>3 DEF ClaimEvents
    <3> QED BY <3>2, <3>3
  <2> QED BY <1>1, <2>1 DEF ClaimEvents, QueueInv
<1>2. ASSUME NEW S \in SUBSET Jobs, ClaimJobs(w, S) PROVE QueueInv'
  <2>1. ASSUME NEW j \in Jobs PROVE JobInv(j, jobs'[j])
    <3>1. JobInv(j, jobs[j])
      BY DEF QueueInv
    <3>2. CASE j \in S
      <4>1. jobs'[j] = [jobs[j] EXCEPT !.status = "running",
                          !.attempt = jobs[j].attempt + 1, !.owner = w,
                          !.lease = LeaseSeconds]
        BY <1>2, <3>2 DEF ClaimJobs
      <4>2. /\ jobs[j].attempt < MaxAttempts[j]
            /\ jobs[j].status \in {"pending", "retry_wait", "running"}
        BY <1>2, <3>2 DEF ClaimJobs, JobClaimable
      <4>3. JobInv(j, [jobs[j] EXCEPT !.status = "running",
                         !.attempt = jobs[j].attempt + 1, !.owner = w,
                         !.lease = LeaseSeconds])
        BY <3>1, <4>2, ClaimedJob
      <4> QED BY <4>1, <4>3
    <3>3. CASE j \notin S
      BY <1>2, <3>1, <3>3 DEF ClaimJobs
    <3> QED BY <3>2, <3>3
  <2> QED BY <1>2, <2>1 DEF ClaimJobs, QueueInv
<1> QED BY <1>1, <1>2

LEMMA CompleteInv ==
  ASSUME QueueInv, NEW w \in Workers,
         \/ \E e \in Events : CompleteEvent(w, e)
         \/ \E j \in Jobs : CompleteJob(w, j)
  PROVE  QueueInv'
<1>1. ASSUME NEW e \in Events, CompleteEvent(w, e) PROVE QueueInv'
  <2> DEFINE row == [events[e] EXCEPT !.processed = TRUE, !.dead = ~ TRUE,
                       !.wait = events[e].wait, !.owner = NoWorker, !.lease = 0]
  <2>1. EventInv(e, events[e]) /\ events[e] \in EventRow
    BY DEF QueueInv, EventInv
  <2>2. events[e].wait \in Nat /\ events[e].dead = FALSE
    BY <1>1, <2>1 DEF CompleteEvent, HoldsEvent, OpenEvent, EventRow
  <2>3. EventInv(e, row)
    BY <2>1, <2>2, EndedEvent
  <2>4. [events[e] EXCEPT !.processed = TRUE, !.owner = NoWorker, !.lease = 0]
          = row
    BY <2>1, <2>2 DEF EventRow
  <2>5. events' = [events EXCEPT ![e] = row]
    BY <1>1, <2>4 DEF CompleteEvent
  <2> HIDE DEF row
  <2> QED BY <1>1, <2>3, <2>5, OneEvent DEF CompleteEvent
<1>2. ASSUME NEW j \in Jobs, CompleteJob(w, j) PROVE QueueInv'
  <2> DEFINE row == [jobs[j] EXCEPT !.status = "succeeded",
                       !.wait = jobs[j].wait, !.owner = NoWorker, !.lease = 0,
                       !.finished = TRUE]
  <2>1. JobInv(j, jobs[j]) /\ jobs[j] \in JobRow
    BY DEF QueueInv, JobInv
  <2>2. jobs[j].wait \in Nat
    BY <2>1 DEF JobRow
  <2>3. JobInv(j, row)
    BY <2>1, <2>2, EndedJob
  <2>4. [jobs[j] EXCEPT !.status = "succeeded", !.owner = NoWorker, !.lease = 0,
                        !.finished = TRUE] = row
    BY <2>1 DEF JobRow
  <2>5. jobs' = [jobs EXCEPT ![j] = row]
    BY <1>2, <2>4 DEF CompleteJob
  <2> HIDE DEF row
  <2> QED BY <1>2, <2>3, <2>5, OneJob DEF CompleteJob
<1> QED BY <1>1, <1>2

LEMMA FailInv ==
  ASSUME QueueInv, NEW w \in Workers,
         \/ \E e \in Events : FailEvent(w, e)
         \/ \E j \in Jobs : FailJob(w, j)
  PROVE  QueueInv'
<1>1. ASSUME NEW e \in Events, FailEvent(w, e) PROVE QueueInv'
  <2> DEFINE r == events[e]
             over == Exhausted(e, r.attempts)
             dead == [r EXCEPT !.processed = FALSE, !.dead = ~ FALSE,
                               !.wait = r.wait, !.owner = NoWorker, !.lease = 0]
             back == Backoff(r.attempts)
             again == [r EXCEPT !.dead = FALSE, !.attempts = r.attempts,
                                !.wait = back, !.owner = NoWorker, !.lease = 0]
  <2>1. EventInv(e, r) /\ r \in EventRow
    BY DEF QueueInv, EventInv
  <2>2. r.wait \in Nat /\ r.attempts \in Nat /\ r.processed = FALSE
    BY <1>1, <2>1 DEF FailEvent, HoldsEvent, OpenEvent, EventRow
  <2>3. back \in Nat
    BY BackoffType
  <2>4. events' = [events EXCEPT ![e] =
           [r EXCEPT !.dead = over, !.wait = IF over THEN r.wait ELSE back,
                     !.owner = NoWorker, !.lease = 0]]
    BY <1>1 DEF FailEvent
  <2>5. CASE over
    <3>1. EventInv(e, dead)
      BY <2>1, <2>2, EndedEvent
    <3>2. [r EXCEPT !.dead = TRUE, !.wait = r.wait, !.owner = NoWorker,
                    !.lease = 0] = dead
      BY <2>1, <2>2 DEF EventRow
    <3>3. events' = [events EXCEPT ![e] = dead]
      BY <1>1, <2>5, <3>2 DEF FailEvent
    <3> HIDE DEF dead
    <3> QED BY <1>1, <3>1, <3>3, OneEvent DEF FailEvent
  <2>6. CASE ~ over
    <3>1. r.attempts < MaxAttempts[e]
      BY <2>2, <2>6, RowConstants DEF Exhausted
    <3> HIDE DEF back
    <3>2. EventInv(e, again)
      BY <2>1, <2>2, <2>3, <3>1, WaitingEvent
    <3>3. [r EXCEPT !.dead = FALSE, !.wait = back, !.owner = NoWorker,
                    !.lease = 0] = again
      BY <2>1 DEF EventRow
    <3>4. over = FALSE
      BY <2>6 DEF Exhausted
    <3>5. [r EXCEPT !.dead = over, !.wait = IF over THEN r.wait ELSE back,
                    !.owner = NoWorker, !.lease = 0] = again
      BY <3>3, <3>4
    <3>6. events' = [events EXCEPT ![e] = again]
      BY <2>4, <3>5
    <3> HIDE DEF again
    <3> QED BY <1>1, <3>2, <3>6, OneEvent DEF FailEvent
  <2> QED BY <2>5, <2>6
<1>2. ASSUME NEW j \in Jobs, FailJob(w, j) PROVE QueueInv'
  <2> DEFINE r == jobs[j]
             over == Exhausted(j, r.attempt)
             dead == [r EXCEPT !.status = "dead_lettered", !.wait = r.wait,
                        !.owner = NoWorker, !.lease = 0, !.finished = TRUE]
             back == Backoff(r.attempt)
             again == [r EXCEPT !.status = "retry_wait", !.attempt = r.attempt,
                         !.wait = back, !.owner = NoWorker, !.lease = 0,
                         !.finished = FALSE]
  <2>1. JobInv(j, r) /\ r \in JobRow
    BY DEF QueueInv, JobInv
  <2>2. r.wait \in Nat /\ r.attempt \in Nat
    BY <2>1 DEF JobRow
  <2>3. back \in Nat
    BY BackoffType
  <2>4. jobs' = [jobs EXCEPT ![j] =
           [r EXCEPT !.status = IF over THEN "dead_lettered" ELSE "retry_wait",
                     !.wait = IF over THEN r.wait ELSE back,
                     !.owner = NoWorker, !.lease = 0, !.finished = over]]
    BY <1>2 DEF FailJob
  <2>5. CASE over
    <3>1. JobInv(j, dead)
      BY <2>1, <2>2, EndedJob
    <3>2. jobs' = [jobs EXCEPT ![j] = dead]
      BY <1>2, <2>5 DEF FailJob
    <3> HIDE DEF dead
    <3> QED BY <1>2, <3>1, <3>2, OneJob DEF FailJob
  <2>6. CASE ~ over
    <3>1. r.attempt < MaxAttempts[j]
      BY <2>2, <2>6, RowConstants DEF Exhausted
    <3> HIDE DEF back
    <3>2. JobInv(j, again)
      BY <2>1, <2>2, <2>3, <3>1, WaitingJob
    <3>3. [r EXCEPT !.status = "retry_wait", !.wait = back, !.owner = NoWorker,
                    !.lease = 0, !.finished = FALSE] = again
      BY <2>1 DEF JobRow
    <3>4. over = FALSE
      BY <2>6 DEF Exhausted
    <3>5. [r EXCEPT !.status = IF over THEN "dead_lettered" ELSE "retry_wait",
                    !.wait = IF over THEN r.wait ELSE back,
                    !.owner = NoWorker, !.lease = 0, !.finished = over] = again
      BY <3>3, <3>4
    <3>6. jobs' = [jobs EXCEPT ![j] = again]
      BY <2>4, <3>5
    <3> HIDE DEF again
    <3> QED BY <1>2, <3>2, <3>6, OneJob DEF FailJob
  <2> QED BY <2>5, <2>6
<1> QED BY <1>1, <1>2

LEMMA ReapInv ==
  ASSUME QueueInv, NEW E \in SUBSET Events, NEW J \in SUBSET Jobs, Reap(E, J)
  PROVE  QueueInv'
<1>1. ASSUME NEW e \in Events PROVE EventInv(e, events'[e])
  <2> DEFINE r == events[e]
             row == [r EXCEPT !.processed = FALSE, !.dead = ~ FALSE,
                              !.wait = r.wait, !.owner = NoWorker, !.lease = 0]
  <2>1. EventInv(e, r) /\ r \in EventRow
    BY DEF QueueInv, EventInv
  <2>2. CASE e \in E
    <3>1. r.wait \in Nat /\ r.processed = FALSE
      BY <2>1, <2>2 DEF Reap, EventReapable, OpenEvent, EventRow
    <3>2. EventInv(e, row)
      BY <2>1, <3>1, EndedEvent
    <3>3. [r EXCEPT !.dead = TRUE, !.owner = NoWorker, !.lease = 0] = row
      BY <2>1, <3>1 DEF EventRow
    <3>4. events'[e] = row
      BY <2>2, <3>3 DEF Reap
    <3> QED BY <3>2, <3>4
  <2>3. CASE e \notin E
    BY <2>1, <2>3 DEF Reap
  <2> QED BY <2>2, <2>3
<1>2. ASSUME NEW j \in Jobs PROVE JobInv(j, jobs'[j])
  <2> DEFINE r == jobs[j]
             row == [r EXCEPT !.status = "dead_lettered", !.wait = r.wait,
                       !.owner = NoWorker, !.lease = 0, !.finished = TRUE]
  <2>1. JobInv(j, r) /\ r \in JobRow
    BY DEF QueueInv, JobInv
  <2>2. CASE j \in J
    <3>1. r.wait \in Nat
      BY <2>1 DEF JobRow
    <3>2. JobInv(j, row)
      BY <2>1, <3>1, EndedJob
    <3>3. [r EXCEPT !.status = "dead_lettered", !.owner = NoWorker, !.lease = 0,
                    !.finished = TRUE] = row
      BY <2>1 DEF JobRow
    <3>4. jobs'[j] = row
      BY <2>2, <3>3 DEF Reap
    <3> QED BY <3>2, <3>4
  <2>3. CASE j \notin J
    BY <2>1, <2>3 DEF Reap
  <2> QED BY <2>2, <2>3
<1> QED BY <1>1, <1>2 DEF Reap, QueueInv

LEMMA RequeueInv ==
  ASSUME QueueInv, Requeue
  PROVE  QueueInv'
<1>1. ASSUME NEW e \in Events, RequeueEvent(e) PROVE QueueInv'
  <2> DEFINE row == [events[e] EXCEPT !.dead = FALSE, !.attempts = 0, !.wait = 0,
                                      !.owner = NoWorker, !.lease = 0]
  <2>1. EventInv(e, events[e]) /\ events[e] \in EventRow
    BY DEF QueueInv, EventInv
  <2>2. events[e].processed = FALSE /\ 0 < MaxAttempts[e]
    BY <1>1, <2>1, RowConstants DEF RequeueEvent, EventRow
  <2>3. EventInv(e, row)
    BY <2>1, <2>2, WaitingEvent
  <2>4. events' = [events EXCEPT ![e] = row]
    BY <1>1 DEF RequeueEvent
  <2> HIDE DEF row
  <2> QED BY <1>1, <2>3, <2>4, OneEvent DEF RequeueEvent
<1>2. ASSUME NEW j \in Jobs, RequeueJob(j) PROVE QueueInv'
  <2> DEFINE row == [jobs[j] EXCEPT !.status = "retry_wait", !.attempt = 0,
                                    !.wait = 0, !.owner = NoWorker, !.lease = 0,
                                    !.finished = FALSE]
  <2>1. JobInv(j, jobs[j]) /\ 0 < MaxAttempts[j]
    BY RowConstants DEF QueueInv
  <2>2. JobInv(j, row)
    BY <2>1, WaitingJob
  <2>3. jobs' = [jobs EXCEPT ![j] = row]
    BY <1>2 DEF RequeueJob
  <2> HIDE DEF row
  <2> QED BY <1>2, <2>2, <2>3, OneJob DEF RequeueJob
<1> QED BY <1>1, <1>2 DEF Requeue

LEMMA TickInv ==
  ASSUME QueueInv, Tick
  PROVE  QueueInv'
<1>1. ASSUME NEW e \in Events PROVE EventInv(e, events'[e])
  <2>1. EventInv(e, events[e])
    BY DEF QueueInv
  <2>2. events'[e] = [events[e] EXCEPT !.wait = Less(events[e].wait),
                                       !.lease = Less(events[e].lease)]
    BY DEF Tick
  <2>3. EventInv(e, [events[e] EXCEPT !.wait = Less(events[e].wait),
                                      !.lease = Less(events[e].lease)])
    BY <2>1, OlderEvent
  <2> QED BY <2>2, <2>3
<1>2. ASSUME NEW j \in Jobs PROVE JobInv(j, jobs'[j])
  <2>1. JobInv(j, jobs[j])
    BY DEF QueueInv
  <2>2. jobs'[j] = [jobs[j] EXCEPT !.wait = Less(jobs[j].wait),
                                   !.lease = Less(jobs[j].lease)]
    BY DEF Tick
  <2>3. JobInv(j, [jobs[j] EXCEPT !.wait = Less(jobs[j].wait),
                                  !.lease = Less(jobs[j].lease)])
    BY <2>1, OlderJob
  <2> QED BY <2>2, <2>3
<1> QED BY <1>1, <1>2 DEF Tick, QueueInv

LEMMA NextInv ==
  ASSUME QueueInv, [Next]_vars
  PROVE  QueueInv'
<1>1. CASE Settle
  BY <1>1, CompleteInv, FailInv DEF Settle
<1>2. CASE \E E \in SUBSET Events, J \in SUBSET Jobs : Reap(E, J)
  BY <1>2, ReapInv
<1>3. CASE UNCHANGED vars
  BY <1>3 DEF vars, QueueInv
<1> QED BY <1>1, <1>2, <1>3, EnqueueInv, ClaimInv, RequeueInv, TickInv DEF Next

-----------------------------------------------------------------------------
(* Theorems *)

\* Every reachable state of the two tables satisfies the inductive invariant.
THEOREM QueueInvariant == Spec => []QueueInv
BY InitInv, NextInv, PTL DEF Spec

\* The variables of the queue keep their types (AsyncQueue!TypeOK).
THEOREM QueueTypeOK == Spec => []TypeOK
BY QueueInvariant, InvImplies, PTL

\* No call sequence of any workers, administrators and enqueuers leaves a row
\* that violates a CHECK of its table.
THEOREM ChecksHold == Spec => []RowChecks
BY QueueInvariant, InvImplies, PTL

\* No row is ever out of reach of both claim and reaper.
THEOREM NoRowStranded == Spec => []NoStrandedRow
BY QueueInvariant, InvImplies, PTL
-----------------------------------------------------------------------------
(* Refinement of LeasedWork.  A row that was never stored has spent none of *)
(* its budget (FreshRows), the one fact the row invariants do not give.    *)

FreshJob(row) == row.status = "absent" => row.attempt = 0

FreshEvent(row) ==
  ~ row.stored => row.attempts = 0 /\ ~ row.processed /\ ~ row.dead

FreshRows ==
  /\ \A j \in Jobs : FreshJob(jobs[j])
  /\ \A e \in Events : FreshEvent(events[e])

\* What a statement may do to the columns of a job that its item shows.
JobMove(j, r, q) ==
  \/ /\ q.status = r.status /\ q.attempt = r.attempt /\ q.owner = r.owner
     /\ q.lease = r.lease \/ q.lease = Less(r.lease)
  \/ /\ r.status = "absent" /\ q.status = "pending" /\ q.attempt = r.attempt
     /\ q.owner = r.owner /\ q.lease = r.lease
  \/ /\ r.attempt < MaxAttempts[j]
     /\ \/ r.status \in {"pending", "retry_wait"}
        \/ r.status = "running" /\ r.lease = 0
     /\ q.status = "running" /\ q.attempt = r.attempt + 1
     /\ q.owner \in Workers /\ q.lease = LeaseSeconds
  \/ /\ r.status = "running" /\ q.attempt = r.attempt
     /\ q.owner = NoWorker /\ q.lease = 0
     /\ \/ q.status = "succeeded"
        \/ q.status = "dead_lettered" /\ r.attempt >= MaxAttempts[j]
        \/ q.status = "retry_wait" /\ r.attempt < MaxAttempts[j]
  \/ /\ r.status = "dead_lettered" /\ q.status = "retry_wait" /\ q.attempt = 0
     /\ q.owner = NoWorker /\ q.lease = 0

\* The same for an event.
EventMove(e, r, q) ==
  \/ /\ q.stored = r.stored /\ q.processed = r.processed /\ q.dead = r.dead
     /\ q.attempts = r.attempts /\ q.owner = r.owner
     /\ q.lease = r.lease \/ q.lease = Less(r.lease)
  \/ /\ ~ r.stored /\ q.stored /\ q.processed = r.processed
     /\ q.dead = r.dead /\ q.attempts = r.attempts
     /\ q.owner = r.owner /\ q.lease = r.lease
  \/ /\ r.stored /\ ~ r.processed /\ ~ r.dead
     /\ q.stored /\ ~ q.processed /\ ~ q.dead
     /\ r.attempts < MaxAttempts[e]
     /\ r.owner = NoWorker \/ r.lease = 0
     /\ q.attempts = r.attempts + 1
     /\ q.owner \in Workers /\ q.lease = LeaseSeconds
  \/ /\ r.stored /\ ~ r.processed /\ ~ r.dead /\ r.owner # NoWorker
     /\ q.stored /\ q.attempts = r.attempts
     /\ q.owner = NoWorker /\ q.lease = 0
     /\ \/ q.processed /\ ~ q.dead
        \/ ~ q.processed /\ q.dead /\ r.attempts >= MaxAttempts[e]
        \/ ~ q.processed /\ ~ q.dead /\ r.attempts < MaxAttempts[e]
  \/ /\ ~ r.processed /\ r.dead /\ q.stored = r.stored
     /\ ~ q.processed /\ ~ q.dead
     /\ q.attempts = 0 /\ q.owner = NoWorker /\ q.lease = 0

\* Every statement moves every job in one of these ways.
LEMMA JobsMove ==
  ASSUME QueueInv, Next, NEW j \in Jobs
  PROVE  JobMove(j, jobs[j], jobs'[j])
<1> DEFINE r == jobs[j]
           q == jobs'[j]
<1>0. /\ r \in JobRow
      /\ jobs = [k \in Jobs |-> jobs[k]]
  BY DEF QueueInv, JobInv
<1>1. CASE Enqueue
  <2>1. CASE \E e \in Events : EnqueueEvent(e)
    BY <2>1 DEF EnqueueEvent, JobMove
  <2>2. ASSUME NEW k \in Jobs, EnqueueJob(k) PROVE JobMove(j, r, q)
    <3>1. PICK d \in 0..MaxDelay :
            jobs' = [jobs EXCEPT ![k].status = "pending", ![k].wait = d]
      BY <2>2 DEF EnqueueJob
    <3>2. CASE k = j
      <4>1. q = [r EXCEPT !.status = "pending", !.wait = d]
        BY <1>0, <3>1, <3>2
      <4>2. r.status = "absent"
        BY <2>2, <3>2 DEF EnqueueJob
      <4> QED BY <1>0, <4>1, <4>2 DEF JobMove, JobRow
    <3>3. CASE k # j
      BY <1>0, <3>1, <3>3 DEF JobMove
    <3> QED BY <3>2, <3>3
  <2> QED BY <1>1, <2>1, <2>2 DEF Enqueue
<1>2. CASE Claim
  <2> PICK w \in Workers :
        \/ \E S \in SUBSET Events : ClaimEvents(w, S)
        \/ \E S \in SUBSET Jobs : ClaimJobs(w, S)
    BY <1>2 DEF Claim
  <2>1. CASE \E S \in SUBSET Events : ClaimEvents(w, S)
    BY <2>1 DEF ClaimEvents, JobMove
  <2>2. ASSUME NEW S \in SUBSET Jobs, ClaimJobs(w, S)
        PROVE  JobMove(j, r, q)
    <3>1. CASE j \in S
      <4>1. q = [r EXCEPT !.status = "running", !.attempt = r.attempt + 1,
                          !.owner = w, !.lease = LeaseSeconds]
        BY <2>2, <3>1 DEF ClaimJobs
      <4>2. JobClaimable(j)
        BY <2>2, <3>1 DEF ClaimJobs
      <4> QED BY <1>0, <4>1, <4>2 DEF JobMove, JobRow, JobClaimable
    <3>2. CASE j \notin S
      <4>1. q = r
        BY <2>2, <3>2 DEF ClaimJobs
      <4> QED BY <4>1 DEF JobMove
    <3> QED BY <3>1, <3>2
  <2> QED BY <2>1, <2>2
<1>3. CASE Settle
  <2> PICK w \in Workers :
        \/ \E e \in Events : CompleteEvent(w, e) \/ FailEvent(w, e)
        \/ \E k \in Jobs : CompleteJob(w, k) \/ FailJob(w, k)
    BY <1>3 DEF Settle
  <2>1. CASE \E e \in Events : CompleteEvent(w, e) \/ FailEvent(w, e)
    BY <2>1 DEF CompleteEvent, FailEvent, JobMove
  <2>2. ASSUME NEW k \in Jobs, CompleteJob(w, k) PROVE JobMove(j, r, q)
    <3>1. CASE k = j
      <4>1. q = [r EXCEPT !.status = "succeeded", !.owner = NoWorker,
                          !.lease = 0, !.finished = TRUE]
        BY <1>0, <2>2, <3>1 DEF CompleteJob
      <4>2. r.status = "running"
        BY <2>2, <3>1 DEF CompleteJob, HoldsJob
      <4> QED BY <1>0, <4>1, <4>2 DEF JobMove, JobRow
    <3>2. CASE k # j
      BY <1>0, <2>2, <3>2 DEF CompleteJob, JobMove
    <3> QED BY <3>1, <3>2
  <2>3. ASSUME NEW k \in Jobs, FailJob(w, k) PROVE JobMove(j, r, q)
    <3>1. CASE k = j
      <4> DEFINE over == Exhausted(j, r.attempt)
                 m == IF over THEN r.wait ELSE Backoff(r.attempt)
                 s == IF over THEN "dead_lettered" ELSE "retry_wait"
      <4>1. q = [r EXCEPT !.status = s, !.wait = m, !.owner = NoWorker,
                          !.lease = 0, !.finished = over]
        BY <1>0, <2>3, <3>1 DEF FailJob
      <4>2. r.status = "running"
        BY <2>3, <3>1 DEF FailJob, HoldsJob
      <4>3. /\ over => s = "dead_lettered" /\ r.attempt >= MaxAttempts[j]
            /\ ~ over => s = "retry_wait" /\ r.attempt < MaxAttempts[j]
        BY <1>0, RowConstants DEF Exhausted, JobRow
      <4> HIDE DEF m, s, over
      <4>4. /\ q.status = s /\ q.attempt = r.attempt
            /\ q.owner = NoWorker /\ q.lease = 0
        BY <1>0, <4>1 DEF JobRow
      <4> QED BY <4>2, <4>3, <4>4 DEF JobMove
    <3>2. CASE k # j
      BY <1>0, <2>3, <3>2 DEF FailJob, JobMove
    <3> QED BY <3>1, <3>2
  <2> QED BY <2>1, <2>2, <2>3
<1>4. ASSUME NEW E \in SUBSET Events, NEW J \in SUBSET Jobs, Reap(E, J)
      PROVE  JobMove(j, r, q)
  <2>1. CASE j \in J
    <3>1. q = [r EXCEPT !.status = "dead_lettered", !.owner = NoWorker,
                        !.lease = 0, !.finished = TRUE]
      BY <1>4, <2>1 DEF Reap
    <3>2. JobReapable(j)
      BY <1>4, <2>1 DEF Reap
    <3> QED BY <1>0, <3>1, <3>2 DEF JobMove, JobRow, JobReapable
  <2>2. CASE j \notin J
    <3>1. q = r
      BY <1>4, <2>2 DEF Reap
    <3> QED BY <3>1 DEF JobMove
  <2> QED BY <2>1, <2>2
<1>5. CASE Requeue
  <2>1. CASE \E e \in Events : RequeueEvent(e)
    BY <2>1 DEF RequeueEvent, JobMove
  <2>2. ASSUME NEW k \in Jobs, RequeueJob(k) PROVE JobMove(j, r, q)
    <3>1. CASE k = j
      <4>1. q = [r EXCEPT !.status = "retry_wait", !.attempt = 0, !.wait = 0,
                          !.owner = NoWorker, !.lease = 0, !.finished = FALSE]
        BY <1>0, <2>2, <3>1 DEF RequeueJob
      <4>2. r.status = "dead_lettered"
        BY <2>2, <3>1 DEF RequeueJob
      <4> QED BY <1>0, <4>1, <4>2 DEF JobMove, JobRow
    <3>2. CASE k # j
      BY <1>0, <2>2, <3>2 DEF RequeueJob, JobMove
    <3> QED BY <3>1, <3>2
  <2> QED BY <1>5, <2>1, <2>2 DEF Requeue
<1>6. CASE Tick
  <2>1. q = [r EXCEPT !.wait = Less(r.wait), !.lease = Less(r.lease)]
    BY <1>6 DEF Tick
  <2> QED BY <1>0, <2>1 DEF JobMove, JobRow
<1> QED BY <1>1, <1>2, <1>3, <1>4, <1>5, <1>6 DEF Next


\* Every statement moves every event in one of these ways.
LEMMA EventsMove ==
  ASSUME QueueInv, Next, NEW e \in Events
  PROVE  EventMove(e, events[e], events'[e])
<1> DEFINE r == events[e]
           q == events'[e]
<1>0. /\ r \in EventRow
      /\ events = [k \in Events |-> events[k]]
  BY DEF QueueInv, EventInv
<1>1. CASE Enqueue
  <2>1. CASE \E j \in Jobs : EnqueueJob(j)
    BY <2>1 DEF EnqueueJob, EventMove
  <2>2. ASSUME NEW k \in Events, EnqueueEvent(k) PROVE EventMove(e, r, q)
    <3>1. PICK d \in 0..MaxDelay :
            events' = [events EXCEPT ![k].stored = TRUE, ![k].wait = d]
      BY <2>2 DEF EnqueueEvent
    <3>2. CASE k = e
      <4>1. q = [r EXCEPT !.stored = TRUE, !.wait = d]
        BY <1>0, <3>1, <3>2
      <4>2. ~ r.stored
        BY <2>2, <3>2 DEF EnqueueEvent
      <4> QED BY <1>0, <4>1, <4>2 DEF EventMove, EventRow
    <3>3. CASE k # e
      BY <1>0, <3>1, <3>3 DEF EventMove
    <3> QED BY <3>2, <3>3
  <2> QED BY <1>1, <2>1, <2>2 DEF Enqueue
<1>2. CASE Claim
  <2> PICK w \in Workers :
        \/ \E S \in SUBSET Events : ClaimEvents(w, S)
        \/ \E S \in SUBSET Jobs : ClaimJobs(w, S)
    BY <1>2 DEF Claim
  <2>1. CASE \E S \in SUBSET Jobs : ClaimJobs(w, S)
    BY <2>1 DEF ClaimJobs, EventMove
  <2>2. ASSUME NEW S \in SUBSET Events, ClaimEvents(w, S)
        PROVE  EventMove(e, r, q)
    <3>1. CASE e \in S
      <4>1. q = [r EXCEPT !.attempts = r.attempts + 1, !.owner = w,
                          !.lease = LeaseSeconds]
        BY <2>2, <3>1 DEF ClaimEvents
      <4>2. EventClaimable(e)
        BY <2>2, <3>1 DEF ClaimEvents
      <4>3. /\ r.stored /\ ~ r.processed /\ ~ r.dead
            /\ r.attempts < MaxAttempts[e]
            /\ r.owner = NoWorker \/ r.lease = 0
        BY <4>2 DEF EventClaimable, OpenEvent
      <4>4. /\ q.stored = r.stored /\ q.processed = r.processed
            /\ q.dead = r.dead /\ q.attempts = r.attempts + 1
            /\ q.owner = w /\ q.lease = LeaseSeconds
        BY <1>0, <4>1 DEF EventRow
      <4> QED BY <4>3, <4>4 DEF EventMove
    <3>2. CASE e \notin S
      <4>1. q = r
        BY <2>2, <3>2 DEF ClaimEvents
      <4> QED BY <4>1 DEF EventMove
    <3> QED BY <3>1, <3>2
  <2> QED BY <2>1, <2>2
<1>3. CASE Settle
  <2> PICK w \in Workers :
        \/ \E k \in Events : CompleteEvent(w, k) \/ FailEvent(w, k)
        \/ \E j \in Jobs : CompleteJob(w, j) \/ FailJob(w, j)
    BY <1>3 DEF Settle
  <2>1. CASE \E j \in Jobs : CompleteJob(w, j) \/ FailJob(w, j)
    BY <2>1 DEF CompleteJob, FailJob, EventMove
  <2>2. ASSUME HoldsEvent(w, e)
        PROVE  r.stored /\ ~ r.processed /\ ~ r.dead /\ r.owner # NoWorker
    BY <2>2, RowConstants DEF HoldsEvent, OpenEvent
  <2>3. ASSUME NEW k \in Events, CompleteEvent(w, k) PROVE EventMove(e, r, q)
    <3>1. CASE k = e
      <4>1. q = [r EXCEPT !.processed = TRUE, !.owner = NoWorker, !.lease = 0]
        BY <1>0, <2>3, <3>1 DEF CompleteEvent
      <4>2. /\ q.stored = r.stored /\ q.processed /\ q.dead = r.dead
            /\ q.attempts = r.attempts /\ q.owner = NoWorker /\ q.lease = 0
        BY <1>0, <4>1 DEF EventRow
      <4>3. r.stored /\ ~ r.processed /\ ~ r.dead /\ r.owner # NoWorker
        BY <2>2, <2>3, <3>1 DEF CompleteEvent
      <4> QED BY <4>2, <4>3 DEF EventMove
    <3>2. CASE k # e
      BY <1>0, <2>3, <3>2 DEF CompleteEvent, EventMove
    <3> QED BY <3>1, <3>2
  <2>4. ASSUME NEW k \in Events, FailEvent(w, k) PROVE EventMove(e, r, q)
    <3>1. CASE k = e
      <4> DEFINE over == Exhausted(e, r.attempts)
                 m == IF over THEN r.wait ELSE Backoff(r.attempts)
      <4>1. q = [r EXCEPT !.dead = over, !.wait = m, !.owner = NoWorker,
                          !.lease = 0]
        BY <1>0, <2>4, <3>1 DEF FailEvent
      <4>2. /\ over \in BOOLEAN
            /\ over => r.attempts >= MaxAttempts[e]
            /\ ~ over => r.attempts < MaxAttempts[e]
        BY <1>0, RowConstants DEF Exhausted, EventRow
      <4>3. r.stored /\ ~ r.processed /\ ~ r.dead /\ r.owner # NoWorker
        BY <2>2, <2>4, <3>1 DEF FailEvent
      <4> HIDE DEF m, over
      <4>4. /\ q.stored = r.stored /\ q.processed = r.processed
            /\ q.dead = over /\ q.attempts = r.attempts
            /\ q.owner = NoWorker /\ q.lease = 0
        BY <1>0, <4>1 DEF EventRow
      <4> QED BY <4>2, <4>3, <4>4 DEF EventMove
    <3>2. CASE k # e
      BY <1>0, <2>4, <3>2 DEF FailEvent, EventMove
    <3> QED BY <3>1, <3>2
  <2> QED BY <2>1, <2>3, <2>4
<1>4. ASSUME NEW E \in SUBSET Events, NEW J \in SUBSET Jobs, Reap(E, J)
      PROVE  EventMove(e, r, q)
  <2>1. CASE e \in E
    <3>1. q = [r EXCEPT !.dead = TRUE, !.owner = NoWorker, !.lease = 0]
      BY <1>4, <2>1 DEF Reap
    <3>2. EventReapable(e)
      BY <1>4, <2>1 DEF Reap
    <3>3. /\ q.stored = r.stored /\ q.processed = r.processed /\ q.dead
          /\ q.attempts = r.attempts /\ q.owner = NoWorker /\ q.lease = 0
      BY <1>0, <3>1 DEF EventRow
    <3>4. /\ r.stored /\ ~ r.processed /\ ~ r.dead /\ r.owner # NoWorker
          /\ r.attempts >= MaxAttempts[e]
      BY <3>2 DEF EventReapable, OpenEvent
    <3> QED BY <3>3, <3>4 DEF EventMove
  <2>2. CASE e \notin E
    <3>1. q = r
      BY <1>4, <2>2 DEF Reap
    <3> QED BY <3>1 DEF EventMove
  <2> QED BY <2>1, <2>2
<1>5. CASE Requeue
  <2>1. CASE \E j \in Jobs : RequeueJob(j)
    BY <2>1 DEF RequeueJob, EventMove
  <2>2. ASSUME NEW k \in Events, RequeueEvent(k) PROVE EventMove(e, r, q)
    <3>1. CASE k = e
      <4>1. q = [r EXCEPT !.dead = FALSE, !.attempts = 0, !.wait = 0,
                          !.owner = NoWorker, !.lease = 0]
        BY <1>0, <2>2, <3>1 DEF RequeueEvent
      <4>2. /\ q.stored = r.stored /\ q.processed = r.processed /\ ~ q.dead
            /\ q.attempts = 0 /\ q.owner = NoWorker /\ q.lease = 0
        BY <1>0, <4>1 DEF EventRow
      <4>3. ~ r.processed /\ r.dead
        BY <2>2, <3>1 DEF RequeueEvent
      <4> QED BY <4>2, <4>3 DEF EventMove
    <3>2. CASE k # e
      BY <1>0, <2>2, <3>2 DEF RequeueEvent, EventMove
    <3> QED BY <3>1, <3>2
  <2> QED BY <1>5, <2>1, <2>2 DEF Requeue
<1>6. CASE Tick
  <2>1. q = [r EXCEPT !.wait = Less(r.wait), !.lease = Less(r.lease)]
    BY <1>6 DEF Tick
  <2>2. /\ q.stored = r.stored /\ q.processed = r.processed /\ q.dead = r.dead
        /\ q.attempts = r.attempts /\ q.owner = r.owner
        /\ q.lease = Less(r.lease)
    BY <1>0, <2>1 DEF EventRow
  <2> QED BY <2>2 DEF EventMove
<1> QED BY <1>1, <1>2, <1>3, <1>4, <1>5, <1>6 DEF Next

\* A row stays fresh until it is stored, and a job never becomes absent again.
LEMMA FreshStep ==
  ASSUME QueueInv, FreshRows, Next
  PROVE  FreshRows'
<1>1. ASSUME NEW j \in Jobs PROVE FreshJob(jobs'[j])
  BY JobsMove DEF JobMove, FreshRows, FreshJob
<1>2. ASSUME NEW e \in Events PROVE FreshEvent(events'[e])
  BY EventsMove DEF EventMove, FreshRows, FreshEvent
<1> QED BY <1>1, <1>2 DEF FreshRows

\* One way of moving a row is one step of its item, or none.
ItemStep(b, x, y) ==
  \/ y = x
  \/ x = Work!New /\ y = Work!Waiting(0)
  \/ /\ x.phase \in {"waiting", "leased"} /\ ~ x.valid /\ x.used < b
     /\ \E w \in Workers : y = [phase |-> "leased", used |-> x.used + 1,
                                holder |-> w, valid |-> TRUE]
  \/ /\ x.phase = "leased" /\ x.valid
     /\ y = [phase |-> "leased", used |-> x.used, holder |-> x.holder,
             valid |-> FALSE]
  \/ x.phase = "leased" /\ y = Work!Closed("done", x.used)
  \/ x.phase = "leased" /\ x.used < b /\ y = Work!Waiting(x.used)
  \/ x.phase = "leased" /\ x.used = b /\ y = Work!Closed("dead", x.used)
  \/ x.phase = "dead" /\ y = Work!Waiting(0)

PhaseOfJob(s) ==
  IF s = "absent" THEN "none"
  ELSE IF s \in {"pending", "retry_wait"} THEN "waiting"
  ELSE IF s = "running" THEN "leased"
  ELSE IF s = "succeeded" THEN "done" ELSE "dead"

PhaseOfEvent(r) ==
  IF ~ r.stored THEN "none"
  ELSE IF r.processed THEN "done"
  ELSE IF r.dead THEN "dead"
  ELSE IF r.owner # NoWorker THEN "leased" ELSE "waiting"

JobItem(r) == [phase |-> PhaseOfJob(r.status), used |-> r.attempt,
               holder |-> r.owner, valid |-> r.lease > 0]

EventItem(r) == [phase |-> PhaseOfEvent(r), used |-> r.attempts,
                 holder |-> r.owner, valid |-> r.lease > 0]

ItemsShowRows ==
  /\ \A j \in Jobs : ItemOfJob(j) = JobItem(jobs[j])
  /\ \A e \in Events : ItemOfEvent(e) = EventItem(events[e])

\* The mapping, on rows.  Its cases for an event exclude each other only since
\* an event that was not stored has no result, and none has two.
LEMMA ItemsOfRows == QueueInv /\ FreshRows => ItemsShowRows
<1> SUFFICES ASSUME QueueInv, FreshRows PROVE ItemsShowRows
  OBVIOUS
<1>1. ASSUME NEW j \in Jobs PROVE ItemOfJob(j) = JobItem(jobs[j])
  <2>1. jobs[j].status \in JobStatus
    BY DEF QueueInv, JobInv, JobRow
  <2> QED BY <2>1 DEF ItemOfJob, JobItem, PhaseOfJob, JobStatus
<1>2. ASSUME NEW e \in Events PROVE ItemOfEvent(e) = EventItem(events[e])
  <2>1. /\ events[e].stored \in BOOLEAN /\ events[e].processed \in BOOLEAN
        /\ events[e].dead \in BOOLEAN
    BY DEF QueueInv, EventInv, EventRow
  <2>2. /\ ~ events[e].stored => ~ events[e].processed /\ ~ events[e].dead
        /\ ~ (events[e].processed /\ events[e].dead)
    BY DEF QueueInv, EventInv, EventChecks, FreshRows, FreshEvent
  <2>3. CASE ~ events[e].stored
    BY <2>1, <2>2, <2>3 DEF ItemOfEvent, EventItem, PhaseOfEvent, OpenEvent
  <2>4. CASE events[e].stored /\ events[e].processed
    BY <2>1, <2>2, <2>4 DEF ItemOfEvent, EventItem, PhaseOfEvent, OpenEvent
  <2>5. CASE events[e].stored /\ events[e].dead
    BY <2>1, <2>2, <2>5 DEF ItemOfEvent, EventItem, PhaseOfEvent, OpenEvent
  <2>6. CASE OpenEvent(e)
    BY <2>1, <2>2, <2>6 DEF ItemOfEvent, EventItem, PhaseOfEvent, OpenEvent
  <2> QED BY <2>1, <2>3, <2>4, <2>5, <2>6 DEF OpenEvent
<1> QED BY <1>1, <1>2 DEF ItemsShowRows

ItemRow == [phase: {"none", "waiting", "leased", "done", "dead"}, used: Nat,
            holder: Workers \cup {NoWorker}, valid: BOOLEAN]

\* What a lapse makes of an item, column by column.
LEMMA LapsedRecord ==
  ASSUME NEW x \in ItemRow
  PROVE  [x EXCEPT !.valid = FALSE] = [phase |-> x.phase, used |-> x.used,
                                       holder |-> x.holder, valid |-> FALSE]
<1> DEFINE y == [x EXCEPT !.valid = FALSE]
           z == [phase |-> x.phase, used |-> x.used, holder |-> x.holder,
                 valid |-> FALSE]
<1>1. y \in ItemRow /\ z \in ItemRow
  BY DEF ItemRow
<1>2. /\ y.phase = z.phase /\ y.used = z.used
      /\ y.holder = z.holder /\ y.valid = z.valid
  BY DEF ItemRow
<1> HIDE DEF y, z
<1>3. y = z
  BY <1>1, <1>2 DEF ItemRow
<1> QED BY <1>3 DEF y, z

\* A lease that runs out is a lapse.
LEMMA LapsedItem ==
  ASSUME NEW b, NEW n, NEW w
  PROVE  ItemStep(b, [phase |-> "leased", used |-> n, holder |-> w,
                      valid |-> TRUE],
                     [phase |-> "leased", used |-> n, holder |-> w,
                      valid |-> FALSE])
BY DEF ItemStep

\* The item of a job moves as its row does.
LEMMA JobItemSteps ==
  ASSUME NEW j \in Jobs, NEW r, NEW q, JobInv(j, r), JobInv(j, q),
         FreshJob(r), JobMove(j, r, q)
  PROVE  ItemStep(MaxAttempts[j], JobItem(r), JobItem(q))
<1>1. /\ r.status \in JobStatus /\ r.attempt \in Nat
      /\ r.lease \in 0..LeaseSeconds /\ q.lease \in 0..LeaseSeconds
      /\ r.owner \in Workers \cup {NoWorker}
      /\ r.attempt <= MaxAttempts[j]
      /\ r.status = "running" <=> r.owner # NoWorker
      /\ r.owner = NoWorker => r.lease = 0
  BY DEF JobInv, JobChecks, JobRow
<1>2. LeaseSeconds \in Nat \ {0} /\ MaxAttempts[j] \in Nat \ {0}
  BY RowConstants
<1>3. CASE /\ q.status = r.status /\ q.attempt = r.attempt /\ q.owner = r.owner
           /\ q.lease = r.lease \/ q.lease = Less(r.lease)
  <2> DEFINE p == PhaseOfJob(r.status)
  <2>1. JobItem(q) = [phase |-> p, used |-> r.attempt, holder |-> r.owner,
                      valid |-> q.lease > 0]
    BY <1>3 DEF JobItem
  <2>2. JobItem(r) = [phase |-> p, used |-> r.attempt, holder |-> r.owner,
                      valid |-> r.lease > 0]
    BY DEF JobItem
  <2>3. CASE (q.lease > 0) = (r.lease > 0)
    BY <2>1, <2>2, <2>3 DEF ItemStep
  <2>4. CASE (q.lease > 0) # (r.lease > 0)
    <3>1. (q.lease > 0) = FALSE /\ (r.lease > 0) = TRUE
      BY <1>1, <1>2, <1>3, <2>4 DEF Less
    <3>2. p = "leased"
      BY <1>1, <3>1 DEF PhaseOfJob
    <3> HIDE DEF p
    <3> QED BY <2>1, <2>2, <3>1, <3>2, LapsedItem
  <2> QED BY <2>3, <2>4
<1>4. CASE /\ r.status = "absent" /\ q.status = "pending"
           /\ q.attempt = r.attempt /\ q.owner = r.owner /\ q.lease = r.lease
  <2>1. r.attempt = 0 /\ r.owner = NoWorker /\ r.lease = 0
    BY <1>1, <1>4 DEF FreshJob
  <2>2. (r.lease > 0) = FALSE /\ (q.lease > 0) = FALSE
    BY <1>4, <2>1
  <2>3. JobItem(r) = Work!New /\ JobItem(q) = Work!Waiting(0)
    BY <1>4, <2>1, <2>2 DEF JobItem, PhaseOfJob, Work!New, Work!Waiting
  <2> QED BY <2>3 DEF ItemStep
<1>5. CASE /\ r.attempt < MaxAttempts[j]
           /\ \/ r.status \in {"pending", "retry_wait"}
              \/ r.status = "running" /\ r.lease = 0
           /\ q.status = "running" /\ q.attempt = r.attempt + 1
           /\ q.owner \in Workers /\ q.lease = LeaseSeconds
  <2>1. r.lease = 0
    BY <1>1, <1>5
  <2>2. (r.lease > 0) = FALSE /\ (q.lease > 0) = TRUE
    BY <1>2, <1>5, <2>1
  <2>3. /\ JobItem(r).phase \in {"waiting", "leased"}
        /\ JobItem(r).valid = FALSE /\ JobItem(r).used = r.attempt
    BY <1>5, <2>2 DEF JobItem, PhaseOfJob
  <2>4. JobItem(q) = [phase |-> "leased", used |-> r.attempt + 1,
                      holder |-> q.owner, valid |-> TRUE]
    BY <1>5, <2>2 DEF JobItem, PhaseOfJob
  <2> QED BY <1>5, <2>3, <2>4 DEF ItemStep
<1>6. CASE /\ r.status = "running" /\ q.attempt = r.attempt
           /\ q.owner = NoWorker /\ q.lease = 0
           /\ \/ q.status = "succeeded"
              \/ q.status = "dead_lettered" /\ r.attempt >= MaxAttempts[j]
              \/ q.status = "retry_wait" /\ r.attempt < MaxAttempts[j]
  <2>1. (q.lease > 0) = FALSE
    BY <1>6
  <2>2. JobItem(r).phase = "leased" /\ JobItem(r).used = r.attempt
    BY <1>6 DEF JobItem, PhaseOfJob
  <2>3. CASE q.status = "succeeded"
    <3>1. JobItem(q) = Work!Closed("done", r.attempt)
      BY <1>6, <2>1, <2>3 DEF JobItem, PhaseOfJob, Work!Closed
    <3> QED BY <2>2, <3>1 DEF ItemStep
  <2>4. CASE q.status = "dead_lettered" /\ r.attempt >= MaxAttempts[j]
    <3>1. JobItem(q) = Work!Closed("dead", r.attempt)
      BY <1>6, <2>1, <2>4 DEF JobItem, PhaseOfJob, Work!Closed
    <3>2. r.attempt = MaxAttempts[j]
      BY <1>1, <1>2, <2>4
    <3> QED BY <2>2, <3>1, <3>2 DEF ItemStep
  <2>5. CASE q.status = "retry_wait" /\ r.attempt < MaxAttempts[j]
    <3>1. JobItem(q) = Work!Waiting(r.attempt)
      BY <1>6, <2>1, <2>5 DEF JobItem, PhaseOfJob, Work!Waiting
    <3> QED BY <2>2, <2>5, <3>1 DEF ItemStep
  <2> QED BY <1>6, <2>3, <2>4, <2>5
<1>7. CASE /\ r.status = "dead_lettered" /\ q.status = "retry_wait"
           /\ q.attempt = 0 /\ q.owner = NoWorker /\ q.lease = 0
  <2>1. (q.lease > 0) = FALSE
    BY <1>7
  <2>2. JobItem(r).phase = "dead" /\ JobItem(q) = Work!Waiting(0)
    BY <1>7, <2>1 DEF JobItem, PhaseOfJob, Work!Waiting
  <2> QED BY <2>2 DEF ItemStep
<1> QED BY <1>3, <1>4, <1>5, <1>6, <1>7 DEF JobMove

\* The item of an event moves as its row does.
LEMMA EventItemSteps ==
  ASSUME NEW e \in Events, NEW r, NEW q, EventInv(e, r), EventInv(e, q),
         FreshEvent(r), EventMove(e, r, q)
  PROVE  ItemStep(MaxAttempts[e], EventItem(r), EventItem(q))
<1>1. /\ r.attempts \in Nat /\ r.attempts <= MaxAttempts[e]
      /\ r.lease \in 0..LeaseSeconds /\ q.lease \in 0..LeaseSeconds
      /\ r.owner = NoWorker => r.lease = 0
      /\ r.processed \/ r.dead \/ ~ r.stored => r.owner = NoWorker
      /\ ~ (r.processed /\ r.dead)
      /\ ~ r.stored => r.attempts = 0 /\ ~ r.processed /\ ~ r.dead
  BY DEF EventInv, EventChecks, EventRow, FreshEvent
<1>2. /\ LeaseSeconds \in Nat \ {0} /\ MaxAttempts[e] \in Nat \ {0}
      /\ NoWorker \notin Workers
  BY RowConstants
<1>3. CASE /\ q.stored = r.stored /\ q.processed = r.processed
           /\ q.dead = r.dead /\ q.attempts = r.attempts /\ q.owner = r.owner
           /\ q.lease = r.lease \/ q.lease = Less(r.lease)
  <2> DEFINE p == PhaseOfEvent(r)
  <2>1. EventItem(q) = [phase |-> p, used |-> r.attempts, holder |-> r.owner,
                        valid |-> q.lease > 0]
    BY <1>3 DEF EventItem, PhaseOfEvent
  <2>2. EventItem(r) = [phase |-> p, used |-> r.attempts, holder |-> r.owner,
                        valid |-> r.lease > 0]
    BY DEF EventItem
  <2>3. CASE (q.lease > 0) = (r.lease > 0)
    BY <2>1, <2>2, <2>3 DEF ItemStep
  <2>4. CASE (q.lease > 0) # (r.lease > 0)
    <3>1. (q.lease > 0) = FALSE /\ (r.lease > 0) = TRUE
      BY <1>1, <1>2, <1>3, <2>4 DEF Less
    <3>2. p = "leased"
      BY <1>1, <3>1 DEF PhaseOfEvent
    <3> HIDE DEF p
    <3> QED BY <2>1, <2>2, <3>1, <3>2, LapsedItem
  <2> QED BY <2>3, <2>4
<1>4. CASE /\ ~ r.stored /\ q.stored /\ q.processed = r.processed
           /\ q.dead = r.dead /\ q.attempts = r.attempts
           /\ q.owner = r.owner /\ q.lease = r.lease
  <2>1. /\ r.attempts = 0 /\ r.owner = NoWorker /\ r.lease = 0
        /\ ~ q.processed /\ ~ q.dead
    BY <1>1, <1>4
  <2>2. (r.lease > 0) = FALSE /\ (q.lease > 0) = FALSE
    BY <1>4, <2>1
  <2>3. EventItem(r) = Work!New
    BY <1>4, <2>1, <2>2 DEF EventItem, PhaseOfEvent, Work!New
  <2>4. EventItem(q) = Work!Waiting(0)
    BY <1>4, <2>1, <2>2 DEF EventItem, PhaseOfEvent, Work!Waiting
  <2> QED BY <2>3, <2>4 DEF ItemStep
<1>5. CASE /\ r.stored /\ ~ r.processed /\ ~ r.dead
           /\ q.stored /\ ~ q.processed /\ ~ q.dead
           /\ r.attempts < MaxAttempts[e]
           /\ r.owner = NoWorker \/ r.lease = 0
           /\ q.attempts = r.attempts + 1
           /\ q.owner \in Workers /\ q.lease = LeaseSeconds
  <2>1. r.lease = 0
    BY <1>1, <1>5
  <2>2. (r.lease > 0) = FALSE /\ (q.lease > 0) = TRUE
    BY <1>2, <1>5, <2>1
  <2>3. /\ EventItem(r).phase \in {"waiting", "leased"}
        /\ EventItem(r).valid = FALSE /\ EventItem(r).used = r.attempts
    BY <1>5, <2>2 DEF EventItem, PhaseOfEvent
  <2>4. q.owner # NoWorker
    BY <1>2, <1>5
  <2>5. EventItem(q) = [phase |-> "leased", used |-> r.attempts + 1,
                        holder |-> q.owner, valid |-> TRUE]
    BY <1>5, <2>2, <2>4 DEF EventItem, PhaseOfEvent
  <2> QED BY <1>5, <2>3, <2>5 DEF ItemStep
<1>6. CASE /\ r.stored /\ ~ r.processed /\ ~ r.dead /\ r.owner # NoWorker
           /\ q.stored /\ q.attempts = r.attempts
           /\ q.owner = NoWorker /\ q.lease = 0
           /\ \/ q.processed /\ ~ q.dead
              \/ ~ q.processed /\ q.dead /\ r.attempts >= MaxAttempts[e]
              \/ ~ q.processed /\ ~ q.dead /\ r.attempts < MaxAttempts[e]
  <2>1. (q.lease > 0) = FALSE
    BY <1>6
  <2>2. EventItem(r).phase = "leased" /\ EventItem(r).used = r.attempts
    BY <1>6 DEF EventItem, PhaseOfEvent
  <2>3. CASE q.processed /\ ~ q.dead
    <3>1. EventItem(q) = Work!Closed("done", r.attempts)
      BY <1>6, <2>1, <2>3 DEF EventItem, PhaseOfEvent, Work!Closed
    <3> QED BY <2>2, <3>1 DEF ItemStep
  <2>4. CASE ~ q.processed /\ q.dead /\ r.attempts >= MaxAttempts[e]
    <3>1. EventItem(q) = Work!Closed("dead", r.attempts)
      BY <1>6, <2>1, <2>4 DEF EventItem, PhaseOfEvent, Work!Closed
    <3>2. r.attempts = MaxAttempts[e]
      BY <1>1, <1>2, <2>4
    <3> QED BY <2>2, <3>1, <3>2 DEF ItemStep
  <2>5. CASE ~ q.processed /\ ~ q.dead /\ r.attempts < MaxAttempts[e]
    <3>1. EventItem(q) = Work!Waiting(r.attempts)
      BY <1>6, <2>1, <2>5 DEF EventItem, PhaseOfEvent, Work!Waiting
    <3> QED BY <2>2, <2>5, <3>1 DEF ItemStep
  <2> QED BY <1>6, <2>3, <2>4, <2>5
<1>7. CASE /\ ~ r.processed /\ r.dead /\ q.stored = r.stored
           /\ ~ q.processed /\ ~ q.dead
           /\ q.attempts = 0 /\ q.owner = NoWorker /\ q.lease = 0
  <2>1. (q.lease > 0) = FALSE /\ r.stored /\ q.stored
    BY <1>1, <1>7
  <2>2. EventItem(r).phase = "dead"
    BY <1>7, <2>1 DEF EventItem, PhaseOfEvent
  <2>3. EventItem(q) = Work!Waiting(0)
    BY <1>7, <2>1 DEF EventItem, PhaseOfEvent, Work!Waiting
  <2> QED BY <2>2, <2>3 DEF ItemStep
<1> QED BY <1>3, <1>4, <1>5, <1>6, <1>7 DEF EventMove

\* The item of every row, as the refinement mapping has it.
RowItem(i) == IF i \in Jobs THEN ItemOfJob(i) ELSE ItemOfEvent(i)

LEMMA WorkInit ==
  ASSUME Init
  PROVE  Work!Init /\ FreshRows
<1>1. QueueInv
  BY InitInv
<1>2. FreshRows
  BY DEF Init, FreshRows, FreshJob, FreshEvent
<1>3. ASSUME NEW i \in Rows PROVE RowItem(i) = Work!New
  <2>1. (0 > 0) = FALSE
    OBVIOUS
  <2>2. CASE i \in Jobs
    <3>1. JobItem(jobs[i]) = Work!New
      BY <2>1, <2>2 DEF Init, JobItem, PhaseOfJob, Work!New
    <3> QED BY <1>1, <1>2, <2>2, <3>1, ItemsOfRows DEF ItemsShowRows, RowItem
  <2>3. CASE i \notin Jobs
    <3>1. i \in Events
      BY <2>3 DEF Rows
    <3>2. EventItem(events[i]) = Work!New
      BY <2>1, <3>1 DEF Init, EventItem, PhaseOfEvent, Work!New
    <3> QED BY <1>1, <1>2, <2>3, <3>1, <3>2, ItemsOfRows DEF ItemsShowRows, RowItem
  <2> QED BY <2>2, <2>3
<1> QED BY <1>2, <1>3 DEF Work!Init, RowItem

LEMMA WorkNext ==
  ASSUME QueueInv, QueueInv', FreshRows, FreshRows', Next
  PROVE  Work!Next
<1> DEFINE item == [i \in Rows |-> RowItem(i)]
<1>0. ItemsShowRows /\ ItemsShowRows'
  <2>1. ItemsShowRows
    BY ItemsOfRows
  <2>2. (QueueInv /\ FreshRows => ItemsShowRows)'
    BY ItemsOfRows, PTL
  <2> QED BY <2>1, <2>2
<1>1. ASSUME NEW i \in Rows
      PROVE  ItemStep(MaxAttempts[i], item[i], item'[i])
  <2>1. CASE i \in Jobs
    <3>1. JobInv(i, jobs[i]) /\ JobInv(i, jobs'[i]) /\ FreshJob(jobs[i])
      BY <2>1 DEF QueueInv, FreshRows
    <3>2. JobMove(i, jobs[i], jobs'[i])
      BY <2>1, JobsMove
    <3>3. ItemStep(MaxAttempts[i], JobItem(jobs[i]), JobItem(jobs'[i]))
      BY <2>1, <3>1, <3>2, JobItemSteps
    <3>4. ItemOfJob(i) = JobItem(jobs[i])
      BY <1>0, <2>1 DEF ItemsShowRows
    <3>5. ItemOfJob(i)' = JobItem(jobs'[i])
      BY <1>0, <2>1 DEF ItemsShowRows
    <3> QED BY <2>1, <3>3, <3>4, <3>5 DEF RowItem
  <2>2. CASE i \notin Jobs
    <3>0. i \in Events
      BY <2>2 DEF Rows
    <3>1. /\ EventInv(i, events[i]) /\ EventInv(i, events'[i])
          /\ FreshEvent(events[i])
      BY <3>0 DEF QueueInv, FreshRows
    <3>2. EventMove(i, events[i], events'[i])
      BY <3>0, EventsMove
    <3>3. ItemStep(MaxAttempts[i], EventItem(events[i]), EventItem(events'[i]))
      BY <3>0, <3>1, <3>2, EventItemSteps
    <3>4. ItemOfEvent(i) = EventItem(events[i])
      BY <1>0, <3>0 DEF ItemsShowRows
    <3>5. ItemOfEvent(i)' = EventItem(events'[i])
      BY <1>0, <3>0 DEF ItemsShowRows
    <3> QED BY <2>2, <3>3, <3>4, <3>5 DEF RowItem
  <2> QED BY <2>1, <2>2
<1>2. item = [r \in Rows |-> IF r \in Jobs THEN ItemOfJob(r) ELSE ItemOfEvent(r)]
  BY DEF RowItem
<1>3. item' = [r \in Rows |-> IF r \in Jobs THEN ItemOfJob(r)' ELSE ItemOfEvent(r)']
  BY DEF RowItem
<1>4. ASSUME NEW i \in Rows
      PROVE  item[i] \in ItemRow
  <2>1. ASSUME NEW j \in Jobs
        PROVE  JobItem(jobs[j]) \in ItemRow
    <3>1. /\ jobs[j].attempt \in Nat /\ jobs[j].owner \in Workers \cup {NoWorker}
          /\ (jobs[j].lease > 0) \in BOOLEAN
          /\ PhaseOfJob(jobs[j].status) \in
               {"none", "waiting", "leased", "done", "dead"}
      BY DEF QueueInv, JobInv, JobRow, PhaseOfJob
    <3> QED BY <3>1 DEF JobItem, ItemRow
  <2>2. ASSUME NEW e \in Events
        PROVE  EventItem(events[e]) \in ItemRow
    <3>1. /\ events[e].attempts \in Nat
          /\ events[e].owner \in Workers \cup {NoWorker}
          /\ (events[e].lease > 0) \in BOOLEAN
          /\ PhaseOfEvent(events[e]) \in
               {"none", "waiting", "leased", "done", "dead"}
      BY DEF QueueInv, EventInv, EventRow, PhaseOfEvent
    <3> QED BY <3>1 DEF EventItem, ItemRow
  <2> QED BY <1>0, <2>1, <2>2 DEF ItemsShowRows, RowItem, Rows
<1> HIDE DEF item
<1>5. ASSUME NEW i \in Rows PROVE item'[i] = item[i] \/ Work!Step(i)
  <2> DEFINE x == item[i]
             y == item'[i]
  <2>1. x \in ItemRow
    BY <1>4
  <2>2. ItemStep(MaxAttempts[i], x, y)
    BY <1>1
  <2>3. CASE x = Work!New /\ y = Work!Waiting(0)
    BY <1>2, <1>3, <2>3 DEF Work!Step, Work!Submit
  <2>4. CASE /\ x.phase \in {"waiting", "leased"} /\ ~ x.valid
             /\ x.used < MaxAttempts[i]
             /\ \E w \in Workers : y = [phase |-> "leased", used |-> x.used + 1,
                                        holder |-> w, valid |-> TRUE]
    BY <1>2, <1>3, <2>4 DEF Work!Step, Work!Grant
  <2>5. CASE /\ x.phase = "leased" /\ x.valid
             /\ y = [phase |-> "leased", used |-> x.used, holder |-> x.holder,
                     valid |-> FALSE]
    <3>1. y = [x EXCEPT !.valid = FALSE]
      BY <2>1, <2>5, LapsedRecord
    <3> QED BY <1>2, <1>3, <2>5, <3>1 DEF Work!Step, Work!Lapse
  <2>6. CASE x.phase = "leased" /\ y = Work!Closed("done", x.used)
    BY <1>2, <1>3, <2>6 DEF Work!Step, Work!Succeed
  <2>7. CASE /\ x.phase = "leased" /\ x.used < MaxAttempts[i]
             /\ y = Work!Waiting(x.used)
    BY <1>2, <1>3, <2>7 DEF Work!Step, Work!Retry
  <2>8. CASE /\ x.phase = "leased" /\ x.used = MaxAttempts[i]
             /\ y = Work!Closed("dead", x.used)
    BY <1>2, <1>3, <2>8 DEF Work!Step, Work!GiveUp
  <2>9. CASE x.phase = "dead" /\ y = Work!Waiting(0)
    BY <1>2, <1>3, <2>9 DEF Work!Step, Work!Restart
  <2> QED BY <2>2, <2>3, <2>4, <2>5, <2>6, <2>7, <2>8, <2>9 DEF ItemStep
<1>6. DOMAIN item' = Rows
  BY <1>3
<1> QED BY <1>2, <1>3, <1>5, <1>6 DEF Work!Next

\* The two tables keep the leased-work contract: whatever calls, crashes and
\* clock ticks come, every row moves as an item does that is granted to one
\* holder at a time, pays for each grant, and is given up only when its budget
\* is spent.
THEOREM QueueIsLeasedWork == Spec => ImplementsLeasedWork
<1>1. Init => Work!Init /\ FreshRows
  BY WorkInit
<1>2. QueueInv /\ FreshRows /\ [Next]_vars => FreshRows'
  <2>1. CASE UNCHANGED vars
    BY <2>1 DEF vars, FreshRows
  <2> QED BY <2>1, FreshStep
<1>3. Spec => []FreshRows
  BY <1>1, <1>2, QueueInvariant, PTL DEF Spec
<1>4. QueueInv /\ QueueInv' /\ FreshRows /\ FreshRows' /\ [Next]_vars
      => [Work!Next]_([r \in Rows |-> IF r \in Jobs THEN ItemOfJob(r)
                                     ELSE ItemOfEvent(r)])
  <2>1. ASSUME UNCHANGED vars
        PROVE  UNCHANGED [r \in Rows |-> IF r \in Jobs THEN ItemOfJob(r)
                                        ELSE ItemOfEvent(r)]
    BY <2>1 DEF vars, ItemOfJob, ItemOfEvent, OpenEvent
  <2> QED BY <2>1, WorkNext
<1> QED BY <1>1, <1>3, <1>4, QueueInvariant, PTL
        DEF Spec, ImplementsLeasedWork, Work!Spec
=============================================================================
