----------------------------- MODULE RuntimeProofs -----------------------------
(***************************************************************************)
(* Proofs about WorkerRuntime for every number of processes and rows.      *)
(*                                                                         *)
(* Whatever fails, a process changes the two tables only by their          *)
(* functions, so all that AsyncQueueProofs shows of them holds under the   *)
(* runtime.  That a handler runs under its lease, and settles its own      *)
(* attempt, needs the deployment to be Provisioned: a WORKER_ID of its own *)
(* for every process, a lane for every item of a batch, and calls that do  *)
(* not fail.                                                               *)
(***************************************************************************)
EXTENDS WorkerRuntime, AsyncQueueProofs, FiniteSetTheorems

RuntimeTypeInv ==
  /\ QueueInv
  /\ phase \in [Procs -> Phases]
  /\ stopping \in [Procs -> BOOLEAN]
  /\ runs \subseteq Run

-----------------------------------------------------------------------------
(* Lemmas about the runs *)

LEMMA RuntimeConstants ==
  /\ \A p \in Procs : IdOf[p] \in Workers
  /\ HandlerTimeout \in Nat /\ 0 < HandlerTimeout /\ HandlerTimeout < LeaseSeconds
  /\ LeaseSeconds \in Nat /\ 0 < LeaseSeconds
  /\ \A r \in Rows : r \in Events \/ r \in Jobs
  /\ \A e \in Events : e \in Rows /\ e \notin Jobs
  /\ \A j \in Jobs : j \in Rows
BY RuntimeAssumption, RowConstants DEF Rows

\* The columns of a run.
LEMMA RunFields ==
  ASSUME NEW x \in Run
  PROVE  /\ x.proc \in Procs /\ x.row \in Rows /\ x.attempt \in Nat
         /\ x.stage \in Stages /\ x.left \in 0..HandlerTimeout
         /\ x.current \in BOOLEAN
BY DEF Run

\* A run in another stage is a run.
LEMMA MovedRun ==
  ASSUME NEW x \in Run
  PROVE  /\ \A s \in Stages : [x EXCEPT !.stage = s, !.left = 0] \in Run
         /\ \A s \in Stages : [x EXCEPT !.stage = s] \in Run
         /\ \A n \in 0..HandlerTimeout : [x EXCEPT !.left = n] \in Run
<1>1. ASSUME NEW s \in Stages PROVE [x EXCEPT !.stage = s, !.left = 0] \in Run
  <2>1. 0 \in 0..HandlerTimeout
    BY RuntimeConstants
  <2> QED BY <2>1 DEF Run
<1>2. ASSUME NEW s \in Stages PROVE [x EXCEPT !.stage = s] \in Run
  BY DEF Run
<1>3. ASSUME NEW n \in 0..HandlerTimeout PROVE [x EXCEPT !.left = n] \in Run
  BY DEF Run
<1> QED BY <1>1, <1>2, <1>3

LEMMA StartedRun ==
  ASSUME NEW x \in Run
  PROVE  Started(x) \in Run
<1>1. HandlerTimeout \in 0..HandlerTimeout /\ "handler" \in Stages
  BY RuntimeConstants DEF Stages
<1>2. [x EXCEPT !.stage = "handler", !.left = HandlerTimeout] \in Run
  BY <1>1 DEF Run
<1> QED BY <1>2 DEF Started

LEMMA ItemsAreRuns ==
  ASSUME NEW p \in Procs, NEW S \in SUBSET Rows, NEW attempts,
         \A r \in S : attempts[r] \in Nat
  PROVE  Items(p, S, attempts) \subseteq Run
<1>1. 0 \in 0..HandlerTimeout /\ "queued" \in Stages /\ TRUE \in BOOLEAN
  BY RuntimeConstants DEF Stages
<1>2. ASSUME NEW r \in S
      PROVE  [proc |-> p, row |-> r, attempt |-> attempts[r], stage |-> "queued",
              left |-> 0, current |-> TRUE] \in Run
  BY <1>1 DEF Run
<1> QED BY <1>2 DEF Items

\* What a lane leaves when it settles or rejects are runs.
LEMMA SettledRuns ==
  ASSUME runs \subseteq Run, NEW x \in runs
  PROVE  /\ \A R \in AfterSettle(x) : R \subseteq Run
         /\ AfterReject(x) \subseteq Run
<1>1. \A y \in Queued(Lane(x)) : Started(y) \in Run
  BY StartedRun DEF Queued, Lane
<1>2. \A R \in AfterSettle(x) : R \subseteq Run
  BY <1>1 DEF AfterSettle
<1>3. \A y \in runs : [y EXCEPT !.current = FALSE] \in Run
  BY DEF Run
<1>4. AfterReject(x) \subseteq Run
  BY <1>3 DEF AfterReject
<1> QED BY <1>2, <1>4

-----------------------------------------------------------------------------
(* The tables under the runtime *)

\* Every step of the runtime is a step of the queue, or leaves it alone.
LEMMA QueueSteps ==
  ASSUME RuntimeTypeInv, RuntimeNext
  PROVE  [Next]_vars
<1>1. ASSUME NEW p \in Procs, NEW S \in SUBSET Events, ClaimEvents(IdOf[p], S)
      PROVE  Next
  BY <1>1, RuntimeConstants DEF Next, Claim
<1>2. ASSUME NEW p \in Procs, NEW S \in SUBSET Jobs, ClaimJobs(IdOf[p], S)
      PROVE  Next
  BY <1>2, RuntimeConstants DEF Next, Claim
<1>3. ASSUME NEW x \in runs, CompleteRow(x) PROVE [Next]_vars
  <2>1. IdOf[x.proc] \in Workers /\ (x.row \in Jobs \/ x.row \in Events)
    BY RunFields, RuntimeConstants DEF RuntimeTypeInv
  <2> QED BY <1>3, <2>1 DEF CompleteRow, Complete, Next, Settle, vars
<1>4. ASSUME NEW x \in runs, FailRow(x) PROVE [Next]_vars
  <2>1. IdOf[x.proc] \in Workers /\ (x.row \in Jobs \/ x.row \in Events)
    BY RunFields, RuntimeConstants DEF RuntimeTypeInv
  <2> QED BY <1>4, <2>1 DEF FailRow, Fail, Next, Settle, vars
<1>5. ASSUME NEW p \in Procs, TickStep(p) PROVE [Next]_vars
  <2>1. CASE PollReap(p)
    BY <2>1 DEF PollReap, Next, vars
  <2>2. CASE \E S \in SUBSET Events : ClaimOutbox(p, S)
    BY <1>1, <2>2 DEF ClaimOutbox, vars
  <2>3. CASE \E S \in SUBSET Jobs : ClaimWork(p, S)
    BY <1>2, <2>3 DEF ClaimWork, vars
  <2>4. CASE TickEnds(p)
    BY <2>4 DEF TickEnds, vars
  <2> QED BY <1>5, <2>1, <2>2, <2>3, <2>4 DEF TickStep
<1>6. ASSUME NEW p \in Procs, Start(p) \/ Stop(p) \/ Exit(p) \/ Crash(p)
      PROVE  [Next]_vars
  BY <1>6 DEF Start, Stop, Exit, Crash, vars
<1>7. ASSUME NEW p \in Procs, TickRejects(p) PROVE [Next]_vars
  <2>1. CASE \E E \in SUBSET Events, J \in SUBSET Jobs : Reap(E, J)
    BY <2>1 DEF Next
  <2>2. CASE \E S \in SUBSET Events : ClaimEvents(IdOf[p], S)
    BY <1>1, <2>2
  <2>3. CASE \E S \in SUBSET Jobs : ClaimJobs(IdOf[p], S)
    BY <1>2, <2>3
  <2> QED BY <1>7, <2>1, <2>2, <2>3 DEF TickRejects, vars
<1>8. ASSUME NEW x \in runs, RunStep(x) \/ CompletionErrs(x) \/ FailureErrs(x)
      PROVE  [Next]_vars
  BY <1>3, <1>4, <1>8 DEF RunStep, HandlerSettles, RunCompletes, RunFails,
     CompletionErrs, FailureErrs, vars
<1>9. CASE Submit \/ Reprocess \/ Second
  BY <1>9 DEF Submit, Reprocess, Second, Next
<1> QED BY <1>5, <1>6, <1>7, <1>8, <1>9 DEF RuntimeNext

LEMMA RuntimeTypeInit == RuntimeInit => RuntimeTypeInv
BY InitInv DEF RuntimeInit, RuntimeTypeInv, Phases

\* Runs keep their types, whatever call fails.
LEMMA RuntimeTypeStep ==
  ASSUME RuntimeTypeInv, RuntimeNext
  PROVE  RuntimeTypeInv'
<1>1. QueueInv'
  BY QueueSteps, NextInv DEF RuntimeTypeInv
<1>2. /\ \A e \in Events : events'[e].attempts \in Nat
      /\ \A j \in Jobs : jobs'[j].attempt \in Nat
  BY <1>1 DEF QueueInv, EventInv, JobInv, EventRow, JobRow
<1>3. ASSUME NEW p \in Procs, NEW s \in Phases
      PROVE  [phase EXCEPT ![p] = s] \in [Procs -> Phases]
  BY DEF RuntimeTypeInv
<1>4. {"down", "poll", "claimOutbox", "claimJobs", "work"} = Phases
  BY DEF Phases
<1>5. ASSUME NEW p \in Procs, TickStep(p) PROVE RuntimeTypeInv'
  <2>1. CASE PollReap(p)
    BY <1>1, <1>3, <1>4, <2>1 DEF PollReap, RuntimeTypeInv
  <2>2. ASSUME NEW S \in SUBSET Events, ClaimOutbox(p, S) PROVE RuntimeTypeInv'
    <3>1. Items(p, S, [e \in S |-> events'[e].attempts]) \subseteq Run
      <4>1. S \in SUBSET Rows
        BY RuntimeConstants
      <4>2. \A r \in S : [e \in S |-> events'[e].attempts][r] \in Nat
        BY <1>2
      <4> QED BY <4>1, <4>2, ItemsAreRuns
    <3> QED BY <1>1, <1>3, <1>4, <2>2, <3>1 DEF ClaimOutbox, RuntimeTypeInv
  <2>3. ASSUME NEW S \in SUBSET Jobs, ClaimWork(p, S) PROVE RuntimeTypeInv'
    <3> DEFINE all == {y \in runs : y.proc = p /\ y.current}
                        \cup Items(p, S, [j \in S |-> jobs'[j].attempt])
    <3>1. Items(p, S, [j \in S |-> jobs'[j].attempt]) \subseteq Run
      <4>1. S \in SUBSET Rows
        BY RuntimeConstants
      <4>2. \A r \in S : [j \in S |-> jobs'[j].attempt][r] \in Nat
        BY <1>2
      <4> QED BY <4>1, <4>2, ItemsAreRuns
    <3>2. \A y \in all : y \in Run /\ Started(y) \in Run
      BY <3>1, StartedRun DEF RuntimeTypeInv
    <3> HIDE DEF all
    <3>3. CASE stopping[p]
      BY <1>1, <1>3, <1>4, <2>3, <3>3 DEF ClaimWork, RuntimeTypeInv
    <3>4. CASE ~ stopping[p]
      <4>1. PICK E \in FirstItems({y.row : y \in {z \in runs : z.proc = p /\ z.current}}),
                 J \in FirstItems(S) :
              runs' = (runs \ {y \in runs : y.proc = p /\ y.current}) \cup
                {IF y.row \in E \cup J THEN Started(y) ELSE y : y \in all}
        BY <2>3, <3>4 DEF ClaimWork, all
      <4>2. runs' \subseteq Run
        BY <3>2, <4>1 DEF RuntimeTypeInv
      <4> QED BY <1>1, <1>3, <1>4, <2>3, <4>2 DEF ClaimWork, RuntimeTypeInv
    <3> QED BY <3>3, <3>4
  <2>4. CASE TickEnds(p)
    BY <1>1, <1>3, <1>4, <2>4 DEF TickEnds, RuntimeTypeInv
  <2> QED BY <1>5, <2>1, <2>2, <2>3, <2>4 DEF TickStep
<1>6. ASSUME NEW p \in Procs,
             Start(p) \/ Stop(p) \/ Exit(p) \/ Crash(p) \/ TickRejects(p)
      PROVE  RuntimeTypeInv'
  BY <1>1, <1>3, <1>4, <1>6
     DEF Start, Stop, Exit, Crash, TickRejects, RuntimeTypeInv
<1>7. ASSUME NEW x \in runs, RunStep(x) \/ CompletionErrs(x) \/ FailureErrs(x)
      PROVE  RuntimeTypeInv'
  <2>1. x \in Run /\ x.proc \in Procs
    BY RunFields DEF RuntimeTypeInv
  <2>2. /\ \A s \in Stages : [x EXCEPT !.stage = s, !.left = 0] \in Run
        /\ [x EXCEPT !.stage = "rejected"] \in Run
        /\ {"resolved", "rejected"} \subseteq Stages
    BY <2>1, MovedRun, RuntimeConstants DEF Stages
  <2>3. (\A R \in AfterSettle(x) : R \subseteq Run) /\ AfterReject(x) \subseteq Run
    BY SettledRuns DEF RuntimeTypeInv
  <2>4. runs' \subseteq Run
    BY <1>7, <2>2, <2>3 DEF RunStep, HandlerSettles, RunCompletes, RunFails,
       CompletionErrs, FailureErrs, RuntimeTypeInv
  <2>5. phase' \in [Procs -> Phases] /\ UNCHANGED stopping
    BY <1>3, <1>4, <1>7, <2>1 DEF RunStep, HandlerSettles, RunCompletes, RunFails,
       CompletionErrs, FailureErrs, RuntimeTypeInv
  <2> QED BY <1>1, <2>4, <2>5 DEF RuntimeTypeInv
<1>8. CASE Submit \/ Reprocess
  BY <1>1, <1>8 DEF Submit, Reprocess, rvars, RuntimeTypeInv
<1>9. CASE Second
  <2>1. \A y \in runs : [y EXCEPT !.left = Less(y.left)] \in Run
    BY LessType, RuntimeConstants, RunFields, MovedRun DEF RuntimeTypeInv
  <2> QED BY <1>1, <1>9, <2>1 DEF Second, RuntimeTypeInv
<1> QED BY <1>5, <1>6, <1>7, <1>8, <1>9 DEF RuntimeNext

-----------------------------------------------------------------------------
(* Leases.  With a lane for every item nothing waits in memory but events, *)
(* until the second reply of the tick; without failing calls a tick ends   *)
(* only when its runs have, so a process claims nothing that it runs.      *)

Provisioned ==
  /\ IsFiniteSet(Events) /\ IsFiniteSet(Jobs)
  /\ \A p, q \in Procs : IdOf[p] = IdOf[q] => p = q
  /\ BatchSize <= Concurrency
  /\ BackoffValid /\ ~ Faulty

LeaseOf(r) == IF r \in Jobs THEN jobs[r].lease ELSE events[r].lease

\* The rows of the items that p's tick holds.
Batch(p) == {y.row : y \in {z \in runs : z.proc = p /\ z.current}}

\* What a run in memory may rely on: its row is still its own attempt, or not its
\* row any more; while the handler runs its timer ends before the lease does.
RunHolds(x) ==
  /\ x.current
  /\ \/ phase[x.proc] = "claimJobs" /\ x.stage = "queued" /\ x.row \in Events
     \/ phase[x.proc] = "work" /\ x.stage # "queued"
  /\ Holds(IdOf[x.proc], x.row) => AttemptOf(x.row) = x.attempt
  /\ x.stage = "queued" =>
       Holds(IdOf[x.proc], x.row) /\ LeaseOf(x.row) = LeaseSeconds
  /\ x.stage = "handler" =>
       Holds(IdOf[x.proc], x.row) /\ x.left < LeaseOf(x.row)

RunsApart ==
  \A x, y \in runs : x.proc = y.proc /\ x.row = y.row => x = y

LanesSuffice ==
  \A p \in Procs : phase[p] = "claimJobs" =>
    IsFiniteSet(Batch(p)) /\ Cardinality(Batch(p)) <= Concurrency

RuntimeInv ==
  /\ RuntimeTypeInv
  /\ \A x \in runs : RunHolds(x)
  /\ RunsApart
  /\ LanesSuffice

\* A step that leaves to worker w what it has in row r: w gains no lease there,
\* and keeps one that runs as it is.
Untouched(w, r) ==
  /\ Holds(w, r)' => Holds(w, r) /\ AttemptOf(r)' = AttemptOf(r)
  /\ Holds(w, r) /\ 0 < LeaseOf(r) => Holds(w, r)' /\ LeaseOf(r)' = LeaseOf(r)

LEMMA SameRows ==
  ASSUME NEW w, NEW r,
         IF r \in Jobs THEN UNCHANGED jobs[r] ELSE UNCHANGED events[r]
  PROVE  Untouched(w, r)
BY DEF Untouched, Holds, HoldsJob, HoldsEvent, OpenEvent, AttemptOf, LeaseOf

\* A claim passes on no lease that runs.
LEMMA ClaimByAnother ==
  ASSUME QueueInv, NEW v \in Workers, NEW w \in Workers, v # w, NEW r \in Rows,
         \/ \E S \in SUBSET Events : ClaimEvents(v, S)
         \/ \E S \in SUBSET Jobs : ClaimJobs(v, S)
  PROVE  Untouched(w, r)
<1>0. v # NoWorker /\ w # NoWorker
  BY RowConstants
<1>1. ASSUME NEW S \in SUBSET Events, ClaimEvents(v, S) PROVE Untouched(w, r)
  <2>1. CASE r \in S
    <3>1. /\ r \in Events /\ r \notin Jobs /\ events[r] \in EventRow
          /\ EventClaimable(r)
      BY <1>1, <2>1, RuntimeConstants DEF QueueInv, EventInv, ClaimEvents
    <3>2. events'[r].owner = v
      BY <1>1, <2>1, <3>1 DEF ClaimEvents, EventRow
    <3>3. events[r].owner = NoWorker \/ events[r].lease = 0
      BY <3>1 DEF EventClaimable
    <3>4. ~ Holds(w, r)'
      BY <3>1, <3>2 DEF Holds, HoldsEvent
    <3>5. ~ (Holds(w, r) /\ 0 < LeaseOf(r))
      BY <1>0, <3>1, <3>3 DEF Holds, HoldsEvent, LeaseOf
    <3> QED BY <3>4, <3>5 DEF Untouched
  <2>2. CASE r \notin S
    BY <1>1, <2>2, SameRows, RuntimeConstants DEF ClaimEvents
  <2> QED BY <2>1, <2>2
<1>2. ASSUME NEW S \in SUBSET Jobs, ClaimJobs(v, S) PROVE Untouched(w, r)
  <2>1. CASE r \in S
    <3>1. r \in Jobs /\ jobs[r] \in JobRow /\ JobClaimable(r)
      BY <1>2, <2>1 DEF QueueInv, JobInv, ClaimJobs
    <3>2. jobs'[r].owner = v
      BY <1>2, <2>1, <3>1 DEF ClaimJobs, JobRow
    <3>3. ~ Holds(w, r)'
      BY <3>1, <3>2 DEF Holds, HoldsJob
    <3>4. ~ (Holds(w, r) /\ 0 < LeaseOf(r))
      BY <3>1 DEF Holds, HoldsJob, LeaseOf, JobClaimable
    <3> QED BY <3>3, <3>4 DEF Untouched
  <2>2. CASE r \notin S
    BY <1>2, <2>2, SameRows, RuntimeConstants DEF ClaimJobs
  <2> QED BY <2>1, <2>2
<1> QED BY <1>1, <1>2

\* The reaper takes no lease that runs.
LEMMA ReapByAnyone ==
  ASSUME QueueInv, NEW w \in Workers, NEW r \in Rows,
         \E E \in SUBSET Events, J \in SUBSET Jobs : Reap(E, J)
  PROVE  Untouched(w, r)
<1>0. w # NoWorker
  BY RowConstants
<1> PICK E \in SUBSET Events, J \in SUBSET Jobs : Reap(E, J)
  OBVIOUS
<1>1. CASE r \in J
  <2>1. r \in Jobs /\ jobs[r] \in JobRow /\ JobReapable(r)
    BY <1>1 DEF QueueInv, JobInv, Reap
  <2>2. jobs'[r].owner = NoWorker
    BY <1>1, <2>1 DEF Reap, JobRow
  <2>3. ~ Holds(w, r)' /\ ~ (0 < LeaseOf(r))
    BY <1>0, <2>1, <2>2 DEF Holds, HoldsJob, LeaseOf, JobReapable
  <2> QED BY <2>3 DEF Untouched
<1>2. CASE r \in E
  <2>1. /\ r \in Events /\ r \notin Jobs /\ events[r] \in EventRow
        /\ EventReapable(r)
    BY <1>2, RuntimeConstants DEF QueueInv, EventInv, Reap
  <2>2. events'[r].owner = NoWorker
    BY <1>2, <2>1 DEF Reap, EventRow
  <2>3. ~ Holds(w, r)' /\ ~ (0 < LeaseOf(r))
    BY <1>0, <2>1, <2>2 DEF Holds, HoldsEvent, LeaseOf, EventReapable
  <2> QED BY <2>3 DEF Untouched
<1>3. CASE r \notin E \cup J
  BY <1>3, SameRows, RuntimeConstants DEF Reap
<1> QED BY <1>1, <1>2, <1>3

\* A settlement touches the lease it settles and no other.
LEMMA SettledByAnother ==
  ASSUME QueueInv, NEW v \in Workers, NEW w \in Workers, NEW q \in Rows,
         NEW r \in Rows, v # w \/ q # r, Holds(v, q),
         Complete(v, q) \/ Fail(v, q)
  PROVE  Untouched(w, r)
<1>0. w # NoWorker
  BY RowConstants
<1>1. CASE q = r
  <2>1. ~ Holds(w, r)
    BY <1>1 DEF Holds, HoldsJob, HoldsEvent
  <2>2. CASE r \in Jobs
    <3>1. jobs[r] \in JobRow /\ jobs = [k \in Jobs |-> jobs[k]]
      BY <2>2 DEF QueueInv, JobInv
    <3>2. jobs'[r].owner = NoWorker
      <4>1. CASE Complete(v, q)
        <5>1. jobs' = [jobs EXCEPT ![r] = [jobs[r] EXCEPT !.status = "succeeded",
                         !.owner = NoWorker, !.lease = 0, !.finished = TRUE]]
          BY <1>1, <2>2, <4>1 DEF Complete, CompleteJob
        <5> QED BY <2>2, <3>1, <5>1 DEF JobRow
      <4>2. CASE Fail(v, q)
        <5> DEFINE over == Exhausted(r, jobs[r].attempt)
                   s == IF over THEN "dead_lettered" ELSE "retry_wait"
                   m == IF over THEN jobs[r].wait ELSE Backoff(jobs[r].attempt)
        <5>1. jobs' = [jobs EXCEPT ![r] = [jobs[r] EXCEPT !.status = s, !.wait = m,
                         !.owner = NoWorker, !.lease = 0, !.finished = over]]
          BY <1>1, <2>2, <4>2 DEF Fail, FailJob
        <5> HIDE DEF over, s, m
        <5> QED BY <2>2, <3>1, <5>1 DEF JobRow
      <4> QED BY <4>1, <4>2
    <3> QED BY <1>0, <2>1, <2>2, <3>2 DEF Untouched, Holds, HoldsJob
  <2>3. CASE r \notin Jobs
    <3>1. r \in Events
      BY <2>3 DEF Rows
    <3>2. events[r] \in EventRow /\ events = [k \in Events |-> events[k]]
      BY <3>1 DEF QueueInv, EventInv
    <3>3. events'[r].owner = NoWorker
      <4>1. CASE Complete(v, q)
        <5>1. events' = [events EXCEPT ![r] = [events[r] EXCEPT !.processed = TRUE,
                           !.owner = NoWorker, !.lease = 0]]
          BY <1>1, <2>3, <4>1 DEF Complete, CompleteEvent
        <5> QED BY <3>1, <3>2, <5>1 DEF EventRow
      <4>2. CASE Fail(v, q)
        <5> DEFINE over == Exhausted(r, events[r].attempts)
                   m == IF over THEN events[r].wait ELSE Backoff(events[r].attempts)
        <5>1. events' = [events EXCEPT ![r] = [events[r] EXCEPT !.dead = over,
                           !.wait = m, !.owner = NoWorker, !.lease = 0]]
          BY <1>1, <2>3, <4>2 DEF Fail, FailEvent
        <5> HIDE DEF over, m
        <5> QED BY <3>1, <3>2, <5>1 DEF EventRow
      <4> QED BY <4>1, <4>2
    <3> QED BY <1>0, <2>1, <2>3, <3>3 DEF Untouched, Holds, HoldsEvent
  <2> QED BY <2>2, <2>3
<1>2. CASE q # r
  <2>1. /\ jobs = [k \in Jobs |-> jobs[k]] /\ events = [k \in Events |-> events[k]]
        /\ r \in Jobs \/ r \in Events
    BY DEF QueueInv, Rows
  <2>2. IF r \in Jobs THEN UNCHANGED jobs[r] ELSE UNCHANGED events[r]
    BY <1>2, <2>1 DEF Complete, Fail, CompleteJob, FailJob, CompleteEvent, FailEvent
  <2> QED BY <2>2, SameRows
<1> QED BY <1>1, <1>2

\* Who enqueues or reprocesses meets no lease: such rows have none.
LEMMA CalledByOthers ==
  ASSUME QueueInv, NEW w \in Workers, NEW r \in Rows, Enqueue \/ Requeue
  PROVE  Untouched(w, r)
<1>0. w # NoWorker
  BY RowConstants
<1>1. /\ jobs = [k \in Jobs |-> jobs[k]] /\ events = [k \in Events |-> events[k]]
      /\ r \in Jobs \/ r \in Events
  BY DEF QueueInv, Rows
<1>2. ASSUME NEW j \in Jobs, EnqueueJob(j) \/ RequeueJob(j) PROVE Untouched(w, r)
  <2>1. CASE r = j
    <3>1. jobs[j] \in JobRow
      BY DEF QueueInv, JobInv
    <3>2. jobs[j].status # "running"
      BY <1>2 DEF EnqueueJob, RequeueJob
    <3>3. jobs'[j].status # "running"
      <4>1. CASE EnqueueJob(j)
        BY <1>1, <3>1, <4>1 DEF EnqueueJob, JobRow
      <4>2. CASE RequeueJob(j)
        BY <1>1, <3>1, <4>2 DEF RequeueJob, JobRow
      <4> QED BY <1>2, <4>1, <4>2
    <3> QED BY <2>1, <3>2, <3>3 DEF Untouched, Holds, HoldsJob
  <2>2. CASE r # j
    <3>1. IF r \in Jobs THEN UNCHANGED jobs[r] ELSE UNCHANGED events[r]
      BY <1>1, <1>2, <2>2 DEF EnqueueJob, RequeueJob
    <3> QED BY <3>1, SameRows
  <2> QED BY <2>1, <2>2
<1>3. ASSUME NEW e \in Events, EnqueueEvent(e) \/ RequeueEvent(e)
      PROVE  Untouched(w, r)
  <2>1. CASE r = e
    <3>1. events[e] \in EventRow /\ EventChecks(e, events[e]) /\ e \notin Jobs
      BY RuntimeConstants DEF QueueInv, EventInv
    <3>2. events[e].owner = NoWorker
      BY <1>3, <3>1 DEF EnqueueEvent, RequeueEvent, EventChecks
    <3>3. events'[e].owner = NoWorker
      <4>1. CASE EnqueueEvent(e)
        BY <1>1, <3>1, <3>2, <4>1 DEF EnqueueEvent, EventRow
      <4>2. CASE RequeueEvent(e)
        BY <1>1, <3>1, <4>2 DEF RequeueEvent, EventRow
      <4> QED BY <1>3, <4>1, <4>2
    <3> QED BY <1>0, <2>1, <3>1, <3>2, <3>3 DEF Untouched, Holds, HoldsEvent
  <2>2. CASE r # e
    <3>1. IF r \in Jobs THEN UNCHANGED jobs[r] ELSE UNCHANGED events[r]
      BY <1>1, <1>3, <2>2 DEF EnqueueEvent, RequeueEvent
    <3> QED BY <3>1, SameRows
  <2> QED BY <2>1, <2>2
<1> QED BY <1>2, <1>3 DEF Enqueue, Requeue

\* What a run relies on lasts while its row is untouched and its process where
\* it was.
LEMMA RunFrame ==
  ASSUME RuntimeTypeInv, NEW x \in Run, RunHolds(x),
         Untouched(IdOf[x.proc], x.row), phase'[x.proc] = phase[x.proc]
  PROVE  RunHolds(x)'
<1>1. /\ x.row \in Rows /\ x.left \in 0..HandlerTimeout
  BY RunFields
<1>2. LeaseOf(x.row) \in Nat
  BY <1>1, RuntimeConstants
     DEF RuntimeTypeInv, QueueInv, JobInv, EventInv, JobRow, EventRow, LeaseOf
<1>3. x.stage = "queued" \/ x.stage = "handler" => 0 < LeaseOf(x.row)
  BY <1>1, <1>2, RuntimeConstants DEF RunHolds
<1> QED BY <1>3 DEF RunHolds, Untouched

\* Runs of one process in one phase: where they can be.
LEMMA RunsOfPhase ==
  ASSUME RuntimeInv, NEW x \in runs
  PROVE  /\ x \in Run /\ x.proc \in Procs /\ x.row \in Rows
         /\ x.current /\ RunHolds(x)
         /\ phase[x.proc] \in {"claimJobs", "work"}
         /\ phase[x.proc] = "claimJobs" => x.stage = "queued" /\ x.row \in Events
         /\ phase[x.proc] = "work" => x.stage # "queued"
BY RunFields DEF RuntimeInv, RuntimeTypeInv, RunHolds

\* A step that only takes runs away, and touches the rows of none that stays.
LEMMA RunsSurvive ==
  ASSUME RuntimeInv, RuntimeTypeInv', runs' \subseteq runs,
         \A x \in runs' : /\ Untouched(IdOf[x.proc], x.row)
                          /\ phase'[x.proc] = phase[x.proc],
         \A p \in Procs : phase'[p] = "claimJobs" => phase[p] = "claimJobs"
  PROVE  RuntimeInv'
<1>1. ASSUME NEW x \in runs' PROVE RunHolds(x)'
  BY <1>1, RunsOfPhase, RunFrame DEF RuntimeInv
<1>2. RunsApart'
  BY DEF RuntimeInv, RunsApart
<1>3. LanesSuffice'
  <2> SUFFICES ASSUME NEW p \in Procs, phase'[p] = "claimJobs"
               PROVE  IsFiniteSet(Batch(p)') /\ Cardinality(Batch(p)') <= Concurrency
    BY DEF LanesSuffice
  <2>1. IsFiniteSet(Batch(p)) /\ Cardinality(Batch(p)) <= Concurrency
    BY DEF RuntimeInv, LanesSuffice
  <2>2. Batch(p)' \subseteq Batch(p)
    BY DEF Batch
  <2>3. /\ IsFiniteSet(Batch(p)') /\ Cardinality(Batch(p)) \in Nat
        /\ Cardinality(Batch(p)') <= Cardinality(Batch(p))
    BY <2>1, <2>2, FS_Subset, FS_CardinalityType
  <2>4. Cardinality(Batch(p)') \in Nat /\ Concurrency \in Nat
    BY <2>3, FS_CardinalityType, RuntimeAssumption
  <2> QED BY <2>1, <2>3, <2>4
<1> QED BY <1>1, <1>2, <1>3 DEF RuntimeInv

\* A step beside the runs: they stay, and so do the processes.
LEMMA RunsBeside ==
  ASSUME RuntimeInv, RuntimeTypeInv', UNCHANGED rvars,
         \A w \in Workers, r \in Rows : Untouched(w, r)
  PROVE  RuntimeInv'
<1>1. \A x \in runs : Untouched(IdOf[x.proc], x.row)
  BY RunsOfPhase, RuntimeConstants
<1> QED BY <1>1, RunsSurvive DEF rvars

-----------------------------------------------------------------------------
(* One lemma per step of the runtime *)

LEMMA PollStep ==
  ASSUME RuntimeInv, RuntimeTypeInv', NEW p \in Procs, PollReap(p)
  PROVE  RuntimeInv'
<1>1. \A x \in runs : x.proc # p
  BY RunsOfPhase DEF PollReap
<1>2. \A w \in Workers, r \in Rows : Untouched(w, r)
  BY SameRows, ReapByAnyone DEF PollReap, RuntimeInv, RuntimeTypeInv
<1>3. \A x \in runs : /\ Untouched(IdOf[x.proc], x.row)
                      /\ phase'[x.proc] = phase[x.proc]
  BY <1>1, <1>2, RunsOfPhase, RuntimeConstants DEF PollReap
<1>4. \A q \in Procs : phase'[q] = "claimJobs" => phase[q] = "claimJobs"
  BY DEF PollReap, RuntimeInv, RuntimeTypeInv
<1> QED BY <1>3, <1>4, RunsSurvive DEF PollReap

\* A process that starts, or whose tick ends, has no runs; one that is told to
\* stop drops those that wait, one that ends drops all.
LEMMA ProcessStep ==
  ASSUME RuntimeInv, RuntimeTypeInv', NEW p \in Procs,
         Start(p) \/ Stop(p) \/ Exit(p) \/ Crash(p) \/ TickEnds(p)
  PROVE  RuntimeInv'
<1>1. \A x \in runs : x.proc \in Procs /\ x.current
                       /\ phase[x.proc] \in {"claimJobs", "work"}
  BY RunsOfPhase
<1>2. /\ runs' \subseteq runs
      /\ \A x \in runs' : x.proc = p => Stop(p)
  BY <1>1 DEF Start, Stop, Exit, Crash, TickEnds
<1>3. UNCHANGED <<events, jobs>>
  BY DEF Start, Stop, Exit, Crash, TickEnds
<1>4. \A x \in runs' : /\ Untouched(IdOf[x.proc], x.row)
                       /\ phase'[x.proc] = phase[x.proc]
  <2>1. \A w, r : Untouched(w, r)
    BY <1>3, SameRows
  <2>2. ASSUME NEW x \in runs' PROVE phase'[x.proc] = phase[x.proc]
    <3>1. x.proc \in Procs /\ x \in runs /\ (x.proc = p => Stop(p))
      BY <1>1, <1>2
    <3> QED BY <3>1 DEF Start, Stop, Exit, Crash, TickEnds, RuntimeInv, RuntimeTypeInv
  <2> QED BY <2>1, <2>2
<1>5. \A q \in Procs : phase'[q] = "claimJobs" => phase[q] = "claimJobs"
  BY DEF Start, Stop, Exit, Crash, TickEnds, RuntimeInv, RuntimeTypeInv
<1> QED BY <1>2, <1>4, <1>5, RunsSurvive

\* A settlement takes its run with it; nothing waits for its lane.
LEMMA SettleStep ==
  ASSUME Provisioned, RuntimeInv, RuntimeTypeInv', NEW x \in runs,
         RunCompletes(x) \/ RunFails(x)
  PROVE  RuntimeInv'
<1>1. runs' = runs \ {x}
  <2>1. phase[x.proc] = "work"
    BY RunsOfPhase DEF RunCompletes, RunFails
  <2>2. Queued(Lane(x)) = {}
    BY <2>1, RunsOfPhase DEF Queued, Lane
  <2> QED BY <2>2 DEF RunCompletes, RunFails, AfterSettle
<1>2. ASSUME NEW y \in runs' PROVE Untouched(IdOf[y.proc], y.row)
  <2>1. /\ IdOf[x.proc] \in Workers /\ IdOf[y.proc] \in Workers
        /\ x.row \in Rows /\ y.row \in Rows /\ y \in runs
    BY <1>1, <1>2, RunsOfPhase, RuntimeConstants
  <2>2. IdOf[x.proc] # IdOf[y.proc] \/ x.row # y.row
    BY <1>1, <1>2, RunsOfPhase DEF Provisioned, RuntimeInv, RunsApart
  <2>3. CASE UNCHANGED <<events, jobs>>
    BY <2>3, SameRows
  <2>4. CASE /\ Holds(IdOf[x.proc], x.row)
             /\ Complete(IdOf[x.proc], x.row) \/ Fail(IdOf[x.proc], x.row)
    BY <2>1, <2>2, <2>4, SettledByAnother DEF RuntimeInv, RuntimeTypeInv
  <2> QED BY <2>3, <2>4 DEF RunCompletes, RunFails, CompleteRow, FailRow
<1>3. UNCHANGED phase
  BY DEF RunCompletes, RunFails
<1> QED BY <1>1, <1>2, <1>3, RunsSurvive

\* What a claim by worker w makes of row r.
Granted(w, r) == Holds(w, r)' /\ LeaseOf(r)' = LeaseSeconds

\* A claimed row is its claimer's, for a whole lease.
LEMMA ClaimedEvents ==
  ASSUME QueueInv, NEW w \in Workers, NEW S \in SUBSET Events,
         ClaimEvents(w, S)
  PROVE  \A e \in S : Granted(w, e) /\ AttemptOf(e)' = events'[e].attempts
<1> SUFFICES ASSUME NEW e \in S
             PROVE  Granted(w, e) /\ AttemptOf(e)' = events'[e].attempts
  OBVIOUS
<1>1. /\ e \in Events /\ e \notin Jobs /\ events[e] \in EventRow
      /\ EventClaimable(e)
  BY RuntimeConstants DEF QueueInv, EventInv, ClaimEvents
<1>2. events'[e] = [events[e] EXCEPT !.attempts = @ + 1, !.owner = w,
                                     !.lease = LeaseSeconds]
  BY <1>1 DEF ClaimEvents
<1>3. /\ events'[e].owner = w /\ events'[e].lease = LeaseSeconds
      /\ events'[e].processed = events[e].processed
      /\ events'[e].dead = events[e].dead
      /\ events'[e].stored = events[e].stored
  BY <1>1, <1>2 DEF EventRow
<1> QED BY <1>1, <1>3
       DEF EventClaimable, Granted, Holds, HoldsEvent, OpenEvent, LeaseOf, AttemptOf

LEMMA ClaimedJobs ==
  ASSUME QueueInv, NEW w \in Workers, NEW S \in SUBSET Jobs, ClaimJobs(w, S)
  PROVE  \A j \in S : Granted(w, j) /\ AttemptOf(j)' = jobs'[j].attempt
<1> SUFFICES ASSUME NEW j \in S
             PROVE  Granted(w, j) /\ AttemptOf(j)' = jobs'[j].attempt
  OBVIOUS
<1>1. j \in Jobs /\ jobs[j] \in JobRow
  BY DEF QueueInv, JobInv
<1>2. /\ jobs'[j].owner = w /\ jobs'[j].lease = LeaseSeconds
      /\ jobs'[j].status = "running"
  BY <1>1 DEF ClaimJobs, JobRow
<1> QED BY <1>1, <1>2 DEF Granted, Holds, HoldsJob, LeaseOf, AttemptOf

\* The columns of what a claim brings.
LEMMA ItemColumns ==
  ASSUME NEW p, NEW S, NEW attempts, NEW y \in Items(p, S, attempts)
  PROVE  /\ y.proc = p /\ y.row \in S /\ y.attempt = attempts[y.row]
         /\ y.stage = "queued" /\ y.current
BY DEF Items

\* One run per item.
LEMMA ItemsApart ==
  ASSUME NEW p, NEW S, NEW attempts, NEW x \in Items(p, S, attempts),
         NEW y \in Items(p, S, attempts), x.row = y.row
  PROVE  x = y
<1> DEFINE item(r) == [proc |-> p, row |-> r, attempt |-> attempts[r],
                       stage |-> "queued", left |-> 0, current |-> TRUE]
<1>1. \A z \in Items(p, S, attempts) : z = item(z.row)
  BY DEF Items
<1> QED BY ONLY <1>1, x \in Items(p, S, attempts),
                y \in Items(p, S, attempts), x.row = y.row

\* The runs of the other processes do not notice a claim.
LEMMA ClaimBeside ==
  ASSUME Provisioned, RuntimeInv, NEW p \in Procs, NEW x \in runs, x.proc # p,
         \/ UNCHANGED <<events, jobs>>
         \/ \E S \in SUBSET Events : ClaimEvents(IdOf[p], S)
         \/ \E S \in SUBSET Jobs : ClaimJobs(IdOf[p], S)
  PROVE  Untouched(IdOf[x.proc], x.row)
<1>1. /\ x.proc \in Procs /\ x.row \in Rows
      /\ IdOf[p] \in Workers /\ IdOf[x.proc] \in Workers
      /\ IdOf[p] # IdOf[x.proc]
  BY RunsOfPhase, RuntimeConstants DEF Provisioned
<1>2. QueueInv
  BY DEF RuntimeInv, RuntimeTypeInv
<1>3. CASE UNCHANGED <<events, jobs>>
  BY <1>3, SameRows
<1> QED BY <1>1, <1>2, <1>3, ClaimByAnother

\* A process that claims from the outbox runs nothing yet, and has a lane for
\* everything the reply can bring.
LEMMA OutboxStep ==
  ASSUME Provisioned, RuntimeInv, RuntimeTypeInv', NEW p \in Procs,
         NEW S \in SUBSET Events, ClaimOutbox(p, S)
  PROVE  RuntimeInv'
<1> DEFINE new == Items(p, S, [e \in S |-> events'[e].attempts])
<1>1. \A x \in runs : x.proc \in Procs /\ x.proc # p
  BY RunsOfPhase DEF ClaimOutbox
<1>2. /\ runs' = runs \cup new
      /\ phase' = [phase EXCEPT ![p] = "claimJobs"]
      /\ phase \in [Procs -> Phases]
  BY DEF ClaimOutbox, RuntimeInv, RuntimeTypeInv
<1>3. ASSUME NEW x \in new
      PROVE  /\ x.proc = p /\ x.row \in S /\ x.attempt = events'[x.row].attempts
             /\ x.stage = "queued" /\ x.current
  BY <1>3, ItemColumns
<1>4. ASSUME NEW x \in new, NEW y \in new, x.row = y.row PROVE x = y
  BY <1>4, ItemsApart
<1>5. ASSUME NEW r \in S PROVE \E x \in new : x.row = r
  <2> DEFINE x == [proc |-> p, row |-> r, attempt |-> events'[r].attempts,
                   stage |-> "queued", left |-> 0, current |-> TRUE]
  <2>1. x \in new
    BY <1>5 DEF Items
  <2>2. x.row = r
    OBVIOUS
  <2> QED BY <2>1, <2>2
<1> HIDE DEF new
<1>6. ASSUME NEW x \in runs PROVE RunHolds(x)'
  <2>1. Untouched(IdOf[x.proc], x.row)
    BY <1>1, ClaimBeside DEF ClaimOutbox
  <2>2. phase'[x.proc] = phase[x.proc]
    BY <1>1, <1>2
  <2> QED BY <2>1, <2>2, RunsOfPhase, RunFrame DEF RuntimeInv
<1>7. ASSUME NEW x \in new PROVE RunHolds(x)'
  <2>1. QueueInv /\ IdOf[p] \in Workers /\ ClaimEvents(IdOf[p], S)
    BY <1>3, <1>7, RuntimeConstants DEF ClaimOutbox, RuntimeInv, RuntimeTypeInv
  <2>2. Granted(IdOf[p], x.row) /\ AttemptOf(x.row)' = x.attempt
    BY <1>3, <1>7, <2>1, ClaimedEvents
  <2>3. phase'[p] = "claimJobs"
    BY <1>2
  <2> QED BY <1>3, <1>7, <2>2, <2>3 DEF RunHolds, Granted
<1>8. RunsApart'
  <2> SUFFICES ASSUME NEW x \in runs \cup new, NEW y \in runs \cup new,
                      x.proc = y.proc, x.row = y.row
               PROVE  x = y
    BY <1>2 DEF RunsApart
  <2>1. CASE x \in new /\ y \in new
    BY <1>4, <2>1
  <2>2. CASE x \in runs /\ y \in runs
    BY <2>2 DEF RuntimeInv, RunsApart
  <2> QED BY <1>1, <1>3, <2>1, <2>2
<1>9. LanesSuffice'
  <2> SUFFICES ASSUME NEW q \in Procs, phase'[q] = "claimJobs"
               PROVE  IsFiniteSet(Batch(q)') /\ Cardinality(Batch(q)') <= Concurrency
    BY DEF LanesSuffice
  <2>1. CASE q = p
    <3>1. Batch(q)' = S
      BY <1>1, <1>2, <1>3, <1>5, <2>1 DEF Batch
    <3>2. IsFiniteSet(S)
      BY FS_Subset DEF Provisioned
    <3>3. Cardinality(S) <= BatchSize \/ S = {}
      BY DEF ClaimOutbox, ClaimEvents
    <3>4. BatchSize \in Nat /\ Concurrency \in Nat /\ BatchSize <= Concurrency
      BY QueueAssumption, RuntimeAssumption DEF Provisioned
    <3> QED BY <3>1, <3>2, <3>3, <3>4, FS_CardinalityType, FS_EmptySet
  <2>2. CASE q # p
    <3>1. phase[q] = "claimJobs"
      BY <1>2, <2>2
    <3>2. Batch(q)' = Batch(q)
      BY <1>2, <1>3, <2>2 DEF Batch
    <3> QED BY <3>1, <3>2 DEF RuntimeInv, LanesSuffice
  <2> QED BY <2>1, <2>2
<1> QED BY <1>2, <1>6, <1>7, <1>8, <1>9 DEF RuntimeInv

\* With a lane for each of them every item is among the first.
LEMMA AllAtOnce ==
  ASSUME NEW S, IsFiniteSet(S), Cardinality(S) <= Concurrency,
         NEW F \in FirstItems(S)
  PROVE  F = S
<1>1. F \in SUBSET S /\ Cardinality(S) \in Nat /\ Concurrency \in Nat
  BY FS_CardinalityType, RuntimeAssumption DEF FirstItems
<1>2. Cardinality(F) = Cardinality(S)
  BY <1>1 DEF FirstItems
<1> QED BY <1>1, <1>2, FS_Subset

\* The columns of a run that starts.
LEMMA StartedColumns ==
  ASSUME NEW x \in Run
  PROVE  /\ Started(x).proc = x.proc /\ Started(x).row = x.row
         /\ Started(x).attempt = x.attempt /\ Started(x).current = x.current
         /\ Started(x).stage = "handler" /\ Started(x).left = HandlerTimeout
BY DEF Run, Started

\* With the second reply every item starts, under the lease of its claim.
LEMMA WorkStep ==
  ASSUME Provisioned, RuntimeInv, RuntimeTypeInv', NEW p \in Procs,
         NEW S \in SUBSET Jobs, ClaimWork(p, S)
  PROVE  RuntimeInv'
<1> DEFINE mine == {y \in runs : y.proc = p /\ y.current}
           new == Items(p, S, [j \in S |-> jobs'[j].attempt])
<1>1. \A x \in runs : x \in Run /\ x.proc \in Procs /\ x.current
  BY RunsOfPhase
<1>2. /\ phase[p] = "claimJobs" /\ phase' = [phase EXCEPT ![p] = "work"]
      /\ phase \in [Procs -> Phases] /\ QueueInv /\ IdOf[p] \in Workers
      /\ UNCHANGED events
  BY RuntimeConstants DEF ClaimWork, ClaimJobs, RuntimeInv, RuntimeTypeInv
<1>3. \A q \in Procs : phase'[q] = "claimJobs" => q # p /\ phase[q] = "claimJobs"
  BY <1>2
<1>4. ASSUME NEW x \in runs, x.proc # p
      PROVE  /\ Untouched(IdOf[x.proc], x.row)
             /\ phase'[x.proc] = phase[x.proc]
  BY <1>1, <1>2, <1>4, ClaimBeside DEF ClaimWork
<1>5. CASE stopping[p]
  <2>1. runs' \subseteq runs /\ \A x \in runs' : x.proc # p
    BY <1>1, <1>5 DEF ClaimWork
  <2> QED BY <1>3, <1>4, <2>1, RunsSurvive
<1>6. CASE ~ stopping[p]
  <2>1. \A y \in mine : /\ y \in runs /\ y.proc = p /\ y.row \in Events
                        /\ y.row \notin Jobs /\ y.row \in Rows
                        /\ y.stage = "queued"
                        /\ RunHolds(y)
    BY <1>2, RunsOfPhase, RuntimeConstants
  <2>2. \A y \in new : /\ y.proc = p /\ y.row \in S /\ y.row \in Jobs
                       /\ y.attempt = jobs'[y.row].attempt
                       /\ y.current /\ y \in Run
    <3>1. \A r \in S : [j \in S |-> jobs'[j].attempt][r] \in Nat /\ r \in Rows
      BY RuntimeConstants DEF RuntimeTypeInv, QueueInv, JobInv, JobRow
    <3>2. new \subseteq Run
      BY <3>1, ItemsAreRuns
    <3> QED BY <3>2, ItemColumns
  <2>3. \A y, z \in new : y.row = z.row => y = z
    BY ItemsApart
  <2>4. runs' = (runs \ mine) \cup {Started(y) : y \in mine \cup new}
    <3>1. PICK E \in FirstItems({y.row : y \in mine}), J \in FirstItems(S) :
            runs' = (runs \ mine) \cup
              {IF y.row \in E \cup J THEN Started(y) ELSE y : y \in mine \cup new}
      BY <1>6 DEF ClaimWork
    <3>2. IsFiniteSet({y.row : y \in mine})
          /\ Cardinality({y.row : y \in mine}) <= Concurrency
      BY <1>2 DEF RuntimeInv, LanesSuffice, Batch
    <3>3. E = {y.row : y \in mine}
      BY <3>1, <3>2, AllAtOnce
    <3>4. IsFiniteSet(S)
      BY FS_Subset DEF Provisioned
    <3>5. Cardinality(S) <= BatchSize \/ S = {}
      BY DEF ClaimWork, ClaimJobs
    <3>6. BatchSize \in Nat /\ Concurrency \in Nat /\ BatchSize <= Concurrency
      BY QueueAssumption, RuntimeAssumption DEF Provisioned
    <3>7. Cardinality(S) <= Concurrency
      BY <3>4, <3>5, <3>6, FS_CardinalityType, FS_EmptySet
    <3>8. J = S
      BY <3>1, <3>4, <3>7, AllAtOnce
    <3>9. \A y \in mine \cup new : y.row \in E \cup J
      BY <2>2, <3>3, <3>8
    <3> HIDE DEF mine, new
    <3> QED BY <3>1, <3>9
  <2> DEFINE all == mine \cup new
  <2>5. \A y \in all : /\ y \in Run /\ y.proc = p /\ y.current
                       /\ Started(y).proc = p /\ Started(y).row = y.row
                       /\ Started(y).attempt = y.attempt
                       /\ Started(y).current
                       /\ Started(y).stage = "handler"
                       /\ Started(y).left = HandlerTimeout
    BY <1>1, <2>1, <2>2, StartedColumns
  <2>6. \A x \in runs \ mine : x.proc # p
    BY <1>1
  <2> HIDE DEF all
  <2>7. ASSUME NEW y \in all
        PROVE  Granted(IdOf[p], y.row) /\ AttemptOf(y.row)' = y.attempt
    <3>1. CASE y \in mine
      <4>1. /\ Holds(IdOf[p], y.row) /\ LeaseOf(y.row) = LeaseSeconds
            /\ AttemptOf(y.row) = y.attempt
        BY <2>1, <3>1 DEF RunHolds
      <4>2. Untouched(IdOf[p], y.row)
        BY <1>2, <2>1, <3>1, SameRows
      <4> QED BY <4>1, <4>2, RuntimeConstants DEF Untouched, Granted
    <3>2. CASE y \in new
      <4>1. ClaimJobs(IdOf[p], S)
        BY <2>2, <3>2 DEF ClaimWork
      <4> QED BY <1>2, <2>2, <3>2, <4>1, ClaimedJobs
    <3> QED BY <3>1, <3>2 DEF all
  <2>8. ASSUME NEW x \in runs' PROVE RunHolds(x)'
    <3>1. CASE x \in runs \ mine
      BY <1>1, <1>4, <2>6, <3>1, RunsOfPhase, RunFrame DEF RuntimeInv
    <3>2. CASE \E y \in all : x = Started(y)
      <4>1. PICK y \in all : x = Started(y)
        BY <3>2
      <4>2. phase'[p] = "work" /\ HandlerTimeout < LeaseSeconds
        BY <1>2, RuntimeConstants
      <4> QED BY <2>5, <2>7, <4>1, <4>2 DEF RunHolds, Granted
    <3> QED BY <2>4, <2>8, <3>1, <3>2 DEF all
  <2>9. ASSUME NEW y \in all, NEW z \in all, y.row = z.row PROVE y = z
    <3>1. CASE y \in mine /\ z \in mine
      BY <2>1, <2>9, <3>1 DEF RuntimeInv, RunsApart
    <3>2. CASE y \in new /\ z \in new
      BY <2>3, <2>9, <3>2
    <3> QED BY <2>1, <2>2, <2>9, <3>1, <3>2 DEF all
  <2>10. RunsApart'
    <3> SUFFICES ASSUME NEW x \in runs', NEW z \in runs',
                        x.proc = z.proc, x.row = z.row
                 PROVE  x = z
      BY DEF RunsApart
    <3>1. CASE x \in runs \ mine /\ z \in runs \ mine
      BY <3>1 DEF RuntimeInv, RunsApart
    <3>2. CASE \E y \in all : x = Started(y)
      <4>1. PICK y \in all : x = Started(y)
        BY <3>2
      <4>2. PICK u \in all : z = Started(u)
        BY <2>4, <2>5, <2>6, <4>1 DEF all
      <4> QED BY <2>5, <2>9, <4>1, <4>2
    <3>3. CASE \E u \in all : z = Started(u)
      <4>1. PICK u \in all : z = Started(u)
        BY <3>3
      <4>2. \E y \in all : x = Started(y)
        BY <2>4, <2>5, <2>6, <4>1 DEF all
      <4> QED BY <3>2, <4>2
    <3> QED BY <2>4, <3>1, <3>2, <3>3 DEF all
  <2>11. LanesSuffice'
    <3> SUFFICES ASSUME NEW q \in Procs, phase'[q] = "claimJobs"
                 PROVE  IsFiniteSet(Batch(q)') /\ Cardinality(Batch(q)') <= Concurrency
      BY DEF LanesSuffice
    <3>1. q # p /\ phase[q] = "claimJobs"
      BY <1>3
    <3>2. \A x : x.proc = q => (x \in runs' <=> x \in runs)
      BY <2>4, <2>5, <3>1 DEF all
    <3>3. Batch(q)' = Batch(q)
      BY <3>2 DEF Batch
    <3> QED BY <3>1, <3>3 DEF RuntimeInv, LanesSuffice
  <2> QED BY <2>8, <2>10, <2>11 DEF RuntimeInv
<1> QED BY <1>5, <1>6

\* A handler that returns, throws or runs out of time leaves its run behind.
LEMMA HandlerStep ==
  ASSUME RuntimeInv, RuntimeTypeInv', NEW x \in runs, HandlerSettles(x)
  PROVE  RuntimeInv'
<1>1. PICK s \in {"resolved", "rejected"} :
        runs' = (runs \ {x}) \cup {[x EXCEPT !.stage = s, !.left = 0]}
  BY DEF HandlerSettles
<1> DEFINE z == [x EXCEPT !.stage = s, !.left = 0]
<1>2. /\ x \in Run /\ RunHolds(x) /\ x.stage = "handler"
      /\ phase[x.proc] = "work" /\ UNCHANGED <<events, jobs, phase>>
  BY RunsOfPhase DEF HandlerSettles
<1>3. /\ z.proc = x.proc /\ z.row = x.row /\ z.attempt = x.attempt
      /\ z.current = x.current /\ z.stage = s
  BY <1>2 DEF Run
<1> HIDE DEF z
<1>4. runs' = (runs \ {x}) \cup {z}
  BY <1>1 DEF z
<1>5. \A w, r : Untouched(w, r)
  BY <1>2, SameRows
<1>6. ASSUME NEW y \in runs PROVE RunHolds(y)'
  BY <1>2, <1>5, RunsOfPhase, RunFrame DEF RuntimeInv
<1>7. RunHolds(z)'
  BY <1>2, <1>3, <1>6 DEF RunHolds
<1>8. RunsApart'
  BY <1>3, <1>4 DEF RuntimeInv, RunsApart
<1>9. LanesSuffice'
  <2> SUFFICES ASSUME NEW q \in Procs, phase'[q] = "claimJobs"
               PROVE  IsFiniteSet(Batch(q)') /\ Cardinality(Batch(q)') <= Concurrency
    BY DEF LanesSuffice
  <2>1. q # x.proc /\ phase[q] = "claimJobs"
    BY <1>2
  <2>2. \A y : y.proc = q => (y \in runs' <=> y \in runs)
    BY <1>3, <1>4, <2>1
  <2>3. Batch(q)' = Batch(q)
    BY <2>2 DEF Batch
  <2> QED BY <2>1, <2>3 DEF RuntimeInv, LanesSuffice
<1> QED BY <1>4, <1>6, <1>7, <1>8, <1>9 DEF RuntimeInv

\* A second leaves every lease to the worker that had it, one second shorter.
LEMMA TickedRow ==
  ASSUME QueueInv, Tick, NEW w, NEW r \in Rows
  PROVE  /\ Holds(w, r)' <=> Holds(w, r)
         /\ AttemptOf(r)' = AttemptOf(r)
         /\ LeaseOf(r)' = Less(LeaseOf(r)) /\ LeaseOf(r) \in Nat
<1>1. CASE r \in Jobs
  <2>1. jobs[r] \in JobRow /\ Less(jobs[r].wait) \in Nat
    BY <1>1, LessType, RowConstants DEF QueueInv, JobInv, JobRow
  <2>2. jobs'[r] = [jobs[r] EXCEPT !.wait = Less(@), !.lease = Less(@)]
    BY <1>1 DEF Tick
  <2>3. /\ jobs'[r].status = jobs[r].status /\ jobs'[r].owner = jobs[r].owner
        /\ jobs'[r].attempt = jobs[r].attempt
        /\ jobs'[r].lease = Less(jobs[r].lease) /\ jobs[r].lease \in Nat
    BY <2>1, <2>2, RowConstants DEF JobRow
  <2> QED BY <1>1, <2>3 DEF Holds, HoldsJob, AttemptOf, LeaseOf
<1>2. CASE r \notin Jobs
  <2>1. r \in Events /\ events[r] \in EventRow
    BY <1>2, RuntimeConstants DEF QueueInv, EventInv
  <2>2. events'[r] = [events[r] EXCEPT !.wait = Less(@), !.lease = Less(@)]
    BY <2>1 DEF Tick
  <2>3. /\ events'[r].stored = events[r].stored
        /\ events'[r].processed = events[r].processed
        /\ events'[r].dead = events[r].dead
        /\ events'[r].owner = events[r].owner
        /\ events'[r].attempts = events[r].attempts
        /\ events'[r].lease = Less(events[r].lease) /\ events[r].lease \in Nat
    BY <2>1, <2>2, RowConstants DEF EventRow
  <2> QED BY <1>2, <2>3 DEF Holds, HoldsEvent, OpenEvent, AttemptOf, LeaseOf
<1> QED BY <1>1, <1>2

\* A timer that has time left loses a second with its lease.
LEMMA SecondStep ==
  ASSUME RuntimeInv, RuntimeTypeInv', Second
  PROVE  RuntimeInv'
<1>1. /\ Tick /\ UNCHANGED <<phase, stopping>>
      /\ \A y \in runs : y.stage = "handler" => y.left > 0
      /\ \A p \in Procs : phase[p] # "claimJobs"
      /\ runs' = {[y EXCEPT !.left = Less(@)] : y \in runs}
      /\ QueueInv
  BY DEF Second, RuntimeInv, RuntimeTypeInv
<1>2. ASSUME NEW y \in runs
      PROVE  LET z == [y EXCEPT !.left = Less(@)]
             IN  /\ z.proc = y.proc /\ z.row = y.row /\ z.attempt = y.attempt
                 /\ z.current = y.current /\ z.stage = y.stage
                 /\ z.left = Less(y.left)
  BY <1>2, RunsOfPhase DEF Run
<1>3. ASSUME NEW y \in runs PROVE RunHolds([y EXCEPT !.left = Less(@)])'
  <2> DEFINE z == [y EXCEPT !.left = Less(@)]
  <2>1. /\ z.proc = y.proc /\ z.row = y.row /\ z.attempt = y.attempt
        /\ z.current = y.current /\ z.stage = y.stage /\ z.left = Less(y.left)
    BY <1>2, <1>3
  <2> HIDE DEF z
  <2>2. /\ RunHolds(y) /\ y.current /\ y.proc \in Procs /\ y.row \in Rows
        /\ phase[y.proc] = "work" /\ y.stage # "queued"
    BY <1>1, <1>3, RunsOfPhase
  <2>3. /\ Holds(IdOf[y.proc], y.row)' <=> Holds(IdOf[y.proc], y.row)
        /\ AttemptOf(y.row)' = AttemptOf(y.row)
        /\ LeaseOf(y.row)' = Less(LeaseOf(y.row)) /\ LeaseOf(y.row) \in Nat
    BY <1>1, <2>2, TickedRow
  <2>4. y.stage = "handler" => y.left \in Nat /\ 0 < y.left
    BY <1>1, <1>3, RunsOfPhase, RunFields, RuntimeConstants
  <2>5. y.stage = "handler" => z.left < LeaseOf(y.row)'
    BY <2>1, <2>2, <2>3, <2>4 DEF RunHolds, Less
  <2>6. RunHolds(z)'
    BY <1>1, <2>1, <2>2, <2>3, <2>5 DEF RunHolds
  <2> QED BY <2>6 DEF z
<1>4. RunsApart'
  <2> SUFFICES ASSUME NEW x \in runs', NEW z \in runs',
                      x.proc = z.proc, x.row = z.row
               PROVE  x = z
    BY DEF RunsApart
  <2>1. PICK y \in runs : x = [y EXCEPT !.left = Less(@)]
    BY <1>1
  <2>2. PICK u \in runs : z = [u EXCEPT !.left = Less(@)]
    BY <1>1
  <2>3. x.proc = y.proc /\ x.row = y.row /\ z.proc = u.proc /\ z.row = u.row
    BY <1>2, <2>1, <2>2
  <2>4. y = u
    BY <2>3 DEF RuntimeInv, RunsApart
  <2> QED BY <2>1, <2>2, <2>4
<1>5. LanesSuffice'
  BY <1>1 DEF LanesSuffice
<1> QED BY <1>1, <1>3, <1>4, <1>5 DEF RuntimeInv

LEMMA RuntimeInvInit == RuntimeInit => RuntimeInv
BY RuntimeTypeInit DEF RuntimeInit, RuntimeInv, RunsApart, LanesSuffice

\* Every step keeps the runs under their leases.
LEMMA RuntimeInvStep ==
  ASSUME Provisioned, RuntimeInv, RuntimeNext
  PROVE  RuntimeInv'
<1>1. RuntimeTypeInv'
  BY RuntimeTypeStep DEF RuntimeInv
<1>2. ASSUME NEW p \in Procs, TickStep(p) PROVE RuntimeInv'
  BY <1>1, <1>2, PollStep, OutboxStep, WorkStep, ProcessStep DEF TickStep
<1>3. ASSUME NEW p \in Procs, Start(p) \/ Stop(p) \/ Exit(p) \/ Crash(p)
      PROVE  RuntimeInv'
  BY <1>1, <1>3, ProcessStep
<1>4. ASSUME NEW x \in runs, RunStep(x) PROVE RuntimeInv'
  BY <1>1, <1>4, HandlerStep, SettleStep DEF RunStep
<1>5. CASE Submit \/ Reprocess
  <2>1. \A w \in Workers, r \in Rows : Untouched(w, r)
    BY <1>5, CalledByOthers DEF Submit, Reprocess, RuntimeInv, RuntimeTypeInv
  <2> QED BY <1>1, <1>5, <2>1, RunsBeside DEF Submit, Reprocess
<1>6. CASE Second
  BY <1>1, <1>6, SecondStep
<1>7. /\ \A p \in Procs : ~ TickRejects(p)
      /\ \A x \in runs : ~ CompletionErrs(x) /\ ~ FailureErrs(x)
  BY DEF Provisioned, TickRejects, CompletionErrs, FailureErrs
<1> QED BY <1>2, <1>3, <1>4, <1>5, <1>6, <1>7 DEF RuntimeNext

-----------------------------------------------------------------------------
(* Theorems *)

THEOREM RuntimeTypeInvariant == RuntimeSpec => []RuntimeTypeInv
<1>1. RuntimeTypeInv /\ UNCHANGED allVars => RuntimeTypeInv'
  BY DEF allVars, RuntimeTypeInv, QueueInv
<1> QED BY <1>1, RuntimeTypeInit, RuntimeTypeStep, PTL DEF RuntimeSpec

\* Claimed items, phases and rows keep their types (WorkerRuntime!RuntimeTypeOK).
THEOREM RuntimeTypes == RuntimeSpec => []RuntimeTypeOK
<1>1. RuntimeTypeInv => RuntimeTypeOK
  BY InvImplies DEF RuntimeTypeInv, RuntimeTypeOK
<1> QED BY <1>1, RuntimeTypeInvariant, PTL

\* The processes are users of the queue like any other: with their crashes,
\* timers, abandoned lanes and failing calls they do to the two tables only what
\* AsyncQueue allows, so rows keep their CHECKs, none is stranded, and the
\* leased-work contract holds.
THEOREM RuntimeUsesQueue == RuntimeSpec => Spec
<1>1. RuntimeInit => Init
  BY DEF RuntimeInit
<1>2. RuntimeTypeInv /\ [RuntimeNext]_allVars => [Next]_vars
  <2>1. CASE UNCHANGED allVars
    BY <2>1 DEF allVars, vars
  <2> QED BY <2>1, QueueSteps
<1> QED BY <1>1, <1>2, RuntimeTypeInvariant, PTL DEF RuntimeSpec, Spec

\* In a provisioned deployment every run keeps what it relies on.
THEOREM RunsHold == ASSUME Provisioned PROVE RuntimeSpec => []RuntimeInv
<1>1. RuntimeInv /\ UNCHANGED allVars => RuntimeInv'
  BY DEF allVars, RuntimeInv, RuntimeTypeInv, QueueInv, RunHolds, RunsApart,
     LanesSuffice, Batch, Holds, HoldsJob, HoldsEvent, OpenEvent, LeaseOf, AttemptOf
<1> QED BY <1>1, RuntimeInvInit, RuntimeInvStep, PTL DEF RuntimeSpec

\* In a provisioned deployment a handler executes only under the lease it was
\* claimed with, so no row has two handlers at a time, in one process or in two
\* (WorkerRuntime!HandlerInLease).
THEOREM HandlersLeased ==
  ASSUME Provisioned PROVE RuntimeSpec => []HandlerInLease
<1>1. RuntimeInv => HandlerInLease
  <2> SUFFICES ASSUME RuntimeInv, NEW x \in runs, x.stage = "handler"
               PROVE  /\ Holds(IdOf[x.proc], x.row) /\ Leased(x.row)
                      /\ AttemptOf(x.row) = x.attempt
                      /\ \A y \in runs :
                           y.stage = "handler" /\ y.row = x.row => y = x
    BY DEF HandlerInLease
  <2>1. ASSUME NEW y \in runs, y.stage = "handler"
        PROVE  /\ Holds(IdOf[y.proc], y.row) /\ AttemptOf(y.row) = y.attempt
               /\ y.left < LeaseOf(y.row) /\ y.left \in 0..HandlerTimeout
               /\ y.proc \in Procs /\ y.row \in Rows
    BY <2>1, RunsOfPhase, RunFields DEF RunHolds
  <2>2. Leased(x.row)
    <3>1. LeaseOf(x.row) \in Nat
      BY <2>1, RuntimeConstants DEF RuntimeInv, RuntimeTypeInv, QueueInv, JobInv,
         EventInv, JobRow, EventRow, LeaseOf
    <3> QED BY <2>1, <3>1, RuntimeConstants DEF Leased, LeaseOf
  <2>3. ASSUME NEW y \in runs, y.stage = "handler", y.row = x.row PROVE y = x
    <3>1. IdOf[y.proc] = IdOf[x.proc]
      BY <2>1, <2>3 DEF Holds, HoldsJob, HoldsEvent
    <3> QED BY <2>1, <2>3, <3>1 DEF Provisioned, RuntimeInv, RunsApart
  <2> QED BY <2>1, <2>2, <2>3
<1> QED BY <1>1, RunsHold, PTL

\* In a provisioned deployment a settlement that changes a row changes the
\* attempt its run was claimed with (WorkerRuntime!SettlesOwnAttempt).
THEOREM SettlementsOwn ==
  ASSUME Provisioned PROVE RuntimeSpec => SettlesOwnAttempt
<1> DEFINE Own ==
      \A x \in runs :
        (RunCompletes(x) \/ RunFails(x)) /\ <<events, jobs>>' # <<events, jobs>>
          => AttemptOf(x.row) = x.attempt
<1>1. RuntimeInv /\ [RuntimeNext]_allVars => [Own]_allVars
  BY RunsOfPhase DEF RunHolds, RunCompletes, RunFails, CompleteRow, FailRow
<1> QED BY <1>1, RunsHold, PTL DEF RuntimeSpec, SettlesOwnAttempt
=============================================================================
