------------------------------ MODULE DeliveryProofs ------------------------------
(***************************************************************************)
(* Proofs about the two handlers, for any number of jobs, workers and      *)
(* calls.  The queue's own invariant is AsyncQueueProofs'; what is added   *)
(* here is what a run may rely on while its handler works without a lock:  *)
(* its lease, which outlives it, and its worker, which does not claim      *)
(* again before it is settled.                                             *)
(***************************************************************************)
EXTENDS OutboundDeliveries, AsyncQueueProofs

-----------------------------------------------------------------------------
(* Runs                                                                    *)

\* A run that is waited for holds its job under a lease; unless the timer of one
\* of them won, every run of a job is waited for or has returned.
RunHolds(r) ==
  /\ jobs[r.job].status \notin {"absent", "pending"}
  /\ r.lane = "waiting" /\ ~ Over(r) => HoldsJob(r.w, r.job) /\ jobs[r.job].lease > 0
  /\ r.job \notin late => r.lane = "waiting" \/ (r.lane = "failing" /\ r.stage = "returned")

\* A worker has at most one run of a job that is not settled.
OneOpenRun ==
  \A r1, r2 \in runs :
    r1.lane # "left" /\ r2.lane # "left" /\ r1.w = r2.w /\ r1.job = r2.job => r1 = r2

RunsInv ==
  /\ QueueInv
  /\ late \subseteq Jobs
  /\ \A r \in runs : RunHolds(r)
  /\ OneOpenRun

-----------------------------------------------------------------------------
(* Webhook deliveries                                                      *)

\* The status of a delivery, against that of its job; StatusIsSynced asks for it
\* only when nobody works on the job.
Synced(d) ==
  /\ jobs[d].status = "absent" => deliveries[d] = "absent"
  /\ jobs[d].status = "pending" => deliveries[d] = "queued"
  /\ jobs[d].status \in {"retry_wait", "dead_lettered"} => deliveries[d] = jobs[d].status
  /\ jobs[d].status = "succeeded" => deliveries[d] \in {"succeeded", "cancelled"}

\* A request that was answered was accepted, and what a handler that still holds
\* its job has returned may be completed.
PostHolds(r) ==
  /\ r.stage = "answered" => r.job \in accepted
  /\ r.job \notin late /\ r.stage = "returned" /\ HoldsJob(r.w, r.job)
       => deliveries[r.job] = "cancelled" \/ r.job \in accepted

WebhookInv ==
  /\ AdminTypeOK
  /\ deliveries \in [Jobs -> DeliveryStatus] /\ accepted \subseteq Jobs
  /\ runs \subseteq Run
  /\ \A s \in Subs, e \in Events : ~ events[e].stored => jobs[<<s, e>>].status = "absent"
  /\ \A d \in Jobs \ late : Synced(d)
  /\ \A r \in runs : PostHolds(r)
  /\ SucceededWasAccepted
  /\ \A m \in Jobs : messages[m].status = "absent"

-----------------------------------------------------------------------------
(* Outbound messages                                                       *)

MessageRun == RunsIn({"disabled", "sending", "accepted", "broken"})

\* A message that was accepted was handed, one whose handler returned is settled.
SendHolds(r) ==
  /\ r.stage = "accepted" => r.job \in handed
  /\ r.stage = "returned" => messages[r.job].status \in {"sent", "cancelled"}

MessageInv ==
  /\ route \in [provider: Providers \cup {NoProvider}, active: BOOLEAN] /\ consent \in BOOLEAN
  /\ messages \in [Jobs -> Message] /\ handed \subseteq Jobs
  /\ runs \subseteq MessageRun
  /\ \A m \in Jobs : jobs[m].status = "absent" <=> messages[m].status \in {"absent", "blocked"}
  /\ \A m \in handed : jobs[m].status # "absent"
  /\ \A r \in runs : SendHolds(r)
  /\ SuccessIsSettled
  /\ SentWasAccepted
  /\ \A d \in Jobs : deliveries[d] = "absent"

OutboundInv ==
  /\ RunsInv
  /\ IF handler = "webhook" THEN WebhookInv ELSE MessageInv

\* What the steps of the runtime leave for the handlers: a run is new or goes on
\* where it was, and a job is completed by a run that holds it and has returned.
RunsEffect ==
  /\ late \subseteq late'
  /\ \A e \in Events : events'[e].stored = events[e].stored
  /\ \A r \in runs' :
       \/ r.stage = "begun"
       \/ \E q \in runs :
            /\ q.job = r.job /\ q.stage = r.stage
            /\ r.job \notin late' /\ HoldsJob(r.w, r.job)' => HoldsJob(q.w, q.job)
  /\ \A d \in Jobs :
       \/ jobs'[d].status = jobs[d].status
       \/ /\ jobs[d].status # "absent"
          /\ jobs'[d].status \in {"running", "retry_wait", "dead_lettered"}
       \/ /\ jobs[d].status = "running" /\ jobs'[d].status = "succeeded"
          /\ \E r \in runs : r.job = d /\ r.stage = "returned" /\ HoldsJob(r.w, d)

RunsKept(stages) ==
  /\ late' \subseteq Jobs
  /\ \A r \in runs' : RunHolds(r)'
  /\ OneOpenRun'
  /\ runs' \subseteq RunsIn(stages)
  /\ RunsEffect

\* The fields of a run that moves to another stage, or to another lane.
LEMMA StageFields ==
  ASSUME NEW stages, NEW r \in RunsIn(stages),
         NEW stage \in stages \cup {"begun", "returned", "threw"}
  PROVE  /\ [r EXCEPT !.stage = stage] \in RunsIn(stages)
         /\ [r EXCEPT !.stage = stage].job = r.job /\ [r EXCEPT !.stage = stage].w = r.w
         /\ [r EXCEPT !.stage = stage].lane = r.lane /\ [r EXCEPT !.stage = stage].stage = stage
BY DEF RunsIn

LEMMA LaneFields ==
  ASSUME NEW stages, NEW r \in RunsIn(stages), NEW lane \in {"waiting", "failing", "left"}
  PROVE  /\ [r EXCEPT !.lane = lane] \in RunsIn(stages)
         /\ [r EXCEPT !.lane = lane].job = r.job /\ [r EXCEPT !.lane = lane].w = r.w
         /\ [r EXCEPT !.lane = lane].lane = lane /\ [r EXCEPT !.lane = lane].stage = r.stage
BY DEF RunsIn

\* The rows of the queue have their types.
LEMMA QueueRows ==
  ASSUME RunsInv
  PROVE  /\ events \in [Events -> EventRow] /\ jobs \in [Jobs -> JobRow]
         /\ NoWorker \notin Workers /\ LeaseSeconds > 0
         /\ \A j \in Jobs : jobs[j].status = "running" <=> jobs[j].owner # NoWorker
BY InvImplies, RowConstants DEF RunsInv, TypeOK, RowChecks, JobChecks

\* Some runs end, and the queue stays as it is.
LEMMA RunsEnd ==
  ASSUME RunsInv, NEW stages, runs \subseteq RunsIn(stages), runs' \subseteq runs,
         UNCHANGED <<vars, late>>
  PROVE  RunsKept(stages)
<1>1. UNCHANGED <<events, jobs, late>>
  BY DEF vars
<1>2. \A r \in runs' : RunHolds(r)'
  BY <1>1 DEF RunsInv, RunHolds, HoldsJob
<1>3. RunsEffect
  <2>1. \A r \in runs' : \E q \in runs :
          /\ q.job = r.job /\ q.stage = r.stage
          /\ r.job \notin late' /\ HoldsJob(r.w, r.job)' => HoldsJob(q.w, q.job)
    BY <1>1 DEF HoldsJob
  <2> QED BY <1>1, <2>1 DEF RunsEffect
<1> QED BY <1>1, <1>2, <1>3 DEF RunsInv, OneOpenRun, RunsKept

\* One run changes its lane; the queue stays as it is.
LEMMA LaneStep ==
  ASSUME RunsInv, NEW stages, runs \subseteq RunsIn(stages), NEW r \in runs,
         NEW lane \in {"failing", "left"},
         runs' = (runs \ {r}) \cup {[r EXCEPT !.lane = lane]},
         UNCHANGED vars, late' \subseteq Jobs, late \subseteq late',
         r.lane # "left",
         r.job \notin late' => lane = "failing" /\ r.stage = "returned"
  PROVE  RunsKept(stages)
<1> DEFINE q == [r EXCEPT !.lane = lane]
<1>1. UNCHANGED <<events, jobs>>
  BY DEF vars
<1>2. /\ q \in RunsIn(stages) /\ q.job = r.job /\ q.w = r.w /\ q.lane = lane
      /\ q.stage = r.stage
  BY LaneFields DEF RunsIn
<1>3. runs' = (runs \ {r}) \cup {q}
  OBVIOUS
<1> HIDE DEF q
<1>4. \A x \in runs' : RunHolds(x)'
  BY <1>1, <1>2, <1>3 DEF RunsInv, RunHolds, HoldsJob
<1>5. OneOpenRun'
  BY <1>2, <1>3 DEF RunsInv, OneOpenRun
<1>6. RunsEffect
  BY <1>1, <1>2, <1>3 DEF RunsEffect, HoldsJob
<1> QED BY <1>2, <1>3, <1>4, <1>5, <1>6 DEF RunsKept

\* A claim finds no open run of the worker, and takes no job whose lease still runs.
LEMMA ClaimRunsStep ==
  ASSUME RunsInv, NEW stages, runs \subseteq RunsIn(stages), NEW w \in Workers,
         NEW S \in SUBSET Jobs, ClaimRuns(w, S)
  PROVE  RunsKept(stages)
<1> DEFINE New == {[job |-> j, w |-> w, attempt |-> jobs[j].attempt + 1,
                     stage |-> "begun", lane |-> "waiting"] : j \in S}
<1>1. /\ UNCHANGED <<events, late>> /\ runs' = runs \cup New
      /\ \A r \in runs : r.w = w => r.lane = "left"
  BY DEF ClaimRuns, ClaimJobs
<1>2. \A j \in Jobs : IF j \in S
        THEN /\ jobs'[j].status = "running" /\ jobs'[j].owner = w
             /\ jobs'[j].lease = LeaseSeconds
             /\ jobs[j].status \in {"pending", "retry_wait"} \/ jobs[j].lease = 0
             /\ jobs[j].status \in {"pending", "retry_wait", "running"}
        ELSE jobs'[j] = jobs[j]
  <2>1. /\ \A j \in S : JobClaimable(j)
        /\ jobs' = [j \in Jobs |->
             IF j \in S
             THEN [jobs[j] EXCEPT !.status = "running", !.attempt = @ + 1,
                                  !.owner = w, !.lease = LeaseSeconds]
             ELSE jobs[j]]
    BY DEF ClaimRuns, ClaimJobs
  <2> QED BY <2>1, QueueRows DEF JobRow, JobClaimable
<1>3. /\ \A r \in New : /\ r \in RunsIn(stages) /\ r.job \in S /\ r.w = w
                        /\ r.stage = "begun" /\ r.lane = "waiting"
      /\ \A r1, r2 \in New : r1.job = r2.job => r1 = r2
  BY QueueRows DEF RunsIn, JobRow
<1> HIDE DEF New
<1>4. \A r \in runs' : RunHolds(r)'
  <2>1. ASSUME NEW r \in runs PROVE RunHolds(r)'
    <3>1. r.job \in Jobs /\ RunHolds(r)
      BY DEF RunsInv, RunsIn
    <3>2. CASE r.job \in S
      <4>1. ~ (r.lane = "waiting" /\ ~ Over(r))
        BY <1>2, <3>1, <3>2 DEF RunHolds, HoldsJob
      <4>2. jobs'[r.job].status = "running"
        BY <1>2, <3>1, <3>2
      <4> QED BY <1>1, <3>1, <4>1, <4>2 DEF RunHolds
    <3>3. CASE r.job \notin S
      <4>1. jobs'[r.job] = jobs[r.job]
        BY <1>2, <3>1, <3>3
      <4> QED BY <1>1, <3>1, <4>1 DEF RunHolds, HoldsJob
    <3> QED BY <3>2, <3>3
  <2>2. ASSUME NEW r \in New PROVE RunHolds(r)'
    <3>1. r.job \in S /\ r.w = w /\ r.lane = "waiting" /\ r.job \in Jobs
      BY <1>3
    <3>2. /\ jobs'[r.job].status = "running" /\ jobs'[r.job].owner = w
          /\ jobs'[r.job].lease = LeaseSeconds
      BY <1>2, <3>1
    <3> QED BY <3>1, <3>2, QueueRows DEF RunHolds, HoldsJob
  <2> QED BY <1>1, <2>1, <2>2
<1>5. OneOpenRun'
  BY <1>1, <1>3 DEF RunsInv, OneOpenRun
<1>6. RunsEffect
  <2>1. ASSUME NEW r \in runs, r.job \notin late', HoldsJob(r.w, r.job)'
        PROVE  HoldsJob(r.w, r.job)
    <3>1. r.lane # "left" /\ r.job \in Jobs
      <4>1. r.job \notin late /\ RunHolds(r) /\ r \in RunsIn(stages)
        BY <1>1, <2>1 DEF RunsInv
      <4> QED BY <4>1 DEF RunHolds, RunsIn
    <3>2. r.w # w
      BY <1>1, <3>1
    <3>3. r.job \notin S
      BY <1>2, <2>1, <3>1, <3>2 DEF HoldsJob
    <3> QED BY <1>2, <2>1, <3>1, <3>3 DEF HoldsJob
  <2>2. \A r \in runs' : r.stage = "begun" \/ r \in runs
    BY <1>1, <1>3
  <2>3. \A r \in runs' : \/ r.stage = "begun"
                         \/ \E q \in runs :
                              /\ q.job = r.job /\ q.stage = r.stage
                              /\ r.job \notin late' /\ HoldsJob(r.w, r.job)'
                                   => HoldsJob(q.w, q.job)
    BY <2>1, <2>2
  <2>4. \A d \in Jobs :
          \/ jobs'[d].status = jobs[d].status
          \/ jobs[d].status # "absent" /\ jobs'[d].status = "running"
    BY <1>2
  <2> QED BY <1>1, <2>3, <2>4 DEF RunsEffect
<1> QED BY <1>1, <1>3, <1>4, <1>5, <1>6 DEF RunsInv, RunsKept

\* Jobs change that no run waits for but perhaps one that is settled: it is over, or
\* its handler is left behind.
LEMMA JobsChange ==
  ASSUME RunsInv, NEW stages, runs \subseteq RunsIn(stages), NEW over, UNCHANGED late,
         over \notin runs',
         \A r \in runs' \ runs :
           /\ r \in RunsIn(stages) /\ r.lane = "left" /\ r.job \in late
           /\ \E q \in runs : q.job = r.job /\ q.stage = r.stage,
         \A r \in runs \ {over} : r.lane = "waiting" /\ ~ Over(r) =>
             HoldsJob(r.w, r.job)' /\ jobs'[r.job].lease > 0,
         \A e \in Events : events'[e].stored = events[e].stored,
         \A d \in Jobs :
           \/ jobs'[d].status = jobs[d].status /\ jobs'[d].owner = jobs[d].owner
           \/ /\ jobs[d].status \notin {"absent", "pending"}
              /\ jobs'[d].status \in {"retry_wait", "dead_lettered"}
           \/ /\ jobs[d].status = "running" /\ jobs'[d].status = "succeeded"
              /\ \E r \in runs : r.job = d /\ r.stage = "returned" /\ HoldsJob(r.w, d)
  PROVE  RunsKept(stages)
<1>1. \A r \in runs : r.job \in Jobs /\ RunHolds(r)
  BY DEF RunsInv, RunsIn
<1>2. \A r \in runs : jobs'[r.job].status \notin {"absent", "pending"}
  BY <1>1 DEF RunHolds
<1>3. \A r \in runs' : RunHolds(r)'
  BY <1>1, <1>2 DEF RunHolds
<1>4. ASSUME NEW r \in runs, HoldsJob(r.w, r.job)'
      PROVE  HoldsJob(r.w, r.job)
  BY <1>1, <1>4 DEF HoldsJob
<1>5. \A r \in runs' : \E q \in runs :
        /\ q.job = r.job /\ q.stage = r.stage
        /\ r.job \notin late' /\ HoldsJob(r.w, r.job)' => HoldsJob(q.w, q.job)
  BY <1>4
<1>6. RunsEffect
  BY <1>5 DEF RunsEffect
<1>7. OneOpenRun'
  BY DEF RunsInv, OneOpenRun
<1>8. runs' \subseteq RunsIn(stages) /\ late' \subseteq Jobs
  BY DEF RunsInv
<1> QED BY <1>3, <1>6, <1>7, <1>8 DEF RunsKept

\* The run that a lane settles is the only one that may hold the job.
LEMMA HolderIsAlone ==
  ASSUME RunsInv, NEW r \in runs, r.lane # "left", HoldsJob(r.w, r.job),
         NEW x \in runs, x # r, x.lane = "waiting", ~ Over(x)
  PROVE  x.job # r.job
BY DEF RunsInv, RunHolds, OneOpenRun, HoldsJob

\* A lane ends a run: it settles the job if the run still holds it.
LEMMA SettleStep ==
  ASSUME RunsInv, NEW stages, runs \subseteq RunsIn(stages), NEW r \in runs,
         Complete(r) \/ Fail(r)
  PROVE  RunsKept(stages)
<1>0. /\ r.job \in Jobs /\ RunHolds(r) /\ r \in RunsIn(stages) /\ r.lane # "left"
  BY DEF RunsInv, RunsIn, Complete, Fail
<1> DEFINE q == [r EXCEPT !.lane = "left"]
<1>1. q \in RunsIn(stages) /\ q.job = r.job /\ q.lane = "left" /\ q.stage = r.stage
  BY <1>0, LaneFields
<1>2. UNCHANGED late
  BY DEF Complete, Fail
<1>3. ASSUME NEW status \in {"succeeded", "retry_wait", "dead_lettered"},
             HoldsJob(r.w, r.job), UNCHANGED events,
             jobs'[r.job].status = status,
             \A d \in Jobs \ {r.job} : jobs'[d] = jobs[d],
             status = "succeeded" => r.stage = "returned",
             \/ runs' = runs \ {r}
             \/ r.job \in late /\ runs' = (runs \ {r}) \cup {q}
      PROVE  RunsKept(stages)
  <2>1. \A x \in runs \ {r} : x.lane = "waiting" /\ ~ Over(x) =>
          HoldsJob(x.w, x.job)' /\ jobs'[x.job].lease > 0
    <3> SUFFICES ASSUME NEW x \in runs \ {r}, x.lane = "waiting", ~ Over(x)
                 PROVE  HoldsJob(x.w, x.job)' /\ jobs'[x.job].lease > 0
      OBVIOUS
    <3>1. x.job # r.job /\ x.job \in Jobs /\ RunHolds(x)
      BY <1>0, <1>3, HolderIsAlone DEF RunsInv, RunsIn
    <3> QED BY <1>3, <3>1 DEF RunHolds, HoldsJob
  <2>2. \A d \in Jobs :
          \/ jobs'[d].status = jobs[d].status /\ jobs'[d].owner = jobs[d].owner
          \/ /\ jobs[d].status \notin {"absent", "pending"}
             /\ jobs'[d].status \in {"retry_wait", "dead_lettered"}
          \/ /\ jobs[d].status = "running" /\ jobs'[d].status = "succeeded"
             /\ \E x \in runs : x.job = d /\ x.stage = "returned" /\ HoldsJob(x.w, d)
    BY <1>0, <1>3 DEF HoldsJob
  <2>3. r \notin runs'
    BY <1>0, <1>1, <1>3
  <2>4. \A x \in runs' \ runs : x = q /\ r.job \in late
    BY <1>3
  <2> HIDE DEF q
  <2> QED BY <1>1, <1>2, <1>3, <2>1, <2>2, <2>3, <2>4, JobsChange
<1>4. CASE Complete(r)
  <2>1. r.lane = "waiting" /\ r.stage = "returned"
    BY <1>4 DEF Complete
  <2>2. CASE CompleteJob(r.w, r.job) /\ runs' = runs \ {r}
    <3>1. /\ HoldsJob(r.w, r.job) /\ UNCHANGED events /\ jobs'[r.job].status = "succeeded"
          /\ \A d \in Jobs \ {r.job} : jobs'[d] = jobs[d]
      BY <1>0, <2>2, QueueRows DEF CompleteJob, JobRow
    <3> QED BY <1>3, <2>1, <2>2, <3>1
  <2>3. CASE runs' = runs \ {r} /\ UNCHANGED vars
    <3>1. runs' \subseteq runs /\ UNCHANGED <<vars, late>>
      BY <1>2, <2>3
    <3> QED BY <3>1, RunsEnd
  <2>4. CASE runs' = (runs \ {r}) \cup {[r EXCEPT !.lane = "failing"]} /\ UNCHANGED vars
    <3>1. late' \subseteq Jobs /\ late \subseteq late'
      BY <1>2 DEF RunsInv
    <3> QED BY <1>0, <2>1, <2>4, <3>1, LaneStep
  <2> QED BY <1>4, <2>2, <2>3, <2>4 DEF Complete
<1>5. CASE Fail(r)
  <2>1. \/ runs' = runs \ {r}
        \/ r.job \in late /\ runs' = (runs \ {r}) \cup {q}
    <3>1. CASE Over(r)
      BY <1>5, <3>1 DEF Fail
    <3>2. CASE ~ Over(r)
      BY <1>0, <1>5, <3>2 DEF Fail, RunHolds, Over
    <3> QED BY <3>1, <3>2
  <2>2. CASE UNCHANGED vars
    <3>1. CASE runs' = runs \ {r}
      <4>1. runs' \subseteq runs /\ UNCHANGED <<vars, late>>
        BY <1>2, <2>2, <3>1
      <4> QED BY <4>1, RunsEnd
    <3>2. CASE r.job \in late /\ runs' = (runs \ {r}) \cup {q}
      <4>1. late' \subseteq Jobs /\ late \subseteq late' /\ r.job \in late'
        BY <1>2, <3>2 DEF RunsInv
      <4> QED BY <1>0, <2>2, <3>2, <4>1, LaneStep
    <3> QED BY <2>1, <3>1, <3>2
  <2>3. CASE FailJob(r.w, r.job)
    <3>1. /\ HoldsJob(r.w, r.job) /\ UNCHANGED events
          /\ jobs'[r.job].status \in {"retry_wait", "dead_lettered"}
          /\ \A d \in Jobs \ {r.job} : jobs'[d] = jobs[d]
      BY <1>0, <2>3, QueueRows DEF FailJob, JobRow
    <3> QED BY <1>3, <2>1, <3>1
  <2> QED BY <1>5, <2>2, <2>3 DEF Fail
<1> QED BY <1>4, <1>5

\* The reaper and an administrator touch no job that a run holds, and time stops
\* short of the end of its lease.
LEMMA OthersStep ==
  ASSUME RunsInv, NEW stages, runs \subseteq RunsIn(stages),
         \/ \E S \in SUBSET Jobs : ReapJobs(S)
         \/ \E j \in Jobs : Reprocess(j)
         \/ TickInTime
  PROVE  RunsKept(stages)
<1>1. UNCHANGED <<runs, late>>
  BY DEF ReapJobs, Reprocess, TickInTime
<1>2. \A r \in runs : r.job \in Jobs /\ RunHolds(r)
  BY DEF RunsInv, RunsIn
<1>3. /\ \A e \in Events : events'[e].stored = events[e].stored
      /\ \A d \in Jobs :
           \/ /\ jobs'[d].status = jobs[d].status /\ jobs'[d].owner = jobs[d].owner
              /\ jobs'[d].lease = jobs[d].lease \/ TickInTime
           \/ /\ jobs[d].status \notin {"absent", "pending"}
              /\ jobs'[d].status \in {"retry_wait", "dead_lettered"}
              /\ jobs[d].status = "dead_lettered" \/ jobs[d].lease = 0
  <2>1. ASSUME NEW S \in SUBSET Jobs, ReapJobs(S)
        PROVE  /\ \A e \in Events : events'[e].stored = events[e].stored
               /\ \A d \in Jobs : \/ jobs'[d] = jobs[d]
                                  \/ /\ jobs[d].status = "running" /\ jobs[d].lease = 0
                                     /\ jobs'[d].status = "dead_lettered"
    <3>1. /\ \A j \in S : JobReapable(j)
          /\ events' = [e \in Events |-> events[e]]
          /\ jobs' = [j \in Jobs |->
               IF j \in S
               THEN [jobs[j] EXCEPT !.status = "dead_lettered", !.owner = NoWorker,
                                    !.lease = 0, !.finished = TRUE]
               ELSE jobs[j]]
      BY <2>1 DEF ReapJobs, Reap
    <3> QED BY <3>1, QueueRows DEF JobReapable, JobRow
  <2>2. ASSUME NEW j \in Jobs, Reprocess(j)
        PROVE  /\ UNCHANGED events
               /\ \A d \in Jobs : \/ jobs'[d] = jobs[d]
                                  \/ /\ jobs[d].status = "dead_lettered"
                                     /\ jobs'[d].status = "retry_wait"
    <3>1. PICK row : /\ row.status = "retry_wait" /\ jobs' = [jobs EXCEPT ![j] = row]
      <4> DEFINE row == [jobs[j] EXCEPT !.status = "retry_wait", !.attempt = 0, !.wait = 0,
                                        !.owner = NoWorker, !.lease = 0, !.finished = FALSE]
      <4>1. row.status = "retry_wait"
        BY QueueRows DEF JobRow
      <4>2. jobs' = [jobs EXCEPT ![j] = row]
        BY <2>2 DEF Reprocess, RequeueJob
      <4> HIDE DEF row
      <4> QED BY <4>1, <4>2
    <3> QED BY <2>2, <3>1, QueueRows DEF Reprocess, RequeueJob
  <2>3. ASSUME TickInTime
        PROVE  /\ \A e \in Events : events'[e].stored = events[e].stored
               /\ \A d \in Jobs : /\ jobs'[d].status = jobs[d].status
                                  /\ jobs'[d].owner = jobs[d].owner
    <3>1. Tick
      BY <2>3 DEF TickInTime
    <3> QED BY <3>1, QueueRows DEF Tick, JobRow, EventRow
  <2> QED BY <2>1, <2>2, <2>3
<1>4. \A r \in runs : r.lane = "waiting" /\ ~ Over(r) =>
        HoldsJob(r.w, r.job)' /\ jobs'[r.job].lease > 0
  <2> SUFFICES ASSUME NEW r \in runs, r.lane = "waiting", ~ Over(r)
               PROVE  HoldsJob(r.w, r.job)' /\ jobs'[r.job].lease > 0
    OBVIOUS
  <2>1. /\ r.job \in Jobs /\ jobs[r.job].status = "running" /\ jobs[r.job].owner = r.w
        /\ jobs[r.job].lease > 0
    BY <1>2 DEF RunHolds, HoldsJob
  <2>2. TickInTime => jobs'[r.job].lease > 0
    BY DEF TickInTime
  <2> QED BY <1>3, <2>1, <2>2 DEF HoldsJob
<1>5. \A d \in Jobs :
        \/ jobs'[d].status = jobs[d].status /\ jobs'[d].owner = jobs[d].owner
        \/ /\ jobs[d].status \notin {"absent", "pending"}
           /\ jobs'[d].status \in {"retry_wait", "dead_lettered"}
  BY <1>3
<1>6. PICK over : over \notin runs
  BY <1>2, NoSetContainsEverything
<1> QED BY <1>1, <1>3, <1>4, <1>5, <1>6, JobsChange

\* Every step of the runtime.
LEMMA RuntimeKeeps ==
  ASSUME RunsInv, NEW stages, runs \subseteq RunsIn(stages), RunsNext
  PROVE  RunsKept(stages) /\ RunsInv'
<1>1. RunsKept(stages)
  <2>1. ASSUME NEW r \in runs, Timer(r)
        PROVE  RunsKept(stages)
    <3>1. r.job \in late' /\ late \subseteq late' /\ late' \subseteq Jobs
      BY <2>1 DEF Timer, RunsInv, RunsIn
    <3>2. /\ runs' = (runs \ {r}) \cup {[r EXCEPT !.lane = "failing"]}
          /\ r.lane # "left" /\ UNCHANGED vars
      BY <2>1 DEF Timer
    <3> QED BY <3>1, <3>2, LaneStep
  <2>2. ASSUME NEW r \in runs, Retire(r)
        PROVE  RunsKept(stages)
    <3>1. runs' \subseteq runs /\ UNCHANGED <<vars, late>>
      BY <2>2 DEF Retire
    <3> QED BY <3>1, RunsEnd
  <2>3. ASSUME NEW w \in Workers, Crash(w)
        PROVE  RunsKept(stages)
    <3>1. runs' \subseteq runs /\ UNCHANGED <<vars, late>>
      BY <2>3 DEF Crash
    <3> QED BY <3>1, RunsEnd
  <2> QED BY <2>1, <2>2, <2>3, ClaimRunsStep, SettleStep, OthersStep DEF RunsNext
<1>2. [Next]_vars
  <2>1. ASSUME NEW S \in SUBSET Jobs, ReapJobs(S)
        PROVE  Next
    <3>1. Reap({}, S) /\ {} \in SUBSET Events
      BY <2>1 DEF ReapJobs
    <3> QED BY <3>1 DEF Next
  <2>2. ASSUME NEW j \in Jobs, Reprocess(j)
        PROVE  Next
    BY <2>2 DEF Next, Requeue, Reprocess
  <2>3. ASSUME NEW w \in Workers, NEW S \in SUBSET Jobs, ClaimRuns(w, S)
        PROVE  Next
    BY <2>3 DEF Next, Claim, ClaimRuns
  <2>4. ASSUME NEW r \in runs, Complete(r) \/ Fail(r)
        PROVE  Next \/ UNCHANGED vars
    <3>1. r.w \in Workers /\ r.job \in Jobs
      BY DEF RunsIn
    <3> QED BY <2>4, <3>1 DEF Next, Settle, Complete, Fail
  <2> QED BY <2>1, <2>2, <2>3, <2>4 DEF RunsNext, Crash, Timer, Retire, TickInTime, Next
<1>3. QueueInv'
  BY <1>2, NextInv DEF RunsInv
<1> QED BY <1>1, <1>3 DEF RunsKept, RunsInv

-----------------------------------------------------------------------------
(* Handlers                                                                *)

\* A handler that goes on to its next stage leaves the queue and its lane alone.
LEMMA HandlerMoves ==
  ASSUME RunsInv, NEW stages, runs \subseteq RunsIn(stages), NEW r \in runs, ~ Over(r),
         NEW stage \in stages \cup {"begun", "returned", "threw"}, Step(r, stage), UNCHANGED vars
  PROVE  /\ RunsInv' /\ runs' \subseteq RunsIn(stages)
         /\ UNCHANGED <<events, jobs, late>>
         /\ \E q : /\ runs' = (runs \ {r}) \cup {q}
                   /\ q.job = r.job /\ q.w = r.w /\ q.stage = stage
<1> DEFINE q == [r EXCEPT !.stage = stage]
<1>1. UNCHANGED <<events, jobs, late>>
  BY DEF vars, Step
<1>2. /\ q \in RunsIn(stages) /\ q.job = r.job /\ q.w = r.w /\ q.lane = r.lane
      /\ q.stage = stage
  <2>1. r \in RunsIn(stages)
    OBVIOUS
  <2> QED BY <2>1, StageFields
<1>3. runs' = (runs \ {r}) \cup {q}
  BY DEF Step
<1> HIDE DEF q
<1>4. \A x \in runs' : RunHolds(x)'
  <2>1. ASSUME NEW x \in runs PROVE RunHolds(x)'
    BY <1>1 DEF RunsInv, RunHolds, HoldsJob
  <2>2. RunHolds(q)'
    BY <1>1, <1>2 DEF RunsInv, RunHolds, HoldsJob, Over
  <2> QED BY <1>3, <2>1, <2>2
<1>5. OneOpenRun'
  BY <1>2, <1>3 DEF RunsInv, OneOpenRun
<1>6. QueueInv'
  BY NextInv DEF RunsInv
<1> QED BY <1>1, <1>2, <1>3, <1>4, <1>5, <1>6 DEF RunsInv

\* As long as no timer of its job has won, a handler that is at work is the only run
\* that can settle the job.
LEMMA ActsAlone ==
  ASSUME RunsInv, NEW r \in runs, ~ Over(r), r.job \notin late
  PROVE  /\ jobs[r.job].status = "running"
         /\ \A x \in runs : x.job = r.job /\ HoldsJob(x.w, x.job) => x = r
<1>1. r.lane = "waiting" /\ HoldsJob(r.w, r.job)
  BY DEF RunsInv, RunHolds, Over
<1>2. ASSUME NEW x \in runs, x.job = r.job, HoldsJob(x.w, x.job)
      PROVE  x = r
  <2>1. x.lane # "left" /\ x.w = r.w
    BY <1>1, <1>2 DEF RunsInv, RunHolds, HoldsJob
  <2> QED BY <1>1, <1>2, <2>1 DEF RunsInv, OneOpenRun
<1> QED BY <1>1, <1>2 DEF HoldsJob

\* What the trigger on durable_jobs makes of a delivery.
LEMMA SyncedStatus ==
  ASSUME NEW old \in DeliveryStatus
  PROVE  /\ SyncStatus(old, "running") = old
         /\ SyncStatus(old, "retry_wait") = "retry_wait"
         /\ SyncStatus(old, "dead_lettered") = "dead_lettered"
         /\ old = "cancelled" => SyncStatus(old, "succeeded") = "cancelled"
         /\ old # "cancelled" => SyncStatus(old, "succeeded") = "succeeded"
BY DEF SyncStatus

\* What a step of the webhook's handler writes.
WebhookMove(r, stage) ==
  /\ ~ Over(r) /\ Step(r, stage)
  /\ UNCHANGED <<vars, adminVars>>
  /\ accepted' \subseteq accepted \cup {r.job} /\ accepted \subseteq accepted'
  /\ stage = "answered" => r.job \in accepted'
  /\ \/ UNCHANGED deliveries /\ stage # "returned"
     \/ \E status \in {"cancelled", "retry_wait", "dead_lettered"} :
          /\ Record(r.job, status)
          /\ stage = "returned" => status = "cancelled"
     \/ Record(r.job, "succeeded") /\ r.job \in accepted

LEMMA WebhookMoves ==
  ASSUME NEW r, PostHolds(r), HandlerStep(r)
  PROVE  \E stage \in {"inactive", "active", "answered", "refused", "broken", "returned", "threw"} :
           WebhookMove(r, stage)
<1>0. UNCHANGED <<vars, adminVars>>
  BY DEF HandlerStep, GetTarget, Post, RecordCancelled, RecordSuccess, RecordFailure,
         RecordingErrs, QueueUnchanged
<1>1. CASE GetTarget(r)
  BY <1>0, <1>1 DEF GetTarget, WebhookMove, Over
<1>2. CASE Post(r)
  BY <1>0, <1>2 DEF Post, WebhookMove, Over
<1>3. CASE RecordCancelled(r)
  BY <1>0, <1>3 DEF RecordCancelled, WebhookMove, Over
<1>4. CASE RecordSuccess(r)
  BY <1>0, <1>4 DEF RecordSuccess, PostHolds, WebhookMove, Over
<1>5. CASE RecordFailure(r)
  BY <1>0, <1>5 DEF RecordFailure, WebhookMove, Over
<1>6. CASE RecordingErrs(r)
  BY <1>0, <1>6 DEF RecordingErrs, PostHolds, WebhookMove, Over
<1> QED BY <1>1, <1>2, <1>3, <1>4, <1>5, <1>6 DEF HandlerStep

\* A handler writes the row of a job that is running and that no other run can
\* settle, or of one whose timer has won.
LEMMA HandlerStepKeeps ==
  ASSUME RunsInv, WebhookInv, NEW r \in runs, HandlerStep(r), UNCHANGED messages
  PROVE  RunsInv' /\ WebhookInv'
<1>1. PICK stage \in {"inactive", "active", "answered", "refused", "broken", "returned", "threw"} :
        WebhookMove(r, stage)
  BY WebhookMoves DEF WebhookInv
<1> DEFINE stages == {"inactive", "active", "answered", "refused", "broken"}
<1>2. /\ RunsInv' /\ runs' \subseteq RunsIn(stages)
      /\ UNCHANGED <<events, jobs, late>>
      /\ \E q : /\ runs' = (runs \ {r}) \cup {q}
                /\ q.job = r.job /\ q.w = r.w /\ q.stage = stage
  <2>1. runs \subseteq RunsIn(stages) /\ stage \in stages \cup {"begun", "returned", "threw"}
    BY DEF WebhookInv, Run
  <2>2. ~ Over(r) /\ Step(r, stage) /\ UNCHANGED vars
    BY <1>1 DEF WebhookMove
  <2> HIDE DEF stages
  <2> QED BY <2>1, <2>2, HandlerMoves
<1>3. PICK q : /\ runs' = (runs \ {r}) \cup {q}
               /\ q.job = r.job /\ q.w = r.w /\ q.stage = stage
  BY <1>2
<1>4. r.job \in Jobs
  BY DEF WebhookInv, Run, RunsIn
<1>5. runs' \subseteq Run
  BY <1>2 DEF Run
<1>6. /\ accepted' \subseteq Jobs /\ accepted \subseteq accepted'
      /\ stage = "answered" => r.job \in accepted'
  BY <1>1, <1>4 DEF WebhookMove, WebhookInv
<1>7. /\ deliveries' \in [Jobs -> DeliveryStatus]
      /\ \A d \in Jobs \ {r.job} : deliveries'[d] = deliveries[d]
      /\ deliveries'[r.job] = "succeeded" => r.job \in accepted \/ UNCHANGED deliveries
      /\ stage = "returned" => deliveries'[r.job] = "cancelled" \/ r.job \in accepted
  BY <1>1, <1>4 DEF WebhookMove, WebhookInv, Record, DeliveryStatus
<1>8. \A s \in Subs, e \in Events : ~ events'[e].stored => jobs'[<<s, e>>].status = "absent"
  BY <1>2 DEF WebhookInv
<1>9. ASSUME NEW d \in Jobs \ late'
      PROVE  Synced(d)'
  <2>1. CASE d = r.job
    <3>1. jobs[d].status = "running"
      BY <1>1, <1>2, <1>9, <2>1, ActsAlone DEF WebhookMove
    <3> QED BY <1>2, <3>1 DEF Synced
  <2>2. CASE d # r.job
    BY <1>2, <1>7, <1>9, <2>2 DEF WebhookInv, Synced
  <2> QED BY <2>1, <2>2
<1>10. ASSUME NEW x \in runs'
       PROVE  PostHolds(x)'
  <2>1. CASE x = q
    BY <1>3, <1>6, <1>7, <2>1 DEF PostHolds
  <2>2. CASE x \in runs /\ x # r
    <3>1. PostHolds(x) /\ x.job \in Jobs
      BY <2>2 DEF WebhookInv, Run, RunsIn
    <3>2. ~ Over(r)
      BY <1>1 DEF WebhookMove
    <3>3. x.job = r.job /\ HoldsJob(x.w, x.job) => x.job \in late
      BY <2>2, <3>2, ActsAlone
    <3> QED BY <1>2, <1>6, <1>7, <3>1, <3>3 DEF PostHolds, HoldsJob
  <2> QED BY <1>3, <2>1, <2>2
<1>11. SucceededWasAccepted'
  BY <1>2, <1>6, <1>7 DEF WebhookInv, SucceededWasAccepted
<1>12. AdminTypeOK'
  <2>1. UNCHANGED <<clients, expired, subs, calls>>
    BY <1>1 DEF WebhookMove, adminVars
  <2> QED BY <2>1 DEF WebhookInv, AdminTypeOK
<1> QED BY <1>2, <1>5, <1>6, <1>7, <1>8, <1>9, <1>10, <1>11, <1>12 DEF WebhookInv

\* The trigger follows every change of a job, and a job is completed only when what
\* its handler returned is recorded.
LEMMA RuntimeStepKeeps ==
  ASSUME RunsInv, WebhookInv, RuntimeStep, UNCHANGED messages
  PROVE  RunsInv' /\ WebhookInv'
<1> DEFINE stages == {"inactive", "active", "answered", "refused", "broken"}
<1>1. RunsKept(stages) /\ RunsInv'
  <2>1. runs \subseteq RunsIn(stages) /\ RunsNext
    BY DEF WebhookInv, Run, RuntimeStep
  <2> HIDE DEF stages
  <2> QED BY <2>1, RuntimeKeeps
<1>2. RunsEffect /\ runs' \subseteq Run
  BY <1>1 DEF RunsKept, Run
<1>3. UNCHANGED <<clients, expired, subs, calls, accepted>>
  BY DEF RuntimeStep, adminVars
<1>4. ASSUME NEW d \in Jobs
      PROVE  /\ deliveries'[d] \in DeliveryStatus
             /\ Synced(d) => Synced(d)'
             /\ jobs'[d].status = "running" => deliveries'[d] = deliveries[d]
             /\ deliveries'[d] = "succeeded" =>
                  \/ deliveries[d] = "succeeded"
                  \/ /\ deliveries[d] # "cancelled"
                     /\ \E r \in runs : r.job = d /\ r.stage = "returned" /\ HoldsJob(r.w, d)
  <2>0. deliveries[d] \in DeliveryStatus
    BY DEF WebhookInv
  <2>1. deliveries'[d] = IF Changed(d) THEN SyncStatus(deliveries[d], jobs'[d].status)
                                       ELSE deliveries[d]
    BY DEF RuntimeStep, Sync
  <2>2. CASE jobs'[d].status = jobs[d].status
    <3>1. deliveries'[d] = deliveries[d]
      BY <2>1, <2>2 DEF Changed
    <3> QED BY <2>0, <2>2, <3>1 DEF Synced
  <2>3. CASE /\ jobs'[d].status # jobs[d].status /\ jobs[d].status # "absent"
             /\ jobs'[d].status \in {"running", "retry_wait", "dead_lettered"}
    <3>1. deliveries'[d] = SyncStatus(deliveries[d], jobs'[d].status)
      BY <2>1, <2>3 DEF Changed
    <3>2. deliveries'[d] = IF jobs'[d].status = "running" THEN deliveries[d] ELSE jobs'[d].status
      BY <2>0, <2>3, <3>1, SyncedStatus
    <3> QED BY <2>0, <2>3, <3>2 DEF Synced, DeliveryStatus
  <2>4. CASE /\ jobs[d].status = "running" /\ jobs'[d].status = "succeeded"
             /\ \E r \in runs : r.job = d /\ r.stage = "returned" /\ HoldsJob(r.w, d)
    <3>1. deliveries'[d] = SyncStatus(deliveries[d], "succeeded")
      BY <2>1, <2>4 DEF Changed
    <3>2. deliveries'[d] = IF deliveries[d] = "cancelled" THEN "cancelled" ELSE "succeeded"
      BY <2>0, <3>1, SyncedStatus
    <3> QED BY <2>0, <2>4, <3>2 DEF Synced, DeliveryStatus
  <2> QED BY <1>2, <2>2, <2>3, <2>4 DEF RunsEffect
<1>5. deliveries' \in [Jobs -> DeliveryStatus]
  <2>1. deliveries' = [d \in Jobs |-> deliveries'[d]]
    BY DEF RuntimeStep, Sync
  <2> QED BY <1>4, <2>1
<1>6. \A d \in Jobs \ late' : Synced(d)'
  BY <1>2, <1>4 DEF WebhookInv, RunsEffect
<1>7. ASSUME NEW s \in Subs, NEW e \in Events, ~ events'[e].stored
      PROVE  jobs'[<<s, e>>].status = "absent"
  <2>1. <<s, e>> \in Jobs
    BY DeliveryAssumption
  <2>2. jobs[<<s, e>>].status = "absent"
    BY <1>2, <1>7 DEF RunsEffect, WebhookInv
  <2> QED BY <1>2, <2>1, <2>2 DEF RunsEffect
<1>8. ASSUME NEW r \in runs'
      PROVE  PostHolds(r)'
  <2>1. CASE r.stage = "begun"
    BY <2>1 DEF PostHolds
  <2>2. ASSUME NEW q \in runs, q.job = r.job, q.stage = r.stage,
               r.job \notin late' /\ HoldsJob(r.w, r.job)' => HoldsJob(q.w, q.job)
        PROVE  PostHolds(r)'
    <3>1. PostHolds(q) /\ q.job \in Jobs
      BY DEF WebhookInv, Run, RunsIn
    <3>2. r.job \notin late' => r.job \notin late
      BY <1>2 DEF RunsEffect
    <3>3. HoldsJob(r.w, r.job)' => deliveries'[r.job] = deliveries[r.job]
      BY <1>4, <2>2, <3>1 DEF HoldsJob
    <3> QED BY <1>3, <2>2, <3>1, <3>2, <3>3 DEF PostHolds
  <2> QED BY <1>2, <2>1, <2>2 DEF RunsEffect
<1>9. SucceededWasAccepted'
  <2> SUFFICES ASSUME NEW d \in Jobs \ late', deliveries'[d] = "succeeded"
               PROVE  d \in accepted
    BY <1>3 DEF SucceededWasAccepted
  <2>1. d \in Jobs \ late
    BY <1>2 DEF RunsEffect
  <2>2. CASE deliveries[d] = "succeeded"
    BY <2>1, <2>2 DEF WebhookInv, SucceededWasAccepted
  <2>3. ASSUME deliveries[d] # "cancelled", NEW r \in runs,
               r.job = d, r.stage = "returned", HoldsJob(r.w, d)
        PROVE  d \in accepted
    BY <2>1, <2>3 DEF WebhookInv, PostHolds
  <2> QED BY <1>4, <2>2, <2>3
<1>10. AdminTypeOK' /\ accepted' \subseteq Jobs
  BY <1>3 DEF WebhookInv, AdminTypeOK
<1> QED BY <1>1, <1>2, <1>5, <1>6, <1>7, <1>8, <1>9, <1>10 DEF WebhookInv
\* The jobs of an event that is not stored are not there: none has a run.
LEMMA FanoutKeeps ==
  ASSUME RunsInv, WebhookInv, NEW e \in Events, Fanout(e), UNCHANGED messages
  PROVE  RunsInv' /\ WebhookInv'
<1>1. PICK new : new = {s \in Subs : Subscribed(s)} \X {e}
  OBVIOUS
<1>2. /\ ~ events[e].stored
      /\ events' = [events EXCEPT ![e].stored = TRUE]
      /\ jobs' = [d \in Jobs |-> IF d \in new THEN [jobs[d] EXCEPT !.status = "pending"] ELSE jobs[d]]
      /\ deliveries' = [d \in Jobs |-> IF d \in new THEN "queued" ELSE deliveries[d]]
      /\ UNCHANGED <<clients, expired, subs, calls, runs, late, accepted>>
  BY <1>1 DEF Fanout, adminVars
<1>3. /\ new \subseteq Jobs
      /\ \A d \in new : jobs[d].status = "absent"
      /\ \A s \in Subs, x \in Events : <<s, x>> \in new => x = e
  BY <1>1, <1>2, DeliveryAssumption DEF WebhookInv
<1>4. QueueInv'
  <2>1. ASSUME NEW d \in Jobs
        PROVE  JobInv(d, jobs'[d])
    <3>1. JobInv(d, jobs[d]) /\ jobs[d] \in JobRow
      BY DEF RunsInv, QueueInv, JobInv
    <3>2. CASE d \in new
      <4>1. jobs[d].wait \in Nat
        BY <3>1 DEF JobRow
      <4>2. JobInv(d, [jobs[d] EXCEPT !.status = "pending", !.wait = jobs[d].wait])
        BY <1>3, <3>1, <3>2, <4>1, EnqueuedJob
      <4>3. [jobs[d] EXCEPT !.status = "pending", !.wait = jobs[d].wait]
              = [jobs[d] EXCEPT !.status = "pending"]
        BY <3>1 DEF JobRow
      <4>4. jobs'[d] = [jobs[d] EXCEPT !.status = "pending"]
        BY <1>2, <3>2
      <4> QED BY <4>2, <4>3, <4>4
    <3>3. CASE d \notin new
      BY <1>2, <3>1, <3>3
    <3> QED BY <3>2, <3>3
  <2>2. EventInv(e, [events[e] EXCEPT !.stored = TRUE])
    <3>1. EventInv(e, events[e]) /\ events[e] \in EventRow
      BY DEF RunsInv, QueueInv, EventInv
    <3>2. events[e].wait \in Nat /\ events[e].stored = FALSE
      BY <1>2, <3>1 DEF EventRow
    <3>3. EventInv(e, [events[e] EXCEPT !.stored = TRUE, !.wait = events[e].wait])
      BY <3>1, <3>2, EnqueuedEvent
    <3>4. [events[e] EXCEPT !.stored = TRUE, !.wait = events[e].wait]
            = [events[e] EXCEPT !.stored = TRUE]
      BY <3>1 DEF EventRow
    <3> QED BY <3>3, <3>4
  <2>3. PICK row : row = [events[e] EXCEPT !.stored = TRUE]
    OBVIOUS
  <2>4. events' = [events EXCEPT ![e] = row] /\ EventInv(e, row)
    BY <1>2, <2>2, <2>3
  <2>5. \A x \in Events : EventInv(x, events[x])
    BY DEF RunsInv, QueueInv
  <2>6. events = [x \in Events |-> events[x]]
    BY DEF RunsInv, QueueInv
  <2>7. \A x \in Events : EventInv(x, events'[x])
    BY <2>4, <2>5, <2>6
  <2>8. events' = [x \in Events |-> events'[x]] /\ jobs' = [d \in Jobs |-> jobs'[d]]
    BY <1>2, <2>4, <2>6
  <2> QED BY <2>1, <2>7, <2>8 DEF QueueInv
<1>5. ASSUME NEW r \in runs
      PROVE  /\ r.job \in Jobs /\ r.job \notin new /\ jobs'[r.job] = jobs[r.job]
             /\ deliveries'[r.job] = deliveries[r.job]
  <2>1. r.job \in Jobs /\ jobs[r.job].status # "absent"
    BY DEF WebhookInv, Run, RunsIn, RunsInv, RunHolds
  <2>2. r.job \notin new
    BY <1>3, <2>1
  <2> QED BY <1>2, <2>1, <2>2
<1>6. \A r \in runs : RunHolds(r)' /\ PostHolds(r)'
  BY <1>2, <1>5 DEF RunsInv, WebhookInv, RunHolds, PostHolds, HoldsJob
<1>7. RunsInv'
  BY <1>2, <1>4, <1>6 DEF RunsInv, OneOpenRun
<1>8. ASSUME NEW d \in Jobs \ late
      PROVE  Synced(d)'
  <2>1. CASE d \in new
    <3>1. jobs'[d].status = "pending" /\ deliveries'[d] = "queued"
      BY <1>2, <1>3, <2>1, QueueRows DEF JobRow
    <3> QED BY <3>1 DEF Synced
  <2>2. CASE d \notin new
    BY <1>2, <1>8, <2>2 DEF WebhookInv, Synced
  <2> QED BY <2>1, <2>2
<1>9. ASSUME NEW s \in Subs, NEW x \in Events, ~ events'[x].stored
      PROVE  jobs'[<<s, x>>].status = "absent"
  <2>1. x # e /\ ~ events[x].stored
    BY <1>2, <1>9, QueueRows DEF EventRow
  <2>2. <<s, x>> \in Jobs /\ <<s, x>> \notin new
    BY <1>3, <2>1, DeliveryAssumption
  <2> QED BY <1>2, <2>1, <2>2 DEF WebhookInv
<1>10. deliveries' \in [Jobs -> DeliveryStatus]
  BY <1>2 DEF WebhookInv, DeliveryStatus
<1>11. SucceededWasAccepted'
  BY <1>2 DEF WebhookInv, SucceededWasAccepted
<1> QED BY <1>2, <1>6, <1>7, <1>8, <1>9, <1>10, <1>11 DEF WebhookInv, AdminTypeOK

\* An administrative call is one of the pending ones.
LEMMA AdminTypes ==
  ASSUME AdminTypeOK, AdminNext
  PROVE  AdminTypeOK'
<1>1. \A k \in Calls : calls[k] \in Pending
  BY DEF AdminTypeOK
<1>2. Idle \in Pending
  BY DEF Pending
<1>3. ASSUME NEW k \in Calls, NEW ready, NEW pending \in Pending, Check(k, ready, pending)
      PROVE  AdminTypeOK'
  BY <1>3 DEF Check, AdminTypeOK
<1>4. ASSUME NEW c \in Clients, CreateClient(c) \/ Expire(c)
      PROVE  AdminTypeOK'
  BY <1>4 DEF CreateClient, Expire, AdminTypeOK, ClientStatus
<1>5. ASSUME NEW k \in Calls, NEW c \in Clients, CheckRevokeClient(k, c)
      PROVE  AdminTypeOK'
  <2>1. [op |-> "revokeClient", client |-> c] \in Pending
    BY DEF Pending
  <2> QED BY <1>3, <1>5, <2>1 DEF CheckRevokeClient
<1>6. ASSUME NEW k \in Calls, NEW s \in Subs, CheckCreateWebhook(k, s)
      PROVE  AdminTypeOK'
  <2>1. [op |-> "createWebhook", sub |-> s] \in Pending
    BY DEF Pending
  <2> QED BY <1>3, <1>6, <2>1 DEF CheckCreateWebhook
<1>7. ASSUME NEW k \in Calls, NEW s \in Subs, CheckUpdateWebhook(k, s)
      PROVE  AdminTypeOK'
  <2>1. PICK status \in SubStatus \ {"absent"}, ready \in BOOLEAN :
          Check(k, ready, [op |-> "updateWebhook", sub |-> s, status |-> status])
    BY <1>7 DEF CheckUpdateWebhook, Check
  <2>2. [op |-> "updateWebhook", sub |-> s, status |-> status] \in Pending
    BY DEF Pending
  <2> QED BY <1>3, <2>1, <2>2
<1>8. ASSUME NEW k \in Calls, RevokeClient(k)
      PROVE  AdminTypeOK'
  BY <1>2, <1>8 DEF RevokeClient, AdminTypeOK, ClientStatus, SubStatus
<1>9. ASSUME NEW k \in Calls, CreateWebhook(k)
      PROVE  AdminTypeOK'
  BY <1>2, <1>9 DEF CreateWebhook, AdminTypeOK, SubStatus
<1>10. ASSUME NEW k \in Calls, UpdateWebhook(k)
       PROVE  AdminTypeOK'
  <2>1. calls[k] \in [op: {"updateWebhook"}, sub: Subs, status: SubStatus \ {"absent"}]
    BY <1>1, <1>10 DEF UpdateWebhook, Pending, Idle
  <2> QED BY <1>2, <1>10, <2>1 DEF UpdateWebhook, AdminTypeOK
<1> QED BY <1>4, <1>5, <1>6, <1>7, <1>8, <1>9, <1>10 DEF AdminNext

\* Every step of the webhooks.
LEMMA WebhookKeeps ==
  ASSUME RunsInv, WebhookInv, DeliveryNext, UNCHANGED messages
  PROVE  RunsInv' /\ WebhookInv'
<1>1. CASE Administer
  <2>1. /\ AdminTypeOK' /\ UNCHANGED <<events, jobs, runs, late, deliveries, accepted>>
        /\ UNCHANGED vars
    BY <1>1, AdminTypes DEF Administer, WebhookInv, vars
  <2>2. QueueInv'
    BY <2>1, NextInv DEF RunsInv
  <2>3. RunsInv'
    BY <2>1, <2>2 DEF RunsInv, OneOpenRun, RunHolds, HoldsJob
  <2> QED BY <2>1, <2>3 DEF WebhookInv, Synced, PostHolds, HoldsJob, SucceededWasAccepted
<1> QED BY <1>1, HandlerStepKeeps, RuntimeStepKeeps, FanoutKeeps DEF DeliveryNext

-----------------------------------------------------------------------------
(* Messages *)

\* A message that is sent or cancelled stays so.
LEMMA RecordedStatus ==
  ASSUME messages \in [Jobs -> Message], NEW m \in Jobs,
         NEW new \in {"sent", "cancelled", "failed", "retry_wait"}, RecordAttempt(m, new)
  PROVE  /\ messages' \in [Jobs -> Message]
         /\ \A x \in Jobs \ {m} : messages'[x] = messages[x]
         /\ messages'[m].status =
              IF messages[m].status \in Final THEN messages[m].status ELSE new
BY DEF RecordAttempt, Recorded, Message, MessageStatus

\* What a step of the message's handler writes.
SendMove(r, stage) ==
  /\ ~ Over(r) /\ Step(r, stage)
  /\ UNCHANGED <<vars, route, consent>>
  /\ handed' \subseteq handed \cup {r.job} /\ handed \subseteq handed'
  /\ stage = "accepted" => r.job \in handed'
  /\ \/ /\ UNCHANGED messages
        /\ stage = "returned" => messages[r.job].status \in {"sent", "cancelled"}
     \/ \E new \in {"sent", "cancelled", "failed", "retry_wait"} :
          /\ RecordAttempt(r.job, new)
          /\ new = "sent" => r.job \in handed
          /\ stage = "returned" =>
               new = "cancelled" \/ (new = "sent" /\ messages[r.job].status \notin Final)

LEMMA SendMoves ==
  ASSUME NEW r, SendHolds(r), SendStep(r)
  PROVE  \E stage \in {"disabled", "sending", "accepted", "broken", "returned", "threw"} :
           SendMove(r, stage)
<1>0. UNCHANGED <<vars, route, consent>>
  BY DEF SendStep, GetMessage, RecordRouteDisabled, Send, RecordSent, RecordUnsent,
         OthersUnchanged
<1>1. CASE GetMessage(r)
  BY <1>0, <1>1 DEF GetMessage, SendMove, Over
<1>2. CASE RecordRouteDisabled(r)
  BY <1>0, <1>2 DEF RecordRouteDisabled, SendMove, Over
<1>3. CASE Send(r)
  BY <1>0, <1>3 DEF Send, SendMove, Over
<1>4. CASE RecordSent(r)
  BY <1>0, <1>4 DEF RecordSent, SendHolds, SendMove, Over, Refused
<1>5. CASE RecordUnsent(r)
  BY <1>0, <1>5 DEF RecordUnsent, FailureStatus, SendMove, Over
<1> QED BY <1>1, <1>2, <1>3, <1>4, <1>5 DEF SendStep

\* A handler settles its message for good, or leaves it to the next attempt.
LEMMA SendStepKeeps ==
  ASSUME RunsInv, MessageInv, NEW r \in runs, SendStep(r), UNCHANGED deliveries
  PROVE  RunsInv' /\ MessageInv'
<1>1. PICK stage \in {"disabled", "sending", "accepted", "broken", "returned", "threw"} :
        SendMove(r, stage)
  BY SendMoves DEF MessageInv
<1> DEFINE stages == {"disabled", "sending", "accepted", "broken"}
<1>2. /\ RunsInv' /\ runs' \subseteq RunsIn(stages)
      /\ UNCHANGED <<events, jobs, late>>
      /\ \E q : /\ runs' = (runs \ {r}) \cup {q}
                /\ q.job = r.job /\ q.w = r.w /\ q.stage = stage
  <2>1. runs \subseteq RunsIn(stages) /\ stage \in stages \cup {"begun", "returned", "threw"}
    BY DEF MessageInv, MessageRun
  <2>2. ~ Over(r) /\ Step(r, stage) /\ UNCHANGED vars
    BY <1>1 DEF SendMove
  <2> HIDE DEF stages
  <2> QED BY <2>1, <2>2, HandlerMoves
<1>3. PICK q : /\ runs' = (runs \ {r}) \cup {q}
               /\ q.job = r.job /\ q.w = r.w /\ q.stage = stage
  BY <1>2
<1>4. /\ r.job \in Jobs /\ jobs[r.job].status # "absent"
      /\ messages[r.job].status \notin {"absent", "blocked"}
  BY DEF MessageInv, MessageRun, RunsIn, RunsInv, RunHolds
<1>5. runs' \subseteq MessageRun
  BY <1>2 DEF MessageRun
<1>6. /\ handed' \subseteq handed \cup {r.job} /\ handed \subseteq handed'
      /\ handed' \subseteq Jobs
      /\ stage = "accepted" => r.job \in handed'
      /\ UNCHANGED <<route, consent>>
  BY <1>1, <1>4 DEF SendMove, MessageInv
<1>7. /\ messages' \in [Jobs -> Message]
      /\ \A m \in Jobs \ {r.job} : messages'[m] = messages[m]
      /\ messages[r.job].status \in Final => messages'[r.job].status = messages[r.job].status
      /\ messages'[r.job].status \notin {"absent", "blocked"}
      /\ messages'[r.job].status = "sent" => messages[r.job].status = "sent" \/ r.job \in handed
      /\ stage = "returned" => messages'[r.job].status \in {"sent", "cancelled"}
  <2>0. messages \in [Jobs -> Message]
    BY DEF MessageInv
  <2>1. CASE UNCHANGED messages /\ (stage = "returned" => messages[r.job].status \in {"sent", "cancelled"})
    BY <1>4, <2>0, <2>1
  <2>2. ASSUME NEW new \in {"sent", "cancelled", "failed", "retry_wait"}, RecordAttempt(r.job, new),
               new = "sent" => r.job \in handed,
               stage = "returned" =>
                 new = "cancelled" \/ (new = "sent" /\ messages[r.job].status \notin Final)
        PROVE  /\ messages' \in [Jobs -> Message]
               /\ \A m \in Jobs \ {r.job} : messages'[m] = messages[m]
               /\ messages[r.job].status \in Final => messages'[r.job].status = messages[r.job].status
               /\ messages'[r.job].status \notin {"absent", "blocked"}
               /\ messages'[r.job].status = "sent" => r.job \in handed \/ messages[r.job].status = "sent"
               /\ stage = "returned" => messages'[r.job].status \in {"sent", "cancelled"}
    <3>1. /\ messages' \in [Jobs -> Message]
          /\ \A x \in Jobs \ {r.job} : messages'[x] = messages[x]
          /\ messages'[r.job].status =
               IF messages[r.job].status \in Final THEN messages[r.job].status ELSE new
      BY <1>4, <2>0, <2>2, RecordedStatus
    <3> QED BY <1>4, <2>2, <3>1 DEF Final
  <2> QED BY <1>1, <2>1, <2>2 DEF SendMove
<1>8. \A m \in Jobs : messages[m].status \in Final => messages'[m].status = messages[m].status
  BY <1>7
<1>9. \A m \in Jobs : jobs'[m].status = "absent" <=> messages'[m].status \in {"absent", "blocked"}
  BY <1>2, <1>4, <1>7 DEF MessageInv
<1>10. \A m \in handed' : jobs'[m].status # "absent"
  BY <1>2, <1>4, <1>6 DEF MessageInv
<1>11. ASSUME NEW x \in runs'
       PROVE  SendHolds(x)'
  <2>1. CASE x = q
    BY <1>3, <1>6, <1>7, <2>1 DEF SendHolds
  <2>2. CASE x \in runs
    <3>1. SendHolds(x) /\ x.job \in Jobs
      BY <2>2 DEF MessageInv, MessageRun, RunsIn
    <3> QED BY <1>6, <1>8, <3>1 DEF SendHolds, Final
  <2> QED BY <1>3, <2>1, <2>2
<1>12. SuccessIsSettled'
  BY <1>2, <1>8 DEF MessageInv, SuccessIsSettled, Final
<1>13. SentWasAccepted'
  BY <1>6, <1>7 DEF MessageInv, SentWasAccepted
<1> QED BY <1>2, <1>5, <1>6, <1>7, <1>9, <1>10, <1>11, <1>12, <1>13 DEF MessageInv

\* The trigger takes a failed message out of failed when its job is reprocessed, and a
\* job is completed only when its message is settled.
LEMMA ReprocessStepKeeps ==
  ASSUME RunsInv, MessageInv, ReprocessStep, UNCHANGED deliveries
  PROVE  RunsInv' /\ MessageInv'
<1> DEFINE stages == {"disabled", "sending", "accepted", "broken"}
<1>1. RunsKept(stages) /\ RunsInv'
  <2>1. runs \subseteq RunsIn(stages) /\ RunsNext
    BY DEF MessageInv, MessageRun, ReprocessStep
  <2> HIDE DEF stages
  <2> QED BY <2>1, RuntimeKeeps
<1>2. RunsEffect /\ runs' \subseteq MessageRun
  BY <1>1 DEF RunsKept, MessageRun
<1>3. UNCHANGED <<route, consent, handed>>
  BY DEF ReprocessStep
<1>4. messages \in [Jobs -> Message]
  BY DEF MessageInv
<1>5. /\ messages' \in [Jobs -> Message]
      /\ \A m \in Jobs :
           \/ messages'[m] = messages[m]
           \/ messages[m].status = "failed" /\ messages'[m].status = "retry_wait"
  BY <1>4 DEF ReprocessStep, SyncReprocess, Message, MessageStatus
<1>6. ASSUME NEW m \in Jobs
      PROVE  jobs[m].status = "absent" <=> jobs'[m].status = "absent"
  BY <1>2 DEF RunsEffect
<1>7. \A m \in Jobs : jobs'[m].status = "absent" <=> messages'[m].status \in {"absent", "blocked"}
  BY <1>5, <1>6 DEF MessageInv
<1>8. \A m \in handed' : jobs'[m].status # "absent"
  BY <1>3, <1>6 DEF MessageInv
<1>9. ASSUME NEW r \in runs'
      PROVE  SendHolds(r)'
  <2>1. CASE r.stage = "begun"
    BY <2>1 DEF SendHolds
  <2>2. ASSUME NEW q \in runs, q.job = r.job, q.stage = r.stage
        PROVE  SendHolds(r)'
    <3>1. SendHolds(q) /\ q.job \in Jobs
      BY DEF MessageInv, MessageRun, RunsIn
    <3> QED BY <1>3, <1>5, <2>2, <3>1 DEF SendHolds
  <2> QED BY <1>2, <2>1, <2>2 DEF RunsEffect
<1>10. SuccessIsSettled'
  <2> SUFFICES ASSUME NEW m \in Jobs, jobs'[m].status = "succeeded"
               PROVE  messages'[m].status \in {"sent", "cancelled"}
    BY DEF SuccessIsSettled
  <2>1. messages[m].status \in {"sent", "cancelled"}
    <3>1. CASE jobs[m].status = "succeeded"
      BY <3>1 DEF MessageInv, SuccessIsSettled
    <3>2. ASSUME NEW r \in runs, r.job = m, r.stage = "returned"
          PROVE  messages[m].status \in {"sent", "cancelled"}
      BY <3>2 DEF MessageInv, SendHolds
    <3> QED BY <1>2, <3>1, <3>2 DEF RunsEffect
  <2> QED BY <1>5, <2>1
<1>11. SentWasAccepted'
  BY <1>3, <1>5 DEF MessageInv, SentWasAccepted
<1> QED BY <1>1, <1>2, <1>3, <1>5, <1>7, <1>8, <1>9, <1>10, <1>11 DEF MessageInv

\* A message is queued with its job, or blocked without one.
LEMMA QueueStepKeeps ==
  ASSUME RunsInv, MessageInv, NEW m \in Jobs, QueueCommunication(m), UNCHANGED deliveries
  PROVE  RunsInv' /\ MessageInv'
<1>1. /\ messages[m].status = "absent" /\ jobs[m].status = "absent" /\ m \notin handed
      /\ UNCHANGED <<events, runs, late, route, consent, handed>>
  BY DEF QueueCommunication, MessageInv
<1>2. messages \in [Jobs -> Message]
  BY DEF MessageInv
<1>3. PICK row : /\ row \in Message /\ messages' = [messages EXCEPT ![m] = row]
                 /\ \/ row.status = "blocked" /\ UNCHANGED jobs
                    \/ row.status = "queued" /\ jobs' = [jobs EXCEPT ![m].status = "pending"]
  <2>1. CASE /\ messages' = [messages EXCEPT ![m].status = "blocked", ![m].provider = NoProvider]
             /\ UNCHANGED jobs
    <3> DEFINE row == [messages[m] EXCEPT !.status = "blocked", !.provider = NoProvider]
    <3>1. row \in Message /\ row.status = "blocked"
      BY <1>2 DEF Message, MessageStatus
    <3>2. messages' = [messages EXCEPT ![m] = row]
      BY <2>1
    <3> HIDE DEF row
    <3> QED BY <2>1, <3>1, <3>2
  <2>2. CASE /\ messages' = [messages EXCEPT ![m] =
                  [status |-> "queued", provider |-> route.provider]]
             /\ jobs' = [jobs EXCEPT ![m].status = "pending"]
    <3> DEFINE row == [status |-> "queued", provider |-> route.provider]
    <3>1. row \in Message /\ row.status = "queued"
      BY DEF Message, MessageStatus, MessageInv
    <3>2. messages' = [messages EXCEPT ![m] = row]
      BY <2>2
    <3> HIDE DEF row
    <3> QED BY <2>2, <3>1, <3>2
  <2> QED BY <2>1, <2>2 DEF QueueCommunication
<1>4. /\ messages' \in [Jobs -> Message]
      /\ messages'[m].status \in {"blocked", "queued"}
      /\ \A x \in Jobs \ {m} : messages'[x] = messages[x]
  BY <1>2, <1>3
<1>5. /\ \A x \in Jobs \ {m} : jobs'[x] = jobs[x]
      /\ \/ jobs'[m].status = "absent" /\ messages'[m].status = "blocked"
         \/ jobs'[m].status = "pending" /\ messages'[m].status = "queued"
  BY <1>1, <1>2, <1>3, QueueRows DEF JobRow
<1>6. QueueInv'
  <2>1. CASE UNCHANGED jobs
    <3>1. UNCHANGED vars
      BY <1>1, <2>1 DEF vars
    <3> QED BY <3>1, NextInv DEF RunsInv
  <2>2. CASE jobs' = [jobs EXCEPT ![m].status = "pending"]
    <3>1. JobInv(m, jobs[m]) /\ jobs[m] \in JobRow
      BY DEF RunsInv, QueueInv, JobInv
    <3>2. jobs[m].wait \in Nat
      BY <3>1 DEF JobRow
    <3>3. JobInv(m, [jobs[m] EXCEPT !.status = "pending", !.wait = jobs[m].wait])
      BY <1>1, <3>1, <3>2, EnqueuedJob
    <3>4. [jobs[m] EXCEPT !.status = "pending", !.wait = jobs[m].wait]
            = [jobs[m] EXCEPT !.status = "pending"]
      BY <3>1 DEF JobRow
    <3>5. PICK new : new = [jobs[m] EXCEPT !.status = "pending"]
      OBVIOUS
    <3>6. JobInv(m, new) /\ jobs' = [jobs EXCEPT ![m] = new]
      BY <2>2, <3>3, <3>4, <3>5
    <3>7. QueueInv /\ UNCHANGED events
      BY <1>1 DEF RunsInv
    <3> QED BY <3>6, <3>7, OneJob
  <2> QED BY <1>3, <2>1, <2>2
<1>7. ASSUME NEW r \in runs
      PROVE  r.job \in Jobs \ {m} /\ RunHolds(r)' /\ SendHolds(r)'
  <2>1. r.job \in Jobs /\ RunHolds(r) /\ SendHolds(r)
    BY DEF MessageInv, MessageRun, RunsIn, RunsInv
  <2>2. r.job # m
    BY <1>1, <2>1 DEF RunHolds
  <2>3. jobs'[r.job] = jobs[r.job] /\ messages'[r.job] = messages[r.job]
    BY <1>4, <1>5, <2>1, <2>2
  <2> QED BY <1>1, <2>1, <2>2, <2>3 DEF RunHolds, SendHolds, HoldsJob
<1>8. RunsInv'
  BY <1>1, <1>6, <1>7 DEF RunsInv, OneOpenRun
<1>9. /\ \A x \in Jobs : jobs'[x].status = "absent" <=> messages'[x].status \in {"absent", "blocked"}
      /\ \A x \in handed' : jobs'[x].status # "absent"
  BY <1>1, <1>4, <1>5 DEF MessageInv
<1>10. SuccessIsSettled' /\ SentWasAccepted'
  BY <1>1, <1>4, <1>5 DEF MessageInv, SuccessIsSettled, SentWasAccepted
<1> QED BY <1>1, <1>4, <1>7, <1>8, <1>9, <1>10 DEF MessageInv

\* Every step of the messages.
LEMMA MessageKeeps ==
  ASSUME RunsInv, MessageInv, CommunicationNext, UNCHANGED deliveries
  PROVE  RunsInv' /\ MessageInv'
<1>1. ASSUME UNCHANGED <<vars, runs, late, messages, handed>>,
             route' \in [provider: Providers \cup {NoProvider}, active: BOOLEAN],
             consent' \in BOOLEAN
      PROVE  RunsInv' /\ MessageInv'
  <2>1. UNCHANGED <<events, jobs, runs, late, messages, handed>> /\ UNCHANGED vars
    BY <1>1 DEF vars
  <2>2. QueueInv'
    BY <2>1, NextInv DEF RunsInv
  <2>3. RunsInv'
    BY <2>1, <2>2 DEF RunsInv, OneOpenRun, RunHolds, HoldsJob
  <2> QED BY <1>1, <2>1, <2>3 DEF MessageInv, SendHolds, SuccessIsSettled, SentWasAccepted
<1>2. ASSUME NEW p \in Providers, NEW active \in BOOLEAN, ConfigureRoute(p, active)
      PROVE  RunsInv' /\ MessageInv'
  <2>1. /\ UNCHANGED <<vars, runs, late, messages, handed>>
        /\ route' \in [provider: Providers \cup {NoProvider}, active: BOOLEAN]
        /\ consent' \in BOOLEAN
    BY <1>2 DEF ConfigureRoute, MessageInv
  <2> QED BY <1>1, <2>1
<1>3. ASSUME NEW granted \in BOOLEAN, SetPreference(granted)
      PROVE  RunsInv' /\ MessageInv'
  <2>1. /\ UNCHANGED <<vars, runs, late, messages, handed>>
        /\ route' \in [provider: Providers \cup {NoProvider}, active: BOOLEAN]
        /\ consent' \in BOOLEAN
    BY <1>3 DEF SetPreference, MessageInv
  <2> QED BY <1>1, <2>1
<1> QED BY <1>2, <1>3, QueueStepKeeps, SendStepKeeps, ReprocessStepKeeps DEF CommunicationNext

-----------------------------------------------------------------------------
(* Theorems *)

\* Nothing is there at first.
LEMMA OutboundInitStep ==
  ASSUME OutboundInit
  PROVE  OutboundInv
<1>1. Init /\ runs = {} /\ late = {}
  BY DEF OutboundInit, CommunicationInit, RunsInit
<1>2. QueueInv
  BY <1>1, InitInv
<1>3. RunsInv
  BY <1>1, <1>2 DEF RunsInv, OneOpenRun
<1>4. /\ \A d \in Jobs : jobs[d].status = "absent"
      /\ \A d \in Jobs : deliveries[d] = "absent" /\ messages[d].status = "absent"
      /\ deliveries \in [Jobs -> DeliveryStatus] /\ messages \in [Jobs -> Message]
      /\ accepted = {} /\ handed = {} /\ consent = FALSE
      /\ route \in [provider: Providers \cup {NoProvider}, active: BOOLEAN]
  BY <1>1 DEF OutboundInit, DeliveryInit, CommunicationInit, Init, DeliveryStatus, Message,
              MessageStatus
<1>5. AdminTypeOK
  BY DEF OutboundInit, DeliveryInit, AdminInit, AdminTypeOK, ClientStatus, SubStatus, Pending
<1>6. WebhookInv
  BY <1>1, <1>4, <1>5, DeliveryAssumption DEF WebhookInv, Synced, SucceededWasAccepted
<1>7. MessageInv
  BY <1>1, <1>4 DEF MessageInv, SuccessIsSettled, SentWasAccepted
<1> QED BY <1>3, <1>6, <1>7 DEF OutboundInv

LEMMA OutboundNextStep ==
  ASSUME OutboundInv, [OutboundNext]_outboundVars
  PROVE  OutboundInv'
<1>1. CASE UNCHANGED outboundVars
  <2>1. /\ UNCHANGED vars /\ UNCHANGED <<events, jobs, runs, late, handler>>
        /\ UNCHANGED <<clients, expired, subs, calls, deliveries, accepted>>
        /\ UNCHANGED <<route, consent, messages, handed>>
    BY <1>1 DEF outboundVars, deliveryVars, communicationVars, adminVars, vars
  <2>2. QueueInv'
    BY <2>1, NextInv DEF OutboundInv, RunsInv
  <2>3. RunsInv'
    BY <2>1, <2>2 DEF OutboundInv, RunsInv, OneOpenRun, RunHolds, HoldsJob
  <2>4. CASE handler = "webhook"
    <3>1. WebhookInv'
      BY <2>1, <2>4 DEF OutboundInv, WebhookInv, AdminTypeOK, Synced, PostHolds, HoldsJob,
                        SucceededWasAccepted
    <3> QED BY <2>1, <2>3, <2>4, <3>1 DEF OutboundInv
  <2>5. CASE handler # "webhook"
    <3>1. MessageInv'
      BY <2>1, <2>5 DEF OutboundInv, MessageInv, SendHolds, SuccessIsSettled, SentWasAccepted
    <3> QED BY <2>1, <2>3, <2>5, <3>1 DEF OutboundInv
  <2> QED BY <2>4, <2>5
<1>2. CASE OutboundNext /\ handler = "webhook"
  <2>1. DeliveryNext /\ UNCHANGED messages /\ UNCHANGED handler
    BY <1>2 DEF OutboundNext, ofMessage
  <2>2. RunsInv' /\ WebhookInv'
    BY <1>2, <2>1, WebhookKeeps DEF OutboundInv
  <2> QED BY <1>2, <2>1, <2>2 DEF OutboundInv
<1>3. CASE OutboundNext /\ handler # "webhook"
  <2>1. CommunicationNext /\ UNCHANGED deliveries /\ UNCHANGED handler
    BY <1>3 DEF OutboundNext, ofDelivery
  <2>2. RunsInv' /\ MessageInv'
    BY <1>3, <2>1, MessageKeeps DEF OutboundInv
  <2> QED BY <1>3, <2>1, <2>2 DEF OutboundInv
<1> QED BY <1>1, <1>2, <1>3

\* The invariant of the two handlers is inductive.
THEOREM OutboundInvariant == OutboundSpec => []OutboundInv
<1>1. OutboundInit => OutboundInv
  BY OutboundInitStep
<1>2. OutboundInv /\ [OutboundNext]_outboundVars => OutboundInv'
  BY OutboundNextStep
<1> QED BY <1>1, <1>2, PTL DEF OutboundSpec

\* The rows and the runs of both handlers keep their types.
THEOREM OutboundTypes == OutboundSpec => []DeliveriesTypeOK
<1>1. OutboundInv => DeliveriesTypeOK
  <2> SUFFICES ASSUME OutboundInv PROVE DeliveriesTypeOK
    OBVIOUS
  <2>1. TypeOK /\ late \subseteq Jobs
    BY InvImplies DEF OutboundInv, RunsInv
  <2> QED BY <2>1 DEF OutboundInv, WebhookInv, MessageInv, MessageRun, DeliveriesTypeOK,
                      DeliveryTypeOK, CommunicationTypeOK
<1> QED BY <1>1, OutboundInvariant, PTL

\* However leases run out, workers crash and rows are reprocessed, two handlers never
\* have a request of the same job before them.
THEOREM OneSender == OutboundSpec => []OneSenderPerDelivery
<1>1. OutboundInv => OneSenderPerDelivery
  <2> SUFFICES ASSUME OutboundInv, NEW r1 \in runs, NEW r2 \in runs, r1.job = r2.job,
                      r1.lane = "waiting", r1.stage \in {"begun", "active"},
                      r2.lane = "waiting", r2.stage \in {"begun", "active"}
               PROVE  r1 = r2
    BY DEF OneSenderPerDelivery
  <2>1. HoldsJob(r1.w, r1.job) /\ HoldsJob(r2.w, r2.job)
    BY DEF OutboundInv, RunsInv, RunHolds, Over
  <2> QED BY <2>1 DEF OutboundInv, RunsInv, OneOpenRun, HoldsJob
<1> QED BY <1>1, OutboundInvariant, PTL

\* What is reported as sent was taken by the other side.
THEOREM ReportedIsTrue == OutboundSpec => []SentIsTrue
<1>1. OutboundInv => SentIsTrue
  BY DEF OutboundInv, WebhookInv, MessageInv, SentIsTrue, SucceededWasAccepted, SentWasAccepted
<1> QED BY <1>1, OutboundInvariant, PTL

\* Once nobody works on a job, its row tells what became of it.
THEOREM RowsFollow == OutboundSpec => []RowFollowsJob
<1>1. OutboundInv => RowFollowsJob
  <2> SUFFICES ASSUME OutboundInv PROVE RowFollowsJob
    OBVIOUS
  <2>1. CASE handler = "webhook"
    <3>1. \A d \in Jobs : jobs[d].status \in JobStatus
      BY QueueRows DEF OutboundInv, JobRow
    <3>2. \A d \in Jobs \ late : Synced(d)
      BY <2>1 DEF OutboundInv, WebhookInv
    <3>3. StatusIsSynced
      BY <3>1, <3>2 DEF StatusIsSynced, Synced, JobStatus
    <3> QED BY <2>1, <3>3 DEF RowFollowsJob
  <2>2. CASE handler # "webhook"
    BY <2>2 DEF OutboundInv, MessageInv, RowFollowsJob
  <2> QED BY <2>1, <2>2
<1> QED BY <1>1, OutboundInvariant, PTL
================================================================================
