------------------------------- MODULE JobRuns -------------------------------
(***************************************************************************)
(* The worker's side of a durable job, for the modules that follow one     *)
(* kind of job through its handler: who has claimed an attempt, how far    *)
(* its handler is, and what the runtime makes of the result.  The steps    *)
(* are AsyncQueue's; the handler's own steps and the triggers on           *)
(* durable_jobs are conjoined by the module that extends this one.         *)
(*                                                                         *)
(* WorkerRuntime has the poll loop, the lanes and the timers in full.      *)
(***************************************************************************)
EXTENDS AsyncQueue

VARIABLES
  runs,  \* claimed attempts, and handlers whose attempt was given up
  late   \* history: the jobs a handler of which has outlived its timer

\* stage is the handler's own, from "begun" to "returned" or "threw".  lane is
\* the runtime's: "waiting" for the handler, "failing" once the attempt is to
\* be failed, "left" when it is settled and the handler goes on alone.
RunsIn(stages) ==
  [job: Jobs, w: Workers, attempt: Nat,
   stage: stages \cup {"begun", "returned", "threw"},
   lane: {"waiting", "failing", "left"}]

Over(r) == r.stage \in {"returned", "threw"}

\* The handler of r moves on: to another stage.
Step(r, stage) ==
  /\ runs' = (runs \ {r}) \cup {[r EXCEPT !.stage = stage]}
  /\ UNCHANGED late

\* A worker polls again when the lanes of its last tick are settled (the lanes
\* that a rejected tick leaves behind are WorkerRuntime's subject: with
\* BatchSize = 1 there are none).
ClaimRuns(w, S) ==
  /\ \A r \in runs : r.w = w => r.lane = "left"
  /\ ClaimJobs(w, S)
  /\ runs' = runs \cup
       {[job |-> j, w |-> w, attempt |-> jobs[j].attempt + 1,
         stage |-> "begun", lane |-> "waiting"] : j \in S}
  /\ UNCHANGED late

\* The timer wins the race: the signal is aborted, the handler is not stopped.
\* Bound: one handler at a time outlives its attempt.
Timer(r) ==
  /\ r.lane = "waiting" /\ ~ Over(r)
  /\ \A other \in runs : other.lane = "waiting"
  /\ runs' = (runs \ {r}) \cup {[r EXCEPT !.lane = "failing"]}
  /\ late' = late \cup {r.job}
  /\ UNCHANGED vars

\* completeJob: true, false (no row matched), or an error that becomes a failure.
Complete(r) ==
  /\ r.lane = "waiting" /\ r.stage = "returned"
  /\ \/ CompleteJob(r.w, r.job) /\ runs' = runs \ {r}
     \/ ~ HoldsJob(r.w, r.job) /\ runs' = runs \ {r} /\ UNCHANGED vars
     \/ runs' = (runs \ {r}) \cup {[r EXCEPT !.lane = "failing"]} /\ UNCHANGED vars
  /\ UNCHANGED late

\* failJob: the row is failed, or no row matched or the call rejects.  An
\* unfinished handler goes on.
Fail(r) ==
  /\ r.lane = "failing" \/ (r.lane = "waiting" /\ r.stage = "threw")
  /\ FailJob(r.w, r.job) \/ UNCHANGED vars
  /\ runs' = (runs \ {r})
       \cup (IF Over(r) THEN {} ELSE {[r EXCEPT !.lane = "left"]})
  /\ UNCHANGED late

\* The result of a handler that nobody waits for is dropped.
Retire(r) ==
  /\ r.lane = "left" /\ Over(r)
  /\ runs' = runs \ {r}
  /\ UNCHANGED <<vars, late>>

Crash(w) ==
  /\ \E r \in runs : r.w = w
  /\ runs' = {r \in runs : r.w # w}
  /\ UNCHANGED <<vars, late>>

\* A handler that is waited for ends, by itself or by its timer, before its
\* lease does (WorkerRuntime!HandlerInLease).
TickInTime ==
  /\ Tick
  /\ \A r \in runs : r.lane = "waiting" /\ ~ Over(r) => jobs'[r.job].lease > 0
  /\ UNCHANGED <<runs, late>>

ReapJobs(S) == Reap({}, S) /\ UNCHANGED <<runs, late>>

Reprocess(j) == RequeueJob(j) /\ UNCHANGED <<runs, late>>

RunsInit == runs = {} /\ late = {}

RunsNext ==
  \/ \E w \in Workers : Crash(w) \/ \E S \in SUBSET Jobs : ClaimRuns(w, S)
  \/ \E r \in runs : Timer(r) \/ Complete(r) \/ Fail(r) \/ Retire(r)
  \/ \E S \in SUBSET Jobs : ReapJobs(S)
  \/ \E j \in Jobs : Reprocess(j)
  \/ TickInTime
=============================================================================
