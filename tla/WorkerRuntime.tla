---------------------------- MODULE WorkerRuntime ----------------------------
(***************************************************************************)
(* The worker processes that drive the two tables of AsyncQueue: the poll  *)
(* loop (reap, claim both tables, run the batch in lanes, settle every     *)
(* item), handler timeouts, failing database calls, shutdown and crashes.  *)
(*                                                                         *)
(* A process makes one tick at a time, but a tick that is rejected leaves  *)
(* its lanes running behind the ticks that follow: those runs have         *)
(* current = FALSE.                                                        *)
(***************************************************************************)
EXTENDS AsyncQueue

CONSTANTS
  Procs,          \* worker processes
  IdOf,           \* WORKER_ID of a process, or nexora-worker-<pid>
  Concurrency,    \* WORKER_MAX_CONCURRENCY
  HandlerTimeout, \* WORKER_HANDLER_TIMEOUT_MS, in seconds
  Faulty          \* may a database call fail or lose its reply?

ASSUME RuntimeAssumption ==
  /\ IdOf \in [Procs -> Workers]
  /\ Concurrency \in Nat \ {0}
  /\ HandlerTimeout \in 1..(LeaseSeconds - 1)
  /\ Faulty \in BOOLEAN

VARIABLES
  phase,    \* where the loop of each process is
  stopping, \* stop() has been called: this.running is false
  runs      \* claimed items that a process still keeps in memory

rvars == <<phase, stopping, runs>>
allVars == <<events, jobs, phase, stopping, runs>>

Phases == {"down", "poll", "claimOutbox", "claimJobs", "work"}

\* queued: waits for a lane; handler: executing; resolved, rejected: the
\* completion, the failure report, is on its way to the database.
Stages == {"queued", "handler", "resolved", "rejected"}

Run == [proc: Procs, row: Rows, attempt: Nat, stage: Stages,
        left: 0..HandlerTimeout, current: BOOLEAN]

RuntimeTypeOK ==
  /\ TypeOK
  /\ phase \in [Procs -> Phases]
  /\ stopping \in [Procs -> BOOLEAN]
  /\ runs \subseteq Run

RuntimeInit ==
  /\ Init
  /\ phase = [p \in Procs |-> "down"]
  /\ stopping = [p \in Procs |-> FALSE]
  /\ runs = {}

-----------------------------------------------------------------------------
(* The runs of a process.  The two tables have lanes of their own.         *)

SameTable(r, s) == r \in Jobs <=> s \in Jobs

AttemptOf(r) == IF r \in Jobs THEN jobs[r].attempt ELSE events[r].attempts

Lane(x) == {y \in runs : /\ y.proc = x.proc /\ y.current = x.current
                         /\ SameTable(x.row, y.row)}

Queued(R) == {y \in R : y.stage = "queued"}

\* Fault: the timer of a handler is armed for the lease it runs under.
StartedForLease(x) == [x EXCEPT !.stage = "handler", !.left = LeaseSeconds]

Started(x) == [x EXCEPT !.stage = "handler", !.left = HandlerTimeout]

\* The items of a claim reply, S with the attempt each of them was granted.
Items(p, S, attempts) ==
  {[proc |-> p, row |-> r, attempt |-> attempts[r], stage |-> "queued",
    left |-> 0, current |-> TRUE] : r \in S}

\* A lane that has settled x takes the next item, unless stop() was called.
AfterSettle(x) ==
  LET next == Queued(Lane(x))
  IN  IF next = {} THEN {runs \ {x}}
      ELSE {(runs \ {x, y}) \cup {Started(y)} : y \in next}

\* A lane that rejected takes no item; the last lane to reject abandons the
\* queued items of its batch.
AfterReject(x) ==
  LET rest == Lane(x) \ {x}
      kept == IF rest = Queued(rest) THEN runs \ Lane(x) ELSE runs \ {x}
  IN  {IF y.proc = x.proc THEN [y EXCEPT !.current = FALSE] ELSE y : y \in kept}

-----------------------------------------------------------------------------
(* start, stop and crash *)

Start(p) ==
  /\ phase[p] = "down"
  /\ phase' = [phase EXCEPT ![p] = "poll"]
  /\ stopping' = [stopping EXCEPT ![p] = FALSE]
  /\ UNCHANGED <<events, jobs, runs>>

\* stop() lets the items in progress finish; queued items are abandoned with
\* their lease, because every lane tests this.running before the next item.
Stop(p) ==
  /\ phase[p] # "down" /\ ~ stopping[p]
  /\ stopping' = [stopping EXCEPT ![p] = TRUE]
  /\ runs' = {y \in runs : y.proc = p => y.stage # "queued"}
  /\ UNCHANGED <<events, jobs, phase>>

\* The loop has ended: the pool is closed and the process exits, with the
\* runs that a rejected tick left behind.
Exit(p) ==
  /\ stopping[p] /\ phase[p] = "poll"
  /\ phase' = [phase EXCEPT ![p] = "down"]
  /\ runs' = {y \in runs : y.proc # p}
  /\ UNCHANGED <<events, jobs, stopping>>

Crash(p) ==
  /\ phase[p] # "down"
  /\ phase' = [phase EXCEPT ![p] = "down"]
  /\ runs' = {y \in runs : y.proc # p}
  /\ UNCHANGED <<events, jobs, stopping>>

-----------------------------------------------------------------------------
(* tick *)

\* Fault: the loop never calls the reaper.
PollReapNever(p) ==
  /\ phase[p] = "poll" /\ ~ stopping[p]
  /\ phase' = [phase EXCEPT ![p] = "claimOutbox"]
  /\ UNCHANGED <<events, jobs, stopping, runs>>

\* The reaper runs at most every WORKER_REAPER_INTERVAL_MS: any poll may or
\* may not be due.
PollReap(p) ==
  /\ phase[p] = "poll" /\ ~ stopping[p]
  /\ \/ UNCHANGED <<events, jobs>>
     \/ \E E \in SUBSET Events, J \in SUBSET Jobs : Reap(E, J)
  /\ phase' = [phase EXCEPT ![p] = "claimOutbox"]
  /\ UNCHANGED <<stopping, runs>>

\* Both claims are sent together and both are awaited before any item starts.
ClaimOutbox(p, S) ==
  /\ phase[p] = "claimOutbox"
  /\ \/ S = {} /\ UNCHANGED <<events, jobs>>
     \/ ClaimEvents(IdOf[p], S)
  /\ phase' = [phase EXCEPT ![p] = "claimJobs"]
  /\ runs' = runs \cup Items(p, S, [e \in S |-> events'[e].attempts])
  /\ UNCHANGED stopping

\* The items that the lanes take at once.
FirstItems(S) ==
  {F \in SUBSET S :
     Cardinality(F) = IF Cardinality(S) < Concurrency THEN Cardinality(S)
                                                      ELSE Concurrency}

\* With the second reply the lanes start, synchronously, unless stop() came.
ClaimWork(p, S) ==
  /\ phase[p] = "claimJobs"
  /\ \/ S = {} /\ UNCHANGED <<events, jobs>>
     \/ ClaimJobs(IdOf[p], S)
  /\ phase' = [phase EXCEPT ![p] = "work"]
  /\ LET mine == {y \in runs : y.proc = p /\ y.current}
         all == mine \cup Items(p, S, [j \in S |-> jobs'[j].attempt])
     IN  IF stopping[p] THEN runs' = runs \ mine
         ELSE \E E \in FirstItems({y.row : y \in mine}), J \in FirstItems(S) :
                runs' = (runs \ mine) \cup
                  {IF y.row \in E \cup J THEN Started(y) ELSE y : y \in all}
  /\ UNCHANGED stopping

\* One of the calls of the tick is rejected before the batch is known: what
\* was claimed so far stays leased and nobody runs it.
TickRejects(p) ==
  /\ Faulty
  /\ phase[p] \in {"poll", "claimOutbox", "claimJobs"}
  /\ \/ UNCHANGED <<events, jobs>>
     \/ phase[p] = "poll" /\ \E E \in SUBSET Events, J \in SUBSET Jobs : Reap(E, J)
     \/ phase[p] = "claimOutbox" /\ \E S \in SUBSET Events : ClaimEvents(IdOf[p], S)
     \/ phase[p] = "claimJobs" /\ \E S \in SUBSET Jobs : ClaimJobs(IdOf[p], S)
  /\ phase' = [phase EXCEPT ![p] = "poll"]
  /\ runs' = {y \in runs : ~ (y.proc = p /\ y.current)}
  /\ UNCHANGED stopping

TickEnds(p) ==
  /\ phase[p] = "work"
  /\ \A y \in runs : ~ (y.proc = p /\ y.current)
  /\ phase' = [phase EXCEPT ![p] = "poll"]
  /\ UNCHANGED <<events, jobs, stopping, runs>>

-----------------------------------------------------------------------------
(* processOutbox, processJob *)

\* Fault: no timer, a handler settles only by itself.
HandlerSettlesAlone(x) ==
  /\ x.stage = "handler" /\ x.left > 0
  /\ \E s \in {"resolved", "rejected"} :
       runs' = (runs \ {x}) \cup {[x EXCEPT !.stage = s, !.left = 0]}
  /\ UNCHANGED <<events, jobs, phase, stopping>>

\* The handler returns or throws, or the timer wins the race against it.
HandlerSettles(x) ==
  /\ x.stage = "handler"
  /\ \E s \in {"resolved", "rejected"} :
       /\ s = "resolved" => x.left > 0
       /\ runs' = (runs \ {x}) \cup {[x EXCEPT !.stage = s, !.left = 0]}
  /\ UNCHANGED <<events, jobs, phase, stopping>>

Complete(w, r) == IF r \in Jobs THEN CompleteJob(w, r) ELSE CompleteEvent(w, r)
Fail(w, r) == IF r \in Jobs THEN FailJob(w, r) ELSE FailEvent(w, r)
Holds(w, r) == IF r \in Jobs THEN HoldsJob(w, r) ELSE HoldsEvent(w, r)

\* A statement that finds another owner changes nothing: the lease was lost.
CompleteRow(x) ==
  IF Holds(IdOf[x.proc], x.row) THEN Complete(IdOf[x.proc], x.row)
                                ELSE UNCHANGED <<events, jobs>>

FailRow(x) ==
  /\ BackoffValid
  /\ IF Holds(IdOf[x.proc], x.row) THEN Fail(IdOf[x.proc], x.row)
                                   ELSE UNCHANGED <<events, jobs>>

RunCompletes(x) ==
  /\ x.stage = "resolved"
  /\ CompleteRow(x)
  /\ runs' \in AfterSettle(x)
  /\ UNCHANGED <<phase, stopping>>

\* The call is inside the try block: an error, even one that comes after the
\* commit, is reported as a failure of the item.
CompletionErrs(x) ==
  /\ Faulty /\ x.stage = "resolved"
  /\ UNCHANGED <<events, jobs>> \/ CompleteRow(x)
  /\ runs' = (runs \ {x}) \cup {[x EXCEPT !.stage = "rejected"]}
  /\ UNCHANGED <<phase, stopping>>

RunFails(x) ==
  /\ x.stage = "rejected"
  /\ FailRow(x)
  /\ runs' \in AfterSettle(x)
  /\ UNCHANGED <<phase, stopping>>

\* An error of the failure report rejects the lane, and with it the tick: the
\* loop polls again while the other lanes go on.  Backoff bounds the functions
\* refuse make every report end here.  At most one rejected tick is
\* outstanding per process.
FailureErrs(x) ==
  /\ Faulty \/ ~ BackoffValid
  /\ x.stage = "rejected"
  /\ x.current => \A y \in runs : y.proc = x.proc => y.current
  /\ UNCHANGED <<events, jobs>> \/ FailRow(x)
  /\ runs' = AfterReject(x)
  /\ phase' = IF x.current THEN [phase EXCEPT ![x.proc] = "poll"] ELSE phase
  /\ UNCHANGED stopping

-----------------------------------------------------------------------------
(* Time: a timer that has run out fires before the next second, and both   *)
(* claim statements of a tick are answered within one.                     *)

\* Fault: nothing stops a handler that has used up its time.
SecondUntimed ==
  /\ Tick
  /\ \A p \in Procs : phase[p] # "claimJobs"
  /\ runs' = {[y EXCEPT !.left = Less(@)] : y \in runs}
  /\ UNCHANGED <<phase, stopping>>

Second ==
  /\ Tick
  /\ \A y \in runs : y.stage = "handler" => y.left > 0
  /\ \A p \in Procs : phase[p] # "claimJobs"
  /\ runs' = {[y EXCEPT !.left = Less(@)] : y \in runs}
  /\ UNCHANGED <<phase, stopping>>

Submit == Enqueue /\ UNCHANGED rvars
Reprocess == Requeue /\ UNCHANGED rvars

TickStep(p) ==
  \/ PollReap(p)
  \/ \E S \in SUBSET Events : ClaimOutbox(p, S)
  \/ \E S \in SUBSET Jobs : ClaimWork(p, S)
  \/ TickEnds(p)

RunStep(x) == HandlerSettles(x) \/ RunCompletes(x) \/ RunFails(x)

RuntimeNext ==
  \/ \E p \in Procs :
       TickStep(p) \/ Start(p) \/ Stop(p) \/ Exit(p) \/ Crash(p) \/ TickRejects(p)
  \/ \E x \in runs : RunStep(x) \/ CompletionErrs(x) \/ FailureErrs(x)
  \/ Submit \/ Reprocess \/ Second

RuntimeSpec == RuntimeInit /\ [][RuntimeNext]_allVars

(***************************************************************************)
(* Fairness.  Seconds pass; the supervisor starts a process that is down,  *)
(* and in the end no more crashes or shutdowns hit it; its loop makes the  *)
(* next step and every run settles.  A statement that keeps being tried is *)
(* assumed to succeed in the end (strong fairness): to claim a row that is *)
(* due, to reap one.                                                       *)
(***************************************************************************)
StaysUp(p) == <>[](phase[p] # "down" /\ ~ stopping[p])

Takes(p, r) ==
  IF r \in Jobs THEN \E S \in SUBSET Jobs : r \in S /\ ClaimWork(p, S)
                ELSE \E S \in SUBSET Events : r \in S /\ ClaimOutbox(p, S)

Reaps(p, r) ==
  \E E \in SUBSET Events, J \in SUBSET Jobs :
    r \in E \cup J /\ Reap(E, J) /\ PollReap(p)

RuntimeFairness ==
  /\ SF_allVars(Second)
  /\ \A p \in Procs :
       /\ StaysUp(p)
       /\ SF_allVars(PollReap(p)) /\ WF_allVars(TickEnds(p))
       /\ SF_allVars(\E S \in SUBSET Events : ClaimOutbox(p, S))
       /\ SF_allVars(\E S \in SUBSET Jobs : ClaimWork(p, S))
       /\ \A r \in Rows : SF_allVars(Takes(p, r)) /\ SF_allVars(Reaps(p, r))
       /\ \A r \in Rows, c \in BOOLEAN :
            WF_allVars(\E x \in runs :
                         x.proc = p /\ x.row = r /\ x.current = c /\ RunStep(x))

FairRuntime == RuntimeSpec /\ RuntimeFairness
-----------------------------------------------------------------------------
(* Safety *)

Leased(r) == IF r \in Jobs THEN jobs[r].lease > 0 ELSE events[r].lease > 0

\* A handler executes only under the lease it was claimed with: the timeout
\* aborts it "before its lease can expire".  Hence no row has two handlers at
\* a time, in one process or in two.
HandlerInLease ==
  \A x \in runs : x.stage = "handler" =>
    /\ Holds(IdOf[x.proc], x.row) /\ Leased(x.row)
    /\ AttemptOf(x.row) = x.attempt
    /\ \A y \in runs : y.stage = "handler" /\ y.row = x.row => y = x

\* A result is recorded for the attempt that produced it: a settlement that
\* changes a row changes the attempt the run was claimed with, never a later
\* one that belongs to somebody else.
SettlesOwnAttempt ==
  [][\A x \in runs :
       (RunCompletes(x) \/ RunFails(x)) /\ <<events, jobs>>' # <<events, jobs>>
         => AttemptOf(x.row) = x.attempt]_allVars

-----------------------------------------------------------------------------
(* Liveness *)

\* Every tick ends: a hung handler loses the race against its timer, so it
\* cannot keep the process from polling again.
TickTerminates == \A p \in Procs : phase[p] = "work" ~> phase[p] # "work"

=============================================================================
