--------------------------- MODULE WebhookDelivery ---------------------------
(***************************************************************************)
(* Webhook deliveries: the fan-out trigger that turns an outbox event into *)
(* one delivery and one durable job per subscription, the handler that     *)
(* POSTs it, the function that records an attempt and the trigger that     *)
(* copies the job's status to the delivery.                                *)
(*                                                                         *)
(* A delivery is a pair <<subscription, event>> and so is its job: Jobs is *)
(* Subs \X Events.  The outbox rows only count as stored or not here; what *)
(* workers do with them afterwards is AsyncQueue's.                        *)
(***************************************************************************)
EXTENDS JobRuns, IntegrationAdmin

ASSUME DeliveryAssumption == Jobs = Subs \X Events

VARIABLES
  deliveries,  \* status of each row of webhook_deliveries
  accepted     \* history: the deliveries the endpoint has answered with 2xx

deliveryVars == <<vars, adminVars, runs, late, deliveries, accepted>>

DeliveryStatus ==
  {"absent", "queued", "retry_wait", "succeeded", "dead_lettered", "cancelled"}

Run == RunsIn({"inactive", "active", "answered", "refused", "broken"})

DeliveryTypeOK ==
  /\ TypeOK /\ AdminTypeOK
  /\ deliveries \in [Jobs -> DeliveryStatus]
  /\ runs \subseteq Run
  /\ accepted \subseteq Jobs
  /\ late \subseteq Jobs

DeliveryInit ==
  /\ Init /\ AdminInit /\ RunsInit
  /\ deliveries = [d \in Jobs |-> "absent"]
  /\ accepted = {}

-----------------------------------------------------------------------------
(* The trigger on durable_jobs.  A delivery's three timestamps follow its  *)
(* status, and webhook_deliveries_terminal_check says so: it is enough to  *)
(* keep the status and to compute which timestamps an update leaves set.   *)

Stamps(status) == {status} \cap {"succeeded", "dead_lettered", "cancelled"}

\* Fault: the job's status is copied as it is.
SyncStatusRaw(old, job) ==
  IF old = "cancelled" /\ job = "succeeded" THEN old ELSE job

SyncStatus(old, job) ==
  CASE old = "cancelled" /\ job = "succeeded" -> "cancelled"
    [] job = "pending" -> "queued"
    [] job \in {"retry_wait", "dead_lettered"} -> job
    [] job = "succeeded" /\ old # "cancelled" -> "succeeded"
    [] job = "running" -> old

SyncStamps(old, job) ==
  CASE old = "cancelled" /\ job = "succeeded" -> {"cancelled"}
    [] job \in {"pending", "retry_wait"} -> {}
    [] job = "running" -> Stamps(old)
    [] job = "dead_lettered" \/ (job = "succeeded" /\ old # "cancelled")
         -> Stamps(old) \cup {job}

\* Otherwise the statement that changed the job fails on the CHECK.
SyncAllowed(old, job) == SyncStamps(old, job) = Stamps(SyncStatus(old, job))

Changed(d) == jobs[d].status # "absent" /\ jobs'[d].status # jobs[d].status

\* Fault: the trigger fires for the terminal statuses only.
SyncTerminal ==
  LET Ended(d) == Changed(d) /\ jobs'[d].finished
  IN  /\ \A d \in Jobs : Ended(d) => SyncAllowed(deliveries[d], jobs'[d].status)
      /\ deliveries' = [d \in Jobs |->
           IF Ended(d) THEN SyncStatus(deliveries[d], jobs'[d].status)
                       ELSE deliveries[d]]

Sync ==
  /\ \A d \in Jobs : Changed(d) => SyncAllowed(deliveries[d], jobs'[d].status)
  /\ deliveries' = [d \in Jobs |->
       IF Changed(d) THEN SyncStatus(deliveries[d], jobs'[d].status)
                     ELSE deliveries[d]]

-----------------------------------------------------------------------------
(* Fan-out: with the INSERT of the event, inside its transaction. *)

Fanout(e) ==
  LET new == {s \in Subs : Subscribed(s)} \X {e}
  IN  /\ ~ events[e].stored
      /\ events' = [events EXCEPT ![e].stored = TRUE]
      /\ jobs' = [d \in Jobs |->
           IF d \in new THEN [jobs[d] EXCEPT !.status = "pending"] ELSE jobs[d]]
      /\ deliveries' = [d \in Jobs |->
           IF d \in new THEN "queued" ELSE deliveries[d]]
      /\ UNCHANGED <<adminVars, runs, late, accepted>>

-----------------------------------------------------------------------------
(* The handler *)

QueueUnchanged == UNCHANGED <<vars, adminVars>>

\* nexora_worker_get_webhook_delivery, and the checks up to fetch: the call,
\* the endpoint's resolution and the secret's decryption may all throw.
GetTarget(r) ==
  /\ r.stage = "begun"
  /\ LET s == r.job[1]
         active == subs[s] = "active" /\ clients[ClientOf[s]] = "active"
     IN  \/ Step(r, IF active THEN "active" ELSE "inactive")
         \/ Step(r, "threw")
  /\ QueueUnchanged /\ UNCHANGED <<deliveries, accepted>>

\* The endpoint may answer 2xx, answer something else, or take the request
\* and never be heard.  The signal of an attempt given up stops the request.
Post(r) ==
  /\ r.stage = "active"
  /\ \/ r.lane = "waiting" /\ Step(r, "answered") /\ accepted' = accepted \cup {r.job}
     \/ r.lane = "waiting" /\ Step(r, "refused") /\ UNCHANGED accepted
     \/ Step(r, "broken") /\ UNCHANGED accepted
  /\ QueueUnchanged /\ UNCHANGED deliveries

\* nexora_worker_record_webhook_attempt looks at no status: it overwrites.
Record(d, status) == deliveries' = [deliveries EXCEPT ![d] = status]

\* Fault: the handler forgets to record why it sent nothing.
RecordNoCancellation(r) ==
  /\ r.stage = "inactive"
  /\ Step(r, "returned")
  /\ QueueUnchanged /\ UNCHANGED <<deliveries, accepted>>

RecordCancelled(r) ==
  /\ r.stage = "inactive"
  /\ Record(r.job, "cancelled")
  /\ Step(r, "returned")
  /\ QueueUnchanged /\ UNCHANGED accepted

RecordSuccess(r) ==
  /\ r.stage = "answered"
  /\ Record(r.job, "succeeded")
  /\ Step(r, "returned")
  /\ QueueUnchanged /\ UNCHANGED accepted

RecordFailure(r) ==
  /\ r.stage \in {"refused", "broken"}
  /\ Record(r.job, IF Exhausted(r.job, r.attempt) THEN "dead_lettered"
                                              ELSE "retry_wait")
  /\ Step(r, "threw")
  /\ QueueUnchanged /\ UNCHANGED accepted

\* The recording call rejects, before or after its commit.  Out of the try
\* block the error is recorded as a failure of its own; elsewhere it leaves.
RecordingErrs(r) ==
  /\ r.stage \in {"inactive", "answered", "refused", "broken"}
  /\ Step(r, IF r.stage \in {"answered", "refused"} THEN "broken" ELSE "threw")
  /\ \/ UNCHANGED deliveries
     \/ r.stage = "inactive" /\ Record(r.job, "cancelled")
     \/ r.stage = "answered" /\ Record(r.job, "succeeded")
     \/ /\ r.stage \in {"refused", "broken"}
        /\ Record(r.job, IF Exhausted(r.job, r.attempt) THEN "dead_lettered"
                                                    ELSE "retry_wait")
  /\ QueueUnchanged /\ UNCHANGED accepted

HandlerStep(r) ==
  \/ GetTarget(r) \/ Post(r)
  \/ RecordCancelled(r) \/ RecordSuccess(r) \/ RecordFailure(r)
  \/ RecordingErrs(r)

-----------------------------------------------------------------------------
(* The runtime around it, each of its calls with the trigger. *)

RuntimeStep ==
  /\ RunsNext /\ Sync
  /\ UNCHANGED <<adminVars, accepted>>

Administer ==
  /\ AdminNext
  /\ UNCHANGED <<vars, runs, late, deliveries, accepted>>

DeliveryNext ==
  \/ \E e \in Events : Fanout(e)
  \/ \E r \in runs : HandlerStep(r)
  \/ RuntimeStep
  \/ Administer

DeliverySpec == DeliveryInit /\ [][DeliveryNext]_deliveryVars

-----------------------------------------------------------------------------
(* Safety *)

\* A delivery that is reported as succeeded has been accepted by its endpoint,
\* unless a handler of it answered its timer late: the function that records an
\* attempt looks at no status, and may then undo a cancellation.
SucceededWasAccepted ==
  \A d \in Jobs \ late : deliveries[d] = "succeeded" => d \in accepted

\* "O status do webhook_delivery e sincronizado com o Durable Job e volta a
\* retry_wait apos a solicitacao administrativa": once nobody is working on a
\* job its delivery shows its status; a delivery cancelled by the handler stays
\* cancelled when its job succeeds.  A late handler is the exception again: it
\* may write "succeeded" beside a job that its timer has dead-lettered.
StatusIsSynced ==
  \A d \in Jobs \ late : (~ \E r \in runs : r.job = d) =>
    CASE jobs[d].status = "absent" -> deliveries[d] = "absent"
      [] jobs[d].status = "pending" -> deliveries[d] = "queued"
      [] jobs[d].status \in {"retry_wait", "dead_lettered"}
           -> deliveries[d] = jobs[d].status
      [] jobs[d].status = "succeeded" -> deliveries[d] \in {"succeeded", "cancelled"}
      [] jobs[d].status = "running" -> TRUE

\* Two handlers never have a request of the same delivery before them, although
\* leases run out, workers crash and rows are reprocessed.
OneSenderPerDelivery ==
  \A r1, r2 \in runs :
    /\ r1.job = r2.job
    /\ r1.lane = "waiting" /\ r1.stage \in {"begun", "active"}
    /\ r2.lane = "waiting" /\ r2.stage \in {"begun", "active"}
    => r1 = r2

\* "This closes the crash window between the last claim and persistence of its
\* terminal result": the reaper can end every job whose final attempt was lost.
ReaperCanEndJob ==
  \A d \in Jobs : JobReapable(d) => SyncAllowed(deliveries[d], "dead_lettered")
=============================================================================
