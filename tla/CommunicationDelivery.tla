------------------------ MODULE CommunicationDelivery ------------------------
(***************************************************************************)
(* Outbound e-mail, WhatsApp and SMS: queueing a message against the       *)
(* recipient's consent and the channel's provider route, the handler that  *)
(* hands it to the provider, the function that records an attempt and the  *)
(* triggers that guard the row and follow a reprocessed job.               *)
(*                                                                         *)
(* One channel and one recipient; a message and its durable job are the    *)
(* same member of Jobs, and the outbox event of a queued message is        *)
(* AsyncQueue's and left out.                                              *)
(***************************************************************************)
EXTENDS JobRuns

CONSTANTS
  Providers,  \* provider codes an administrator may configure
  NoProvider  \* no route, or SQL NULL in provider_code

ASSUME CommunicationAssumption == NoProvider \notin Providers

VARIABLES
  route,     \* the row of communication_provider_routes for the channel
  consent,   \* the preference is enabled and its consent granted
  messages,  \* the rows of outbound_communications
  handed     \* history: the messages a provider has taken

communicationVars == <<vars, runs, late, route, consent, messages, handed>>

MessageStatus ==
  {"absent", "queued", "retry_wait", "sent", "failed", "blocked", "cancelled"}

Message == [status: MessageStatus, provider: Providers \cup {NoProvider}]

CommunicationTypeOK ==
  /\ TypeOK
  /\ runs \subseteq RunsIn({"disabled", "sending", "accepted", "broken"})
  /\ late \subseteq Jobs
  /\ route \in [provider: Providers \cup {NoProvider}, active: BOOLEAN]
  /\ consent \in BOOLEAN
  /\ messages \in [Jobs -> Message]
  /\ handed \subseteq Jobs

CommunicationInit ==
  /\ Init /\ RunsInit
  /\ route = [provider |-> NoProvider, active |-> FALSE]
  /\ consent = FALSE
  /\ messages = [m \in Jobs |-> [status |-> "absent", provider |-> NoProvider]]
  /\ handed = {}

-----------------------------------------------------------------------------
(* The API *)

ConfigureRoute(p, active) ==
  /\ route' = [provider |-> p, active |-> active]
  /\ UNCHANGED <<vars, runs, late, consent, messages, handed>>

SetPreference(granted) ==
  /\ consent' = granted
  /\ UNCHANGED <<vars, runs, late, route, messages, handed>>

\* The destination may be missing as well.  A repeated idempotency key finds
\* the row and changes nothing; the advisory lock makes the two one by one.
QueueCommunication(m) ==
  /\ messages[m].status = "absent"
  /\ \/ /\ messages' = [messages EXCEPT ![m].status = "blocked",
          ![m].provider = NoProvider]
        /\ UNCHANGED jobs
     \/ /\ consent /\ route.active
        /\ messages' = [messages EXCEPT ![m] =
             [status |-> "queued", provider |-> route.provider]]
        /\ jobs' = [jobs EXCEPT ![m].status = "pending"]
  /\ UNCHANGED <<events, runs, late, route, consent, handed>>

-----------------------------------------------------------------------------
(* The row's trigger and nexora_worker_record_communication_attempt *)

Final == {"sent", "blocked", "cancelled"}

\* Otherwise the UPDATE raises.
MayBecome(old, new) ==
  /\ old \in Final => new = old
  /\ old = "failed" => new \in {"failed", "retry_wait"}

\* The status after a call that records an attempt: a final message is left
\* alone (the function returns false).
Recorded(m, new) == IF messages[m].status \in Final THEN messages[m].status ELSE new

\* The call commits.
RecordAttempt(m, new) ==
  /\ MayBecome(messages[m].status, Recorded(m, new))
  /\ messages' = [messages EXCEPT ![m].status = Recorded(m, new)]

\* Another status than the caller's was kept: the function returned false.
Refused(m) == messages[m].status \in Final

\* Fault: the job's status is written instead of the message's.
FailureStatusOfJob(r) ==
  IF Exhausted(r.job, r.attempt) THEN "dead_lettered" ELSE "retry_wait"

FailureStatus(r) == IF Exhausted(r.job, r.attempt) THEN "failed" ELSE "retry_wait"

-----------------------------------------------------------------------------
(* The handler *)

OthersUnchanged == UNCHANGED <<vars, route, consent>>

\* Fault: a failed message counts as handled.
GetMessageSkipsFailed(r) ==
  LET m == messages[r.job]
  IN  /\ r.stage = "begun"
      /\ \/ m.status \in {"sent", "cancelled", "failed"} /\ Step(r, "returned")
         \/ Step(r, "threw")
         \/ /\ m.status \notin {"sent", "cancelled", "blocked", "failed"}
            /\ Step(r, IF route.active /\ route.provider = m.provider
                       THEN "sending" ELSE "disabled")
      /\ OthersUnchanged /\ UNCHANGED <<messages, handed>>

\* A message already sent or cancelled needs nothing more; the call may reject.
GetMessage(r) ==
  LET m == messages[r.job]
  IN  /\ r.stage = "begun"
      /\ \/ m.status \in {"sent", "cancelled"} /\ Step(r, "returned")
         \/ Step(r, "threw")
         \/ /\ m.status \notin {"sent", "cancelled", "blocked"}
            /\ Step(r, IF route.active /\ route.provider = m.provider
                       THEN "sending" ELSE "disabled")
      /\ OthersUnchanged /\ UNCHANGED <<messages, handed>>

\* The record is made and answered, made with its answer lost, or not made.
RecordRouteDisabled(r) ==
  /\ r.stage = "disabled"
  /\ \/ RecordAttempt(r.job, "cancelled") /\ Step(r, "returned")
     \/ RecordAttempt(r.job, "cancelled") /\ Step(r, "threw")
     \/ Step(r, "threw") /\ UNCHANGED messages
  /\ OthersUnchanged /\ UNCHANGED handed

\* Fault: whatever the provider answers counts as an acceptance.
SendUnchecked(r) ==
  /\ r.stage = "sending"
  /\ \/ r.lane = "waiting" /\ Step(r, "accepted") /\ handed' = handed \cup {r.job}
     \/ Step(r, "accepted") /\ UNCHANGED handed
  /\ OthersUnchanged /\ UNCHANGED messages

\* The provider takes the message and answers, takes it and is never heard, or
\* refuses it; an aborted signal stops the request of an attempt given up.
Send(r) ==
  /\ r.stage = "sending"
  /\ \/ r.lane = "waiting" /\ Step(r, "accepted") /\ handed' = handed \cup {r.job}
     \/ r.lane = "waiting" /\ Step(r, "broken") /\ handed' = handed \cup {r.job}
     \/ Step(r, "broken") /\ UNCHANGED handed
  /\ OthersUnchanged /\ UNCHANGED messages

\* The record is made and answered, made with its answer lost, or not made.
RecordSent(r) ==
  /\ r.stage = "accepted"
  /\ \/ RecordAttempt(r.job, "sent") /\ ~ Refused(r.job) /\ Step(r, "returned")
     \/ RecordAttempt(r.job, "sent") /\ Step(r, "broken")
     \/ Step(r, "broken") /\ UNCHANGED messages
  /\ OthersUnchanged /\ UNCHANGED handed

\* The catch block: its own call may reject too, and either error is thrown.
RecordUnsent(r) ==
  /\ r.stage = "broken"
  /\ RecordAttempt(r.job, FailureStatus(r)) \/ UNCHANGED messages
  /\ Step(r, "threw")
  /\ OthersUnchanged /\ UNCHANGED handed

SendStep(r) ==
  GetMessage(r) \/ RecordRouteDisabled(r) \/ Send(r) \/ RecordSent(r) \/ RecordUnsent(r)

-----------------------------------------------------------------------------
(* The trigger on durable_jobs looks for a dead-lettered job that becomes  *)
(* pending.                                                                *)

SyncReprocess ==
  messages' = [m \in Jobs |->
    IF /\ jobs[m].status = "dead_lettered" /\ jobs'[m].status = "pending"
       /\ messages[m].status = "failed"
    THEN [messages[m] EXCEPT !.status = "retry_wait"] ELSE messages[m]]

ReprocessStep ==
  /\ RunsNext /\ SyncReprocess
  /\ UNCHANGED <<route, consent, handed>>

CommunicationNext ==
  \/ \E p \in Providers, active \in BOOLEAN : ConfigureRoute(p, active)
  \/ \E granted \in BOOLEAN : SetPreference(granted)
  \/ \E m \in Jobs : QueueCommunication(m)
  \/ \E r \in runs : SendStep(r)
  \/ ReprocessStep

CommunicationSpec == CommunicationInit /\ [][CommunicationNext]_communicationVars

-----------------------------------------------------------------------------
(* Safety *)

\* A job that succeeded has left its message sent or cancelled, whatever
\* handlers came late, leases ran out or administrators reprocessed: no
\* message is dropped while its job looks done.
SuccessIsSettled ==
  \A m \in Jobs : jobs[m].status = "succeeded"
                    => messages[m].status \in {"sent", "cancelled"}

\* A message shown as sent was taken by a provider, and a message without
\* consent or route at its creation is never handed to one.
SentWasAccepted ==
  \A m \in Jobs : /\ messages[m].status = "sent" => m \in handed
                  /\ messages[m].status = "blocked" => m \notin handed

\* "Failed outbound communication may only be administratively requeued": the
\* requeue takes the message out of failed, so that the acceptance of the
\* provider can be recorded.
AcceptanceCanBeRecorded ==
  \A r \in runs : r.stage = "accepted" /\ r.lane = "waiting"
                    => MayBecome(messages[r.job].status, Recorded(r.job, "sent"))
=============================================================================
