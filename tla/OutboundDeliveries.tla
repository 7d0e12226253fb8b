--------------------------- MODULE OutboundDeliveries ---------------------------
(***************************************************************************)
(* The two handlers the worker runs: a job is that of a webhook delivery   *)
(* or of an outbound message.  They share the queue and the runtime and    *)
(* nothing else; an initial state chooses which of them it is.             *)
(***************************************************************************)
EXTENDS WebhookDelivery, CommunicationDelivery

CONSTANT Handlers  \* which of "webhook" and "message" an instance is about

ASSUME HandlersAssumption == Handlers \subseteq {"webhook", "message"}

VARIABLE handler   \* which handler the job has

outboundVars == <<deliveryVars, communicationVars, handler>>

ofDelivery == <<adminVars, deliveries, accepted>>
ofMessage == <<route, consent, messages, handed>>

OutboundInit == DeliveryInit /\ CommunicationInit /\ handler \in Handlers

OutboundNext ==
  /\ UNCHANGED handler
  /\ IF handler = "webhook" THEN DeliveryNext /\ UNCHANGED ofMessage
     ELSE CommunicationNext /\ UNCHANGED ofDelivery

OutboundSpec == OutboundInit /\ [][OutboundNext]_outboundVars

-----------------------------------------------------------------------------
(* Properties *)

\* Each handler keeps the types of its rows and of its runs.
DeliveriesTypeOK ==
  IF handler = "webhook" THEN DeliveryTypeOK ELSE CommunicationTypeOK

\* What is reported as sent was taken by the other side, and a message blocked for
\* want of consent or route was not: see both modules for the late handler.
SentIsTrue == SucceededWasAccepted /\ SentWasAccepted

\* Once nobody works on a job, its row says what became of it: a delivery follows
\* every status of its job, and a job that succeeded has settled its message.
RowFollowsJob ==
  IF handler = "webhook" THEN StatusIsSynced ELSE SuccessIsSettled
=============================================================================
