----------------------------- MODULE TripLifecycle -----------------------------
(***************************************************************************)
(* Trips over confirmed contracts: planned, made ready, run stop by stop,  *)
(* completed or cancelled.  A trip that ends finalizes the contracts that  *)
(* are still linked to it, so the trip and the negotiation of Contracting  *)
(* write the same rows.                                                    *)
(*                                                                         *)
(* A call that changes a trip locks its row.  Contracts are read without a *)
(* lock by the calls that link them, and the trip by the calls that keep   *)
(* its checklist: those are two steps.  Drivers and vehicles are named by  *)
(* the capacity they belong to and treated alike, and one required item    *)
(* stands for the checklist of a trip.                                     *)
(***************************************************************************)
EXTENDS Contracting, Integers

CONSTANTS
  Trips,      \* rows of trips
  Stops,      \* the places a trip may stop at
  MinStops,   \* stops a trip needs to be ready: 2
  TripCalls   \* two-step calls on trips that may be in flight together

VARIABLES
  trips,      \* each trip: status, stops, checklist and crew
  links,      \* rows of trip_transport_requests
  busy,       \* the capacities whose availability is 'assigned'
  tripCalls   \* what each two-step call has read and is about to write

tripVars == <<trips, links, busy, tripCalls>>
lifecycleVars == <<contractingVars, tripVars>>

Mutable == {"planned", "ready"}
Operational == {"ready", "in_transit"}
Ended == {"completed", "cancelled"}
TripStatus == {"absent"} \cup Mutable \cup Operational \cup Ended

\* No call skips or cancels a stop.
StopStatus == {"absent", "planned", "arrived", "departed"}
\* Settled: completed or waived.
ChecklistStatus == {"absent", "pending", "settled", "failed"}

\* The crew has no ends_at: it ends when its trip does.
Trip == [status: TripStatus, stops: [Stops -> StopStatus],
         checklist: ChecklistStatus, primary: Capacities \cup {None},
         others: SUBSET Capacities]
Link == [trip: Trips, contract: Reservations, active: BOOLEAN]

NoTripCall == [op |-> "none"]
TripPending ==
  {NoTripCall} \cup [op: {"create"}, contracts: SUBSET Reservations]
               \cup [op: {"addRequest"}, trip: Trips, contract: Reservations]
               \cup [op: {"createChecklist", "setChecklistStatus"}, trip: Trips]

TripTypeOK ==
  /\ ContractingTypeOK
  /\ trips \in [Trips -> Trip]
  /\ links \subseteq Link
  /\ busy \subseteq Capacities
  /\ tripCalls \in [TripCalls -> TripPending]

\* Every proposal has been made on a request and accepted.
TripInit ==
  /\ requests = [r \in Requests |-> "ready_for_quote"]
  /\ assigned = Capacities
  /\ proposals \in [Proposals -> [status: {"accepted"}, request: Requests,
                                  capacity: Capacities, parent: {None}]]
  /\ lapsed = {}
  /\ reservations = [v \in Reservations |-> [status |-> "absent", proposal |-> None]]
  /\ contracts = [v \in Reservations |-> "none"]
  /\ calls = [k \in Calls |-> Idle]
  /\ trips = [t \in Trips |->
       [status |-> "absent", stops |-> [s \in Stops |-> "absent"],
        checklist |-> "absent", primary |-> None, others |-> {}]]
  /\ links = {}
  /\ busy = {}
  /\ tripCalls = [k \in TripCalls |-> NoTripCall]

\* Fault: links that were removed are taken for active ones.
EveryLinked(t) == {l.contract : l \in {m \in links : m.trip = t}}

Linked(t) == {l.contract : l \in {m \in links : m.trip = t /\ m.active}}

\* Fault: adding a request does not lock its trip.
NeverTripLocked(t) == FALSE

TripLocked(t) ==
  \E k \in TripCalls : tripCalls[k].op = "addRequest" /\ tripCalls[k].trip = t

CheckTrip(k, ready, pending) ==
  /\ tripCalls[k] = NoTripCall
  /\ ready
  /\ tripCalls' = [tripCalls EXCEPT ![k] = pending]
  /\ UNCHANGED <<contractingVars, trips, links, busy>>

ReturnTrip(k) == tripCalls' = [tripCalls EXCEPT ![k] = NoTripCall]

-----------------------------------------------------------------------------
(* Planning *)

\* The primary key admits one link of a request to a trip, removed or not,
\* and the partial indexes one active link of a request or a contract.
LinkConflicts(t, v) ==
  \E l \in links : /\ RequestOf(l.contract) = RequestOf(v)
                   /\ l.active \/ l.trip = t

SameCapacity(vs) == \A v, w \in vs : CapacityOf(v) = CapacityOf(w)

CheckCreateTrip(k) ==
  \E vs \in (SUBSET Reservations) \ {{}} :
    CheckTrip(k, (\A v \in vs : contracts[v] = "confirmed") /\ SameCapacity(vs),
              [op |-> "create", contracts |-> vs])

\* The stops of the requests, which may have none yet, are copied as planned.
CopiedStops == {[s \in Stops |-> status] : status \in {"absent", "planned"}}

CreateTrip(k) ==
  LET vs == tripCalls[k].contracts IN
  /\ tripCalls[k].op = "create"
  /\ \E t \in Trips, copied \in CopiedStops :
       LET c == CapacityOf(CHOOSE v \in vs : TRUE) IN
       /\ trips[t].status = "absent"
       /\ ~\E v \in vs : LinkConflicts(t, v)
       /\ trips' = [trips EXCEPT ![t] =
            [status |-> "planned", stops |-> copied,
             checklist |-> "absent", primary |-> c, others |-> {}]]
       /\ links' = links \cup [trip: {t}, contract: vs, active: {TRUE}]
  /\ ReturnTrip(k)
  /\ UNCHANGED <<contractingVars, busy>>

\* The primary driver and an active vehicle match those of the contract.
Serves(t, v) == trips[t].primary = CapacityOf(v)

CheckAddRequest(k, t, v) ==
  CheckTrip(k, /\ ~TripLocked(t) /\ trips[t].status \in Mutable
               /\ contracts[v] = "confirmed"
               /\ Serves(t, v),
            [op |-> "addRequest", trip |-> t, contract |-> v])

AddRequest(k) ==
  LET t == tripCalls[k].trip  v == tripCalls[k].contract IN
  /\ tripCalls[k].op = "addRequest"
  /\ ~LinkConflicts(t, v)
  /\ links' = links \cup {[trip |-> t, contract |-> v, active |-> TRUE]}
  /\ ReturnTrip(k)
  /\ UNCHANGED <<contractingVars, trips, busy>>

\* An insert meets a unique index and the call fails.
LinkFails(k) ==
  /\ \/ /\ tripCalls[k].op = "create"
        /\ \E v \in tripCalls[k].contracts, l \in links :
             l.active /\ RequestOf(l.contract) = RequestOf(v)
     \/ /\ tripCalls[k].op = "addRequest"
        /\ LinkConflicts(tripCalls[k].trip, tripCalls[k].contract)
  /\ ReturnTrip(k)
  /\ UNCHANGED <<contractingVars, trips, links, busy>>

Replan(t) == ~TripLocked(t) /\ trips[t].status \in Mutable

RemoveRequest(t, l) ==
  /\ Replan(t) /\ l \in links /\ l.trip = t /\ l.active
  /\ links' = (links \ {l}) \cup {[l EXCEPT !.active = FALSE]}
  /\ UNCHANGED <<contractingVars, trips, busy, tripCalls>>

AddStop(t, s) ==
  /\ Replan(t) /\ trips[t].stops[s] = "absent"
  /\ trips' = [trips EXCEPT ![t].stops[s] = "planned"]
  /\ UNCHANGED <<contractingVars, links, busy, tripCalls>>

\* addDriver and addAsset: the one primary driver is there from the start, and
\* whoever joins is not in the crew yet.
AddToCrew(t, c) ==
  /\ Replan(t) /\ c \notin trips[t].others \cup {trips[t].primary}
  /\ trips' = [trips EXCEPT ![t].others = @ \cup {c}]
  /\ UNCHANGED <<contractingVars, links, busy, tripCalls>>

\* setDriverAvailability and the asset's: any status, at any time.
SetAvailability(c) ==
  /\ busy' = IF c \in busy THEN busy \ {c} ELSE busy \cup {c}
  /\ UNCHANGED <<contractingVars, trips, links, tripCalls>>

-----------------------------------------------------------------------------
(* Execution *)

\* The primary driver and the vehicle it also asks for came with the trip.
SetTripReady(t) ==
  /\ ~TripLocked(t) /\ trips[t].status = "planned"
  /\ Linked(t) # {}
  /\ Cardinality({s \in Stops : trips[t].stops[s] # "absent"}) >= MinStops
  /\ trips' = [trips EXCEPT ![t].status = "ready"]
  /\ UNCHANGED <<contractingVars, links, busy, tripCalls>>

SetTripInTransit(t) ==
  /\ ~TripLocked(t) /\ trips[t].status = "ready"
  /\ trips' = [trips EXCEPT ![t].status = "in_transit"]
  /\ UNCHANGED <<contractingVars, links, busy, tripCalls>>

\* Fault: the type of the check-in is stored for the status it leads to.
MilestoneAsSent(stop, type) == type

Milestone(stop, type) ==
  CASE type = "arrival" -> IF stop = "planned" THEN "arrived" ELSE stop
    [] type \in {"departure", "pickup", "delivery"} -> "departed"

\* A departure or a pickup starts a trip that is ready.
CreateCheckin(t, s, type) ==
  /\ ~TripLocked(t) /\ trips[t].status \in Operational
  /\ trips[t].stops[s] # "absent"
  /\ type = "departure" => trips[t].stops[s] # "planned"
  /\ trips' = [trips EXCEPT
       ![t].stops[s] = Milestone(@, type),
       ![t].status = IF @ = "ready" /\ type \in {"departure", "pickup"}
                     THEN "in_transit" ELSE @]
  /\ UNCHANGED <<contractingVars, links, busy, tripCalls>>

CheckCreateChecklist(k, t) ==
  CheckTrip(k, /\ trips[t].status \in Mutable \cup Operational
               /\ trips[t].checklist = "absent",
            [op |-> "createChecklist", trip |-> t])

CreateChecklist(k) ==
  /\ tripCalls[k].op = "createChecklist"
  /\ trips' = [trips EXCEPT ![tripCalls[k].trip].checklist =
                 IF @ = "absent" THEN "pending" ELSE @]
  /\ ReturnTrip(k)
  /\ UNCHANGED <<contractingVars, links, busy>>

CheckSetChecklistStatus(k, t) ==
  CheckTrip(k, /\ trips[t].status \in Mutable \cup Operational
               /\ trips[t].checklist # "absent",
            [op |-> "setChecklistStatus", trip |-> t])

\* The update finds the item pending, or the call fails.
SetChecklistStatus(k) ==
  /\ tripCalls[k].op = "setChecklistStatus"
  /\ \E status \in {"settled", "failed"} :
       trips' = [trips EXCEPT ![tripCalls[k].trip].checklist =
                   IF @ = "pending" THEN status ELSE @]
  /\ ReturnTrip(k)
  /\ UNCHANGED <<contractingVars, links, busy>>

-----------------------------------------------------------------------------
(* The end of a trip *)

\* Fault: the reservation of a finalized contract is not looked at.
FinalizeContractOnly(vs, contract, reservation) ==
  /\ contracts' = [v \in Reservations |-> IF v \in vs THEN contract ELSE contracts[v]]
  /\ UNCHANGED reservations

Finalize(vs, contract, reservation) ==
  /\ contracts' = [v \in Reservations |-> IF v \in vs THEN contract ELSE contracts[v]]
  /\ reservations' = [v \in Reservations |->
       IF v \in vs /\ Held(v) THEN [reservations[v] EXCEPT !.status = reservation]
                              ELSE reservations[v]]

\* Who of the crew is still wanted by an active reservation stays assigned.
FreeCrew(t) ==
  busy' = {c \in busy :
    c \in trips[t].others \cup {trips[t].primary} =>
      \E v \in Reservations : reservations'[v].status = "active" /\ CapacityOf(v) = c}

\* finalizeTerminalTrip: the requests keep their status.
EndTrip(t, status, contract, reservation) ==
  /\ trips' = [trips EXCEPT ![t].status = status]
  /\ Finalize({v \in Linked(t) : contracts[v] = "confirmed"}, contract, reservation)
  /\ FreeCrew(t)
  /\ UNCHANGED <<requests, assigned, proposals, lapsed, calls, links, tripCalls>>

CompleteTrip(t) ==
  /\ ~TripLocked(t) /\ trips[t].status = "in_transit"
  /\ \A s \in Stops : trips[t].stops[s] \in {"absent", "departed"}
  /\ trips[t].checklist \in {"absent", "settled"}
  /\ EndTrip(t, "completed", "fulfilled", "released")

CancelTrip(t) ==
  /\ ~TripLocked(t) /\ trips[t].status \in Mutable \cup Operational
  /\ EndTrip(t, "cancelled", "cancelled", "cancelled")

-----------------------------------------------------------------------------
TripNext ==
  \/ \E k \in TripCalls :
       \/ CheckCreateTrip(k) \/ CreateTrip(k) \/ AddRequest(k) \/ LinkFails(k)
       \/ CreateChecklist(k) \/ SetChecklistStatus(k)
       \/ \E t \in Trips :
            CheckCreateChecklist(k, t) \/ CheckSetChecklistStatus(k, t)
       \/ \E t \in Trips, v \in Reservations : CheckAddRequest(k, t, v)
  \/ \E c \in Capacities : SetAvailability(c)
  \/ \E t \in Trips :
       \/ SetTripReady(t) \/ SetTripInTransit(t) \/ CompleteTrip(t) \/ CancelTrip(t)
       \/ \E l \in links : RemoveRequest(t, l)
       \/ \E c \in Capacities : AddToCrew(t, c)
       \/ \E s \in Stops :
            \/ AddStop(t, s)
            \/ \E type \in {"arrival", "departure", "pickup", "delivery"} :
                 CreateCheckin(t, s, type)

\* The calls on reservations and contracts that run beside the trips.  Once a
\* request is contracted its negotiation is over, and Contracting checks it.
Contract ==
  \/ \E v \in Reservations :
       CancelReservation(v) \/ Confirm(v) \/ Refuse(v) \/ CancelContract(v)
  \/ \E k \in Calls :
       (\E p \in Proposals : CheckApprove(k, p)) \/ Approve(k) \/ ApproveConflicts(k)

LifecycleNext == TripNext \/ (Contract /\ UNCHANGED tripVars)

LifecycleSpec == TripInit /\ [][LifecycleNext]_lifecycleVars

-----------------------------------------------------------------------------
(* Properties *)

\* Trips that end finalize their own work and nothing else.  A contract is
\* fulfilled only while a completed trip carries it: a link that was removed, or
\* a trip that was cancelled, fulfils nothing.  And what a completed trip carries
\* is fulfilled, unless it was cancelled before: a contract read as confirmed may
\* be cancelled before its link is written.
FulfilledByItsTrip ==
  /\ \A v \in Reservations : contracts[v] = "fulfilled" =>
       \E l \in links :
         l.contract = v /\ l.active /\ trips[l.trip].status = "completed"
  /\ \A l \in links : l.active /\ trips[l.trip].status = "completed" =>
       contracts[l.contract] \in {"fulfilled", "cancelled"}

\* A trip that has ended leaves no contract confirmed behind it, whatever
\* contract was being added while it ended.
EndedTripEndsContracts ==
  \A t \in Trips : trips[t].status \in Ended =>
    \A v \in Linked(t) : contracts[v] # "confirmed"

\* A contracted request is explained by a contract that stands, was carried
\* out, or was cancelled with its trip; cancel of the contract itself, a
\* removed link or an ended trip never leave one that nobody answers for.
ContractedIsExplained ==
  \A r \in Requests : requests[r] = "contracted" =>
    \E v \in Reservations :
      /\ contracts[v] # "none" /\ RequestOf(v) = r
      /\ \/ contracts[v] \in {"confirmed", "fulfilled"}
         \/ contracts[v] = "cancelled"
            /\ \E t \in Trips : trips[t].status = "cancelled" /\ v \in Linked(t)
=============================================================================
