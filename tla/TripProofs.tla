------------------------------- MODULE TripProofs -------------------------------
(***************************************************************************)
(* Proofs about TripLifecycle for any trips, stops, contracts and any      *)
(* number of calls in flight.                                              *)
(*                                                                         *)
(* A trip and the negotiation write the same contracts, and a link may be  *)
(* made by a call that read its contract some steps ago.  Two facts carry  *)
(* the proofs.  A contract that was confirmed once never returns to none   *)
(* and is never refused, so what a link or a pending call names is not     *)
(* confirmed again.  And a trip that a pending call is adding to stays     *)
(* mutable: it is locked.                                                  *)
(***************************************************************************)
EXTENDS TripLifecycle, ContractingProofs

\* No proposal changes while trips run over what was accepted.
AcceptedInv ==
  /\ \A p \in Proposals : proposals[p].status = "accepted"
  /\ \A k \in Calls : calls[k] \in {Idle} \cup [op: {"approve"}, proposal: Proposals]

\* A contract that was confirmed once, and so rests on a reservation that is there.
Made(v) == v \in Reservations /\ contracts[v] \in {"confirmed", "fulfilled", "cancelled"}

LinksInv ==
  \A l \in links : Made(l.contract) /\ trips[l.trip].status # "absent"

\* What a call that links contracts may still rely on when it writes.
TripCallHolds(call) ==
  /\ call.op = "create" =>
       call.contracts # {} /\ \A v \in call.contracts : Made(v)
  /\ call.op = "addRequest" =>
       Made(call.contract) /\ trips[call.trip].status \in Mutable

TripCallsInv == \A k \in TripCalls : TripCallHolds(tripCalls[k])

\* The first half of FulfilledByItsTrip; the second follows from Made.
OnlyItsTripFulfils ==
  \A v \in Reservations : contracts[v] = "fulfilled" =>
    \E l \in links :
      l.contract = v /\ l.active /\ trips[l.trip].status = "completed"

TripInv ==
  /\ TripTypeOK
  /\ AcceptedInv
  /\ RowsInv
  /\ LinksInv
  /\ TripCallsInv
  /\ OnlyItsTripFulfils
  /\ EndedTripEndsContracts
  /\ EndedContractFreesCapacity
  /\ ContractedIsExplained
-----------------------------------------------------------------------------
(* Lemmas about the operators *)

\* The fields a pending call on a trip has, by its operation.
LEMMA TripPendingFields ==
  ASSUME NEW call \in TripPending
  PROVE  /\ call.op = "create" => call.contracts \subseteq Reservations
         /\ call.op \in {"addRequest", "createChecklist", "setChecklistStatus"} =>
              call.trip \in Trips
         /\ call.op = "addRequest" => call.contract \in Reservations
BY DEF TripPending, NoTripCall

\* A contract that was made is of a request and a capacity.
LEMMA MadeRests ==
  ASSUME TripInv, NEW v, Made(v)
  PROVE  /\ reservations[v].proposal \in Proposals
         /\ reservations[v].status # "absent"
         /\ CapacityOf(v) \in Capacities \cup {None}
<1>1. v \in Reservations /\ contracts[v] # "none"
  BY DEF Made
<1>2. reservations[v].status # "absent" /\ reservations[v].proposal \in Proposals
  BY <1>1 DEF TripInv, RowsInv
<1>3. proposals[reservations[v].proposal] \in Proposal
  BY <1>2 DEF TripInv, TripTypeOK, ContractingTypeOK
<1> QED BY <1>2, <1>3 DEF CapacityOf, Proposal

\* A call that returns is idle, and the others are as they were.
LEMMA ReturnTripCalls ==
  ASSUME TripInv, NEW k \in TripCalls, ReturnTrip(k)
  PROVE  /\ tripCalls' \in [TripCalls -> TripPending]
         /\ \A j \in TripCalls : tripCalls'[j] = IF j = k THEN NoTripCall ELSE tripCalls[j]
BY DEF TripInv, TripTypeOK, ReturnTrip, TripPending

\* An active link, as Linked sees it.
LEMMA LinkedBy ==
  ASSUME NEW t, NEW v
  PROVE  v \in Linked(t) <=> \E l \in links : l.trip = t /\ l.active /\ l.contract = v
BY DEF Linked

-----------------------------------------------------------------------------
(* Frames: what a step has to respect for the rest of the invariant to    *)
(* follow from what it leaves alone.                                      *)

\* A step of trips that leaves contracts and links alone and ends no trip.
LEMMA TripsFrame ==
  ASSUME TripInv, TripTypeOK', UNCHANGED <<contractingVars, links>>,
         \A t \in Trips :
           /\ trips[t].status # "absent" => trips'[t].status # "absent"
           /\ trips[t].status \in Ended \/ trips'[t].status \in Ended =>
                trips'[t].status = trips[t].status,
         TripCallsInv'
  PROVE  TripInv'
<1>1. UNCHANGED <<requests, assigned, proposals, lapsed, reservations, contracts, calls>>
  BY DEF contractingVars
<1>2. \A l \in links : l.trip \in Trips /\ l.contract \in Reservations
  BY DEF TripInv, TripTypeOK, Link
<1>3. AcceptedInv' /\ RowsInv' /\ EndedContractFreesCapacity'
  BY <1>1 DEF TripInv, AcceptedInv, RowsInv, EndedContractFreesCapacity, Held
<1>4. LinksInv'
  BY <1>1, <1>2 DEF TripInv, LinksInv, Made
<1>5. OnlyItsTripFulfils'
  BY <1>1, <1>2 DEF TripInv, OnlyItsTripFulfils, Ended
<1>6. \A t \in Trips : Linked(t)' = Linked(t)
  BY DEF Linked
<1>7. EndedTripEndsContracts'
  BY <1>1, <1>6 DEF TripInv, EndedTripEndsContracts
<1>8. ContractedIsExplained'
  <2>1. \A v \in Reservations : RequestOf(v)' = RequestOf(v)
    BY <1>1 DEF RequestOf
  <2> QED BY <1>1, <1>6, <2>1 DEF TripInv, ContractedIsExplained, Ended
<1> QED BY <1>3, <1>4, <1>5, <1>7, <1>8 DEF TripInv

\* A step of the negotiation that leaves the trips alone.
LEMMA ContractsFrame ==
  ASSUME TripInv, TripTypeOK', UNCHANGED tripVars,
         AcceptedInv', RowsInv', EndedContractFreesCapacity', ContractedIsExplained',
         \A v \in Reservations :
           /\ Made(v) => Made(v)'
           /\ contracts'[v] = "fulfilled" <=> contracts[v] = "fulfilled"
           /\ contracts'[v] = "confirmed" => contracts[v] \in {"none", "confirmed"}
  PROVE  TripInv'
<1>1. UNCHANGED <<trips, links, busy, tripCalls>>
  BY DEF tripVars
<1>2. \A v : Made(v) => Made(v)'
  BY DEF Made
<1>3. LinksInv' /\ TripCallsInv'
  BY <1>1, <1>2 DEF TripInv, LinksInv, TripCallsInv, TripCallHolds
<1>4. OnlyItsTripFulfils'
  BY <1>1 DEF TripInv, OnlyItsTripFulfils
<1>5. EndedTripEndsContracts'
  <2> SUFFICES ASSUME NEW t \in Trips, trips[t].status \in Ended, NEW v \in Linked(t)
               PROVE  contracts'[v] # "confirmed"
    BY <1>1 DEF EndedTripEndsContracts, Linked
  <2>1. Made(v)
    BY LinkedBy DEF TripInv, LinksInv
  <2>2. contracts[v] # "confirmed"
    BY DEF TripInv, EndedTripEndsContracts
  <2> QED BY <2>1, <2>2 DEF Made
<1> QED BY <1>3, <1>4, <1>5 DEF TripInv

-----------------------------------------------------------------------------
(* Steps *)

\* The initial state satisfies the invariant.
LEMMA TripInitStep == TripInit => TripInv
<1> SUFFICES ASSUME TripInit PROVE TripInv
  OBVIOUS
<1>1. ContractingTypeOK
  BY DEF TripInit, ContractingTypeOK, RequestStatus, Proposal, ProposalStatus, Decided,
         Reservation, ContractStatus, Pending
<1>2. trips \in [Trips -> Trip]
  BY DEF TripInit, Trip, TripStatus, StopStatus, ChecklistStatus
<1>3. TripTypeOK
  BY <1>1, <1>2 DEF TripInit, TripTypeOK, Link, TripPending
<1>4. AcceptedInv /\ RowsInv /\ LinksInv
  BY DEF TripInit, AcceptedInv, RowsInv, LinksInv
<1>5. TripCallsInv
  BY DEF TripInit, TripCallsInv, TripCallHolds, NoTripCall
<1>6. OnlyItsTripFulfils /\ EndedTripEndsContracts /\ EndedContractFreesCapacity
      /\ ContractedIsExplained
  BY DEF TripInit, OnlyItsTripFulfils, EndedTripEndsContracts, Ended,
         EndedContractFreesCapacity, ContractedIsExplained
<1> QED BY <1>3, <1>4, <1>5, <1>6 DEF TripInv

\* A call on trips that has made its checks.
LEMMA CheckTripStep ==
  ASSUME TripInv, NEW k \in TripCalls, NEW ready, NEW pending \in TripPending,
         CheckTrip(k, ready, pending), TripCallHolds(pending)
  PROVE  TripInv'
<1>1. /\ tripCalls' = [tripCalls EXCEPT ![k] = pending]
      /\ UNCHANGED <<contractingVars, trips, links, busy>>
  BY DEF CheckTrip
<1>2. UNCHANGED <<requests, assigned, proposals, lapsed, reservations, contracts, calls>>
  BY <1>1 DEF contractingVars
<1>3. TripTypeOK'
  BY <1>1, <1>2 DEF TripInv, TripTypeOK, ContractingTypeOK
<1>4. TripCallsInv'
  <2>1. \A j \in TripCalls : tripCalls'[j] = IF j = k THEN pending ELSE tripCalls[j]
    BY <1>1 DEF TripInv, TripTypeOK
  <2>2. \A j \in TripCalls : TripCallHolds(tripCalls'[j])
    BY <2>1 DEF TripInv, TripCallsInv
  <2> QED BY <1>1, <1>2, <2>2 DEF TripCallsInv, TripCallHolds, Made
<1> QED BY <1>1, <1>3, <1>4, TripsFrame

\* Each check records no more than it has just read.
LEMMA TripChecksStep ==
  ASSUME TripInv, NEW k \in TripCalls,
         \/ CheckCreateTrip(k)
         \/ \E t \in Trips : CheckCreateChecklist(k, t) \/ CheckSetChecklistStatus(k, t)
         \/ \E t \in Trips, v \in Reservations : CheckAddRequest(k, t, v)
  PROVE  TripInv'
<1>1. CASE CheckCreateTrip(k)
  <2>1. PICK vs \in (SUBSET Reservations) \ {{}} :
          CheckTrip(k, (\A v \in vs : contracts[v] = "confirmed") /\ SameCapacity(vs),
                    [op |-> "create", contracts |-> vs])
    BY <1>1 DEF CheckCreateTrip
  <2>2. [op |-> "create", contracts |-> vs] \in TripPending
    BY DEF TripPending
  <2>3. vs # {} /\ \A v \in vs : Made(v)
    BY <2>1 DEF CheckTrip, Made
  <2>4. TripCallHolds([op |-> "create", contracts |-> vs])
    BY <2>3 DEF TripCallHolds
  <2> QED BY <2>1, <2>2, <2>4, CheckTripStep
<1>2. ASSUME NEW t \in Trips,
             CheckCreateChecklist(k, t) \/ CheckSetChecklistStatus(k, t)
      PROVE  TripInv'
  <2>1. ASSUME NEW op \in {"createChecklist", "setChecklistStatus"}
        PROVE  /\ [op |-> op, trip |-> t] \in TripPending
               /\ TripCallHolds([op |-> op, trip |-> t])
    BY <2>1 DEF TripPending, TripCallHolds
  <2> QED BY <1>2, <2>1, CheckTripStep DEF CheckCreateChecklist, CheckSetChecklistStatus
<1>3. ASSUME NEW t \in Trips, NEW v \in Reservations, CheckAddRequest(k, t, v)
      PROVE  TripInv'
  <2>1. [op |-> "addRequest", trip |-> t, contract |-> v] \in TripPending
    BY DEF TripPending
  <2>2. TripCallHolds([op |-> "addRequest", trip |-> t, contract |-> v])
    BY <1>3 DEF CheckAddRequest, CheckTrip, TripCallHolds, Made
  <2> QED BY <1>3, <2>1, <2>2, CheckTripStep DEF CheckAddRequest
<1> QED BY <1>1, <1>2, <1>3

\* A return that writes no contract and moves no locked trip leaves the other
\* pending calls right.
LEMMA ReturnTripStep ==
  ASSUME TripInv, NEW k \in TripCalls, ReturnTrip(k), UNCHANGED contracts,
         \A t \in Trips : trips[t].status \in Mutable => trips'[t].status \in Mutable
  PROVE  TripCallsInv'
<1>1. \A j \in TripCalls : tripCalls'[j] = IF j = k THEN NoTripCall ELSE tripCalls[j]
  BY ReturnTripCalls
<1>2. \A j \in TripCalls : tripCalls[j] \in TripPending /\ TripCallHolds(tripCalls[j])
  BY DEF TripInv, TripTypeOK, TripCallsInv
<1> QED BY <1>1, <1>2, TripPendingFields
        DEF TripCallsInv, TripCallHolds, NoTripCall, Made

\* No pending call relies on a trip that is not locked.
LEMMA UnlockedStep ==
  ASSUME TripInv, NEW t \in Trips, ~TripLocked(t),
         UNCHANGED <<contracts, tripCalls>>,
         \A u \in Trips : u # t => trips'[u] = trips[u]
  PROVE  TripCallsInv'
<1>1. \A j \in TripCalls : tripCalls[j].op = "addRequest" =>
        tripCalls[j].trip # t /\ tripCalls[j].trip \in Trips
  BY TripPendingFields DEF TripLocked, TripInv, TripTypeOK
<1> QED BY <1>1 DEF TripInv, TripCallsInv, TripCallHolds, Made

\* The calls on a trip that is neither started nor ended by them, and the ones
\* that start it: its row is theirs, or they keep its status.
LEMMA TripRowStep ==
  ASSUME TripInv, NEW t \in Trips, NEW row \in Trip, ~TripLocked(t),
         trips' = [trips EXCEPT ![t] = row],
         UNCHANGED <<contractingVars, links, busy, tripCalls>>,
         trips[t].status \notin Ended \cup {"absent"},
         row.status \notin Ended \cup {"absent"}
  PROVE  TripInv'
<1>1. UNCHANGED <<requests, assigned, proposals, lapsed, reservations, contracts, calls>>
  BY DEF contractingVars
<1>2. \A u \in Trips : trips'[u] = IF u = t THEN row ELSE trips[u]
  BY DEF TripInv, TripTypeOK
<1>3. TripTypeOK'
  BY <1>1 DEF TripInv, TripTypeOK, ContractingTypeOK
<1>4. TripCallsInv'
  BY <1>1, <1>2, UnlockedStep
<1> QED BY <1>2, <1>3, <1>4, TripsFrame

\* Planning and execution: each call writes one row of trips.
LEMMA TripMoves ==
  ASSUME TripInv, NEW t \in Trips,
         \/ SetTripReady(t) \/ SetTripInTransit(t)
         \/ \E c \in Capacities : AddToCrew(t, c)
         \/ \E s \in Stops :
              \/ AddStop(t, s)
              \/ \E type \in {"arrival", "departure", "pickup", "delivery"} :
                   CreateCheckin(t, s, type)
  PROVE  TripInv'
<1>1. trips[t] \in Trip /\ trips \in [Trips -> Trip]
  BY DEF TripInv, TripTypeOK
<1>2. CASE SetTripReady(t)
  <2> DEFINE row == [trips[t] EXCEPT !.status = "ready"]
  <2>1. /\ row \in Trip /\ row.status = "ready"
        /\ trips' = [trips EXCEPT ![t] = row]
    BY <1>1, <1>2 DEF SetTripReady, Trip, TripStatus, Mutable
  <2> HIDE DEF row
  <2> QED BY <1>2, <2>1, TripRowStep DEF SetTripReady, Ended
<1>3. CASE SetTripInTransit(t)
  <2> DEFINE row == [trips[t] EXCEPT !.status = "in_transit"]
  <2>1. /\ row \in Trip /\ row.status = "in_transit"
        /\ trips' = [trips EXCEPT ![t] = row]
    BY <1>1, <1>3 DEF SetTripInTransit, Trip, TripStatus, Operational
  <2> HIDE DEF row
  <2> QED BY <1>3, <2>1, TripRowStep DEF SetTripInTransit, Ended
<1>4. ASSUME NEW c \in Capacities, AddToCrew(t, c) PROVE TripInv'
  <2> DEFINE row == [trips[t] EXCEPT !.others = @ \cup {c}]
  <2>1. /\ row \in Trip /\ row.status = trips[t].status
        /\ trips' = [trips EXCEPT ![t] = row]
    BY <1>1, <1>4 DEF AddToCrew, Trip
  <2> HIDE DEF row
  <2> QED BY <1>4, <2>1, TripRowStep DEF AddToCrew, Replan, Mutable, Ended
<1>5. ASSUME NEW s \in Stops, AddStop(t, s) PROVE TripInv'
  <2> DEFINE row == [trips[t] EXCEPT !.stops = [@ EXCEPT ![s] = "planned"]]
  <2>1. /\ row \in Trip /\ row.status = trips[t].status
        /\ trips' = [trips EXCEPT ![t] = row]
    BY <1>1, <1>5 DEF AddStop, Trip, StopStatus
  <2> HIDE DEF row
  <2> QED BY <1>5, <2>1, TripRowStep DEF AddStop, Replan, Mutable, Ended
<1>6. ASSUME NEW s \in Stops, NEW type \in {"arrival", "departure", "pickup", "delivery"},
             CreateCheckin(t, s, type)
      PROVE  TripInv'
  <2> DEFINE after == IF trips[t].status = "ready" /\ type \in {"departure", "pickup"}
                      THEN "in_transit" ELSE trips[t].status
             stops == [trips[t].stops EXCEPT ![s] = Milestone(trips[t].stops[s], type)]
             marked == [trips[t] EXCEPT !.stops = stops]
             row == [marked EXCEPT !.status = after]
  <2>1. Milestone(trips[t].stops[s], type) \in StopStatus
    BY <1>1 DEF Milestone, Trip, StopStatus
  <2>2. marked \in Trip /\ marked.status = trips[t].status
    BY <1>1, <2>1 DEF Trip
  <2>3. trips' = [[trips EXCEPT ![t] = marked] EXCEPT ![t].status = after]
    BY <1>1, <1>6 DEF CreateCheckin, Trip
  <2>4. trips[t].status \in Operational /\ after \in Operational
    BY <1>6 DEF CreateCheckin, Operational
  <2> HIDE DEF marked, after
  <2>5. /\ row \in Trip /\ row.status = after
        /\ trips' = [trips EXCEPT ![t] = row]
    BY <1>1, <2>2, <2>3, <2>4 DEF Trip, TripStatus, Operational
  <2> HIDE DEF row
  <2> QED BY <1>6, <2>4, <2>5, TripRowStep DEF CreateCheckin, Operational, Ended
<1> QED BY <1>2, <1>3, <1>4, <1>5, <1>6

\* The calls that keep a checklist, and the link that fails, write no status.
LEMMA ChecklistStep ==
  ASSUME TripInv, NEW k \in TripCalls,
         CreateChecklist(k) \/ SetChecklistStatus(k) \/ LinkFails(k)
  PROVE  TripInv'
<1>1. /\ ReturnTrip(k) /\ UNCHANGED <<contractingVars, links, busy>>
      /\ \/ trips' = trips
         \/ /\ tripCalls[k].op \in {"createChecklist", "setChecklistStatus"}
            /\ \E status \in ChecklistStatus :
                 trips' = [trips EXCEPT ![tripCalls[k].trip].checklist = status]
  <2>1. CASE LinkFails(k)
    BY <2>1 DEF LinkFails
  <2>2. CASE CreateChecklist(k) \/ SetChecklistStatus(k)
    <3>1. tripCalls[k].trip \in Trips
      BY <2>2, TripPendingFields DEF CreateChecklist, SetChecklistStatus, TripInv, TripTypeOK
    <3>2. trips[tripCalls[k].trip].checklist \in ChecklistStatus
      BY <3>1 DEF TripInv, TripTypeOK, Trip
    <3> QED BY <2>2, <3>1, <3>2 DEF CreateChecklist, SetChecklistStatus, ChecklistStatus
  <2> QED BY <2>1, <2>2
<1>2. UNCHANGED <<requests, assigned, proposals, lapsed, reservations, contracts, calls>>
  BY <1>1 DEF contractingVars
<1>3. /\ trips' \in [Trips -> Trip]
      /\ \A t \in Trips : trips'[t].status = trips[t].status
  <2>1. tripCalls[k].op \in {"createChecklist", "setChecklistStatus"} =>
          tripCalls[k].trip \in Trips
    BY TripPendingFields DEF TripInv, TripTypeOK
  <2>2. CASE trips' = trips
    BY <2>2 DEF TripInv, TripTypeOK
  <2>3. ASSUME NEW t \in Trips, NEW status \in ChecklistStatus,
               trips' = [trips EXCEPT ![t].checklist = status]
        PROVE  /\ trips' \in [Trips -> Trip]
               /\ \A u \in Trips : trips'[u].status = trips[u].status
    <3>1. [trips[t] EXCEPT !.checklist = status] \in Trip
      BY DEF TripInv, TripTypeOK, Trip
    <3> QED BY <2>3, <3>1 DEF TripInv, TripTypeOK, Trip
  <2> QED BY <1>1, <2>1, <2>2, <2>3
<1>4. TripTypeOK'
  BY <1>1, <1>2, <1>3, ReturnTripCalls DEF TripInv, TripTypeOK, ContractingTypeOK
<1>5. TripCallsInv'
  BY <1>1, <1>2, <1>3, ReturnTripStep
<1> QED BY <1>1, <1>2, <1>3, <1>4, <1>5, TripsFrame

\* No invariant depends on who is available.
LEMMA AvailabilityStep ==
  ASSUME TripInv, NEW c \in Capacities, SetAvailability(c)
  PROVE  TripInv'
<1>1. UNCHANGED <<contractingVars, trips, links, tripCalls>> /\ busy' \subseteq Capacities
  BY DEF SetAvailability, TripInv, TripTypeOK
<1>2. UNCHANGED <<requests, assigned, proposals, lapsed, reservations, contracts, calls>>
  BY <1>1 DEF contractingVars
<1>3. TripTypeOK' /\ TripCallsInv'
  BY <1>1, <1>2 DEF TripInv, TripTypeOK, ContractingTypeOK, TripCallsInv, TripCallHolds, Made
<1> QED BY <1>1, <1>3, TripsFrame

\* What a step that makes links has to respect.
LEMMA LinksFrame ==
  ASSUME TripInv, TripTypeOK', UNCHANGED contractingVars,
         TripCallsInv', LinksInv',
         \A t \in Trips :
           \/ trips'[t] = trips[t]
           \/ trips[t].status = "absent" /\ trips'[t].status \in Mutable,
         \A t \in Trips : trips'[t].status \in Ended =>
           \A l \in Link : l.trip = t => (l \in links' <=> l \in links)
  PROVE  TripInv'
<1>1. UNCHANGED <<requests, assigned, proposals, lapsed, reservations, contracts, calls>>
  BY DEF contractingVars
<1>2. links \subseteq Link /\ links' \subseteq Link
  BY DEF TripInv, TripTypeOK
<1>3. \A t \in Trips : trips'[t].status \in Ended <=> trips[t].status \in Ended
  BY DEF Ended, Mutable
<1>4. \A t \in Trips : trips[t].status \in Ended =>
        trips'[t] = trips[t] /\ Linked(t)' = Linked(t)
  BY <1>2, <1>3 DEF Linked, Ended, Mutable
<1>5. AcceptedInv' /\ RowsInv' /\ EndedContractFreesCapacity'
  BY <1>1 DEF TripInv, AcceptedInv, RowsInv, EndedContractFreesCapacity, Held
<1>6. OnlyItsTripFulfils'
  <2> SUFFICES ASSUME NEW v \in Reservations, contracts[v] = "fulfilled"
               PROVE  \E l \in links' :
                        l.contract = v /\ l.active /\ trips'[l.trip].status = "completed"
    BY <1>1 DEF OnlyItsTripFulfils
  <2>1. PICK l \in links :
          l.contract = v /\ l.active /\ trips[l.trip].status = "completed"
    BY DEF TripInv, OnlyItsTripFulfils
  <2>2. l \in Link /\ l.trip \in Trips
    BY <1>2 DEF Link
  <2>3. trips'[l.trip] = trips[l.trip] /\ l \in links'
    BY <1>3, <1>4, <2>1, <2>2 DEF Ended
  <2> QED BY <2>1, <2>3
<1>7. EndedTripEndsContracts'
  BY <1>1, <1>3, <1>4 DEF TripInv, EndedTripEndsContracts
<1>8. ContractedIsExplained'
  <2>1. \A v \in Reservations : RequestOf(v)' = RequestOf(v)
    BY <1>1 DEF RequestOf
  <2>2. \A t \in Trips : trips[t].status = "cancelled" =>
          trips'[t].status = "cancelled" /\ Linked(t)' = Linked(t)
    BY <1>4 DEF Ended
  <2> QED BY <1>1, <2>1, <2>2 DEF TripInv, ContractedIsExplained
<1> QED BY <1>5, <1>6, <1>7, <1>8 DEF TripInv

\* A trip takes a row nothing points at, and the contracts its call had read.
LEMMA CreateTripStep ==
  ASSUME TripInv, NEW k \in TripCalls, CreateTrip(k)
  PROVE  TripInv'
<1> DEFINE vs == tripCalls[k].contracts
           c == CapacityOf(CHOOSE v \in vs : TRUE)
<1>1. /\ tripCalls[k] \in TripPending /\ tripCalls[k].op = "create"
      /\ vs \subseteq Reservations /\ vs # {} /\ \A v \in vs : Made(v)
  BY TripPendingFields
     DEF CreateTrip, TripInv, TripTypeOK, TripCallsInv, TripCallHolds
<1>2. c \in Capacities \cup {None}
  <2>1. (CHOOSE v \in vs : TRUE) \in vs
    BY <1>1
  <2> QED BY <1>1, <2>1, MadeRests
<1> HIDE DEF c
<1>3. PICK t \in Trips, copied \in CopiedStops :
        /\ trips[t].status = "absent"
        /\ trips' = [trips EXCEPT ![t] =
             [status |-> "planned", stops |-> copied,
              checklist |-> "absent", primary |-> c, others |-> {}]]
        /\ links' = links \cup [trip: {t}, contract: vs, active: {TRUE}]
  BY DEF CreateTrip, c
<1>4. ReturnTrip(k) /\ UNCHANGED <<contractingVars, busy>>
  BY DEF CreateTrip
<1>5. UNCHANGED <<requests, assigned, proposals, lapsed, reservations, contracts, calls>>
  BY <1>4 DEF contractingVars
<1>6. /\ trips' \in [Trips -> Trip]
      /\ trips'[t].status = "planned"
      /\ \A u \in Trips : u # t => trips'[u] = trips[u]
  <2>1. copied \in [Stops -> StopStatus]
    BY DEF CopiedStops, StopStatus
  <2>2. [status |-> "planned", stops |-> copied, checklist |-> "absent",
         primary |-> c, others |-> {}] \in Trip
    BY <1>2, <2>1 DEF Trip, TripStatus, Mutable, ChecklistStatus
  <2> QED BY <1>3, <2>2 DEF TripInv, TripTypeOK
<1>7. TripTypeOK'
  BY <1>1, <1>3, <1>4, <1>5, <1>6, ReturnTripCalls
     DEF TripInv, TripTypeOK, ContractingTypeOK, Link
<1>8. TripCallsInv'
  BY <1>3, <1>4, <1>5, <1>6, ReturnTripStep DEF Mutable
<1>9. LinksInv'
  <2>1. \A l \in links : l.trip # t /\ l.trip \in Trips
    BY <1>3 DEF TripInv, LinksInv, TripTypeOK, Link
  <2> QED BY <1>1, <1>3, <1>5, <1>6, <2>1 DEF TripInv, LinksInv, Made
<1>10. \A u \in Trips : trips'[u].status \in Ended =>
         \A l \in Link : l.trip = u => (l \in links' <=> l \in links)
  BY <1>3, <1>6 DEF Ended
<1>11. /\ UNCHANGED contractingVars
       /\ \A u \in Trips :
            \/ trips'[u] = trips[u]
            \/ trips[u].status = "absent" /\ trips'[u].status \in Mutable
  BY <1>3, <1>4, <1>6 DEF Mutable
<1> QED BY <1>7, <1>8, <1>9, <1>10, <1>11, LinksFrame

\* The trip has not ended since the call read it: the call holds its lock.
LEMMA AddRequestStep ==
  ASSUME TripInv, NEW k \in TripCalls, AddRequest(k)
  PROVE  TripInv'
<1> DEFINE t == tripCalls[k].trip
           v == tripCalls[k].contract
<1>1. /\ tripCalls[k] \in TripPending /\ tripCalls[k].op = "addRequest"
      /\ t \in Trips /\ Made(v) /\ v \in Reservations
      /\ trips[t].status \in Mutable
  BY TripPendingFields
     DEF AddRequest, TripInv, TripTypeOK, TripCallsInv, TripCallHolds, Made
<1>2. /\ links' = links \cup {[trip |-> t, contract |-> v, active |-> TRUE]}
      /\ ReturnTrip(k) /\ UNCHANGED <<contractingVars, trips, busy>>
  BY DEF AddRequest
<1> HIDE DEF t, v
<1>3. UNCHANGED <<requests, assigned, proposals, lapsed, reservations, contracts, calls>>
  BY <1>2 DEF contractingVars
<1>4. TripTypeOK'
  <2>1. [trip |-> t, contract |-> v, active |-> TRUE] \in Link
    BY <1>1 DEF Link
  <2> QED BY <1>2, <1>3, <2>1, ReturnTripCalls DEF TripInv, TripTypeOK, ContractingTypeOK
<1>5. TripCallsInv'
  BY <1>2, <1>3, ReturnTripStep
<1>6. LinksInv'
  BY <1>1, <1>2, <1>3 DEF TripInv, LinksInv, Made, Mutable
<1>7. \A u \in Trips : trips'[u].status \in Ended =>
        \A l \in Link : l.trip = u => (l \in links' <=> l \in links)
  BY <1>1, <1>2 DEF Ended, Mutable
<1>8. UNCHANGED contractingVars /\ \A u \in Trips : trips'[u] = trips[u]
  BY <1>2
<1> QED BY <1>4, <1>5, <1>6, <1>7, <1>8, LinksFrame

\* A link is removed only while its trip is being planned.
LEMMA RemoveRequestStep ==
  ASSUME TripInv, NEW t \in Trips, NEW l \in links, RemoveRequest(t, l)
  PROVE  TripInv'
<1> DEFINE gone == [l EXCEPT !.active = FALSE]
<1>1. /\ l \in Link /\ l.trip = t /\ trips[t].status \in Mutable
      /\ links' = (links \ {l}) \cup {gone}
      /\ UNCHANGED <<contractingVars, trips, busy, tripCalls>>
  BY DEF RemoveRequest, Replan, TripInv, TripTypeOK
<1>2. gone \in Link /\ gone.trip = t /\ gone.contract = l.contract
  BY <1>1 DEF Link
<1> HIDE DEF gone
<1>3. UNCHANGED <<requests, assigned, proposals, lapsed, reservations, contracts, calls>>
  BY <1>1 DEF contractingVars
<1>4. TripTypeOK' /\ TripCallsInv'
  BY <1>1, <1>2, <1>3
     DEF TripInv, TripTypeOK, ContractingTypeOK, TripCallsInv, TripCallHolds, Made
<1>5. LinksInv'
  BY <1>1, <1>2, <1>3 DEF TripInv, LinksInv, Made
<1>6. \A u \in Trips : trips'[u].status \in Ended =>
        \A m \in Link : m.trip = u => (m \in links' <=> m \in links)
  BY <1>1, <1>2 DEF Ended, Mutable
<1>7. UNCHANGED contractingVars /\ \A u \in Trips : trips'[u] = trips[u]
  BY <1>1
<1> QED BY <1>4, <1>5, <1>6, <1>7, LinksFrame

\* The end of a trip: its confirmed contracts end with it and release what they
\* held; no other contract changes.
LEMMA EndTripStep ==
  ASSUME TripInv, NEW t \in Trips, ~TripLocked(t),
         trips[t].status \notin Ended \cup {"absent"},
         NEW status, NEW contract, NEW reservation,
         \/ <<status, contract, reservation>> = <<"completed", "fulfilled", "released">>
         \/ <<status, contract, reservation>> = <<"cancelled", "cancelled", "cancelled">>,
         EndTrip(t, status, contract, reservation)
  PROVE  TripInv'
<1> DEFINE vs == {v \in Linked(t) : contracts[v] = "confirmed"}
<1>1. /\ trips' = [trips EXCEPT ![t].status = status]
      /\ contracts' = [v \in Reservations |-> IF v \in vs THEN contract ELSE contracts[v]]
      /\ reservations' = [v \in Reservations |->
           IF v \in vs /\ Held(v) THEN [reservations[v] EXCEPT !.status = reservation]
                                  ELSE reservations[v]]
      /\ UNCHANGED <<requests, assigned, proposals, lapsed, calls, links, tripCalls>>
  BY DEF EndTrip, Finalize
<1>2. busy' \subseteq Capacities
  BY DEF EndTrip, FreeCrew, TripInv, TripTypeOK
<1>3. \A v \in vs : v \in Linked(t) /\ contracts[v] = "confirmed"
  OBVIOUS
<1>4. \A v \in Linked(t) : v \in Reservations /\ Made(v)
  BY LinkedBy DEF TripInv, LinksInv, Made
<1>5. vs = {v \in Linked(t) : contracts[v] = "confirmed"}
  OBVIOUS
<1> HIDE DEF vs
<1>6. \A u \in Trips : /\ trips'[u].status = IF u = t THEN status ELSE trips[u].status
                       /\ u # t => trips'[u] = trips[u]
  BY <1>1 DEF TripInv, TripTypeOK, Trip
<1>7. \A v \in Reservations :
        /\ contracts'[v] = IF v \in vs THEN contract ELSE contracts[v]
        /\ reservations'[v].proposal = reservations[v].proposal
        /\ reservations'[v].status = IF v \in vs /\ Held(v) THEN reservation
                                     ELSE reservations[v].status
  BY <1>1 DEF TripInv, TripTypeOK, ContractingTypeOK, Reservation
<1>8. TripTypeOK'
  <2>1. trips' \in [Trips -> Trip]
    BY <1>1 DEF TripInv, TripTypeOK, Trip, TripStatus, Ended
  <2>2. contracts' \in [Reservations -> ContractStatus]
    BY <1>1 DEF TripInv, TripTypeOK, ContractingTypeOK, ContractStatus
  <2>3. reservations' \in [Reservations -> Reservation]
    BY <1>1 DEF TripInv, TripTypeOK, ContractingTypeOK, Reservation
  <2> QED BY <1>1, <1>2, <2>1, <2>2, <2>3 DEF TripInv, TripTypeOK, ContractingTypeOK
<1>9. AcceptedInv'
  BY <1>1 DEF TripInv, AcceptedInv
<1>10. \A v : Made(v) => Made(v)'
  BY <1>7 DEF Made
<1>11. RowsInv'
  BY <1>1, <1>3, <1>4, <1>7 DEF TripInv, RowsInv, Held, Made
<1>12. LinksInv'
  BY <1>1, <1>6, <1>10 DEF TripInv, LinksInv, TripTypeOK, Link
<1>13. TripCallsInv'
  <2>1. \A j \in TripCalls : tripCalls[j].op = "addRequest" =>
          tripCalls[j].trip # t /\ tripCalls[j].trip \in Trips
    BY TripPendingFields DEF TripLocked, TripInv, TripTypeOK
  <2> QED BY <1>1, <1>6, <1>10, <2>1 DEF TripInv, TripCallsInv, TripCallHolds
<1>14. \A u \in Trips : Linked(u)' = Linked(u)
  BY <1>1 DEF Linked
<1>15. OnlyItsTripFulfils'
  <2> SUFFICES ASSUME NEW v \in Reservations, contracts'[v] = "fulfilled"
               PROVE  \E l \in links :
                        l.contract = v /\ l.active /\ trips'[l.trip].status = "completed"
    BY <1>1 DEF OnlyItsTripFulfils
  <2>1. CASE v \in vs
    <3>1. contract = "fulfilled" /\ status = "completed"
      BY <1>7, <2>1
    <3>2. \E l \in links : l.trip = t /\ l.active /\ l.contract = v
      BY <1>3, <2>1, LinkedBy
    <3> QED BY <1>6, <3>1, <3>2
  <2>2. CASE v \notin vs
    <3>1. PICK l \in links :
            l.contract = v /\ l.active /\ trips[l.trip].status = "completed"
      BY <1>7, <2>2 DEF TripInv, OnlyItsTripFulfils
    <3>2. l.trip \in Trips /\ l.trip # t
      BY <3>1 DEF TripInv, TripTypeOK, Link, Ended
    <3> QED BY <1>6, <3>1, <3>2
  <2> QED BY <2>1, <2>2
<1>16. EndedTripEndsContracts'
  <2> SUFFICES ASSUME NEW u \in Trips, trips'[u].status \in Ended, NEW v \in Linked(u)
               PROVE  contracts'[v] # "confirmed"
    BY <1>14 DEF EndedTripEndsContracts
  <2>1. v \in Reservations
    BY LinkedBy DEF TripInv, LinksInv, Made
  <2>2. CASE u = t
    BY <1>5, <1>7, <2>1, <2>2
  <2>3. CASE u # t
    BY <1>6, <1>7, <2>1, <2>3 DEF TripInv, EndedTripEndsContracts
  <2> QED BY <2>2, <2>3
<1>17. EndedContractFreesCapacity'
  BY <1>7 DEF TripInv, EndedContractFreesCapacity, Held
<1>18. ContractedIsExplained'
  <2> SUFFICES ASSUME NEW r \in Requests, requests[r] = "contracted"
               PROVE  \E v \in Reservations :
                        /\ contracts'[v] # "none" /\ RequestOf(v)' = r
                        /\ \/ contracts'[v] \in {"confirmed", "fulfilled"}
                           \/ contracts'[v] = "cancelled"
                              /\ \E u \in Trips : trips'[u].status = "cancelled"
                                                  /\ v \in Linked(u)
    BY <1>1, <1>14 DEF ContractedIsExplained
  <2>1. PICK v \in Reservations :
          /\ contracts[v] # "none" /\ RequestOf(v) = r
          /\ \/ contracts[v] \in {"confirmed", "fulfilled"}
             \/ contracts[v] = "cancelled"
                /\ \E u \in Trips : trips[u].status = "cancelled" /\ v \in Linked(u)
    BY DEF TripInv, ContractedIsExplained
  <2>2. RequestOf(v)' = r
    BY <1>1, <1>7, <2>1 DEF RequestOf
  <2>3. CASE v \in vs
    BY <1>3, <1>6, <1>7, <2>2, <2>3
  <2>4. CASE v \notin vs
    <3>1. \A u \in Trips : trips[u].status = "cancelled" => trips'[u].status = "cancelled"
      BY <1>6 DEF Ended
    <3> QED BY <1>7, <2>1, <2>2, <2>4, <3>1
  <2> QED BY <2>3, <2>4
<1> QED BY <1>8, <1>9, <1>11, <1>12, <1>13, <1>15, <1>16, <1>17, <1>18 DEF TripInv

\* Both ends of a trip.
LEMMA TripEnds ==
  ASSUME TripInv, NEW t \in Trips, CompleteTrip(t) \/ CancelTrip(t)
  PROVE  TripInv'
<1>1. ~TripLocked(t) /\ trips[t].status \notin Ended \cup {"absent"}
  BY DEF CompleteTrip, CancelTrip, Mutable, Operational, Ended
<1>2. CASE CompleteTrip(t)
  BY <1>1, <1>2, EndTripStep DEF CompleteTrip
<1>3. CASE CancelTrip(t)
  BY <1>1, <1>3, EndTripStep DEF CancelTrip
<1> QED BY <1>2, <1>3

\* Releasing a reservation keeps the proposal it rests on.
LEMMA TripReleased ==
  ASSUME TripInv, NEW v \in Reservations, Held(v), Release(v)
  PROVE  /\ reservations' \in [Reservations -> Reservation]
         /\ \A w \in Reservations :
              /\ reservations'[w].proposal = reservations[w].proposal
              /\ reservations'[w].status =
                   IF w = v THEN "cancelled" ELSE reservations[w].status
BY DEF TripInv, TripTypeOK, ContractingTypeOK, Release, Held, Reservation

\* The calls that change reservations and contracts, seen from the trips: a
\* contract that was made is confirmed no second time.
LEMMA ContractSteps ==
  ASSUME TripInv, NEW v \in Reservations, UNCHANGED tripVars,
         CancelReservation(v) \/ Confirm(v) \/ Refuse(v) \/ CancelContract(v)
  PROVE  TripInv'
<1>1. UNCHANGED <<trips, links, busy, tripCalls>>
  BY DEF tripVars
<1>2. UNCHANGED <<assigned, proposals, lapsed, calls>>
  BY DEF CancelReservation, Confirm, Refuse, CancelContract
<1>3. \/ reservations' = reservations
      \/ /\ Held(v) /\ Release(v)
  BY DEF CancelReservation, Confirm, Refuse, CancelContract, Contractable
<1>4. /\ reservations' \in [Reservations -> Reservation]
      /\ \A w \in Reservations :
           /\ reservations'[w].proposal = reservations[w].proposal
           /\ reservations'[w].status \in {reservations[w].status, "cancelled"}
           /\ reservations[w].status = "absent" <=> reservations'[w].status = "absent"
  BY <1>3, TripReleased DEF TripInv, TripTypeOK, ContractingTypeOK, Held
<1>5. \A w \in Reservations : RequestOf(w)' = RequestOf(w)
  BY <1>2, <1>4 DEF RequestOf
<1>6. \A u \in Trips : Linked(u)' = Linked(u)
  BY <1>1 DEF Linked
<1>7. ASSUME NEW after \in ContractStatus \ {"none", "fulfilled"},
             contracts' = [contracts EXCEPT ![v] = after],
             contracts[v] \in {"none", "confirmed"},
             after \in {"confirmed", "refused"} => contracts[v] = "none",
             reservations[v].status # "absent",
             after \in {"refused", "cancelled"} => reservations'[v].status = "cancelled",
             requests' \in [Requests -> RequestStatus],
             ContractedIsExplained'
      PROVE  TripInv'
  <2>1. /\ contracts' \in [Reservations -> ContractStatus]
        /\ \A w \in Reservations : contracts'[w] = IF w = v THEN after ELSE contracts[w]
    BY <1>7 DEF TripInv, TripTypeOK, ContractingTypeOK
  <2>2. TripTypeOK'
    BY <1>1, <1>2, <1>4, <1>7, <2>1 DEF TripInv, TripTypeOK, ContractingTypeOK
  <2>3. AcceptedInv' /\ RowsInv'
    BY <1>2, <1>4, <1>7, <2>1 DEF TripInv, AcceptedInv, RowsInv
  <2>4. EndedContractFreesCapacity'
    BY <1>4, <1>7, <2>1 DEF TripInv, EndedContractFreesCapacity, Held
  <2>5. \A w \in Reservations : Made(w) => Made(w)'
    BY <1>7, <2>1 DEF Made, ContractStatus
  <2> QED BY <1>7, <2>1, <2>2, <2>3, <2>4, <2>5, ContractsFrame
<1>8. CASE CancelReservation(v)
  <2>1. UNCHANGED <<contracts, requests>>
    BY <1>8 DEF CancelReservation
  <2>2. TripTypeOK'
    BY <1>1, <1>2, <1>4, <2>1 DEF TripInv, TripTypeOK, ContractingTypeOK
  <2>3. AcceptedInv' /\ RowsInv'
    BY <1>2, <1>4, <2>1 DEF TripInv, AcceptedInv, RowsInv
  <2>4. EndedContractFreesCapacity'
    BY <1>4, <2>1 DEF TripInv, EndedContractFreesCapacity, Held
  <2>5. ContractedIsExplained'
    BY <1>1, <1>5, <1>6, <2>1 DEF TripInv, ContractedIsExplained
  <2> QED BY <2>1, <2>2, <2>3, <2>4, <2>5, ContractsFrame DEF Made
<1>9. CASE Confirm(v)
  <2>1. /\ contracts[v] = "none" /\ Held(v)
        /\ contracts' = [contracts EXCEPT ![v] = "confirmed"]
        /\ requests' = [requests EXCEPT ![RequestOf(v)] = "contracted"]
    BY <1>9 DEF Confirm, Contractable
  <2>2. /\ requests' \in [Requests -> RequestStatus]
        /\ \A r \in Requests : r # RequestOf(v) => requests'[r] = requests[r]
        /\ \A w \in Reservations :
             contracts'[w] = IF w = v THEN "confirmed" ELSE contracts[w]
    BY <2>1 DEF TripInv, TripTypeOK, ContractingTypeOK, RequestStatus
  <2>3. ContractedIsExplained'
    BY <1>1, <1>5, <1>6, <2>1, <2>2 DEF TripInv, ContractedIsExplained
  <2> QED BY <1>7, <2>1, <2>2, <2>3 DEF ContractStatus, Held
<1>10. CASE Refuse(v)
  <2>1. /\ contracts[v] = "none" /\ Held(v) /\ Release(v) /\ UNCHANGED requests
        /\ contracts' = [contracts EXCEPT ![v] = "refused"]
    BY <1>10 DEF Refuse, Contractable
  <2>2. /\ requests' \in [Requests -> RequestStatus]
        /\ \A w \in Reservations : w # v => contracts'[w] = contracts[w]
        /\ reservations'[v].status = "cancelled"
    BY <2>1, TripReleased DEF TripInv, TripTypeOK, ContractingTypeOK
  <2>3. ContractedIsExplained'
    BY <1>1, <1>5, <1>6, <2>1, <2>2 DEF TripInv, ContractedIsExplained
  <2> QED BY <1>7, <2>1, <2>2, <2>3 DEF ContractStatus, Held
<1>11. CASE CancelContract(v)
  <2>1. /\ contracts[v] = "confirmed" /\ Held(v) /\ Release(v)
        /\ contracts' = [contracts EXCEPT ![v] = "cancelled"]
        /\ requests' = [requests EXCEPT ![RequestOf(v)] = "in_negotiation"]
    BY <1>11 DEF CancelContract
  <2>2. /\ requests' \in [Requests -> RequestStatus]
        /\ \A r \in Requests :
             requests'[r] = IF r = RequestOf(v) THEN "in_negotiation" ELSE requests[r]
        /\ \A w \in Reservations : w # v => contracts'[w] = contracts[w]
        /\ reservations'[v].status = "cancelled"
    BY <2>1, TripReleased DEF TripInv, TripTypeOK, ContractingTypeOK, RequestStatus
  <2>3. ContractedIsExplained'
    BY <1>1, <1>5, <1>6, <2>1, <2>2 DEF TripInv, ContractedIsExplained
  <2> QED BY <1>7, <2>1, <2>2, <2>3 DEF ContractStatus, Held
<1> QED BY <1>8, <1>9, <1>10, <1>11

\* An approval makes a reservation that no contract and no link knows yet.
LEMMA ApprovalSteps ==
  ASSUME TripInv, NEW k \in Calls, UNCHANGED tripVars,
         (\E p \in Proposals : CheckApprove(k, p)) \/ Approve(k) \/ ApproveConflicts(k)
  PROVE  TripInv'
<1>1. UNCHANGED <<trips, links, busy, tripCalls>>
  BY DEF tripVars
<1>2. UNCHANGED <<requests, assigned, proposals, lapsed, contracts>>
  BY DEF CheckApprove, Check, Approve, ApproveConflicts
<1>3. /\ calls' \in [Calls -> Pending]
      /\ \A l \in Calls : calls'[l] \in {Idle} \cup [op: {"approve"}, proposal: Proposals]
  <2>1. \E pending \in {Idle} \cup [op: {"approve"}, proposal: Proposals] :
          calls' = [calls EXCEPT ![k] = pending]
    BY DEF CheckApprove, Check, Approve, ApproveConflicts, Return
  <2> QED BY <2>1 DEF TripInv, TripTypeOK, ContractingTypeOK, AcceptedInv, Pending
<1>4. \/ reservations' = reservations
      \/ \E v \in Reservations, p \in Proposals :
           /\ reservations[v].status = "absent"
           /\ reservations' = [reservations EXCEPT ![v] = [status |-> "active", proposal |-> p]]
  <2>1. calls[k].op = "approve" => calls[k].proposal \in Proposals
    BY DEF TripInv, AcceptedInv, Idle
  <2> QED BY <2>1 DEF CheckApprove, Check, Approve, ApproveConflicts
<1>5. /\ reservations' \in [Reservations -> Reservation]
      /\ \A v \in Reservations :
           \/ reservations'[v] = reservations[v]
           \/ /\ reservations[v].status = "absent"
              /\ reservations'[v].status = "active"
              /\ reservations'[v].proposal \in Proposals
  BY <1>4 DEF TripInv, TripTypeOK, ContractingTypeOK, Reservation
<1>6. \A v \in Reservations : contracts[v] # "none" => reservations'[v] = reservations[v]
  BY <1>5 DEF TripInv, RowsInv
<1>7. TripTypeOK' /\ AcceptedInv'
  BY <1>1, <1>2, <1>3, <1>5 DEF TripInv, TripTypeOK, ContractingTypeOK, AcceptedInv
<1>8. RowsInv'
  BY <1>2, <1>5 DEF TripInv, RowsInv, AcceptedInv
<1>9. EndedContractFreesCapacity'
  BY <1>2, <1>6 DEF TripInv, EndedContractFreesCapacity, Held
<1>10. ContractedIsExplained'
  <2>1. \A v \in Reservations : contracts[v] # "none" => RequestOf(v)' = RequestOf(v)
    BY <1>2, <1>6 DEF RequestOf
  <2> QED BY <1>1, <1>2, <2>1 DEF TripInv, ContractedIsExplained, Linked
<1> QED BY <1>2, <1>7, <1>8, <1>9, <1>10, ContractsFrame DEF Made

\* One step, whichever call takes it.
LEMMA LifecycleStep ==
  ASSUME TripInv, [LifecycleNext]_lifecycleVars
  PROVE  TripInv'
<1>1. CASE UNCHANGED lifecycleVars
  <2>1. UNCHANGED <<contractingVars, tripVars>>
    BY <1>1 DEF lifecycleVars
  <2>2. UNCHANGED <<requests, assigned, proposals, lapsed, reservations, contracts, calls,
                    trips, links, busy, tripCalls>>
    BY <2>1 DEF contractingVars, tripVars
  <2>3. TripTypeOK' /\ TripCallsInv'
    BY <2>2 DEF TripInv, TripTypeOK, ContractingTypeOK, TripCallsInv, TripCallHolds, Made
  <2> QED BY <2>1, <2>2, <2>3, TripsFrame
<1>2. CASE TripNext
  <2>1. ASSUME NEW k \in TripCalls,
               \/ CheckCreateTrip(k)
               \/ \E t \in Trips :
                    CheckCreateChecklist(k, t) \/ CheckSetChecklistStatus(k, t)
               \/ \E t \in Trips, v \in Reservations : CheckAddRequest(k, t, v)
        PROVE  TripInv'
    BY <2>1, TripChecksStep
  <2>2. ASSUME NEW k \in TripCalls,
               \/ CreateTrip(k) \/ AddRequest(k) \/ LinkFails(k)
               \/ CreateChecklist(k) \/ SetChecklistStatus(k)
        PROVE  TripInv'
    BY <2>2, CreateTripStep, AddRequestStep, ChecklistStep
  <2>3. ASSUME NEW c \in Capacities, SetAvailability(c) PROVE TripInv'
    BY <2>3, AvailabilityStep
  <2>4. ASSUME NEW t \in Trips, CompleteTrip(t) \/ CancelTrip(t) PROVE TripInv'
    BY <2>4, TripEnds
  <2>5. ASSUME NEW t \in Trips, NEW l \in links, RemoveRequest(t, l) PROVE TripInv'
    BY <2>5, RemoveRequestStep
  <2>6. ASSUME NEW t \in Trips,
               \/ SetTripReady(t) \/ SetTripInTransit(t)
               \/ \E c \in Capacities : AddToCrew(t, c)
               \/ \E s \in Stops :
                    \/ AddStop(t, s)
                    \/ \E type \in {"arrival", "departure", "pickup", "delivery"} :
                         CreateCheckin(t, s, type)
        PROVE  TripInv'
    BY <2>6, TripMoves
  <2> QED BY <1>2, <2>1, <2>2, <2>3, <2>4, <2>5, <2>6 DEF TripNext
<1>3. CASE Contract /\ UNCHANGED tripVars
  BY <1>3, ContractSteps, ApprovalSteps DEF Contract
<1> QED BY <1>1, <1>2, <1>3 DEF LifecycleNext

-----------------------------------------------------------------------------
(* Theorems *)

\* The invariant is inductive: a pending call is right about the contracts it
\* read and the trip it holds, and trips, links and contracts agree.
THEOREM TripInvariant == LifecycleSpec => []TripInv
<1>1. TripInit => TripInv
  BY TripInitStep
<1>2. TripInv /\ [LifecycleNext]_lifecycleVars => TripInv'
  BY LifecycleStep
<1> QED BY <1>1, <1>2, PTL DEF LifecycleSpec

\* Every row of a trip, every link and every call in flight keeps its type.
THEOREM TripTypes == LifecycleSpec => []TripTypeOK
<1>1. TripInv => TripTypeOK
  BY DEF TripInv
<1> QED BY <1>1, TripInvariant, PTL

\* A fulfilled contract is carried by a completed trip, and what a completed trip
\* carries is fulfilled or was cancelled before, however many links were made and
\* removed meanwhile.
THEOREM FulfilledByTrip == LifecycleSpec => []FulfilledByItsTrip
<1>1. TripInv => FulfilledByItsTrip
  <2> SUFFICES ASSUME TripInv, NEW l \in links, l.active, trips[l.trip].status = "completed"
               PROVE  contracts[l.contract] \in {"fulfilled", "cancelled"}
    BY DEF TripInv, OnlyItsTripFulfils, FulfilledByItsTrip
  <2>1. Made(l.contract) /\ l.trip \in Trips
    BY DEF TripInv, LinksInv, TripTypeOK, Link
  <2>2. l.contract \in Linked(l.trip)
    BY LinkedBy
  <2> QED BY <2>1, <2>2 DEF TripInv, EndedTripEndsContracts, Ended, Made
<1> QED BY <1>1, TripInvariant, PTL

\* However a call that adds a contract overlaps the end of its trip, no ended
\* trip has a confirmed contract.
THEOREM EndedEndsContracts == LifecycleSpec => []EndedTripEndsContracts
<1>1. TripInv => EndedTripEndsContracts
  BY DEF TripInv
<1> QED BY <1>1, TripInvariant, PTL

\* With trips that end contracts beside the negotiation, an ended contract
\* still never holds its capacity.
THEOREM EndedFreesUnderTrips == LifecycleSpec => []EndedContractFreesCapacity
<1>1. TripInv => EndedContractFreesCapacity
  BY DEF TripInv
<1> QED BY <1>1, TripInvariant, PTL

\* A contracted request always has a contract that answers for it.
THEOREM ContractedExplained == LifecycleSpec => []ContractedIsExplained
<1>1. TripInv => ContractedIsExplained
  BY DEF TripInv
<1> QED BY <1>1, TripInvariant, PTL
================================================================================
