------------------------------ MODULE Contracting ------------------------------
(***************************************************************************)
(* From a transport request to a contract: freight proposals and           *)
(* counterproposals, the reservation of the accepted capacity, and the     *)
(* contract confirmed, refused or cancelled on it.                         *)
(*                                                                         *)
(* Every call is a READ COMMITTED transaction.  A call whose checks read   *)
(* rows that its writes do not check again is two steps, and other calls   *)
(* run between them unless they share an advisory lock.  A call whose      *)
(* writes repeat the checks in their WHERE clauses, or whose checks read   *)
(* only what its locks protect, is one step: cancel of a reservation and   *)
(* confirm, refuse and cancel of a contract hold the reservation's lock.   *)
(***************************************************************************)
EXTENDS FiniteSets, TLC

CONSTANTS
  Requests,      \* rows of transport_requests
  Capacities,    \* rows of capacity_assignments: a driver and a vehicle each
  Proposals,     \* rows of freight_proposals
  Reservations,  \* rows of capacity_reservations
  Calls,         \* two-step calls that may be in flight together
  None

ASSUME ContractingAssumption ==
  None \notin Requests \cup Capacities \cup Proposals

VARIABLES
  requests,      \* status of each request
  assigned,      \* the capacities whose assignment is active and qualified
  proposals,     \* each proposal: what it offers and its latest event
  lapsed,        \* the proposals whose expires_at has passed
  reservations,  \* each reservation: the proposal it rests on, its status
  contracts,     \* status of the one contract a reservation may have
  calls          \* what each two-step call has read and is about to write

contractingVars ==
  <<requests, assigned, proposals, lapsed, reservations, contracts, calls>>

\* The column also admits 'cancelled', which no call writes.  A contract is
\* fulfilled and its reservation released by the trip that completes.
RequestStatus ==
  {"absent", "draft", "ready_for_quote", "in_negotiation", "contracted"}
Decided == {"accepted", "rejected", "expired"}
ProposalStatus == {"absent", "open"} \cup Decided
ContractStatus == {"none", "confirmed", "refused", "cancelled", "fulfilled"}

Proposal == [status: ProposalStatus, request: Requests \cup {None},
             capacity: Capacities \cup {None}, parent: Proposals \cup {None}]
Reservation == [status: {"absent", "active", "cancelled", "released"},
                proposal: Proposals \cup {None}]

Idle == [op |-> "none"]
Pending ==
  {Idle} \cup [op: {"update"}, request: Requests, status: RequestStatus]
         \cup [op: {"create"}, request: Requests, capacity: Capacities]
         \cup [op: {"counterproposal"}, proposal: Proposals]
         \cup [op: {"setStatus"}, proposal: Proposals, status: Decided]
         \cup [op: {"approve"}, proposal: Proposals]

ContractingTypeOK ==
  /\ requests \in [Requests -> RequestStatus]
  /\ assigned \subseteq Capacities
  /\ proposals \in [Proposals -> Proposal]
  /\ lapsed \subseteq Proposals
  /\ reservations \in [Reservations -> Reservation]
  /\ contracts \in [Reservations -> ContractStatus]
  /\ calls \in [Calls -> Pending]

\* The capacities are assigned before any proposal names them.
ContractingInit ==
  /\ requests = [r \in Requests |-> "absent"]
  /\ assigned = Capacities
  /\ proposals = [p \in Proposals |->
       [status |-> "absent", request |-> None, capacity |-> None, parent |-> None]]
  /\ lapsed = {}
  /\ reservations = [v \in Reservations |-> [status |-> "absent", proposal |-> None]]
  /\ contracts = [v \in Reservations |-> "none"]
  /\ calls = [k \in Calls |-> Idle]

RequestOf(v) == proposals[reservations[v].proposal].request
CapacityOf(v) == proposals[reservations[v].proposal].capacity

Negotiable(r) == requests[r] \in {"ready_for_quote", "in_negotiation"}
Held(v) == reservations[v].status = "active"

Check(k, ready, pending) ==
  /\ calls[k] = Idle
  /\ ready
  /\ calls' = [calls EXCEPT ![k] = pending]
  /\ UNCHANGED <<requests, assigned, proposals, lapsed, reservations, contracts>>

Return(k) == calls' = [calls EXCEPT ![k] = Idle]

-----------------------------------------------------------------------------
(* Transport requests and capacity *)

CreateRequest(r) ==
  /\ requests[r] = "absent"
  /\ \E status \in {"draft", "ready_for_quote"} :
       requests' = [requests EXCEPT ![r] = status]
  /\ UNCHANGED <<assigned, proposals, lapsed, reservations, contracts, calls>>

\* Fault: the caller may choose any status of the column.
CheckUpdateRequestAny(k, r) ==
  Check(k, requests[r] \in {"draft", "ready_for_quote"},
        [op |-> "update", request |-> r, status |-> "cancelled"])

\* The row is read without a lock; the caller may choose a status only before
\* negotiation, and otherwise the one just read is written back.
CheckUpdateRequest(k, r) ==
  \/ \E status \in {"draft", "ready_for_quote"} :
       Check(k, requests[r] \in {"draft", "ready_for_quote"},
             [op |-> "update", request |-> r, status |-> status])
  \/ Check(k, requests[r] = "in_negotiation",
           [op |-> "update", request |-> r, status |-> "in_negotiation"])

UpdateRequest(k) ==
  /\ calls[k].op = "update"
  /\ requests' = [requests EXCEPT ![calls[k].request] = calls[k].status]
  /\ Return(k)
  /\ UNCHANGED <<assigned, proposals, lapsed, reservations, contracts>>

CloseAssignment(c) ==
  /\ c \in assigned
  /\ assigned' = assigned \ {c}
  /\ UNCHANGED <<requests, proposals, lapsed, reservations, contracts, calls>>

-----------------------------------------------------------------------------
(* Freight proposals.  counterproposal and setStatus lock the proposal     *)
(* they decide, and so can assume what they read of it.                    *)

\* Fault: no call takes the lock of a proposal.
NeverLocked(p) == FALSE

Locked(p) ==
  \E k \in Calls : calls[k].op \in {"counterproposal", "setStatus"}
                   /\ calls[k].proposal = p

Undecided(p) ==
  /\ ~Locked(p)
  /\ proposals[p].status = "open"
  /\ Negotiable(proposals[p].request)

\* An expires_at is optional, and only time passes it.
Lapse(p) ==
  /\ proposals[p].status # "absent" /\ p \notin lapsed
  /\ lapsed' = lapsed \cup {p}
  /\ UNCHANGED <<requests, assigned, proposals, reservations, contracts, calls>>

CheckCreateProposal(k, r, c) ==
  Check(k, Negotiable(r) /\ c \in assigned,
        [op |-> "create", request |-> r, capacity |-> c])

CreateProposal(k) ==
  /\ calls[k].op = "create"
  /\ \E p \in Proposals :
       /\ proposals[p].status = "absent"
       /\ proposals' = [proposals EXCEPT ![p] =
            [status |-> "open", request |-> calls[k].request,
             capacity |-> calls[k].capacity, parent |-> None]]
  /\ Return(k)
  /\ UNCHANGED <<requests, assigned, lapsed, reservations, contracts>>

CheckCounterproposal(k, p) ==
  Check(k, Undecided(p) /\ proposals[p].capacity \in assigned,
        [op |-> "counterproposal", proposal |-> p])

\* Fault: the parent is left open beside its counterproposal.
CounterproposalOnly(k) ==
  LET parent == calls[k].proposal IN
  /\ calls[k].op = "counterproposal"
  /\ \E p \in Proposals :
       /\ proposals[p].status = "absent"
       /\ proposals' = [proposals EXCEPT
            ![p] = [proposals[parent] EXCEPT !.parent = parent]]
  /\ Return(k)
  /\ UNCHANGED <<requests, assigned, lapsed, reservations, contracts>>

\* The parent is rejected as superseded; its expiry is not looked at.
Counterproposal(k) ==
  LET parent == calls[k].proposal IN
  /\ calls[k].op = "counterproposal"
  /\ \E p \in Proposals :
       /\ proposals[p].status = "absent"
       /\ proposals' = [proposals EXCEPT
            ![p] = [proposals[parent] EXCEPT !.parent = parent],
            ![parent].status = "rejected"]
  /\ Return(k)
  /\ UNCHANGED <<requests, assigned, lapsed, reservations, contracts>>

\* A lapsed proposal can only be expired.
CheckSetStatus(k, p) ==
  \E status \in Decided :
    Check(k, Undecided(p) /\ (p \in lapsed => status = "expired"),
          [op |-> "setStatus", proposal |-> p, status |-> status])

SetStatus(k) ==
  /\ calls[k].op = "setStatus"
  /\ proposals' = [proposals EXCEPT ![calls[k].proposal].status = calls[k].status]
  /\ Return(k)
  /\ UNCHANGED <<requests, assigned, lapsed, reservations, contracts>>

-----------------------------------------------------------------------------
(* Capacity reservations *)

\* approve locks the request and the capacity of its proposal against other
\* approvals.
Contended(p) ==
  \E k \in Calls :
    /\ calls[k].op = "approve"
    /\ \/ proposals[calls[k].proposal].request = proposals[p].request
       \/ proposals[calls[k].proposal].capacity = proposals[p].capacity

Reservable(p) ==
  /\ proposals[p].status = "accepted"
  /\ Negotiable(proposals[p].request)
  /\ p \notin lapsed
  /\ proposals[p].capacity \in assigned

CheckApprove(k, p) ==
  Check(k, Reservable(p) /\ ~Contended(p), [op |-> "approve", proposal |-> p])

\* The partial unique indexes over active reservations.
Taken(p) ==
  \E v \in Reservations :
    Held(v) /\ (\/ RequestOf(v) = proposals[p].request
                \/ CapacityOf(v) = proposals[p].capacity)

Approve(k) ==
  /\ calls[k].op = "approve" /\ ~Taken(calls[k].proposal)
  /\ \E v \in Reservations :
       /\ reservations[v].status = "absent"
       /\ reservations' = [reservations EXCEPT ![v] =
            [status |-> "active", proposal |-> calls[k].proposal]]
  /\ Return(k)
  /\ UNCHANGED <<requests, assigned, proposals, lapsed, contracts>>

\* The insert meets a unique index and the call fails.
ApproveConflicts(k) ==
  /\ calls[k].op = "approve" /\ Taken(calls[k].proposal)
  /\ Return(k)
  /\ UNCHANGED <<requests, assigned, proposals, lapsed, reservations, contracts>>

\* Fault: a contract ends and its reservation is left as it is.
ReleaseNothing(v) == reservations' = reservations

Release(v) == reservations' = [reservations EXCEPT ![v].status = "cancelled"]

CancelReservation(v) ==
  /\ Held(v)
  /\ Release(v)
  /\ UNCHANGED <<requests, assigned, proposals, lapsed, contracts, calls>>

-----------------------------------------------------------------------------
(* Transport contracts *)

\* validateContractSource and the unique index on the reservation.
Contractable(v) ==
  /\ Held(v) /\ contracts[v] = "none"
  /\ proposals[reservations[v].proposal].status = "accepted"
  /\ Negotiable(RequestOf(v))

\* Fault: the indexes over confirmed contracts do not exist.
NeverCommitted(v) == FALSE

\* The partial unique indexes over confirmed contracts.
Committed(v) ==
  \E w \in Reservations :
    contracts[w] = "confirmed" /\ (\/ RequestOf(w) = RequestOf(v)
                                   \/ CapacityOf(w) = CapacityOf(v))

Confirm(v) ==
  /\ Contractable(v) /\ ~Committed(v)
  /\ contracts' = [contracts EXCEPT ![v] = "confirmed"]
  /\ requests' = [requests EXCEPT ![RequestOf(v)] = "contracted"]
  /\ UNCHANGED <<assigned, proposals, lapsed, reservations, calls>>

Refuse(v) ==
  /\ Contractable(v)
  /\ contracts' = [contracts EXCEPT ![v] = "refused"]
  /\ Release(v)
  /\ UNCHANGED <<requests, assigned, proposals, lapsed, calls>>

\* Fault: the request of a cancelled contract is left contracted.
CancelContractOnly(v) ==
  /\ contracts[v] = "confirmed"
  /\ Held(v)
  /\ contracts' = [contracts EXCEPT ![v] = "cancelled"]
  /\ Release(v)
  /\ UNCHANGED <<requests, assigned, proposals, lapsed, calls>>

\* Each of the three updates finds its row in the expected status, or all
\* are rolled back.
CancelContract(v) ==
  /\ contracts[v] = "confirmed"
  /\ Held(v)
  /\ requests[RequestOf(v)] = "contracted"
  /\ contracts' = [contracts EXCEPT ![v] = "cancelled"]
  /\ Release(v)
  /\ requests' = [requests EXCEPT ![RequestOf(v)] = "in_negotiation"]
  /\ UNCHANGED <<assigned, proposals, lapsed, calls>>

-----------------------------------------------------------------------------
ContractingNext ==
  \/ \E r \in Requests : CreateRequest(r)
  \/ \E c \in Capacities : CloseAssignment(c)
  \/ \E p \in Proposals : Lapse(p)
  \/ \E v \in Reservations :
       CancelReservation(v) \/ Confirm(v) \/ Refuse(v) \/ CancelContract(v)
  \/ \E k \in Calls :
       \/ \E r \in Requests : CheckUpdateRequest(k, r)
       \/ \E r \in Requests, c \in Capacities : CheckCreateProposal(k, r, c)
       \/ \E p \in Proposals :
            CheckCounterproposal(k, p) \/ CheckSetStatus(k, p) \/ CheckApprove(k, p)
       \/ UpdateRequest(k) \/ CreateProposal(k) \/ Counterproposal(k)
       \/ SetStatus(k) \/ Approve(k) \/ ApproveConflicts(k)

ContractingSpec == ContractingInit /\ [][ContractingNext]_contractingVars

\* The rows of a table are alike, and so are the calls.
AlikeRows == UNION {Permutations(S) :
           S \in {Requests, Capacities, Proposals, Reservations, Calls}}

-----------------------------------------------------------------------------
(* Properties *)

\* A proposal is decided once: of a decision and a counterproposal made at
\* the same time, one fails.
DecisionsAreFinal ==
  [][\A p \in Proposals :
       proposals[p].status \in Decided => proposals'[p] = proposals[p]]_contractingVars

\* A chain of counterproposals has one live offer, its last: what has been
\* countered is rejected, and so can be neither accepted nor reserved.
CounteredIsRejected ==
  \A p \in Proposals :
    proposals[p].parent # None => proposals[proposals[p].parent].status = "rejected"

\* A request shown as contracted has exactly one confirmed contract, whatever
\* edits, cancellations and repeated approvals ran on it.
ContractedIsBacked ==
  \A r \in Requests :
    requests[r] = "contracted" =>
      Cardinality({v \in Reservations :
        contracts[v] = "confirmed" /\ RequestOf(v) = r}) = 1

\* A contract that ended, by its own call or by its trip, holds no capacity
\* back.
EndedContractFreesCapacity ==
  \A v \in Reservations :
    contracts[v] \in {"refused", "cancelled", "fulfilled"} => ~Held(v)

\* "An accepted proposal + active reservation + resulting transport contract":
\* the capacity of a confirmed contract is reserved for it.
ConfirmedHoldsCapacity ==
  \A v \in Reservations : contracts[v] = "confirmed" => Held(v)
=============================================================================
