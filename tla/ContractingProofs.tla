-------------------------- MODULE ContractingProofs --------------------------
(***************************************************************************)
(* Proofs about Contracting for any requests, capacities, proposals and    *)
(* reservations and any number of calls in flight.                         *)
(*                                                                         *)
(* The calls in flight are what makes the properties hard: a call writes   *)
(* on the strength of what it read some steps ago.  The invariant says, of *)
(* each pending call, what is still true of what it read, and that no two  *)
(* calls decide one proposal; everything else follows row by row.          *)
(***************************************************************************)
EXTENDS Contracting, FiniteSetTheorems, TLAPS

Deciding(call) == call.op \in {"counterproposal", "setStatus"}

\* What a pending call may still rely on when it writes.
CallHolds(call) ==
  /\ Deciding(call) => proposals[call.proposal].status = "open"
  /\ call.op = "approve" => proposals[call.proposal].status # "absent"
  /\ call.op = "update" => call.status # "contracted"

CallsInv ==
  /\ \A k \in Calls : CallHolds(calls[k])
  /\ \A k, l \in Calls :
       Deciding(calls[k]) /\ Deciding(calls[l])
         /\ calls[k].proposal = calls[l].proposal => k = l

\* The rows a reservation and a contract rest on exist.
RowsInv ==
  \A v \in Reservations :
    /\ contracts[v] # "none" => reservations[v].status # "absent"
    /\ reservations[v].status # "absent" =>
         /\ reservations[v].proposal \in Proposals
         /\ proposals[reservations[v].proposal].status # "absent"

\* ContractedIsBacked without counting: there is a contract, and there are
\* never two.
OneContract ==
  /\ \A v, w \in Reservations :
       contracts[v] = "confirmed" /\ contracts[w] = "confirmed"
         /\ RequestOf(v) = RequestOf(w) => v = w
  /\ \A r \in Requests :
       requests[r] = "contracted" =>
         \E v \in Reservations : contracts[v] = "confirmed" /\ RequestOf(v) = r

ContractingInv ==
  /\ ContractingTypeOK
  /\ CallsInv
  /\ RowsInv
  /\ CounteredIsRejected
  /\ EndedContractFreesCapacity
  /\ OneContract

-----------------------------------------------------------------------------
(* Lemmas about the operators *)

\* The fields a pending call has, by its operation.
LEMMA PendingFields ==
  ASSUME NEW call \in Pending
  PROVE  /\ Deciding(call) => call.proposal \in Proposals
         /\ call.op = "approve" => call.proposal \in Proposals
         /\ call.op = "setStatus" => call.status \in Decided
         /\ call.op = "update" =>
              call.request \in Requests /\ call.status \in RequestStatus
         /\ call.op = "create" =>
              call.request \in Requests /\ call.capacity \in Capacities
BY DEF Pending, Idle, Deciding

\* One confirmed contract, counted.
LEMMA BackedByOne == OneContract => ContractedIsBacked
<1> SUFFICES ASSUME OneContract, NEW r \in Requests, requests[r] = "contracted"
             PROVE  Cardinality({v \in Reservations :
                      contracts[v] = "confirmed" /\ RequestOf(v) = r}) = 1
  BY DEF ContractedIsBacked
<1>1. PICK v \in Reservations : contracts[v] = "confirmed" /\ RequestOf(v) = r
  BY DEF OneContract
<1>2. {w \in Reservations : contracts[w] = "confirmed" /\ RequestOf(w) = r} = {v}
  BY <1>1 DEF OneContract
<1> QED BY <1>2, FS_Singleton

-----------------------------------------------------------------------------
(* Steps *)

\* The initial state satisfies the invariant.
LEMMA InitStep == ContractingInit => ContractingInv
<1> SUFFICES ASSUME ContractingInit PROVE ContractingInv
  OBVIOUS
<1>1. ContractingTypeOK
  BY DEF ContractingInit, ContractingTypeOK, RequestStatus, Proposal,
         ProposalStatus, Reservation, ContractStatus, Pending
<1>2. CallsInv
  BY DEF ContractingInit, CallsInv, CallHolds, Deciding, Idle
<1>3. RowsInv /\ CounteredIsRejected /\ EndedContractFreesCapacity
  BY DEF ContractingInit, RowsInv, CounteredIsRejected, EndedContractFreesCapacity
<1>4. OneContract
  BY DEF ContractingInit, OneContract
<1> QED BY <1>1, <1>2, <1>3, <1>4 DEF ContractingInv

\* A call that has made its checks.
LEMMA CheckStep ==
  ASSUME ContractingInv, NEW k \in Calls, NEW ready, NEW pending \in Pending,
         Check(k, ready, pending),
         CallHolds(pending),
         Deciding(pending) => ~Locked(pending.proposal)
  PROVE  ContractingInv'
<1>1. ContractingTypeOK'
  BY DEF ContractingInv, ContractingTypeOK, Check
<1>2. CallsInv'
  <2>1. \A l \in Calls : calls'[l] = IF l = k THEN pending ELSE calls[l]
    BY DEF Check, ContractingInv, ContractingTypeOK
  <2>2. \A l \in Calls : CallHolds(calls[l])'
    BY <2>1 DEF ContractingInv, CallsInv, CallHolds, Deciding, Check
  <2>3. \A l \in Calls : Deciding(pending) /\ Deciding(calls[l]) =>
                           calls[l].proposal # pending.proposal
    BY DEF Locked, Deciding
  <2> QED BY <2>1, <2>2, <2>3 DEF ContractingInv, CallsInv, Deciding
<1>3. RowsInv' /\ CounteredIsRejected' /\ EndedContractFreesCapacity' /\ OneContract'
  BY DEF ContractingInv, Check, RowsInv, CounteredIsRejected,
         EndedContractFreesCapacity, OneContract, Held, RequestOf
<1> QED BY <1>1, <1>2, <1>3 DEF ContractingInv

\* What no write to the proposals may disturb: the rows are kept, and the
\* pending calls that remain are still right about them.
LEMMA ProposalsStep ==
  ASSUME ContractingInv, ContractingTypeOK',
         UNCHANGED <<requests, reservations, contracts>>,
         \A p \in Proposals : proposals[p].status # "absent" =>
           proposals'[p].status # "absent"
             /\ proposals'[p].request = proposals[p].request,
         CallsInv', CounteredIsRejected'
  PROVE  ContractingInv'
<1>1. RowsInv'
  BY DEF ContractingInv, RowsInv
<1>2. EndedContractFreesCapacity'
  BY DEF ContractingInv, EndedContractFreesCapacity, Held
<1>3. \A v \in Reservations : contracts[v] = "confirmed" => RequestOf(v)' = RequestOf(v)
  BY DEF ContractingInv, RowsInv, RequestOf
<1>4. OneContract'
  BY <1>3 DEF ContractingInv, OneContract
<1> QED BY <1>1, <1>2, <1>4 DEF ContractingInv

\* A call that returns is Idle, and the others are as they were.
LEMMA ReturnCalls ==
  ASSUME ContractingInv, NEW k \in Calls, Return(k)
  PROVE  /\ calls' \in [Calls -> Pending]
         /\ \A l \in Calls : calls'[l] = IF l = k THEN Idle ELSE calls[l]
BY DEF ContractingInv, ContractingTypeOK, Return, Pending

\* A return that leaves the proposals alone leaves the pending calls right.
LEMMA ReturnStep ==
  ASSUME ContractingInv, NEW k \in Calls, Return(k), UNCHANGED proposals
  PROVE  CallsInv'
<1>1. \A l \in Calls : CallHolds(calls[l])'
  BY ReturnCalls DEF ContractingInv, CallsInv, CallHolds, Deciding, Idle
<1> QED BY <1>1, ReturnCalls DEF ContractingInv, CallsInv, Deciding, Idle

\* A new request is not contracted.
LEMMA CreateRequestStep ==
  ASSUME ContractingInv, NEW r \in Requests, CreateRequest(r)
  PROVE  ContractingInv'
<1>1. PICK status \in {"draft", "ready_for_quote"} :
        requests' = [requests EXCEPT ![r] = status]
  BY DEF CreateRequest
<1>2. ContractingTypeOK'
  BY <1>1 DEF CreateRequest, ContractingInv, ContractingTypeOK, RequestStatus
<1>3. CallsInv' /\ RowsInv' /\ CounteredIsRejected' /\ EndedContractFreesCapacity'
  BY DEF CreateRequest, ContractingInv, CallsInv, CallHolds, RowsInv,
         CounteredIsRejected, EndedContractFreesCapacity, Held
<1>4. OneContract'
  BY <1>1 DEF CreateRequest, ContractingInv, ContractingTypeOK, OneContract, RequestOf
<1> QED BY <1>2, <1>3, <1>4 DEF ContractingInv

\* The status read before the call is not contracted, and none but confirm
\* writes that.
LEMMA UpdateRequestStep ==
  ASSUME ContractingInv, NEW k \in Calls, UpdateRequest(k)
  PROVE  ContractingInv'
<1>1. /\ calls[k] \in Pending /\ calls[k].op = "update"
      /\ requests' = [requests EXCEPT ![calls[k].request] = calls[k].status]
  BY DEF UpdateRequest, ContractingInv, ContractingTypeOK
<1>2. calls[k].request \in Requests /\ calls[k].status \in RequestStatus
  BY <1>1, PendingFields
<1>3. calls[k].status # "contracted"
  BY <1>1 DEF ContractingInv, CallsInv, CallHolds
<1>4. ContractingTypeOK'
  BY <1>1, <1>2, ReturnCalls DEF UpdateRequest, ContractingInv, ContractingTypeOK
<1>5. CallsInv'
  BY ReturnStep DEF UpdateRequest
<1>6. RowsInv' /\ CounteredIsRejected' /\ EndedContractFreesCapacity'
  BY DEF UpdateRequest, ContractingInv, RowsInv, CounteredIsRejected,
         EndedContractFreesCapacity, Held
<1>7. OneContract'
  BY <1>1, <1>2, <1>3 DEF UpdateRequest, ContractingInv, ContractingTypeOK,
                          OneContract, RequestOf
<1> QED BY <1>4, <1>5, <1>6, <1>7 DEF ContractingInv

\* No invariant depends on the open assignments.
LEMMA CloseAssignmentStep ==
  ASSUME ContractingInv, NEW c \in Capacities, CloseAssignment(c)
  PROVE  ContractingInv'
BY DEF CloseAssignment, ContractingInv, ContractingTypeOK, CallsInv, CallHolds,
       RowsInv, CounteredIsRejected, EndedContractFreesCapacity, Held,
       OneContract, RequestOf

\* No invariant depends on expiry.
LEMMA LapseStep ==
  ASSUME ContractingInv, NEW p \in Proposals, Lapse(p)
  PROVE  ContractingInv'
BY DEF Lapse, ContractingInv, ContractingTypeOK, CallsInv, CallHolds,
       RowsInv, CounteredIsRejected, EndedContractFreesCapacity, Held,
       OneContract, RequestOf

\* A new proposal takes a row nothing points at.
LEMMA CreateProposalStep ==
  ASSUME ContractingInv, NEW k \in Calls, CreateProposal(k)
  PROVE  ContractingInv'
<1> DEFINE new == [status |-> "open", request |-> calls[k].request,
                   capacity |-> calls[k].capacity, parent |-> None]
<1>1. PICK p \in Proposals : /\ proposals[p].status = "absent"
                             /\ proposals' = [proposals EXCEPT ![p] = new]
  BY DEF CreateProposal
<1>2. calls[k] \in Pending /\ calls[k].op = "create"
  BY DEF CreateProposal, ContractingInv, ContractingTypeOK
<1>3. new \in Proposal
  BY <1>2, PendingFields DEF Proposal, ProposalStatus
<1>4. new.status = "open" /\ new.parent = None
  OBVIOUS
<1> HIDE DEF new
<1>5. \A q \in Proposals : proposals'[q] = IF q = p THEN new ELSE proposals[q]
  BY <1>1 DEF ContractingInv, ContractingTypeOK
<1>6. ContractingTypeOK'
  BY <1>1, <1>3, ReturnCalls DEF CreateProposal, ContractingInv, ContractingTypeOK
<1>7. \A q \in Proposals : proposals[q].status # "absent" => proposals'[q] = proposals[q]
  BY <1>1, <1>5
<1>8. CallsInv'
  <2>1. \A l \in Calls : CallHolds(calls[l])'
    BY <1>1, <1>7, ReturnCalls, PendingFields
       DEF CreateProposal, ContractingInv, ContractingTypeOK, CallsInv, CallHolds,
           Deciding, Idle
  <2> QED BY <2>1, ReturnCalls DEF CreateProposal, ContractingInv, CallsInv,
                                   Deciding, Idle
<1>9. CounteredIsRejected'
  BY <1>1, <1>4, <1>5, ContractingAssumption
     DEF ContractingInv, ContractingTypeOK, Proposal, CounteredIsRejected
<1> QED BY <1>5, <1>4, <1>6, <1>7, <1>8, <1>9, ProposalsStep DEF CreateProposal

\* Both decisions are of a proposal no other pending call decides.
LEMMA DecidedAlone ==
  ASSUME ContractingInv, NEW k \in Calls, Deciding(calls[k]), Return(k),
         calls[k].proposal \in Proposals,
         \A q \in Proposals :
           q # calls[k].proposal /\ proposals[q].status # "absent"
             => proposals'[q] = proposals[q],
         proposals'[calls[k].proposal].status # "absent"
  PROVE  CallsInv'
<1>1. \A l \in Calls : CallHolds(calls[l])'
  <2> SUFFICES ASSUME NEW l \in Calls, l # k
               PROVE  CallHolds(calls[l])'
    BY ReturnCalls DEF CallHolds, Deciding, Idle
  <2>1. calls'[l] = calls[l] /\ CallHolds(calls[l]) /\ calls[l] \in Pending
    BY ReturnCalls DEF ContractingInv, ContractingTypeOK, CallsInv
  <2>2. Deciding(calls[l]) => calls[l].proposal # calls[k].proposal
    BY DEF ContractingInv, CallsInv
  <2> QED BY <2>1, <2>2, PendingFields DEF CallHolds, Deciding
<1> QED BY <1>1, ReturnCalls DEF ContractingInv, CallsInv, Deciding, Idle

\* The parent was open, so it was no decision that is overwritten.
LEMMA CounterproposalStep ==
  ASSUME ContractingInv, NEW k \in Calls, Counterproposal(k)
  PROVE  /\ ContractingInv'
         /\ \A q \in Proposals :
              proposals[q].status \in Decided => proposals'[q] = proposals[q]
<1> DEFINE parent == calls[k].proposal
           new == [proposals[parent] EXCEPT !.parent = parent]
           old == [proposals[parent] EXCEPT !.status = "rejected"]
<1>1. /\ calls[k] \in Pending /\ calls[k].op = "counterproposal"
      /\ parent \in Proposals /\ proposals[parent] \in Proposal
      /\ proposals[parent].status = "open"
  BY PendingFields DEF Counterproposal, ContractingInv, ContractingTypeOK, CallsInv,
                       CallHolds, Deciding
<1>2. PICK p \in Proposals :
        /\ proposals[p].status = "absent"
        /\ proposals' = [proposals EXCEPT ![p] = new, ![parent].status = "rejected"]
  BY DEF Counterproposal
<1>3. p # parent
  BY <1>1, <1>2
<1>4. /\ new \in Proposal /\ new.status = "open" /\ new.parent = parent
      /\ old \in Proposal /\ old.status = "rejected"
      /\ old.request = proposals[parent].request
      /\ old.parent = proposals[parent].parent
  BY <1>1 DEF Proposal, ProposalStatus, Decided
<1>5. \A q \in Proposals :
        proposals'[q] = IF q = p THEN new ELSE IF q = parent THEN old ELSE proposals[q]
  BY <1>1, <1>2, <1>3 DEF ContractingInv, ContractingTypeOK
<1>6. proposals' = [q \in Proposals |-> proposals'[q]]
  BY <1>2 DEF ContractingInv, ContractingTypeOK
<1> HIDE DEF new, old
<1>7. ContractingTypeOK'
  <2>1. proposals' \in [Proposals -> Proposal]
    BY <1>4, <1>5, <1>6 DEF ContractingInv, ContractingTypeOK
  <2> QED BY <2>1, ReturnCalls DEF Counterproposal, ContractingInv, ContractingTypeOK
<1>8. CallsInv'
  BY <1>1, <1>2, <1>4, <1>5, DecidedAlone DEF Counterproposal, Deciding
<1>9. CounteredIsRejected'
  <2> SUFFICES ASSUME NEW q \in Proposals, proposals'[q].parent # None
               PROVE  proposals'[proposals'[q].parent].status = "rejected"
    BY DEF CounteredIsRejected
  <2>1. CASE q = p
    BY <2>1, <1>1, <1>3, <1>4, <1>5
  <2>2. CASE q # p
    <3>1. proposals'[q].parent = proposals[q].parent
      BY <2>2, <1>4, <1>5
    <3>2. /\ proposals[q].parent \in Proposals
          /\ proposals[proposals[q].parent].status = "rejected"
      BY <3>1 DEF ContractingInv, ContractingTypeOK, Proposal, CounteredIsRejected
    <3> QED BY <3>1, <3>2, <1>1, <1>2, <1>5
  <2> QED BY <2>1, <2>2
<1>10. \A q \in Proposals : proposals[q].status # "absent" =>
         proposals'[q].status # "absent" /\ proposals'[q].request = proposals[q].request
  BY <1>2, <1>4, <1>5
<1>11. ContractingInv'
  BY <1>7, <1>8, <1>9, <1>10, ProposalsStep DEF Counterproposal
<1>12. \A q \in Proposals :
         proposals[q].status \in Decided => proposals'[q] = proposals[q]
  BY <1>1, <1>2, <1>5 DEF Decided
<1> QED BY <1>11, <1>12

\* The proposal was open, as the call that locked it had read.
LEMMA SetStatusStep ==
  ASSUME ContractingInv, NEW k \in Calls, SetStatus(k)
  PROVE  /\ ContractingInv'
         /\ \A q \in Proposals :
              proposals[q].status \in Decided => proposals'[q] = proposals[q]
<1> DEFINE p == calls[k].proposal
           new == [proposals[p] EXCEPT !.status = calls[k].status]
<1>1. /\ calls[k] \in Pending /\ calls[k].op = "setStatus"
      /\ p \in Proposals /\ proposals[p] \in Proposal
      /\ proposals[p].status = "open" /\ calls[k].status \in Decided
  BY PendingFields DEF SetStatus, ContractingInv, ContractingTypeOK, CallsInv,
                       CallHolds, Deciding
<1>2. /\ new \in Proposal /\ new.status \in Decided
      /\ new.request = proposals[p].request /\ new.parent = proposals[p].parent
  BY <1>1 DEF Proposal, ProposalStatus
<1>3. /\ \A q \in Proposals : proposals'[q] = IF q = p THEN new ELSE proposals[q]
      /\ proposals' = [q \in Proposals |-> proposals'[q]]
  BY <1>1 DEF SetStatus, ContractingInv, ContractingTypeOK
<1> HIDE DEF new
<1>4. ContractingTypeOK'
  <2>1. proposals' \in [Proposals -> Proposal]
    BY <1>2, <1>3 DEF ContractingInv, ContractingTypeOK
  <2> QED BY <2>1, ReturnCalls DEF SetStatus, ContractingInv, ContractingTypeOK
<1>5. CallsInv'
  BY <1>1, <1>2, <1>3, DecidedAlone DEF SetStatus, Deciding, Decided
<1>6. CounteredIsRejected'
  <2> SUFFICES ASSUME NEW q \in Proposals, proposals'[q].parent # None
               PROVE  proposals'[proposals'[q].parent].status = "rejected"
    BY DEF CounteredIsRejected
  <2>1. proposals'[q].parent = proposals[q].parent
    BY <1>2, <1>3
  <2>2. /\ proposals[q].parent \in Proposals
        /\ proposals[proposals[q].parent].status = "rejected"
    BY <2>1 DEF ContractingInv, ContractingTypeOK, Proposal, CounteredIsRejected
  <2> QED BY <2>1, <2>2, <1>1, <1>3
<1>7. \A q \in Proposals : proposals[q].status # "absent" =>
        proposals'[q].status # "absent" /\ proposals'[q].request = proposals[q].request
  BY <1>2, <1>3 DEF Decided
<1>8. ContractingInv'
  BY <1>4, <1>5, <1>6, <1>7, ProposalsStep DEF SetStatus
<1>9. \A q \in Proposals :
        proposals[q].status \in Decided => proposals'[q] = proposals[q]
  BY <1>1, <1>3 DEF Decided
<1> QED BY <1>8, <1>9

\* The reservation is new, so no contract rests on it.
LEMMA ApproveStep ==
  ASSUME ContractingInv, NEW k \in Calls, Approve(k)
  PROVE  ContractingInv'
<1> DEFINE new == [status |-> "active", proposal |-> calls[k].proposal]
<1>1. PICK v \in Reservations :
        /\ reservations[v].status = "absent"
        /\ reservations' = [reservations EXCEPT ![v] = new]
  BY DEF Approve
<1>2. /\ calls[k] \in Pending /\ calls[k].op = "approve"
      /\ calls[k].proposal \in Proposals
      /\ proposals[calls[k].proposal].status # "absent"
  BY PendingFields DEF Approve, ContractingInv, ContractingTypeOK, CallsInv, CallHolds
<1>3. contracts[v] = "none"
  BY <1>1 DEF ContractingInv, RowsInv
<1>4. \A w \in Reservations : reservations'[w] = IF w = v THEN new ELSE reservations[w]
  BY <1>1 DEF ContractingInv, ContractingTypeOK
<1>5. new \in Reservation
  BY <1>2 DEF Reservation
<1>6. ContractingTypeOK'
  BY <1>1, <1>5, ReturnCalls DEF Approve, ContractingInv, ContractingTypeOK
<1>7. CallsInv'
  BY ReturnStep DEF Approve
<1>8. RowsInv'
  BY <1>2, <1>3, <1>4 DEF Approve, ContractingInv, RowsInv
<1>9. CounteredIsRejected'
  BY DEF Approve, ContractingInv, CounteredIsRejected
<1>10. EndedContractFreesCapacity'
  BY <1>3, <1>4 DEF Approve, ContractingInv, EndedContractFreesCapacity, Held
<1>11. \A w \in Reservations : contracts[w] = "confirmed" => RequestOf(w)' = RequestOf(w)
  BY <1>3, <1>4 DEF Approve, RequestOf
<1>12. OneContract'
  BY <1>11 DEF Approve, ContractingInv, OneContract
<1> QED BY <1>6, <1>7, <1>8, <1>9, <1>10, <1>12 DEF ContractingInv

\* A failed approval changes nothing but its own call.
LEMMA ApproveConflictsStep ==
  ASSUME ContractingInv, NEW k \in Calls, ApproveConflicts(k)
  PROVE  ContractingInv'
<1>1. CallsInv'
  BY ReturnStep DEF ApproveConflicts
<1> QED BY <1>1, ReturnCalls
        DEF ApproveConflicts, ContractingInv, ContractingTypeOK, RowsInv,
            CounteredIsRejected, EndedContractFreesCapacity, Held, OneContract, RequestOf

\* Releasing a reservation keeps the proposal it rests on.
LEMMA Released ==
  ASSUME ContractingInv, NEW v \in Reservations, Held(v), Release(v)
  PROVE  /\ reservations' \in [Reservations -> Reservation]
         /\ \A w \in Reservations :
              /\ reservations'[w].proposal = reservations[w].proposal
              /\ reservations'[w].status =
                   IF w = v THEN "cancelled" ELSE reservations[w].status
BY DEF ContractingInv, ContractingTypeOK, Release, Held, Reservation

\* A cancelled reservation keeps its proposal and its contract.
LEMMA CancelReservationStep ==
  ASSUME ContractingInv, NEW v \in Reservations, CancelReservation(v)
  PROVE  ContractingInv'
<1>1. Held(v) /\ Release(v)
  BY DEF CancelReservation
<1>2. ContractingTypeOK'
  BY <1>1, Released DEF CancelReservation, ContractingInv, ContractingTypeOK
<1>3. CallsInv' /\ CounteredIsRejected'
  BY DEF CancelReservation, ContractingInv, CallsInv, CallHolds, CounteredIsRejected
<1>4. RowsInv'
  BY <1>1, Released DEF CancelReservation, ContractingInv, RowsInv, Held
<1>5. EndedContractFreesCapacity'
  BY <1>1, Released DEF CancelReservation, ContractingInv, EndedContractFreesCapacity, Held
<1>6. OneContract'
  BY <1>1, Released DEF CancelReservation, ContractingInv, OneContract, RequestOf
<1> QED BY <1>2, <1>3, <1>4, <1>5, <1>6 DEF ContractingInv

\* The unique index lets no second contract of the request through.
LEMMA ConfirmStep ==
  ASSUME ContractingInv, NEW v \in Reservations, Confirm(v)
  PROVE  ContractingInv'
<1>1. /\ contracts[v] = "none" /\ Held(v) /\ Negotiable(RequestOf(v))
      /\ ~Committed(v)
      /\ contracts' = [contracts EXCEPT ![v] = "confirmed"]
      /\ requests' = [requests EXCEPT ![RequestOf(v)] = "contracted"]
      /\ UNCHANGED <<assigned, proposals, lapsed, reservations, calls>>
  BY DEF Confirm, Contractable
<1>2. /\ contracts' \in [Reservations -> ContractStatus]
      /\ \A w \in Reservations :
           contracts'[w] = IF w = v THEN "confirmed" ELSE contracts[w]
  BY <1>1 DEF ContractingInv, ContractingTypeOK, ContractStatus
<1>3. /\ requests' \in [Requests -> RequestStatus]
      /\ \A r \in Requests :
           requests'[r] = IF r = RequestOf(v) THEN "contracted" ELSE requests[r]
  BY <1>1 DEF ContractingInv, ContractingTypeOK, RequestStatus
<1>4. ContractingTypeOK'
  BY <1>1, <1>2, <1>3 DEF ContractingInv, ContractingTypeOK
<1>5. CallsInv' /\ CounteredIsRejected'
  BY <1>1 DEF ContractingInv, CallsInv, CallHolds, CounteredIsRejected
<1>6. RowsInv' /\ EndedContractFreesCapacity'
  BY <1>1, <1>2 DEF ContractingInv, RowsInv, EndedContractFreesCapacity, Held
<1>7. \A w \in Reservations : RequestOf(w)' = RequestOf(w)
  BY <1>1 DEF RequestOf
<1>8. \A w \in Reservations :
        contracts[w] = "confirmed" => RequestOf(w) # RequestOf(v)
  BY <1>1 DEF Committed
<1>9. OneContract'
  BY <1>2, <1>3, <1>7, <1>8 DEF ContractingInv, OneContract
<1> QED BY <1>4, <1>5, <1>6, <1>9 DEF ContractingInv

\* A refused contract and its reservation end together.
LEMMA RefuseStep ==
  ASSUME ContractingInv, NEW v \in Reservations, Refuse(v)
  PROVE  ContractingInv'
<1>1. /\ contracts[v] = "none" /\ Held(v) /\ Release(v)
      /\ contracts' = [contracts EXCEPT ![v] = "refused"]
      /\ UNCHANGED <<requests, assigned, proposals, lapsed, calls>>
  BY DEF Refuse, Contractable
<1>2. /\ contracts' \in [Reservations -> ContractStatus]
      /\ \A w \in Reservations :
           contracts'[w] = IF w = v THEN "refused" ELSE contracts[w]
  BY <1>1 DEF ContractingInv, ContractingTypeOK, ContractStatus
<1>3. ContractingTypeOK'
  BY <1>1, <1>2, Released DEF ContractingInv, ContractingTypeOK
<1>4. CallsInv' /\ CounteredIsRejected'
  BY <1>1 DEF ContractingInv, CallsInv, CallHolds, CounteredIsRejected
<1>5. RowsInv' /\ EndedContractFreesCapacity'
  BY <1>1, <1>2, Released
     DEF ContractingInv, RowsInv, EndedContractFreesCapacity, Held
<1>6. \A w \in Reservations : RequestOf(w)' = RequestOf(w)
  BY <1>1, Released DEF RequestOf
<1>7. OneContract'
  BY <1>1, <1>2, <1>6 DEF ContractingInv, OneContract
<1> QED BY <1>3, <1>4, <1>5, <1>7 DEF ContractingInv

\* The request leaves contracted with the one contract it had.
LEMMA CancelContractStep ==
  ASSUME ContractingInv, NEW v \in Reservations, CancelContract(v)
  PROVE  ContractingInv'
<1>1. /\ contracts[v] = "confirmed" /\ Held(v) /\ Release(v)
      /\ contracts' = [contracts EXCEPT ![v] = "cancelled"]
      /\ requests' = [requests EXCEPT ![RequestOf(v)] = "in_negotiation"]
      /\ UNCHANGED <<assigned, proposals, lapsed, calls>>
  BY DEF CancelContract
<1>2. /\ contracts' \in [Reservations -> ContractStatus]
      /\ \A w \in Reservations :
           contracts'[w] = IF w = v THEN "cancelled" ELSE contracts[w]
  BY <1>1 DEF ContractingInv, ContractingTypeOK, ContractStatus
<1>3. /\ requests' \in [Requests -> RequestStatus]
      /\ \A r \in Requests :
           requests'[r] = IF r = RequestOf(v) THEN "in_negotiation" ELSE requests[r]
  BY <1>1 DEF ContractingInv, ContractingTypeOK, RequestStatus
<1>4. ContractingTypeOK'
  BY <1>1, <1>2, <1>3, Released DEF ContractingInv, ContractingTypeOK
<1>5. CallsInv' /\ CounteredIsRejected'
  BY <1>1 DEF ContractingInv, CallsInv, CallHolds, CounteredIsRejected
<1>6. RowsInv' /\ EndedContractFreesCapacity'
  BY <1>1, <1>2, Released
     DEF ContractingInv, RowsInv, EndedContractFreesCapacity, Held
<1>7. \A w \in Reservations : RequestOf(w)' = RequestOf(w)
  BY <1>1, Released DEF RequestOf
<1>8. OneContract'
  BY <1>1, <1>2, <1>3, <1>7 DEF ContractingInv, OneContract
<1> QED BY <1>4, <1>5, <1>6, <1>8 DEF ContractingInv

\* Each check records no more than it has just read.
LEMMA ChecksStep ==
  ASSUME ContractingInv, NEW k \in Calls,
         \/ \E r \in Requests : CheckUpdateRequest(k, r)
         \/ \E r \in Requests, c \in Capacities : CheckCreateProposal(k, r, c)
         \/ \E p \in Proposals :
              CheckCounterproposal(k, p) \/ CheckSetStatus(k, p) \/ CheckApprove(k, p)
  PROVE  ContractingInv' /\ UNCHANGED proposals
<1> DEFINE Begun(pending) ==
      /\ pending \in Pending /\ CallHolds(pending)
      /\ Deciding(pending) => ~Locked(pending.proposal)
<1>1. ASSUME NEW r \in Requests, CheckUpdateRequest(k, r)
      PROVE  \E ready, pending : Check(k, ready, pending) /\ Begun(pending)
  <2>1. ASSUME NEW status \in {"draft", "ready_for_quote", "in_negotiation"}
        PROVE  Begun([op |-> "update", request |-> r, status |-> status])
    BY <2>1 DEF Pending, RequestStatus, CallHolds, Deciding
  <2> HIDE DEF Begun
  <2> QED BY <1>1, <2>1 DEF CheckUpdateRequest
<1>2. ASSUME NEW r \in Requests, NEW c \in Capacities, CheckCreateProposal(k, r, c)
      PROVE  \E ready, pending : Check(k, ready, pending) /\ Begun(pending)
  <2>1. Begun([op |-> "create", request |-> r, capacity |-> c])
    BY DEF Pending, CallHolds, Deciding
  <2> HIDE DEF Begun
  <2> QED BY <1>2, <2>1 DEF CheckCreateProposal
<1>3. ASSUME NEW p \in Proposals, CheckCounterproposal(k, p)
      PROVE  \E ready, pending : Check(k, ready, pending) /\ Begun(pending)
  <2>1. Begun([op |-> "counterproposal", proposal |-> p])
    BY <1>3 DEF CheckCounterproposal, Check, Undecided, Pending, CallHolds, Deciding
  <2> HIDE DEF Begun
  <2> QED BY <1>3, <2>1 DEF CheckCounterproposal
<1>4. ASSUME NEW p \in Proposals, CheckSetStatus(k, p)
      PROVE  \E ready, pending : Check(k, ready, pending) /\ Begun(pending)
  <2>1. PICK status \in Decided :
          Check(k, Undecided(p) /\ (p \in lapsed => status = "expired"),
                [op |-> "setStatus", proposal |-> p, status |-> status])
    BY <1>4 DEF CheckSetStatus
  <2>2. Begun([op |-> "setStatus", proposal |-> p, status |-> status])
    BY <2>1 DEF Check, Undecided, Pending, CallHolds, Deciding
  <2> HIDE DEF Begun
  <2> QED BY <2>1, <2>2
<1>5. ASSUME NEW p \in Proposals, CheckApprove(k, p)
      PROVE  \E ready, pending : Check(k, ready, pending) /\ Begun(pending)
  <2>1. Begun([op |-> "approve", proposal |-> p])
    BY <1>5 DEF CheckApprove, Check, Reservable, Pending, CallHolds, Deciding
  <2> HIDE DEF Begun
  <2> QED BY <1>5, <2>1 DEF CheckApprove
<1>6. \E ready, pending : Check(k, ready, pending) /\ Begun(pending)
  BY <1>1, <1>2, <1>3, <1>4, <1>5
<1> QED BY <1>6, CheckStep DEF Check

\* One step, whichever call takes it.
LEMMA NextStep ==
  ASSUME ContractingInv, [ContractingNext]_contractingVars
  PROVE  /\ ContractingInv'
         /\ \A q \in Proposals :
              proposals[q].status \in Decided => proposals'[q] = proposals[q]
<1>1. CASE UNCHANGED contractingVars
  BY <1>1 DEF contractingVars, ContractingInv, ContractingTypeOK, CallsInv, CallHolds,
              RowsInv, CounteredIsRejected, EndedContractFreesCapacity, Held,
              OneContract, RequestOf
<1>2. ASSUME NEW r \in Requests, CreateRequest(r) PROVE ContractingInv'
  BY <1>2, CreateRequestStep
<1>3. ASSUME NEW c \in Capacities, CloseAssignment(c) PROVE ContractingInv'
  BY <1>3, CloseAssignmentStep
<1>4. ASSUME NEW p \in Proposals, Lapse(p) PROVE ContractingInv'
  BY <1>4, LapseStep
<1>5. ASSUME NEW v \in Reservations,
             CancelReservation(v) \/ Confirm(v) \/ Refuse(v) \/ CancelContract(v)
      PROVE  ContractingInv'
  BY <1>5, CancelReservationStep, ConfirmStep, RefuseStep, CancelContractStep
<1>6. ASSUME NEW k \in Calls,
             UpdateRequest(k) \/ CreateProposal(k) \/ Approve(k) \/ ApproveConflicts(k)
      PROVE  ContractingInv'
  BY <1>6, UpdateRequestStep, CreateProposalStep, ApproveStep, ApproveConflictsStep
<1>7. ASSUME NEW k \in Calls, CreateProposal(k)
      PROVE  \A q \in Proposals :
               proposals[q].status \in Decided => proposals'[q] = proposals[q]
  BY <1>7 DEF CreateProposal, ContractingInv, ContractingTypeOK, Decided
<1> QED
  BY <1>1, <1>2, <1>3, <1>4, <1>5, <1>6, <1>7, ChecksStep, CounterproposalStep,
     SetStatusStep
  DEF ContractingNext, contractingVars, CreateRequest, CloseAssignment, Lapse,
      CancelReservation, Confirm, Refuse, CancelContract, UpdateRequest, Approve,
      ApproveConflicts

-----------------------------------------------------------------------------
(* Theorems *)

\* The invariant is inductive: in every state each pending call is right about
\* what it read, and the rows agree.
THEOREM ContractingInvariant == ContractingSpec => []ContractingInv
<1>1. ContractingInit => ContractingInv
  BY InitStep
<1>2. ContractingInv /\ [ContractingNext]_contractingVars => ContractingInv'
  BY NextStep
<1> QED BY <1>1, <1>2, PTL DEF ContractingSpec

\* Every row and every call in flight keeps its type.
THEOREM ContractingTypes == ContractingSpec => []ContractingTypeOK
<1>1. ContractingInv => ContractingTypeOK
  BY DEF ContractingInv
<1> QED BY <1>1, ContractingInvariant, PTL

\* However many calls overlap, a proposal that was countered is rejected.
THEOREM CounteredRejected == ContractingSpec => []CounteredIsRejected
<1>1. ContractingInv => CounteredIsRejected
  BY DEF ContractingInv
<1> QED BY <1>1, ContractingInvariant, PTL

\* However many calls overlap, a contracted request has exactly one confirmed
\* contract.
THEOREM ContractedBacked == ContractingSpec => []ContractedIsBacked
<1>1. ContractingInv => ContractedIsBacked
  BY BackedByOne DEF ContractingInv
<1> QED BY <1>1, ContractingInvariant, PTL

\* An ended contract never holds its capacity again.
THEOREM EndedFrees == ContractingSpec => []EndedContractFreesCapacity
<1>1. ContractingInv => EndedContractFreesCapacity
  BY DEF ContractingInv
<1> QED BY <1>1, ContractingInvariant, PTL

\* However many calls decide at once, no decision is ever overwritten.
THEOREM DecisionsFinal == ContractingSpec => DecisionsAreFinal
<1>1. ContractingInv /\ [ContractingNext]_contractingVars =>
        [\A p \in Proposals :
           proposals[p].status \in Decided => proposals'[p] = proposals[p]]_contractingVars
  BY NextStep
<1> QED BY <1>1, ContractingInvariant, PTL DEF ContractingSpec, DecisionsAreFinal
=============================================================================
