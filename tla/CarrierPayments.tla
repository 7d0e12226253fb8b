--------------------------- MODULE CarrierPayments ---------------------------
(***************************************************************************)
(* What a tenant owes its carriers: one obligation per contract and the    *)
(* append-only book of its payments (finance-payment.service.ts and the    *)
(* triggers of migrations 0036 and 0037).  A call is two steps: it takes   *)
(* the obligation's row lock and runs the triggers, which also read the    *)
(* contract and the trip, without a lock; and it commits, when those may   *)
(* have changed.  They change here as their own services let them.         *)
(***************************************************************************)
EXTENDS LedgerBook

CONSTANTS Contracts, ContractAmount, PaymentAmounts, PaymentCalls, NoCall,
          MaxPostings

ASSUME PaymentAssumption ==
    /\ ContractAmount \in Nat \ {0}
    /\ PaymentAmounts \subseteq Nat \ {0}
    /\ MaxPostings \in Nat

VARIABLES contractStatus,  \* [Contracts -> ContractState], of other services
          linked,          \* contracts with an active link to a trip
          obligation,      \* [Contracts -> Obligation]
          payBook,         \* [Contracts -> Seq(Posting)]
          payCall          \* [PaymentCalls -> NoCall or a call to commit]

contractVars == <<contractStatus, linked>>
payVars == <<contractVars, obligation, payBook, payCall>>

ContractState == {"confirmed", "fulfilled", "cancelled"}

(* onTrip: trip_id is set.                                                 *)
Obligation == [status : {"absent", "open", "partial", "paid", "cancelled"},
               onTrip : BOOLEAN]

PaymentInit ==
    /\ contractStatus = [c \in Contracts |-> "confirmed"]
    /\ linked = Contracts
    /\ obligation = [c \in Contracts |-> [status |-> "absent", onTrip |-> FALSE]]
    /\ payBook = [c \in Contracts |-> <<>>]
    /\ payCall = [k \in PaymentCalls |-> NoCall]

-----------------------------------------------------------------------------
(* A slip: the posting trigger reads the obligation without FOR UPDATE.    *)
ObligationUnlocked(c) == TRUE

(* No open transaction has written the obligation: it holds the row lock,  *)
(* or its insert the entry of carrier_payment_obligations_contract_unique. *)
ObligationFree(c) ==
    \A k \in PaymentCalls : payCall[k] # NoCall => payCall[k].contract # c

(* A slip: the contract is checked when the obligation is created, only.   *)
ObligationTripGuard(c, onTrip) ==
    /\ obligation[c].status = "absent" => contractStatus[c] # "cancelled"
    /\ onTrip => c \in linked

(* What every insert and update of an obligation asks of other tables.     *)
ObligationGuard(c, onTrip) ==
    /\ contractStatus[c] \in {"confirmed", "fulfilled"}
    /\ onTrip => c \in linked

(* The statement that writes the row, and for a posting its book.          *)
WriteObligation(k, c, row, postings) ==
    /\ payCall[k] = NoCall
    /\ ObligationFree(c)
    /\ ObligationGuard(c, row.onTrip)
    /\ payCall' = [payCall EXCEPT ![k] =
           [contract |-> c, row |-> row, postings |-> postings]]
    /\ UNCHANGED <<contractVars, obligation, payBook>>

CommitPayment(k) ==
    /\ payCall[k] # NoCall
    /\ LET c == payCall[k].contract
       IN  /\ obligation' = [obligation EXCEPT ![c] = payCall[k].row]
           /\ payBook' = [payBook EXCEPT ![c] = @ \o payCall[k].postings]
    /\ payCall' = [payCall EXCEPT ![k] = NoCall]
    /\ UNCHANGED contractVars

(* A later statement fails, or the connection is lost.                     *)
RollBackPayment(k) ==
    /\ payCall[k] # NoCall
    /\ payCall' = [payCall EXCEPT ![k] = NoCall]
    /\ UNCHANGED <<contractVars, obligation, payBook>>

CreateObligation(k, c, onTrip) ==
    /\ obligation[c].status = "absent"
    /\ WriteObligation(k, c, [status |-> "open", onTrip |-> onTrip], <<>>)

Payable(c) == obligation[c].status \notin {"absent", "cancelled"}

(* A new trip, due date or note; the guard recomputes the status.          *)
UpdateObligation(k, c, onTrip) ==
    /\ Payable(c)
    /\ WriteObligation(k, c,
           [status |-> Settlement(Net(payBook[c]), ContractAmount),
            onTrip |-> onTrip], <<>>)

CancelObligation(k, c) ==
    /\ Payable(c)
    /\ Net(payBook[c]) <= 0
    /\ WriteObligation(k, c, [obligation[c] EXCEPT !.status = "cancelled"], <<>>)

(* createTransaction: the BEFORE INSERT trigger's balance of an advance or *)
(* payment, or the entry that a reversal may still take back.              *)
PostingAllowed(c, posting) ==
    IF posting.kind = "entry"
    THEN Net(payBook[c]) + posting.amount <= ContractAmount
    ELSE posting.of \in Reversible(payBook[c])

(* The row, and the AFTER INSERT trigger's update of the obligation.       *)
CreatePayment(k, c, posting) ==
    /\ Payable(c)
    /\ Len(payBook[c]) < MaxPostings
    /\ PostingAllowed(c, posting)
    /\ WriteObligation(k, c,
           [obligation[c] EXCEPT !.status =
               Settlement(Net(Append(payBook[c], posting)), ContractAmount)],
           <<posting>>)

PaymentPostings(c) ==
    {EntryOf(amount) : amount \in PaymentAmounts}
        \cup {ReversalOf(payBook[c], i) : i \in DOMAIN payBook[c]}

-----------------------------------------------------------------------------
(* Other services: contracts.service ends a confirmed contract, and trips  *)
(* .service ends one with its trip, links and unlinks it.                  *)
EndContract(c, status) ==
    /\ contractStatus[c] = "confirmed"
    /\ contractStatus' = [contractStatus EXCEPT ![c] = status]
    /\ UNCHANGED <<linked, obligation, payBook, payCall>>

UnlinkTrip(c) == /\ c \in linked
                 /\ linked' = linked \ {c}
                 /\ UNCHANGED <<contractStatus, obligation, payBook, payCall>>

PaymentEnv ==
    \E c \in Contracts :
        \/ \E status \in {"fulfilled", "cancelled"} : EndContract(c, status)
        \/ UnlinkTrip(c)

PaymentStep(k) ==
    \/ \E c \in Contracts :
          \/ \E onTrip \in BOOLEAN :
                CreateObligation(k, c, onTrip) \/ UpdateObligation(k, c, onTrip)
          \/ CancelObligation(k, c)
          \/ \E posting \in PaymentPostings(c) : CreatePayment(k, c, posting)
    \/ CommitPayment(k)
    \/ RollBackPayment(k)

PaymentNext == (\E k \in PaymentCalls : PaymentStep(k)) \/ PaymentEnv

PaymentSpec == PaymentInit /\ [][PaymentNext]_payVars

-----------------------------------------------------------------------------
PaymentTypeOK ==
    /\ contractStatus \in [Contracts -> ContractState]
    /\ linked \subseteq Contracts
    /\ obligation \in [Contracts -> Obligation]
    /\ payBook \in [Contracts -> Seq(Posting)]
    /\ payCall \in [PaymentCalls ->
           {NoCall} \cup [contract : Contracts, row : Obligation,
                          postings : Seq(Posting)]]

(* The contracts' accounts, as MoneyLedger sees them.                      *)
Payables == INSTANCE MoneyLedger WITH
    Accounts <- Contracts, Limits <- {ContractAmount}, Places <- MaxPostings,
    held <- [c \in Contracts |-> Outstanding(payBook[c], MaxPostings)],
    limit <- [c \in Contracts |->
                 IF obligation[c].status = "absent" THEN 0 ELSE ContractAmount],
    state <- [c \in Contracts |-> obligation[c].status]

PayablesImplementLedger == Payables!LedgerSpec

(* A cancelled contract whose obligation no open transaction has written.  *)
Dead(c) == contractStatus[c] = "cancelled" /\ ObligationFree(c)

(* Once its contract is cancelled, and the calls that had passed its guard *)
(* are over, an obligation is never paid, taken back, updated or cancelled *)
(* again: what was paid by then stays on the books for good.               *)
DeadObligationsStay ==
    [][\A c \in Contracts :
          Dead(c) => /\ Dead(c)'
                     /\ obligation'[c] = obligation[c]
                     /\ payBook'[c] = payBook[c]]_payVars
=============================================================================
