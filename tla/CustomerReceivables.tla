------------------------- MODULE CustomerReceivables -------------------------
(***************************************************************************)
(* What the customers owe the tenant: one receivable per transport request *)
(* and the append-only book of its receipts (finance-receivable.service.ts *)
(* and the triggers of migration 0038).  As in CarrierPayments a call is   *)
(* two steps: the statement that takes the row lock and runs the triggers, *)
(* which read the request's commercial terms and the fiscal document       *)
(* without a lock, and the commit.                                         *)
(***************************************************************************)
EXTENDS LedgerBook

CONSTANTS Requests, InvoicedAmounts, ReceiptAmounts, ReceiptCalls, NoReceipt,
          MaxReceipts

ASSUME ReceivableAssumption ==
    /\ InvoicedAmounts \subseteq Nat \ {0}
    /\ ReceiptAmounts \subseteq Nat \ {0}
    /\ MaxReceipts \in Nat

VARIABLES termed,      \* requests with commercial terms, of the freight service
          documents,   \* requests whose financial document is active
          receivable,  \* [Requests -> Receivable]
          receiptBook, \* [Requests -> Seq(Posting)]
          receiptCall  \* [ReceiptCalls -> NoReceipt or a call to commit]

billingVars == <<termed, documents>>
receiptVars == <<billingVars, receivable, receiptBook, receiptCall>>

(* fiscal: fiscal_document_id is set, to the request's document.           *)
Receivable == [status : {"absent", "open", "partial", "paid", "cancelled"},
               invoiced : Nat, fiscal : BOOLEAN]

NoReceivable == [status |-> "absent", invoiced |-> 0, fiscal |-> FALSE]

ReceivableInit ==
    /\ termed = {}
    /\ documents = Requests
    /\ receivable = [r \in Requests |-> NoReceivable]
    /\ receiptBook = [r \in Requests |-> <<>>]
    /\ receiptCall = [k \in ReceiptCalls |-> NoReceipt]

-----------------------------------------------------------------------------
ReceivableFree(r) ==
    \A k \in ReceiptCalls : receiptCall[k] # NoReceipt => receiptCall[k].request # r

(* What every insert and update of a receivable asks of other tables.      *)
ReceivableGuard(r, fiscal) ==
    /\ r \in termed
    /\ fiscal => r \in documents

WriteReceivable(k, r, row, postings) ==
    /\ receiptCall[k] = NoReceipt
    /\ ReceivableFree(r)
    /\ ReceivableGuard(r, row.fiscal)
    /\ receiptCall' = [receiptCall EXCEPT ![k] =
           [request |-> r, row |-> row, postings |-> postings]]
    /\ UNCHANGED <<billingVars, receivable, receiptBook>>

CommitReceipt(k) ==
    /\ receiptCall[k] # NoReceipt
    /\ LET r == receiptCall[k].request
       IN  /\ receivable' = [receivable EXCEPT ![r] = receiptCall[k].row]
           /\ receiptBook' = [receiptBook EXCEPT ![r] = @ \o receiptCall[k].postings]
    /\ receiptCall' = [receiptCall EXCEPT ![k] = NoReceipt]
    /\ UNCHANGED billingVars

RollBackReceipt(k) ==
    /\ receiptCall[k] # NoReceipt
    /\ receiptCall' = [receiptCall EXCEPT ![k] = NoReceipt]
    /\ UNCHANGED <<billingVars, receivable, receiptBook>>

CreateReceivable(k, r, invoiced, fiscal) ==
    /\ receivable[r].status = "absent"
    /\ WriteReceivable(k, r,
           [status |-> "open", invoiced |-> invoiced, fiscal |-> fiscal], <<>>)

Receiving(r) == receivable[r].status \notin {"absent", "cancelled"}

(* The guard recomputes the status of the row it lets through.             *)
Settled(r, book, fiscal) ==
    [receivable[r] EXCEPT !.status = Settlement(Net(book), receivable[r].invoiced),
                          !.fiscal = fiscal]

UpdateReceivable(k, r, fiscal) ==
    /\ Receiving(r)
    /\ WriteReceivable(k, r, Settled(r, receiptBook[r], fiscal), <<>>)

CancelReceivable(k, r) ==
    /\ Receiving(r)
    /\ Net(receiptBook[r]) <= 0
    /\ WriteReceivable(k, r, [receivable[r] EXCEPT !.status = "cancelled"], <<>>)

(* createTransaction; a receipt may bring a proof, an active document.     *)
ReceiptAllowed(r, posting) ==
    IF posting.kind = "entry"
    THEN Net(receiptBook[r]) + posting.amount <= receivable[r].invoiced
    ELSE posting.of \in Reversible(receiptBook[r])

CreateReceipt(k, r, posting, proof) ==
    /\ Receiving(r)
    /\ Len(receiptBook[r]) < MaxReceipts
    /\ proof => r \in documents
    /\ ReceiptAllowed(r, posting)
    /\ WriteReceivable(k, r,
           Settled(r, Append(receiptBook[r], posting), receivable[r].fiscal),
           <<posting>>)

ReceiptPostings(r) ==
    {EntryOf(amount) : amount \in ReceiptAmounts}
        \cup {ReversalOf(receiptBook[r], i) : i \in DOMAIN receiptBook[r]}

-----------------------------------------------------------------------------
(* The freight service writes the terms, which are never deleted, and the  *)
(* document service deletes documents softly.                              *)
DefineTerms(r) == /\ r \notin termed
                  /\ termed' = termed \cup {r}
                  /\ UNCHANGED <<documents, receivable, receiptBook, receiptCall>>

DeleteDocument(r) == /\ r \in documents
                     /\ documents' = documents \ {r}
                     /\ UNCHANGED <<termed, receivable, receiptBook, receiptCall>>

ReceiptStep(k) ==
    \/ \E r \in Requests :
          \/ \E fiscal \in BOOLEAN :
                \/ UpdateReceivable(k, r, fiscal)
                \/ \E invoiced \in InvoicedAmounts :
                      CreateReceivable(k, r, invoiced, fiscal)
          \/ CancelReceivable(k, r)
          \/ \E posting \in ReceiptPostings(r), proof \in BOOLEAN :
                CreateReceipt(k, r, posting, proof)
    \/ CommitReceipt(k)
    \/ RollBackReceipt(k)

ReceivableEnv == \E r \in Requests : DefineTerms(r) \/ DeleteDocument(r)

ReceivableNext == (\E k \in ReceiptCalls : ReceiptStep(k)) \/ ReceivableEnv

ReceivableSpec == ReceivableInit /\ [][ReceivableNext]_receiptVars

-----------------------------------------------------------------------------
ReceivableTypeOK ==
    /\ termed \subseteq Requests
    /\ documents \subseteq Requests
    /\ receivable \in [Requests -> Receivable]
    /\ receiptBook \in [Requests -> Seq(Posting)]
    /\ receiptCall \in [ReceiptCalls ->
           {NoReceipt} \cup [request : Requests, row : Receivable,
                             postings : Seq(Posting)]]

(* The requests' accounts, as MoneyLedger sees them.                       *)
Receivables == INSTANCE MoneyLedger WITH
    Accounts <- Requests, Limits <- InvoicedAmounts, Places <- MaxReceipts,
    held <- [r \in Requests |-> Outstanding(receiptBook[r], MaxReceipts)],
    limit <- [r \in Requests |-> receivable[r].invoiced],
    state <- [r \in Requests |-> receivable[r].status]

ReceivablesImplementLedger == Receivables!LedgerSpec
=============================================================================
