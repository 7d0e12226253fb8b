--------------------------- MODULE Reconciliation ---------------------------
(***************************************************************************)
(* Bank entries matched with the books (finance-reconciliation.service.ts  *)
(* and the triggers of migrations 0039 and 0040): an entry is imported,    *)
(* given a suggestion, reconciled by a posting that it makes in the book   *)
(* of its target, reopened by taking that posting back, or ignored.  The   *)
(* books are also used directly, by CarrierPayments and                    *)
(* CustomerReceivables; a call that posts holds the row of its entry until *)
(* it commits.                                                             *)
(***************************************************************************)
EXTENDS CarrierPayments, CustomerReceivables

CONSTANTS Debits, Credits,  \* bank entries, by direction
          EntryAmount,      \* [Debits \cup Credits -> Nat \ {0}]
          Affinity,         \* [Entries -> [Targets -> 0..65]]: the points of
                            \* reference, date and counterparty
          NoTarget, NoTask

(* A call is of one of the two services, a target has one of the books.    *)
ASSUME ReconciliationAssumption ==
    /\ PaymentCalls \cap ReceiptCalls = {}
    /\ Contracts \cap Requests = {}
    /\ EntryAmount \in [Debits \cup Credits -> Nat \ {0}]

BankEntries == Debits \cup Credits
Targets == Contracts \cup Requests
Calls == PaymentCalls \cup ReceiptCalls

VARIABLES bankEntry,  \* [BankEntries -> BankEntry]
          matches,    \* [BankEntries -> Seq(Match)]
          task        \* [Calls -> NoTask or what the call does to an entry]

matchVars == <<bankEntry, matches, task>>
financeVars == <<payVars, receiptVars, matchVars>>

BankEntry == [status : {"absent", "pending", "suggested", "divergent",
                        "reconciled", "ignored"},
              suggested : Targets \cup {NoTarget}]

Match == [target : Targets, posting : Nat, status : {"active", "reversed"}]

MatchInit ==
    /\ bankEntry = [e \in BankEntries |-> [status |-> "absent", suggested |-> NoTarget]]
    /\ matches = [e \in BankEntries |-> <<>>]
    /\ task = [k \in Calls |-> NoTask]

Book(t) == IF t \in Contracts THEN payBook[t] ELSE receiptBook[t]

-----------------------------------------------------------------------------
(* SELECT ... FOR UPDATE of the entry, or of its match and the entry.      *)
EntryFree(e) == \A k \in Calls : task[k] # NoTask => task[k].entry # e

Undecided(e) == bankEntry[e].status \in {"pending", "suggested", "divergent"}

Active(ms) == {i \in DOMAIN ms : ms[i].status = "active"}

(* The trigger of financial_reconciliation_entries.                        *)
EntryGuard(old, new, ms) ==
    /\ old = "ignored" => new = "ignored"
    /\ old = "reconciled" /\ new # old =>
           new = "divergent" /\ Active(ms) = {} /\ ms # <<>>
    /\ new = "reconciled" => Active(ms) # {}

SetEntry(e, status, target, ms) ==
    /\ EntryGuard(bankEntry[e].status, status, ms)
    /\ bankEntry' = [bankEntry EXCEPT ![e] = [status |-> status, suggested |-> target]]

CreateImport(batch) ==
    /\ \A e \in batch : bankEntry[e].status = "absent"
    /\ bankEntry' = [e \in BankEntries |->
           IF e \in batch THEN [bankEntry[e] EXCEPT !.status = "pending"]
                          ELSE bankEntry[e]]
    /\ UNCHANGED <<payVars, receiptVars, matches, task>>

Balance(t) == IF t \in Contracts THEN ContractAmount - Net(payBook[t])
                                 ELSE receivable[t].invoiced - Net(receiptBook[t])

Candidates(e) ==
    {t \in IF e \in Credits THEN {r \in Requests : Receiving(r)}
                            ELSE {c \in Contracts : Payable(c)} :
        Balance(t) >= EntryAmount[e]}

Score(e, t) ==
    LET amountPoints == IF Balance(t) = EntryAmount[e] THEN 45 ELSE 30
        total == amountPoints + Affinity[e][t]
    IN  IF total > 100 THEN 100 ELSE total

(* A score of 70 or more, 10 ahead of every other candidate.               *)
Unambiguous(e) ==
    {t \in Candidates(e) :
        /\ Score(e, t) >= 70
        /\ \A u \in Candidates(e) \ {t} : Score(e, t) - Score(e, u) >= 10}

Suggest(e) ==
    /\ EntryFree(e)
    /\ Undecided(e)
    /\ IF Unambiguous(e) = {}
       THEN SetEntry(e, "divergent", NoTarget, matches[e])
       ELSE \E t \in Unambiguous(e) : SetEntry(e, "suggested", t, matches[e])
    /\ UNCHANGED <<payVars, receiptVars, matches, task>>

Ignore(e) ==
    /\ EntryFree(e)
    /\ Undecided(e)
    /\ SetEntry(e, "ignored", NoTarget, matches[e])
    /\ UNCHANGED <<payVars, receiptVars, matches, task>>

(* The ledger transaction of a call, in the book of its target.            *)
InsertLedger(k, t, posting) ==
    \/ /\ k \in PaymentCalls /\ t \in Contracts
       /\ CreatePayment(k, t, posting)
       /\ UNCHANGED receiptVars
    \/ /\ k \in ReceiptCalls /\ t \in Requests
       /\ CreateReceipt(k, t, posting, FALSE)
       /\ UNCHANGED payVars

CommitLedger(k) ==
    \/ k \in PaymentCalls /\ CommitPayment(k) /\ UNCHANGED receiptVars
    \/ k \in ReceiptCalls /\ CommitReceipt(k) /\ UNCHANGED payVars

(* method suggested asks for the suggestion the entry holds now.           *)
Reconcile(k, e, t, method) ==
    /\ EntryFree(e)
    /\ Undecided(e)
    /\ t \in (IF e \in Credits THEN Requests ELSE Contracts)
    /\ method = "suggested" =>
           bankEntry[e].status = "suggested" /\ bankEntry[e].suggested = t
    /\ InsertLedger(k, t, EntryOf(EntryAmount[e]))
    /\ task' = [task EXCEPT ![k] = [op |-> "reconcile", entry |-> e, target |-> t]]
    /\ UNCHANGED <<bankEntry, matches>>

FinishReconcile(k) ==
    /\ task[k] # NoTask /\ task[k].op = "reconcile"
    /\ Active(matches[task[k].entry]) = {}  \* matches_active_entry_unique
    /\ LET e == task[k].entry
           t == task[k].target
           ms == Append(matches[e], [target |-> t, posting |-> Len(Book(t)) + 1,
                                     status |-> "active"])
       IN  /\ matches' = [matches EXCEPT ![e] = ms]
           /\ SetEntry(e, "reconciled", bankEntry[e].suggested, ms)
    /\ CommitLedger(k)
    /\ task' = [task EXCEPT ![k] = NoTask]

(* A slip: the latest posting of the target is taken back.                 *)
ReverseLatest(k, e) ==
    /\ EntryFree(e)
    /\ \E i \in Active(matches[e]) :
          LET t == matches[e][i].target
          IN  /\ InsertLedger(k, t, ReversalOf(Book(t), Len(Book(t))))
              /\ task' = [task EXCEPT ![k] = [op |-> "reverse", entry |-> e, target |-> t]]
    /\ UNCHANGED <<bankEntry, matches>>

ReverseMatch(k, e) ==
    /\ EntryFree(e)
    /\ \E i \in Active(matches[e]) :
          LET t == matches[e][i].target
          IN  /\ InsertLedger(k, t, ReversalOf(Book(t), matches[e][i].posting))
              /\ task' = [task EXCEPT ![k] = [op |-> "reverse", entry |-> e, target |-> t]]
    /\ UNCHANGED <<bankEntry, matches>>

FinishReverseMatch(k) ==
    /\ task[k] # NoTask /\ task[k].op = "reverse"
    /\ LET e == task[k].entry
           ms == [i \in DOMAIN matches[e] |->
                     [matches[e][i] EXCEPT !.status = "reversed"]]
       IN  /\ matches' = [matches EXCEPT ![e] = ms]
           /\ SetEntry(e, "divergent", NoTarget, ms)
    /\ CommitLedger(k)
    /\ task' = [task EXCEPT ![k] = NoTask]

(* Any failure undoes the whole transaction, the posting included.         *)
RollBackTask(k) ==
    /\ task[k] # NoTask
    /\ \/ k \in PaymentCalls /\ RollBackPayment(k) /\ UNCHANGED receiptVars
       \/ k \in ReceiptCalls /\ RollBackReceipt(k) /\ UNCHANGED payVars
    /\ task' = [task EXCEPT ![k] = NoTask]
    /\ UNCHANGED <<bankEntry, matches>>

MatchNext ==
    \/ \E batch \in (SUBSET BankEntries) \ {{}} : CreateImport(batch)
    \/ \E e \in BankEntries :
          \/ Suggest(e)
          \/ Ignore(e)
          \/ \E k \in Calls : ReverseMatch(k, e)
          \/ \E k \in Calls, t \in Targets, method \in {"suggested", "manual"} :
                Reconcile(k, e, t, method)
    \/ \E k \in Calls : FinishReconcile(k) \/ FinishReverseMatch(k) \/ RollBackTask(k)

(* The books used directly, by the calls of their own services.            *)
BooksNext ==
    /\ \/ /\ \/ \E k \in PaymentCalls : task[k] = NoTask /\ PaymentStep(k)
             \/ PaymentEnv
          /\ UNCHANGED receiptVars
       \/ /\ \/ \E k \in ReceiptCalls : task[k] = NoTask /\ ReceiptStep(k)
             \/ ReceivableEnv
          /\ UNCHANGED payVars
    /\ UNCHANGED matchVars

FinanceInit == PaymentInit /\ ReceivableInit /\ MatchInit

FinanceNext == BooksNext \/ MatchNext

FinanceSpec == FinanceInit /\ [][FinanceNext]_financeVars

-----------------------------------------------------------------------------
MatchTypeOK ==
    /\ bankEntry \in [BankEntries -> BankEntry]
    /\ matches \in [BankEntries -> Seq(Match)]
    /\ task \in [Calls -> {NoTask} \cup [op : {"reconcile", "reverse"},
                                         entry : BankEntries, target : Targets]]

FinanceTypeOK == PaymentTypeOK /\ ReceivableTypeOK /\ MatchTypeOK

(* The postings behind the matches of an entry, in the books.              *)
Backing(e) == {<<m.target, m.posting>> : m \in Range(matches[e])}

(* A reconciled entry has one active match, any other entry has none; the  *)
(* posting of a match is an entry of the bank entry's amount in the book   *)
(* of its target, it backs no other match, and once the match is reversed  *)
(* it was taken back.                                                      *)
ReconciledIsBacked ==
    \A e \in BankEntries :
        /\ Cardinality(Active(matches[e])) =
               (IF bankEntry[e].status = "reconciled" THEN 1 ELSE 0)
        /\ Cardinality(Backing(e)) = Len(matches[e])
        /\ \A other \in BankEntries \ {e} : Backing(e) \cap Backing(other) = {}
        /\ \A m \in Range(matches[e]) :
              /\ m.posting \in DOMAIN Book(m.target)
              /\ Book(m.target)[m.posting] = EntryOf(EntryAmount[e])
              /\ m.status = "reversed" => IsReversed(Book(m.target), m.posting)

(* The accounts keep their promise with the bank entries posting to them.  *)
AccountsImplementLedger == PayablesImplementLedger /\ ReceivablesImplementLedger
=============================================================================
