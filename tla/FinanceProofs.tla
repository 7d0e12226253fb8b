---------------------------- MODULE FinanceProofs ----------------------------
(***************************************************************************)
(* Proofs about the books and the bank entries, for any number of          *)
(* accounts, postings and calls: the match behind a reconciled entry, the  *)
(* obligations of cancelled contracts, and that every account keeps the    *)
(* promise of MoneyLedger.  The sums of the books are recursive functions; *)
(* what they do to a posting is proved by induction over the numbers,      *)
(* stated of a set.                                                        *)
(***************************************************************************)
EXTENDS Reconciliation, WellFoundedInduction, SequenceTheorems, FiniteSetTheorems, TLAPS

-----------------------------------------------------------------------------
(* Books and bank entries.                                                 *)

\* The transaction that call k has open in a book.
Drafted(k) == IF k \in PaymentCalls THEN payCall[k] # NoCall ELSE receiptCall[k] # NoReceipt
DraftTarget(k) == IF k \in PaymentCalls THEN payCall[k].contract ELSE receiptCall[k].request
DraftPostings(k) == IF k \in PaymentCalls THEN payCall[k].postings ELSE receiptCall[k].postings

LedgerInv ==
    /\ payBook \in [Contracts -> Seq(Posting)]
    /\ receiptBook \in [Requests -> Seq(Posting)]
    /\ DOMAIN payCall = PaymentCalls /\ DOMAIN receiptCall = ReceiptCalls
    /\ \A k \in Calls : Drafted(k) =>
          /\ DraftTarget(k) \in (IF k \in PaymentCalls THEN Contracts ELSE Requests)
          /\ DraftPostings(k) \in Seq(Posting)

\* What an open call is about to do to its entry.
TaskHolds(k) == task[k] # NoTask =>
    /\ task[k].op \in {"reconcile", "reverse"}
    /\ task[k].entry \in BankEntries /\ task[k].target \in Targets
    /\ Drafted(k) =>
          /\ DraftTarget(k) = task[k].target
          /\ task[k].op = "reconcile" =>
                DraftPostings(k) = <<EntryOf(EntryAmount[task[k].entry])>>
          /\ task[k].op = "reverse" =>
                \E p \in Posting :
                   /\ DraftPostings(k) = <<p>> /\ p.kind = "reversal"
                   /\ \A i \in Active(matches[task[k].entry]) :
                         /\ matches[task[k].entry][i].target = task[k].target
                         /\ matches[task[k].entry][i].posting = p.of

\* FOR UPDATE: an entry is in the hands of one call.
OneTaskEach ==
    \A j, k \in Calls :
        task[j] # NoTask /\ task[k] # NoTask /\ task[j].entry = task[k].entry => j = k

MatchHolds(e, m) ==
    /\ m.posting \in DOMAIN Book(m.target)
    /\ Book(m.target)[m.posting] = EntryOf(EntryAmount[e])
    /\ m.status = "reversed" => IsReversed(Book(m.target), m.posting)

EntryHolds(e) ==
    /\ \A i, j \in Active(matches[e]) : i = j
    /\ Active(matches[e]) # {} <=> bankEntry[e].status = "reconciled"
    /\ \A i \in DOMAIN matches[e] : MatchHolds(e, matches[e][i])

\* No posting backs two matches.
PostingsApart ==
    \A e, f \in BankEntries : \A i \in DOMAIN matches[e], j \in DOMAIN matches[f] :
        matches[e][i].target = matches[f][j].target
        /\ matches[e][i].posting = matches[f][j].posting => e = f /\ i = j

MatchInv ==
    /\ DOMAIN bankEntry = BankEntries
    /\ matches \in [BankEntries -> Seq(Match)]
    /\ DOMAIN task = Calls
    /\ \A k \in Calls : TaskHolds(k)
    /\ OneTaskEach
    /\ \A e \in BankEntries : EntryHolds(e)
    /\ PostingsApart

FinanceInv == LedgerInv /\ MatchInv

\* A book only grows.
Grown(b, c) == DOMAIN b \subseteq DOMAIN c /\ \A i \in DOMAIN b : c[i] = b[i]

\* The transaction of call k stays as it is.
SameDraft(k) == IF k \in PaymentCalls THEN payCall'[k] = payCall[k]
                                      ELSE receiptCall'[k] = receiptCall[k]

\* What was posted stays posted.
LEMMA MatchFrame ==
  ASSUME NEW e, NEW m, MatchHolds(e, m), Grown(Book(m.target), Book(m.target)')
  PROVE  MatchHolds(e, m)'
BY DEF MatchHolds, Grown, IsReversed

\* A book with one more posting.
LEMMA Posted ==
  ASSUME NEW b \in Seq(Posting), NEW s \in Seq(Posting)
  PROVE  b \o s \in Seq(Posting) /\ Grown(b, b \o s)
<1>1. /\ b \o s \in Seq(Posting) /\ Len(b \o s) = Len(b) + Len(s)
      /\ \A i \in 1..Len(b) + Len(s) :
           (b \o s)[i] = IF i <= Len(b) THEN b[i] ELSE s[i - Len(b)]
  BY ConcatProperties
<1>2. /\ DOMAIN b = 1..Len(b) /\ Len(b) \in Nat /\ Len(s) \in Nat
      /\ DOMAIN (b \o s) = 1..Len(b \o s)
  BY <1>1, LenProperties
<1> QED BY <1>1, <1>2 DEF Grown

\* The posting appended takes the next number.
LEMMA PostedOne ==
  ASSUME NEW b \in Seq(Posting), NEW p \in Posting
  PROVE  /\ Len(b) + 1 \in DOMAIN (b \o <<p>>) /\ Len(b) + 1 \notin DOMAIN b
         /\ Len(b) + 1 \in Nat
         /\ (b \o <<p>>)[Len(b) + 1] = p
<1>1. <<p>> \in Seq(Posting) /\ Len(<<p>>) = 1 /\ <<p>>[1] = p
  OBVIOUS
<1>2. /\ b \o <<p>> \in Seq(Posting) /\ Len(b \o <<p>>) = Len(b) + 1
      /\ \A i \in 1..Len(b) + 1 :
           (b \o <<p>>)[i] = IF i <= Len(b) THEN b[i] ELSE <<p>>[i - Len(b)]
  BY <1>1, ConcatProperties
<1>3. /\ DOMAIN b = 1..Len(b) /\ Len(b) \in Nat
      /\ DOMAIN (b \o <<p>>) = 1..Len(b \o <<p>>)
  BY <1>2, LenProperties
<1> QED BY <1>1, <1>2, <1>3

\* A call that opens a transaction leaves the books and the other calls alone.
Opens(k, t, postings) ==
    /\ LedgerInv'
    /\ \A u \in Targets : Book(u)' = Book(u)
    /\ \A j \in Calls \ {k} : SameDraft(j)
    /\ Drafted(k)' => DraftTarget(k)' = t /\ DraftPostings(k)' = postings

\* A payment call opens its transaction.
LEMMA PayOpens ==
  ASSUME LedgerInv, NEW k \in PaymentCalls, NEW c \in Contracts, NEW row,
         NEW postings \in Seq(Posting), WriteObligation(k, c, row, postings),
         UNCHANGED receiptVars
  PROVE  Opens(k, c, postings)
<1>1. /\ payCall' = [payCall EXCEPT ![k] =
             [contract |-> c, row |-> row, postings |-> postings]]
      /\ UNCHANGED <<payBook, receiptBook, receiptCall>>
      /\ DOMAIN payCall = PaymentCalls
  BY DEF WriteObligation, receiptVars, LedgerInv
<1>2. \A u \in Targets : Book(u)' = Book(u)
  BY <1>1 DEF Book
<1>3. \A j \in Calls \ {k} : SameDraft(j)
  BY <1>1 DEF SameDraft, Calls
<1>4. DraftTarget(k)' = c /\ DraftPostings(k)' = postings
  BY <1>1 DEF DraftTarget, DraftPostings
<1>5. ASSUME NEW j \in Calls, Drafted(j)'
      PROVE  /\ DraftTarget(j)' \in (IF j \in PaymentCalls THEN Contracts ELSE Requests)
             /\ DraftPostings(j)' \in Seq(Posting)
  <2>1. CASE j = k
    BY <1>4, <2>1
  <2>2. CASE j # k
    <3>1. /\ Drafted(j) /\ DraftTarget(j)' = DraftTarget(j)
          /\ DraftPostings(j)' = DraftPostings(j)
      BY <1>3, <1>5, <2>2 DEF SameDraft, Drafted, DraftTarget, DraftPostings
    <3> QED BY <3>1 DEF LedgerInv
  <2> QED BY <2>1, <2>2
<1>6. LedgerInv'
  BY <1>1, <1>5 DEF LedgerInv
<1> QED BY <1>2, <1>3, <1>4, <1>6 DEF Opens

\* A receipt call opens its transaction.
LEMMA ReceiptOpens ==
  ASSUME LedgerInv, NEW k \in ReceiptCalls, NEW r \in Requests, NEW row,
         NEW postings \in Seq(Posting), WriteReceivable(k, r, row, postings),
         UNCHANGED payVars
  PROVE  Opens(k, r, postings)
<1>0. k \notin PaymentCalls
  BY ReconciliationAssumption
<1>1. /\ receiptCall' = [receiptCall EXCEPT ![k] =
             [request |-> r, row |-> row, postings |-> postings]]
      /\ UNCHANGED <<receiptBook, payBook, payCall>>
      /\ DOMAIN receiptCall = ReceiptCalls
  BY DEF WriteReceivable, payVars, LedgerInv
<1>2. \A u \in Targets : Book(u)' = Book(u)
  BY <1>1 DEF Book
<1>3. \A j \in Calls \ {k} : SameDraft(j)
  BY <1>1 DEF SameDraft, Calls
<1>4. DraftTarget(k)' = r /\ DraftPostings(k)' = postings
  BY <1>0, <1>1 DEF DraftTarget, DraftPostings
<1>5. ASSUME NEW j \in Calls, Drafted(j)'
      PROVE  /\ DraftTarget(j)' \in (IF j \in PaymentCalls THEN Contracts ELSE Requests)
             /\ DraftPostings(j)' \in Seq(Posting)
  <2>1. CASE j = k
    BY <1>0, <1>4, <2>1
  <2>2. CASE j # k
    <3>1. /\ Drafted(j) /\ DraftTarget(j)' = DraftTarget(j)
          /\ DraftPostings(j)' = DraftPostings(j)
      BY <1>3, <1>5, <2>2 DEF SameDraft, Drafted, DraftTarget, DraftPostings
    <3> QED BY <3>1 DEF LedgerInv
  <2> QED BY <2>1, <2>2
<1>6. LedgerInv'
  BY <1>1, <1>5 DEF LedgerInv
<1> QED BY <1>2, <1>3, <1>4, <1>6 DEF Opens

\* A commit appends what the call has drafted, to the book it has locked.
LEMMA CommitLedgerStep ==
  ASSUME LedgerInv, NEW k \in Calls, CommitLedger(k)
  PROVE  /\ LedgerInv' /\ Drafted(k)
         /\ \A t \in Targets :
              Book(t)' = IF t = DraftTarget(k) THEN Book(t) \o DraftPostings(k) ELSE Book(t)
         /\ \A j \in Calls \ {k} : SameDraft(j)
<1>1. CASE k \in PaymentCalls
  <2>1. /\ CommitPayment(k) /\ UNCHANGED <<receiptBook, receiptCall>>
        /\ DOMAIN payCall = PaymentCalls /\ Drafted(k)
    BY <1>1, ReconciliationAssumption
       DEF CommitLedger, CommitPayment, LedgerInv, receiptVars, Drafted
  <2> DEFINE c == DraftTarget(k)
             s == DraftPostings(k)
  <2>2. /\ c \in Contracts /\ s \in Seq(Posting)
        /\ payBook' = [payBook EXCEPT ![c] = @ \o s]
        /\ payCall' = [payCall EXCEPT ![k] = NoCall]
    BY <1>1, <2>1 DEF CommitPayment, LedgerInv, Drafted, DraftTarget, DraftPostings
  <2> HIDE DEF c, s
  <2>3. /\ payBook \in [Contracts -> Seq(Posting)] /\ receiptBook \in [Requests -> Seq(Posting)]
    BY DEF LedgerInv
  <2>4. payBook[c] \o s \in Seq(Posting)
    BY <2>2, <2>3, Posted
  <2>5. payBook' \in [Contracts -> Seq(Posting)]
    BY <2>2, <2>3, <2>4
  <2>6. \A t \in Targets : Book(t)' = IF t = c THEN Book(t) \o s ELSE Book(t)
    BY <2>1, <2>2, <2>3 DEF Book
  <2>7. \A j \in Calls \ {k} : SameDraft(j)
    BY <2>1, <2>2 DEF SameDraft, Calls
  <2>8. ASSUME NEW j \in Calls, Drafted(j)'
        PROVE  /\ DraftTarget(j)' \in (IF j \in PaymentCalls THEN Contracts ELSE Requests)
               /\ DraftPostings(j)' \in Seq(Posting)
    <3>1. j # k
      BY <1>1, <2>1, <2>2, <2>8 DEF Drafted
    <3>2. /\ Drafted(j) /\ DraftTarget(j)' = DraftTarget(j)
          /\ DraftPostings(j)' = DraftPostings(j)
      BY <2>7, <2>8, <3>1 DEF SameDraft, Drafted, DraftTarget, DraftPostings
    <3> QED BY <3>2 DEF LedgerInv
  <2>9. LedgerInv'
    BY <2>1, <2>2, <2>3, <2>5, <2>8 DEF LedgerInv
  <2> QED BY <2>1, <2>6, <2>7, <2>9 DEF c, s
<1>2. CASE k \notin PaymentCalls
  <2>1. /\ k \in ReceiptCalls /\ CommitReceipt(k) /\ UNCHANGED <<payBook, payCall>>
        /\ DOMAIN receiptCall = ReceiptCalls /\ Drafted(k)
    BY <1>2 DEF CommitLedger, CommitReceipt, LedgerInv, payVars, Drafted
  <2> DEFINE r == DraftTarget(k)
             s == DraftPostings(k)
  <2>2. /\ r \in Requests /\ r \notin Contracts /\ s \in Seq(Posting)
        /\ receiptBook' = [receiptBook EXCEPT ![r] = @ \o s]
        /\ receiptCall' = [receiptCall EXCEPT ![k] = NoReceipt]
    BY <1>2, <2>1, ReconciliationAssumption
       DEF CommitReceipt, LedgerInv, Drafted, DraftTarget, DraftPostings
  <2> HIDE DEF r, s
  <2>3. /\ payBook \in [Contracts -> Seq(Posting)] /\ receiptBook \in [Requests -> Seq(Posting)]
    BY DEF LedgerInv
  <2>4. receiptBook[r] \o s \in Seq(Posting)
    BY <2>2, <2>3, Posted
  <2>5. receiptBook' \in [Requests -> Seq(Posting)]
    BY <2>2, <2>3, <2>4
  <2>6. \A t \in Targets : Book(t)' = IF t = r THEN Book(t) \o s ELSE Book(t)
    BY <2>1, <2>2, <2>3 DEF Book, Targets
  <2>7. \A j \in Calls \ {k} : SameDraft(j)
    BY <2>1, <2>2 DEF SameDraft, Calls
  <2>8. ASSUME NEW j \in Calls, Drafted(j)'
        PROVE  /\ DraftTarget(j)' \in (IF j \in PaymentCalls THEN Contracts ELSE Requests)
               /\ DraftPostings(j)' \in Seq(Posting)
    <3>1. j # k
      BY <1>2, <2>1, <2>2, <2>8 DEF Drafted
    <3>2. /\ Drafted(j) /\ DraftTarget(j)' = DraftTarget(j)
          /\ DraftPostings(j)' = DraftPostings(j)
      BY <2>7, <2>8, <3>1 DEF SameDraft, Drafted, DraftTarget, DraftPostings
    <3> QED BY <3>2 DEF LedgerInv
  <2>9. LedgerInv'
    BY <2>1, <2>2, <2>3, <2>5, <2>8 DEF LedgerInv
  <2> QED BY <2>1, <2>6, <2>7, <2>9 DEF r, s
<1> QED BY <1>1, <1>2

\* Whatever it appends, a book grows.
LEMMA CommitGrows ==
  ASSUME LedgerInv, NEW k \in Calls, CommitLedger(k)
  PROVE  \A t \in Targets : Grown(Book(t), Book(t)')
<1> SUFFICES ASSUME NEW t \in Targets PROVE Grown(Book(t), Book(t)')
  OBVIOUS
<1>1. Book(t) \in Seq(Posting)
  BY DEF LedgerInv, Book, Targets
<1>2. DraftPostings(k) \in Seq(Posting)
  BY CommitLedgerStep DEF LedgerInv
<1>3. CASE t = DraftTarget(k)
  BY <1>1, <1>2, <1>3, CommitLedgerStep, Posted
<1>4. CASE t # DraftTarget(k)
  BY <1>4, CommitLedgerStep DEF Grown
<1> QED BY <1>3, <1>4

\* A transaction undone leaves the books as they were.
LEMMA RollBackLedger ==
  ASSUME LedgerInv, NEW k \in Calls,
         \/ k \in PaymentCalls /\ RollBackPayment(k) /\ UNCHANGED receiptVars
         \/ k \in ReceiptCalls /\ RollBackReceipt(k) /\ UNCHANGED payVars
  PROVE  /\ LedgerInv'
         /\ \A t \in Targets : Book(t)' = Book(t)
         /\ \A j \in Calls \ {k} : SameDraft(j)
<1>1. /\ UNCHANGED <<payBook, receiptBook>>
      /\ DOMAIN payCall' = PaymentCalls /\ DOMAIN receiptCall' = ReceiptCalls
      /\ \A j \in Calls : \/ j # k /\ SameDraft(j)
                          \/ j = k /\ ~ Drafted(j)'
  BY ReconciliationAssumption DEF RollBackPayment, RollBackReceipt, payVars, receiptVars,
     LedgerInv, SameDraft, Drafted, Calls
<1>2. \A t \in Targets : Book(t)' = Book(t)
  BY <1>1 DEF Book
<1>3. ASSUME NEW j \in Calls, Drafted(j)'
      PROVE  /\ DraftTarget(j)' \in (IF j \in PaymentCalls THEN Contracts ELSE Requests)
             /\ DraftPostings(j)' \in Seq(Posting)
  <2>1. /\ Drafted(j) /\ DraftTarget(j)' = DraftTarget(j)
        /\ DraftPostings(j)' = DraftPostings(j)
    BY <1>1, <1>3 DEF SameDraft, Drafted, DraftTarget, DraftPostings
  <2> QED BY <2>1 DEF LedgerInv
<1> QED BY <1>1, <1>2, <1>3 DEF LedgerInv

\* What a service may post is a posting.
LEMMA PostingsTyped ==
  /\ \A amount \in Nat : EntryOf(amount) \in Posting
  /\ \A b \in Seq(Posting) : \A i \in DOMAIN b : ReversalOf(b, i) \in Posting
<1>1. \A amount \in Nat : EntryOf(amount) \in Posting
  BY DEF EntryOf, Posting
<1>2. ASSUME NEW b \in Seq(Posting), NEW i \in DOMAIN b
      PROVE  ReversalOf(b, i) \in Posting
  <2>1. b[i] \in Posting /\ i \in Nat
    BY <1>2
  <2> QED BY <2>1 DEF ReversalOf, Posting
<1> QED BY <1>1, <1>2

\* The books used directly, by a call that is about no bank entry.
DirectStep(k) ==
    /\ LedgerInv'
    /\ \A t \in Targets : Grown(Book(t), Book(t)')
    /\ \A j \in Calls \ {k} : SameDraft(j)

\* To open a transaction is such a use.
LEMMA OpensDirect ==
  ASSUME NEW k, NEW t, NEW postings, Opens(k, t, postings)
  PROVE  DirectStep(k)
BY DEF Opens, DirectStep, Grown

\* So is every step of a payment call.
LEMMA PaymentDirect ==
  ASSUME LedgerInv, NEW k \in PaymentCalls, PaymentStep(k), UNCHANGED receiptVars
  PROVE  DirectStep(k)
<1>0. k \in Calls /\ <<>> \in Seq(Posting)
  BY DEF Calls
<1>1. ASSUME NEW c \in Contracts, NEW row, WriteObligation(k, c, row, <<>>)
      PROVE  DirectStep(k)
  <2>1. Opens(k, c, <<>>)
    BY <1>0, <1>1, PayOpens
  <2> QED BY <2>1, OpensDirect
<1>2. ASSUME NEW c \in Contracts, NEW posting \in PaymentPostings(c),
             CreatePayment(k, c, posting)
      PROVE  DirectStep(k)
  <2>1. payBook[c] \in Seq(Posting) /\ PaymentAmounts \subseteq Nat
    BY PaymentAssumption DEF LedgerInv
  <2>2. posting \in Posting
    BY <2>1, PostingsTyped DEF PaymentPostings
  <2>3. <<posting>> \in Seq(Posting)
    BY <2>2
  <2>4. \E row : WriteObligation(k, c, row, <<posting>>)
    BY <1>2 DEF CreatePayment
  <2>5. Opens(k, c, <<posting>>)
    BY <2>3, <2>4, PayOpens
  <2> QED BY <2>5, OpensDirect
<1>3. ASSUME CommitPayment(k) PROVE DirectStep(k)
  <2>1. CommitLedger(k)
    BY <1>3 DEF CommitLedger
  <2> QED BY <1>0, <2>1, CommitLedgerStep, CommitGrows DEF DirectStep
<1>4. ASSUME RollBackPayment(k) PROVE DirectStep(k)
  BY <1>0, <1>4, RollBackLedger DEF DirectStep, Grown
<1> QED BY <1>1, <1>2, <1>3, <1>4
       DEF PaymentStep, CreateObligation, UpdateObligation, CancelObligation

\* And every step of a receipt call.
LEMMA ReceiptDirect ==
  ASSUME LedgerInv, NEW k \in ReceiptCalls, ReceiptStep(k), UNCHANGED payVars
  PROVE  DirectStep(k)
<1>0. k \in Calls /\ <<>> \in Seq(Posting)
  BY DEF Calls
<1>1. ASSUME NEW r \in Requests, NEW row, WriteReceivable(k, r, row, <<>>)
      PROVE  DirectStep(k)
  <2>1. Opens(k, r, <<>>)
    BY <1>0, <1>1, ReceiptOpens
  <2> QED BY <2>1, OpensDirect
<1>2. ASSUME NEW r \in Requests, NEW posting \in ReceiptPostings(r), NEW proved,
             CreateReceipt(k, r, posting, proved)
      PROVE  DirectStep(k)
  <2>1. receiptBook[r] \in Seq(Posting) /\ ReceiptAmounts \subseteq Nat
    BY ReceivableAssumption DEF LedgerInv
  <2>2. posting \in Posting
    BY <2>1, PostingsTyped DEF ReceiptPostings
  <2>3. <<posting>> \in Seq(Posting)
    BY <2>2
  <2>4. \E row : WriteReceivable(k, r, row, <<posting>>)
    BY <1>2 DEF CreateReceipt
  <2>5. Opens(k, r, <<posting>>)
    BY <2>3, <2>4, ReceiptOpens
  <2> QED BY <2>5, OpensDirect
<1>3. ASSUME CommitReceipt(k) PROVE DirectStep(k)
  <2>1. CommitLedger(k)
    BY <1>3 DEF CommitLedger
  <2> QED BY <1>0, <2>1, CommitLedgerStep, CommitGrows DEF DirectStep
<1>4. ASSUME RollBackReceipt(k) PROVE DirectStep(k)
  BY <1>0, <1>4, RollBackLedger DEF DirectStep, Grown
<1> QED BY <1>1, <1>2, <1>3, <1>4
       DEF ReceiptStep, CreateReceivable, UpdateReceivable, CancelReceivable

\* A step of the other services, or none at all.
LEMMA LedgerStill ==
  ASSUME LedgerInv, UNCHANGED <<payBook, payCall, receiptBook, receiptCall>>
  PROVE  /\ LedgerInv'
         /\ \A t \in Targets : Grown(Book(t), Book(t)')
         /\ \A j \in Calls : SameDraft(j)
<1>1. \A t \in Targets : Grown(Book(t), Book(t)')
  BY DEF Grown, Book
<1>2. \A j \in Calls : SameDraft(j)
  BY DEF SameDraft
<1>3. LedgerInv'
  BY DEF LedgerInv, Drafted, DraftTarget, DraftPostings
<1> QED BY <1>1, <1>2, <1>3

\* The calls that use the books directly touch no transaction of a task.
LEMMA BooksNextStep ==
  ASSUME LedgerInv, BooksNext
  PROVE  /\ LedgerInv' /\ UNCHANGED matchVars
         /\ \A t \in Targets : Grown(Book(t), Book(t)')
         /\ \A j \in Calls : task[j] # NoTask => SameDraft(j)
<1>1. UNCHANGED matchVars
  BY DEF BooksNext
<1>2. ASSUME NEW k \in Calls, task[k] = NoTask, DirectStep(k)
      PROVE  /\ LedgerInv' /\ \A t \in Targets : Grown(Book(t), Book(t)')
             /\ \A j \in Calls : task[j] # NoTask => SameDraft(j)
  BY <1>2 DEF DirectStep
<1>3. CASE \E k \in PaymentCalls : task[k] = NoTask /\ PaymentStep(k) /\ UNCHANGED receiptVars
  <2>1. PICK k \in PaymentCalls : task[k] = NoTask /\ PaymentStep(k) /\ UNCHANGED receiptVars
    BY <1>3
  <2>2. k \in Calls /\ DirectStep(k)
    BY <2>1, PaymentDirect DEF Calls
  <2> QED BY <1>1, <1>2, <2>1, <2>2
<1>4. CASE \E k \in ReceiptCalls : task[k] = NoTask /\ ReceiptStep(k) /\ UNCHANGED payVars
  <2>1. PICK k \in ReceiptCalls : task[k] = NoTask /\ ReceiptStep(k) /\ UNCHANGED payVars
    BY <1>4
  <2>2. k \in Calls /\ DirectStep(k)
    BY <2>1, ReceiptDirect DEF Calls
  <2> QED BY <1>1, <1>2, <2>1, <2>2
<1>5. CASE \/ PaymentEnv /\ UNCHANGED receiptVars
           \/ ReceivableEnv /\ UNCHANGED payVars
  <2>1. UNCHANGED <<payBook, payCall, receiptBook, receiptCall>>
    BY <1>5 DEF PaymentEnv, EndContract, UnlinkTrip, ReceivableEnv, DefineTerms,
       DeleteDocument, payVars, receiptVars
  <2> QED BY <1>1, <2>1, LedgerStill
<1> QED BY <1>3, <1>4, <1>5 DEF BooksNext

-----------------------------------------------------------------------------
(* Bank entries.                                                           *)

\* What an open task is about lasts while its transaction and its entry do.
LEMMA TaskFrame ==
  ASSUME NEW k \in Calls, TaskHolds(k), task[k] # NoTask => SameDraft(k),
         task'[k] = task[k], matches'[task[k].entry] = matches[task[k].entry]
  PROVE  TaskHolds(k)'
BY DEF TaskHolds, SameDraft, Drafted, DraftTarget, DraftPostings, Active

\* The columns of a match.
LEMMA MatchRow ==
  ASSUME MatchInv, NEW e \in BankEntries, NEW i \in DOMAIN matches[e]
  PROVE  /\ i \in 1..Len(matches[e]) /\ matches[e][i] \in Match
         /\ matches[e][i].target \in Targets /\ matches[e][i].posting \in Nat
         /\ matches[e][i].status \in {"active", "reversed"}
         /\ MatchHolds(e, matches[e][i])
<1>1. matches[e] \in Seq(Match) /\ MatchHolds(e, matches[e][i])
  BY DEF MatchInv, EntryHolds
<1>2. i \in 1..Len(matches[e]) /\ matches[e][i] \in Match
  BY <1>1
<1> QED BY <1>1, <1>2 DEF Match

\* The matches stay, their books grow, no entry enters or leaves "reconciled".
LEMMA EntriesStay ==
  ASSUME FinanceInv, LedgerInv', UNCHANGED <<matches, task>>,
         \A t \in Targets : Grown(Book(t), Book(t)'),
         \A j \in Calls : task[j] # NoTask => SameDraft(j),
         DOMAIN bankEntry' = BankEntries,
         \A e \in BankEntries :
            bankEntry'[e].status = "reconciled" <=> bankEntry[e].status = "reconciled"
  PROVE  FinanceInv'
<1>1. \A k \in Calls : TaskHolds(k)'
  BY TaskFrame DEF FinanceInv, MatchInv
<1>2. ASSUME NEW e \in BankEntries PROVE EntryHolds(e)'
  <2>1. ASSUME NEW i \in DOMAIN matches[e] PROVE MatchHolds(e, matches[e][i])'
    <3>1. matches[e][i].target \in Targets /\ MatchHolds(e, matches[e][i])
      BY MatchRow DEF FinanceInv
    <3>2. PICK m : m = matches[e][i]
      OBVIOUS
    <3>3. MatchHolds(e, m)'
      BY <3>1, <3>2, MatchFrame
    <3> QED BY <3>2, <3>3
  <2> QED BY <2>1 DEF FinanceInv, MatchInv, EntryHolds, Active
<1>3. OneTaskEach' /\ PostingsApart'
  BY DEF FinanceInv, MatchInv, OneTaskEach, PostingsApart
<1> QED BY <1>1, <1>2, <1>3 DEF FinanceInv, MatchInv

\* Imports, suggestions and entries ignored: none of them reconciled.
LEMMA EntryStep ==
  ASSUME FinanceInv,
         \/ \E batch \in (SUBSET BankEntries) \ {{}} : CreateImport(batch)
         \/ \E e \in BankEntries : Suggest(e) \/ Ignore(e)
  PROVE  FinanceInv'
<1>1. /\ UNCHANGED <<payBook, payCall, receiptBook, receiptCall, matches, task>>
      /\ DOMAIN bankEntry = BankEntries /\ LedgerInv
  BY DEF CreateImport, Suggest, Ignore, payVars, receiptVars, FinanceInv, MatchInv
<1>2. /\ DOMAIN bankEntry' = BankEntries
      /\ \A e \in BankEntries :
            bankEntry'[e].status = "reconciled" <=> bankEntry[e].status = "reconciled"
  <2>1. ASSUME NEW batch \in SUBSET BankEntries, CreateImport(batch)
        PROVE  /\ DOMAIN bankEntry' = BankEntries
               /\ \A e \in BankEntries :
                     bankEntry'[e].status = "reconciled" <=> bankEntry[e].status = "reconciled"
    <3>1. \A e \in batch : bankEntry[e].status = "absent"
      BY <2>1 DEF CreateImport
    <3>2. bankEntry' = [e \in BankEntries |->
             IF e \in batch THEN [bankEntry[e] EXCEPT !.status = "pending"]
                            ELSE bankEntry[e]]
      BY <2>1 DEF CreateImport
    <3>3. \A e \in batch : bankEntry'[e].status # "reconciled"
      BY <3>2
    <3> QED BY <3>1, <3>2, <3>3
  <2>2. ASSUME NEW e \in BankEntries, NEW s \in {"divergent", "suggested", "ignored"}, NEW t,
               Undecided(e), SetEntry(e, s, t, matches[e])
        PROVE  /\ DOMAIN bankEntry' = BankEntries
               /\ \A f \in BankEntries :
                     bankEntry'[f].status = "reconciled" <=> bankEntry[f].status = "reconciled"
    <3>1. bankEntry' = [bankEntry EXCEPT ![e] = [status |-> s, suggested |-> t]]
      BY <2>2 DEF SetEntry
    <3>2. bankEntry'[e].status = s /\ bankEntry[e].status # "reconciled"
      BY <1>1, <2>2, <3>1 DEF Undecided
    <3> QED BY <1>1, <3>1, <3>2
  <2> QED BY <2>1, <2>2 DEF Suggest, Ignore
<1> QED BY <1>1, <1>2, LedgerStill, EntriesStay DEF FinanceInv

\* A call that takes an entry and opens its transaction in a book.
LEMMA BeginTask ==
  ASSUME FinanceInv, NEW k \in Calls, NEW e \in BankEntries, NEW t \in Targets,
         NEW op \in {"reconcile", "reverse"}, NEW p \in Posting,
         EntryFree(e), Opens(k, t, <<p>>), UNCHANGED <<bankEntry, matches>>,
         task' = [task EXCEPT ![k] = [op |-> op, entry |-> e, target |-> t]],
         op = "reconcile" => p = EntryOf(EntryAmount[e]),
         op = "reverse" =>
            /\ p.kind = "reversal"
            /\ \A i \in Active(matches[e]) :
                  matches[e][i].target = t /\ matches[e][i].posting = p.of
  PROVE  FinanceInv'
<1>1. /\ LedgerInv' /\ \A u \in Targets : Book(u)' = Book(u)
      /\ \A j \in Calls \ {k} : SameDraft(j)
      /\ Drafted(k)' => DraftTarget(k)' = t /\ DraftPostings(k)' = <<p>>
  BY DEF Opens
<1>2. /\ DOMAIN task = Calls /\ DOMAIN task' = Calls
      /\ \A j \in Calls \ {k} : task'[j] = task[j] /\ TaskHolds(j)
  BY DEF FinanceInv, MatchInv
<1> DEFINE what == [op |-> op, entry |-> e, target |-> t]
<1>3. task'[k] = what
  BY <1>2
<1>4. what.op = op /\ what.entry = e /\ what.target = t
  OBVIOUS
<1> HIDE DEF what
<1>5. TaskHolds(k)'
  <2>1. CASE op = "reconcile"
    BY <1>1, <1>3, <1>4, <2>1 DEF TaskHolds
  <2>2. CASE op = "reverse"
    BY <1>1, <1>3, <1>4, <2>2 DEF TaskHolds, Active
  <2> QED BY <2>1, <2>2
<1>6. \A j \in Calls \ {k} : TaskHolds(j)'
  BY <1>1, <1>2, TaskFrame
<1>7. OneTaskEach'
  BY <1>2, <1>3, <1>4 DEF FinanceInv, MatchInv, OneTaskEach, EntryFree
<1>8. ASSUME NEW f \in BankEntries PROVE EntryHolds(f)'
  <2>1. ASSUME NEW i \in DOMAIN matches[f] PROVE MatchHolds(f, matches[f][i])'
    <3>1. matches[f][i].target \in Targets /\ MatchHolds(f, matches[f][i])
      BY MatchRow DEF FinanceInv
    <3>2. PICK m : m = matches[f][i]
      OBVIOUS
    <3>3. MatchHolds(f, m)'
      BY <1>1, <3>1, <3>2, MatchFrame DEF Grown
    <3> QED BY <3>2, <3>3
  <2> QED BY <2>1 DEF FinanceInv, MatchInv, EntryHolds, Active
<1>9. PostingsApart'
  BY DEF FinanceInv, MatchInv, PostingsApart
<1> QED BY <1>1, <1>2, <1>5, <1>6, <1>7, <1>8, <1>9 DEF FinanceInv, MatchInv

\* Which book a call can post to.
LEMMA InsertOpens ==
  ASSUME FinanceInv, NEW k \in Calls, NEW t \in Targets, NEW p \in Posting,
         InsertLedger(k, t, p)
  PROVE  Opens(k, t, <<p>>)
<1>1. LedgerInv /\ <<p>> \in Seq(Posting)
  BY DEF FinanceInv
<1>2. CASE /\ k \in PaymentCalls /\ t \in Contracts
           /\ CreatePayment(k, t, p) /\ UNCHANGED receiptVars
  <2>1. \E row : WriteObligation(k, t, row, <<p>>)
    BY <1>2 DEF CreatePayment
  <2> QED BY <1>1, <1>2, <2>1, PayOpens
<1>3. CASE /\ k \in ReceiptCalls /\ t \in Requests
           /\ CreateReceipt(k, t, p, FALSE) /\ UNCHANGED payVars
  <2>1. \E row : WriteReceivable(k, t, row, <<p>>)
    BY <1>3 DEF CreateReceipt
  <2> QED BY <1>1, <1>3, <2>1, ReceiptOpens
<1> QED BY <1>2, <1>3 DEF InsertLedger

\* Reconcile drafts the posting of an entry, and holds the entry.
LEMMA ReconcileStep ==
  ASSUME FinanceInv, NEW k \in Calls, NEW e \in BankEntries, NEW t \in Targets, NEW method,
         Reconcile(k, e, t, method)
  PROVE  FinanceInv'
<1> DEFINE p == EntryOf(EntryAmount[e])
<1>1. p \in Posting
  BY PostingsTyped, ReconciliationAssumption DEF BankEntries
<1>2. /\ EntryFree(e) /\ InsertLedger(k, t, p) /\ UNCHANGED <<bankEntry, matches>>
      /\ task' = [task EXCEPT ![k] = [op |-> "reconcile", entry |-> e, target |-> t]]
  BY DEF Reconcile
<1>3. Opens(k, t, <<p>>)
  BY <1>1, <1>2, InsertOpens
<1> HIDE DEF p
<1>4. "reconcile" \in {"reconcile", "reverse"} /\ "reconcile" # "reverse"
  OBVIOUS
<1> QED BY <1>1, <1>2, <1>3, <1>4, BeginTask DEF p

\* The reversal of an active match names its posting; there is no other match.
LEMMA ReverseMatchStep ==
  ASSUME FinanceInv, NEW k \in Calls, NEW e \in BankEntries, ReverseMatch(k, e)
  PROVE  FinanceInv'
<1>1. PICK i \in Active(matches[e]) :
        LET t == matches[e][i].target
        IN  /\ InsertLedger(k, t, ReversalOf(Book(t), matches[e][i].posting))
            /\ task' = [task EXCEPT ![k] = [op |-> "reverse", entry |-> e, target |-> t]]
  BY DEF ReverseMatch
<1> DEFINE t == matches[e][i].target
           n == matches[e][i].posting
           p == ReversalOf(Book(t), n)
<1>2. i \in DOMAIN matches[e] /\ t \in Targets /\ MatchHolds(e, matches[e][i])
  BY MatchRow DEF FinanceInv, Active
<1>3. Book(t) \in Seq(Posting) /\ n \in DOMAIN Book(t)
  BY <1>2 DEF FinanceInv, LedgerInv, Book, Targets, MatchHolds
<1>4. p \in Posting /\ p.kind = "reversal" /\ p.of = n
  BY <1>3, PostingsTyped DEF ReversalOf
<1>5. \A j \in Active(matches[e]) : matches[e][j].target = t /\ matches[e][j].posting = n
  BY DEF FinanceInv, MatchInv, EntryHolds
<1>6. /\ EntryFree(e) /\ UNCHANGED <<bankEntry, matches>> /\ InsertLedger(k, t, p)
      /\ task' = [task EXCEPT ![k] = [op |-> "reverse", entry |-> e, target |-> t]]
  BY <1>1 DEF ReverseMatch
<1> HIDE DEF t, n, p
<1>7. Opens(k, t, <<p>>)
  BY <1>2, <1>4, <1>6, InsertOpens DEF t
<1>8. "reverse" \in {"reconcile", "reverse"} /\ "reconcile" # "reverse" /\ t \in Targets
  BY <1>2 DEF t
<1> QED BY <1>4, <1>5, <1>6, <1>7, <1>8, BeginTask

\* A task ends: its own transaction is over, the others' go on.
LEMMA OtherTasks ==
  ASSUME FinanceInv, NEW k \in Calls, task[k] # NoTask,
         \A j \in Calls \ {k} : SameDraft(j),
         task' = [task EXCEPT ![k] = NoTask],
         \A f \in BankEntries \ {task[k].entry} : matches'[f] = matches[f]
  PROVE  /\ DOMAIN task' = Calls /\ OneTaskEach'
         /\ \A j \in Calls : TaskHolds(j)'
<1>1. /\ DOMAIN task = Calls /\ DOMAIN task' = Calls /\ task'[k] = NoTask
      /\ \A j \in Calls \ {k} : task'[j] = task[j] /\ TaskHolds(j)
  BY DEF FinanceInv, MatchInv
<1>2. OneTaskEach'
  BY <1>1 DEF FinanceInv, MatchInv, OneTaskEach
<1>3. ASSUME NEW j \in Calls \ {k} PROVE TaskHolds(j)'
  <2>1. CASE task[j] = NoTask
    BY <1>1, <2>1 DEF TaskHolds
  <2>2. CASE task[j] # NoTask
    <3>1. task[j].entry \in BankEntries /\ task[j].entry # task[k].entry
      BY <1>1, <2>2 DEF TaskHolds, FinanceInv, MatchInv, OneTaskEach
    <3>2. matches'[task[j].entry] = matches[task[j].entry]
      BY <3>1
    <3> QED BY <1>1, <3>2, TaskFrame
  <2> QED BY <2>1, <2>2
<1>4. TaskHolds(k)'
  BY <1>1 DEF TaskHolds
<1> QED BY <1>1, <1>2, <1>3, <1>4

\* A call that gives up leaves its entry as it was.
LEMMA RollBackTaskStep ==
  ASSUME FinanceInv, NEW k \in Calls, RollBackTask(k)
  PROVE  FinanceInv'
<1>1. /\ task[k] # NoTask /\ UNCHANGED <<bankEntry, matches>>
      /\ task' = [task EXCEPT ![k] = NoTask]
      /\ LedgerInv' /\ \A t \in Targets : Book(t)' = Book(t)
      /\ \A j \in Calls \ {k} : SameDraft(j)
  BY RollBackLedger DEF RollBackTask, FinanceInv
<1>2. /\ DOMAIN task' = Calls /\ OneTaskEach' /\ \A j \in Calls : TaskHolds(j)'
  BY <1>1, OtherTasks
<1>3. ASSUME NEW f \in BankEntries PROVE EntryHolds(f)'
  <2>1. ASSUME NEW i \in DOMAIN matches[f] PROVE MatchHolds(f, matches[f][i])'
    <3>1. matches[f][i].target \in Targets /\ MatchHolds(f, matches[f][i])
      BY MatchRow DEF FinanceInv
    <3>2. PICK m : m = matches[f][i]
      OBVIOUS
    <3>3. MatchHolds(f, m)'
      BY <1>1, <3>1, <3>2, MatchFrame DEF Grown
    <3> QED BY <1>1, <3>2, <3>3
  <2> QED BY <1>1, <2>1 DEF FinanceInv, MatchInv, EntryHolds, Active
<1>4. PostingsApart'
  BY <1>1 DEF FinanceInv, MatchInv, PostingsApart
<1> QED BY <1>1, <1>2, <1>3, <1>4 DEF FinanceInv, MatchInv

\* The entry of a task that ends is the only one whose matches change.
LEMMA OtherEntries ==
  ASSUME FinanceInv, NEW e \in BankEntries, NEW f \in BankEntries, f # e,
         \A t \in Targets : Grown(Book(t), Book(t)'),
         matches'[f] = matches[f],
         bankEntry'[f] = bankEntry[f]
  PROVE  EntryHolds(f)'
<1>1. ASSUME NEW i \in DOMAIN matches[f] PROVE MatchHolds(f, matches[f][i])'
  <2>1. matches[f][i].target \in Targets /\ MatchHolds(f, matches[f][i])
    BY MatchRow DEF FinanceInv
  <2>2. PICK m : m = matches[f][i]
    OBVIOUS
  <2>3. MatchHolds(f, m)'
    BY <2>1, <2>2, MatchFrame
  <2> QED BY <2>2, <2>3
<1> QED BY <1>1 DEF FinanceInv, MatchInv, EntryHolds, Active

\* The match names the posting that its transaction appends: nothing was there.
LEMMA FinishReconcileStep ==
  ASSUME FinanceInv, NEW k \in Calls, FinishReconcile(k)
  PROVE  FinanceInv'
<1>0. PICK e, t, n, p, new, ms :
        /\ e = task[k].entry /\ t = task[k].target
        /\ n = Len(Book(t)) + 1 /\ p = EntryOf(EntryAmount[e])
        /\ new = [target |-> t, posting |-> n, status |-> "active"]
        /\ ms = Append(matches[e], new)
  OBVIOUS
<1>1. /\ task[k] # NoTask /\ task[k].op = "reconcile" /\ CommitLedger(k)
      /\ Active(matches[e]) = {}
      /\ task' = [task EXCEPT ![k] = NoTask]
      /\ matches' = [matches EXCEPT ![e] = ms]
      /\ bankEntry' = [bankEntry EXCEPT ![e] =
            [status |-> "reconciled", suggested |-> bankEntry[e].suggested]]
  BY <1>0 DEF FinishReconcile, SetEntry
<1>2. /\ e \in BankEntries /\ t \in Targets /\ LedgerInv
      /\ matches \in [BankEntries -> Seq(Match)] /\ matches[e] \in Seq(Match)
      /\ DOMAIN bankEntry = BankEntries
  BY <1>0, <1>1 DEF FinanceInv, MatchInv, TaskHolds
<1>3. /\ LedgerInv' /\ Drafted(k)
      /\ \A u \in Targets : Grown(Book(u), Book(u)')
      /\ \A j \in Calls \ {k} : SameDraft(j)
      /\ Book(t)' = Book(t) \o <<p>>
  <2>1. Drafted(k) => DraftTarget(k) = t /\ DraftPostings(k) = <<p>>
    BY <1>0, <1>1 DEF FinanceInv, MatchInv, TaskHolds
  <2> QED BY <1>1, <1>2, <2>1, CommitLedgerStep, CommitGrows
<1>4. p \in Posting /\ Book(t) \in Seq(Posting)
  BY <1>0, <1>2, PostingsTyped, ReconciliationAssumption
     DEF BankEntries, LedgerInv, Book, Targets
<1>5. n \in DOMAIN Book(t)' /\ n \notin DOMAIN Book(t) /\ n \in Nat /\ Book(t)'[n] = p
  BY <1>0, <1>3, <1>4, PostedOne
<1>6. /\ new \in Match /\ new.target = t /\ new.posting = n /\ new.status = "active"
  BY <1>0, <1>2, <1>5 DEF Match
<1>7. MatchHolds(e, new)'
  BY <1>0, <1>3, <1>5, <1>6 DEF MatchHolds
<1>8. /\ ms \in Seq(Match) /\ Len(ms) = Len(matches[e]) + 1 /\ Len(matches[e]) \in Nat
      /\ \A i \in 1..Len(matches[e]) : ms[i] = matches[e][i]
      /\ ms[Len(matches[e]) + 1] = new
      /\ DOMAIN ms = 1..(Len(matches[e]) + 1) /\ DOMAIN matches[e] = 1..Len(matches[e])
  BY <1>0, <1>2, <1>6
<1>9. /\ matches' \in [BankEntries -> Seq(Match)] /\ matches'[e] = ms
      /\ \A f \in BankEntries \ {e} : matches'[f] = matches[f]
      /\ DOMAIN bankEntry' = BankEntries /\ bankEntry'[e].status = "reconciled"
      /\ \A f \in BankEntries \ {e} : bankEntry'[f] = bankEntry[f]
  BY <1>1, <1>2, <1>8
<1>10. DOMAIN task' = Calls /\ OneTaskEach' /\ \A j \in Calls : TaskHolds(j)'
  BY <1>1, <1>3, <1>9, <1>0, OtherTasks
<1>11. Active(ms) = {Len(matches[e]) + 1}
  BY <1>1, <1>6, <1>8 DEF Active
<1>12. EntryHolds(e)'
  <2>1. ASSUME NEW i \in DOMAIN ms PROVE MatchHolds(e, matches[e][i])'
    <3>1. CASE i \in DOMAIN matches[e]
      <4>1. matches[e][i].target \in Targets /\ MatchHolds(e, matches[e][i])
        BY <1>2, <3>1, MatchRow DEF FinanceInv
      <4>2. PICK m : m = matches[e][i]
        OBVIOUS
      <4>3. MatchHolds(e, m)'
        BY <1>3, <4>1, <4>2, MatchFrame
      <4>4. matches'[e][i] = m
        BY <1>8, <1>9, <3>1, <4>2
      <4> QED BY <4>3, <4>4
    <3>2. CASE i = Len(matches[e]) + 1
      <4>1. matches'[e][i] = new
        BY <1>8, <1>9, <3>2
      <4> QED BY <1>7, <4>1
    <3> QED BY <1>8, <3>1, <3>2
  <2>2. Active(matches[e])' = {Len(matches[e]) + 1}
    BY <1>9, <1>11 DEF Active
  <2> QED BY <1>9, <2>1, <2>2 DEF EntryHolds
<1>13. \A f \in BankEntries \ {e} : EntryHolds(f)'
  BY <1>2, <1>3, <1>9, OtherEntries
<1>14. ASSUME NEW f \in BankEntries, NEW i \in DOMAIN matches[f]
       PROVE  ~ (matches[f][i].target = t /\ matches[f][i].posting = n)
  BY <1>5, MatchRow DEF FinanceInv, MatchHolds
<1>15. PostingsApart'
  <2> SUFFICES ASSUME NEW f \in BankEntries, NEW g \in BankEntries,
                      NEW i \in DOMAIN matches'[f], NEW j \in DOMAIN matches'[g],
                      matches'[f][i].target = matches'[g][j].target,
                      matches'[f][i].posting = matches'[g][j].posting
               PROVE  f = g /\ i = j
    BY DEF PostingsApart
  <2>0. PICK last : last = Len(matches[e]) + 1
    OBVIOUS
  <2>1. ASSUME NEW h \in BankEntries, NEW l \in DOMAIN matches'[h]
        PROVE  \/ h = e /\ l = last
               \/ l \in DOMAIN matches[h] /\ matches'[h][l] = matches[h][l]
    <3>1. CASE h = e
      <4>1. matches'[h] = ms /\ l \in 1..last
        BY <1>8, <1>9, <2>0, <3>1
      <4>2. CASE l = last
        BY <3>1, <4>2
      <4>3. CASE l # last
        <5>1. l \in 1..Len(matches[e])
          BY <1>8, <2>0, <4>1, <4>3
        <5> QED BY <1>8, <3>1, <4>1, <5>1
      <4> QED BY <4>2, <4>3
    <3>2. CASE h # e
      BY <1>9, <3>2
    <3> QED BY <3>1, <3>2
  <2>2. matches'[e][last].target = t /\ matches'[e][last].posting = n
    BY <1>6, <1>8, <1>9, <2>0
  <2>3. ASSUME NEW h \in BankEntries, NEW l \in DOMAIN matches[h],
               matches'[h][l] = matches[h][l]
        PROVE  ~ (matches'[h][l].target = t /\ matches'[h][l].posting = n)
    BY <1>14, <2>3
  <2>4. CASE f = e /\ i = last
    BY <2>1, <2>2, <2>3, <2>4
  <2>5. CASE g = e /\ j = last
    BY <2>1, <2>2, <2>3, <2>5
  <2>6. CASE ~ (f = e /\ i = last) /\ ~ (g = e /\ j = last)
    <3>1. /\ i \in DOMAIN matches[f] /\ matches'[f][i] = matches[f][i]
          /\ j \in DOMAIN matches[g] /\ matches'[g][j] = matches[g][j]
      BY <2>1, <2>6
    <3>2. /\ matches[f][i].target = matches[g][j].target
          /\ matches[f][i].posting = matches[g][j].posting
      BY <3>1
    <3> QED BY <3>1, <3>2 DEF FinanceInv, MatchInv, PostingsApart
  <2> QED BY <2>4, <2>5, <2>6
<1> QED BY <1>3, <1>9, <1>10, <1>12, <1>13, <1>15 DEF FinanceInv, MatchInv

\* The match that was active is reversed with its posting.
LEMMA FinishReverseStep ==
  ASSUME FinanceInv, NEW k \in Calls, FinishReverseMatch(k)
  PROVE  FinanceInv'
<1>0. PICK e, t, ms :
        /\ e = task[k].entry /\ t = task[k].target
        /\ ms = [i \in DOMAIN matches[e] |-> [matches[e][i] EXCEPT !.status = "reversed"]]
  OBVIOUS
<1>1. /\ task[k] # NoTask /\ task[k].op = "reverse" /\ CommitLedger(k)
      /\ task' = [task EXCEPT ![k] = NoTask]
      /\ matches' = [matches EXCEPT ![e] = ms]
      /\ bankEntry' = [bankEntry EXCEPT ![e] =
            [status |-> "divergent", suggested |-> NoTarget]]
  BY <1>0 DEF FinishReverseMatch, SetEntry
<1>2. /\ e \in BankEntries /\ t \in Targets /\ LedgerInv
      /\ matches \in [BankEntries -> Seq(Match)] /\ matches[e] \in Seq(Match)
      /\ DOMAIN bankEntry = BankEntries
  BY <1>0, <1>1 DEF FinanceInv, MatchInv, TaskHolds
<1>3. PICK p \in Posting :
         /\ Drafted(k) => DraftTarget(k) = t /\ DraftPostings(k) = <<p>>
         /\ p.kind = "reversal"
         /\ \A i \in Active(matches[e]) :
               matches[e][i].target = t /\ matches[e][i].posting = p.of
  <2>1. Drafted(k)
    BY <1>1, <1>2, CommitLedgerStep
  <2> QED BY <1>0, <1>1, <2>1 DEF FinanceInv, MatchInv, TaskHolds
<1>4. /\ LedgerInv' /\ \A u \in Targets : Grown(Book(u), Book(u)')
      /\ \A j \in Calls \ {k} : SameDraft(j)
      /\ Book(t)' = Book(t) \o <<p>>
  <2>1. Drafted(k)
    BY <1>1, <1>2, CommitLedgerStep
  <2> QED BY <1>1, <1>2, <1>3, <2>1, CommitLedgerStep, CommitGrows
<1>5. \A n : n = p.of => IsReversed(Book(t), n)'
  <2>1. Book(t) \in Seq(Posting)
    BY <1>2 DEF LedgerInv, Book, Targets
  <2>2. /\ Len(Book(t)) + 1 \in DOMAIN Book(t)'
        /\ Book(t)'[Len(Book(t)) + 1] = p
    BY <1>4, <2>1, PostedOne
  <2>3. \E j \in DOMAIN Book(t)' : Book(t)'[j] = p
    BY <2>2
  <2> QED BY <1>3, <2>3 DEF IsReversed
<1>6. /\ DOMAIN ms = DOMAIN matches[e] /\ DOMAIN matches[e] = 1..Len(matches[e])
      /\ Len(matches[e]) \in Nat
      /\ \A i \in DOMAIN matches[e] :
            /\ ms[i] \in Match /\ ms[i].target = matches[e][i].target
            /\ ms[i].posting = matches[e][i].posting /\ ms[i].status = "reversed"
  <2>1. DOMAIN ms = DOMAIN matches[e] /\ DOMAIN matches[e] = 1..Len(matches[e])
    BY <1>0, <1>2
  <2>2. ASSUME NEW i \in DOMAIN matches[e]
        PROVE  /\ ms[i] \in Match /\ ms[i].target = matches[e][i].target
               /\ ms[i].posting = matches[e][i].posting /\ ms[i].status = "reversed"
    <3>1. PICK m \in Match : m = matches[e][i]
      BY <1>2
    <3>2. ms[i] = [m EXCEPT !.status = "reversed"]
      BY <1>0, <3>1
    <3> QED BY <3>1, <3>2 DEF Match
  <2> QED BY <1>2, <2>1, <2>2
<1>7. ms \in Seq(Match)
  <2>1. ms \in [1..Len(matches[e]) -> Match]
    BY <1>0, <1>6
  <2> QED BY <1>6, <2>1
<1>8. /\ matches' \in [BankEntries -> Seq(Match)] /\ matches'[e] = ms
      /\ \A f \in BankEntries \ {e} : matches'[f] = matches[f]
      /\ DOMAIN bankEntry' = BankEntries /\ bankEntry'[e].status = "divergent"
      /\ \A f \in BankEntries \ {e} : bankEntry'[f] = bankEntry[f]
  BY <1>1, <1>2, <1>7
<1>9. DOMAIN task' = Calls /\ OneTaskEach' /\ \A j \in Calls : TaskHolds(j)'
  BY <1>1, <1>4, <1>8, <1>0, OtherTasks
<1>10. ASSUME NEW i \in DOMAIN ms PROVE MatchHolds(e, matches[e][i])'
  <2>1. /\ matches[e][i].target \in Targets /\ MatchHolds(e, matches[e][i])
        /\ matches[e][i].status \in {"active", "reversed"}
    BY <1>2, <1>6, MatchRow DEF FinanceInv
  <2>2. PICK m : m = matches[e][i]
    OBVIOUS
  <2>3. MatchHolds(e, m)'
    BY <1>4, <2>1, <2>2, MatchFrame
  <2>4. IsReversed(Book(m.target), m.posting)'
    <3>1. CASE m.status = "reversed"
      BY <2>3, <3>1 DEF MatchHolds
    <3>2. CASE m.status = "active"
      <4>1. i \in Active(matches[e])
        BY <1>6, <2>2, <3>2 DEF Active
      <4>2. m.target = t /\ m.posting = p.of
        BY <1>3, <2>2, <4>1
      <4> QED BY <1>5, <4>2
    <3> QED BY <2>1, <2>2, <3>1, <3>2
  <2>5. PICK z : z = matches'[e][i]
    OBVIOUS
  <2>6. z.target = m.target /\ z.posting = m.posting
    BY <1>6, <1>8, <2>2, <2>5
  <2>7. MatchHolds(e, z)'
    BY <2>3, <2>4, <2>6 DEF MatchHolds
  <2> QED BY <2>5, <2>7
<1>11. EntryHolds(e)'
  <2>1. Active(matches[e])' = {}
    BY <1>6, <1>8 DEF Active
  <2> QED BY <1>8, <1>10, <2>1 DEF EntryHolds
<1>12. \A f \in BankEntries \ {e} : EntryHolds(f)'
  BY <1>2, <1>4, <1>8, OtherEntries
<1>13. PostingsApart'
  <2>1. ASSUME NEW f \in BankEntries
        PROVE  /\ DOMAIN matches'[f] = DOMAIN matches[f]
               /\ \A i \in DOMAIN matches[f] :
                     /\ matches'[f][i].target = matches[f][i].target
                     /\ matches'[f][i].posting = matches[f][i].posting
    BY <1>6, <1>8
  <2> QED BY <2>1 DEF FinanceInv, MatchInv, PostingsApart
<1> QED BY <1>4, <1>8, <1>9, <1>11, <1>12, <1>13 DEF FinanceInv, MatchInv

\* Every step keeps the invariant.
LEMMA FinanceNextStep == FinanceInv /\ [FinanceNext]_financeVars => FinanceInv'
<1> SUFFICES ASSUME FinanceInv, [FinanceNext]_financeVars PROVE FinanceInv'
  OBVIOUS
<1>1. CASE UNCHANGED financeVars
  BY <1>1, LedgerStill, EntriesStay
     DEF financeVars, payVars, receiptVars, matchVars, FinanceInv, MatchInv
<1>2. CASE BooksNext
  BY <1>2, BooksNextStep, EntriesStay DEF FinanceInv, MatchInv, matchVars
<1>3. CASE MatchNext
  BY <1>3, EntryStep, ReconcileStep, ReverseMatchStep, FinishReconcileStep,
     FinishReverseStep, RollBackTaskStep DEF MatchNext
<1> QED BY <1>1, <1>2, <1>3 DEF FinanceNext

\* Nothing is posted or matched at first.
LEMMA FinanceInitStep == FinanceInit => FinanceInv
<1> SUFFICES ASSUME FinanceInit PROVE FinanceInv
  OBVIOUS
<1>1. LedgerInv
  BY ReconciliationAssumption DEF FinanceInit, PaymentInit, ReceivableInit, LedgerInv, Drafted, Calls
<1>2. MatchInv
  BY DEF FinanceInit, MatchInit, MatchInv, TaskHolds, OneTaskEach, EntryHolds,
     PostingsApart, Active
<1> QED BY <1>1, <1>2 DEF FinanceInv

\* The invariant of the books and the bank entries.
THEOREM FinanceInvariant == FinanceSpec => []FinanceInv
BY FinanceInitStep, FinanceNextStep, PTL DEF FinanceSpec

\* The postings behind the matches of an entry are as many as its matches.
LEMMA BackedOnce ==
  ASSUME FinanceInv, NEW e \in BankEntries
  PROVE  Cardinality(Backing(e)) = Len(matches[e])
<1> DEFINE n == Len(matches[e])
           f == [i \in 1..n |-> <<matches[e][i].target, matches[e][i].posting>>]
<1>1. matches[e] \in Seq(Match) /\ n \in Nat /\ DOMAIN matches[e] = 1..n
  BY DEF FinanceInv, MatchInv
<1>2. Backing(e) = {f[i] : i \in 1..n}
  BY <1>1 DEF Backing, Range
<1>3. \A i, j \in 1..n : f[i] = f[j] => i = j
  BY <1>1 DEF FinanceInv, MatchInv, PostingsApart
<1> HIDE DEF n
<1>4. f \in Bijection(1..n, Backing(e))
  <2>1. f \in [1..n -> Backing(e)]
    BY <1>2
  <2>2. \A b \in Backing(e) : \E i \in 1..n : f[i] = b
    BY <1>2
  <2> HIDE DEF f
  <2> QED BY <1>3, <2>1, <2>2 DEF Bijection, Injection, Surjection, IsInjective
<1>5. IsFiniteSet(1..n) /\ Cardinality(1..n) = n
  <2>1. /\ IsFiniteSet(1..n)
        /\ Cardinality(1..n) = IF 1 > n THEN 0 ELSE n - 1 + 1
    BY <1>1, FS_Interval
  <2> QED BY <1>1, <2>1
<1> HIDE DEF f
<1>6. ExistsBijection(1..n, Backing(e))
  BY <1>4 DEF ExistsBijection
<1>7. Cardinality(1..n) = Cardinality(Backing(e))
  BY <1>5, <1>6, FS_Bijection
<1> QED BY <1>5, <1>7 DEF n

\* ReconciledIsBacked: a reconciled entry has one active match and any other
\* none; the posting of a match is of the entry's amount, in the book of its
\* target, backs no other match, and is taken back once the match is reversed
\* (finance-reconciliation.service.ts, migrations 0039 and 0040).
THEOREM ReconciledBacked == FinanceSpec => []ReconciledIsBacked
<1>1. FinanceInv => ReconciledIsBacked
  <2> SUFFICES ASSUME FinanceInv, NEW e \in BankEntries
               PROVE  /\ Cardinality(Active(matches[e])) =
                             (IF bankEntry[e].status = "reconciled" THEN 1 ELSE 0)
                      /\ Cardinality(Backing(e)) = Len(matches[e])
                      /\ \A other \in BankEntries \ {e} : Backing(e) \cap Backing(other) = {}
                      /\ \A m \in Range(matches[e]) : MatchHolds(e, m)
    BY DEF ReconciledIsBacked, MatchHolds
  <2>1. EntryHolds(e)
    BY DEF FinanceInv, MatchInv
  <2>2. Cardinality(Active(matches[e])) =
           (IF bankEntry[e].status = "reconciled" THEN 1 ELSE 0)
    <3>1. CASE Active(matches[e]) = {}
      BY <2>1, <3>1, FS_EmptySet DEF EntryHolds
    <3>2. CASE Active(matches[e]) # {}
      <4>1. PICK i : Active(matches[e]) = {i}
        BY <2>1, <3>2 DEF EntryHolds
      <4>2. Cardinality(Active(matches[e])) = 1
        BY <4>1, FS_Singleton
      <4> QED BY <2>1, <3>2, <4>2 DEF EntryHolds
    <3> QED BY <3>1, <3>2
  <2>3. ASSUME NEW other \in BankEntries \ {e}
        PROVE  Backing(e) \cap Backing(other) = {}
    <3> SUFFICES ASSUME NEW i \in DOMAIN matches[e], NEW j \in DOMAIN matches[other],
                        <<matches[e][i].target, matches[e][i].posting>> =
                        <<matches[other][j].target, matches[other][j].posting>>
                 PROVE  FALSE
      BY DEF Backing, Range
    <3> QED BY DEF FinanceInv, MatchInv, PostingsApart
  <2>4. \A m \in Range(matches[e]) : MatchHolds(e, m)
    BY <2>1 DEF Range, EntryHolds
  <2> QED BY <2>2, <2>3, <2>4, BackedOnce
<1> QED BY <1>1, FinanceInvariant, PTL

\* What a step does to the obligations and the book of payments.
PayWrites ==
    \/ \E k \in PaymentCalls, c \in Contracts : \E row, postings :
          WriteObligation(k, c, row, postings)
    \/ \E k \in PaymentCalls : CommitPayment(k) \/ RollBackPayment(k)
    \/ PaymentEnv
    \/ UNCHANGED payVars

\* The posting behind a bank entry is written as any other.
LEMMA InsertWrites ==
  ASSUME NEW k, NEW t, NEW posting, InsertLedger(k, t, posting)
  PROVE  PayWrites
BY DEF InsertLedger, CreatePayment, PayWrites

\* No step touches the payments in another way.
LEMMA EveryPayWrite ==
  ASSUME [FinanceNext]_financeVars
  PROVE  PayWrites
<1>1. CASE UNCHANGED financeVars
  BY <1>1 DEF financeVars, PayWrites
<1>2. CASE BooksNext
  <2>1. ASSUME NEW k \in PaymentCalls, PaymentStep(k) PROVE PayWrites
    BY <2>1 DEF PaymentStep, CreateObligation, UpdateObligation, CancelObligation,
       CreatePayment, PayWrites
  <2> QED BY <1>2, <2>1 DEF BooksNext, PayWrites
<1>3. CASE MatchNext
  <2>1. ASSUME NEW k \in Calls, CommitLedger(k) PROVE PayWrites
    BY <2>1 DEF CommitLedger, PayWrites
  <2>2. ASSUME NEW batch, CreateImport(batch) PROVE PayWrites
    BY <2>2 DEF CreateImport, PayWrites
  <2>3. ASSUME NEW e, Suggest(e) \/ Ignore(e) PROVE PayWrites
    BY <2>3 DEF Suggest, Ignore, PayWrites
  <2>4. ASSUME NEW k, NEW e, ReverseMatch(k, e) PROVE PayWrites
    BY <2>4, InsertWrites DEF ReverseMatch
  <2>5. ASSUME NEW k, NEW e, NEW t, NEW method, Reconcile(k, e, t, method) PROVE PayWrites
    BY <2>5, InsertWrites DEF Reconcile
  <2>6. ASSUME NEW k \in Calls, FinishReconcile(k) \/ FinishReverseMatch(k) PROVE PayWrites
    BY <2>1, <2>6 DEF FinishReconcile, FinishReverseMatch
  <2>7. ASSUME NEW k \in Calls, RollBackTask(k) PROVE PayWrites
    BY <2>7 DEF RollBackTask, PayWrites
  <2> QED BY <1>3, <2>2, <2>3, <2>4, <2>5, <2>6, <2>7 DEF MatchNext
<1> QED BY <1>1, <1>2, <1>3 DEF FinanceNext

\* Every contract has its row.
PayRows == DOMAIN obligation = Contracts /\ DOMAIN contractStatus = Contracts

\* No contract appears or goes away.
LEMMA PayRowsStep == PayRows /\ [FinanceNext]_financeVars => PayRows'
BY EveryPayWrite DEF PayRows, PayWrites, WriteObligation, CommitPayment, RollBackPayment,
   PaymentEnv, EndContract, UnlinkTrip, contractVars, payVars

\* DeadObligationsStay: once a contract is cancelled and the calls that had
\* passed its guard are over, its obligation and its book never change
\* (assert_carrier_payment_obligation_consistency of migration 0036 refuses
\* every later statement).
THEOREM DeadStay == FinanceSpec => DeadObligationsStay
<1> DEFINE Stays == \A c \in Contracts :
             Dead(c) => /\ Dead(c)'
                        /\ obligation'[c] = obligation[c]
                        /\ payBook'[c] = payBook[c]
<1>1. FinanceInit => PayRows
  BY DEF FinanceInit, PaymentInit, PayRows
<1>2. FinanceInv /\ PayRows /\ [FinanceNext]_financeVars => [Stays]_payVars
  <2> SUFFICES ASSUME FinanceInv, PayRows, [FinanceNext]_financeVars,
                      NEW c \in Contracts, Dead(c)
               PROVE  /\ Dead(c)'
                      /\ obligation'[c] = obligation[c]
                      /\ payBook'[c] = payBook[c]
    OBVIOUS
  <2>0. /\ DOMAIN payCall = PaymentCalls /\ DOMAIN payBook = Contracts
        /\ DOMAIN obligation = Contracts /\ DOMAIN contractStatus = Contracts
        /\ contractStatus[c] = "cancelled"
        /\ \A k \in PaymentCalls : payCall[k] # NoCall => payCall[k].contract # c
    BY DEF FinanceInv, LedgerInv, PayRows, Dead, ObligationFree
  <2>1. ASSUME NEW k \in PaymentCalls, NEW d \in Contracts, NEW row, NEW postings,
               WriteObligation(k, d, row, postings)
        PROVE  /\ contractStatus' = contractStatus /\ obligation' = obligation
               /\ payBook' = payBook
               /\ \A j \in PaymentCalls :
                     payCall'[j] = payCall[j] \/ payCall'[j].contract # c
    <3>1. d # c
      BY <2>0, <2>1 DEF WriteObligation, ObligationGuard
    <3> QED BY <2>0, <2>1, <3>1 DEF WriteObligation, contractVars
  <2>2. ASSUME NEW k \in PaymentCalls, CommitPayment(k) \/ RollBackPayment(k)
        PROVE  /\ contractStatus' = contractStatus
               /\ obligation'[c] = obligation[c] /\ payBook'[c] = payBook[c]
               /\ \A j \in PaymentCalls :
                     payCall'[j] = payCall[j] \/ payCall'[j] = NoCall
    BY <2>0, <2>2 DEF CommitPayment, RollBackPayment, contractVars
  <2>3. ASSUME PaymentEnv
        PROVE  /\ contractStatus'[c] = contractStatus[c]
               /\ UNCHANGED <<obligation, payBook, payCall>>
    BY <2>0, <2>3 DEF PaymentEnv, EndContract, UnlinkTrip
  <2>4. /\ contractStatus'[c] = "cancelled"
        /\ obligation'[c] = obligation[c] /\ payBook'[c] = payBook[c]
        /\ \A j \in PaymentCalls : payCall'[j] # NoCall => payCall'[j].contract # c
    BY <2>0, <2>1, <2>2, <2>3, EveryPayWrite DEF PayWrites, payVars, contractVars
  <2> QED BY <2>4 DEF Dead, ObligationFree
<1>3. FinanceSpec => []PayRows
  BY <1>1, PayRowsStep, PTL DEF FinanceSpec
<1> QED BY <1>2, <1>3, FinanceInvariant, PTL DEF FinanceSpec, DeadObligationsStay

-----------------------------------------------------------------------------
(* Sums.                                                                   *)

\* A set of numbers has a least one.
LEMMA LeastNumber ==
  ASSUME NEW S, S \subseteq Nat, S # {}
  PROVE  \E n \in S : \A m \in S : n <= m
<1>1. PICK less : less = OpToRel(<, Nat)
  OBVIOUS
<1>2. IsWellFoundedOn(less, Nat)
  BY <1>1, NatLessThanWellFounded
<1>3. \A x, y \in Nat : y < x => <<y, x>> \in less
  BY <1>1 DEF OpToRel
<1>4. PICK x \in S : \A y \in S : ~ (<<y, x>> \in less)
  BY <1>2, WFMin
<1>5. \A y \in S : ~ (y < x)
  BY <1>3, <1>4
<1> QED BY <1>5

\* Induction, said of a set: what holds of zero and passes from a number to the next
\* holds of every number.
LEMMA EveryNumber ==
  ASSUME NEW S \in SUBSET Nat, 0 \in S, \A n \in S : n + 1 \in S
  PROVE  S = Nat
<1> SUFFICES ASSUME S # Nat PROVE FALSE
  OBVIOUS
<1>1. PICK n \in Nat \ S : \A m \in Nat \ S : n <= m
  BY LeastNumber
<1>2. n # 0 /\ n - 1 \in Nat
  BY <1>1
<1>3. n - 1 \in S
  BY <1>1, <1>2
<1> QED BY <1>1, <1>2, <1>3

\* The running sums of n numbers.
Sums(f, a, n) ==
    /\ f \in [0..n -> Int] /\ f[0] = 0
    /\ \A i \in 1..n : f[i] = f[i - 1] + a[i]

\* They exist, by induction over the number of numbers.
LEMMA SumsExist ==
  ASSUME NEW n \in Nat, NEW a \in [1..n -> Int]
  PROVE  \E f : Sums(f, a, n)
<1> DEFINE S == {m \in Nat : m <= n => \E f : Sums(f, a, m)}
<1>1. 0 \in S
  <2>1. PICK f : f = [i \in 0..0 |-> 0]
    OBVIOUS
  <2>2. Sums(f, a, 0)
    BY <2>1 DEF Sums
  <2> QED BY <2>2
<1>2. ASSUME NEW m \in S PROVE m + 1 \in S
  <2> SUFFICES ASSUME m + 1 <= n PROVE \E g : Sums(g, a, m + 1)
    OBVIOUS
  <2>1. PICK f : Sums(f, a, m)
    BY <1>2
  <2>2. PICK g : g = [i \in 0..(m + 1) |-> IF i <= m THEN f[i] ELSE f[m] + a[m + 1]]
    OBVIOUS
  <2>3. m \in Nat /\ m \in 0..m /\ m + 1 \in 1..n /\ m + 1 \in 0..(m + 1)
    BY <1>2
  <2>4. f[m] \in Int /\ a[m + 1] \in Int
    BY <2>1, <2>3 DEF Sums
  <2>5. g \in [0..(m + 1) -> Int]
    <3>1. ASSUME NEW i \in 0..(m + 1) PROVE g[i] \in Int
      <4>1. CASE i <= m
        BY <2>1, <2>2, <2>3, <4>1 DEF Sums
      <4>2. CASE ~ (i <= m)
        BY <2>2, <2>4, <4>2
      <4> QED BY <4>1, <4>2
    <3> QED BY <2>2, <3>1
  <2>6. g[0] = 0
    BY <2>1, <2>2, <2>3 DEF Sums
  <2>7. ASSUME NEW i \in 1..(m + 1) PROVE g[i] = g[i - 1] + a[i]
    <3>1. CASE i <= m
      BY <2>1, <2>2, <2>3, <3>1 DEF Sums
    <3>2. CASE ~ (i <= m)
      BY <2>2, <2>3, <3>2
    <3> QED BY <3>1, <3>2
  <2> QED BY <2>5, <2>6, <2>7 DEF Sums
<1> HIDE DEF S
<1>3. S = Nat
  <2>1. S \in SUBSET Nat
    BY DEF S
  <2> QED BY <1>1, <1>2, <2>1, EveryNumber
<1>4. n \in {m \in Nat : m <= n => \E f : Sums(f, a, m)}
  BY <1>3 DEF S
<1> QED BY <1>4

\* The first k numbers are the same.
Alike(a, b, k) == \A i \in 1..k : a[i] = b[i]

\* Running sums of the same numbers are the same.
LEMMA SumsAgree ==
  ASSUME NEW n \in Nat, NEW m \in Nat, NEW k \in Nat, k <= n, k <= m,
         NEW a, NEW b, Alike(a, b, k),
         NEW f, NEW g, Sums(f, a, n), Sums(g, b, m)
  PROVE  \A i \in 0..k : f[i] = g[i]
<1> DEFINE S == {i \in Nat : i <= k => f[i] = g[i]}
<1>1. 0 \in S
  BY DEF Sums
<1>2. ASSUME NEW i \in S PROVE i + 1 \in S
  <2> SUFFICES ASSUME i + 1 <= k PROVE f[i + 1] = g[i + 1]
    OBVIOUS
  <2>1. f[i] = g[i] /\ i + 1 \in 1..k /\ i + 1 \in 1..n /\ i + 1 \in 1..m /\ (i + 1) - 1 = i
    BY <1>2
  <2>2. f[i + 1] = f[i] + a[i + 1] /\ g[i + 1] = g[i] + b[i + 1]
    BY <2>1 DEF Sums
  <2>3. a[i + 1] = b[i + 1]
    BY <2>1 DEF Alike
  <2> QED BY <2>1, <2>2, <2>3
<1> HIDE DEF S
<1>3. S = Nat
  <2>1. S \in SUBSET Nat
    BY DEF S
  <2> QED BY <1>1, <1>2, <2>1, EveryNumber
<1> QED BY <1>3 DEF S

\* The function that the recursion defines.
LEMMA RecursionSums ==
  ASSUME NEW n \in Nat, NEW a \in [1..n -> Int], NEW f,
         f = CHOOSE g : g = [i \in 0..n |-> IF i = 0 THEN 0 ELSE g[i - 1] + a[i]]
  PROVE  Sums(f, a, n)
<1>1. PICK g : Sums(g, a, n)
  BY SumsExist
<1>2. g = [i \in 0..n |-> IF i = 0 THEN 0 ELSE g[i - 1] + a[i]]
  <2>1. ASSUME NEW i \in 0..n PROVE g[i] = IF i = 0 THEN 0 ELSE g[i - 1] + a[i]
    BY <1>1 DEF Sums
  <2> QED BY <1>1, <2>1 DEF Sums
<1>3. f = [i \in 0..n |-> IF i = 0 THEN 0 ELSE f[i - 1] + a[i]]
  BY <1>2
<1>4. f[0] = 0 /\ \A i \in 1..n : f[i] = f[i - 1] + a[i]
  <2>1. \A i \in 0..n : f[i] = IF i = 0 THEN 0 ELSE f[i - 1] + a[i]
    BY <1>3
  <2>2. 0 \in 0..n /\ \A i \in 1..n : i \in 0..n /\ i # 0
    OBVIOUS
  <2> QED BY <2>1, <2>2
<1> DEFINE S == {i \in Nat : i <= n => f[i] \in Int}
<1>5. 0 \in S
  BY <1>4
<1>6. ASSUME NEW i \in S PROVE i + 1 \in S
  <2> SUFFICES ASSUME i + 1 <= n PROVE f[i + 1] \in Int
    OBVIOUS
  <2>1. f[i] \in Int /\ i + 1 \in 1..n /\ (i + 1) - 1 = i
    BY <1>6
  <2>2. f[i + 1] = f[i] + a[i + 1] /\ a[i + 1] \in Int
    BY <1>4, <2>1
  <2> QED BY <2>1, <2>2
<1> HIDE DEF S
<1>7. S = Nat
  <2>1. S \in SUBSET Nat
    BY DEF S
  <2> QED BY <1>5, <1>6, <2>1, EveryNumber
<1>8. \A i \in 0..n : f[i] \in Int
  BY <1>7 DEF S
<1>9. f \in [0..n -> Int]
  BY <1>3, <1>8
<1> QED BY <1>4, <1>9 DEF Sums

\* SumOf is the last of the running sums.
LEMMA SumOfSums ==
  ASSUME NEW s \in Seq(Int)
  PROVE  \E f : Sums(f, s, Len(s)) /\ SumOf(s) = f[Len(s)]
<1>1. Len(s) \in Nat /\ s \in [1..Len(s) -> Int]
  OBVIOUS
<1>2. PICK f : f = CHOOSE g : g = [i \in 0..Len(s) |-> IF i = 0 THEN 0 ELSE g[i - 1] + s[i]]
  OBVIOUS
<1>3. SumOf(s) = f[Len(s)]
  BY <1>2 DEF SumOf
<1>4. Sums(f, s, Len(s))
  BY <1>1, <1>2, RecursionSums
<1> QED BY <1>3, <1>4


\* A sum of integers is one.
LEMMA SumIsInt ==
  ASSUME NEW s \in Seq(Int) PROVE SumOf(s) \in Int
<1>1. PICK f : Sums(f, s, Len(s)) /\ SumOf(s) = f[Len(s)]
  BY SumOfSums
<1>2. Len(s) \in 0..Len(s)
  OBVIOUS
<1> QED BY <1>1, <1>2 DEF Sums

\* One number more.
LEMMA SumAppended ==
  ASSUME NEW s \in Seq(Int), NEW x \in Int, NEW t \in Seq(Int),
         Len(t) = Len(s) + 1, \A i \in 1..Len(s) : t[i] = s[i], t[Len(s) + 1] = x
  PROVE  SumOf(t) = SumOf(s) + x
<1>1. PICK f : Sums(f, s, Len(s)) /\ SumOf(s) = f[Len(s)]
  BY SumOfSums
<1>2. PICK g : Sums(g, t, Len(t)) /\ SumOf(t) = g[Len(t)]
  BY SumOfSums
<1>3. PICK n \in Nat : n = Len(s)
  OBVIOUS
<1>4. \A i \in 0..n : f[i] = g[i]
  <2>0. PICK m \in Nat : m = n + 1
    OBVIOUS
  <2>1. Sums(f, s, n) /\ Sums(g, t, m) /\ n <= n /\ n <= m
    BY <1>1, <1>2, <1>3, <2>0
  <2>2. Alike(s, t, n)
    BY <1>3 DEF Alike
  <2> QED BY <2>1, <2>2, SumsAgree
<1>5. f[n] = g[n]
  BY <1>4
<1>6. g[n + 1] = g[n] + x
  <2>1. n + 1 \in 1..(n + 1) /\ (n + 1) - 1 = n
    OBVIOUS
  <2>2. Sums(g, t, n + 1) /\ t[n + 1] = x
    BY <1>2, <1>3
  <2>3. g[n + 1] = g[(n + 1) - 1] + t[n + 1]
    BY <2>1, <2>2 DEF Sums
  <2> QED BY <2>1, <2>2, <2>3
<1> QED BY <1>1, <1>2, <1>3, <1>5, <1>6

\* One number changed.
LEMMA SumChanged ==
  ASSUME NEW s \in Seq(Int), NEW t \in Seq(Int), Len(t) = Len(s),
         NEW k \in 1..Len(s), \A i \in 1..Len(s) : i # k => t[i] = s[i]
  PROVE  SumOf(t) = SumOf(s) - s[k] + t[k]
<1>1. PICK f : Sums(f, s, Len(s)) /\ SumOf(s) = f[Len(s)]
  BY SumOfSums
<1>2. PICK g : Sums(g, t, Len(t)) /\ SumOf(t) = g[Len(t)]
  BY SumOfSums
<1>3. PICK n \in Nat : n = Len(s)
  OBVIOUS
<1>4. /\ s \in [1..n -> Int] /\ t \in [1..n -> Int] /\ k \in 1..n
      /\ Sums(f, s, n) /\ Sums(g, t, n)
      /\ f \in [0..n -> Int] /\ g \in [0..n -> Int]
  BY <1>1, <1>2, <1>3 DEF Sums
<1> DEFINE S == {i \in Nat : i <= n => g[i] = IF i < k THEN f[i] ELSE f[i] - s[k] + t[k]}
<1>5. 0 \in S
  BY <1>4 DEF Sums
<1>6. ASSUME NEW i \in S PROVE i + 1 \in S
  <2> SUFFICES ASSUME i + 1 <= n
               PROVE  g[i + 1] = IF i + 1 < k THEN f[i + 1] ELSE f[i + 1] - s[k] + t[k]
    OBVIOUS
  <2>1. /\ i + 1 \in 1..n /\ (i + 1) - 1 = i /\ i \in Nat /\ i \in 0..n
        /\ g[i] = IF i < k THEN f[i] ELSE f[i] - s[k] + t[k]
    BY <1>6
  <2>2. g[i + 1] = g[i] + t[i + 1] /\ f[i + 1] = f[i] + s[i + 1]
    BY <1>4, <2>1 DEF Sums
  <2>3. /\ f[i] \in Int /\ g[i] \in Int /\ s[i + 1] \in Int /\ t[i + 1] \in Int
        /\ s[k] \in Int /\ t[k] \in Int /\ k \in Nat /\ k # 0
    <3>1. f[i] \in Int /\ g[i] \in Int
      BY <1>4, <2>1
    <3>2. s[i + 1] \in Int /\ t[i + 1] \in Int
      BY <1>4, <2>1
    <3>3. s[k] \in Int /\ t[k] \in Int /\ k \in Nat /\ k # 0
      BY <1>4
    <3> QED BY <3>1, <3>2, <3>3
  <2>4. CASE i + 1 = k
    BY <2>1, <2>2, <2>3, <2>4
  <2>5. CASE i + 1 # k
    <3>1. t[i + 1] = s[i + 1]
      BY <1>3, <2>1, <2>5
    <3>2. CASE i < k
      <4>1. i + 1 < k /\ g[i] = f[i]
        BY <2>1, <2>3, <2>5, <3>2
      <4> QED BY <2>2, <3>1, <4>1
    <3>3. CASE ~ (i < k)
      <4>1. ~ (i + 1 < k) /\ g[i] = f[i] - s[k] + t[k]
        BY <2>1, <2>3, <3>3
      <4>2. PICK p \in Int, q \in Int, u \in Int, v \in Int :
               p = f[i] /\ q = s[i + 1] /\ u = s[k] /\ v = t[k]
        BY <2>3
      <4>3. g[i + 1] = (p - u + v) + q /\ f[i + 1] = p + q
        BY <2>2, <3>1, <4>1, <4>2
      <4>4. g[i + 1] = (p + q) - u + v
        BY <4>3
      <4> QED BY <4>1, <4>2, <4>3, <4>4
    <3> QED BY <3>2, <3>3
  <2> QED BY <2>4, <2>5
<1> HIDE DEF S
<1>7. S = Nat
  <2>1. S \in SUBSET Nat
    BY DEF S
  <2> QED BY <1>5, <1>6, <2>1, EveryNumber
<1>8. g[n] = IF n < k THEN f[n] ELSE f[n] - s[k] + t[k]
  BY <1>7 DEF S
<1> QED BY <1>1, <1>2, <1>3, <1>4, <1>8

\* A sum of amounts is no less than any of them.
LEMMA SumOfAmounts ==
  ASSUME NEW s \in Seq(Nat)
  PROVE  SumOf(s) \in Nat /\ \A k \in 1..Len(s) : s[k] <= SumOf(s)
<1>1. s \in Seq(Int)
  OBVIOUS
<1>2. PICK f : Sums(f, s, Len(s)) /\ SumOf(s) = f[Len(s)]
  BY <1>1, SumOfSums
<1>3. PICK n \in Nat : n = Len(s)
  OBVIOUS
<1>4. s \in [1..n -> Nat] /\ Sums(f, s, n) /\ f \in [0..n -> Int]
  BY <1>2, <1>3 DEF Sums
<1> DEFINE S == {i \in Nat : i <= n => /\ f[i] >= 0
                                       /\ \A k \in 1..i : s[k] <= f[i]}
<1>5. 0 \in S
  BY <1>4 DEF Sums
<1>6. ASSUME NEW i \in S PROVE i + 1 \in S
  <2> SUFFICES ASSUME i + 1 <= n
               PROVE  f[i + 1] >= 0 /\ \A k \in 1..(i + 1) : s[k] <= f[i + 1]
    OBVIOUS
  <2>1. /\ i + 1 \in 1..n /\ (i + 1) - 1 = i /\ i \in Nat /\ i \in 0..n
        /\ f[i] >= 0 /\ \A k \in 1..i : s[k] <= f[i]
    BY <1>6
  <2>2. f[i + 1] = f[i] + s[i + 1]
    BY <1>4, <2>1 DEF Sums
  <2>3. f[i] \in Int /\ s[i + 1] \in Nat
    BY <1>4, <2>1
  <2>4. ASSUME NEW k \in 1..(i + 1) PROVE s[k] <= f[i + 1]
    <3>1. s[k] \in Nat
      BY <1>4, <2>1
    <3>2. k \in 1..i \/ k = i + 1
      BY <2>1
    <3> QED BY <2>1, <2>2, <2>3, <3>1, <3>2
  <2> QED BY <2>1, <2>2, <2>3, <2>4
<1> HIDE DEF S
<1>7. S = Nat
  <2>1. S \in SUBSET Nat
    BY DEF S
  <2> QED BY <1>5, <1>6, <2>1, EveryNumber
<1>8. f[n] >= 0 /\ \A k \in 1..n : s[k] <= f[n]
  <2>1. n \in S
    BY <1>7
  <2> QED BY <2>1 DEF S
<1>9. f[n] \in Nat
  BY <1>4, <1>8
<1> QED BY <1>2, <1>3, <1>8, <1>9

\* Nothing adds up to nothing.
LEMMA SumOfNothing ==
  ASSUME NEW s \in Seq(Int), \A i \in 1..Len(s) : s[i] = 0
  PROVE  SumOf(s) = 0
<1>1. PICK f : Sums(f, s, Len(s)) /\ SumOf(s) = f[Len(s)]
  BY SumOfSums
<1>2. PICK n \in Nat : n = Len(s)
  OBVIOUS
<1>3. PICK g : g = [i \in 0..n |-> 0]
  OBVIOUS
<1>4. Sums(g, s, n)
  <2>1. g \in [0..n -> Int] /\ g[0] = 0
    BY <1>3
  <2>2. ASSUME NEW i \in 1..n PROVE g[i] = g[i - 1] + s[i]
    <3>1. i \in 0..n /\ i - 1 \in 0..n /\ s[i] = 0
      BY <1>2
    <3> QED BY <1>3, <3>1
  <2> QED BY <2>1, <2>2 DEF Sums
<1>5. \A i \in 0..n : f[i] = g[i]
  <2>1. Sums(f, s, n) /\ n <= n /\ Alike(s, s, n)
    BY <1>1, <1>2 DEF Alike
  <2> QED BY <1>4, <2>1, SumsAgree
<1> QED BY <1>1, <1>2, <1>3, <1>5

-----------------------------------------------------------------------------
(* What a book holds.                                                      *)

\* What a book holds adds up to its balance.
BookHolds(b, places) ==
    /\ b \in Seq(Posting) /\ Len(b) <= places
    /\ \A i \in DOMAIN b : b[i].amount > 0 /\ (b[i].kind = "reversal" => b[i].of \in DOMAIN b)
    /\ Net(b) = SumOf(Outstanding(b, places))

\* A book with one posting more.
LEMMA AppendedBook ==
  ASSUME NEW b \in Seq(Posting), NEW p \in Posting, NEW c, c = Append(b, p)
  PROVE  /\ c \in Seq(Posting) /\ Len(b) \in Nat /\ Len(c) = Len(b) + 1
         /\ DOMAIN b = 1..Len(b) /\ DOMAIN c = 1..(Len(b) + 1)
         /\ \A i \in 1..Len(b) : c[i] = b[i]
         /\ c[Len(b) + 1] = p
OBVIOUS

\* What a posting adds to a balance is a number.
LEMMA SignedInt ==
  ASSUME NEW p \in Posting PROVE Signed(p) \in Int
BY DEF Signed, Posting

\* The balance of a book with one more posting.
LEMMA NetAppended ==
  ASSUME NEW b \in Seq(Posting), NEW p \in Posting, NEW c, c = Append(b, p)
  PROVE  Net(b) \in Int /\ Net(c) = Net(b) + Signed(p)
<1>1. PICK s : s = [i \in DOMAIN b |-> Signed(b[i])]
  OBVIOUS
<1>2. PICK t : t = [i \in DOMAIN c |-> Signed(c[i])]
  OBVIOUS
<1>3. PICK n \in Nat : n = Len(b)
  OBVIOUS
<1>4. /\ DOMAIN b = 1..n /\ DOMAIN c = 1..(n + 1)
      /\ \A i \in 1..n : c[i] = b[i] /\ b[i] \in Posting
      /\ c[n + 1] = p
  BY <1>3, AppendedBook
<1>5. s \in [1..n -> Int]
  BY <1>1, <1>4, SignedInt
<1>6. t \in [1..(n + 1) -> Int]
  <2>1. ASSUME NEW i \in 1..(n + 1) PROVE Signed(c[i]) \in Int
    <3>1. c[i] \in Posting
      <4>1. i \in 1..n \/ i = n + 1
        OBVIOUS
      <4> QED BY <1>4, <4>1
    <3> QED BY <3>1, SignedInt
  <2> QED BY <1>2, <1>4, <2>1
<1>7. s \in Seq(Int) /\ Len(s) = n /\ t \in Seq(Int) /\ Len(t) = n + 1
  BY <1>5, <1>6
<1>8. /\ \A i \in 1..n : t[i] = s[i]
      /\ t[n + 1] = Signed(p) /\ Signed(p) \in Int
  <2>1. \A i \in 1..n : i \in 1..(n + 1) /\ n + 1 \in 1..(n + 1)
    OBVIOUS
  <2>2. n + 1 \in 1..(n + 1)
    OBVIOUS
  <2> QED BY <1>1, <1>2, <1>4, <2>1, <2>2, SignedInt
<1>9. SumOf(t) = SumOf(s) + Signed(p)
  BY <1>7, <1>8, SumAppended
<1>10. SumOf(s) \in Int
  BY <1>7, SumIsInt
<1> QED BY <1>1, <1>2, <1>9, <1>10 DEF Net

\* What a book holds, place by place.
LEMMA OutstandingAmounts ==
  ASSUME NEW b \in Seq(Posting), NEW places \in Nat
  PROVE  /\ Outstanding(b, places) \in [1..places -> Nat]
         /\ Outstanding(b, places) \in Seq(Nat) /\ Len(Outstanding(b, places)) = places
         /\ \A i \in 1..places : Outstanding(b, places)[i] =
               IF i \in Reversible(b) THEN b[i].amount ELSE 0
<1>1. \A i \in Reversible(b) : b[i].amount \in Nat
  <2>1. \A i \in DOMAIN b : b[i] \in Posting
    OBVIOUS
  <2> QED BY <2>1 DEF Reversible, Posting
<1>2. Outstanding(b, places) \in [1..places -> Nat]
  BY <1>1 DEF Outstanding
<1>3. \A i \in 1..places : Outstanding(b, places)[i] =
               IF i \in Reversible(b) THEN b[i].amount ELSE 0
  BY DEF Outstanding
<1> HIDE DEF Outstanding
<1> QED BY <1>2, <1>3

\* Functions that agree are one.
LEMMA SameMoney ==
  ASSUME NEW places \in Nat, NEW m \in [1..places -> Nat], NEW h \in [1..places -> Nat],
         NEW k \in 1..places, NEW x \in Nat,
         \A i \in 1..places : h[i] = IF i = k THEN x ELSE m[i]
  PROVE  h = [m EXCEPT ![k] = x]
OBVIOUS

\* An entry takes the place of its number.
LEMMA EntryPosted ==
  ASSUME NEW places \in Nat, NEW b, BookHolds(b, places), Len(b) < places,
         NEW amount \in Nat \ {0}, NEW c, c = Append(b, EntryOf(amount))
  PROVE  /\ BookHolds(c, places)
         /\ Net(c) = Net(b) + amount /\ Net(b) \in Int
         /\ Len(b) + 1 \in 1..places /\ Outstanding(b, places)[Len(b) + 1] = 0
         /\ Outstanding(c, places) = [Outstanding(b, places) EXCEPT ![Len(b) + 1] = amount]
<1>1. PICK p : p = EntryOf(amount)
  OBVIOUS
<1>2. /\ p \in Posting /\ p.kind = "entry" /\ p.amount = amount /\ Signed(p) = amount
      /\ b \in Seq(Posting) /\ c = Append(b, p)
  BY <1>1 DEF EntryOf, Posting, Signed, BookHolds
<1>3. PICK n \in Nat : n = Len(b)
  BY <1>2
<1>4. /\ c \in Seq(Posting) /\ Len(c) = n + 1
      /\ DOMAIN b = 1..n /\ DOMAIN c = 1..(n + 1)
      /\ \A i \in 1..n : c[i] = b[i]
      /\ c[n + 1] = p
  BY <1>2, <1>3, AppendedBook
<1>5. n + 1 \in 1..places /\ Len(c) <= places
  BY <1>3, <1>4
<1>6. Net(b) \in Int /\ Net(c) = Net(b) + amount
  BY <1>2, NetAppended
<1>7. \A i \in DOMAIN c : c[i].amount > 0 /\ (c[i].kind = "reversal" => c[i].of \in DOMAIN c)
  <2> SUFFICES ASSUME NEW i \in 1..(n + 1)
               PROVE  c[i].amount > 0 /\ (c[i].kind = "reversal" => c[i].of \in 1..(n + 1))
    BY <1>4
  <2>1. CASE i = n + 1
    BY <1>2, <1>4, <2>1
  <2>2. CASE i # n + 1
    <3>1. i \in DOMAIN b /\ c[i] = b[i]
      BY <1>4, <2>2
    <3>2. b[i].amount > 0 /\ (b[i].kind = "reversal" => b[i].of \in 1..n)
      BY <1>4, <3>1 DEF BookHolds
    <3> QED BY <3>1, <3>2
  <2> QED BY <2>1, <2>2
<1>8. \A i \in 1..n : IsReversed(c, i) <=> IsReversed(b, i)
  <2> SUFFICES ASSUME NEW i \in 1..n PROVE IsReversed(c, i) <=> IsReversed(b, i)
    OBVIOUS
  <2>1. \A j \in 1..(n + 1) : c[j].kind = "reversal" => j \in 1..n
    BY <1>2, <1>4
  <2> QED BY <1>4, <2>1 DEF IsReversed
<1>9. ~ IsReversed(c, n + 1) /\ ~ IsReversed(b, n + 1)
  <2>1. ASSUME NEW j \in 1..n, b[j].kind = "reversal" PROVE b[j].of # n + 1
    <3>1. b[j].of \in 1..n
      BY <1>4, <2>1 DEF BookHolds
    <3> QED BY <3>1
  <2>2. \A j \in 1..(n + 1) : c[j].kind = "reversal" => j \in 1..n /\ c[j] = b[j]
    BY <1>2, <1>4
  <2> QED BY <1>4, <2>1, <2>2 DEF IsReversed
<1>10. Reversible(c) = Reversible(b) \cup {n + 1}
  BY <1>2, <1>4, <1>8, <1>9 DEF Reversible
<1>11. n + 1 \notin Reversible(b) /\ Reversible(b) \subseteq 1..n
  BY <1>4 DEF Reversible
<1>12. PICK m, h : m = Outstanding(b, places) /\ h = Outstanding(c, places)
  OBVIOUS
<1>13. /\ m \in [1..places -> Nat] /\ h \in [1..places -> Nat]
       /\ m \in Seq(Nat) /\ h \in Seq(Nat) /\ Len(m) = places /\ Len(h) = places
       /\ \A i \in 1..places : m[i] = IF i \in Reversible(b) THEN b[i].amount ELSE 0
       /\ \A i \in 1..places : h[i] = IF i \in Reversible(c) THEN c[i].amount ELSE 0
  BY <1>2, <1>4, <1>12, OutstandingAmounts
<1>14. m[n + 1] = 0 /\ h[n + 1] = amount
  BY <1>2, <1>4, <1>5, <1>10, <1>11, <1>13
<1>15. \A i \in 1..places : i # n + 1 => h[i] = m[i]
  BY <1>4, <1>10, <1>11, <1>13
<1>16. h = [m EXCEPT ![n + 1] = amount]
  <2>1. \A i \in 1..places : h[i] = IF i = n + 1 THEN amount ELSE m[i]
    BY <1>14, <1>15
  <2>2. PICK k \in 1..places : k = n + 1
    BY <1>5
  <2> QED BY <1>13, <2>1, <2>2, SameMoney
<1>17. SumOf(h) = SumOf(m) + amount
  <2>1. PICK k \in 1..places : k = n + 1
    BY <1>5
  <2>2. m \in Seq(Int) /\ h \in Seq(Int)
    <3>1. m \in [1..places -> Int] /\ h \in [1..places -> Int]
      BY <1>13
    <3> QED BY <3>1
  <2>3. k \in 1..Len(m) /\ Len(h) = Len(m) /\ \A i \in 1..Len(m) : i # k => h[i] = m[i]
    BY <1>13, <1>15, <2>1
  <2>4. SumOf(h) = SumOf(m) - m[k] + h[k]
    BY <2>2, <2>3, SumChanged
  <2>5. SumOf(m) \in Int
    BY <2>2, SumIsInt
  <2> QED BY <1>14, <2>1, <2>4, <2>5
<1>18. BookHolds(c, places)
  <2>1. Net(b) = SumOf(m)
    BY <1>12 DEF BookHolds
  <2> QED BY <1>4, <1>5, <1>6, <1>7, <1>12, <1>17, <2>1 DEF BookHolds
<1> QED BY <1>3, <1>5, <1>6, <1>12, <1>14, <1>16, <1>18

\* A reversal empties the place of the entry that it names.
LEMMA ReversalPosted ==
  ASSUME NEW places \in Nat, NEW b, BookHolds(b, places), Len(b) < places,
         NEW r \in Reversible(b), NEW c, c = Append(b, ReversalOf(b, r))
  PROVE  /\ BookHolds(c, places)
         /\ Net(c) = Net(b) - b[r].amount /\ Net(b) \in Int /\ b[r].amount \in Nat
         /\ r \in 1..places /\ Outstanding(b, places)[r] # 0
         /\ Outstanding(c, places) = [Outstanding(b, places) EXCEPT ![r] = 0]
<1>1. PICK p : p = ReversalOf(b, r)
  OBVIOUS
<1>2. /\ b \in Seq(Posting) /\ r \in DOMAIN b /\ b[r].kind = "entry" /\ ~ IsReversed(b, r)
      /\ c = Append(b, p) /\ b[r] \in Posting
  BY <1>1 DEF Reversible, BookHolds
<1>3. PICK amount : amount = b[r].amount
  OBVIOUS
<1>4. amount \in Nat /\ amount > 0
  BY <1>2, <1>3 DEF Posting, BookHolds
<1>5. PICK n \in Nat : n = Len(b)
  BY <1>2
<1>6. /\ p \in Posting /\ p.kind = "reversal" /\ p.amount = amount /\ p.of = r
      /\ Signed(p) = -amount /\ r \in 1..n
  BY <1>1, <1>2, <1>3, <1>4, <1>5 DEF ReversalOf, Posting, Signed
<1>7. /\ c \in Seq(Posting) /\ Len(c) = n + 1
      /\ DOMAIN b = 1..n /\ DOMAIN c = 1..(n + 1)
      /\ \A i \in 1..n : c[i] = b[i]
      /\ c[n + 1] = p
  BY <1>2, <1>5, <1>6, AppendedBook
<1>8. n + 1 \in 1..places /\ Len(c) <= places /\ r \in 1..places
  BY <1>5, <1>6, <1>7
<1>9. Net(b) \in Int /\ Net(c) = Net(b) - amount
  <2>1. Net(b) \in Int /\ Net(c) = Net(b) + Signed(p)
    BY <1>2, <1>6, NetAppended
  <2> QED BY <1>4, <1>6, <2>1
<1>10. \A i \in DOMAIN c : c[i].amount > 0 /\ (c[i].kind = "reversal" => c[i].of \in DOMAIN c)
  <2> SUFFICES ASSUME NEW i \in 1..(n + 1)
               PROVE  c[i].amount > 0 /\ (c[i].kind = "reversal" => c[i].of \in 1..(n + 1))
    BY <1>7
  <2>1. CASE i = n + 1
    BY <1>4, <1>6, <1>7, <2>1
  <2>2. CASE i # n + 1
    <3>1. i \in DOMAIN b /\ c[i] = b[i]
      BY <1>7, <2>2
    <3>2. b[i].amount > 0 /\ (b[i].kind = "reversal" => b[i].of \in 1..n)
      BY <1>7, <3>1 DEF BookHolds
    <3> QED BY <3>1, <3>2
  <2> QED BY <2>1, <2>2
<1>11. \A i \in 1..n : IsReversed(c, i) <=> (IsReversed(b, i) \/ i = r)
  <2> SUFFICES ASSUME NEW i \in 1..n PROVE IsReversed(c, i) <=> (IsReversed(b, i) \/ i = r)
    OBVIOUS
  <2>1. \A j \in 1..(n + 1) : j \in 1..n \/ j = n + 1
    OBVIOUS
  <2>2. n + 1 \in 1..(n + 1) /\ \A j \in 1..n : j \in 1..(n + 1)
    OBVIOUS
  <2> QED BY <1>6, <1>7, <2>1, <2>2 DEF IsReversed
<1>12. Reversible(c) = Reversible(b) \ {r}
  <2>1. \A i \in 1..(n + 1) : c[i].kind = "entry" => i \in 1..n
    BY <1>6, <1>7
  <2>2. \A i \in 1..n : i \in 1..(n + 1)
    OBVIOUS
  <2>3. \A i : i \in Reversible(c) <=> i \in Reversible(b) /\ i # r
    BY <1>7, <1>11, <2>1, <2>2 DEF Reversible
  <2> QED BY <2>3
<1>13. Reversible(b) \subseteq 1..n
  BY <1>7 DEF Reversible
<1>14. PICK m, h : m = Outstanding(b, places) /\ h = Outstanding(c, places)
  OBVIOUS
<1>15. /\ m \in [1..places -> Nat] /\ h \in [1..places -> Nat]
       /\ m \in Seq(Nat) /\ h \in Seq(Nat) /\ Len(m) = places /\ Len(h) = places
       /\ \A i \in 1..places : m[i] = IF i \in Reversible(b) THEN b[i].amount ELSE 0
       /\ \A i \in 1..places : h[i] = IF i \in Reversible(c) THEN c[i].amount ELSE 0
  BY <1>2, <1>7, <1>14, OutstandingAmounts
<1>16. m[r] = amount /\ h[r] = 0
  BY <1>3, <1>8, <1>12, <1>15
<1>17. \A i \in 1..places : i # r => h[i] = m[i]
  BY <1>7, <1>12, <1>13, <1>15
<1>18. h = [m EXCEPT ![r] = 0]
  <2>1. \A i \in 1..places : h[i] = IF i = r THEN 0 ELSE m[i]
    BY <1>16, <1>17
  <2> QED BY <1>8, <1>15, <2>1, SameMoney
<1>19. SumOf(h) = SumOf(m) - amount
  <2>1. m \in Seq(Int) /\ h \in Seq(Int) /\ r \in 1..Len(m) /\ Len(h) = Len(m)
    BY <1>8, <1>15
  <2>2. \A i \in 1..Len(m) : i # r => h[i] = m[i]
    BY <1>15, <1>17
  <2>3. SumOf(h) = SumOf(m) - m[r] + h[r]
    BY <2>1, <2>2, SumChanged
  <2>4. SumOf(m) \in Int
    BY <2>1, SumIsInt
  <2> QED BY <1>4, <1>16, <2>3, <2>4
<1>20. BookHolds(c, places)
  <2>1. Net(b) = SumOf(m)
    BY <1>14 DEF BookHolds
  <2> QED BY <1>7, <1>8, <1>9, <1>10, <1>14, <1>19, <2>1 DEF BookHolds
<1> QED BY <1>3, <1>4, <1>8, <1>9, <1>14, <1>16, <1>18, <1>20

\* A book whose balance is spent holds nothing.
LEMMA SpentBook ==
  ASSUME NEW places \in Nat, NEW b, BookHolds(b, places)
  PROVE  /\ Net(b) \in Nat
         /\ Net(b) <= 0 => Net(b) = 0 /\ Outstanding(b, places) = [i \in 1..places |-> 0]
<1>1. PICK m : m = Outstanding(b, places)
  OBVIOUS
<1>2. m \in [1..places -> Nat] /\ m \in Seq(Nat) /\ Len(m) = places /\ Net(b) = SumOf(m)
  BY <1>1, OutstandingAmounts DEF BookHolds
<1>3. SumOf(m) \in Nat /\ \A k \in 1..places : m[k] <= SumOf(m)
  BY <1>2, SumOfAmounts
<1>4. ASSUME SumOf(m) <= 0 PROVE SumOf(m) = 0 /\ m = [i \in 1..places |-> 0]
  <2>1. \A k \in 1..places : m[k] = 0
    BY <1>2, <1>3, <1>4
  <2> QED BY <1>2, <1>3, <1>4, <2>1
<1> QED BY <1>1, <1>2, <1>3, <1>4

\* An empty book.
LEMMA EmptyBook ==
  ASSUME NEW places \in Nat
  PROVE  /\ BookHolds(<<>>, places) /\ Net(<<>>) = 0
         /\ Outstanding(<<>>, places) = [i \in 1..places |-> 0]
<1>1. PICK b : b = <<>>
  OBVIOUS
<1>2. b \in Seq(Posting) /\ Len(b) = 0 /\ DOMAIN b = {}
  BY <1>1
<1>3. Outstanding(b, places) = [i \in 1..places |-> 0]
  BY <1>2 DEF Outstanding, Reversible
<1>4. SumOf(Outstanding(b, places)) = 0
  <2>1. PICK m : m = [i \in 1..places |-> 0]
    OBVIOUS
  <2>2. m \in Seq(Int) /\ Len(m) = places
    <3>1. m \in [1..places -> Int]
      BY <2>1
    <3> QED BY <3>1
  <2>3. SumOf(m) = 0
    <3>1. \A i \in 1..Len(m) : m[i] = 0
      BY <2>1, <2>2
    <3> QED BY <2>2, <3>1, SumOfNothing
  <2> QED BY <1>3, <2>1, <2>3
<1>5. Net(b) = 0
  <2>1. PICK s : s = [i \in DOMAIN b |-> Signed(b[i])]
    OBVIOUS
  <2>2. s \in Seq(Int) /\ Len(s) = 0
    <3>1. DOMAIN s = 1..0 /\ s \in [1..0 -> Int]
      BY <1>2, <2>1
    <3> QED BY <3>1
  <2>3. \A i \in 1..Len(s) : s[i] = 0
    BY <2>2
  <2>4. SumOf(s) = 0
    BY <2>2, <2>3, SumOfNothing
  <2> QED BY <2>1, <2>4 DEF Net
<1>6. BookHolds(b, places)
  BY <1>2, <1>4, <1>5 DEF BookHolds
<1> QED BY <1>1, <1>3, <1>5, <1>6

-----------------------------------------------------------------------------
(* Accounts.                                                               *)

\* An account: its book, its status and its limit.
AccountRow(book, status, limit) == [book |-> book, status |-> status, limit |-> limit]

InUse(a) == a.status \notin {"absent", "cancelled"}

\* What an account is between two transactions.
AccountHolds(a, places, limits) ==
    /\ BookHolds(a.book, places) /\ Net(a.book) <= a.limit
    /\ IF a.status = "absent" THEN a.limit = 0 ELSE a.limit \in limits
    /\ InUse(a) => a.status = Settlement(Net(a.book), a.limit)

\* A posting that a book takes within a limit.
Admissible(book, p, limit) ==
    \/ \E amount \in Nat \ {0} : p = EntryOf(amount) /\ Net(book) + amount <= limit
    \/ \E r \in Reversible(book) : p = ReversalOf(book, r)

\* The ways in which a transaction leaves an account.
Opened(a, z, limits) ==
    a.status = "absent" /\ \E bound \in limits : z = AccountRow(a.book, "open", bound)
Resettled(a, z) ==
    InUse(a) /\ z = AccountRow(a.book, Settlement(Net(a.book), a.limit), a.limit)
ClosedEmpty(a, z) ==
    InUse(a) /\ Net(a.book) <= 0 /\ z = AccountRow(a.book, "cancelled", a.limit)
PostedTo(a, z, places) ==
    /\ InUse(a) /\ Len(a.book) < places
    /\ \E p \in Posting :
          /\ Admissible(a.book, p, a.limit)
          /\ z = AccountRow(Append(a.book, p),
                            Settlement(Net(Append(a.book, p)), a.limit), a.limit)

Outcome(a, z, places, limits) ==
    Opened(a, z, limits) \/ Resettled(a, z) \/ ClosedEmpty(a, z) \/ PostedTo(a, z, places)

\* What the ledger lets an account do: m is its money, as Outstanding gives it.
MoneyState(m, bound) ==
    CASE SumOf(m) = 0     -> "open"
      [] SumOf(m) = bound -> "paid"
      [] OTHER            -> "partial"

Money(a, places) == Outstanding(a.book, places)

Emptied(places) == [i \in 1..places |-> 0]

\* Money is added to one place, or taken back from it.
MovedMoney(a, z, places) ==
    /\ InUse(a) /\ z.limit = a.limit
    /\ z.status = MoneyState(Money(z, places), a.limit)
    /\ \E place \in 1..places :
          \/ /\ Money(a, places)[place] # 0
             /\ Money(z, places) = [Money(a, places) EXCEPT ![place] = 0]
          \/ \E amount \in 1..a.limit :
                /\ Money(a, places)[place] = 0
                /\ SumOf(Money(a, places)) + amount <= a.limit
                /\ Money(z, places) = [Money(a, places) EXCEPT ![place] = amount]

\* A move of the ledger, or none.
LedgerMove(a, z, places, limits) ==
    \/ /\ Money(z, places) = Money(a, places) /\ z.limit = a.limit /\ z.status = a.status
    \/ /\ a.status = "absent" /\ z.status = "open" /\ z.limit \in limits
       /\ Money(z, places) = Money(a, places)
    \/ MovedMoney(a, z, places)
    \/ /\ InUse(a) /\ z.status = "cancelled" /\ z.limit = a.limit
       /\ Money(a, places) = Emptied(places) /\ Money(z, places) = Money(a, places)

\* The status of a balance within the limit is the status of the money.
LEMMA SettledState ==
  ASSUME NEW b, NEW places, BookHolds(b, places), NEW limit \in Nat \ {0},
         Net(b) \in Nat, Net(b) <= limit
  PROVE  /\ Settlement(Net(b), limit) = MoneyState(Outstanding(b, places), limit)
         /\ Settlement(Net(b), limit) \in {"open", "partial", "paid"}
<1>1. Net(b) = SumOf(Outstanding(b, places))
  BY DEF BookHolds
<1>2. PICK n \in Nat : n = Net(b)
  OBVIOUS
<1>3. CASE n = 0
  BY <1>1, <1>2, <1>3 DEF Settlement, MoneyState
<1>4. CASE n = limit
  BY <1>1, <1>2, <1>4 DEF Settlement, MoneyState
<1>5. CASE n # 0 /\ n # limit
  <2>1. ~ (n <= 0) /\ ~ (n >= limit)
    BY <1>2, <1>5
  <2> QED BY <1>1, <1>2, <1>5, <2>1 DEF Settlement, MoneyState
<1> QED BY <1>3, <1>4, <1>5

\* What is left after a posting is within the limit, and the money moved.
LEMMA PostingMoves ==
  ASSUME NEW places \in Nat, NEW limits, limits \subseteq Nat \ {0},
         NEW a, AccountHolds(a, places, limits), NEW z, PostedTo(a, z, places)
  PROVE  AccountHolds(z, places, limits) /\ MovedMoney(a, z, places)
<1>1. PICK p \in Posting :
         /\ Admissible(a.book, p, a.limit)
         /\ z = AccountRow(Append(a.book, p),
                           Settlement(Net(Append(a.book, p)), a.limit), a.limit)
  BY DEF PostedTo
<1>2. PICK b, c, limit : b = a.book /\ c = Append(b, p) /\ limit = a.limit
  OBVIOUS
<1>3. /\ BookHolds(b, places) /\ Len(b) < places /\ Net(b) <= limit
      /\ limit \in limits /\ limit \in Nat \ {0} /\ InUse(a)
  BY <1>2 DEF PostedTo, AccountHolds, InUse
<1>4. z.book = c /\ z.status = Settlement(Net(c), limit) /\ z.limit = limit
  BY <1>1, <1>2 DEF AccountRow
<1>5. ASSUME NEW amount \in Nat \ {0}, p = EntryOf(amount), Net(b) + amount <= limit
      PROVE  /\ BookHolds(c, places) /\ Net(c) <= limit
             /\ \E place \in 1..places : \E x \in 1..limit :
                   /\ Outstanding(b, places)[place] = 0
                   /\ SumOf(Outstanding(b, places)) + x <= limit
                   /\ Outstanding(c, places) = [Outstanding(b, places) EXCEPT ![place] = x]
  <2>1. c = Append(b, EntryOf(amount))
    BY <1>2, <1>5
  <2>2. /\ BookHolds(c, places)
        /\ Net(c) = Net(b) + amount /\ Net(b) \in Int
        /\ Len(b) + 1 \in 1..places /\ Outstanding(b, places)[Len(b) + 1] = 0
        /\ Outstanding(c, places) = [Outstanding(b, places) EXCEPT ![Len(b) + 1] = amount]
    BY <1>3, <2>1, EntryPosted
  <2>3. Net(b) \in Nat /\ Net(b) = SumOf(Outstanding(b, places))
    BY <1>3, SpentBook DEF BookHolds
  <2>4. amount \in 1..limit
    BY <1>3, <1>5, <2>3
  <2>5. Net(c) <= limit /\ SumOf(Outstanding(b, places)) + amount <= limit
    BY <1>5, <2>2, <2>3
  <2> QED BY <2>2, <2>4, <2>5
<1>6. ASSUME NEW r \in Reversible(b), p = ReversalOf(b, r)
      PROVE  /\ BookHolds(c, places) /\ Net(c) <= limit
             /\ \E place \in 1..places :
                   /\ Outstanding(b, places)[place] # 0
                   /\ Outstanding(c, places) = [Outstanding(b, places) EXCEPT ![place] = 0]
  <2>1. c = Append(b, ReversalOf(b, r))
    BY <1>2, <1>6
  <2>2. /\ BookHolds(c, places)
        /\ Net(c) = Net(b) - b[r].amount /\ Net(b) \in Int /\ b[r].amount \in Nat
        /\ r \in 1..places /\ Outstanding(b, places)[r] # 0
        /\ Outstanding(c, places) = [Outstanding(b, places) EXCEPT ![r] = 0]
    BY <1>3, <2>1, ReversalPosted
  <2>3. Net(c) <= limit
    <3>1. PICK x \in Int, y \in Nat : x = Net(b) /\ y = b[r].amount
      BY <2>2
    <3>2. x - y <= x /\ x <= limit
      BY <1>3, <3>1
    <3>3. Net(c) = x - y
      BY <2>2, <3>1
    <3> QED BY <1>3, <3>1, <3>2, <3>3
  <2> QED BY <2>2, <2>3
<1>7. /\ BookHolds(c, places) /\ Net(c) <= limit
      /\ \E place \in 1..places :
            \/ /\ Outstanding(b, places)[place] # 0
               /\ Outstanding(c, places) = [Outstanding(b, places) EXCEPT ![place] = 0]
            \/ \E x \in 1..limit :
                  /\ Outstanding(b, places)[place] = 0
                  /\ SumOf(Outstanding(b, places)) + x <= limit
                  /\ Outstanding(c, places) = [Outstanding(b, places) EXCEPT ![place] = x]
  BY <1>1, <1>2, <1>5, <1>6 DEF Admissible
<1>8. Net(c) \in Nat
  BY <1>7, SpentBook
<1>9. /\ Settlement(Net(c), limit) = MoneyState(Outstanding(c, places), limit)
      /\ Settlement(Net(c), limit) \in {"open", "partial", "paid"}
  BY <1>3, <1>7, <1>8, SettledState
<1>10. AccountHolds(z, places, limits)
  BY <1>3, <1>4, <1>7, <1>9 DEF AccountHolds
<1>11. MovedMoney(a, z, places)
  BY <1>2, <1>3, <1>4, <1>7, <1>9 DEF MovedMoney, Money
<1> QED BY <1>10, <1>11

\* A transaction leaves an account in order and makes a move of the ledger.
LEMMA OutcomeMoves ==
  ASSUME NEW places \in Nat, NEW limits, limits \subseteq Nat \ {0},
         NEW a, AccountHolds(a, places, limits), NEW z, Outcome(a, z, places, limits)
  PROVE  AccountHolds(z, places, limits) /\ LedgerMove(a, z, places, limits)
<1>0. BookHolds(a.book, places) /\ Net(a.book) \in Nat
  BY SpentBook DEF AccountHolds
<1>1. CASE Opened(a, z, limits)
  <2>1. PICK bound \in limits : z = AccountRow(a.book, "open", bound)
    BY <1>1 DEF Opened
  <2>2. a.status = "absent" /\ a.limit = 0 /\ bound \in Nat \ {0}
    BY <1>1 DEF Opened, AccountHolds
  <2>3. z.book = a.book /\ z.status = "open" /\ z.limit = bound
    BY <2>1 DEF AccountRow
  <2>4. Net(a.book) <= 0
    BY <2>2 DEF AccountHolds
  <2>5. Settlement(Net(a.book), bound) = "open"
    <3>1. ~ (Net(a.book) >= bound)
      BY <1>0, <2>2, <2>4
    <3> QED BY <2>4, <3>1 DEF Settlement
  <2>6. Net(a.book) <= bound
    BY <1>0, <2>2, <2>4
  <2>7. AccountHolds(z, places, limits)
    BY <1>0, <2>1, <2>3, <2>5, <2>6 DEF AccountHolds
  <2> QED BY <2>2, <2>3, <2>7 DEF LedgerMove, Money
<1>2. CASE Resettled(a, z)
  <2>1. /\ InUse(a) /\ a.status = Settlement(Net(a.book), a.limit)
        /\ z = AccountRow(a.book, a.status, a.limit)
    BY <1>2 DEF Resettled, AccountHolds
  <2>2. z.book = a.book /\ z.status = a.status /\ z.limit = a.limit
    BY <2>1 DEF AccountRow
  <2> QED BY <2>2 DEF AccountHolds, InUse, LedgerMove, Money
<1>3. CASE ClosedEmpty(a, z)
  <2>1. /\ InUse(a) /\ Net(a.book) <= 0
        /\ z.book = a.book /\ z.status = "cancelled" /\ z.limit = a.limit
    BY <1>3 DEF ClosedEmpty, AccountRow
  <2>2. Outstanding(a.book, places) = Emptied(places)
    BY <1>0, <2>1, SpentBook DEF Emptied
  <2>3. AccountHolds(z, places, limits)
    BY <2>1 DEF AccountHolds, InUse
  <2> QED BY <2>1, <2>2, <2>3 DEF LedgerMove, Money
<1>4. CASE PostedTo(a, z, places)
  BY <1>4, PostingMoves DEF LedgerMove
<1> QED BY <1>1, <1>2, <1>3, <1>4 DEF Outcome

-----------------------------------------------------------------------------
(* The accounts of the contracts.                                          *)

\* The account of a contract.
PayAccount(c) ==
    AccountRow(payBook[c], obligation[c].status,
               IF obligation[c].status = "absent" THEN 0 ELSE ContractAmount)

\* The account that a draft leaves when it is committed.
PayResult(c, row, postings) ==
    AccountRow(payBook[c] \o postings, row.status, ContractAmount)

\* What a call that has written, and not committed, will leave.
PayDraft(c, row, postings) ==
    /\ row \in Obligation /\ postings \in Seq(Posting)
    /\ row.status # "absent"
    /\ Outcome(PayAccount(c), PayResult(c, row, postings), MaxPostings, {ContractAmount})

\* Every account is in order, and at most one call has a draft of it.
PayLedgerInv ==
    /\ payBook \in [Contracts -> Seq(Posting)]
    /\ obligation \in [Contracts -> Obligation]
    /\ DOMAIN payCall = PaymentCalls
    /\ \A c \in Contracts : AccountHolds(PayAccount(c), MaxPostings, {ContractAmount})
    /\ \A k \in PaymentCalls : payCall[k] # NoCall =>
          /\ payCall[k].contract \in Contracts
          /\ PayDraft(payCall[k].contract, payCall[k].row, payCall[k].postings)
    /\ \A j, k \in PaymentCalls :
          payCall[j] # NoCall /\ payCall[k] # NoCall
          /\ payCall[j].contract = payCall[k].contract => j = k

\* A status that an obligation may have.
LEMMA SettlementStatus ==
  \A net, limit : Settlement(net, limit) \in {"open", "partial", "paid"}
BY DEF Settlement

\* A draft has one posting or none.
LEMMA AppendOne ==
  ASSUME NEW b \in Seq(Posting), NEW p \in Posting
  PROVE  b \o <<p>> = Append(b, p) /\ b \o <<>> = b /\ <<p>> \in Seq(Posting)
OBVIOUS

\* What the statements of a payment call draft is an outcome.
LEMMA RowDrafted ==
  ASSUME PayLedgerInv, NEW k, NEW c \in Contracts, NEW onTrip \in BOOLEAN, NEW row,
         \/ CreateObligation(k, c, onTrip) /\ row = [status |-> "open", onTrip |-> onTrip]
         \/ /\ UpdateObligation(k, c, onTrip)
            /\ row = [status |-> Settlement(Net(payBook[c]), ContractAmount),
                      onTrip |-> onTrip]
         \/ CancelObligation(k, c) /\ row = [obligation[c] EXCEPT !.status = "cancelled"]
  PROVE  PayDraft(c, row, <<>>)
<1>1. PICK a, z : a = PayAccount(c) /\ z = PayResult(c, row, <<>>)
  OBVIOUS
<1>2. payBook[c] \in Seq(Posting) /\ obligation[c] \in Obligation /\ <<>> \in Seq(Posting)
  BY DEF PayLedgerInv
<1>3. /\ a.book = payBook[c] /\ a.status = obligation[c].status
      /\ a.limit = IF obligation[c].status = "absent" THEN 0 ELSE ContractAmount
      /\ z = AccountRow(payBook[c], row.status, ContractAmount)
  BY <1>1, <1>2 DEF PayAccount, PayResult, AccountRow
<1>4. CASE CreateObligation(k, c, onTrip) /\ row = [status |-> "open", onTrip |-> onTrip]
  <2>1. a.status = "absent" /\ row.status = "open" /\ row \in Obligation
    BY <1>3, <1>4 DEF CreateObligation, Obligation
  <2>2. Opened(a, z, {ContractAmount})
    BY <1>3, <2>1 DEF Opened
  <2> QED BY <1>1, <1>2, <2>1, <2>2 DEF PayDraft, Outcome
<1>5. CASE /\ UpdateObligation(k, c, onTrip)
           /\ row = [status |-> Settlement(Net(payBook[c]), ContractAmount),
                     onTrip |-> onTrip]
  <2>1. /\ a.status \notin {"absent", "cancelled"} /\ a.limit = ContractAmount
        /\ row.status = Settlement(Net(payBook[c]), ContractAmount)
    BY <1>3, <1>5 DEF UpdateObligation, Payable
  <2>2. row \in Obligation /\ row.status # "absent"
    BY <1>5, <2>1, SettlementStatus DEF Obligation
  <2>3. Resettled(a, z)
    BY <1>3, <2>1 DEF Resettled, InUse
  <2> QED BY <1>1, <1>2, <2>2, <2>3 DEF PayDraft, Outcome
<1>6. CASE CancelObligation(k, c) /\ row = [obligation[c] EXCEPT !.status = "cancelled"]
  <2>1. /\ a.status \notin {"absent", "cancelled"} /\ a.limit = ContractAmount
        /\ Net(payBook[c]) <= 0
    BY <1>3, <1>6 DEF CancelObligation, Payable
  <2>2. row \in Obligation /\ row.status = "cancelled"
    BY <1>2, <1>6 DEF Obligation
  <2>3. ClosedEmpty(a, z)
    BY <1>3, <2>1, <2>2 DEF ClosedEmpty, InUse
  <2> QED BY <1>1, <1>2, <2>2, <2>3 DEF PayDraft, Outcome
<1> QED BY <1>4, <1>5, <1>6

\* The forms that a posting comes in.
PostingForm(book, p) ==
    \/ \E amount \in Nat \ {0} : p = EntryOf(amount)
    \/ p.of \in Reversible(book) /\ p = ReversalOf(book, p.of)
    \/ p.kind = "reversal" /\ p.of \notin Reversible(book)

\* A reversal has such a form, whatever it names.
LEMMA ReversalForm ==
  ASSUME NEW book, NEW i PROVE PostingForm(book, ReversalOf(book, i))
<1>1. ReversalOf(book, i).of = i /\ ReversalOf(book, i).kind = "reversal"
  BY DEF ReversalOf
<1> QED BY <1>1 DEF PostingForm

\* So has an entry.
LEMMA EntryForm ==
  ASSUME NEW book, NEW amount \in Nat \ {0} PROVE PostingForm(book, EntryOf(amount))
BY DEF PostingForm

\* A posting that the code lets through is admissible.
LEMMA AllowedPosting ==
  ASSUME NEW book \in Seq(Posting), NEW p, PostingForm(book, p), NEW limit,
         IF p.kind = "entry" THEN Net(book) + p.amount <= limit
                             ELSE p.of \in Reversible(book)
  PROVE  p \in Posting /\ Admissible(book, p, limit)
<1>1. CASE \E amount \in Nat \ {0} : p = EntryOf(amount)
  <2>1. PICK amount \in Nat \ {0} : p = EntryOf(amount)
    BY <1>1
  <2>2. p.kind = "entry" /\ p.amount = amount /\ p \in Posting
    BY <2>1, PostingsTyped DEF EntryOf
  <2> QED BY <2>1, <2>2 DEF Admissible
<1>2. CASE p.of \in Reversible(book) /\ p = ReversalOf(book, p.of)
  <2>1. p.of \in DOMAIN book
    BY <1>2 DEF Reversible
  <2>2. p \in Posting
    BY <1>2, <2>1, PostingsTyped
  <2> QED BY <1>2, <2>2 DEF Admissible
<1>3. CASE p.kind = "reversal" /\ p.of \notin Reversible(book)
  BY <1>3
<1> QED BY <1>1, <1>2, <1>3 DEF PostingForm

\* createTransaction drafts an outcome.
LEMMA PaymentDrafted ==
  ASSUME PayLedgerInv, NEW k, NEW c \in Contracts, NEW p, PostingForm(payBook[c], p),
         CreatePayment(k, c, p)
  PROVE  \E row : WriteObligation(k, c, row, <<p>>) /\ PayDraft(c, row, <<p>>)
<1>1. PICK row : row = [obligation[c] EXCEPT !.status =
                           Settlement(Net(Append(payBook[c], p)), ContractAmount)]
  OBVIOUS
<1>2. PICK a, z : a = PayAccount(c) /\ z = PayResult(c, row, <<p>>)
  OBVIOUS
<1>3. payBook[c] \in Seq(Posting) /\ obligation[c] \in Obligation
  BY DEF PayLedgerInv
<1>4. p \in Posting /\ Admissible(payBook[c], p, ContractAmount)
  BY <1>3, AllowedPosting DEF CreatePayment, PostingAllowed
<1>5. /\ row.status = Settlement(Net(Append(payBook[c], p)), ContractAmount)
      /\ row \in Obligation /\ row.status # "absent"
  <2>1. Settlement(Net(Append(payBook[c], p)), ContractAmount) \in {"open", "partial", "paid"}
    BY SettlementStatus
  <2> QED BY <1>1, <1>3, <2>1 DEF Obligation
<1>6. /\ a.book = payBook[c] /\ a.status = obligation[c].status /\ InUse(a)
      /\ a.limit = ContractAmount
  BY <1>2 DEF PayAccount, AccountRow, InUse, CreatePayment, Payable
<1>7. z = AccountRow(Append(payBook[c], p), row.status, ContractAmount)
  BY <1>2, <1>3, <1>4, AppendOne DEF PayResult
<1>8. PostedTo(a, z, MaxPostings)
  BY <1>4, <1>5, <1>6, <1>7 DEF PostedTo, CreatePayment
<1>9. PayDraft(c, row, <<p>>)
  BY <1>2, <1>3, <1>4, <1>5, <1>8, AppendOne DEF PayDraft, Outcome
<1> QED BY <1>1, <1>9 DEF CreatePayment

\* What a step does to the obligations and the book of payments.
PayDrafts ==
    \/ \E k \in PaymentCalls, c \in Contracts : \E row, postings :
          WriteObligation(k, c, row, postings) /\ PayDraft(c, row, postings)
    \/ \E k \in PaymentCalls : CommitPayment(k) \/ RollBackPayment(k)
    \/ UNCHANGED <<obligation, payBook, payCall>>

\* So does the posting behind a bank entry.
LEMMA InsertDrafts ==
  ASSUME PayLedgerInv, NEW k, NEW t, NEW p, PostingForm(Book(t), p), InsertLedger(k, t, p)
  PROVE  PayDrafts
<1>1. CASE k \in PaymentCalls /\ t \in Contracts /\ CreatePayment(k, t, p)
  BY <1>1, PaymentDrafted DEF Book, PayDrafts
<1>2. CASE UNCHANGED payVars
  BY <1>2 DEF PayDrafts, payVars
<1> QED BY <1>1, <1>2 DEF InsertLedger

\* No step touches the payments in another way.
LEMMA EveryPayDraft ==
  ASSUME PayLedgerInv, [FinanceNext]_financeVars
  PROVE  PayDrafts
<1>1. CASE UNCHANGED financeVars
  BY <1>1 DEF financeVars, payVars, PayDrafts
<1>2. CASE BooksNext
  <2>1. ASSUME NEW k \in PaymentCalls, PaymentStep(k) PROVE PayDrafts
    <3>1. ASSUME NEW c \in Contracts, NEW onTrip \in BOOLEAN,
                 \/ CreateObligation(k, c, onTrip) \/ UpdateObligation(k, c, onTrip)
                 \/ CancelObligation(k, c)
          PROVE  PayDrafts
      <4>1. ASSUME NEW row, WriteObligation(k, c, row, <<>>), PayDraft(c, row, <<>>)
            PROVE  PayDrafts
        BY <4>1 DEF PayDrafts
      <4>2. CASE CreateObligation(k, c, onTrip)
        BY <4>1, <4>2, RowDrafted DEF CreateObligation
      <4>3. CASE UpdateObligation(k, c, onTrip)
        BY <4>1, <4>3, RowDrafted DEF UpdateObligation
      <4>4. CASE CancelObligation(k, c)
        BY <4>1, <4>4, RowDrafted DEF CancelObligation
      <4> QED BY <3>1, <4>2, <4>3, <4>4
    <3>2. ASSUME NEW c \in Contracts, NEW p \in PaymentPostings(c), CreatePayment(k, c, p)
          PROVE  PayDrafts
      <4>1. PostingForm(payBook[c], p)
        BY PaymentAssumption, EntryForm, ReversalForm DEF PaymentPostings
      <4> QED BY <3>2, <4>1, PaymentDrafted DEF PayDrafts
    <3>3. CASE CommitPayment(k) \/ RollBackPayment(k)
      BY <3>3 DEF PayDrafts
    <3>4. TRUE \in BOOLEAN
      OBVIOUS
    <3> QED BY <2>1, <3>1, <3>2, <3>3, <3>4 DEF PaymentStep
  <2>2. CASE PaymentEnv
    BY <2>2 DEF PaymentEnv, EndContract, UnlinkTrip, PayDrafts
  <2>3. CASE UNCHANGED payVars
    BY <2>3 DEF payVars, PayDrafts
  <2> QED BY <1>2, <2>1, <2>2, <2>3 DEF BooksNext
<1>3. CASE MatchNext
  <2>0. ASSUME UNCHANGED payVars PROVE PayDrafts
    BY <2>0 DEF payVars, PayDrafts
  <2>1. ASSUME NEW k \in Calls, CommitLedger(k) PROVE PayDrafts
    BY <2>0, <2>1 DEF CommitLedger, PayDrafts
  <2>2. ASSUME NEW batch, CreateImport(batch) PROVE PayDrafts
    BY <2>0, <2>2 DEF CreateImport
  <2>3. ASSUME NEW e, Suggest(e) \/ Ignore(e) PROVE PayDrafts
    BY <2>0, <2>3 DEF Suggest, Ignore
  <2>4. ASSUME NEW k, NEW e, ReverseMatch(k, e) PROVE PayDrafts
    <3>1. PICK t, i : InsertLedger(k, t, ReversalOf(Book(t), i))
      BY <2>4 DEF ReverseMatch
    <3> QED BY <3>1, ReversalForm, InsertDrafts
  <2>5. ASSUME NEW k, NEW e \in BankEntries, NEW t, NEW method, Reconcile(k, e, t, method)
        PROVE  PayDrafts
    <3>1. EntryAmount[e] \in Nat \ {0}
      BY ReconciliationAssumption DEF BankEntries
    <3>2. PostingForm(Book(t), EntryOf(EntryAmount[e]))
      BY <3>1, EntryForm
    <3> QED BY <2>5, <3>2, InsertDrafts DEF Reconcile
  <2>6. ASSUME NEW k \in Calls, FinishReconcile(k) \/ FinishReverseMatch(k) PROVE PayDrafts
    BY <2>1, <2>6 DEF FinishReconcile, FinishReverseMatch
  <2>7. ASSUME NEW k \in Calls, RollBackTask(k) PROVE PayDrafts
    BY <2>0, <2>7 DEF RollBackTask, PayDrafts
  <2> QED BY <1>3, <2>2, <2>3, <2>4, <2>5, <2>6, <2>7 DEF MatchNext
<1> QED BY <1>1, <1>2, <1>3 DEF FinanceNext

\* A draft stands while its account is left alone: this is what the row lock gives.
LEMMA PayDraftFrame ==
  ASSUME NEW c, NEW row, NEW postings, PayDraft(c, row, postings),
         payBook'[c] = payBook[c], obligation'[c] = obligation[c]
  PROVE  PayDraft(c, row, postings)' /\ PayAccount(c)' = PayAccount(c)
BY DEF PayDraft, PayAccount, PayResult

\* One account at most is moved by a step, as the ledger lets it.
PayMoves(c) ==
    /\ LedgerMove(PayAccount(c), PayAccount(c)', MaxPostings, {ContractAmount})
    /\ \A d \in Contracts \ {c} : PayAccount(d)' = PayAccount(d)

\* A commit makes the move that was drafted; every other step leaves the accounts alone.
LEMMA PayLedgerStep ==
  ASSUME PayLedgerInv, PayDrafts
  PROVE  /\ PayLedgerInv'
         /\ \/ \A c \in Contracts : PayAccount(c)' = PayAccount(c)
            \/ \E c \in Contracts : PayMoves(c)
<1>1. ASSUME UNCHANGED <<obligation, payBook>>
      PROVE  /\ \A c \in Contracts : PayAccount(c)' = PayAccount(c)
             /\ \A c \in Contracts : AccountHolds(PayAccount(c), MaxPostings, {ContractAmount})'
             /\ payBook' \in [Contracts -> Seq(Posting)]
             /\ obligation' \in [Contracts -> Obligation]
             /\ \A c, row, postings : PayDraft(c, row, postings) => PayDraft(c, row, postings)'
  <2>1. \A c \in Contracts : PayAccount(c)' = PayAccount(c)
    BY <1>1 DEF PayAccount
  <2>2. \A c, row, postings : PayDraft(c, row, postings) => PayDraft(c, row, postings)'
    BY <1>1, PayDraftFrame
  <2> QED BY <1>1, <2>1, <2>2 DEF PayLedgerInv
<1>2. CASE \E k \in PaymentCalls, c \in Contracts : \E row, postings :
              WriteObligation(k, c, row, postings) /\ PayDraft(c, row, postings)
  <2>0. PICK k \in PaymentCalls, c \in Contracts :
           \E row, postings :
              WriteObligation(k, c, row, postings) /\ PayDraft(c, row, postings)
    BY <1>2
  <2>1. PICK row, postings :
           WriteObligation(k, c, row, postings) /\ PayDraft(c, row, postings)
    BY <2>0
  <2>2. /\ UNCHANGED <<obligation, payBook>>
        /\ payCall[k] = NoCall /\ ObligationFree(c)
        /\ payCall' = [payCall EXCEPT ![k] =
               [contract |-> c, row |-> row, postings |-> postings]]
    BY <2>1 DEF WriteObligation
  <2>3. /\ DOMAIN payCall' = PaymentCalls
        /\ \A j \in PaymentCalls : j # k => payCall'[j] = payCall[j]
        /\ payCall'[k].contract = c /\ payCall'[k].row = row /\ payCall'[k].postings = postings
    BY <2>2 DEF PayLedgerInv
  <2>4. ASSUME NEW j \in PaymentCalls, payCall'[j] # NoCall
        PROVE  /\ payCall'[j].contract \in Contracts
               /\ PayDraft(payCall'[j].contract, payCall'[j].row, payCall'[j].postings)
               /\ j # k => payCall'[j].contract # c
    <3>1. CASE j = k
      BY <2>1, <2>3, <3>1
    <3>2. CASE j # k
      BY <2>2, <2>3, <2>4, <3>2 DEF PayLedgerInv, ObligationFree
    <3> QED BY <3>1, <3>2
  <2>5. ASSUME NEW j \in PaymentCalls, payCall'[j] # NoCall
        PROVE  PayDraft(payCall[j].contract, payCall[j].row, payCall[j].postings)'
    <3>1. PICK d, r, s : d = payCall'[j].contract /\ r = payCall'[j].row
                         /\ s = payCall'[j].postings
      OBVIOUS
    <3>2. PayDraft(d, r, s)
      BY <2>4, <2>5, <3>1
    <3>3. PayDraft(d, r, s)'
      BY <1>1, <2>2, <3>2
    <3> QED BY <3>1, <3>3 DEF PayDraft, PayAccount, PayResult
  <2>6. \A i, j \in PaymentCalls :
           payCall'[i] # NoCall /\ payCall'[j] # NoCall
           /\ payCall'[i].contract = payCall'[j].contract => i = j
    BY <2>3, <2>4 DEF PayLedgerInv
  <2>7. PayLedgerInv'
    BY <1>1, <2>2, <2>3, <2>4, <2>5, <2>6 DEF PayLedgerInv
  <2> QED BY <1>1, <2>2, <2>7
<1>3. CASE \E k \in PaymentCalls : RollBackPayment(k)
  <2>1. PICK k \in PaymentCalls : RollBackPayment(k)
    BY <1>3
  <2>2. /\ UNCHANGED <<obligation, payBook>> /\ DOMAIN payCall' = PaymentCalls
        /\ \A j \in PaymentCalls : payCall'[j] = NoCall \/ payCall'[j] = payCall[j]
    BY <2>1 DEF RollBackPayment, PayLedgerInv
  <2>3. ASSUME NEW j \in PaymentCalls, payCall'[j] # NoCall
        PROVE  PayDraft(payCall[j].contract, payCall[j].row, payCall[j].postings)'
    <3>1. PICK d, r, s : d = payCall'[j].contract /\ r = payCall'[j].row
                         /\ s = payCall'[j].postings
      OBVIOUS
    <3>2. PayDraft(d, r, s)
      BY <2>2, <2>3, <3>1 DEF PayLedgerInv
    <3>3. PayDraft(d, r, s)'
      BY <1>1, <2>2, <3>2
    <3> QED BY <3>1, <3>3 DEF PayDraft, PayAccount, PayResult
  <2>4. PayLedgerInv'
    BY <1>1, <2>2, <2>3 DEF PayLedgerInv
  <2> QED BY <1>1, <2>2, <2>4
<1>4. CASE UNCHANGED <<obligation, payBook, payCall>>
  <2>1. PayLedgerInv'
    BY <1>1, <1>4 DEF PayLedgerInv, PayDraft, PayAccount, PayResult
  <2> QED BY <1>1, <1>4, <2>1
<1>5. CASE \E k \in PaymentCalls : CommitPayment(k)
  <2>1. PICK k \in PaymentCalls : CommitPayment(k)
    BY <1>5
  <2>2. PICK c, row, postings : c = payCall[k].contract /\ row = payCall[k].row
                                /\ postings = payCall[k].postings
    OBVIOUS
  <2>3. /\ payCall[k] # NoCall /\ payCall' = [payCall EXCEPT ![k] = NoCall]
        /\ obligation' = [obligation EXCEPT ![c] = row]
        /\ payBook' = [payBook EXCEPT ![c] = payBook[c] \o postings]
    BY <2>1, <2>2 DEF CommitPayment
  <2>4. c \in Contracts /\ PayDraft(c, row, postings)
    BY <2>2, <2>3 DEF PayLedgerInv
  <2>5. /\ payBook[c] \in Seq(Posting) /\ postings \in Seq(Posting) /\ row \in Obligation
        /\ row.status # "absent"
    BY <2>4 DEF PayLedgerInv, PayDraft
  <2>6. payBook[c] \o postings \in Seq(Posting)
    BY <2>5, Posted
  <2>7. /\ payBook' \in [Contracts -> Seq(Posting)]
        /\ obligation' \in [Contracts -> Obligation]
        /\ payBook'[c] = payBook[c] \o postings /\ obligation'[c] = row
        /\ \A d \in Contracts \ {c} : payBook'[d] = payBook[d] /\ obligation'[d] = obligation[d]
        /\ DOMAIN payCall' = PaymentCalls /\ payCall'[k] = NoCall
        /\ \A j \in PaymentCalls \ {k} : payCall'[j] = payCall[j]
    BY <2>3, <2>4, <2>5, <2>6 DEF PayLedgerInv
  <2>8. PayAccount(c)' = PayResult(c, row, postings)
    BY <2>5, <2>7 DEF PayAccount, PayResult
  <2>9. /\ AccountHolds(PayAccount(c)', MaxPostings, {ContractAmount})
        /\ LedgerMove(PayAccount(c), PayAccount(c)', MaxPostings, {ContractAmount})
    <3>1. PICK a, z : a = PayAccount(c) /\ z = PayResult(c, row, postings)
      OBVIOUS
    <3>2. /\ AccountHolds(a, MaxPostings, {ContractAmount})
          /\ Outcome(a, z, MaxPostings, {ContractAmount})
      BY <2>4, <3>1 DEF PayLedgerInv, PayDraft
    <3>3. MaxPostings \in Nat /\ {ContractAmount} \subseteq Nat \ {0}
      BY PaymentAssumption
    <3>4. /\ AccountHolds(z, MaxPostings, {ContractAmount})
          /\ LedgerMove(a, z, MaxPostings, {ContractAmount})
      BY <3>2, <3>3, OutcomeMoves
    <3> QED BY <2>8, <3>1, <3>4
  <2>10. \A d \in Contracts \ {c} : PayAccount(d)' = PayAccount(d)
    BY <2>7 DEF PayAccount
  <2>11. \A d \in Contracts : AccountHolds(PayAccount(d)', MaxPostings, {ContractAmount})
    BY <2>9, <2>10 DEF PayLedgerInv
  <2>12. ASSUME NEW j \in PaymentCalls, payCall'[j] # NoCall
         PROVE  /\ payCall'[j].contract \in Contracts
                /\ PayDraft(payCall[j].contract, payCall[j].row, payCall[j].postings)'
    <3>1. PICK d, r, s : d = payCall'[j].contract /\ r = payCall'[j].row
                         /\ s = payCall'[j].postings
      OBVIOUS
    <3>2. j # k /\ payCall'[j] = payCall[j] /\ payCall[j] # NoCall
      BY <2>7, <2>12
    <3>3. d \in Contracts /\ d # c /\ PayDraft(d, r, s)
      BY <2>2, <2>3, <3>1, <3>2 DEF PayLedgerInv
    <3>4. PayDraft(d, r, s)'
      BY <2>7, <3>3, PayDraftFrame
    <3> QED BY <3>1, <3>3, <3>4 DEF PayDraft, PayAccount, PayResult
  <2>13. PayLedgerInv'
    <3>1. \A i, j \in PaymentCalls :
             payCall'[i] # NoCall /\ payCall'[j] # NoCall
             /\ payCall'[i].contract = payCall'[j].contract => i = j
      BY <2>7 DEF PayLedgerInv
    <3> QED BY <2>7, <2>11, <2>12, <3>1 DEF PayLedgerInv
  <2> QED BY <2>4, <2>9, <2>10, <2>13 DEF PayMoves
<1> QED BY <1>2, <1>3, <1>4, <1>5 DEF PayDrafts

\* At first every account is absent and empty.
LEMMA PayLedgerInit ==
  ASSUME FinanceInit
  PROVE  PayLedgerInv /\ \A c \in Contracts : PayAccount(c) = AccountRow(<<>>, "absent", 0)
<1>1. /\ payBook = [c \in Contracts |-> <<>>] /\ payCall = [k \in PaymentCalls |-> NoCall]
      /\ obligation = [c \in Contracts |-> [status |-> "absent", onTrip |-> FALSE]]
  BY DEF FinanceInit, PaymentInit
<1>2. \A c \in Contracts : PayAccount(c) = AccountRow(<<>>, "absent", 0)
  BY <1>1 DEF PayAccount
<1>3. AccountHolds(AccountRow(<<>>, "absent", 0), MaxPostings, {ContractAmount})
  <2>1. BookHolds(<<>>, MaxPostings) /\ Net(<<>>) = 0
    BY PaymentAssumption, EmptyBook
  <2> QED BY <2>1 DEF AccountHolds, AccountRow, InUse
<1>4. /\ payBook \in [Contracts -> Seq(Posting)]
      /\ obligation \in [Contracts -> Obligation]
  BY <1>1 DEF Obligation
<1> QED BY <1>1, <1>2, <1>3, <1>4 DEF PayLedgerInv

\* The total of the abstract ledger is the sum of the money.
LEMMA PayTotal ==
  ASSUME NEW m \in [1..MaxPostings -> Nat]
  PROVE  Payables!Total(m) = SumOf(m)
<1>1. MaxPostings \in Nat /\ m \in [1..MaxPostings -> Int]
  BY PaymentAssumption
<1>2. m \in Seq(Int) /\ Len(m) = MaxPostings
  BY <1>1
<1>3. PICK f : f = CHOOSE g : g = [i \in 0..MaxPostings |-> IF i = 0 THEN 0 ELSE g[i - 1] + m[i]]
  OBVIOUS
<1>4. Payables!Total(m) = f[MaxPostings]
  BY <1>3 DEF Payables!Total
<1>5. Sums(f, m, MaxPostings)
  BY <1>1, <1>3, RecursionSums
<1>6. PICK g : Sums(g, m, MaxPostings) /\ SumOf(m) = g[MaxPostings]
  BY <1>2, SumOfSums
<1>7. \A i \in 0..MaxPostings : f[i] = g[i]
  <2>1. Alike(m, m, MaxPostings) /\ MaxPostings <= MaxPostings
    BY <1>1 DEF Alike
  <2> QED BY <1>1, <1>5, <1>6, <2>1, SumsAgree
<1> QED BY <1>1, <1>4, <1>6, <1>7

\* A move of one account is a step of its ledger.
LEMMA PayMapping ==
  ASSUME PayLedgerInv, PayLedgerInv', NEW c \in Contracts, PayMoves(c)
  PROVE  [Payables!LedgerNext]_(Payables!ledgerVars)
<1> DEFINE held == [a \in Contracts |-> Outstanding(payBook[a], MaxPostings)]
           limit == [a \in Contracts |->
                        IF obligation[a].status = "absent" THEN 0 ELSE ContractAmount]
           state == [a \in Contracts |-> obligation[a].status]
<1>1. PICK m, n, l, p, s, t :
         /\ m = Outstanding(payBook[c], MaxPostings) /\ n = Outstanding(payBook[c], MaxPostings)'
         /\ l = limit[c] /\ p = limit'[c] /\ s = obligation[c].status /\ t = obligation'[c].status
  OBVIOUS
<1>2. /\ held[c] = m /\ held' = [held EXCEPT ![c] = n]
      /\ limit[c] = l /\ limit' = [limit EXCEPT ![c] = p]
      /\ state[c] = s /\ state' = [state EXCEPT ![c] = t]
  BY <1>1 DEF PayMoves, PayAccount, AccountRow
<1>3. /\ m \in [1..MaxPostings -> Nat] /\ n \in [1..MaxPostings -> Nat]
      /\ Payables!Total(m) = SumOf(m) /\ Payables!Total(n) = SumOf(n)
  <2>1. payBook[c] \in Seq(Posting) /\ payBook'[c] \in Seq(Posting)
    BY DEF PayLedgerInv
  <2>2. m \in [1..MaxPostings -> Nat] /\ n \in [1..MaxPostings -> Nat]
    BY <1>1, <2>1, PaymentAssumption, OutstandingAmounts
  <2> QED BY <2>2, PayTotal
<1>4. /\ Payables!StateFor(n, l) = MoneyState(n, l)
      /\ Payables!Nothing = Emptied(MaxPostings)
  BY <1>3 DEF Payables!StateFor, Payables!Nothing, MoneyState, Emptied
<1>5. PICK a, z : a = PayAccount(c) /\ z = PayAccount(c)'
  OBVIOUS
<1>6. /\ LedgerMove(a, z, MaxPostings, {ContractAmount})
      /\ a.status = s /\ z.status = t /\ a.limit = l /\ z.limit = p
      /\ Money(a, MaxPostings) = m /\ Money(z, MaxPostings) = n
  BY <1>1, <1>5 DEF PayMoves, PayAccount, AccountRow, Money
<1>7. CASE n = m /\ p = l /\ t = s
  <2>1. UNCHANGED <<held, limit, state>>
    BY <1>2, <1>7
  <2> QED BY <2>1 DEF Payables!ledgerVars
<1>8. CASE s = "absent" /\ t = "open" /\ p \in {ContractAmount} /\ n = m
  <2>1. UNCHANGED held
    BY <1>2, <1>8
  <2>2. Payables!OpenAccount(c)
    BY <1>2, <1>8, <2>1 DEF Payables!OpenAccount
  <2> QED BY <2>2 DEF Payables!LedgerNext
<1>9. CASE MovedMoney(a, z, MaxPostings)
  <2>1. /\ s \notin {"absent", "cancelled"} /\ p = l /\ t = MoneyState(n, l)
        /\ \E place \in 1..MaxPostings :
              \/ m[place] # 0 /\ n = [m EXCEPT ![place] = 0]
              \/ \E amount \in 1..l : /\ m[place] = 0 /\ SumOf(m) + amount <= l
                                      /\ n = [m EXCEPT ![place] = amount]
    BY <1>6, <1>9 DEF MovedMoney, InUse
  <2>2. UNCHANGED limit
    BY <1>2, <2>1
  <2>3. /\ state[c] \notin {"absent", "cancelled"}
        /\ held' = [held EXCEPT ![c] = n]
        /\ state' = [state EXCEPT ![c] = Payables!StateFor(n, limit[c])]
        /\ UNCHANGED limit
    BY <1>2, <1>4, <2>1, <2>2
  <2>4. PICK place \in 1..MaxPostings :
              \/ m[place] # 0 /\ n = [m EXCEPT ![place] = 0]
              \/ \E amount \in 1..l : /\ m[place] = 0 /\ SumOf(m) + amount <= l
                                      /\ n = [m EXCEPT ![place] = amount]
    BY <2>1
  <2>5. CASE m[place] # 0 /\ n = [m EXCEPT ![place] = 0]
    <3>0. held[c][place] # 0 /\ [held[c] EXCEPT ![place] = 0] = n
      BY <1>2, <2>5
    <3>1. Payables!TakeBack(c, place)
      BY ONLY <2>3, <3>0 DEF Payables!TakeBack, Payables!SetMoney
    <3> QED BY <2>4, <3>1 DEF Payables!LedgerNext
  <2>6. CASE \E amount \in 1..l : /\ m[place] = 0 /\ SumOf(m) + amount <= l
                                  /\ n = [m EXCEPT ![place] = amount]
    <3>1. PICK amount \in 1..l : /\ m[place] = 0 /\ SumOf(m) + amount <= l
                                 /\ n = [m EXCEPT ![place] = amount]
      BY <2>6
    <3>0. /\ held[c][place] = 0 /\ Payables!Total(held[c]) + amount <= limit[c]
          /\ [held[c] EXCEPT ![place] = amount] = n
      BY <1>2, <1>3, <3>1
    <3>2. Payables!AddMoney(c, place, amount)
      BY ONLY <2>3, <3>0 DEF Payables!AddMoney, Payables!SetMoney
    <3>3. amount \in 1..limit[c]
      BY <1>2
    <3> QED BY <2>4, <3>2, <3>3 DEF Payables!LedgerNext
  <2> QED BY <2>4, <2>5, <2>6
<1>10. CASE /\ s \notin {"absent", "cancelled"} /\ t = "cancelled" /\ p = l
            /\ m = Emptied(MaxPostings) /\ n = m
  <2>1. UNCHANGED held /\ UNCHANGED limit
    BY <1>2, <1>10
  <2>2. Payables!CloseAccount(c)
    BY <1>2, <1>4, <1>10, <2>1 DEF Payables!CloseAccount
  <2> QED BY <2>2 DEF Payables!LedgerNext
<1> QED BY <1>6, <1>7, <1>8, <1>9, <1>10 DEF LedgerMove, InUse

\* PayablesImplementLedger: whatever calls of the payment service and of the bank
\* reconciliation overlap, an obligation moves as an account does to which money
\* is added up to its limit and from which it is taken back whole, whose status is
\* the one of its money, and which is closed only when it is empty (the triggers
\* of migrations 0036 and 0037).
THEOREM PayablesKept == FinanceSpec => PayablesImplementLedger
<1>1. FinanceInit => PayLedgerInv /\ Payables!LedgerInit
  <2> SUFFICES ASSUME FinanceInit PROVE PayLedgerInv /\ Payables!LedgerInit
    OBVIOUS
  <2>1. \A c \in Contracts : payBook[c] = <<>> /\ obligation[c].status = "absent"
    BY DEF FinanceInit, PaymentInit
  <2>2. Outstanding(<<>>, MaxPostings) = [i \in 1..MaxPostings |-> 0]
    BY PaymentAssumption, EmptyBook
  <2> QED BY <2>1, <2>2, PayLedgerInit DEF Payables!LedgerInit, Payables!Nothing
<1>2. PayLedgerInv /\ [FinanceNext]_financeVars => PayLedgerInv'
  BY EveryPayDraft, PayLedgerStep
<1>3. PayLedgerInv /\ PayLedgerInv' /\ [FinanceNext]_financeVars
      => [Payables!LedgerNext]_(Payables!ledgerVars)
  <2> SUFFICES ASSUME PayLedgerInv, PayLedgerInv', [FinanceNext]_financeVars
               PROVE  [Payables!LedgerNext]_(Payables!ledgerVars)
    OBVIOUS
  <2>1. CASE \A c \in Contracts : PayAccount(c)' = PayAccount(c)
    <3>1. \A c \in Contracts :
             /\ Outstanding(payBook[c], MaxPostings)' = Outstanding(payBook[c], MaxPostings)
             /\ obligation'[c].status = obligation[c].status
      BY <2>1 DEF PayAccount, AccountRow
    <3> QED BY <3>1 DEF Payables!ledgerVars
  <2>2. CASE \E c \in Contracts : PayMoves(c)
    BY <2>2, PayMapping
  <2> QED BY <2>1, <2>2, EveryPayDraft, PayLedgerStep
<1> QED BY <1>1, <1>2, <1>3, PTL DEF FinanceSpec, PayablesImplementLedger, Payables!LedgerSpec

-----------------------------------------------------------------------------
(* The accounts of the requests.                                           *)

\* The account of a request.
ReceiptAccount(q) ==
    AccountRow(receiptBook[q], receivable[q].status, receivable[q].invoiced)

\* The account that a draft leaves when it is committed.
ReceiptResult(q, row, postings) ==
    AccountRow(receiptBook[q] \o postings, row.status, row.invoiced)

\* What a call that has written, and not committed, will leave.
ReceiptDraft(q, row, postings) ==
    /\ row \in Receivable /\ postings \in Seq(Posting)
    /\ Outcome(ReceiptAccount(q), ReceiptResult(q, row, postings), MaxReceipts, InvoicedAmounts)

\* Every account is in order, and at most one call has a draft of it.
ReceiptLedgerInv ==
    /\ receiptBook \in [Requests -> Seq(Posting)]
    /\ receivable \in [Requests -> Receivable]
    /\ DOMAIN receiptCall = ReceiptCalls
    /\ \A q \in Requests : AccountHolds(ReceiptAccount(q), MaxReceipts, InvoicedAmounts)
    /\ \A k \in ReceiptCalls : receiptCall[k] # NoReceipt =>
          /\ receiptCall[k].request \in Requests
          /\ ReceiptDraft(receiptCall[k].request, receiptCall[k].row, receiptCall[k].postings)
    /\ \A j, k \in ReceiptCalls :
          receiptCall[j] # NoReceipt /\ receiptCall[k] # NoReceipt
          /\ receiptCall[j].request = receiptCall[k].request => j = k

\* The row of a receivable whose status is computed again.
LEMMA SettledRow ==
  ASSUME NEW q, receivable[q] \in Receivable, NEW book, NEW fiscal \in BOOLEAN, NEW row,
         row = Settled(q, book, fiscal)
  PROVE  /\ row \in Receivable /\ row.invoiced = receivable[q].invoiced
         /\ row.status = Settlement(Net(book), receivable[q].invoiced)
<1>1. PICK old, status : old = receivable[q] /\ status = Settlement(Net(book), old.invoiced)
  OBVIOUS
<1>2. status \in {"open", "partial", "paid"}
  BY <1>1, SettlementStatus
<1>3. row = [old EXCEPT !.status = status, !.fiscal = fiscal]
  BY <1>1 DEF Settled
<1>4. row.status = status /\ row.invoiced = old.invoiced /\ row \in Receivable
  BY <1>1, <1>2, <1>3 DEF Receivable
<1> QED BY <1>1, <1>4

\* What the statements of a receipt call draft is an outcome.
LEMMA ReceivableDrafted ==
  ASSUME ReceiptLedgerInv, NEW k, NEW q \in Requests, NEW fiscal \in BOOLEAN,
         NEW invoiced, NEW row,
         \/ /\ CreateReceivable(k, q, invoiced, fiscal) /\ invoiced \in InvoicedAmounts
            /\ row = [status |-> "open", invoiced |-> invoiced, fiscal |-> fiscal]
         \/ UpdateReceivable(k, q, fiscal) /\ row = Settled(q, receiptBook[q], fiscal)
         \/ CancelReceivable(k, q) /\ row = [receivable[q] EXCEPT !.status = "cancelled"]
  PROVE  ReceiptDraft(q, row, <<>>)
<1>1. PICK a, z : a = ReceiptAccount(q) /\ z = ReceiptResult(q, row, <<>>)
  OBVIOUS
<1>2. receiptBook[q] \in Seq(Posting) /\ receivable[q] \in Receivable /\ <<>> \in Seq(Posting)
  BY DEF ReceiptLedgerInv
<1>3. /\ a.book = receiptBook[q] /\ a.status = receivable[q].status
      /\ a.limit = receivable[q].invoiced
      /\ z = AccountRow(receiptBook[q], row.status, row.invoiced)
  BY <1>1, <1>2 DEF ReceiptAccount, ReceiptResult, AccountRow
<1>4. CASE /\ CreateReceivable(k, q, invoiced, fiscal) /\ invoiced \in InvoicedAmounts
           /\ row = [status |-> "open", invoiced |-> invoiced, fiscal |-> fiscal]
  <2>1. /\ a.status = "absent" /\ row.status = "open" /\ row.invoiced = invoiced
        /\ row \in Receivable /\ invoiced \in InvoicedAmounts
    BY <1>3, <1>4, ReceivableAssumption DEF CreateReceivable, Receivable
  <2>2. Opened(a, z, InvoicedAmounts)
    BY <1>3, <2>1 DEF Opened
  <2> QED BY <1>1, <1>2, <2>1, <2>2 DEF ReceiptDraft, Outcome
<1>5. CASE UpdateReceivable(k, q, fiscal) /\ row = Settled(q, receiptBook[q], fiscal)
  <2>1. /\ a.status \notin {"absent", "cancelled"}
        /\ row.status = Settlement(Net(receiptBook[q]), a.limit) /\ row.invoiced = a.limit
        /\ row \in Receivable
    BY <1>2, <1>3, <1>5, SettledRow DEF UpdateReceivable, Receiving
  <2>2. Resettled(a, z)
    BY <1>3, <2>1 DEF Resettled, InUse
  <2> QED BY <1>1, <1>2, <2>1, <2>2 DEF ReceiptDraft, Outcome
<1>6. CASE CancelReceivable(k, q) /\ row = [receivable[q] EXCEPT !.status = "cancelled"]
  <2>1. /\ a.status \notin {"absent", "cancelled"} /\ Net(receiptBook[q]) <= 0
        /\ row \in Receivable /\ row.status = "cancelled" /\ row.invoiced = a.limit
    BY <1>2, <1>3, <1>6 DEF CancelReceivable, Receiving, Receivable
  <2>2. ClosedEmpty(a, z)
    BY <1>3, <2>1 DEF ClosedEmpty, InUse
  <2> QED BY <1>1, <1>2, <2>1, <2>2 DEF ReceiptDraft, Outcome
<1> QED BY <1>4, <1>5, <1>6

\* createTransaction drafts an outcome.
LEMMA ReceiptDrafted ==
  ASSUME ReceiptLedgerInv, NEW k, NEW q \in Requests, NEW p, PostingForm(receiptBook[q], p),
         NEW proved, CreateReceipt(k, q, p, proved)
  PROVE  \E row : WriteReceivable(k, q, row, <<p>>) /\ ReceiptDraft(q, row, <<p>>)
<1>1. PICK row : row = Settled(q, Append(receiptBook[q], p), receivable[q].fiscal)
  OBVIOUS
<1>2. PICK a, z : a = ReceiptAccount(q) /\ z = ReceiptResult(q, row, <<p>>)
  OBVIOUS
<1>3. /\ receiptBook[q] \in Seq(Posting) /\ receivable[q] \in Receivable
      /\ receivable[q].fiscal \in BOOLEAN
  BY DEF ReceiptLedgerInv, Receivable
<1>4. p \in Posting /\ Admissible(receiptBook[q], p, receivable[q].invoiced)
  BY <1>3, AllowedPosting DEF CreateReceipt, ReceiptAllowed
<1>5. /\ row \in Receivable /\ row.invoiced = receivable[q].invoiced
      /\ row.status = Settlement(Net(Append(receiptBook[q], p)), receivable[q].invoiced)
  BY <1>1, <1>3, SettledRow
<1>6. /\ a.book = receiptBook[q] /\ a.status = receivable[q].status /\ InUse(a)
      /\ a.limit = receivable[q].invoiced
  BY <1>2 DEF ReceiptAccount, AccountRow, InUse, CreateReceipt, Receiving
<1>7. z = AccountRow(Append(receiptBook[q], p), row.status, a.limit)
  BY <1>2, <1>3, <1>4, <1>5, <1>6, AppendOne DEF ReceiptResult
<1>8. PostedTo(a, z, MaxReceipts)
  BY <1>4, <1>5, <1>6, <1>7 DEF PostedTo, CreateReceipt
<1>9. ReceiptDraft(q, row, <<p>>)
  BY <1>2, <1>3, <1>4, <1>5, <1>8, AppendOne DEF ReceiptDraft, Outcome
<1> QED BY <1>1, <1>9 DEF CreateReceipt

\* What a step does to the receivables and the book of payments.
ReceiptDrafts ==
    \/ \E k \in ReceiptCalls, q \in Requests : \E row, postings :
          WriteReceivable(k, q, row, postings) /\ ReceiptDraft(q, row, postings)
    \/ \E k \in ReceiptCalls : CommitReceipt(k) \/ RollBackReceipt(k)
    \/ UNCHANGED <<receivable, receiptBook, receiptCall>>

\* So does the posting behind a bank entry.
LEMMA InsertReceipt ==
  ASSUME ReceiptLedgerInv, NEW k, NEW t, NEW p, PostingForm(Book(t), p), InsertLedger(k, t, p)
  PROVE  ReceiptDrafts
<1>1. CASE k \in ReceiptCalls /\ t \in Requests /\ CreateReceipt(k, t, p, FALSE)
  <2>1. Book(t) = receiptBook[t]
    BY <1>1, ReconciliationAssumption DEF Book
  <2>2. \E row : WriteReceivable(k, t, row, <<p>>) /\ ReceiptDraft(t, row, <<p>>)
    BY <1>1, <2>1, ReceiptDrafted
  <2> QED BY <1>1, <2>2 DEF ReceiptDrafts
<1>2. CASE UNCHANGED receiptVars
  BY <1>2 DEF ReceiptDrafts, receiptVars
<1> QED BY <1>1, <1>2 DEF InsertLedger

\* No step touches the receivables in another way.
LEMMA EveryReceiptDraft ==
  ASSUME ReceiptLedgerInv, [FinanceNext]_financeVars
  PROVE  ReceiptDrafts
<1>1. CASE UNCHANGED financeVars
  BY <1>1 DEF financeVars, receiptVars, ReceiptDrafts
<1>2. CASE BooksNext
  <2>1. ASSUME NEW k \in ReceiptCalls, ReceiptStep(k) PROVE ReceiptDrafts
    <3>1. ASSUME NEW q \in Requests, NEW row, WriteReceivable(k, q, row, <<>>),
                 ReceiptDraft(q, row, <<>>)
          PROVE  ReceiptDrafts
      BY <3>1 DEF ReceiptDrafts
    <3>2. ASSUME NEW q \in Requests, NEW fiscal \in BOOLEAN, NEW invoiced \in InvoicedAmounts,
                 CreateReceivable(k, q, invoiced, fiscal)
          PROVE  ReceiptDrafts
      BY <3>1, <3>2, ReceivableDrafted DEF CreateReceivable
    <3>3. ASSUME NEW q \in Requests, NEW fiscal \in BOOLEAN, UpdateReceivable(k, q, fiscal)
          PROVE  ReceiptDrafts
      BY <3>1, <3>3, ReceivableDrafted DEF UpdateReceivable
    <3>4. ASSUME NEW q \in Requests, CancelReceivable(k, q) PROVE ReceiptDrafts
      <4>1. TRUE \in BOOLEAN
        OBVIOUS
      <4> QED BY <3>1, <3>4, <4>1, ReceivableDrafted DEF CancelReceivable
    <3>5. ASSUME NEW q \in Requests, NEW p \in ReceiptPostings(q), NEW proved,
                 CreateReceipt(k, q, p, proved)
          PROVE  ReceiptDrafts
      <4>1. PostingForm(receiptBook[q], p)
        BY ReceivableAssumption, EntryForm, ReversalForm DEF ReceiptPostings
      <4> QED BY <3>5, <4>1, ReceiptDrafted DEF ReceiptDrafts
    <3>6. CASE CommitReceipt(k) \/ RollBackReceipt(k)
      BY <3>6 DEF ReceiptDrafts
    <3> QED BY <2>1, <3>2, <3>3, <3>4, <3>5, <3>6 DEF ReceiptStep
  <2>2. CASE ReceivableEnv
    BY <2>2 DEF ReceivableEnv, DefineTerms, DeleteDocument, ReceiptDrafts
  <2>3. CASE UNCHANGED receiptVars
    BY <2>3 DEF receiptVars, ReceiptDrafts
  <2> QED BY <1>2, <2>1, <2>2, <2>3 DEF BooksNext
<1>3. CASE MatchNext
  <2>0. ASSUME UNCHANGED receiptVars PROVE ReceiptDrafts
    BY <2>0 DEF receiptVars, ReceiptDrafts
  <2>1. ASSUME NEW k \in Calls, CommitLedger(k) PROVE ReceiptDrafts
    BY <2>0, <2>1 DEF CommitLedger, ReceiptDrafts
  <2>2. ASSUME NEW batch, CreateImport(batch) PROVE ReceiptDrafts
    BY <2>0, <2>2 DEF CreateImport
  <2>3. ASSUME NEW e, Suggest(e) \/ Ignore(e) PROVE ReceiptDrafts
    BY <2>0, <2>3 DEF Suggest, Ignore
  <2>4. ASSUME NEW k, NEW e, ReverseMatch(k, e) PROVE ReceiptDrafts
    <3>1. PICK t, i : InsertLedger(k, t, ReversalOf(Book(t), i))
      BY <2>4 DEF ReverseMatch
    <3> QED BY <3>1, ReversalForm, InsertReceipt
  <2>5. ASSUME NEW k, NEW e \in BankEntries, NEW t, NEW method, Reconcile(k, e, t, method)
        PROVE  ReceiptDrafts
    <3>1. EntryAmount[e] \in Nat \ {0}
      BY ReconciliationAssumption DEF BankEntries
    <3>2. PostingForm(Book(t), EntryOf(EntryAmount[e]))
      BY <3>1, EntryForm
    <3> QED BY <2>5, <3>2, InsertReceipt DEF Reconcile
  <2>6. ASSUME NEW k \in Calls, FinishReconcile(k) \/ FinishReverseMatch(k) PROVE ReceiptDrafts
    BY <2>1, <2>6 DEF FinishReconcile, FinishReverseMatch
  <2>7. ASSUME NEW k \in Calls, RollBackTask(k) PROVE ReceiptDrafts
    BY <2>0, <2>7 DEF RollBackTask, ReceiptDrafts
  <2> QED BY <1>3, <2>2, <2>3, <2>4, <2>5, <2>6, <2>7 DEF MatchNext
<1> QED BY <1>1, <1>2, <1>3 DEF FinanceNext

\* A draft stands while its account is left alone.
LEMMA ReceiptDraftFrame ==
  ASSUME NEW q, NEW row, NEW postings, ReceiptDraft(q, row, postings),
         receiptBook'[q] = receiptBook[q], receivable'[q] = receivable[q]
  PROVE  ReceiptDraft(q, row, postings)' /\ ReceiptAccount(q)' = ReceiptAccount(q)
BY DEF ReceiptDraft, ReceiptAccount, ReceiptResult

\* One account at most is moved by a step, as the ledger lets it.
ReceiptMoves(q) ==
    /\ LedgerMove(ReceiptAccount(q), ReceiptAccount(q)', MaxReceipts, InvoicedAmounts)
    /\ \A d \in Requests \ {q} : ReceiptAccount(d)' = ReceiptAccount(d)

\* A commit makes the move that was drafted; every other step leaves the accounts alone.
LEMMA ReceiptLedgerStep ==
  ASSUME ReceiptLedgerInv, ReceiptDrafts
  PROVE  /\ ReceiptLedgerInv'
         /\ \/ \A q \in Requests : ReceiptAccount(q)' = ReceiptAccount(q)
            \/ \E q \in Requests : ReceiptMoves(q)
<1>1. ASSUME UNCHANGED <<receivable, receiptBook>>
      PROVE  /\ \A q \in Requests : ReceiptAccount(q)' = ReceiptAccount(q)
             /\ \A q \in Requests : AccountHolds(ReceiptAccount(q), MaxReceipts, InvoicedAmounts)'
             /\ receiptBook' \in [Requests -> Seq(Posting)]
             /\ receivable' \in [Requests -> Receivable]
             /\ \A q, row, postings : ReceiptDraft(q, row, postings) => ReceiptDraft(q, row, postings)'
  <2>1. \A q \in Requests : ReceiptAccount(q)' = ReceiptAccount(q)
    BY <1>1 DEF ReceiptAccount, NoReceivable
  <2>2. \A q, row, postings : ReceiptDraft(q, row, postings) => ReceiptDraft(q, row, postings)'
    BY <1>1, ReceiptDraftFrame
  <2> QED BY <1>1, <2>1, <2>2 DEF ReceiptLedgerInv
<1>2. CASE \E k \in ReceiptCalls, q \in Requests : \E row, postings :
              WriteReceivable(k, q, row, postings) /\ ReceiptDraft(q, row, postings)
  <2>0. PICK k \in ReceiptCalls, q \in Requests :
           \E row, postings :
              WriteReceivable(k, q, row, postings) /\ ReceiptDraft(q, row, postings)
    BY <1>2
  <2>1. PICK row, postings :
           WriteReceivable(k, q, row, postings) /\ ReceiptDraft(q, row, postings)
    BY <2>0
  <2>2. /\ UNCHANGED <<receivable, receiptBook>>
        /\ receiptCall[k] = NoReceipt /\ ReceivableFree(q)
        /\ receiptCall' = [receiptCall EXCEPT ![k] =
               [request |-> q, row |-> row, postings |-> postings]]
    BY <2>1 DEF WriteReceivable
  <2>3. /\ DOMAIN receiptCall' = ReceiptCalls
        /\ \A j \in ReceiptCalls : j # k => receiptCall'[j] = receiptCall[j]
        /\ receiptCall'[k].request = q /\ receiptCall'[k].row = row /\ receiptCall'[k].postings = postings
    BY <2>2 DEF ReceiptLedgerInv
  <2>4. ASSUME NEW j \in ReceiptCalls, receiptCall'[j] # NoReceipt
        PROVE  /\ receiptCall'[j].request \in Requests
               /\ ReceiptDraft(receiptCall'[j].request, receiptCall'[j].row, receiptCall'[j].postings)
               /\ j # k => receiptCall'[j].request # q
    <3>1. CASE j = k
      BY <2>1, <2>3, <3>1
    <3>2. CASE j # k
      BY <2>2, <2>3, <2>4, <3>2 DEF ReceiptLedgerInv, ReceivableFree
    <3> QED BY <3>1, <3>2
  <2>5. ASSUME NEW j \in ReceiptCalls, receiptCall'[j] # NoReceipt
        PROVE  ReceiptDraft(receiptCall[j].request, receiptCall[j].row, receiptCall[j].postings)'
    <3>1. PICK d, r, s : d = receiptCall'[j].request /\ r = receiptCall'[j].row
                         /\ s = receiptCall'[j].postings
      OBVIOUS
    <3>2. ReceiptDraft(d, r, s)
      BY <2>4, <2>5, <3>1
    <3>3. ReceiptDraft(d, r, s)'
      BY <1>1, <2>2, <3>2
    <3> QED BY <3>1, <3>3 DEF ReceiptDraft, ReceiptAccount, ReceiptResult
  <2>6. \A i, j \in ReceiptCalls :
           receiptCall'[i] # NoReceipt /\ receiptCall'[j] # NoReceipt
           /\ receiptCall'[i].request = receiptCall'[j].request => i = j
    BY <2>3, <2>4 DEF ReceiptLedgerInv
  <2>7. ReceiptLedgerInv'
    BY <1>1, <2>2, <2>3, <2>4, <2>5, <2>6 DEF ReceiptLedgerInv
  <2> QED BY <1>1, <2>2, <2>7
<1>3. CASE \E k \in ReceiptCalls : RollBackReceipt(k)
  <2>1. PICK k \in ReceiptCalls : RollBackReceipt(k)
    BY <1>3
  <2>2. /\ UNCHANGED <<receivable, receiptBook>> /\ DOMAIN receiptCall' = ReceiptCalls
        /\ \A j \in ReceiptCalls : receiptCall'[j] = NoReceipt \/ receiptCall'[j] = receiptCall[j]
    BY <2>1 DEF RollBackReceipt, ReceiptLedgerInv
  <2>3. ASSUME NEW j \in ReceiptCalls, receiptCall'[j] # NoReceipt
        PROVE  ReceiptDraft(receiptCall[j].request, receiptCall[j].row, receiptCall[j].postings)'
    <3>1. PICK d, r, s : d = receiptCall'[j].request /\ r = receiptCall'[j].row
                         /\ s = receiptCall'[j].postings
      OBVIOUS
    <3>2. ReceiptDraft(d, r, s)
      BY <2>2, <2>3, <3>1 DEF ReceiptLedgerInv
    <3>3. ReceiptDraft(d, r, s)'
      BY <1>1, <2>2, <3>2
    <3> QED BY <3>1, <3>3 DEF ReceiptDraft, ReceiptAccount, ReceiptResult
  <2>4. ReceiptLedgerInv'
    BY <1>1, <2>2, <2>3 DEF ReceiptLedgerInv
  <2> QED BY <1>1, <2>2, <2>4
<1>4. CASE UNCHANGED <<receivable, receiptBook, receiptCall>>
  <2>1. ReceiptLedgerInv'
    BY <1>1, <1>4 DEF ReceiptLedgerInv, ReceiptDraft, ReceiptAccount, ReceiptResult
  <2> QED BY <1>1, <1>4, <2>1
<1>5. CASE \E k \in ReceiptCalls : CommitReceipt(k)
  <2>1. PICK k \in ReceiptCalls : CommitReceipt(k)
    BY <1>5
  <2>2. PICK q, row, postings : q = receiptCall[k].request /\ row = receiptCall[k].row
                                /\ postings = receiptCall[k].postings
    OBVIOUS
  <2>3. /\ receiptCall[k] # NoReceipt /\ receiptCall' = [receiptCall EXCEPT ![k] = NoReceipt]
        /\ receivable' = [receivable EXCEPT ![q] = row]
        /\ receiptBook' = [receiptBook EXCEPT ![q] = receiptBook[q] \o postings]
    BY <2>1, <2>2 DEF CommitReceipt
  <2>4. q \in Requests /\ ReceiptDraft(q, row, postings)
    BY <2>2, <2>3 DEF ReceiptLedgerInv
  <2>5. /\ receiptBook[q] \in Seq(Posting) /\ postings \in Seq(Posting) /\ row \in Receivable
    BY <2>4 DEF ReceiptLedgerInv, ReceiptDraft
  <2>6. receiptBook[q] \o postings \in Seq(Posting)
    BY <2>5, Posted
  <2>7. /\ receiptBook' \in [Requests -> Seq(Posting)]
        /\ receivable' \in [Requests -> Receivable]
        /\ receiptBook'[q] = receiptBook[q] \o postings /\ receivable'[q] = row
        /\ \A d \in Requests \ {q} : receiptBook'[d] = receiptBook[d] /\ receivable'[d] = receivable[d]
        /\ DOMAIN receiptCall' = ReceiptCalls /\ receiptCall'[k] = NoReceipt
        /\ \A j \in ReceiptCalls \ {k} : receiptCall'[j] = receiptCall[j]
    BY <2>3, <2>4, <2>5, <2>6 DEF ReceiptLedgerInv
  <2>8. ReceiptAccount(q)' = ReceiptResult(q, row, postings)
    BY <2>5, <2>7 DEF ReceiptAccount, ReceiptResult
  <2>9. /\ AccountHolds(ReceiptAccount(q)', MaxReceipts, InvoicedAmounts)
        /\ LedgerMove(ReceiptAccount(q), ReceiptAccount(q)', MaxReceipts, InvoicedAmounts)
    <3>1. PICK a, z : a = ReceiptAccount(q) /\ z = ReceiptResult(q, row, postings)
      OBVIOUS
    <3>2. /\ AccountHolds(a, MaxReceipts, InvoicedAmounts)
          /\ Outcome(a, z, MaxReceipts, InvoicedAmounts)
      BY <2>4, <3>1 DEF ReceiptLedgerInv, ReceiptDraft
    <3>3. MaxReceipts \in Nat /\ InvoicedAmounts \subseteq Nat \ {0}
      BY ReceivableAssumption
    <3>4. /\ AccountHolds(z, MaxReceipts, InvoicedAmounts)
          /\ LedgerMove(a, z, MaxReceipts, InvoicedAmounts)
      BY <3>2, <3>3, OutcomeMoves
    <3> QED BY <2>8, <3>1, <3>4
  <2>10. \A d \in Requests \ {q} : ReceiptAccount(d)' = ReceiptAccount(d)
    BY <2>7 DEF ReceiptAccount
  <2>11. \A d \in Requests : AccountHolds(ReceiptAccount(d)', MaxReceipts, InvoicedAmounts)
    BY <2>9, <2>10 DEF ReceiptLedgerInv
  <2>12. ASSUME NEW j \in ReceiptCalls, receiptCall'[j] # NoReceipt
         PROVE  /\ receiptCall'[j].request \in Requests
                /\ ReceiptDraft(receiptCall[j].request, receiptCall[j].row, receiptCall[j].postings)'
    <3>1. PICK d, r, s : d = receiptCall'[j].request /\ r = receiptCall'[j].row
                         /\ s = receiptCall'[j].postings
      OBVIOUS
    <3>2. j # k /\ receiptCall'[j] = receiptCall[j] /\ receiptCall[j] # NoReceipt
      BY <2>7, <2>12
    <3>3. d \in Requests /\ d # q /\ ReceiptDraft(d, r, s)
      BY <2>2, <2>3, <3>1, <3>2 DEF ReceiptLedgerInv
    <3>4. ReceiptDraft(d, r, s)'
      BY <2>7, <3>3, ReceiptDraftFrame
    <3> QED BY <3>1, <3>3, <3>4 DEF ReceiptDraft, ReceiptAccount, ReceiptResult
  <2>13. ReceiptLedgerInv'
    <3>1. \A i, j \in ReceiptCalls :
             receiptCall'[i] # NoReceipt /\ receiptCall'[j] # NoReceipt
             /\ receiptCall'[i].request = receiptCall'[j].request => i = j
      BY <2>7 DEF ReceiptLedgerInv
    <3> QED BY <2>7, <2>11, <2>12, <3>1 DEF ReceiptLedgerInv
  <2> QED BY <2>4, <2>9, <2>10, <2>13 DEF ReceiptMoves
<1> QED BY <1>2, <1>3, <1>4, <1>5 DEF ReceiptDrafts

\* At first every account is absent and empty.
LEMMA ReceiptLedgerInit ==
  ASSUME FinanceInit
  PROVE  ReceiptLedgerInv /\ \A q \in Requests : ReceiptAccount(q) = AccountRow(<<>>, "absent", 0)
<1>1. /\ receiptBook = [q \in Requests |-> <<>>] /\ receiptCall = [k \in ReceiptCalls |-> NoReceipt]
      /\ receivable = [q \in Requests |-> NoReceivable]
  BY DEF FinanceInit, ReceivableInit
<1>2. \A q \in Requests : ReceiptAccount(q) = AccountRow(<<>>, "absent", 0)
  BY <1>1 DEF ReceiptAccount, NoReceivable
<1>3. AccountHolds(AccountRow(<<>>, "absent", 0), MaxReceipts, InvoicedAmounts)
  <2>1. BookHolds(<<>>, MaxReceipts) /\ Net(<<>>) = 0
    BY ReceivableAssumption, EmptyBook
  <2> QED BY <2>1 DEF AccountHolds, AccountRow, InUse
<1>4. /\ receiptBook \in [Requests -> Seq(Posting)]
      /\ receivable \in [Requests -> Receivable]
  BY <1>1 DEF Receivable, NoReceivable
<1> QED BY <1>1, <1>2, <1>3, <1>4 DEF ReceiptLedgerInv

\* The total of the abstract ledger is the sum of the money.
LEMMA ReceiptTotal ==
  ASSUME NEW m \in [1..MaxReceipts -> Nat]
  PROVE  Receivables!Total(m) = SumOf(m)
<1>1. MaxReceipts \in Nat /\ m \in [1..MaxReceipts -> Int]
  BY ReceivableAssumption
<1>2. m \in Seq(Int) /\ Len(m) = MaxReceipts
  BY <1>1
<1>3. PICK f : f = CHOOSE g : g = [i \in 0..MaxReceipts |-> IF i = 0 THEN 0 ELSE g[i - 1] + m[i]]
  OBVIOUS
<1>4. Receivables!Total(m) = f[MaxReceipts]
  BY <1>3 DEF Receivables!Total
<1>5. Sums(f, m, MaxReceipts)
  BY <1>1, <1>3, RecursionSums
<1>6. PICK g : Sums(g, m, MaxReceipts) /\ SumOf(m) = g[MaxReceipts]
  BY <1>2, SumOfSums
<1>7. \A i \in 0..MaxReceipts : f[i] = g[i]
  <2>1. Alike(m, m, MaxReceipts) /\ MaxReceipts <= MaxReceipts
    BY <1>1 DEF Alike
  <2> QED BY <1>1, <1>5, <1>6, <2>1, SumsAgree
<1> QED BY <1>1, <1>4, <1>6, <1>7

\* A move of one account is a step of its ledger.
LEMMA ReceiptMapping ==
  ASSUME ReceiptLedgerInv, ReceiptLedgerInv', NEW q \in Requests, ReceiptMoves(q)
  PROVE  [Receivables!LedgerNext]_(Receivables!ledgerVars)
<1> DEFINE held == [a \in Requests |-> Outstanding(receiptBook[a], MaxReceipts)]
           limit == [a \in Requests |-> receivable[a].invoiced]
           state == [a \in Requests |-> receivable[a].status]
<1>1. PICK m, n, l, p, s, t :
         /\ m = Outstanding(receiptBook[q], MaxReceipts) /\ n = Outstanding(receiptBook[q], MaxReceipts)'
         /\ l = limit[q] /\ p = limit'[q] /\ s = receivable[q].status /\ t = receivable'[q].status
  OBVIOUS
<1>2. /\ held[q] = m /\ held' = [held EXCEPT ![q] = n]
      /\ limit[q] = l /\ limit' = [limit EXCEPT ![q] = p]
      /\ state[q] = s /\ state' = [state EXCEPT ![q] = t]
  BY <1>1 DEF ReceiptMoves, ReceiptAccount, AccountRow
<1>3. /\ m \in [1..MaxReceipts -> Nat] /\ n \in [1..MaxReceipts -> Nat]
      /\ Receivables!Total(m) = SumOf(m) /\ Receivables!Total(n) = SumOf(n)
  <2>1. receiptBook[q] \in Seq(Posting) /\ receiptBook'[q] \in Seq(Posting)
    BY DEF ReceiptLedgerInv
  <2>2. m \in [1..MaxReceipts -> Nat] /\ n \in [1..MaxReceipts -> Nat]
    BY <1>1, <2>1, ReceivableAssumption, OutstandingAmounts
  <2> QED BY <2>2, ReceiptTotal
<1>4. /\ Receivables!StateFor(n, l) = MoneyState(n, l)
      /\ Receivables!Nothing = Emptied(MaxReceipts)
  BY <1>3 DEF Receivables!StateFor, Receivables!Nothing, MoneyState, Emptied
<1>5. PICK a, z : a = ReceiptAccount(q) /\ z = ReceiptAccount(q)'
  OBVIOUS
<1>6. /\ LedgerMove(a, z, MaxReceipts, InvoicedAmounts)
      /\ a.status = s /\ z.status = t /\ a.limit = l /\ z.limit = p
      /\ Money(a, MaxReceipts) = m /\ Money(z, MaxReceipts) = n
  BY <1>1, <1>5 DEF ReceiptMoves, ReceiptAccount, AccountRow, Money
<1>7. CASE n = m /\ p = l /\ t = s
  <2>1. UNCHANGED <<held, limit, state>>
    BY <1>2, <1>7
  <2> QED BY <2>1 DEF Receivables!ledgerVars
<1>8. CASE s = "absent" /\ t = "open" /\ p \in InvoicedAmounts /\ n = m
  <2>1. UNCHANGED held
    BY <1>2, <1>8
  <2>2. Receivables!OpenAccount(q)
    BY <1>2, <1>8, <2>1 DEF Receivables!OpenAccount
  <2> QED BY <2>2 DEF Receivables!LedgerNext
<1>9. CASE MovedMoney(a, z, MaxReceipts)
  <2>1. /\ s \notin {"absent", "cancelled"} /\ p = l /\ t = MoneyState(n, l)
        /\ \E place \in 1..MaxReceipts :
              \/ m[place] # 0 /\ n = [m EXCEPT ![place] = 0]
              \/ \E amount \in 1..l : /\ m[place] = 0 /\ SumOf(m) + amount <= l
                                      /\ n = [m EXCEPT ![place] = amount]
    BY <1>6, <1>9 DEF MovedMoney, InUse
  <2>2. UNCHANGED limit
    BY <1>2, <2>1
  <2>3. /\ state[q] \notin {"absent", "cancelled"}
        /\ held' = [held EXCEPT ![q] = n]
        /\ state' = [state EXCEPT ![q] = Receivables!StateFor(n, limit[q])]
        /\ UNCHANGED limit
    BY <1>2, <1>4, <2>1, <2>2
  <2>4. PICK place \in 1..MaxReceipts :
              \/ m[place] # 0 /\ n = [m EXCEPT ![place] = 0]
              \/ \E amount \in 1..l : /\ m[place] = 0 /\ SumOf(m) + amount <= l
                                      /\ n = [m EXCEPT ![place] = amount]
    BY <2>1
  <2>5. CASE m[place] # 0 /\ n = [m EXCEPT ![place] = 0]
    <3>0. held[q][place] # 0 /\ [held[q] EXCEPT ![place] = 0] = n
      BY <1>2, <2>5
    <3>1. Receivables!TakeBack(q, place)
      BY ONLY <2>3, <3>0 DEF Receivables!TakeBack, Receivables!SetMoney
    <3> QED BY <2>4, <3>1 DEF Receivables!LedgerNext
  <2>6. CASE \E amount \in 1..l : /\ m[place] = 0 /\ SumOf(m) + amount <= l
                                  /\ n = [m EXCEPT ![place] = amount]
    <3>1. PICK amount \in 1..l : /\ m[place] = 0 /\ SumOf(m) + amount <= l
                                 /\ n = [m EXCEPT ![place] = amount]
      BY <2>6
    <3>0. /\ held[q][place] = 0 /\ Receivables!Total(held[q]) + amount <= limit[q]
          /\ [held[q] EXCEPT ![place] = amount] = n
      BY <1>2, <1>3, <3>1
    <3>2. Receivables!AddMoney(q, place, amount)
      BY ONLY <2>3, <3>0 DEF Receivables!AddMoney, Receivables!SetMoney
    <3>3. amount \in 1..limit[q]
      BY <1>2
    <3> QED BY <2>4, <3>2, <3>3 DEF Receivables!LedgerNext
  <2> QED BY <2>4, <2>5, <2>6
<1>10. CASE /\ s \notin {"absent", "cancelled"} /\ t = "cancelled" /\ p = l
            /\ m = Emptied(MaxReceipts) /\ n = m
  <2>1. UNCHANGED held /\ UNCHANGED limit
    BY <1>2, <1>10
  <2>2. Receivables!CloseAccount(q)
    BY <1>2, <1>4, <1>10, <2>1 DEF Receivables!CloseAccount
  <2> QED BY <2>2 DEF Receivables!LedgerNext
<1> QED BY <1>6, <1>7, <1>8, <1>9, <1>10 DEF LedgerMove, InUse

\* ReceivablesImplementLedger: the same of a receivable, whose limit is what was
\* invoiced when it was created (the triggers of migration 0038).
THEOREM ReceivablesKept == FinanceSpec => ReceivablesImplementLedger
<1>1. FinanceInit => ReceiptLedgerInv /\ Receivables!LedgerInit
  <2> SUFFICES ASSUME FinanceInit PROVE ReceiptLedgerInv /\ Receivables!LedgerInit
    OBVIOUS
  <2>1. \A q \in Requests : /\ receiptBook[q] = <<>> /\ receivable[q].status = "absent"
                             /\ receivable[q].invoiced = 0
    BY DEF FinanceInit, ReceivableInit, NoReceivable
  <2>2. Outstanding(<<>>, MaxReceipts) = [i \in 1..MaxReceipts |-> 0]
    BY ReceivableAssumption, EmptyBook
  <2> QED BY <2>1, <2>2, ReceiptLedgerInit DEF Receivables!LedgerInit, Receivables!Nothing
<1>2. ReceiptLedgerInv /\ [FinanceNext]_financeVars => ReceiptLedgerInv'
  BY EveryReceiptDraft, ReceiptLedgerStep
<1>3. ReceiptLedgerInv /\ ReceiptLedgerInv' /\ [FinanceNext]_financeVars
      => [Receivables!LedgerNext]_(Receivables!ledgerVars)
  <2> SUFFICES ASSUME ReceiptLedgerInv, ReceiptLedgerInv', [FinanceNext]_financeVars
               PROVE  [Receivables!LedgerNext]_(Receivables!ledgerVars)
    OBVIOUS
  <2>1. CASE \A q \in Requests : ReceiptAccount(q)' = ReceiptAccount(q)
    <3>1. \A q \in Requests :
             /\ Outstanding(receiptBook[q], MaxReceipts)' = Outstanding(receiptBook[q], MaxReceipts)
             /\ receivable'[q].status = receivable[q].status
             /\ receivable'[q].invoiced = receivable[q].invoiced
      BY <2>1 DEF ReceiptAccount, AccountRow
    <3> QED BY <3>1 DEF Receivables!ledgerVars
  <2>2. CASE \E q \in Requests : ReceiptMoves(q)
    BY <2>2, ReceiptMapping
  <2> QED BY <2>1, <2>2, EveryReceiptDraft, ReceiptLedgerStep
<1> QED BY <1>1, <1>2, <1>3, PTL DEF FinanceSpec, ReceivablesImplementLedger, Receivables!LedgerSpec

\* AccountsImplementLedger: both books implement MoneyLedger, however the calls of
\* their own services and of the bank entries interleave.
THEOREM AccountsKept == FinanceSpec => AccountsImplementLedger
BY PayablesKept, ReceivablesKept DEF AccountsImplementLedger

-----------------------------------------------------------------------------
(* The types of the rows.                                                  *)

\* What the other services write, and the calls that have not committed.
PayShape ==
    /\ contractStatus \in [Contracts -> ContractState] /\ linked \subseteq Contracts
    /\ payCall \in [PaymentCalls ->
           {NoCall} \cup [contract : Contracts, row : Obligation, postings : Seq(Posting)]]

ReceiptShape ==
    /\ termed \subseteq Requests /\ documents \subseteq Requests
    /\ receiptCall \in [ReceiptCalls ->
           {NoReceipt} \cup [request : Requests, row : Receivable, postings : Seq(Posting)]]

EntryShape ==
    /\ bankEntry \in [BankEntries -> BankEntry]
    /\ task \in [Calls -> {NoTask} \cup [op : {"reconcile", "reverse"},
                                         entry : BankEntries, target : Targets]]

\* Contracts end and lose their trips; a call drafts a row and its postings.
LEMMA PayShapeStep ==
  ASSUME PayShape, PayLedgerInv, [FinanceNext]_financeVars
  PROVE  PayShape'
<1>1. contractStatus' \in [Contracts -> ContractState] /\ linked' \subseteq Contracts
  BY EveryPayWrite DEF PayShape, PayWrites, WriteObligation, CommitPayment, RollBackPayment,
     PaymentEnv, EndContract, UnlinkTrip, ContractState, contractVars, payVars
<1>2. ASSUME NEW k \in PaymentCalls, NEW c \in Contracts, NEW row, NEW postings,
             WriteObligation(k, c, row, postings), PayDraft(c, row, postings)
      PROVE  PayShape'
  <2>1. /\ payCall' = [payCall EXCEPT ![k] =
               [contract |-> c, row |-> row, postings |-> postings]]
        /\ row \in Obligation /\ postings \in Seq(Posting)
    BY <1>2 DEF WriteObligation, PayDraft
  <2> QED BY <1>1, <2>1 DEF PayShape
<1>3. ASSUME NEW k \in PaymentCalls, CommitPayment(k) \/ RollBackPayment(k) PROVE PayShape'
  <2>1. payCall' = [payCall EXCEPT ![k] = NoCall]
    BY <1>3 DEF CommitPayment, RollBackPayment
  <2> QED BY <1>1, <2>1 DEF PayShape
<1>4. CASE UNCHANGED <<obligation, payBook, payCall>>
  BY <1>1, <1>4 DEF PayShape
<1> QED BY <1>2, <1>3, <1>4, EveryPayDraft DEF PayDrafts

\* What a step does to the terms and the documents of the requests.
BillingMoves == termed' \subseteq termed \cup Requests /\ documents' \subseteq documents

\* Only the other services write them, and no call of the finance module does.
LEMMA BillingStep ==
  ASSUME [FinanceNext]_financeVars
  PROVE  BillingMoves
<1>0. ASSUME UNCHANGED billingVars PROVE BillingMoves
  BY <1>0 DEF billingVars, BillingMoves
<1>1. ASSUME NEW k, NEW q, NEW row, NEW postings, WriteReceivable(k, q, row, postings)
      PROVE  BillingMoves
  BY <1>0, <1>1 DEF WriteReceivable
<1>2. ASSUME NEW k, CommitReceipt(k) \/ RollBackReceipt(k) PROVE BillingMoves
  BY <1>0, <1>2 DEF CommitReceipt, RollBackReceipt
<1>3. CASE UNCHANGED receiptVars
  BY <1>0, <1>3 DEF receiptVars
<1>4. ASSUME NEW k, NEW t, NEW p, InsertLedger(k, t, p) PROVE BillingMoves
  BY <1>1, <1>3, <1>4 DEF InsertLedger, CreateReceipt
<1>5. CASE BooksNext
  <2>1. ASSUME NEW k, ReceiptStep(k) PROVE BillingMoves
    BY <1>1, <1>2, <2>1 DEF ReceiptStep, CreateReceivable, UpdateReceivable,
       CancelReceivable, CreateReceipt
  <2>2. CASE ReceivableEnv
    BY <2>2 DEF ReceivableEnv, DefineTerms, DeleteDocument, BillingMoves
  <2> QED BY <1>3, <1>5, <2>1, <2>2 DEF BooksNext
<1>6. CASE MatchNext
  <2>1. ASSUME NEW e, NEW batch, CreateImport(batch) \/ Suggest(e) \/ Ignore(e)
        PROVE  BillingMoves
    BY <1>3, <2>1 DEF CreateImport, Suggest, Ignore
  <2>2. ASSUME NEW k, NEW e, ReverseMatch(k, e) PROVE BillingMoves
    BY <1>4, <2>2 DEF ReverseMatch
  <2>3. ASSUME NEW k, NEW e, NEW t, NEW method, Reconcile(k, e, t, method)
        PROVE  BillingMoves
    BY <1>4, <2>3 DEF Reconcile
  <2>4. ASSUME NEW k, FinishReconcile(k) \/ FinishReverseMatch(k) \/ RollBackTask(k)
        PROVE  BillingMoves
    BY <1>2, <1>3, <2>4 DEF FinishReconcile, FinishReverseMatch, CommitLedger, RollBackTask
  <2> QED BY <1>6, <2>1, <2>2, <2>3, <2>4 DEF MatchNext
<1> QED BY <1>3, <1>5, <1>6 DEF FinanceNext, financeVars

\* A call drafts a row and its postings.
LEMMA ReceiptShapeStep ==
  ASSUME ReceiptShape, ReceiptLedgerInv, [FinanceNext]_financeVars
  PROVE  ReceiptShape'
<1>1. termed' \subseteq Requests /\ documents' \subseteq Requests
  BY BillingStep DEF ReceiptShape, BillingMoves
<1>2. ASSUME NEW k \in ReceiptCalls, NEW q \in Requests, NEW row, NEW postings,
             WriteReceivable(k, q, row, postings), ReceiptDraft(q, row, postings)
      PROVE  ReceiptShape'
  <2>1. /\ receiptCall' = [receiptCall EXCEPT ![k] =
               [request |-> q, row |-> row, postings |-> postings]]
        /\ row \in Receivable /\ postings \in Seq(Posting)
    BY <1>2 DEF WriteReceivable, ReceiptDraft
  <2> QED BY <1>1, <2>1 DEF ReceiptShape
<1>3. ASSUME NEW k \in ReceiptCalls, CommitReceipt(k) \/ RollBackReceipt(k)
      PROVE  ReceiptShape'
  <2>1. receiptCall' = [receiptCall EXCEPT ![k] = NoReceipt]
    BY <1>3 DEF CommitReceipt, RollBackReceipt
  <2> QED BY <1>1, <2>1 DEF ReceiptShape
<1>4. CASE UNCHANGED <<receivable, receiptBook, receiptCall>>
  BY <1>1, <1>4 DEF ReceiptShape
<1> QED BY <1>2, <1>3, <1>4, EveryReceiptDraft DEF ReceiptDrafts

\* An entry gets one of the statuses and a target or none; a call that takes it
\* says which entry and which target.
LEMMA EntryShapeStep ==
  ASSUME EntryShape, MatchInv, [FinanceNext]_financeVars
  PROVE  EntryShape'
<1>1. ASSUME NEW e \in BankEntries, NEW s, NEW t \in Targets \cup {NoTarget}, NEW ms,
             s \in {"suggested", "divergent", "reconciled", "ignored"}, SetEntry(e, s, t, ms)
      PROVE  bankEntry' \in [BankEntries -> BankEntry]
  <2>1. bankEntry' = [bankEntry EXCEPT ![e] = [status |-> s, suggested |-> t]]
    BY <1>1 DEF SetEntry
  <2>2. [status |-> s, suggested |-> t] \in BankEntry
    BY <1>1 DEF BankEntry
  <2> QED BY <2>1, <2>2 DEF EntryShape
<1>2. ASSUME NEW k \in Calls, UNCHANGED task \/ task' = [task EXCEPT ![k] = NoTask],
             bankEntry' \in [BankEntries -> BankEntry]
      PROVE  EntryShape'
  BY <1>2 DEF EntryShape
<1>3. ASSUME NEW k \in Calls, NEW o \in {"reconcile", "reverse"}, NEW e \in BankEntries,
             NEW t \in Targets, UNCHANGED bankEntry,
             task' = [task EXCEPT ![k] = [op |-> o, entry |-> e, target |-> t]]
      PROVE  EntryShape'
  BY <1>3 DEF EntryShape
<1>4. CASE UNCHANGED matchVars
  BY <1>4 DEF matchVars, EntryShape
<1>5. CASE MatchNext
  <2>1. ASSUME NEW batch \in SUBSET BankEntries, CreateImport(batch) PROVE EntryShape'
    <3>1. /\ bankEntry' = [e \in BankEntries |->
                 IF e \in batch THEN [bankEntry[e] EXCEPT !.status = "pending"]
                                ELSE bankEntry[e]]
          /\ UNCHANGED task
      BY <2>1 DEF CreateImport
    <3>2. \A e \in BankEntries : [bankEntry[e] EXCEPT !.status = "pending"] \in BankEntry
      BY DEF EntryShape, BankEntry
    <3> QED BY <3>1, <3>2 DEF EntryShape
  <2>2. ASSUME NEW e \in BankEntries, Suggest(e) \/ Ignore(e) PROVE EntryShape'
    <3>1. Unambiguous(e) \subseteq Targets
      BY DEF Unambiguous, Candidates, Targets
    <3>2. PICK s \in {"suggested", "divergent", "ignored"}, t \in Targets \cup {NoTarget} :
             SetEntry(e, s, t, matches[e])
      BY <2>2, <3>1 DEF Suggest, Ignore
    <3>3. bankEntry' \in [BankEntries -> BankEntry]
      BY <1>1, <3>2
    <3> QED BY <2>2, <3>3 DEF Suggest, Ignore, EntryShape
  <2>3. ASSUME NEW k \in Calls, NEW e \in BankEntries, ReverseMatch(k, e) PROVE EntryShape'
    <3>1. PICK i \in Active(matches[e]) :
             task' = [task EXCEPT ![k] = [op |-> "reverse", entry |-> e,
                                          target |-> matches[e][i].target]]
      BY <2>3 DEF ReverseMatch
    <3>2. matches[e][i].target \in Targets
      BY <3>1, MatchRow DEF Active
    <3> QED BY <1>3, <2>3, <3>1, <3>2 DEF ReverseMatch
  <2>4. ASSUME NEW k \in Calls, NEW e \in BankEntries, NEW t \in Targets, NEW method,
               Reconcile(k, e, t, method)
        PROVE  EntryShape'
    BY <1>3, <2>4 DEF Reconcile
  <2>5. ASSUME NEW k \in Calls, FinishReconcile(k) \/ FinishReverseMatch(k) PROVE EntryShape'
    <3>1. task[k].entry \in BankEntries
      BY <2>5 DEF FinishReconcile, FinishReverseMatch, MatchInv, TaskHolds
    <3>2. bankEntry[task[k].entry].suggested \in Targets \cup {NoTarget}
      BY <3>1 DEF EntryShape, BankEntry
    <3>3. PICK s \in {"divergent", "reconciled"}, t \in Targets \cup {NoTarget} :
             SetEntry(task[k].entry, s, t, matches'[task[k].entry])
      BY <2>5, <3>1, <3>2 DEF FinishReconcile, FinishReverseMatch, MatchInv
    <3>4. bankEntry' \in [BankEntries -> BankEntry]
      BY <1>1, <3>1, <3>3
    <3> QED BY <1>2, <2>5, <3>4 DEF FinishReconcile, FinishReverseMatch
  <2>6. ASSUME NEW k \in Calls, RollBackTask(k) PROVE EntryShape'
    BY <1>2, <2>6 DEF RollBackTask, EntryShape
  <2> QED BY <1>5, <2>1, <2>2, <2>3, <2>4, <2>5, <2>6 DEF MatchNext
<1> QED BY <1>4, <1>5 DEF FinanceNext, BooksNext, financeVars

\* Every row, book and open call of the finance module is of its type
\* (Reconciliation!FinanceTypeOK).
THEOREM FinanceTyped == FinanceSpec => []FinanceTypeOK
<1> DEFINE Inv == /\ FinanceInv /\ PayLedgerInv /\ ReceiptLedgerInv
                  /\ PayShape /\ ReceiptShape /\ EntryShape
<1>1. FinanceInit => Inv
  <2> SUFFICES ASSUME FinanceInit PROVE Inv
    OBVIOUS
  <2>1. PayShape /\ ReceiptShape /\ EntryShape
    BY DEF FinanceInit, PaymentInit, ReceivableInit, MatchInit, PayShape, ReceiptShape,
       EntryShape, ContractState, BankEntry
  <2> QED BY <2>1, FinanceInitStep, PayLedgerInit, ReceiptLedgerInit
<1>2. Inv /\ [FinanceNext]_financeVars => Inv'
  <2> SUFFICES ASSUME Inv, [FinanceNext]_financeVars PROVE Inv'
    OBVIOUS
  <2>1. PayLedgerInv'
    BY EveryPayDraft, PayLedgerStep
  <2>2. ReceiptLedgerInv'
    BY EveryReceiptDraft, ReceiptLedgerStep
  <2>3. EntryShape'
    BY EntryShapeStep DEF FinanceInv
  <2> QED BY <2>1, <2>2, <2>3, FinanceNextStep, PayShapeStep, ReceiptShapeStep
<1>3. Inv => FinanceTypeOK
  BY DEF FinanceInv, MatchInv, PayLedgerInv, ReceiptLedgerInv, PayShape, ReceiptShape,
     EntryShape, FinanceTypeOK, PaymentTypeOK, ReceivableTypeOK, MatchTypeOK
<1> QED BY <1>1, <1>2, <1>3, PTL DEF FinanceSpec
=============================================================================
