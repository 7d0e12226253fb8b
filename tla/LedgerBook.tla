----------------------------- MODULE LedgerBook -----------------------------
(***************************************************************************)
(* The append-only books of the finance module: what the sums of the       *)
(* carrier-payment and customer-receivable triggers compute.  A book is a  *)
(* sequence of postings; an advance, a payment and a receipt are all an    *)
(* "entry", and a "reversal" names the entry it takes back in full.        *)
(* Reversals dated before their entry are refused by the code; dates are   *)
(* not modelled.                                                           *)
(***************************************************************************)
EXTENDS Integers, Sequences, SequencesExt, FiniteSetsExt

Posting == [kind : {"entry", "reversal"}, amount : Nat, of : Nat]

EntryOf(amount) == [kind |-> "entry", amount |-> amount, of |-> 0]

ReversalOf(book, i) ==
    [kind |-> "reversal", amount |-> book[i].amount, of |-> i]

SumOf(numbers) ==
    LET upTo[n \in 0..Len(numbers)] == IF n = 0 THEN 0 ELSE upTo[n - 1] + numbers[n]
    IN  upTo[Len(numbers)]

(* sum(CASE WHEN kind IN ('advance','payment') THEN amount ELSE -amount)   *)
Signed(p) == IF p.kind = "entry" THEN p.amount ELSE -p.amount

Net(book) == SumOf([i \in DOMAIN book |-> Signed(book[i])])

IsReversed(book, i) ==
    \E j \in DOMAIN book : book[j].kind = "reversal" /\ book[j].of = i

Reversible(book) ==
    {i \in DOMAIN book : book[i].kind = "entry" /\ ~IsReversed(book, i)}

(* The status the guards compute from the sum of the book.                 *)
Settlement(net, limit) ==
    CASE net <= 0     -> "open"
      [] net >= limit -> "paid"
      [] OTHER        -> "partial"

(* What a book still holds, of the places it has: its entries that were    *)
(* not taken back.                                                         *)
Outstanding(book, places) ==
    [i \in 1..places |-> IF i \in Reversible(book) THEN book[i].amount ELSE 0]
=============================================================================
