----------------------------- MODULE MoneyLedger -----------------------------
(***************************************************************************)
(* What an account of the finance module promises, with no book, lock or   *)
(* trigger: it is opened with a limit, money is added to it and the same   *)
(* money is taken back whole, never beyond the limit; its status is the    *)
(* one its money has; and it is closed, for good, only when it is empty.   *)
(* CarrierPayments and CustomerReceivables implement it.                   *)
(***************************************************************************)
EXTENDS Integers

CONSTANTS Accounts, Places, Limits

VARIABLES held,   \* [Accounts -> [1..Places -> Nat]]: the money it holds
          limit,  \* [Accounts -> Nat]: fixed when it is opened
          state   \* [Accounts -> LedgerState]

ledgerVars == <<held, limit, state>>

LedgerState == {"absent", "open", "partial", "paid", "cancelled"}

Nothing == [i \in 1..Places |-> 0]

Total(money) ==
    LET upTo[n \in 0..Places] == IF n = 0 THEN 0 ELSE upTo[n - 1] + money[n]
    IN  upTo[Places]

StateFor(money, bound) ==
    CASE Total(money) = 0     -> "open"
      [] Total(money) = bound -> "paid"
      [] OTHER                -> "partial"

LedgerInit == /\ held = [a \in Accounts |-> Nothing]
              /\ limit = [a \in Accounts |-> 0]
              /\ state = [a \in Accounts |-> "absent"]

OpenAccount(a) == /\ state[a] = "absent"
                  /\ state' = [state EXCEPT ![a] = "open"]
                  /\ \E bound \in Limits : limit' = [limit EXCEPT ![a] = bound]
                  /\ UNCHANGED held

SetMoney(a, money) ==
    /\ state[a] \notin {"absent", "cancelled"}
    /\ held' = [held EXCEPT ![a] = money]
    /\ state' = [state EXCEPT ![a] = StateFor(money, limit[a])]
    /\ UNCHANGED limit

AddMoney(a, place, amount) ==
    /\ held[a][place] = 0
    /\ Total(held[a]) + amount <= limit[a]
    /\ SetMoney(a, [held[a] EXCEPT ![place] = amount])

TakeBack(a, place) ==
    /\ held[a][place] # 0
    /\ SetMoney(a, [held[a] EXCEPT ![place] = 0])

CloseAccount(a) == /\ state[a] \notin {"absent", "cancelled"}
                   /\ held[a] = Nothing
                   /\ state' = [state EXCEPT ![a] = "cancelled"]
                   /\ UNCHANGED <<held, limit>>

LedgerNext ==
    \E a \in Accounts :
        \/ OpenAccount(a)
        \/ \E place \in 1..Places : \/ TakeBack(a, place)
                                   \/ \E amount \in 1..limit[a] : AddMoney(a, place, amount)
        \/ CloseAccount(a)

LedgerSpec == LedgerInit /\ [][LedgerNext]_ledgerVars
=============================================================================
