------------------------------ MODULE LeasedWork ------------------------------
(***************************************************************************)
(* What the asynchronous tables promise for one piece of work, whatever    *)
(* table keeps it: it is granted to one holder at a time, every grant      *)
(* costs one unit of the budget, a lapsed grant may be passed on while     *)
(* budget remains, work is given up only once the budget is spent, and a   *)
(* result is final unless an administrator restarts a dead item.           *)
(***************************************************************************)
EXTENDS Naturals

CONSTANTS Items, Workers, NoWorker, Budget

VARIABLE item

New == [phase |-> "none", used |-> 0, holder |-> NoWorker, valid |-> FALSE]

Waiting(n) == [phase |-> "waiting", used |-> n, holder |-> NoWorker,
               valid |-> FALSE]

Closed(phase, n) == [phase |-> phase, used |-> n, holder |-> NoWorker,
                     valid |-> FALSE]

Submit(i) == item[i] = New /\ item'[i] = Waiting(0)

Grant(i) ==
  /\ item[i].phase \in {"waiting", "leased"} /\ ~ item[i].valid
  /\ item[i].used < Budget[i]
  /\ \E w \in Workers :
       item'[i] = [phase |-> "leased", used |-> item[i].used + 1,
                   holder |-> w, valid |-> TRUE]

Lapse(i) ==
  /\ item[i].phase = "leased" /\ item[i].valid
  /\ item'[i] = [item[i] EXCEPT !.valid = FALSE]

Succeed(i) ==
  /\ item[i].phase = "leased"
  /\ item'[i] = Closed("done", item[i].used)

Retry(i) ==
  /\ item[i].phase = "leased" /\ item[i].used < Budget[i]
  /\ item'[i] = Waiting(item[i].used)

GiveUp(i) ==
  /\ item[i].phase = "leased" /\ item[i].used = Budget[i]
  /\ item'[i] = Closed("dead", item[i].used)

Restart(i) == item[i].phase = "dead" /\ item'[i] = Waiting(0)

Step(i) ==
  Submit(i) \/ Grant(i) \/ Lapse(i) \/ Succeed(i) \/ Retry(i) \/ GiveUp(i)
    \/ Restart(i)

Init == item = [i \in Items |-> New]

\* One statement may move several items, each by a step of its own.
Next ==
  /\ DOMAIN item' = Items
  /\ \A i \in Items : item'[i] = item[i] \/ Step(i)

Spec == Init /\ [][Next]_item
=============================================================================
