---------------------------- MODULE MCTripLifecycle ----------------------------
(* Two instances of TripLifecycle for TLC: one trip with its checklist, its  *)
(* crew and their availability, or two trips that share the contracts.       *)
EXTENDS TripLifecycle, TLC

CONSTANT Contracted   \* the one capacity under contract; others join a crew

VARIABLE detailed     \* which instance it is

MCInit ==
  /\ TripInit
  /\ \A p \in Proposals : proposals[p].capacity = Contracted
  /\ detailed \in BOOLEAN

Created == {t \in Trips : trips[t].status # "absent"}

\* Bounds: a second trip only where nothing else is, and its stops are copied
\* and left without an arrival.
InBounds ==
  IF detailed THEN Cardinality(Created) <= 1 /\ busy \subseteq {Contracted}
  ELSE /\ busy = {}
       /\ \A t \in Trips : trips[t].checklist = "absent" /\ trips[t].others = {}
       /\ \A t \in Created, s \in Stops : trips[t].stops[s] \in {"planned", "departed"}
       /\ \A k \in TripCalls : tripCalls[k].op \notin {"createChecklist", "setChecklistStatus"}

MCNext == UNCHANGED detailed /\ LifecycleNext /\ InBounds'

MCSpec == MCInit /\ [][MCNext]_<<lifecycleVars, detailed>>

Alike == UNION {Permutations(S) :
           S \in {Requests, Proposals, Reservations, Trips, Stops, Calls, TripCalls}}
=============================================================================
