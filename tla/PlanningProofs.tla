------------------------------- MODULE PlanningProofs -------------------------------
(***************************************************************************)
(* Proofs about what is planned with, for any number of rows and of calls  *)
(* in flight: the demand of a request, the master data and the table of    *)
(* rate windows.  Calls read without a lock and commit later, so what they *)
(* read may be stale; the proofs say what saves the rows: the number a     *)
(* version takes, the row a sequence holds, the read after the write.  The *)
(* table of windows is one step per request; that fixed windows let no     *)
(* more than twice the limit through in a stretch is about time.           *)
(***************************************************************************)
EXTENDS MCPlanning, SequenceTheorems, FiniteSetTheorems, TLAPS

-----------------------------------------------------------------------------
(* The demand of a request.                                                *)

\* What a pending call on the terms may still rely on: terms are never taken
\* away, and as long as their version is the one that was read they are not
\* submitted.
TermsCallHolds(call) ==
  /\ call.op = "terms" =>
       /\ call.seen <= terms.version
       /\ call.seen = terms.version => terms.status \in {"none", "draft", "rejected"}
  /\ call.op = "status" => terms # NoTerms
  /\ call.op = "lane" => lane[call.code] # NoLane

FreightInv ==
  /\ FreightTypeOK
  /\ IsFiniteSet(history)
  /\ \A k \in PlanCalls : TermsCallHolds(planCall[k])
  /\ PlanHoldsTogether
  /\ HistoryTellsTerms

\* The fields of a pending call, by its operation.
LEMMA PlanPendingFields ==
  ASSUME NEW call \in PlanPending
  PROVE  /\ call.op \in {"none", "request", "profile", "route", "terms", "status", "lane"}
         /\ call.op = "request" => call.to \in Demand
         /\ call.op = "profile" => call.to \in Profiles
         /\ call.op = "route" =>
              call \in [op: {"route"}, to: Itineraries, late: BOOLEAN]
         /\ call.op = "terms" => call.to \in Prices /\ call.seen \in Nat
         /\ call.op = "status" => call.to \in TermsStatus \ {"draft"}
         /\ call.op = "lane" => /\ call.code \in Lanes /\ call.to \in Cities
                                /\ call.column \in {"origin", "destination"}
BY DEF PlanPending, NoPlanCall

\* The tables of the normalised rows.
LEMMA TablesAre == Tables = {"items", "packages", "requirements", "references"}
BY DEF Tables, RowsOf

\* A numbered itinerary is rows of the table.
LEMMA NumberedStops ==
  ASSUME NEW s \in Itineraries
  PROVE  Numbered(s) \subseteq Stop
<1>1. PICK n \in 2..MaxStops : s \in [1..n -> [type: StopType, point: Points]]
  BY DEF Itineraries
<1>2. \A i \in 1..n : i \in 1..MaxStops
  BY <1>1, FreightAssumption
<1> QED BY <1>1, <1>2 DEF Numbered, Stop

\* The parts of the invariant that a step which leaves their rows alone keeps.
LEMMA StopsFrame ==
  ASSUME FreightInv, UNCHANGED stops
  PROVE  stops' \subseteq Stop /\ (stops' = {} \/ \E s \in Itineraries : stops' = Numbered(s))
BY DEF FreightInv, FreightTypeOK, PlanHoldsTogether

LEMMA TermsFrame ==
  ASSUME FreightInv, UNCHANGED <<terms, history>>
  PROVE  /\ terms' \in Terms \cup {NoTerms} /\ history' \subseteq Entry
         /\ IsFiniteSet(history') /\ HistoryTellsTerms'
BY DEF FreightInv, FreightTypeOK, HistoryTellsTerms

LEMMA ChildrenFrame ==
  ASSUME FreightInv, UNCHANGED children
  PROVE  /\ DOMAIN children' = Tables
         /\ \A t \in Tables : children'[t] \in [ChildIds -> RowsOf[t] \cup {NoChild}]
         /\ \A p \in Present("packages")' : HoldsItem(children["packages"][p])'
BY DEF FreightInv, FreightTypeOK, PlanHoldsTogether, Present, HoldsItem

LEMMA LanesFrame ==
  ASSUME FreightInv, UNCHANGED lane
  PROVE  /\ lane' \in [Lanes -> Lane \cup {NoLane}]
         /\ \A l \in Lanes : lane'[l] # NoLane => lane'[l].origin # lane'[l].destination
BY DEF FreightInv, FreightTypeOK, PlanHoldsTogether

LEMMA CallsFrame ==
  ASSUME FreightInv, UNCHANGED <<terms, lane, planCall>>
  PROVE  /\ planCall' \in [PlanCalls -> PlanPending]
         /\ \A k \in PlanCalls : TermsCallHolds(planCall[k])'
BY DEF FreightInv, FreightTypeOK, TermsCallHolds

\* A call that commits, or is refused, is over.
LEMMA PlannedCalls ==
  ASSUME FreightInv, NEW k \in PlanCalls, Planned(k)
  PROVE  /\ planCall' \in [PlanCalls -> PlanPending]
         /\ \A j \in PlanCalls : planCall'[j] = IF j = k THEN NoPlanCall ELSE planCall[j]
         /\ UNCHANGED <<terms, lane>> => \A j \in PlanCalls : TermsCallHolds(planCall[j])'
BY DEF FreightInv, FreightTypeOK, TermsCallHolds, Planned, PlanPending, NoPlanCall

\* A call that reads and checks leaves the rows alone; what it may rely on holds.
LEMMA PlansStep ==
  ASSUME FreightInv, NEW k \in PlanCalls, NEW pending \in PlanPending, NEW ready,
         Plans(k, ready, pending), TermsCallHolds(pending)
  PROVE  FreightInv' /\ UNCHANGED terms
<1>1. UNCHANGED <<request, profile, stops, terms, history, children, lane>>
  BY DEF Plans
<1>2. /\ planCall' \in [PlanCalls -> PlanPending]
      /\ \A j \in PlanCalls : planCall'[j] = IF j = k THEN pending ELSE planCall[j]
  BY DEF Plans, FreightInv, FreightTypeOK
<1>3. \A j \in PlanCalls : TermsCallHolds(planCall[j])'
  BY <1>1, <1>2 DEF FreightInv, TermsCallHolds
<1>4. UNCHANGED <<terms, history>>
  BY <1>1
<1> QED BY <1>1, <1>2, <1>3, <1>4, StopsFrame, TermsFrame, ChildrenFrame, LanesFrame
        DEF FreightInv, FreightTypeOK, PlanHoldsTogether

\* Every call that reads and checks.
LEMMA ChecksPlan ==
  ASSUME FreightInv, NEW k \in PlanCalls,
         \/ CheckReplan(k) \/ CheckProfile(k) \/ CheckRoute(k)
         \/ CheckTerms(k) \/ CheckTermsStatus(k)
         \/ \E l \in Lanes : CheckLane(k, l)
  PROVE  FreightInv' /\ UNCHANGED terms
<1>0. terms \in Terms \cup {NoTerms} /\ terms.version \in Nat
  BY DEF FreightInv, FreightTypeOK, Terms, NoTerms
<1>1. CASE CheckReplan(k)
  <2>1. PICK to \in Demand, ready \in BOOLEAN : Plans(k, ready, [op |-> "request", to |-> to])
    BY <1>1 DEF CheckReplan, Plans
  <2>2. [op |-> "request", to |-> to] \in PlanPending
    BY DEF PlanPending
  <2> QED BY <2>1, <2>2, PlansStep DEF TermsCallHolds
<1>2. CASE CheckProfile(k)
  <2>1. PICK to \in Profiles, ready \in BOOLEAN : Plans(k, ready, [op |-> "profile", to |-> to])
    BY <1>2 DEF CheckProfile, Plans
  <2>2. [op |-> "profile", to |-> to] \in PlanPending
    BY DEF PlanPending
  <2> QED BY <2>1, <2>2, PlansStep DEF TermsCallHolds
<1>3. CASE CheckRoute(k)
  <2>1. PICK to \in Itineraries, ready \in BOOLEAN :
          Plans(k, ready, [op |-> "route", to |-> to, late |-> FALSE])
    BY <1>3 DEF CheckRoute, Plans
  <2>2. [op |-> "route", to |-> to, late |-> FALSE] \in PlanPending
    BY DEF PlanPending
  <2> QED BY <2>1, <2>2, PlansStep DEF TermsCallHolds
<1>4. CASE CheckTerms(k)
  <2>1. PICK to \in Prices, ready \in BOOLEAN :
          /\ Plans(k, ready, [op |-> "terms", to |-> to, seen |-> terms.version])
          /\ terms.status \in {"none", "draft", "rejected"}
    BY <1>4 DEF CheckTerms, Plans
  <2> DEFINE pending == [op |-> "terms", to |-> to, seen |-> terms.version]
  <2>2. pending \in PlanPending
    BY <1>0 DEF PlanPending
  <2>3. TermsCallHolds(pending)
    BY <1>0, <2>1 DEF TermsCallHolds
  <2>4. Plans(k, ready, pending)
    BY <2>1
  <2> HIDE DEF pending
  <2> QED BY <2>2, <2>3, <2>4, PlansStep
<1>5. CASE CheckTermsStatus(k)
  <2>1. PICK to \in TermsStatus \ {"draft"}, ready \in BOOLEAN :
          Plans(k, ready, [op |-> "status", to |-> to]) /\ terms # NoTerms
    BY <1>5 DEF CheckTermsStatus, Plans
  <2>2. [op |-> "status", to |-> to] \in PlanPending
    BY DEF PlanPending
  <2> QED BY <2>1, <2>2, PlansStep DEF TermsCallHolds
<1>6. ASSUME NEW l \in Lanes, CheckLane(k, l)
      PROVE  FreightInv' /\ UNCHANGED terms
  <2>1. PICK column \in {"origin", "destination"}, to \in Cities, ready \in BOOLEAN :
          /\ Plans(k, ready, [op |-> "lane", code |-> l, column |-> column, to |-> to])
          /\ lane[l] # NoLane
    BY <1>6 DEF CheckLane, Plans
  <2>2. [op |-> "lane", code |-> l, column |-> column, to |-> to] \in PlanPending
    BY DEF PlanPending
  <2> QED BY <2>1, <2>2, PlansStep DEF TermsCallHolds
<1> QED BY <1>1, <1>2, <1>3, <1>4, <1>5, <1>6

\* The request and the profile are written back whole; a refused call changes
\* nothing.
LEMMA RequestStep ==
  ASSUME FreightInv,
         \/ Negotiates
         \/ \E k \in PlanCalls :
               \/ Replan(k) \/ WriteProfile(k)
               \/ RouteConflicts(k) \/ TermsConflict(k) \/ LaneRefused(k)
  PROVE  FreightInv' /\ UNCHANGED terms
<1>1. UNCHANGED <<stops, terms, history, children, lane>>
  BY DEF Negotiates, Replan, WriteProfile, RouteConflicts, TermsConflict, LaneRefused
<1>2. request' \in Demand
  <2>1. CASE Negotiates
    BY <2>1 DEF Negotiates, FreightInv, FreightTypeOK, Demand
  <2>2. ASSUME NEW k \in PlanCalls, Replan(k)
        PROVE  request' \in Demand
    BY <2>2, PlanPendingFields DEF Replan, FreightInv, FreightTypeOK
  <2> QED BY <2>1, <2>2 DEF WriteProfile, RouteConflicts, TermsConflict, LaneRefused, FreightInv,
             FreightTypeOK
<1>3. profile' \in Profiles \cup {Nothing}
  <2>1. ASSUME NEW k \in PlanCalls, WriteProfile(k)
        PROVE  profile' \in Profiles \cup {Nothing}
    BY <2>1, PlanPendingFields DEF WriteProfile, FreightInv, FreightTypeOK
  <2> QED BY <2>1 DEF Negotiates, Replan, RouteConflicts, TermsConflict, LaneRefused, FreightInv,
             FreightTypeOK
<1>4. /\ planCall' \in [PlanCalls -> PlanPending]
      /\ \A j \in PlanCalls : TermsCallHolds(planCall[j])'
  <2>1. UNCHANGED <<terms, lane>>
    BY <1>1
  <2>2. CASE Negotiates
    BY <2>1, <2>2, CallsFrame DEF Negotiates
  <2>3. ASSUME NEW k \in PlanCalls, Planned(k)
        PROVE  /\ planCall' \in [PlanCalls -> PlanPending]
               /\ \A j \in PlanCalls : TermsCallHolds(planCall[j])'
    BY <2>1, <2>3, PlannedCalls
  <2> QED BY <2>2, <2>3 DEF Replan, WriteProfile, RouteConflicts, TermsConflict, LaneRefused
<1>5. UNCHANGED <<terms, history>>
  BY <1>1
<1> QED BY <1>1, <1>2, <1>3, <1>4, <1>5, StopsFrame, TermsFrame, ChildrenFrame, LanesFrame
        DEF FreightInv, FreightTypeOK, PlanHoldsTogether

\* A route that is not late replaces all there was; the calls it overtakes become
\* late.
LEMMA ReplaceRouteStep ==
  ASSUME FreightInv, NEW k \in PlanCalls, ReplaceRoute(k)
  PROVE  FreightInv' /\ UNCHANGED terms
<1>1. UNCHANGED <<request, profile, terms, history, children, lane>>
  BY DEF ReplaceRoute
<1>2. planCall[k].to \in Itineraries /\ stops' = Numbered(planCall[k].to)
  BY PlanPendingFields DEF ReplaceRoute, TakenNumbers, FreightInv, FreightTypeOK
<1>3. stops' \subseteq Stop
  BY <1>2, NumberedStops
<1>4. PICK begun \in SUBSET {j \in PlanCalls \ {k} : planCall[j].op = "route"} :
        planCall' = [j \in PlanCalls |->
          IF j = k THEN NoPlanCall
          ELSE IF j \in begun THEN [planCall[j] EXCEPT !.late = TRUE]
          ELSE planCall[j]]
  BY DEF ReplaceRoute
<1>5. ASSUME NEW j \in PlanCalls
      PROVE  planCall'[j] \in PlanPending /\ TermsCallHolds(planCall[j])'
  <2>0. planCall[j] \in PlanPending /\ TermsCallHolds(planCall[j])
    BY DEF FreightInv, FreightTypeOK
  <2>1. CASE j = k
    <3>1. planCall'[j] = NoPlanCall
      BY <1>4, <2>1
    <3> QED BY <3>1 DEF PlanPending, NoPlanCall, TermsCallHolds
  <2>2. CASE j # k /\ j \in begun
    <3>1. planCall'[j] = [planCall[j] EXCEPT !.late = TRUE] /\ planCall[j].op = "route"
      BY <1>4, <2>2
    <3>2. planCall[j] \in [op: {"route"}, to: Itineraries, late: BOOLEAN]
      BY <2>0, <3>1, PlanPendingFields
    <3>3. planCall'[j] \in [op: {"route"}, to: Itineraries, late: BOOLEAN]
      BY <3>1, <3>2
    <3> QED BY <3>3 DEF PlanPending, TermsCallHolds
  <2>3. CASE j # k /\ j \notin begun
    <3>1. planCall'[j] = planCall[j]
      BY <1>4, <2>3
    <3> QED BY <1>1, <2>0, <3>1 DEF TermsCallHolds
  <2> QED BY <2>1, <2>2, <2>3
<1>6. planCall' \in [PlanCalls -> PlanPending]
  BY <1>4, <1>5
<1>7. UNCHANGED <<terms, history>>
  BY <1>1
<1> QED BY <1>1, <1>2, <1>3, <1>5, <1>6, <1>7, TermsFrame, ChildrenFrame, LanesFrame
        DEF FreightInv, FreightTypeOK, PlanHoldsTogether

\* A new entry of the history, whose version is the next, is what the terms are.
LEMMA RecordedVersion ==
  ASSUME FreightInv, NEW row \in Terms, row.version = terms.version + 1,
         NEW event \in {"created", "updated", "submitted", "approved", "rejected"},
         Records(row, event)
  PROVE  /\ terms' \in Terms /\ history' \subseteq Entry
         /\ IsFiniteSet(history') /\ HistoryTellsTerms'
<1> DEFINE record == [version |-> row.version, event |-> event,
                     status |-> row.status, value |-> row.value]
<1>1. /\ terms.version \in Nat /\ IsFiniteSet(history)
      /\ {e.version : e \in history} = 1..terms.version
      /\ Cardinality(history) = terms.version /\ history \subseteq Entry
  BY DEF FreightInv, FreightTypeOK, HistoryTellsTerms, Terms, NoTerms
<1>2. terms' = row /\ history' = history \cup {record}
  BY DEF Records
<1>3. record \in Entry /\ record.version = terms.version + 1
  BY DEF Terms, Entry
<1>4. \A e \in history : e.version \in 1..terms.version
  BY <1>1
<1>5. record \notin history
  BY <1>1, <1>3, <1>4
<1>6. IsFiniteSet(history') /\ Cardinality(history') = terms.version + 1
  BY <1>1, <1>2, <1>5, FS_AddElement
<1>7. {e.version : e \in history'} = 1..(terms.version + 1)
  <2>1. {e.version : e \in history'} = {e.version : e \in history} \cup {record.version}
    BY <1>2
  <2>2. 1..(terms.version + 1) = 1..terms.version \cup {terms.version + 1}
    BY <1>1
  <2> HIDE DEF record
  <2> QED BY <1>1, <1>3, <2>1, <2>2
<1>8. \A e \in history' : e.version = row.version => e = record
  BY <1>1, <1>2, <1>4
<1>9. record.status = row.status /\ record.value = row.value
  OBVIOUS
<1> HIDE DEF record
<1> QED BY <1>1, <1>2, <1>3, <1>6, <1>7, <1>8, <1>9 DEF HistoryTellsTerms

\* When the version grows and terms are there, what is pending is still right: a
\* call that read an older version is only allowed to fail.
LEMMA OvertakenCalls ==
  ASSUME FreightInv, NEW k \in PlanCalls, Planned(k), UNCHANGED lane,
         terms' \in Terms, terms'.version = terms.version + 1
  PROVE  \A j \in PlanCalls : TermsCallHolds(planCall[j])'
<1> SUFFICES ASSUME NEW j \in PlanCalls PROVE TermsCallHolds(planCall[j])'
  OBVIOUS
<1>1. planCall'[j] = IF j = k THEN NoPlanCall ELSE planCall[j]
  BY PlannedCalls
<1>2. CASE j = k
  BY <1>1, <1>2 DEF TermsCallHolds, NoPlanCall
<1>3. CASE j # k
  <2>1. planCall'[j] = planCall[j] /\ planCall[j] \in PlanPending /\ TermsCallHolds(planCall[j])
    BY <1>1, <1>3 DEF FreightInv, FreightTypeOK
  <2>2. planCall[j].op = "terms" => planCall[j].seen \in Nat
    BY <2>1, PlanPendingFields
  <2>3. terms.version \in Nat
    BY DEF FreightInv, FreightTypeOK, Terms, NoTerms
  <2>4. terms' # NoTerms
    BY DEF Terms, NoTerms
  <2> QED BY <2>1, <2>2, <2>3, <2>4 DEF TermsCallHolds
<1> QED BY <1>2, <1>3

\* An edit commits only on the version it read; that one was not submitted.
LEMMA WriteTermsStep ==
  ASSUME FreightInv, NEW k \in PlanCalls, WriteTerms(k)
  PROVE  /\ FreightInv'
         /\ terms # NoTerms => terms.status \in {"draft", "rejected"}
<1> DEFINE seen == planCall[k].seen
           row == [version |-> seen + 1, status |-> "draft", value |-> planCall[k].to]
<1>0. planCall[k].op = "terms" /\ planCall[k] \in PlanPending /\ TermsCallHolds(planCall[k])
  BY DEF WriteTerms, FreightInv, FreightTypeOK
<1>1. seen \in Nat /\ planCall[k].to \in Prices
  BY <1>0, PlanPendingFields
<1>2. terms.version \in Nat
  BY DEF FreightInv, FreightTypeOK, Terms, NoTerms
<1>3. seen = terms.version
  <2>1. seen <= terms.version
    BY <1>0 DEF TermsCallHolds
  <2>2. seen + 1 \notin 1..terms.version
    BY DEF WriteTerms, EditCommits, VersionTaken, FreightInv, HistoryTellsTerms
  <2> QED BY <1>1, <1>2, <2>1, <2>2
<1>4. terms.status \in {"none", "draft", "rejected"}
  BY <1>0, <1>3 DEF TermsCallHolds
<1>5. terms # NoTerms => terms.status \in {"draft", "rejected"}
  BY <1>4 DEF FreightInv, FreightTypeOK, Terms, TermsStatus
<1>6. row \in Terms /\ row.version = terms.version + 1
  BY <1>1, <1>3 DEF Terms, TermsStatus
<1>7. UNCHANGED <<request, profile, stops, children, lane>> /\ Planned(k)
  BY DEF WriteTerms
<1>8. \E event \in {"created", "updated"} : Records(row, event)
  BY DEF WriteTerms
<1>9. terms' = row
  BY <1>8 DEF Records
<1> HIDE DEF row
<1>a. /\ terms' \in Terms /\ history' \subseteq Entry
      /\ IsFiniteSet(history') /\ HistoryTellsTerms'
  BY <1>6, <1>8, RecordedVersion
<1>b. \A j \in PlanCalls : TermsCallHolds(planCall[j])'
  BY <1>6, <1>7, <1>9, <1>a, OvertakenCalls
<1> QED BY <1>5, <1>7, <1>a, <1>b, PlannedCalls, StopsFrame, ChildrenFrame, LanesFrame
        DEF FreightInv, FreightTypeOK, PlanHoldsTogether

\* A submission or a decision takes the next version and leaves the value.
LEMMA WriteTermsStatusStep ==
  ASSUME FreightInv, NEW k \in PlanCalls, WriteTermsStatus(k)
  PROVE  FreightInv' /\ terms'.value = terms.value
<1> DEFINE to == planCall[k].to
           row == [terms EXCEPT !.status = to, !.version = @ + 1]
<1>0. planCall[k].op = "status" /\ planCall[k] \in PlanPending /\ TermsCallHolds(planCall[k])
  BY DEF WriteTermsStatus, FreightInv, FreightTypeOK
<1>1. to \in TermsStatus \ {"draft"}
  BY <1>0, PlanPendingFields
<1>2. terms \in Terms
  BY <1>0 DEF TermsCallHolds, FreightInv, FreightTypeOK
<1>3. row \in Terms /\ row.version = terms.version + 1 /\ row.value = terms.value
  <2>1. terms.version + 1 \in Nat \ {0} /\ terms.value \in Prices
    BY <1>2 DEF Terms
  <2>2. row = [[terms EXCEPT !.status = to] EXCEPT !.version = terms.version + 1]
    BY <1>2 DEF Terms
  <2>3. [terms EXCEPT !.status = to] \in Terms
    BY <1>1, <1>2 DEF Terms
  <2> QED BY <1>2, <2>1, <2>2, <2>3 DEF Terms
<1>4. UNCHANGED <<request, profile, stops, children, lane>> /\ Planned(k)
  BY DEF WriteTermsStatus
<1>5. \E event \in {"submitted", "approved", "rejected"} : Records(row, event)
  BY <1>1 DEF WriteTermsStatus, TermsStatus
<1>6. terms' = row
  BY <1>5 DEF Records
<1> HIDE DEF row
<1>7. /\ terms' \in Terms /\ history' \subseteq Entry
      /\ IsFiniteSet(history') /\ HistoryTellsTerms'
  BY <1>3, <1>5, RecordedVersion
<1>8. \A j \in PlanCalls : TermsCallHolds(planCall[j])'
  BY <1>3, <1>4, <1>6, <1>7, OvertakenCalls
<1> QED BY <1>3, <1>4, <1>6, <1>7, <1>8, PlannedCalls, StopsFrame, ChildrenFrame, LanesFrame
        DEF FreightInv, FreightTypeOK, PlanHoldsTogether

\* The rows of a table after one of them is set.
LEMMA SetChildRows ==
  ASSUME FreightInv, NEW t \in Tables, NEW c \in ChildIds,
         NEW row \in RowsOf[t] \cup {NoChild}, SetChild(t, c, row)
  PROVE  /\ DOMAIN children' = Tables
         /\ \A u \in Tables : children'[u] \in [ChildIds -> RowsOf[u] \cup {NoChild}]
         /\ \A u \in Tables, d \in ChildIds :
               children'[u][d] = IF u = t /\ d = c THEN row ELSE children[u][d]
<1>1. children' = [children EXCEPT ![t] = [children[t] EXCEPT ![c] = row]]
  BY DEF SetChild
<1>2. \A u \in Tables : children[u] \in [ChildIds -> RowsOf[u] \cup {NoChild}]
  BY DEF FreightInv, FreightTypeOK
<1>3. DOMAIN children = Tables
  BY DEF FreightInv, FreightTypeOK
<1>4. \A u \in Tables : children'[u] = IF u = t THEN [children[t] EXCEPT ![c] = row] ELSE children[u]
  BY <1>1, <1>3
<1>5. [children[t] EXCEPT ![c] = row] \in [ChildIds -> RowsOf[t] \cup {NoChild}]
  BY <1>2
<1> QED BY <1>1, <1>2, <1>3, <1>4, <1>5

\* A package is set only to an item that is there, and an item goes only when no
\* package holds it.
LEMMA SetChildStep ==
  ASSUME FreightInv, NEW t \in Tables, NEW c \in ChildIds,
         NEW row \in RowsOf[t] \cup {NoChild}, SetChild(t, c, row),
         t = "packages" /\ row # NoChild => HoldsItem(row),
         t = "items" /\ row = NoChild => Deletable("items", c)
  PROVE  FreightInv' /\ UNCHANGED terms
<1>1. UNCHANGED <<request, profile, stops, terms, history, lane, planCall>>
  BY DEF SetChild
<1>2. /\ DOMAIN children' = Tables
      /\ \A u \in Tables : children'[u] \in [ChildIds -> RowsOf[u] \cup {NoChild}]
      /\ \A u \in Tables, d \in ChildIds :
            children'[u][d] = IF u = t /\ d = c THEN row ELSE children[u][d]
  BY SetChildRows
<1>3. ASSUME NEW p \in Present("packages")'
      PROVE  HoldsItem(children["packages"][p])'
  <2>0. "packages" \in Tables /\ "items" \in Tables /\ p \in ChildIds
    BY TablesAre DEF Present
  <2>1. CASE t = "packages" /\ p = c
    <3>1. children'["packages"][p] = row /\ row # NoChild
      BY <1>2, <2>0, <2>1 DEF Present
    <3>2. Present("items")' = Present("items")
      BY <1>2, <2>0, <2>1 DEF Present
    <3> QED BY <2>1, <3>1, <3>2 DEF HoldsItem
  <2>2. CASE t = "packages" /\ p # c
    <3>1. children'["packages"][p] = children["packages"][p] /\ p \in Present("packages")
      BY <1>2, <2>0, <2>2 DEF Present
    <3>2. Present("items")' = Present("items")
      BY <1>2, <2>0, <2>2 DEF Present
    <3> QED BY <3>1, <3>2 DEF HoldsItem, FreightInv, PlanHoldsTogether
  <2>3. CASE t # "packages"
    <3>1. children'["packages"][p] = children["packages"][p] /\ p \in Present("packages")
      BY <1>2, <2>0, <2>3 DEF Present
    <3>2. children["packages"][p].item \in Present("items") \cup {Nothing}
      BY <3>1 DEF HoldsItem, FreightInv, PlanHoldsTogether
    <3>3. Present("items") \ {c} \subseteq Present("items")'
      BY <1>2, <2>0 DEF Present
    <3>4. c \in Present("items") /\ c \notin Present("items")' => Deletable("items", c)
      BY <1>2, <2>0 DEF Present
    <3>5. children["packages"][p].item \in Present("items")' \cup {Nothing}
      BY <3>1, <3>2, <3>3, <3>4 DEF Deletable
    <3> QED BY <3>1, <3>5 DEF HoldsItem
  <2> QED BY <2>1, <2>2, <2>3
<1>4. UNCHANGED <<terms, history>> /\ UNCHANGED <<terms, lane, planCall>>
  BY <1>1
<1> QED BY <1>1, <1>2, <1>3, <1>4, StopsFrame, TermsFrame, LanesFrame, CallsFrame
        DEF FreightInv, FreightTypeOK, PlanHoldsTogether

\* A row of a table is a row, not its absence: its key is not NULL.
LEMMA RowsAreThere ==
  ASSUME NEW t \in Tables, NEW row \in RowsOf[t]
  PROVE  row # NoChild
BY TablesAre, FreightAssumption
   DEF RowsOf, Items, Packages, Requirements, References, NoChild

\* Every change of the normalised rows.
LEMMA ChildStep ==
  ASSUME FreightInv, NEW t \in Tables, NEW c \in ChildIds,
         CreateChild(t, c) \/ UpdateChild(t, c) \/ DeleteChild(t, c)
  PROVE  FreightInv' /\ UNCHANGED terms
<1>1. ASSUME NEW row \in RowsOf[t], HoldsItem(row), SetChild(t, c, row)
      PROVE  FreightInv' /\ UNCHANGED terms
  BY <1>1, RowsAreThere, SetChildStep
<1>2. CASE DeleteChild(t, c)
  <2>1. SetChild(t, c, NoChild) /\ Deletable(t, c)
    BY <1>2 DEF DeleteChild
  <2> QED BY <2>1, SetChildStep
<1> QED BY <1>1, <1>2 DEF CreateChild, UpdateChild

\* A lane joins two cities when it is made and after every patch.
LEMMA LaneStep ==
  ASSUME FreightInv,
         (\E l \in Lanes : CreateLane(l)) \/ (\E k \in PlanCalls : WriteLane(k))
  PROVE  FreightInv' /\ UNCHANGED terms
<1>1. UNCHANGED <<request, profile, stops, terms, history, children>>
  BY DEF CreateLane, WriteLane
<1>2. PICK l \in Lanes, row \in Lane :
        /\ lane' = [lane EXCEPT ![l] = row] /\ row.origin # row.destination
        /\ (UNCHANGED planCall) \/ (\E k \in PlanCalls : Planned(k))
  <2>1. ASSUME NEW k \in PlanCalls, WriteLane(k)
        PROVE  /\ planCall[k].code \in Lanes /\ PatchedLane(k) \in Lane
               /\ lane' = [lane EXCEPT ![planCall[k].code] = PatchedLane(k)]
               /\ PatchedLane(k).origin # PatchedLane(k).destination
               /\ Planned(k)
    <3>1. /\ planCall[k].op = "lane" /\ planCall[k] \in PlanPending
          /\ TermsCallHolds(planCall[k])
      BY <2>1 DEF WriteLane, FreightInv, FreightTypeOK
    <3>2. /\ planCall[k].code \in Lanes /\ planCall[k].to \in Cities
          /\ planCall[k].column \in {"origin", "destination"}
      BY <3>1, PlanPendingFields
    <3>3. lane[planCall[k].code] \in Lane
      BY <3>1, <3>2 DEF TermsCallHolds, FreightInv, FreightTypeOK
    <3>4. PatchedLane(k) \in Lane
      BY <3>2, <3>3 DEF PatchedLane, Lane
    <3> QED BY <2>1, <3>2, <3>4 DEF WriteLane, DistinctCities
  <2>2. ASSUME NEW x \in Lanes, CreateLane(x)
        PROVE  /\ \E y \in Lane : lane' = [lane EXCEPT ![x] = y] /\ y.origin # y.destination
               /\ UNCHANGED planCall
    BY <2>2 DEF CreateLane
  <2> QED BY <2>1, <2>2
<1>3. /\ lane' \in [Lanes -> Lane \cup {NoLane}]
      /\ \A x \in Lanes : lane'[x] = IF x = l THEN row ELSE lane[x]
  BY <1>2 DEF FreightInv, FreightTypeOK
<1>4. \A x \in Lanes : /\ lane'[x] # NoLane => lane'[x].origin # lane'[x].destination
                       /\ lane[x] # NoLane => lane'[x] # NoLane
  BY <1>2, <1>3 DEF FreightInv, PlanHoldsTogether, NoLane
<1>5. /\ planCall' \in [PlanCalls -> PlanPending]
      /\ \A j \in PlanCalls : planCall'[j] = NoPlanCall \/ planCall'[j] = planCall[j]
  BY <1>2, PlannedCalls DEF FreightInv, FreightTypeOK
<1>6. ASSUME NEW j \in PlanCalls
      PROVE  TermsCallHolds(planCall[j])'
  <2>1. planCall[j] \in PlanPending /\ TermsCallHolds(planCall[j])
    BY DEF FreightInv, FreightTypeOK
  <2>2. planCall[j].op = "lane" => planCall[j].code \in Lanes
    BY <2>1, PlanPendingFields
  <2>3. CASE planCall'[j] = NoPlanCall
    BY <2>3 DEF TermsCallHolds, NoPlanCall
  <2>4. CASE planCall'[j] = planCall[j]
    BY <1>1, <1>4, <2>1, <2>2, <2>4 DEF TermsCallHolds
  <2> QED BY <1>5, <2>3, <2>4
<1>7. UNCHANGED <<terms, history>>
  BY <1>1
<1> QED BY <1>1, <1>3, <1>4, <1>5, <1>6, <1>7, StopsFrame, TermsFrame, ChildrenFrame
        DEF FreightInv, FreightTypeOK, PlanHoldsTogether

\* Every step keeps the invariant, and edits only terms that are not submitted.
LEMMA FreightNextStep ==
  ASSUME FreightInv, [FreightNext]_freightVars
  PROVE  /\ FreightInv'
         /\ terms # NoTerms /\ terms'.value # terms.value => terms.status \in {"draft", "rejected"}
<1>1. CASE UNCHANGED freightVars
  <2>1. UNCHANGED <<request, profile, stops, terms, history, children, lane, planCall>>
    BY <1>1 DEF freightVars
  <2>2. UNCHANGED <<terms, history>> /\ UNCHANGED <<terms, lane, planCall>>
    BY <2>1
  <2> QED BY <2>1, <2>2, StopsFrame, TermsFrame, ChildrenFrame, LanesFrame, CallsFrame
          DEF FreightInv, FreightTypeOK, PlanHoldsTogether
<1>2. CASE FreightNext
  <2>1. \/ FreightInv' /\ UNCHANGED terms
        \/ \E k \in PlanCalls : WriteTerms(k) \/ WriteTermsStatus(k)
    BY <1>2, RequestStep, ReplaceRouteStep, ChecksPlan, ChildStep, LaneStep DEF FreightNext
  <2> QED BY <2>1, WriteTermsStep, WriteTermsStatusStep
<1> QED BY <1>1, <1>2

\* A request begins with two ends and nothing else.
LEMMA FreightInitStep ==
  ASSUME FreightInit
  PROVE  FreightInv
<1>1. /\ terms \in Terms \cup {NoTerms} /\ history \subseteq Entry /\ IsFiniteSet(history)
      /\ HistoryTellsTerms
  BY FS_EmptySet DEF FreightInit, HistoryTellsTerms, NoTerms
<1>2. planCall \in [PlanCalls -> PlanPending] /\ \A k \in PlanCalls : TermsCallHolds(planCall[k])
  BY DEF FreightInit, PlanPending, NoPlanCall, TermsCallHolds
<1>3. /\ DOMAIN children = Tables /\ Present("packages") = {}
      /\ \A t \in Tables : children[t] \in [ChildIds -> RowsOf[t] \cup {NoChild}]
  BY TablesAre DEF FreightInit, Present
<1>4. request \in Demand /\ profile \in Profiles \cup {Nothing} /\ stops = {}
  BY DEF FreightInit
<1>5. /\ lane \in [Lanes -> Lane \cup {NoLane}]
      /\ \A l \in Lanes : lane[l] = NoLane
  BY DEF FreightInit
<1> QED BY <1>1, <1>2, <1>3, <1>4, <1>5 DEF FreightInv, FreightTypeOK, PlanHoldsTogether

\* The invariant of the demand is inductive.
THEOREM FreightInvariant == FreightSpec => []FreightInv
<1>1. FreightInit => FreightInv
  BY FreightInitStep
<1>2. FreightInv /\ [FreightNext]_freightVars => FreightInv'
  BY FreightNextStep
<1> QED BY <1>1, <1>2, PTL DEF FreightSpec

\* However routes, packages and lanes are changed at once, what is planned holds
\* together.
THEOREM PlanHolds == FreightSpec => []PlanHoldsTogether
<1>1. FreightInv => PlanHoldsTogether
  BY DEF FreightInv
<1> QED BY <1>1, FreightInvariant, PTL

\* However many calls edit, submit and decide at once, every version of the terms
\* is in their history once.
THEOREM HistoryTells == FreightSpec => []HistoryTellsTerms
<1>1. FreightInv => HistoryTellsTerms
  BY DEF FreightInv
<1> QED BY <1>1, FreightInvariant, PTL

\* No overlap of calls edits terms that wait for a decision or were approved.
THEOREM DecidedWereSubmitted == FreightSpec => DecidedAsSubmitted
<1>1. FreightInv /\ [FreightNext]_freightVars =>
        [terms # NoTerms /\ terms'.value # terms.value
           => terms.status \in {"draft", "rejected"}]_freightVars
  BY FreightNextStep
<1> QED BY <1>1, FreightInvariant, PTL DEF FreightSpec, DecidedAsSubmitted

-----------------------------------------------------------------------------
(* Master data.                                                            *)

\* A pending update names a party that is there and has read what an entry of its audit
\* tells; a pending number is the next of its sequence.
MasterCallHolds(call) ==
  /\ call.op = "party" =>
       /\ party[call.of] \in Party
       /\ \E told \in partyAudit[call.of] : told.after = call.before
  /\ call.op = "number" => call.value = next[call.of]

\* A party that is not there has no audit, and only the creation has read nothing.
AuditBegins(p) ==
  /\ party[p] = Keep => partyAudit[p] = {}
  /\ \A row \in partyAudit[p] : row.before = Keep => row.at = 0

MasterInv ==
  /\ MasterTypeOK
  /\ \A p \in Parties : AuditBegins(p)
  /\ next \in [Scopes -> Nat \ {0}]
  /\ allocated \in [Scopes -> Seq(Nat)]
  /\ \A k \in MasterCalls : MasterCallHolds(masterCall[k])
  /\ \A j, k \in MasterCalls :
       /\ masterCall[j].op = "number" /\ masterCall[k].op = "number"
       /\ masterCall[j].of = masterCall[k].of
       => j = k
  /\ AuditTellsParty
  /\ NumbersAreOnce

\* The fields of a pending call, by its operation.
LEMMA MasterPendingFields ==
  ASSUME NEW call \in MasterPending
  PROVE  /\ call.op = "party" => /\ call.of \in Parties /\ call.before \in Party
                                 /\ call.at \in UpdateStarts
                                 /\ call.row \in PartyRow
                                 /\ call.roles \in ((SUBSET Roles) \ {{}}) \cup {Keep}
         /\ call.op = "address" =>
              call.of \in Addresses /\ call.row \in AddressRow \ {"absent"}
         /\ call.op = "contact" => call.of \in Contacts /\ call.row \in ContactRow
         /\ call.op = "number" => call.of \in Scopes /\ call.value \in Nat
BY DEF MasterPending, NoMasterCall

\* The parts of the invariant that a step which leaves their rows alone keeps.
LEMMA PartiesFrame ==
  ASSUME MasterInv, UNCHANGED <<party, partyAudit>>
  PROVE  /\ party' \in [Parties -> Party \cup {Keep}]
         /\ partyAudit' \in [Parties -> SUBSET AuditRow]
         /\ \A p \in Parties : AuditBegins(p)'
         /\ AuditTellsParty'
BY DEF MasterInv, MasterTypeOK, AuditTellsParty, AuditBegins

LEMMA DirectoryFrame ==
  ASSUME MasterInv, UNCHANGED <<address, contact>>
  PROVE  address' \in [Addresses -> AddressRow] /\ contact' \in [Contacts -> ContactRow \cup {Keep}]
BY DEF MasterInv, MasterTypeOK

LEMMA CataloguesFrame ==
  ASSUME MasterInv, UNCHANGED <<entry, linked>>
  PROVE  /\ entry' \in [Catalogs -> [Entries -> EntryRow \cup {Keep}]]
         /\ linked' \in [LinkTables -> [Links -> BOOLEAN \cup {Keep}]]
BY DEF MasterInv, MasterTypeOK

LEMMA SequencesFrame ==
  ASSUME MasterInv, UNCHANGED <<next, allocated>>
  PROVE  /\ next' \in [Scopes -> Nat] /\ next' \in [Scopes -> Nat \ {0}]
         /\ allocated' \in [Scopes -> Seq(Nat)]
         /\ \A s \in Scopes : \A i \in DOMAIN allocated'[s] : allocated'[s][i] \in Nat
         /\ NumbersAreOnce'
BY DEF MasterInv, MasterTypeOK, NumbersAreOnce

\* What the calls in flight may rely on.
PendingHolds ==
  /\ masterCall \in [MasterCalls -> MasterPending]
  /\ \A k \in MasterCalls : MasterCallHolds(masterCall[k])
  /\ \A j, k \in MasterCalls :
       /\ masterCall[j].op = "number" /\ masterCall[k].op = "number"
       /\ masterCall[j].of = masterCall[k].of
       => j = k

LEMMA PendingFrame ==
  ASSUME MasterInv, UNCHANGED <<next, masterCall>>,
         \A p \in Parties : party[p] \in Party => party'[p] \in Party,
         \A p \in Parties : partyAudit[p] \subseteq partyAudit'[p]
  PROVE  PendingHolds'
<1>1. \A k \in MasterCalls : MasterCallHolds(masterCall[k])'
  <2> SUFFICES ASSUME NEW k \in MasterCalls PROVE MasterCallHolds(masterCall[k])'
    OBVIOUS
  <2>1. masterCall[k] \in MasterPending /\ MasterCallHolds(masterCall[k])
    BY DEF MasterInv, MasterTypeOK
  <2> QED BY <2>1, MasterPendingFields DEF MasterCallHolds
<1> QED BY <1>1 DEF MasterInv, MasterTypeOK, PendingHolds

\* The call that ends no longer relies on anything, the others still may.
LEMMA EndedCalls ==
  ASSUME MasterInv, NEW k \in MasterCalls, Ends(k),
         \A p \in Parties : party[p] \in Party => party'[p] \in Party,
         \A p \in Parties : partyAudit[p] \subseteq partyAudit'[p],
         \A s \in Scopes : next'[s] # next[s]
           => masterCall[k].op = "number" /\ masterCall[k].of = s
  PROVE  PendingHolds'
<1>1. /\ masterCall' \in [MasterCalls -> MasterPending]
      /\ \A j \in MasterCalls : masterCall'[j] = IF j = k THEN NoMasterCall ELSE masterCall[j]
  BY DEF Ends, MasterInv, MasterTypeOK, MasterPending
<1>2. ASSUME NEW j \in MasterCalls
      PROVE  MasterCallHolds(masterCall[j])'
  <2>1. CASE j = k
    BY <1>1, <2>1 DEF MasterCallHolds, NoMasterCall
  <2>2. CASE j # k
    <3>1. masterCall[j] \in MasterPending /\ MasterCallHolds(masterCall[j])
      BY DEF MasterInv, MasterTypeOK
    <3>2. masterCall'[j] = masterCall[j]
      BY <1>1, <2>2
    <3>3. masterCall[j].op = "number" => next'[masterCall[j].of] = next[masterCall[j].of]
      BY <2>2, <3>1, MasterPendingFields DEF MasterInv
    <3> QED BY <3>1, <3>2, <3>3, MasterPendingFields DEF MasterCallHolds
  <2> QED BY <2>1, <2>2
<1>3. \A i, j \in MasterCalls :
        /\ masterCall'[i].op = "number" /\ masterCall'[j].op = "number"
        /\ masterCall'[i].of = masterCall'[j].of
        => i = j
  <2>1. \A i, j \in MasterCalls :
          /\ masterCall[i].op = "number" /\ masterCall[j].op = "number"
          /\ masterCall[i].of = masterCall[j].of
          => i = j
    BY DEF MasterInv
  <2> QED BY <1>1, <2>1 DEF NoMasterCall
<1> QED BY <1>1, <1>2, <1>3 DEF PendingHolds

\* A call that begins relies on what it has just read, and on the row it holds.
LEMMA StartsStep ==
  ASSUME MasterInv, NEW k \in MasterCalls, NEW pending \in MasterPending, NEW ready,
         Starts(k, ready, pending), MasterCallHolds(pending),
         pending.op = "number" => SequenceFree(pending.of)
  PROVE  MasterInv'
<1>1. /\ UNCHANGED <<party, partyAudit>> /\ UNCHANGED <<address, contact>>
      /\ UNCHANGED <<entry, linked>> /\ UNCHANGED <<next, allocated>>
  BY DEF Starts
<1>2. /\ masterCall' \in [MasterCalls -> MasterPending]
      /\ \A j \in MasterCalls : masterCall'[j] = IF j = k THEN pending ELSE masterCall[j]
  BY DEF Starts, MasterInv, MasterTypeOK
<1>3. \A j \in MasterCalls : MasterCallHolds(masterCall[j])'
  BY <1>1, <1>2 DEF MasterInv, MasterCallHolds
<1>4. \A i, j \in MasterCalls :
        /\ masterCall'[i].op = "number" /\ masterCall'[j].op = "number"
        /\ masterCall'[i].of = masterCall'[j].of
        => i = j
  BY <1>2 DEF MasterInv, SequenceFree
<1> QED BY <1>1, <1>2, <1>3, <1>4, PartiesFrame, DirectoryFrame, CataloguesFrame, SequencesFrame
        DEF MasterInv, MasterTypeOK

\* What an update of a party merges is a row of a party.
LEMMA MergedIsRow ==
  ASSUME NEW before \in Party, NEW patch \in Patch
  PROVE  Merged(before, patch) \in PartyRow
<1>1. /\ before.row.tax \in TaxIds /\ before.row.active \in BOOLEAN
      /\ before.row.homologation \in Homologation
  BY DEF Party, PartyRow
<1>2. Given(patch.tax, before.row.tax) \in TaxIds
  BY <1>1 DEF Patch, Given
<1>3. Given(patch.active, before.row.active) \in BOOLEAN
  BY <1>1, Zenon DEF Patch, Given
<1>4. Merged(before, patch).homologation \in Homologation
  BY <1>1 DEF Patch, Merged, Homologation
<1> QED BY <1>2, <1>3, <1>4 DEF Merged, PartyRow

\* Every call that reads, checks and begins.
LEMMA BeginsStep ==
  ASSUME MasterInv, NEW k \in MasterCalls,
         \/ \E p \in Parties : UpdateParty(k, p)
         \/ \E a \in Addresses : UpdateAddress(k, a)
         \/ \E c \in Contacts : UpdateContact(k, c)
         \/ \E s \in Scopes : TakeNumber(k, s)
  PROVE  MasterInv'
<1>1. ASSUME NEW p \in Parties, UpdateParty(k, p)
      PROVE  MasterInv'
  <2>1. PICK patch \in Patch, at \in UpdateStarts, ready \in BOOLEAN :
          /\ Starts(k, ready, [op |-> "party", of |-> p, at |-> at, before |-> party[p],
                               row |-> Merged(party[p], patch), roles |-> patch.roles])
          /\ party[p] # Keep
    BY <1>1 DEF UpdateParty, Starts
  <2> DEFINE pending == [op |-> "party", of |-> p, at |-> at, before |-> party[p],
                         row |-> Merged(party[p], patch), roles |-> patch.roles]
  <2>2. party[p] \in Party
    BY <2>1 DEF MasterInv, MasterTypeOK
  <2>3. Merged(party[p], patch) \in PartyRow
    BY <2>2, MergedIsRow
  <2>4. patch.roles \in ((SUBSET Roles) \ {{}}) \cup {Keep}
    BY DEF Patch
  <2>5. pending \in MasterPending
    BY <2>2, <2>3, <2>4 DEF MasterPending
  <2>6. MasterCallHolds(pending) /\ pending.op # "number"
    <3>1. \E told \in partyAudit[p] : told.after = party[p]
      BY <2>1 DEF MasterInv, AuditTellsParty, Explains
    <3> QED BY <2>2, <3>1 DEF MasterCallHolds
  <2>7. Starts(k, ready, pending)
    BY <2>1
  <2> HIDE DEF pending
  <2> QED BY <2>5, <2>6, <2>7, StartsStep
<1>2. ASSUME NEW a \in Addresses, UpdateAddress(k, a)
      PROVE  MasterInv'
  <2>1. PICK row \in {"active", "inactive"}, ready \in BOOLEAN :
          Starts(k, ready, [op |-> "address", of |-> a, row |-> row])
    BY <1>2 DEF UpdateAddress, Starts
  <2>2. [op |-> "address", of |-> a, row |-> row] \in MasterPending
    BY DEF MasterPending, AddressRow
  <2> QED BY <2>1, <2>2, StartsStep DEF MasterCallHolds
<1>3. ASSUME NEW c \in Contacts, UpdateContact(k, c)
      PROVE  MasterInv'
  <2>1. PICK row \in ContactRow, ready \in BOOLEAN :
          Starts(k, ready, [op |-> "contact", of |-> c, row |-> row])
    BY <1>3 DEF UpdateContact, Starts
  <2>2. [op |-> "contact", of |-> c, row |-> row] \in MasterPending
    BY DEF MasterPending
  <2> QED BY <2>1, <2>2, StartsStep DEF MasterCallHolds
<1>4. ASSUME NEW s \in Scopes, TakeNumber(k, s)
      PROVE  MasterInv'
  <2> DEFINE pending == [op |-> "number", of |-> s, value |-> next[s]]
  <2>1. pending \in MasterPending
    BY DEF MasterPending, MasterInv, MasterTypeOK
  <2>2. MasterCallHolds(pending) /\ pending.of = s
    BY DEF MasterCallHolds
  <2>3. PICK ready \in BOOLEAN : Starts(k, ready, pending) /\ SequenceFree(s)
    BY <1>4 DEF TakeNumber, Starts
  <2> HIDE DEF pending
  <2> QED BY <2>1, <2>2, <2>3, StartsStep
<1> QED BY <1>1, <1>2, <1>3, <1>4

\* The creation explains what it made, and an update that had read what an entry tells
\* explains, with the entries there are, what it wrote.
LEMMA CreationExplains ==
  ASSUME NEW at, NEW written
  PROVE  Explains({[at |-> at, before |-> Keep, after |-> written]}, written)
BY DEF Explains

LEMMA UpdateExplains ==
  ASSUME NEW rows \in SUBSET AuditRow, NEW now, Explains(rows, now),
         \A created \in rows : created.before = Keep => created.at = 0,
         NEW row \in AuditRow, row.at \in Nat \ {0}, row.before # Keep,
         \E told \in rows : told.after = row.before
  PROVE  Explains(rows \cup {row}, row.after)
<1>1. PICK created \in rows :
        /\ created.before = Keep
        /\ \A old \in rows \ {created} : old.before # Keep /\ old.at > created.at
  BY DEF Explains
<1>2. row.at > created.at
  BY <1>1
<1>3. \A old \in (rows \cup {row}) \ {created} : old.before # Keep /\ old.at > created.at
  BY <1>1, <1>2
<1>4. \A old \in rows : old.before # Keep => \E told \in rows : told.after = old.before
  BY DEF Explains
<1> QED BY <1>1, <1>3, <1>4 DEF Explains

\* The audit of the party that is written takes one row more, whose last state is what is
\* written: it explains the party when it begins with it, or when it did before.
LEMMA AuditedParty ==
  ASSUME MasterInv, NEW p \in Parties, NEW at \in {0} \cup UpdateStarts,
         NEW before \in Party \cup {Keep}, NEW written \in Party,
         party' = [party EXCEPT ![p] = written], Audits(p, at, before, written),
         \/ before = Keep /\ at = 0 /\ party[p] = Keep
         \/ /\ before \in Party /\ at \in UpdateStarts /\ party[p] \in Party
            /\ \E told \in partyAudit[p] : told.after = before
  PROVE  /\ party' \in [Parties -> Party \cup {Keep}]
         /\ partyAudit' \in [Parties -> SUBSET AuditRow]
         /\ \A q \in Parties : AuditBegins(q)'
         /\ \A q \in Parties : partyAudit[q] \subseteq partyAudit'[q]
         /\ AuditTellsParty'
<1> DEFINE row == [at |-> at, before |-> before, after |-> written]
<1>1. /\ row \in AuditRow
      /\ row.at = at /\ row.before = before /\ row.after = written
  BY DEF AuditRow
<1>2. row = [at |-> at, before |-> before, after |-> written]
  OBVIOUS
<1>3. partyAudit' = [partyAudit EXCEPT ![p] = partyAudit[p] \cup {row}]
  BY DEF Audits
<1> HIDE DEF row
<1>4. /\ partyAudit \in [Parties -> SUBSET AuditRow] /\ party \in [Parties -> Party \cup {Keep}]
      /\ AuditTellsParty /\ \A q \in Parties : AuditBegins(q)
  BY DEF MasterInv, MasterTypeOK
<1>5. /\ partyAudit' \in [Parties -> SUBSET AuditRow] /\ party' \in [Parties -> Party \cup {Keep}]
      /\ \A q \in Parties : partyAudit[q] \subseteq partyAudit'[q]
  BY <1>1, <1>3, <1>4
<1>6. \A q \in Parties \ {p} : partyAudit'[q] = partyAudit[q] /\ party'[q] = party[q]
  BY <1>3, <1>4
<1>7. partyAudit'[p] = partyAudit[p] \cup {row} /\ party'[p] = written
  BY <1>3, <1>4
<1>8. Keep \notin Party /\ UpdateStarts \subseteq Nat \ {0}
  BY MasterAssumption
<1>9. AuditBegins(p)' /\ Explains(partyAudit'[p], party'[p])
  <2>1. CASE before = Keep /\ at = 0 /\ party[p] = Keep
    <3>1. partyAudit'[p] = {row}
      BY <1>4, <1>7, <2>1 DEF AuditBegins
    <3> QED BY <1>1, <1>2, <1>7, <1>8, <2>1, <3>1, CreationExplains DEF AuditBegins
  <2>2. CASE /\ before \in Party /\ at \in UpdateStarts /\ party[p] \in Party
             /\ \E told \in partyAudit[p] : told.after = before
    <3>1. Explains(partyAudit[p], party[p])
      BY <1>4, <1>8, <2>2 DEF AuditTellsParty
    <3>2. partyAudit[p] \in SUBSET AuditRow
      BY <1>4
    <3>3. \A created \in partyAudit[p] : created.before = Keep => created.at = 0
      BY <1>4 DEF AuditBegins
    <3>4. row.at \in Nat \ {0} /\ row.before # Keep
      BY <1>1, <1>8, <2>2
    <3>5. Explains(partyAudit[p] \cup {row}, row.after)
      BY <1>1, <2>2, <3>1, <3>2, <3>3, <3>4, UpdateExplains
    <3> QED BY <1>1, <1>7, <1>8, <3>3, <3>4, <3>5 DEF AuditBegins
  <2> QED BY <2>1, <2>2
<1>10. \A q \in Parties : AuditBegins(q)'
  BY <1>4, <1>6, <1>9 DEF AuditBegins
<1>11. AuditTellsParty'
  BY <1>4, <1>6, <1>9 DEF AuditTellsParty
<1> QED BY <1>5, <1>10, <1>11

\* A party that is made, and an update that commits: another may have changed the
\* roles since they were read, and what is audited is what is now there.
LEMMA CreatePartyStep ==
  ASSUME MasterInv, NEW p \in Parties, CreateParty(p)
  PROVE  MasterInv'
<1>1. PICK tax \in TaxIds, roles \in (SUBSET Roles) \ {{}}, h \in Homologation :
        /\ party' = [party EXCEPT ![p] =
             [row |-> [tax |-> tax, active |-> TRUE, homologation |-> h], roles |-> roles]]
        /\ Audits(p, 0, Keep,
             [row |-> [tax |-> tax, active |-> TRUE, homologation |-> h], roles |-> roles])
        /\ UNCHANGED <<address, contact, entry, linked, next, allocated, masterCall>>
        /\ party[p] = Keep
  BY DEF CreateParty
<1> DEFINE created ==
      [row |-> [tax |-> tax, active |-> TRUE, homologation |-> h], roles |-> roles]
<1>2. created \in Party
  BY DEF Party, PartyRow
<1>3. party' = [party EXCEPT ![p] = created] /\ Audits(p, 0, Keep, created)
  BY <1>1
<1> HIDE DEF created
<1>4. /\ party' \in [Parties -> Party \cup {Keep}]
      /\ partyAudit' \in [Parties -> SUBSET AuditRow]
      /\ \A q \in Parties : AuditBegins(q)'
      /\ \A q \in Parties : partyAudit[q] \subseteq partyAudit'[q]
      /\ AuditTellsParty'
  BY <1>1, <1>2, <1>3, AuditedParty
<1>5. \A q \in Parties : party[q] \in Party => party'[q] \in Party
  BY <1>2, <1>3 DEF MasterInv, MasterTypeOK
<1>6. PendingHolds'
  <2>1. UNCHANGED <<next, masterCall>>
    BY <1>1
  <2> QED BY <1>4, <1>5, <2>1, PendingFrame
<1>7. UNCHANGED <<address, contact>> /\ UNCHANGED <<entry, linked>> /\ UNCHANGED <<next, allocated>>
  BY <1>1
<1> QED BY <1>4, <1>6, <1>7, DirectoryFrame, CataloguesFrame, SequencesFrame
        DEF MasterInv, MasterTypeOK, PendingHolds

LEMMA CommitPartyStep ==
  ASSUME MasterInv, NEW k \in MasterCalls, CommitParty(k)
  PROVE  MasterInv'
<1>1. PICK call \in MasterPending : call = masterCall[k]
  BY DEF MasterInv, MasterTypeOK
<1>2. PICK p \in Parties : p = call.of
  BY <1>1, MasterPendingFields DEF CommitParty
<1> DEFINE written == [row |-> call.row, roles |-> Given(call.roles, party[p].roles)]
<1>3. /\ call.op = "party" /\ party' = [party EXCEPT ![p] = written]
      /\ Audits(p, call.at, call.before, written) /\ Ends(k)
      /\ UNCHANGED <<address, contact, entry, linked, next, allocated>>
  BY <1>1, <1>2 DEF CommitParty, AuditedAfter
<1>4. /\ party[p] \in Party
      /\ \E told \in partyAudit[p] : told.after = call.before
  BY <1>1, <1>2, <1>3 DEF MasterInv, MasterTypeOK, MasterCallHolds
<1>5. call.before \in Party /\ call.at \in UpdateStarts /\ call.row \in PartyRow
      /\ call.roles \in ((SUBSET Roles) \ {{}}) \cup {Keep}
  BY <1>3, MasterPendingFields
<1>6. written \in Party
  <2>1. Given(call.roles, party[p].roles) \in (SUBSET Roles) \ {{}}
    BY <1>4, <1>5 DEF Given, Party
  <2> QED BY <1>5, <2>1 DEF Party
<1> HIDE DEF written
<1>7. /\ party' \in [Parties -> Party \cup {Keep}]
      /\ partyAudit' \in [Parties -> SUBSET AuditRow]
      /\ \A q \in Parties : AuditBegins(q)'
      /\ \A q \in Parties : partyAudit[q] \subseteq partyAudit'[q]
      /\ AuditTellsParty'
  BY <1>3, <1>4, <1>5, <1>6, AuditedParty
<1>8. \A q \in Parties : party[q] \in Party => party'[q] \in Party
  BY <1>3, <1>6 DEF MasterInv, MasterTypeOK
<1>9. PendingHolds'
  BY <1>3, <1>7, <1>8, EndedCalls
<1>10. UNCHANGED <<address, contact>> /\ UNCHANGED <<entry, linked>> /\ UNCHANGED <<next, allocated>>
  BY <1>3
<1> QED BY <1>7, <1>9, <1>10, DirectoryFrame, CataloguesFrame, SequencesFrame
        DEF MasterInv, MasterTypeOK, PendingHolds

\* Calls that give up, and the directory, which is typed and no more.
LEMMA DirectoryStep ==
  ASSUME MasterInv,
         \/ \E a \in Addresses : CreateAddress(a)
         \/ \E c \in Contacts : CreateContact(c)
         \/ \E k \in MasterCalls : \/ CommitAddress(k) \/ CommitContact(k)
                                   \/ PartyConflicts(k) \/ NumberRollsBack(k)
  PROVE  MasterInv'
<1>1. /\ UNCHANGED <<party, partyAudit>> /\ UNCHANGED <<entry, linked>>
      /\ UNCHANGED <<next, allocated>>
  BY DEF CreateAddress, CreateContact, CommitAddress, CommitContact, PartyConflicts, NumberRollsBack
<1>2. /\ address' \in [Addresses -> AddressRow]
      /\ contact' \in [Contacts -> ContactRow \cup {Keep}]
  <2>0. address \in [Addresses -> AddressRow] /\ contact \in [Contacts -> ContactRow \cup {Keep}]
    BY DEF MasterInv, MasterTypeOK
  <2>1. \A k \in MasterCalls : masterCall[k] \in MasterPending
    BY DEF MasterInv, MasterTypeOK
  <2>2. ASSUME NEW k \in MasterCalls, CommitAddress(k)
        PROVE  /\ address' \in [Addresses -> AddressRow]
               /\ contact' \in [Contacts -> ContactRow \cup {Keep}]
    BY <2>0, <2>1, <2>2, MasterPendingFields DEF CommitAddress
  <2>3. ASSUME NEW k \in MasterCalls, CommitContact(k)
        PROVE  /\ address' \in [Addresses -> AddressRow]
               /\ contact' \in [Contacts -> ContactRow \cup {Keep}]
    BY <2>0, <2>1, <2>3, MasterPendingFields DEF CommitContact
  <2> QED BY <2>0, <2>2, <2>3
          DEF CreateAddress, CreateContact, PartyConflicts, NumberRollsBack, AddressRow
<1>3. PendingHolds'
  <2>1. \/ UNCHANGED <<next, masterCall>>
        \/ \E k \in MasterCalls : Ends(k)
    BY DEF CreateAddress, CreateContact, CommitAddress, CommitContact, PartyConflicts, NumberRollsBack
  <2> QED BY <1>1, <2>1, PendingFrame, EndedCalls
<1> QED BY <1>1, <1>2, <1>3, PartiesFrame, CataloguesFrame, SequencesFrame
        DEF MasterInv, MasterTypeOK, PendingHolds

\* A row of a catalogue, or a link, is set to one of its values.
LEMMA SetStep ==
  ASSUME MasterInv, UNCHANGED <<party, partyAudit, address, contact, next, allocated, masterCall>>,
         entry' \in [Catalogs -> [Entries -> EntryRow \cup {Keep}]],
         linked' \in [LinkTables -> [Links -> BOOLEAN \cup {Keep}]]
  PROVE  MasterInv'
<1>1. /\ UNCHANGED <<party, partyAudit>> /\ UNCHANGED <<address, contact>>
      /\ UNCHANGED <<next, allocated>> /\ UNCHANGED <<next, masterCall>>
  OBVIOUS
<1>2. PendingHolds'
  BY <1>1, PendingFrame
<1> QED BY <1>1, <1>2, PartiesFrame, DirectoryFrame, SequencesFrame
        DEF MasterInv, MasterTypeOK, PendingHolds

LEMMA SetEntryStep ==
  ASSUME MasterInv, NEW t \in Catalogs, NEW e \in Entries, NEW row \in EntryRow, SetEntry(t, e, row)
  PROVE  MasterInv'
<1>1. entry \in [Catalogs -> [Entries -> EntryRow \cup {Keep}]]
  BY DEF MasterInv, MasterTypeOK
<1>2. entry' = [entry EXCEPT ![t] = [entry[t] EXCEPT ![e] = row]]
  BY DEF SetEntry
<1>3. [entry[t] EXCEPT ![e] = row] \in [Entries -> EntryRow \cup {Keep}]
  BY <1>1
<1>4. entry' \in [Catalogs -> [Entries -> EntryRow \cup {Keep}]]
  BY <1>1, <1>2, <1>3
<1>5. linked' \in [LinkTables -> [Links -> BOOLEAN \cup {Keep}]]
  BY DEF SetEntry, MasterInv, MasterTypeOK
<1>6. UNCHANGED <<party, partyAudit, address, contact, next, allocated, masterCall>>
  BY DEF SetEntry
<1> QED BY <1>4, <1>5, <1>6, SetStep

LEMMA PutLinkStep ==
  ASSUME MasterInv, NEW t \in LinkTables, NEW l \in Links, NEW on \in BOOLEAN, PutLink(t, l, on)
  PROVE  MasterInv'
<1>1. linked \in [LinkTables -> [Links -> BOOLEAN \cup {Keep}]]
  BY DEF MasterInv, MasterTypeOK
<1>2. linked' = [linked EXCEPT ![t] = [linked[t] EXCEPT ![l] = on]]
  BY DEF PutLink
<1>3. [linked[t] EXCEPT ![l] = on] \in [Links -> BOOLEAN \cup {Keep}]
  BY <1>1, Zenon
<1>4. linked' \in [LinkTables -> [Links -> BOOLEAN \cup {Keep}]]
  BY <1>1, <1>2, <1>3
<1>5. entry' \in [Catalogs -> [Entries -> EntryRow \cup {Keep}]]
  BY DEF PutLink, MasterInv, MasterTypeOK
<1>6. UNCHANGED <<party, partyAudit, address, contact, next, allocated, masterCall>>
  BY DEF PutLink
<1> QED BY <1>4, <1>5, <1>6, SetStep

LEMMA CatalogueStep ==
  ASSUME MasterInv,
         \/ \E e \in Entries :
              \/ CreateLocation(e) \/ SetLocationLifecycle(e)
              \/ CreateDimension(e) \/ CreateCommodity(e) \/ CreatePartyGroup(e)
              \/ CreateCustomFieldDefinition(e)
              \/ \E t \in TenantCatalogs : CreateEntry(t, e) \/ UpdateEntry(t, e)
         \/ \E l \in Links :
              \/ \E t \in Memberships : SetPartyGroupMembership(t, l)
              \/ \E t \in FieldValues : SetCustomFieldValue(t, l)
              \/ \E t \in EntityTags : SetTag(t, l)
              \/ \E t \in TenantSettings : UpsertTenantConfiguration(t, l)
  PROVE  MasterInv'
<1>1. ASSUME NEW t \in Catalogs, NEW e \in Entries, CreateEntry(t, e)
      PROVE  MasterInv'
  <2>1. PICK row \in EntryRow : SetEntry(t, e, row)
    BY <1>1 DEF CreateEntry, EntryRow
  <2> QED BY <2>1, SetEntryStep
<1>2. ASSUME NEW t \in Catalogs, NEW e \in Entries, UpdateEntry(t, e)
      PROVE  MasterInv'
  BY <1>2, SetEntryStep DEF UpdateEntry
<1>3. ASSUME NEW e \in Entries, SetLocationLifecycle(e)
      PROVE  MasterInv'
  <2>1. "locations" \in Catalogs
    BY DEF Catalogs, Locations
  <2>2. PICK old : old = entry["locations"][e]
    OBVIOUS
  <2>3. PICK active \in BOOLEAN :
          old # Keep /\ SetEntry("locations", e, [old EXCEPT !.active = active, !.live = active])
    BY <1>3, <2>2 DEF SetLocationLifecycle
  <2>4. old \in EntryRow
    BY <2>1, <2>2, <2>3 DEF MasterInv, MasterTypeOK
  <2> DEFINE row == [old EXCEPT !.active = active, !.live = active]
  <2>5. row = [[old EXCEPT !.active = active] EXCEPT !.live = active]
    BY <2>4 DEF EntryRow
  <2>6. [old EXCEPT !.active = active] \in EntryRow
    BY <2>4, Zenon DEF EntryRow
  <2>7. row \in EntryRow
    BY <2>5, <2>6, Zenon DEF EntryRow
  <2>8. SetEntry("locations", e, row)
    BY <2>3
  <2> HIDE DEF row
  <2> QED BY <2>1, <2>7, <2>8, SetEntryStep
<1>4. /\ {"locations"} \subseteq Catalogs /\ Dimensions \subseteq Catalogs
      /\ Commodities \subseteq Catalogs /\ PartyGroups \subseteq Catalogs
      /\ FieldDefinitions \subseteq Catalogs /\ TenantCatalogs \subseteq Catalogs
  BY DEF Catalogs, Locations
<1>5. /\ Memberships \subseteq LinkTables /\ FieldValues \subseteq LinkTables
      /\ EntityTags \subseteq LinkTables /\ TenantSettings \subseteq LinkTables
  BY DEF LinkTables
<1>6. \/ \E t \in Catalogs, e \in Entries : CreateEntry(t, e) \/ UpdateEntry(t, e)
      \/ \E e \in Entries : SetLocationLifecycle(e)
      \/ \E t \in LinkTables, l \in Links, on \in BOOLEAN : PutLink(t, l, on)
  BY <1>4, <1>5
     DEF CreateLocation, CreateDimension, CreateCommodity, CreatePartyGroup,
         CreateCustomFieldDefinition, SetPartyGroupMembership, SetCustomFieldValue, SetTag,
         UpsertTenantConfiguration
<1> QED BY <1>1, <1>2, <1>3, <1>6, PutLinkStep

\* The number that commits is the next one, because the row was held since it was
\* taken; it goes to the end of the sequence.
LEMMA CommitNumberStep ==
  ASSUME MasterInv, NEW k \in MasterCalls, CommitNumber(k)
  PROVE  MasterInv'
<1>1. PICK call \in MasterPending : call = masterCall[k]
  BY DEF MasterInv, MasterTypeOK
<1>2. PICK s \in Scopes : s = call.of
  BY <1>1, MasterPendingFields DEF CommitNumber
<1>3. PICK n \in Nat \ {0} : n = next[s]
  BY DEF MasterInv
<1>4. call.op = "number" /\ call.value = n
  BY <1>1, <1>2, <1>3 DEF CommitNumber, MasterInv, MasterCallHolds
<1>5. /\ next' = [next EXCEPT ![s] = n + 1]
      /\ allocated' = [allocated EXCEPT ![s] = Append(allocated[s], n)]
      /\ Ends(k) /\ UNCHANGED <<party, partyAudit, address, contact, entry, linked>>
  BY <1>1, <1>2, <1>4 DEF CommitNumber
<1>6. /\ next \in [Scopes -> Nat \ {0}] /\ allocated \in [Scopes -> Seq(Nat)]
      /\ \A x \in Scopes : allocated[x] = [i \in 1..(next[x] - 1) |-> i]
  BY DEF MasterInv, NumbersAreOnce
<1>7. /\ next' \in [Scopes -> Nat \ {0}]
      /\ \A x \in Scopes : next'[x] = IF x = s THEN n + 1 ELSE next[x]
  BY <1>5, <1>6
<1>8. /\ Append(allocated[s], n) \in Seq(Nat)
      /\ Append(allocated[s], n) = [i \in 1..n |-> i]
  <2>1. allocated[s] = [i \in 1..(n - 1) |-> i] /\ allocated[s] \in Seq(Nat)
    BY <1>3, <1>6
  <2>2. Len(allocated[s]) = n - 1
    <3>1. Len(allocated[s]) \in Nat /\ DOMAIN allocated[s] = 1..Len(allocated[s])
      BY <2>1, LenProperties
    <3>2. 1..Len(allocated[s]) = 1..(n - 1)
      BY <2>1, <3>1
    <3> QED BY <3>1, <3>2
  <2>3. /\ Append(allocated[s], n) \in Seq(Nat)
        /\ Len(Append(allocated[s], n)) = n
        /\ \A i \in 1..(n - 1) : Append(allocated[s], n)[i] = i
        /\ Append(allocated[s], n)[n] = n
    BY <2>1, <2>2, AppendProperties
  <2>4. Append(allocated[s], n) = [i \in 1..n |-> Append(allocated[s], n)[i]]
    BY <2>3, LenProperties
  <2>5. \A i \in 1..n : Append(allocated[s], n)[i] = i
    BY <2>3
  <2> QED BY <2>3, <2>4, <2>5
<1>9. /\ allocated' \in [Scopes -> Seq(Nat)]
      /\ \A x \in Scopes : allocated'[x] = IF x = s THEN [i \in 1..n |-> i] ELSE allocated[x]
  BY <1>5, <1>6, <1>8
<1>10. NumbersAreOnce'
  <2>1. ASSUME NEW x \in Scopes PROVE allocated'[x] = [i \in 1..(next'[x] - 1) |-> i]
    <3>1. CASE x = s
      <4>1. next'[x] = n + 1 /\ (n + 1) - 1 = n
        BY <1>7, <3>1
      <4>2. allocated'[x] = [i \in 1..n |-> i]
        BY <1>9, <3>1
      <4> QED BY <4>1, <4>2
    <3>2. CASE x # s
      <4>1. next'[x] = next[x] /\ allocated'[x] = allocated[x]
        BY <1>7, <1>9, <3>2
      <4> QED BY <1>6, <4>1
    <3> QED BY <3>1, <3>2
  <2> QED BY <2>1 DEF NumbersAreOnce
<1>11. PendingHolds'
  BY <1>1, <1>2, <1>4, <1>5, <1>7, EndedCalls
<1>12. UNCHANGED <<party, partyAudit>> /\ UNCHANGED <<address, contact>> /\ UNCHANGED <<entry, linked>>
  BY <1>5
<1>13. /\ next' \in [Scopes -> Nat]
       /\ \A x \in Scopes : \A i \in DOMAIN allocated'[x] : allocated'[x][i] \in Nat
  BY <1>7, <1>9
<1> QED BY <1>7, <1>9, <1>10, <1>11, <1>12, <1>13, PartiesFrame, DirectoryFrame, CataloguesFrame
        DEF MasterInv, MasterTypeOK, PendingHolds

\* Every step of the master data keeps the invariant.
LEMMA MasterNextStep ==
  ASSUME MasterInv, [MasterNext]_masterVars
  PROVE  MasterInv'
<1>1. CASE UNCHANGED masterVars
  <2>1. /\ UNCHANGED <<party, partyAudit, address, contact, next, allocated, masterCall>>
        /\ UNCHANGED <<entry, linked>>
    BY <1>1 DEF masterVars
  <2> QED BY <2>1, CataloguesFrame, SetStep
<1>2. CASE MasterNext
  BY <1>2, CreatePartyStep, BeginsStep, CommitPartyStep, DirectoryStep, CatalogueStep,
     CommitNumberStep DEF MasterNext
<1> QED BY <1>1, <1>2

\* Nothing is there at first.
LEMMA MasterInitStep ==
  ASSUME MasterInit
  PROVE  MasterInv
<1>1. /\ partyAudit \in [Parties -> SUBSET AuditRow]
      /\ \A p \in Parties : AuditBegins(p)
      /\ AuditTellsParty
  BY DEF MasterInit, AuditTellsParty, AuditBegins
<1>2. /\ allocated \in [Scopes -> Seq(Nat)] /\ NumbersAreOnce
      /\ \A s \in Scopes : \A i \in DOMAIN allocated[s] : allocated[s][i] \in Nat
  <2>1. <<>> \in Seq(Nat) /\ <<>> = [i \in 1..0 |-> i]
    BY EmptySeq
  <2> QED BY <2>1 DEF MasterInit, NumbersAreOnce
<1>3. /\ party \in [Parties -> Party \cup {Keep}]
      /\ address \in [Addresses -> AddressRow] /\ contact \in [Contacts -> ContactRow \cup {Keep}]
      /\ entry \in [Catalogs -> [Entries -> EntryRow \cup {Keep}]]
      /\ linked \in [LinkTables -> [Links -> BOOLEAN \cup {Keep}]]
      /\ next \in [Scopes -> Nat] /\ next \in [Scopes -> Nat \ {0}]
  BY DEF MasterInit, AddressRow
<1>4. PendingHolds
  BY DEF MasterInit, PendingHolds, MasterCallHolds, MasterPending, NoMasterCall
<1> QED BY <1>1, <1>2, <1>3, <1>4 DEF MasterInv, MasterTypeOK, PendingHolds

\* The invariant of the master data is inductive.
THEOREM MasterInvariant == MasterSpec => []MasterInv
<1>1. MasterInit => MasterInv
  BY MasterInitStep
<1>2. MasterInv /\ [MasterNext]_masterVars => MasterInv'
  BY MasterNextStep
<1> QED BY <1>1, <1>2, PTL DEF MasterSpec

\* Whatever two updates overwrite of each other and in whatever order their entries are
\* read, the audit begins with the creation and tells what the party is and what every
\* update had read; and every number is given once, in order, whoever gives up.
THEOREM BookkeepingAgrees == MasterSpec => []BookkeepingHolds
<1>1. MasterInv => BookkeepingHolds
  BY DEF MasterInv, BookkeepingHolds
<1> QED BY <1>1, MasterInvariant, PTL

-----------------------------------------------------------------------------
(* The table of rate windows.                                              *)

RateInv == RateTypeOK /\ RoomIsUsed

\* There are finitely many buckets, and so finitely many windows.
LEMMA TrackedFinite ==
  ASSUME NEW w
  PROVE  /\ IsFiniteSet(Buckets) /\ IsFiniteSet(Tracked(w))
         /\ \A S \in SUBSET Buckets : IsFiniteSet(S) /\ Cardinality(S) \in Nat
<1>1. IsFiniteSet(Kinds)
  <2>1. IsFiniteSet({"sensitive"}) /\ IsFiniteSet({"global"})
    BY FS_Singleton
  <2>2. IsFiniteSet({"sensitive"} \cup {"global"})
    BY <2>1, FS_Union
  <2>3. Kinds = {"sensitive"} \cup {"global"}
    BY DEF Kinds
  <2> QED BY <2>2, <2>3
<1>2. IsFiniteSet(Buckets)
  BY <1>1, FS_Product, RateAssumption DEF Buckets
<1>3. \A S \in SUBSET Buckets : IsFiniteSet(S)
  BY <1>2, FS_Subset
<1> QED BY <1>2, <1>3, FS_CardinalityType DEF Tracked

\* What is swept is typed and no larger; with no room left, nothing of it had ended.
LEMMA SweptTable ==
  ASSUME RateInv, NEW w, w = Swept(window)
  PROVE  /\ w \in [Buckets -> Window \cup {NoWindow}]
         /\ Tracked(w) \subseteq Tracked(window)
         /\ Cardinality(Tracked(w)) \in Nat /\ Cardinality(Tracked(w)) <= MaxTracked
         /\ Cardinality(Tracked(w)) >= MaxTracked => \A b \in Tracked(w) : Alive(w, b)
<1>1. w \in [Buckets -> Window \cup {NoWindow}]
  BY DEF Swept, RateInv, RateTypeOK
<1>2. Tracked(w) \subseteq Tracked(window)
  BY <1>1 DEF Swept, Tracked
<1>3. /\ Cardinality(Tracked(w)) <= Cardinality(Tracked(window))
      /\ Cardinality(Tracked(w)) \in Nat /\ Cardinality(Tracked(window)) \in Nat
  BY <1>2, TrackedFinite, FS_Subset DEF Tracked
<1>4. Cardinality(Tracked(window)) <= MaxTracked
  BY DEF RateInv, RoomIsUsed
<1>5. ASSUME Cardinality(Tracked(w)) >= MaxTracked, NEW b \in Tracked(w)
      PROVE  Alive(w, b)
  <2>1. PruneDue(window)
    BY <1>3, <1>5, RateAssumption DEF PruneDue
  <2>2. w = [x \in Buckets |-> IF Alive(window, x) THEN window[x] ELSE NoWindow]
    BY <2>1 DEF Swept
  <2>3. b \in Buckets /\ w[b] # NoWindow
    BY <1>5 DEF Tracked
  <2>4. Alive(window, b) /\ w[b] = window[b]
    BY <2>2, <2>3
  <2> QED BY <2>4 DEF Alive
<1> QED BY <1>1, <1>2, <1>3, <1>4, <1>5, RateAssumption

\* The count of requests since the last pruning stays below its limit.
LEMMA CountsRequestStep ==
  ASSUME RateInv, CountsRequest
  PROVE  sincePrune' \in 0..PruneEvery
BY RateAssumption DEF RateInv, RateTypeOK, CountsRequest, PruneDue

\* Who is turned away finds the table full of windows that are alive.
LEMMA TurnAwayStep ==
  ASSUME RateInv, NEW b \in Buckets, TurnAway(b)
  PROVE  RateInv'
<1>1. PICK w : w = Swept(window)
  OBVIOUS
<1>2. /\ w \in [Buckets -> Window \cup {NoWindow}]
      /\ Cardinality(Tracked(w)) \in Nat /\ Cardinality(Tracked(w)) <= MaxTracked
      /\ Cardinality(Tracked(w)) >= MaxTracked => \A x \in Tracked(w) : Alive(w, x)
  BY <1>1, SweptTable
<1>3. /\ Cardinality(Tracked(w)) >= MaxTracked
      /\ window' = w
      /\ turnedAway' = turnedAway \cup {<<b, Cardinality({c \in Buckets : Alive(w, c)})>>}
      /\ CountsRequest /\ UNCHANGED <<instant, admitted>>
  BY <1>1 DEF TurnAway, NoRoom
<1>4. {c \in Buckets : Alive(w, c)} = Tracked(w)
  BY <1>2, <1>3 DEF Tracked, Alive
<1>5. Cardinality({c \in Buckets : Alive(w, c)}) = MaxTracked
  <2>1. Cardinality(Tracked(w)) = MaxTracked
    BY <1>2, <1>3, RateAssumption
  <2> QED BY <1>4, <2>1
<1>6. turnedAway' = turnedAway \cup {<<b, MaxTracked>>}
  BY <1>3, <1>5
<1>7. turnedAway' \in SUBSET (Buckets \X (0..MaxTracked))
  BY <1>6, RateAssumption DEF RateInv, RateTypeOK
<1>8. \A turned \in turnedAway' : turned[2] = MaxTracked
  BY <1>6 DEF RateInv, RoomIsUsed
<1>9. RateTypeOK'
  BY <1>2, <1>3, <1>7, CountsRequestStep DEF RateInv, RateTypeOK
<1>10. Tracked(window)' = Tracked(w)
  BY <1>3 DEF Tracked
<1> QED BY <1>2, <1>8, <1>9, <1>10 DEF RateInv, RoomIsUsed

\* A request is counted in the window there is, or in one there is room for.
LEMMA CountStep ==
  ASSUME RateInv, NEW b \in Buckets, Count(b)
  PROVE  RateInv'
<1>1. PICK w : w = Swept(window)
  OBVIOUS
<1>2. /\ w \in [Buckets -> Window \cup {NoWindow}]
      /\ Cardinality(Tracked(w)) \in Nat /\ Cardinality(Tracked(w)) <= MaxTracked
  BY <1>1, SweptTable
<1> DEFINE counted == [Opened(w, b) EXCEPT !.count = @ + 1]
<1>3. /\ ~NoRoom(w, b) /\ window' = [w EXCEPT ![b] = counted]
      /\ admitted' = IF counted.count > Limit[b[2]] THEN admitted
                     ELSE [admitted EXCEPT ![b] = Append(@, instant)]
      /\ CountsRequest /\ UNCHANGED <<instant, turnedAway>>
  BY <1>1 DEF Count
<1>4. Opened(w, b) \in Window
  <2>1. instant + WindowLength \in Nat
    BY RateAssumption DEF RateInv, RateTypeOK, Instants
  <2>2. CASE NeedsWindow(w, b)
    BY <2>1, <2>2 DEF Opened, Window
  <2>3. CASE ~NeedsWindow(w, b)
    BY <1>2, <2>3 DEF Opened, NeedsWindow, Alive
  <2> QED BY <2>2, <2>3
<1>5. counted \in Window
  BY <1>4 DEF Window
<1>6. admitted' \in [Buckets -> Seq(Instants)]
  <2>1. instant \in Instants /\ admitted[b] \in Seq(Instants)
    BY DEF RateInv, RateTypeOK
  <2>2. Append(admitted[b], instant) \in Seq(Instants)
    BY <2>1
  <2>3. \/ admitted' = admitted
        \/ admitted' = [admitted EXCEPT ![b] = Append(admitted[b], instant)]
    BY <1>3
  <2> QED BY <2>2, <2>3 DEF RateInv, RateTypeOK
<1> HIDE DEF counted
<1>7. window' \in [Buckets -> Window \cup {NoWindow}]
  BY <1>2, <1>3, <1>5
<1>8. RateTypeOK'
  BY <1>3, <1>6, <1>7, CountsRequestStep DEF RateInv, RateTypeOK
<1>9. Cardinality(Tracked(window)') <= MaxTracked
  <2>1. Tracked(window)' \subseteq Tracked(w) \cup {b}
    BY <1>2, <1>3 DEF Tracked
  <2>2. IsFiniteSet(Tracked(w)) /\ IsFiniteSet(Tracked(w) \cup {b})
    BY TrackedFinite DEF Tracked
  <2>3. Cardinality(Tracked(window)') <= Cardinality(Tracked(w) \cup {b})
    BY <2>1, <2>2, FS_Subset
  <2>4. Cardinality(Tracked(w) \cup {b}) <= MaxTracked
    <3>1. CASE b \in Tracked(w)
      <4>1. Tracked(w) \cup {b} = Tracked(w)
        BY <3>1
      <4> QED BY <1>2, <4>1
    <3>2. CASE b \notin Tracked(w)
      <4>1. Cardinality(Tracked(w)) < MaxTracked
        BY <1>2, <1>3, <3>2, RateAssumption DEF NoRoom, NeedsWindow, Alive, Tracked
      <4>2. Cardinality(Tracked(w) \cup {b}) = Cardinality(Tracked(w)) + 1
        BY <2>2, <3>2, FS_AddElement
      <4> QED BY <1>2, <4>1, <4>2, RateAssumption
    <3> QED BY <3>1, <3>2
  <2>5. /\ Cardinality(Tracked(window)') \in Nat
        /\ Cardinality(Tracked(w) \cup {b}) \in Nat
    <3>1. Tracked(window)' \in SUBSET Buckets /\ Tracked(w) \cup {b} \in SUBSET Buckets
      BY DEF Tracked
    <3> QED BY <3>1, TrackedFinite
  <2> QED BY <2>3, <2>4, <2>5, RateAssumption
<1> QED BY <1>3, <1>8, <1>9 DEF RateInv, RoomIsUsed

\* Every step keeps the table within its room.
LEMMA RateNextStep ==
  ASSUME RateInv, [RateNext]_rateVars
  PROVE  RateInv'
<1>1. CASE UNCHANGED rateVars
  BY <1>1 DEF rateVars, RateInv, RateTypeOK, RoomIsUsed, Tracked
<1>2. CASE Passes
  <2>1. instant' \in Instants
    BY <1>2, RateAssumption DEF Passes, RateInv, RateTypeOK, Instants
  <2>2. UNCHANGED <<window, sincePrune, admitted, turnedAway>>
    BY <1>2 DEF Passes
  <2> QED BY <2>1, <2>2 DEF RateInv, RateTypeOK, RoomIsUsed, Tracked
<1> QED BY <1>1, <1>2, TurnAwayStep, CountStep DEF RateNext

\* The table is empty at first.
LEMMA RateInitStep ==
  ASSUME RateInit
  PROVE  RateInv
<1>1. RateTypeOK
  BY RateAssumption DEF RateInit, RateTypeOK, Instants
<1>2. Tracked(window) = {}
  BY DEF RateInit, Tracked
<1>3. Cardinality(Tracked(window)) = 0
  BY <1>2, FS_EmptySet
<1> QED BY <1>1, <1>3, RateAssumption DEF RateInit, RateInv, RoomIsUsed

\* A log of requests let through: those since a window opened, and those less
\* than a window's length before it.
Since(log, s) == {n \in DOMAIN log : s <= log[n]}
Before(log, s) == {n \in DOMAIN log : log[n] < s /\ s < log[n] + WindowLength}

\* The stretch of a log from t on.
Stretch(log, t) == {n \in DOMAIN log : t <= log[n] /\ log[n] < t + WindowLength}

\* A window opened at s accounts for a log: neither it nor those before it that
\* it can meet in one stretch let more than the limit through, and all of the log
\* lies before its end.
Accounted(log, s, limit) ==
  /\ s \in Nat
  /\ \A n \in DOMAIN log : log[n] < s + WindowLength
  /\ Cardinality(Since(log, s)) <= limit
  /\ Cardinality(Before(log, s)) <= limit

\* The window of a bucket is the latest one that let requests through, and
\* counts them all; without one, the latest is over.
LatestWindow(w, log, s) ==
  IF w = NoWindow THEN log = <<>> \/ s + WindowLength <= instant
  ELSE w.resetAt = s + WindowLength /\ Cardinality(Since(log, s)) <= w.count

BucketHolds(b) ==
  /\ \E s \in 0..instant : /\ Accounted(admitted[b], s, Limit[b[2]])
                          /\ LatestWindow(window[b], admitted[b], s)
  /\ \A t \in Instants : Cardinality(AdmittedFrom(b, t)) <= 2 * Limit[b[2]]

LimitInv == RateInv /\ \A b \in Buckets : BucketHolds(b)

\* Parts of a log are finite.
LEMMA LogFinite ==
  ASSUME NEW log \in Seq(Instants), NEW S \in SUBSET DOMAIN log
  PROVE  IsFiniteSet(S) /\ Cardinality(S) \in Nat
<1>1. DOMAIN log = 1..Len(log) /\ Len(log) \in Nat
  OBVIOUS
<1>2. IsFiniteSet(DOMAIN log)
  BY <1>1, FS_Interval
<1>3. IsFiniteSet(S)
  BY <1>2, FS_Subset
<1> QED BY <1>3, FS_CardinalityType

\* The larger part of a log has more.
LEMMA LogPart ==
  ASSUME NEW log \in Seq(Instants), NEW T \in SUBSET DOMAIN log, NEW S \in SUBSET T
  PROVE  Cardinality(S) <= Cardinality(T)
BY LogFinite, FS_Subset

\* What one more entry does to a log.
Lengthened(log, at, longer) ==
  /\ longer \in Seq(Instants)
  /\ DOMAIN longer = DOMAIN log \cup {Len(log) + 1}
  /\ Len(log) + 1 \notin DOMAIN log
  /\ longer[Len(log) + 1] = at
  /\ \A n \in DOMAIN log : longer[n] = log[n] /\ log[n] \in Nat

LEMMA LogAppend ==
  ASSUME NEW log \in Seq(Instants), NEW at \in Instants
  PROVE  Lengthened(log, at, Append(log, at))
<1>0. PICK longer : longer = Append(log, at)
  OBVIOUS
<1>1. /\ longer \in Seq(Instants) /\ Len(longer) = Len(log) + 1 /\ Len(log) \in Nat
      /\ DOMAIN log = 1..Len(log) /\ DOMAIN longer = 1..(Len(log) + 1)
      /\ longer[Len(log) + 1] = at
  BY <1>0
<1>2. \A n \in 1..Len(log) : longer[n] = log[n]
  BY <1>0
<1>3. \A n \in DOMAIN log : log[n] \in Instants
  OBVIOUS
<1>4. Instants \subseteq Nat
  BY RateAssumption DEF Instants
<1>5. 1..(Len(log) + 1) = (1..Len(log)) \cup {Len(log) + 1} /\ Len(log) + 1 \notin 1..Len(log)
  BY <1>1
<1>6. DOMAIN longer = DOMAIN log \cup {Len(log) + 1} /\ Len(log) + 1 \notin DOMAIN log
  BY <1>1, <1>5
<1>7. \A n \in DOMAIN log : longer[n] = log[n] /\ log[n] \in Nat
  BY <1>1, <1>2, <1>3, <1>4
<1> QED BY <1>0, <1>1, <1>6, <1>7 DEF Lengthened

\* No stretch meets more than two windows: what is let through at the instant at, in
\* a window opened at s, lies in a stretch with its own window and those before.
LEMMA TwoWindows ==
  ASSUME NEW log \in Seq(Instants), NEW s, NEW limit \in Nat,
         Accounted(log, s, limit), NEW at \in Nat, s <= at, NEW t \in Nat, at < t + WindowLength
  PROVE  Cardinality(Stretch(log, t)) <= 2 * limit
<1> DEFINE stretch == Stretch(log, t)
           A == Since(log, s)
           B == Before(log, s)
<1>1. A \subseteq DOMAIN log /\ B \subseteq DOMAIN log /\ A \cup B \subseteq DOMAIN log
  BY DEF Since, Before
<1>2. stretch \subseteq A \cup B
  <2> SUFFICES ASSUME NEW n \in DOMAIN log, t <= log[n] PROVE n \in A \cup B
    BY DEF Stretch
  <2>1. log[n] \in Nat
    <3>1. log[n] \in Instants
      OBVIOUS
    <3> QED BY <3>1, RateAssumption DEF Instants
  <2>2. s < log[n] + WindowLength
    BY <2>1, RateAssumption DEF Accounted
  <2> QED BY <2>1, <2>2 DEF Since, Before, Accounted
<1> HIDE DEF stretch
<1>3. /\ Cardinality(A) <= limit /\ Cardinality(B) <= limit
      /\ IsFiniteSet(A) /\ IsFiniteSet(B)
      /\ Cardinality(A) \in Nat /\ Cardinality(B) \in Nat
  BY <1>1, LogFinite DEF Accounted
<1> HIDE DEF A, B
<1>4. Cardinality(A \cup B) <= Cardinality(A) + Cardinality(B)
  <2>1. /\ Cardinality(A \cup B) = Cardinality(A) + Cardinality(B) - Cardinality(A \cap B)
        /\ IsFiniteSet(A \cap B)
    BY <1>3, FS_Union, FS_Intersection
  <2>2. Cardinality(A \cap B) \in Nat
    BY <2>1, FS_CardinalityType
  <2> QED BY <1>3, <2>1, <2>2
<1>5. /\ Cardinality(stretch) <= Cardinality(A \cup B)
      /\ Cardinality(stretch) \in Nat /\ Cardinality(A \cup B) \in Nat
  BY <1>1, <1>2, LogPart, LogFinite
<1> QED BY <1>3, <1>4, <1>5 DEF stretch

\* Sweeping takes windows that are over only.
LEMMA SweptHolds ==
  ASSUME RateInv, NEW b \in Buckets, NEW s \in Nat,
         LatestWindow(window[b], admitted[b], s)
  PROVE  LatestWindow(Swept(window)[b], admitted[b], s)
<1>1. window[b] \in Window \cup {NoWindow} /\ instant \in Nat
  BY RateAssumption DEF RateInv, RateTypeOK, Instants
<1>2. CASE Swept(window)[b] = window[b]
  BY <1>2
<1>3. CASE Swept(window)[b] # window[b]
  <2>1. Swept(window)[b] = NoWindow /\ window[b] # NoWindow /\ ~ (window[b].resetAt > instant)
    BY <1>3 DEF Swept, Alive
  <2>2. window[b] \in Window /\ window[b].resetAt = s + WindowLength
    BY <1>1, <2>1 DEF LatestWindow
  <2>3. s + WindowLength <= instant
    BY <1>1, <2>1, <2>2, RateAssumption
  <2> QED BY <2>1, <2>3 DEF LatestWindow
<1> QED BY <1>2, <1>3

\* A bucket that the request is not of: its window may be swept.
LEMMA OtherBucket ==
  ASSUME RateInv, NEW b \in Buckets, BucketHolds(b), UNCHANGED instant,
         admitted'[b] = admitted[b],
         window'[b] = Swept(window)[b]
  PROVE  BucketHolds(b)'
<1>1. PICK s \in 0..instant : Accounted(admitted[b], s, Limit[b[2]])
                             /\ LatestWindow(window[b], admitted[b], s)
  BY DEF BucketHolds
<1>2. LatestWindow(Swept(window)[b], admitted[b], s)
  BY <1>1, SweptHolds
<1>3. LatestWindow(window[b], admitted[b], s)'
  BY <1>2 DEF LatestWindow
<1>4. \A t \in Instants : AdmittedFrom(b, t)' = AdmittedFrom(b, t)
  BY DEF AdmittedFrom
<1>5. Accounted(admitted[b], s, Limit[b[2]])'
  BY <1>1
<1>6. \A t \in Instants : Cardinality(AdmittedFrom(b, t)') <= 2 * Limit[b[2]]
  BY <1>4 DEF BucketHolds
<1> QED BY <1>3, <1>5, <1>6 DEF BucketHolds

\* The window that a request is counted in, its own or the one that it opens,
\* accounts for the log so far.
LEMMA WindowUsed ==
  ASSUME RateInv, NEW b \in Buckets, NEW log \in Seq(Instants), NEW limit \in Nat,
         NEW w \in [Buckets -> Window \cup {NoWindow}], NEW s \in 0..instant,
         Accounted(log, s, limit), LatestWindow(w[b], log, s)
  PROVE  \E u \in 0..instant, c \in Nat :
            /\ instant < u + WindowLength
            /\ Accounted(log, u, limit) /\ Cardinality(Since(log, u)) <= c
            /\ Opened(w, b) = [count |-> c, resetAt |-> u + WindowLength]
<1>1. /\ instant \in Nat /\ WindowLength \in Nat \ {0} /\ s \in Nat /\ s <= instant
      /\ w[b] \in Window \cup {NoWindow}
  BY RateAssumption DEF RateInv, RateTypeOK, Instants
<1>2. CASE Alive(w, b)
  <2>1. /\ w[b] \in Window /\ w[b].resetAt > instant /\ w[b].resetAt = s + WindowLength
        /\ Cardinality(Since(log, s)) <= w[b].count /\ w[b].count \in Nat
        /\ Opened(w, b) = w[b]
    BY <1>1, <1>2 DEF Alive, LatestWindow, Opened, NeedsWindow, Window
  <2>2. w[b] = [count |-> w[b].count, resetAt |-> s + WindowLength]
    BY <2>1 DEF Window
  <2> QED BY <1>1, <2>1, <2>2
<1>3. CASE ~ Alive(w, b)
  <2>1. Opened(w, b) = [count |-> 0, resetAt |-> instant + WindowLength]
    BY <1>3 DEF Opened, NeedsWindow
  <2>2. log = <<>> \/ s + WindowLength <= instant
    <3>1. CASE w[b] = NoWindow
      BY <3>1 DEF LatestWindow
    <3>2. CASE w[b] # NoWindow
      <4>1. w[b] \in Window /\ w[b].resetAt = s + WindowLength /\ ~ (w[b].resetAt > instant)
        BY <1>1, <1>3, <3>2 DEF LatestWindow, Alive
      <4> QED BY <1>1, <4>1
    <3> QED BY <3>1, <3>2
  <2>3. \A n \in DOMAIN log : log[n] \in Nat /\ log[n] < instant
    <3>1. \A n \in DOMAIN log : log[n] \in Nat /\ log[n] < s + WindowLength
      <4>1. \A n \in DOMAIN log : log[n] \in Instants
        OBVIOUS
      <4> QED BY <4>1, RateAssumption DEF Accounted, Instants
    <3>2. CASE log = <<>>
      BY <3>2
    <3>3. CASE s + WindowLength <= instant
      BY <1>1, <3>1, <3>3
    <3> QED BY <2>2, <3>2, <3>3
  <2>4. Since(log, instant) = {}
    BY <1>1, <2>3 DEF Since
  <2>5. Before(log, instant) \subseteq Since(log, s)
    <3>1. CASE log = <<>>
      BY <3>1 DEF Before
    <3>2. CASE s + WindowLength <= instant
      BY <1>1, <2>3, <3>2 DEF Before, Since
    <3> QED BY <2>2, <3>1, <3>2
  <2>6. /\ Cardinality(Before(log, instant)) <= Cardinality(Since(log, s))
        /\ Cardinality(Before(log, instant)) \in Nat /\ Cardinality(Since(log, s)) \in Nat
    <3>1. Since(log, s) \subseteq DOMAIN log
      BY DEF Since
    <3> QED BY <2>5, <3>1, LogPart, LogFinite
  <2>7. Cardinality(Since(log, instant)) = 0
    BY <2>4, FS_EmptySet
  <2>8. Accounted(log, instant, limit)
    BY <1>1, <2>3, <2>6, <2>7 DEF Accounted
  <2> QED BY <1>1, <2>1, <2>7, <2>8
<1> QED BY <1>2, <1>3

\* One more request in the window that it is counted in.
LEMMA LetThrough ==
  ASSUME NEW log \in Seq(Instants), NEW at \in Instants, NEW u \in 0..at, NEW c \in Nat,
         NEW limit \in Nat, NEW longer, Lengthened(log, at, longer),
         at < u + WindowLength, Accounted(log, u, limit),
         Cardinality(Since(log, u)) <= c, c + 1 <= limit
  PROVE  /\ Accounted(longer, u, limit) /\ Cardinality(Since(longer, u)) <= c + 1
         /\ \A t \in Instants :
              at < t + WindowLength \/ Stretch(longer, t) = Stretch(log, t)
<1>1. /\ longer \in Seq(Instants) /\ DOMAIN longer = DOMAIN log \cup {Len(log) + 1}
      /\ Len(log) + 1 \notin DOMAIN log /\ longer[Len(log) + 1] = at
      /\ \A n \in DOMAIN log : longer[n] = log[n] /\ log[n] \in Nat
  BY DEF Lengthened
<1>2. PICK last : last = Len(log) + 1
  OBVIOUS
<1>3. at \in Nat /\ u \in Nat /\ u <= at /\ WindowLength \in Nat \ {0}
  BY RateAssumption DEF Instants
<1>4. Since(longer, u) = Since(log, u) \cup {last} /\ last \notin Since(log, u)
  BY <1>1, <1>2, <1>3 DEF Since
<1>5. Before(longer, u) = Before(log, u)
  BY <1>1, <1>2, <1>3 DEF Before
<1>6. /\ IsFiniteSet(Since(log, u)) /\ Cardinality(Since(log, u)) \in Nat
  <2>1. Since(log, u) \subseteq DOMAIN log
    BY DEF Since
  <2> QED BY <2>1, LogFinite
<1>7. Cardinality(Since(longer, u)) = Cardinality(Since(log, u)) + 1
  BY <1>4, <1>6, FS_AddElement
<1>8. Cardinality(Since(longer, u)) <= c + 1 /\ Cardinality(Since(longer, u)) <= limit
  BY <1>6, <1>7
<1>9. \A n \in DOMAIN longer : longer[n] < u + WindowLength
  BY <1>1 DEF Accounted
<1>10. Accounted(longer, u, limit)
  BY <1>5, <1>8, <1>9 DEF Accounted
<1>11. ASSUME NEW t \in Instants, ~ (at < t + WindowLength)
       PROVE  Stretch(longer, t) = Stretch(log, t)
  BY <1>1, <1>11 DEF Stretch
<1> QED BY <1>8, <1>10, <1>11

\* The bucket of a request that is counted.
LEMMA CountedBucket ==
  ASSUME RateInv, NEW b \in Buckets, BucketHolds(b), Count(b)
  PROVE  BucketHolds(b)'
<1>1. PICK w, log, limit :
        w = Swept(window) /\ log = admitted[b] /\ limit = Limit[b[2]]
  OBVIOUS
<1>2. PICK at : at = instant
  OBVIOUS
<1>3. /\ w \in [Buckets -> Window \cup {NoWindow}] /\ log \in Seq(Instants)
      /\ limit \in Nat /\ at \in Instants /\ at \in Nat
      /\ admitted \in [Buckets -> Seq(Instants)]
  <2>1. w \in [Buckets -> Window \cup {NoWindow}]
    BY <1>1, SweptTable
  <2>2. b[2] \in Kinds
    BY DEF Buckets
  <2>3. limit \in Nat
    BY <1>1, <2>2, RateAssumption
  <2>4. admitted \in [Buckets -> Seq(Instants)] /\ instant \in Instants /\ instant \in Nat
    BY RateAssumption DEF RateInv, RateTypeOK, Instants
  <2> QED BY <1>1, <1>2, <2>1, <2>3, <2>4
<1>4. PICK s \in 0..instant : Accounted(log, s, limit) /\ LatestWindow(window[b], log, s)
  BY <1>1 DEF BucketHolds
<1>5. LatestWindow(w[b], log, s)
  BY <1>1, <1>4, SweptHolds
<1>6. PICK u \in 0..instant, c \in Nat :
        /\ instant < u + WindowLength
        /\ Accounted(log, u, limit) /\ Cardinality(Since(log, u)) <= c
        /\ Opened(w, b) = [count |-> c, resetAt |-> u + WindowLength]
  BY <1>3, <1>4, <1>5, WindowUsed
<1>7. /\ window'[b] = [count |-> c + 1, resetAt |-> u + WindowLength]
      /\ IF c + 1 > limit THEN admitted' = admitted
         ELSE admitted' = [admitted EXCEPT ![b] = Append(admitted[b], instant)]
      /\ instant' = instant
  BY <1>1, <1>3, <1>6 DEF Count
<1>8. PICK longer : longer = admitted'[b]
  OBVIOUS
<1>9. \A t \in Instants :
        Cardinality(Stretch(log, t)) <= 2 * limit
  BY <1>1 DEF BucketHolds, AdmittedFrom, Stretch
<1>10. /\ Accounted(longer, u, limit) /\ Cardinality(Since(longer, u)) <= c + 1
       /\ \A t \in Instants : Cardinality(Stretch(longer, t)) <= 2 * limit
  <2>1. CASE c + 1 > limit
    <3>1. longer = log
      BY <1>1, <1>7, <1>8, <2>1
    <3>2. Cardinality(Since(log, u)) \in Nat
      <4>1. Since(log, u) \subseteq DOMAIN log
        BY DEF Since
      <4> QED BY <1>3, <4>1, LogFinite
    <3> QED BY <1>6, <1>9, <3>1, <3>2
  <2>2. CASE ~ (c + 1 > limit)
    <3>1. Lengthened(log, at, longer)
      <4>1. longer = Append(log, at)
        BY <1>1, <1>2, <1>3, <1>7, <1>8, <2>2
      <4> QED BY <1>3, <4>1, LogAppend
    <3>2. c + 1 <= limit /\ u \in 0..at /\ at < u + WindowLength
      BY <1>2, <1>3, <1>6, <2>2
    <3>3. longer \in Seq(Instants)
      BY <3>1 DEF Lengthened
    <3>4. /\ Accounted(longer, u, limit) /\ Cardinality(Since(longer, u)) <= c + 1
          /\ \A t \in Instants :
               at < t + WindowLength \/ Stretch(longer, t) = Stretch(log, t)
      BY <1>3, <1>6, <3>1, <3>2, LetThrough
    <3>5. ASSUME NEW t \in Instants
          PROVE  Cardinality(Stretch(longer, t)) <= 2 * limit
      <4>1. t \in Nat
        BY RateAssumption DEF Instants
      <4>2. CASE at < t + WindowLength
        <5>1. u <= at /\ u \in Nat
          BY <1>3, <3>2
        <5> QED BY <1>3, <3>3, <3>4, <4>1, <4>2, <5>1, TwoWindows
      <4>3. CASE ~ (at < t + WindowLength)
        BY <1>9, <3>4, <4>3
      <4> QED BY <4>2, <4>3
    <3> QED BY <3>4, <3>5
  <2> QED BY <2>1, <2>2
<1>11. LatestWindow(window[b], admitted[b], u)'
  <2>1. window'[b] # NoWindow
    BY <1>3, <1>7, RateAssumption DEF Instants
  <2> QED BY <1>7, <1>8, <1>10, <2>1 DEF LatestWindow
<1>12. Accounted(admitted[b], u, Limit[b[2]])' /\ u \in 0..instant'
  BY <1>1, <1>7, <1>8, <1>10
<1>13. \A t \in Instants : Cardinality(AdmittedFrom(b, t)') <= 2 * Limit[b[2]]
  BY <1>1, <1>8, <1>10 DEF AdmittedFrom, Stretch
<1> QED BY <1>11, <1>12, <1>13 DEF BucketHolds

\* Every step keeps every bucket accounted for.
LEMMA LimitNextStep ==
  ASSUME LimitInv, [RateNext]_rateVars
  PROVE  LimitInv'
<1>1. RateInv /\ RateInv'
  BY RateNextStep DEF LimitInv
<1>2. ASSUME NEW b \in Buckets PROVE BucketHolds(b)'
  <2>1. BucketHolds(b)
    BY DEF LimitInv
  <2>2. CASE UNCHANGED rateVars
    BY <2>1, <2>2 DEF rateVars, BucketHolds, LatestWindow, AdmittedFrom
  <2>3. CASE Passes
    <3>1. PICK s \in 0..instant : Accounted(admitted[b], s, Limit[b[2]])
                                 /\ LatestWindow(window[b], admitted[b], s)
      BY <2>1 DEF BucketHolds
    <3>2. /\ instant \in Nat /\ instant' = instant + 1 /\ window' = window
          /\ admitted' = admitted /\ s + WindowLength \in Nat
      BY <1>1, <2>3, RateAssumption DEF Passes, RateInv, RateTypeOK, Instants
    <3>3. LatestWindow(window[b], admitted[b], s)' /\ s \in 0..instant'
      BY <3>1, <3>2 DEF LatestWindow
    <3>4. Accounted(admitted[b], s, Limit[b[2]])'
      BY <3>1, <3>2
    <3>5. \A t \in Instants : Cardinality(AdmittedFrom(b, t)') <= 2 * Limit[b[2]]
      BY <2>1, <3>2 DEF BucketHolds, AdmittedFrom
    <3> QED BY <3>3, <3>4, <3>5 DEF BucketHolds
  <2>4. CASE \E c \in Buckets : TurnAway(c)
    <3>1. UNCHANGED <<instant, admitted>> /\ window' = Swept(window)
      BY <2>4 DEF TurnAway
    <3> QED BY <1>1, <2>1, <3>1, OtherBucket
  <2>5. ASSUME NEW c \in Buckets, Count(c) PROVE BucketHolds(b)'
    <3>1. CASE c = b
      BY <1>1, <2>1, <2>5, <3>1, CountedBucket
    <3>2. CASE c # b
      <4>1. /\ UNCHANGED instant /\ DOMAIN admitted = Buckets
            /\ DOMAIN Swept(window) = Buckets
        BY <1>1, <2>5, SweptTable DEF Count, RateInv, RateTypeOK
      <4>2. admitted'[b] = admitted[b] /\ window'[b] = Swept(window)[b]
        BY <2>5, <3>2, <4>1 DEF Count
      <4> QED BY <1>1, <2>1, <4>1, <4>2, OtherBucket
    <3> QED BY <3>1, <3>2
  <2> QED BY <2>2, <2>3, <2>4, <2>5 DEF RateNext
<1> QED BY <1>1, <1>2 DEF LimitInv

LEMMA LimitInitStep ==
  ASSUME RateInit
  PROVE  LimitInv
<1>1. RateInv
  BY RateInitStep
<1>2. ASSUME NEW b \in Buckets PROVE BucketHolds(b)
  <2>1. admitted[b] = <<>> /\ window[b] = NoWindow /\ instant = 0
    BY DEF RateInit
  <2>2. Limit[b[2]] \in Nat
    BY RateAssumption DEF Buckets
  <2>3. Since(<<>>, 0) = {} /\ Before(<<>>, 0) = {}
    BY DEF Since, Before
  <2>4. Accounted(<<>>, 0, Limit[b[2]])
    <3>1. Cardinality(Since(<<>>, 0)) = 0 /\ Cardinality(Before(<<>>, 0)) = 0
      BY <2>3, FS_EmptySet
    <3>2. \A n \in DOMAIN <<>> : <<>>[n] < 0 + WindowLength
      OBVIOUS
    <3> QED BY <2>2, <3>1, <3>2 DEF Accounted
  <2>5. \A t \in Instants : AdmittedFrom(b, t) = {}
    BY <2>1 DEF AdmittedFrom
  <2>6. \A t \in Instants : Cardinality(AdmittedFrom(b, t)) <= 2 * Limit[b[2]]
    BY <2>2, <2>5, FS_EmptySet
  <2>7. LatestWindow(window[b], admitted[b], 0) /\ 0 \in 0..instant
    BY <2>1 DEF LatestWindow
  <2> QED BY <2>1, <2>4, <2>6, <2>7 DEF BucketHolds
<1> QED BY <1>1, <1>2 DEF LimitInv

\* The middleware's window is fixed: two of them meet in a stretch at most, so no
\* stretch as long as one lets more than twice the limit through; and the table
\* keeps to its bound without turning anybody away for windows that are over.
THEOREM LimitsKept == RateSpec => []LimitsHold
<1>1. RateInit => LimitInv
  BY LimitInitStep
<1>2. LimitInv /\ [RateNext]_rateVars => LimitInv'
  BY LimitNextStep
<1>3. LimitInv => LimitsHold
  BY DEF LimitInv, RateInv, BucketHolds, LimitsHold, LimitIsKept
<1> QED BY <1>1, <1>2, <1>3, PTL DEF RateSpec

-----------------------------------------------------------------------------
(* The shared run.                                                         *)

\* What becomes of a posted form names its table and has one of three answers.
LEMMA OutcomeType ==
  ASSUME NEW t, NEW r, NEW patches
  PROVE  /\ Outcome(t, r, patches).table = t
         /\ Outcome(t, r, patches).answer \in {"refused", "taken", "failed"}
         /\ Outcome(t, r, patches).patches = patches
<1>1. CASE ~Admits(t, r)
  BY <1>1 DEF Outcome
<1>2. CASE Admits(t, r)
  <2>1. PICK into, row, answer :
          /\ answer \in {"taken", "failed"}
          /\ Outcome(t, r, patches) = [table |-> t, answer |-> answer, sent |-> into,
                                       row |-> row, patches |-> patches]
    BY <1>2 DEF Outcome
  <2> QED BY <2>1
<1> QED BY <1>1, <1>2

\* A patch is counted, and answered in one of the three ways.
LEMMA AmendType ==
  ASSUME NEW sent, Amend(sent)
  PROVE  /\ desk'.table = desk.table
         /\ desk'.answer \in {"refused", "taken", "failed"}
         /\ desk'.patches = desk.patches + 1
<1>1. CASE desk' = [table |-> desk.table, answer |-> "refused", patches |-> desk.patches + 1]
  BY <1>1
<1>2. CASE \E answer \in {"taken", "failed"} : \E after, row :
             desk' = [table |-> desk.table, answer |-> answer, sent |-> after, row |-> row,
                      patches |-> desk.patches + 1]
  <2>1. PICK answer \in {"taken", "failed"} : \E after, row :
             desk' = [table |-> desk.table, answer |-> answer, sent |-> after, row |-> row,
                      patches |-> desk.patches + 1]
    BY <1>2
  <2> QED BY <2>1
<1> QED BY <1>1, <1>2 DEF Amend

\* A sheet names its page, and what became of it.
LEMMA SheetType ==
  ASSUME NEW page \in DOMAIN Pages \cup {"none"}, NEW of \in {"new", "row"},
         NEW as \in {"shown", "changed", "kept"}, NEW body
  PROVE  /\ Sheet(page, of, as, body).page \in DOMAIN Pages \cup {"none"}
         /\ Sheet(page, of, as, body).of \in {"new", "row"}
         /\ Sheet(page, of, as, body).as \in {"shown", "changed", "kept"}
BY DEF Sheet

\* The desk and the sheet keep their types (RecordAdmission!AdmissionTypeOK).
LEMMA AdmissionTyped == AdmissionInit /\ [][AdmissionNext]_admissionVars => []AdmissionTypeOK
<1>1. AdmissionInit => AdmissionTypeOK
  BY AdmissionAssumption DEF AdmissionInit, NoSheet, AdmissionTypeOK
<1>2. AdmissionTypeOK /\ [AdmissionNext]_admissionVars => AdmissionTypeOK'
  <2> DEFINE SheetKept == /\ sheet'.page \in DOMAIN Pages \cup {"none"}
                          /\ sheet' # NoSheet => /\ sheet'.of \in {"new", "row"}
                                                /\ sheet'.as \in {"shown", "changed", "kept"}
  <2> SUFFICES ASSUME AdmissionTypeOK, [AdmissionNext]_admissionVars
               PROVE  AdmissionTypeOK'
    OBVIOUS
  <2>1. UNCHANGED sheet => SheetKept
    BY DEF AdmissionTypeOK
  <2>2. ASSUME NEW p \in DOMAIN Pages \cup {"none"}, NEW of \in {"new", "row"},
               NEW as \in {"shown", "changed", "kept"}, NEW body,
               sheet' = Sheet(p, of, as, body)
        PROVE  SheetKept
    <3>1. sheet'.page \in DOMAIN Pages \cup {"none"}
      BY <2>2, SheetType
    <3>2. sheet'.of \in {"new", "row"}
      BY <2>2, SheetType
    <3>3. sheet'.as \in {"shown", "changed", "kept"}
      BY <2>2, SheetType
    <3> QED BY <3>1, <3>2, <3>3
  <2>3. sheet.page \in DOMAIN Pages \cup {"none"}
    BY DEF AdmissionTypeOK
  <2> HIDE DEF SheetKept
  <2>4. UNCHANGED desk /\ SheetKept => AdmissionTypeOK'
    BY DEF AdmissionTypeOK, SheetKept
  <2>5. ASSUME NEW r, desk' = Outcome(desk.table, r, 0), SheetKept
        PROVE  AdmissionTypeOK'
    BY <2>5, OutcomeType, AdmissionAssumption DEF AdmissionTypeOK, SheetKept
  <2>6. ASSUME NEW sent, Amend(sent), desk.patches < MaxPatches, SheetKept
        PROVE  AdmissionTypeOK'
    BY <2>6, AmendType, AdmissionAssumption DEF AdmissionTypeOK, SheetKept
  <2>7. CASE UNCHANGED admissionVars
    BY <2>1, <2>4, <2>7 DEF admissionVars
  <2>8. CASE Posted /\ UNCHANGED sheet
    <3>1. PICK r : desk' = Outcome(desk.table, r, 0)
      BY <2>8 DEF Posted, Post
    <3> QED BY <2>1, <2>5, <2>8, <3>1
  <2>9. CASE \E p \in DOMAIN Pages : Open(p)
    <3>1. PICK p \in DOMAIN Pages : Open(p)
      BY <2>9
    <3>2. PICK body : sheet' = Sheet(p, "new", "shown", body)
      BY <3>1 DEF Open
    <3> QED BY <2>2, <2>4, <3>1, <3>2 DEF Open
  <2>10. CASE Submitted
    <3>1. PICK x : Submit(x)
      BY <2>10 DEF Submitted
    <3>2. PICK r, body : desk' = Outcome(desk.table, r, 0)
                         /\ sheet' = Sheet(sheet.page, "new", "changed", body)
      BY <3>1 DEF Submit
    <3>3. SheetKept
      BY <2>2, <2>3, <3>2
    <3> QED BY <2>5, <3>2, <3>3
  <2>11. CASE Amended /\ desk.patches < MaxPatches /\ UNCHANGED sheet
    <3>1. PICK sent : Amend(sent)
      BY <2>11 DEF Amended
    <3> QED BY <2>1, <2>6, <2>11, <3>1
  <2>12. CASE \E p \in DOMAIN Pages : Show(p)
    <3>1. PICK p \in DOMAIN Pages : Show(p)
      BY <2>12
    <3>2. PICK body : sheet' = Sheet(p, "row", "shown", body)
      BY <3>1 DEF Show
    <3> QED BY <2>2, <2>4, <3>1, <3>2 DEF Show
  <2>13. CASE Saved /\ desk.patches < MaxPatches
    <3>1. PICK body : Save(body)
      BY <2>13 DEF Saved
    <3>2. PICK as \in {"changed", "kept"} : sheet' = Sheet(sheet.page, "row", as, body)
      BY <3>1 DEF Save
    <3>3. SheetKept
      BY <2>2, <2>3, <3>2
    <3> QED BY <2>6, <2>13, <3>1, <3>3 DEF Save
  <2> QED BY <2>7, <2>8, <2>9, <2>10, <2>11, <2>12, <2>13 DEF AdmissionNext
<1> QED BY <1>1, <1>2, PTL

\* A behaviour of the shared run is a behaviour of each of its components, whichever
\* of them moves: what is proved of a component holds in the run.
THEOREM PlanningRunsItsParts ==
  MCSpec => /\ FreightSpec /\ MasterSpec /\ RateSpec
            /\ AdmissionInit /\ [][AdmissionNext]_admissionVars
<1>1. MCInit => FreightInit /\ MasterInit /\ RateInit /\ AdmissionInit
  BY DEF MCInit
<1>2. [MCNext]_<<part, freightVars, masterVars, rateVars, admissionVars>> =>
        /\ [FreightNext]_freightVars
        /\ [MasterNext]_masterVars
        /\ [RateNext]_rateVars
        /\ [AdmissionNext]_admissionVars
  BY DEF MCNext
<1> QED BY <1>1, <1>2, PTL DEF MCSpec, FreightSpec, MasterSpec, RateSpec

\* Every row, pending call, window and form keeps its type (MCPlanning!PlanningTypeOK).
THEOREM PlanningTyped == MCSpec => []PlanningTypeOK
<1>1. FreightInv => FreightTypeOK
  BY DEF FreightInv
<1>2. MasterInv => MasterTypeOK
  BY DEF MasterInv
<1>3. RateSpec => []RateTypeOK
  <2>1. RateInit => RateInv
    BY RateInitStep
  <2>2. RateInv /\ [RateNext]_rateVars => RateInv'
    BY RateNextStep
  <2>3. RateInv => RateTypeOK
    BY DEF RateInv
  <2> QED BY <2>1, <2>2, <2>3, PTL DEF RateSpec
<1>4. FreightTypeOK /\ MasterTypeOK /\ RateTypeOK /\ AdmissionTypeOK <=> PlanningTypeOK
  BY DEF PlanningTypeOK
<1> QED BY <1>1, <1>2, <1>3, <1>4, PlanningRunsItsParts, FreightInvariant, MasterInvariant,
           AdmissionTyped, PTL
================================================================================
