----------------------------- MODULE FreightDemand -----------------------------
(***************************************************************************)
(* What a transport request asks for: its two ends, the profile of its     *)
(* cargo, its itinerary, its commercial terms and their history, the       *)
(* normalised rows below it, and the tenant's catalogue of lanes.          *)
(*                                                                         *)
(* The module is about one request: requests share nothing but the lanes.  *)
(* A call reads what it checks, and writes and commits later without       *)
(* checking again; only the keys and checks of the tables hold in between. *)
(***************************************************************************)
EXTENDS Naturals, FiniteSets, Sequences

CONSTANTS
  Points,     \* active addresses of the shipper, the consignee and others
  Profiles,   \* contents of a cargo profile
  Prices,     \* contents of the commercial terms
  Keys,       \* what a sequence, a code or a type and value is unique by
  ChildIds,   \* rows of one normalised table
  Lanes,      \* codes of freight lanes
  Cities,
  PlanCalls,  \* calls in flight together
  MaxStops,   \* the longest itinerary (50 in the code)
  Nothing

ASSUME FreightAssumption ==
  /\ Cardinality(Points) >= 2
  /\ MaxStops \in Nat /\ MaxStops >= 2
  /\ Nothing \notin Keys

VARIABLES
  request,   \* status, origin and destination of the request
  profile,   \* the cargo profile, or Nothing
  stops,     \* rows of transport_request_stops; rows alike are one
  terms,     \* the commercial terms, or NoTerms
  history,   \* rows of transport_request_commercial_history
  children,  \* rows of the normalised tables
  lane,      \* the two cities of each lane, or NoLane
  planCall   \* what each call has read and is about to write

freightVars == <<request, profile, stops, terms, history, children, lane, planCall>>

Planning == {"draft", "ready_for_quote"}
Demand == [status: Planning \cup {"in_negotiation", "contracted"},
           origin: Points, destination: Points]

StopType == {"pickup", "delivery", "support"}
Stop == [sequence: 1..MaxStops, type: StopType, point: Points]
\* An itinerary as it is sent: numbered in order, from a pickup to a delivery.
Itineraries ==
  {s \in UNION {[1..n -> [type: StopType, point: Points]] : n \in 2..MaxStops} :
     s[1].type = "pickup" /\ s[Len(s)].type = "delivery"}

TermsStatus == {"draft", "pending_approval", "approved", "rejected"}
NoTerms == [version |-> 0, status |-> "none", value |-> Nothing]
Terms == [version: Nat \ {0}, status: TermsStatus, value: Prices]
Entry == [version: Nat \ {0}, event: {"created", "updated", "submitted", "approved", "rejected"},
          status: TermsStatus, value: Prices]

NoChild == [key |-> Nothing, item |-> Nothing]
Items == [key: Keys, item: {Nothing}]
Packages == [key: Keys, item: ChildIds \cup {Nothing}]
Requirements == [key: Keys, item: {Nothing}]
References == [key: Keys, item: {Nothing}]
RowsOf == [items |-> Items, packages |-> Packages,
           requirements |-> Requirements, references |-> References]
Tables == DOMAIN RowsOf

NoLane == [origin |-> Nothing, destination |-> Nothing]
Lane == [origin: Cities, destination: Cities]

NoPlanCall == [op |-> "none"]
PlanPending ==
  {NoPlanCall}
    \cup [op: {"request"}, to: Demand]
    \cup [op: {"profile"}, to: Profiles]
    \cup [op: {"route"}, to: Itineraries, late: BOOLEAN]
    \cup [op: {"terms"}, to: Prices, seen: Nat]
    \cup [op: {"status"}, to: TermsStatus \ {"draft"}]
    \cup [op: {"lane"}, code: Lanes, column: {"origin", "destination"}, to: Cities]

FreightTypeOK ==
  /\ request \in Demand
  /\ profile \in Profiles \cup {Nothing}
  /\ stops \subseteq Stop
  /\ terms \in Terms \cup {NoTerms}
  /\ history \subseteq Entry
  /\ DOMAIN children = Tables
  /\ \A t \in Tables : children[t] \in [ChildIds -> RowsOf[t] \cup {NoChild}]
  /\ lane \in [Lanes -> Lane \cup {NoLane}]
  /\ planCall \in [PlanCalls -> PlanPending]

\* A request is created in planning, with two ends.
FreightInit ==
  /\ request \in {d \in Demand : d.status \in Planning /\ d.origin # d.destination}
  /\ profile = Nothing
  /\ stops = {}
  /\ terms = NoTerms
  /\ history = {}
  /\ children = [t \in Tables |-> [c \in ChildIds |-> NoChild]]
  /\ lane = [l \in Lanes |-> NoLane]
  /\ planCall = [k \in PlanCalls |-> NoPlanCall]

Plans(k, ready, pending) ==
  /\ planCall[k] = NoPlanCall
  /\ ready
  /\ planCall' = [planCall EXCEPT ![k] = pending]
  /\ UNCHANGED <<request, profile, stops, terms, history, children, lane>>

Planned(k) == planCall' = [planCall EXCEPT ![k] = NoPlanCall]
InPlanning == request.status \in Planning

-----------------------------------------------------------------------------
(* The request, its cargo profile and its itinerary *)

\* The contract that is confirmed, or cancelled, on the request.
Negotiates ==
  /\ request' = [request EXCEPT !.status =
                   IF @ = "contracted" THEN "in_negotiation" ELSE "contracted"]
  /\ request.status # "draft"
  /\ UNCHANGED <<profile, stops, terms, history, children, lane, planCall>>

\* The merged row keeps what the patch leaves out as it was read.
CheckReplan(k) ==
  \E to \in Demand :
    Plans(k, /\ request.status # "contracted"
             /\ to.origin # to.destination
             /\ to.status = request.status \/ (InPlanning /\ to.status \in Planning),
          [op |-> "request", to |-> to])

Replan(k) ==
  /\ planCall[k].op = "request"
  /\ request' = planCall[k].to
  /\ Planned(k)
  /\ UNCHANGED <<profile, stops, terms, history, children, lane>>

CheckProfile(k) ==
  \E to \in Profiles : Plans(k, InPlanning, [op |-> "profile", to |-> to])

\* INSERT ... ON CONFLICT DO UPDATE.
WriteProfile(k) ==
  /\ planCall[k].op = "profile"
  /\ profile' = planCall[k].to
  /\ Planned(k)
  /\ UNCHANGED <<request, stops, terms, history, children, lane>>

\* The first and the last stop are the ends of the request as it was read.
CheckRoute(k) ==
  \E to \in Itineraries :
    Plans(k, /\ InPlanning
             /\ to[1].point = request.origin
             /\ to[Len(to)].point = request.destination,
          [op |-> "route", to |-> to, late |-> FALSE])

Numbered(itinerary) ==
  {[sequence |-> i, type |-> itinerary[i].type, point |-> itinerary[i].point] :
     i \in DOMAIN itinerary}

\* Fault: the numbers of the stops of a request are not unique.
TakenNumbersFree(k) == planCall[k].late /\ FALSE

\* The DELETE of a call sees the rows committed when it starts.  A route committed
\* later is not deleted and its numbers are taken: the insert fails, all rolls back.
TakenNumbers(k) == planCall[k].late

ReplaceRoute(k) ==
  /\ planCall[k].op = "route"
  /\ ~TakenNumbers(k)
  /\ stops' = Numbered(planCall[k].to) \cup (IF planCall[k].late THEN stops ELSE {})
  /\ \E begun \in SUBSET {j \in PlanCalls \ {k} : planCall[j].op = "route"} :
       planCall' = [j \in PlanCalls |->
         IF j = k THEN NoPlanCall
         ELSE IF j \in begun THEN [planCall[j] EXCEPT !.late = TRUE]
         ELSE planCall[j]]
  /\ UNCHANGED <<request, profile, terms, history, children, lane>>

RouteConflicts(k) ==
  /\ planCall[k].op = "route"
  /\ TakenNumbers(k)
  /\ Planned(k)
  /\ UNCHANGED <<request, profile, stops, terms, history, children, lane>>

-----------------------------------------------------------------------------
(* Commercial terms *)

\* Fault: terms are edited whatever their status.
CheckTermsAlways(k) ==
  \E to \in Prices :
    Plans(k, InPlanning, [op |-> "terms", to |-> to, seen |-> terms.version])

CheckTerms(k) ==
  \E to \in Prices :
    Plans(k, /\ InPlanning
             /\ terms.status \in {"none", "draft", "rejected"},
          [op |-> "terms", to |-> to, seen |-> terms.version])

\* Fault: the history admits a version twice.
VersionTakenNever(v) == v = 0

\* One entry of the history for each version of the terms.
VersionTaken(v) == \E e \in history : e.version = v

\* The first terms are inserted, at most once; later ones take the number after
\* the version that was read.
EditCommits(k) ==
  /\ planCall[k].seen = 0 => terms = NoTerms
  /\ ~VersionTaken(planCall[k].seen + 1)

Records(row, event) ==
  /\ terms' = row
  /\ history' = history \cup {[version |-> row.version, event |-> event,
                               status |-> row.status, value |-> row.value]}

WriteTerms(k) ==
  /\ planCall[k].op = "terms"
  /\ EditCommits(k)
  /\ Records([version |-> planCall[k].seen + 1, status |-> "draft", value |-> planCall[k].to],
             IF planCall[k].seen = 0 THEN "created" ELSE "updated")
  /\ Planned(k)
  /\ UNCHANGED <<request, profile, stops, children, lane>>

TermsConflict(k) ==
  /\ planCall[k].op = "terms"
  /\ ~EditCommits(k)
  /\ Planned(k)
  /\ UNCHANGED <<request, profile, stops, terms, history, children, lane>>

\* Submitted from a draft or a rejection, decided when submitted.
CheckTermsStatus(k) ==
  \E to \in TermsStatus \ {"draft"} :
    Plans(k, /\ InPlanning
             /\ terms # NoTerms
             /\ terms.status \in IF to = "pending_approval" THEN {"draft", "rejected"}
                                 ELSE {"pending_approval"},
          [op |-> "status", to |-> to])

\* version + 1 of the row as it is when it is locked.
WriteTermsStatus(k) ==
  /\ planCall[k].op = "status"
  /\ ~VersionTaken(terms.version + 1)
  /\ Records([terms EXCEPT !.status = planCall[k].to, !.version = @ + 1],
             IF planCall[k].to = "pending_approval" THEN "submitted" ELSE planCall[k].to)
  /\ Planned(k)
  /\ UNCHANGED <<request, profile, stops, children, lane>>

-----------------------------------------------------------------------------
(* Normalised rows, in any status of the request *)

Present(t) == {c \in ChildIds : children[t][c] # NoChild}
Unique(t, c, row) == \A d \in Present(t) \ {c} : children[t][d].key # row.key
\* The item of a package is a row of the same request.
HoldsItem(row) == row.item \in Present("items") \cup {Nothing}

SetChild(t, c, row) ==
  /\ children' = [children EXCEPT ![t][c] = row]
  /\ UNCHANGED <<request, profile, stops, terms, history, lane, planCall>>

CreateChild(t, c) ==
  \E row \in RowsOf[t] :
    /\ children[t][c] = NoChild
    /\ Unique(t, c, row) /\ HoldsItem(row)
    /\ SetChild(t, c, row)

\* Only the columns of the patch are written.
UpdateChild(t, c) ==
  \E row \in RowsOf[t] :
    /\ children[t][c] # NoChild
    /\ row.key = children[t][c].key \/ row.item = children[t][c].item
    /\ Unique(t, c, row) /\ HoldsItem(row)
    /\ SetChild(t, c, row)

\* Fault: the package keeps the item it held.
DeletableAlways(t, c) == t \in Tables

\* An item that a package holds is not deleted.
Deletable(t, c) ==
  t = "items" => \A p \in Present("packages") : children["packages"][p].item # c

DeleteChild(t, c) ==
  /\ children[t][c] # NoChild
  /\ Deletable(t, c)
  /\ SetChild(t, c, NoChild)

-----------------------------------------------------------------------------
(* Freight lanes *)

CreateLane(l) ==
  \E row \in Lane :
    /\ lane[l] = NoLane
    /\ row.origin # row.destination
    /\ lane' = [lane EXCEPT ![l] = row]
    /\ UNCHANGED <<request, profile, stops, terms, history, children, planCall>>

CheckLane(k, l) ==
  \E column \in {"origin", "destination"}, to \in Cities :
    Plans(k, /\ lane[l] # NoLane
             /\ LET merged == [lane[l] EXCEPT ![column] = to]
                IN merged.origin # merged.destination,
          [op |-> "lane", code |-> l, column |-> column, to |-> to])

PatchedLane(k) == [lane[planCall[k].code] EXCEPT ![planCall[k].column] = planCall[k].to]
\* Fault: the table does not check the two cities.
DistinctCitiesUnchecked(row) == row \in Lane

DistinctCities(row) == row.origin # row.destination

WriteLane(k) ==
  /\ planCall[k].op = "lane"
  /\ DistinctCities(PatchedLane(k))
  /\ lane' = [lane EXCEPT ![planCall[k].code] = PatchedLane(k)]
  /\ Planned(k)
  /\ UNCHANGED <<request, profile, stops, terms, history, children>>

LaneRefused(k) ==
  /\ planCall[k].op = "lane"
  /\ ~DistinctCities(PatchedLane(k))
  /\ Planned(k)
  /\ UNCHANGED <<request, profile, stops, terms, history, children, lane>>

-----------------------------------------------------------------------------
FreightNext ==
  \/ Negotiates
  \/ \E k \in PlanCalls :
       \/ CheckReplan(k) \/ Replan(k)
       \/ CheckProfile(k) \/ WriteProfile(k)
       \/ CheckRoute(k) \/ ReplaceRoute(k) \/ RouteConflicts(k)
       \/ CheckTerms(k) \/ WriteTerms(k) \/ TermsConflict(k)
       \/ CheckTermsStatus(k) \/ WriteTermsStatus(k)
       \/ WriteLane(k) \/ LaneRefused(k)
       \/ \E l \in Lanes : CheckLane(k, l)
  \/ \E t \in Tables, c \in ChildIds :
       CreateChild(t, c) \/ UpdateChild(t, c) \/ DeleteChild(t, c)
  \/ \E l \in Lanes : CreateLane(l)

FreightSpec == FreightInit /\ [][FreightNext]_freightVars

-----------------------------------------------------------------------------
(* Properties *)

\* What is planned holds together: the stops are one itinerary, numbered once each
\* and from a pickup to a delivery, although two replacements of a route do not
\* wait for each other; every package that names an item names one that exists;
\* a lane joins two cities although two patches may each set one of them.
PlanHoldsTogether ==
  /\ stops = {} \/ \E s \in Itineraries : stops = Numbered(s)
  /\ \A p \in Present("packages") : HoldsItem(children["packages"][p])
  /\ \A l \in Lanes : lane[l] # NoLane => lane[l].origin # lane[l].destination

\* Every version the terms went through has one entry in their history, and the
\* last entry is what the terms are: edits and decisions that read the same
\* version cannot both be kept.
HistoryTellsTerms ==
  /\ {e.version : e \in history} = 1..terms.version
  /\ Cardinality(history) = terms.version
  /\ \A e \in history : e.version = terms.version =>
       e.status = terms.status /\ e.value = terms.value

\* Terms that wait for a decision, or were approved, are never edited: an edit
\* that read them as a draft, and commits after they were submitted, is refused
\* by the version it takes.
DecidedAsSubmitted ==
  [][terms # NoTerms /\ terms'.value # terms.value
       => terms.status \in {"draft", "rejected"}]_freightVars
=============================================================================
