----------------------------- MODULE TripRecords -----------------------------
(***************************************************************************)
(* What is recorded about a trip while it runs: events, positions,         *)
(* documents, costs, proofs, deliveries and occurrences.  The trip is read *)
(* without a lock and the row is written afterwards, so a call is the step *)
(* that checks and the step that writes; only an occurrence is taken FOR   *)
(* UPDATE.  The check-ins and checklists of the same service are in        *)
(* TripLifecycle, which moves the trips that are only read here.           *)
(*                                                                         *)
(* A row's created_at is now(), the start of its call's transaction, and   *)
(* lists are read by it: a call that waits for an occurrence commits after *)
(* rows that are read behind its own.  A report is what makes an occurrence*)
(* known, so it began before every other call about it.                    *)
(***************************************************************************)
EXTENDS Integers, Sequences, FiniteSets

CONSTANTS Journeys,        \* trips
          PickupStops, DeliveryStops, \* stops, the same ones on every trip
          NoStop,
          Papers,          \* documents of the tenant
          Relations,       \* what a document is to a trip (relation_type)
          ProviderEvents,  \* identifiers of tracking events
          Nowhere,         \* the event has not been ingested
          Occurrences, Responsibles, Nobody,
          RecordCalls, NoRecord,
          MaxRecords,      \* bound: costs of a trip, and proofs
          CallStarts       \* values of now(), 0 for the report; bound of a history

(* A row without a stop (NULL) is at no stop of the trip.                   *)
ASSUME RecordAssumption == /\ NoStop \notin PickupStops \cup DeliveryStops
                           /\ CallStarts \subseteq Nat \ {0}

VARIABLES journey,     \* [Journeys -> trip status]
          sighting,    \* [ProviderEvents -> the trip it placed, or Nowhere]
          paper,       \* [Journeys -> SUBSET of linked documents]
          cost,        \* [Journeys -> Seq(CostRow)]
          proof,       \* [Journeys -> Seq(ProofRow)]
          delivered,   \* [Journeys -> set of delivery proofs]
          occurrence,  \* [Occurrences -> OccurrenceRow]
          record       \* [RecordCalls -> NoRecord or a row to write]

recordVars == <<journey, sighting, paper, cost, proof, delivered, occurrence, record>>

StopsOfTrip == PickupStops \cup DeliveryStops

(* The same document may be linked to one stop under one relation and to   *)
(* another stop, or to none, under another.                                *)
PaperRow == [paper : Papers, relation : Relations, stop : StopsOfTrip \cup {NoStop}]

CostRow == [kind : {"expense", "toll", "fuel"},
            status : {"reported", "approved", "rejected", "voided"}]

(* trip_document_id: the link, by what is unique of it.                    *)
ProofRow == [type : {"pickup", "delivery", "other"}, paper : Papers, relation : Relations,
             stop : StopsOfTrip \cup {NoStop}]

HistoryRow == [at : {0} \cup CallStarts,
               from : {"none", "open", "resolved"}, to : {"none", "open", "resolved"},
               responsible : Responsibles \cup {Nobody}]

NoOccurrence == [trip |-> Nowhere, status |-> "absent", responsible |-> Nobody,
                 resolved |-> FALSE, history |-> {}, papers |-> {}]

RecordInit ==
    /\ journey = [t \in Journeys |-> "ready"]
    /\ sighting = [e \in ProviderEvents |-> Nowhere]
    /\ paper = [t \in Journeys |-> {}]
    /\ cost = [t \in Journeys |-> <<>>]
    /\ proof = [t \in Journeys |-> <<>>]
    /\ delivered = [t \in Journeys |-> {}]
    /\ occurrence = [o \in Occurrences |-> NoOccurrence]
    /\ record = [k \in RecordCalls |-> NoRecord]

-----------------------------------------------------------------------------
Running(t) == journey[t] \in {"ready", "in_transit"}
NotEnded(t) == journey[t] \notin {"completed", "cancelled"}
NotCancelled(t) == journey[t] # "cancelled"

RowsUnchanged == UNCHANGED <<journey, sighting, paper, cost, proof, delivered, occurrence>>

Check(k, what) == /\ record[k] = NoRecord
                  /\ record' = [record EXCEPT ![k] = what]
                  /\ RowsUnchanged

(* A position of a tracking provider; an event is a row like it that has   *)
(* no identifier and nothing reads.                                        *)
CheckLocation(k, t, e) ==
    /\ Running(t)
    /\ Check(k, [op |-> "locate", trip |-> t, event |-> e])

CheckLinkDocument(k, t, row) ==
    /\ NotEnded(t)
    /\ Check(k, [op |-> "link", trip |-> t, row |-> row])

CheckCost(k, t, kind) ==
    /\ NotCancelled(t)
    /\ Len(cost[t]) < MaxRecords
    /\ Check(k, [op |-> "spend", trip |-> t, row |-> [kind |-> kind, status |-> "reported"]])

CheckExpenseStatus(k, t, i, status) ==
    /\ NotCancelled(t)
    /\ cost[t][i].kind = "expense"
    /\ Check(k, [op |-> "review", trip |-> t, cost |-> i, status |-> status])

Names(row, link) == row.paper = link.paper /\ row.relation = link.relation

(* A slip: the guard looks at the stop and not at the document.            *)
ProofStopGuard(t, row) ==
    row.type \in {"pickup", "delivery"} =>
        row.stop \in (IF row.type = "pickup" THEN PickupStops ELSE DeliveryStops)

(* nexora_trip_proof_stop_integrity_guard: a pickup or a delivery is proved*)
(* at a stop of its kind, by a link to that stop or to no stop.            *)
ProofGuard(t, row) ==
    row.type \in {"pickup", "delivery"} =>
        /\ row.stop \in (IF row.type = "pickup" THEN PickupStops ELSE DeliveryStops)
        /\ \A link \in paper[t] : Names(row, link) => link.stop \in {NoStop, row.stop}

CheckProof(k, t, row) ==
    /\ NotEnded(t)
    /\ Len(proof[t]) < MaxRecords
    /\ \E link \in paper[t] : Names(row, link)
    /\ ProofGuard(t, row)
    /\ Check(k, [op |-> "prove", trip |-> t, row |-> row])

CheckDeliveryProof(k, t, stop, i) ==
    /\ NotEnded(t)
    /\ stop \in DeliveryStops
    /\ proof[t][i].type = "delivery"
    /\ proof[t][i].stop \in {NoStop, stop}
    /\ Check(k, [op |-> "deliver", trip |-> t, row |-> [stop |-> stop, proof |-> i]])

-----------------------------------------------------------------------------
(* A slip: requireOccurrence without its lock.                             *)
OccurrenceUnlocked(o) == TRUE

(* FOR UPDATE: no other call is between its read and its commit.           *)
OccurrenceFree(o) ==
    \A k \in RecordCalls :
        record[k] # NoRecord => ~(record[k].op \in {"treat", "turn"} /\ record[k].of = o)

CheckOccurrence(k, o, t, who) ==
    /\ occurrence[o] = NoOccurrence
    /\ \A c \in RecordCalls : record[c] # NoRecord => ~(record[c].op = "report" /\ record[c].of = o)
    /\ Running(t)
    /\ Check(k, [op |-> "report", of |-> o, at |-> 0, trip |-> t, who |-> who])

(* now() of a call: after the report, before or after any other row's.     *)
Began(o, at) == \A row \in occurrence[o].history : row.at # at

(* The responsible one stays unless the treatment names another, or none.  *)
CheckTreatment(k, o, who, at) ==
    /\ occurrence[o] # NoOccurrence
    /\ OccurrenceFree(o)
    /\ Began(o, at)
    /\ Check(k, [op |-> "treat", of |-> o, who |-> who, at |-> at])

CheckOccurrenceStatus(k, o, status, at) ==
    /\ occurrence[o] # NoOccurrence
    /\ OccurrenceFree(o)
    /\ Began(o, at)
    /\ occurrence[o].status # status
    /\ Check(k, [op |-> "turn", of |-> o, at |-> at, from |-> occurrence[o].status, to |-> status,
                 who |-> occurrence[o].responsible])

(* unique(occurrence, document, relation): the same link again is refused. *)
LinkOccurrenceDocument(o, p) ==
    /\ occurrence[o] # NoOccurrence
    /\ p \notin occurrence[o].papers
    /\ occurrence' = [occurrence EXCEPT ![o].papers = @ \cup {p}]
    /\ UNCHANGED <<journey, sighting, paper, cost, proof, delivered, record>>

-----------------------------------------------------------------------------
(* The writes.  A unique index or the WHERE of the UPDATE may refuse.      *)
Accepted(c) ==
    CASE c.op = "locate"  -> sighting[c.event] = Nowhere
      [] c.op = "link"    -> \A link \in paper[c.trip] : ~Names(c.row, link)
      [] c.op = "review"  -> cost[c.trip][c.cost].status = "reported"
      [] c.op = "deliver" -> \A d \in delivered[c.trip] : d.proof # c.row.proof
      [] OTHER            -> TRUE

Noted(c, from, to) ==
    occurrence[c.of].history
        \cup {[at |-> c.at, from |-> from, to |-> to, responsible |-> c.who]}

OccurrenceAfter(c) ==
    LET row == occurrence[c.of]
    IN  CASE c.op = "report" ->
               [row EXCEPT !.trip = c.trip, !.status = "open", !.responsible = c.who,
                           !.history = Noted(c, "none", "open")]
          [] c.op = "treat" ->
               [row EXCEPT !.responsible = c.who, !.history = Noted(c, "none", "none")]
          [] c.op = "turn" ->
               [row EXCEPT !.status = c.to, !.resolved = (c.to = "resolved"),
                           !.history = Noted(c, c.from, c.to)]

(* The position's provider and identifier are unique for a tenant.         *)
SightingAfter(c) == IF c.op = "locate" THEN [sighting EXCEPT ![c.event] = c.trip] ELSE sighting

PaperAfter(c) == IF c.op = "link" THEN [paper EXCEPT ![c.trip] = @ \cup {c.row}] ELSE paper

CostAfter(c) ==
    CASE c.op = "spend"  -> [cost EXCEPT ![c.trip] = Append(@, c.row)]
      [] c.op = "review" -> [cost EXCEPT ![c.trip][c.cost].status = c.status]
      [] OTHER           -> cost

Write(c) ==
    /\ sighting' = SightingAfter(c)
    /\ paper' = PaperAfter(c)
    /\ cost' = CostAfter(c)
    /\ proof' = IF c.op = "prove" THEN [proof EXCEPT ![c.trip] = Append(@, c.row)] ELSE proof
    /\ delivered' =
         IF c.op = "deliver" THEN [delivered EXCEPT ![c.trip] = @ \cup {c.row}] ELSE delivered
    /\ occurrence' = IF c.op \in {"report", "treat", "turn"}
                     THEN [occurrence EXCEPT ![c.of] = OccurrenceAfter(c)] ELSE occurrence

CommitRecord(k) ==
    /\ record[k] # NoRecord
    /\ Accepted(record[k])
    /\ Write(record[k])
    /\ record' = [record EXCEPT ![k] = NoRecord]
    /\ UNCHANGED journey

(* A refused write, a failed call, a connection lost.                      *)
AbandonRecord(k) == /\ record[k] # NoRecord
                    /\ record' = [record EXCEPT ![k] = NoRecord]
                    /\ RowsUnchanged

(* Trips move elsewhere (TripLifecycle).                                   *)
JourneyMoves(t) ==
    /\ NotEnded(t)
    /\ journey' \in {[journey EXCEPT ![t] = s] : s \in
            {"completed", "cancelled"} \cup (IF journey[t] = "ready" THEN {"in_transit"} ELSE {})}
    /\ UNCHANGED <<sighting, paper, cost, proof, delivered, occurrence, record>>

RecordTrip(k, t) ==
    \/ \E e \in ProviderEvents : CheckLocation(k, t, e)
    \/ \E row \in PaperRow : CheckLinkDocument(k, t, row)
    \/ \E kind \in {"expense", "toll", "fuel"} : CheckCost(k, t, kind)
    \/ \E i \in DOMAIN cost[t], s \in {"approved", "rejected", "voided"} :
          CheckExpenseStatus(k, t, i, s)
    \/ \E row \in ProofRow : CheckProof(k, t, row)
    \/ \E stop \in StopsOfTrip, i \in DOMAIN proof[t] : CheckDeliveryProof(k, t, stop, i)

RecordOccurrence(k, o) ==
    \/ \E t \in Journeys, who \in Responsibles \cup {Nobody} : CheckOccurrence(k, o, t, who)
    \/ \E who \in Responsibles \cup {Nobody}, at \in CallStarts : CheckTreatment(k, o, who, at)
    \/ \E s \in {"open", "resolved"}, at \in CallStarts : CheckOccurrenceStatus(k, o, s, at)

RecordNext ==
    \/ \E k \in RecordCalls, t \in Journeys : RecordTrip(k, t)
    \/ \E k \in RecordCalls, o \in Occurrences : RecordOccurrence(k, o)
    \/ \E o \in Occurrences, p \in Papers : LinkOccurrenceDocument(o, p)
    \/ \E k \in RecordCalls : CommitRecord(k) \/ AbandonRecord(k)
    \/ \E t \in Journeys : JourneyMoves(t)

RecordSpec == RecordInit /\ [][RecordNext]_recordVars

-----------------------------------------------------------------------------
RecordTypeOK ==
    /\ journey \in [Journeys -> {"ready", "in_transit", "completed", "cancelled"}]
    /\ sighting \in [ProviderEvents -> Journeys \cup {Nowhere}]
    /\ \A t \in Journeys :
          /\ paper[t] \subseteq PaperRow
          /\ cost[t] \in Seq(CostRow)
          /\ proof[t] \in Seq(ProofRow)
          /\ \A d \in delivered[t] : d.stop \in DeliveryStops /\ d.proof \in DOMAIN proof[t]
    /\ \A o \in Occurrences :
          /\ occurrence[o].history \subseteq HistoryRow
          /\ occurrence[o].papers \subseteq Papers

Entering(history, status) == {row \in history : row.to = status}

Leaving(history, status) == {row \in history : row.from = status}

(* The history of an occurrence, read in any order, accounts for it: it    *)
(* begins with its one opening, the changes enter the status it has once   *)
(* more than they leave it and every other as often, and some row names    *)
(* the one responsible.  Two calls that read the same status would both    *)
(* leave it.                                                               *)
HistoryExplainsOccurrence ==
    \A o \in Occurrences : occurrence[o] # NoOccurrence =>
        LET history == occurrence[o].history
        IN  /\ \E first \in history :
                  /\ first.from = "none" /\ first.to = "open"
                  /\ \A row \in history \ {first} :
                        row.at > first.at /\ (row.from = "none" => row.to = "none")
            /\ \A s \in {"open", "resolved"} :
                  Cardinality(Entering(history, s)) =
                      Cardinality(Leaving(history, s)) + (IF s = occurrence[o].status THEN 1 ELSE 0)
            /\ occurrence[o].resolved = (occurrence[o].status = "resolved")
            /\ \E row \in history : row.responsible = occurrence[o].responsible

(* A delivery is evidenced: its proof is of its stop, is of no other       *)
(* delivery, and rests on a link, and no other of its document under that  *)
(* relation, that is to this stop or to none.                              *)
DeliveriesAreEvidenced ==
    \A t \in Journeys : \A d \in delivered[t] :
        LET row   == proof[t][d.proof]
            links == {link \in paper[t] : Names(row, link)}
        IN  /\ row.stop = d.stop
            /\ \A other \in delivered[t] : other.proof = d.proof => other = d
            /\ \E link \in links : links = {link} /\ link.stop \in {NoStop, d.stop}
=============================================================================
