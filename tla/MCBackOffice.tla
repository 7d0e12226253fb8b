---------------------------- MODULE MCBackOffice ----------------------------
(***************************************************************************)
(* One instance of every component that keeps rows of its own and shares   *)
(* none with the others: books and bank entries, documents and risk,       *)
(* capacity, negotiation threads, notices, matching, and the records of a  *)
(* trip.  An initial state chooses the part that moves; the others stand   *)
(* still, so the instances are checked side by side and not crossed.       *)
(***************************************************************************)
EXTENDS Reconciliation, DocumentCompliance, CapacityRegister, NegotiationThreads,
        InAppNotifications, CapacityMatching, TripRecords

CONSTANT FirstDoc   \* the document the part "risk" is about

VARIABLE part       \* which part moves

Parts == {"payables", "receivables", "documents", "risk", "assignments",
          "dossier", "threads", "notices", "matching", "positions", "costs", "proofs",
          "occurrences"}

-----------------------------------------------------------------------------
(* Values of the constants.                                                *)
EntryAmountValue == [e \in BankEntries |-> IF e \in Debits THEN 2 ELSE 1]
\* With the points of an exact amount (35): above and below the suggestion's 60.
AffinityValue == [e \in BankEntries |-> [t \in Targets |-> IF e \in Debits THEN 45 ELSE 35]]

PolicyValues ==
    {[active |-> TRUE, contexts |-> {"contracting", "trip"}, warning |-> 1,
      blocks |-> {"expired", "rejected", "pending"}],
     [active |-> TRUE, contexts |-> {"trip"}, warning |-> 0, blocks |-> {}]}
\* A partner as it should be, one still pending, a driver and an asset of every status.
OwnSnapshots ==
    [scope : {"party"}, status : {"active"}, partner : {TRUE},
     homologation : {"approved", "pending"}, email : {TRUE}, phone : {FALSE}]
    \cup [scope : {"driver"}, registration : {"qualified"}, operational : {"active", "blocked"},
          cnhExpired : {FALSE}, carrier : {TRUE}, email : {FALSE}]
    \cup [scope : {"asset"}, status : {"active", "blocked", "inactive"}, carrier : {FALSE}]
\* The second provider uses a code of the system for a signal of its own.
OtherSignals == {{}, {Signal("EXTERNAL", "low", 20), Signal("COMPLIANCE_BLOCK", "low", 1)}}

Sizes(values) == [Dimensions -> values]
Cargos == {[vehicleType |-> "truck", bodyType |-> "van", weight |-> 2, volume |-> v,
            size |-> s, tracking |-> t] :
             v \in {Unknown, 2}, s \in Sizes({Unknown, 2}), t \in BOOLEAN}
Best == [qualified |-> TRUE, driverActive |-> TRUE, vehicleActive |-> TRUE,
         vehicleType |-> "truck", bodyType |-> "van", weight |-> 2, volume |-> 2,
         tracking |-> TRUE, size |-> [d \in Dimensions |-> 2]]
Lacking == {[Best EXCEPT !.qualified = FALSE], [Best EXCEPT !.driverActive = FALSE],
            [Best EXCEPT !.vehicleActive = FALSE], [Best EXCEPT !.vehicleType = "bitruck"],
            [Best EXCEPT !.bodyType = "open"], [Best EXCEPT !.weight = 1],
            [Best EXCEPT !.volume = 1], [Best EXCEPT !.volume = Unknown],
            [Best EXCEPT !.tracking = FALSE]}
PreferenceValues ==
    {[name |-> "usual", default |-> TRUE, active |-> TRUE, minimum |-> 50, most |-> 10],
     [name |-> "old", default |-> TRUE, active |-> FALSE, minimum |-> 0, most |-> 100]}
Shapes == {[Best EXCEPT !.size = s] : s \in Sizes({Unknown, 1, 2})} \cup Lacking

-----------------------------------------------------------------------------
(* Bounds.                                                                 *)
BooksBound ==
    IF part = "payables" THEN UNCHANGED receiptVars /\ \A e \in Credits : UNCHANGED bankEntry[e]
    ELSE UNCHANGED payVars /\ \A e \in Debits : UNCHANGED bankEntry[e]

AllAsked == [hasExpiry |-> TRUE, requiresValidation |-> TRUE, active |-> TRUE]

\* The reviews of a document commit in the order they began.
InOrder(row) == row.last \in Results => row.review = row.last

\* Two documents, or one and a row of the register that lacks one thing, of the
\* strictest type under one policy; or one document with everything else, and a type
\* that lacks one thing.  What is assessed was uploaded as the strictest type.
DocumentsBound ==
    IF part = "documents"
    THEN /\ UNCHANGED docType /\ overrides' = {} /\ assessments' = <<>>
         /\ policy'.contexts # {"trip"}
         /\ \A d \in Docs : InOrder(document'[d])
         /\ Cardinality(register') <= 1
         /\ \A row \in register' : row.status = "valid" \/ row.validation = "validated"
         /\ register' # {} => \A d \in Docs : d # FirstDoc => document'[d] = NoDocument
    ELSE /\ register' = {}
         /\ document'[FirstDoc].created \in {0, 1}
         /\ \A d \in Docs : d # FirstDoc => UNCHANGED document[d]
         /\ Cardinality({f \in DOMAIN docType' : ~docType'[f]}) <= 1
         /\ \/ assessments' = <<>> /\ overrides' = {}
            \/ docType' = AllAsked /\ InOrder(document'[FirstDoc])
               /\ document'[FirstDoc].last # "trusted"

\* The dossier of subjects as they begin, or assignments without a dossier.
CapacityBound ==
    IF part = "dossier" THEN UNCHANGED <<subject, assignment, work>>
    ELSE /\ UNCHANGED <<filed, block>>
         /\ Cardinality({k \in CapacityCalls : work'[k] # NoWork /\ work'[k].op = "update"}) <= 1

Told == {key \in EventKeys : notified[key]}
            \cup {emission[k].key : k \in {k \in EmitCalls : emission[k] # NoEmission}}

\* What is matched is revised from the best offer, and not once a run is kept.
MatchingBound ==
    /\ matchings = <<>>
    /\ offer'[2] = offer[2]
    /\ offer[1] = Best \/ UNCHANGED <<cargo, offer>>
    /\ rules = {} \/ matchings' # <<>>

InFlight == {k \in RecordCalls : record[k] # NoRecord}

Recording == {record[k].op : k \in InFlight}

\* Of one document the second link is to a delivery stop, and pickups are proved first.
Evidence(c) ==
    /\ c.op = "link" /\ c.row.relation # "execution" => c.row.stop \in DeliveryStops
    /\ c.op = "prove" /\ c.row.type # "delivery" => proof[c.trip] = <<>>

RecordsBound ==
    CASE part = "positions"   -> Recording' \subseteq {"locate"}
      [] part = "costs"       -> \/ Recording' = {"review"}
                                 \/ (Cardinality(InFlight') <= 1
                                     /\ Recording' \subseteq {"spend", "review"})
      [] part = "proofs"      ->
             /\ \/ Recording' = {"deliver"}
                \/ Cardinality(InFlight') <= 1 /\ Recording' \subseteq {"link", "prove", "deliver"}
             /\ \A k \in InFlight' : Evidence(record'[k])
      [] part = "occurrences" -> Recording' \subseteq {"report", "treat", "turn"}

-----------------------------------------------------------------------------
\* What only one part varies is chosen first: TLC would cross the choices.
Chosen ==
    /\ part \in Parts
    /\ docType = AllAsked
    /\ roleOf \in IF part = "notices" THEN [Users -> Roles]
                  ELSE {[u \in Users |-> "operations"]}
    /\ cargo \in IF part = "matching" THEN CargoShapes
                 ELSE {CHOOSE c \in CargoShapes : TRUE}
    /\ offer \in IF part = "matching"
                 THEN {[i \in Offered |-> IF i = 1 THEN Best ELSE o] :
                         o \in {Best, [Best EXCEPT !.weight = 1]}}
                 ELSE {[i \in Offered |-> Best]}

MCInit ==
    /\ Chosen
    /\ FinanceInit
    /\ RiskInit
    /\ CapacityInit
    /\ ThreadInit
    /\ NoticeInit
    /\ MatchingInit
    /\ RecordInit

MCNext ==
    /\ UNCHANGED part
    /\ IF part \in {"payables", "receivables"} THEN FinanceNext /\ BooksBound
       ELSE UNCHANGED financeVars
    /\ IF part \in {"documents", "risk"} THEN RiskNext /\ DocumentsBound
       ELSE UNCHANGED riskVars
    /\ IF part \in {"assignments", "dossier"} THEN CapacityNext /\ CapacityBound
       ELSE UNCHANGED capacityVars
    /\ IF part = "threads" THEN ThreadNext ELSE UNCHANGED threadVars
    /\ IF part = "notices" THEN NoticeNext /\ Cardinality(Told') <= 1 ELSE UNCHANGED noticeVars
    /\ IF part = "matching" THEN MatchingNext /\ MatchingBound ELSE UNCHANGED matchingVars
    /\ IF part \in {"positions", "costs", "proofs", "occurrences"}
       THEN RecordNext /\ RecordsBound
       ELSE UNCHANGED recordVars

MCSpec == MCInit /\ [][MCNext]_<<part, financeVars, riskVars, capacityVars,
                                 threadVars, noticeVars, matchingVars, recordVars>>

\* Every part keeps its types.
BackOfficeTypeOK ==
    /\ FinanceTypeOK
    /\ RiskTypeOK
    /\ CapacityTypeOK
    /\ ThreadTypeOK
    /\ NoticeTypeOK
    /\ MatchingTypeOK
    /\ RecordTypeOK
=============================================================================
