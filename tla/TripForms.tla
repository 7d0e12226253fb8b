----------------------------- MODULE TripForms -----------------------------
(***************************************************************************)
(* The forms of a trip: the validators of apps/api/src/trips beside the    *)
(* tables of trips.ts, trip-execution.ts and trip-occurrences.ts.  X is    *)
(* what parseX reads of a body, XParsed the rest it asks of what it read;  *)
(* the table is named as in the schema, its Checks are the CHECKs that its *)
(* column types do not say.  Who wrote a row and its trip are left out;    *)
(* the contracts a trip is made of are in TripLifecycle.                   *)
(***************************************************************************)
EXTENDS Admission

-----------------------------------------------------------------------------
(* Every default of a source is 'manual', and every coordinate is bounded  *)
(* alike; the last decimal place of a coordinate stands for a degree.      *)
SourceOf(among) == EnumerationOr("manual", among)
Latitude == Number(-900, 900)
Longitude == Number(-1800, 1800)
OnEarth(r) == Within(r.latitude, -90, 90) /\ Within(r.longitude, -180, 180)
StopId == OptionalOrEmpty(Uuid)
When == OptionalOrEmpty(Instant)

TripCreate ==
    [code |-> RequiredString(80), plannedStartAt |-> Instant, plannedEndAt |-> When,
     originLocationId |-> OptionalOrEmpty(Uuid), destinationLocationId |-> [OptionalOrEmpty(Uuid) EXCEPT !.usual = "other"],
     notes |-> OptionalString(1000)]

TripCreateParsed(r) ==
    /\ InOrder(r.plannedStartAt, r.plannedEndAt)
    /\ Filled(r.originLocationId) => r.originLocationId # r.destinationLocationId

trips ==
    [code |-> NotNull(Varchar(80)), plannedStartAt |-> NotNull(Timestamp),
     plannedEndAt |-> Timestamp, originLocationId |-> Key, destinationLocationId |-> Key,
     notes |-> Varchar(1000)]

tripsCheck(r) ==
    /\ r.code > 0 /\ InOrder(r.plannedStartAt, r.plannedEndAt)
    /\ ~Filled(r.originLocationId) \/ r.originLocationId # r.destinationLocationId

TripStatus ==
    [toStatus |-> Enumeration({"ready", "in_transit", "completed", "cancelled"}),
     reason |-> OptionalString(1000)]

TripStatusParsed(r) == r.toStatus = "cancelled" => Filled(r.reason)

tripStatusHistory ==
    [toStatus |-> NotNull(Words({"planned", "ready", "in_transit", "completed", "cancelled"})),
     reason |-> Varchar(1000)]

tripStatusHistoryCheck(r) == r.toStatus # "cancelled" \/ (Filled(r.reason) /\ r.reason > 0)

(* A request is linked, and unlinked for a reason (parseTripReason).       *)
TripRequestLink == [transportContractId |-> Uuid, sequence |-> Whole(1)]
TripReason == [removeReason |-> RequiredString(1000)]

tripTransportRequests == [transportContractId |-> NotNull(Key), sequence |-> NotNull(IntegerColumn)]
tripTransportRequestsCheck(r) == r.sequence > 0
tripRemovals == [removeReason |-> Varchar(1000)]
tripRemovalsCheck(r) == Filled(r.removeReason) /\ r.removeReason > 0

TripStopCreate ==
    [sequence |-> Whole(1), type |-> Enumeration({"pickup", "delivery", "support"}),
     locationId |-> OptionalOrEmpty(Uuid),
     sourceTransportRequestId |-> OptionalOrEmpty(Uuid),
     sourceTransportRequestStopId |-> OptionalOrEmpty(Uuid),
     plannedArrivalAt |-> When, plannedDepartureAt |-> When,
     instructions |-> OptionalString(1000)]

TripStopCreateParsed(r) ==
    /\ Together(r.sourceTransportRequestId, r.sourceTransportRequestStopId)
    /\ Filled(r.locationId) \/ Filled(r.sourceTransportRequestStopId)
    /\ InOrder(r.plannedArrivalAt, r.plannedDepartureAt)

tripStops ==
    [sequence |-> NotNull(IntegerColumn),
     type |-> NotNull(Words({"pickup", "delivery", "support"})),
     locationId |-> Key, sourceTransportRequestId |-> Key,
     sourceTransportRequestStopId |-> Key, plannedArrivalAt |-> Timestamp,
     plannedDepartureAt |-> Timestamp, instructions |-> Varchar(1000)]

tripStopsCheck(r) ==
    /\ r.sequence > 0
    /\ Together(r.sourceTransportRequestId, r.sourceTransportRequestStopId)
    /\ Filled(r.locationId) \/ Filled(r.sourceTransportRequestStopId)
    /\ InOrder(r.plannedArrivalAt, r.plannedDepartureAt)

TripDriverCreate ==
    [driverId |-> Uuid, role |-> Enumeration({"primary", "secondary", "relief"}),
     startsAt |-> When]
TripAssetCreate ==
    [assetId |-> Uuid, role |-> Enumeration({"tractor", "vehicle", "implement", "support"}),
     startsAt |-> When]

(* coalesce($5::timestamptz, the planned start of the trip)                *)
AssignmentInserted(r) == [r EXCEPT !.startsAt = IF Filled(@) THEN @ ELSE 1]

tripDrivers ==
    [driverId |-> NotNull(Key), role |-> NotNull(Words({"primary", "secondary", "relief"})),
     startsAt |-> NotNull(Timestamp)]
tripAssets ==
    [assetId |-> NotNull(Key),
     role |-> NotNull(Words({"tractor", "vehicle", "implement", "support"})),
     startsAt |-> NotNull(Timestamp)]

-----------------------------------------------------------------------------
TripEvent ==
    [tripStopId |-> StopId,
     eventType |-> Enumeration({"dispatch", "departure", "arrival", "pickup", "delivery",
                                "checkpoint", "delay", "status_change", "note"}),
     source |-> SourceOf({"manual", "mobile", "integration"}), title |-> RequiredString(180),
     description |-> OptionalString(1500), occurredAt |-> Instant, metadata |-> ObjectOrNone]

tripEvents ==
    [tripStopId |-> Key,
     eventType |-> NotNull(Words({"dispatch", "departure", "arrival", "pickup", "delivery",
                                  "checkpoint", "delay", "status_change", "note", "system"})),
     source |-> NotNull(Words({"manual", "mobile", "system", "integration"})),
     title |-> NotNull(Varchar(180)), description |-> Varchar(1500),
     occurredAt |-> NotNull(Timestamp), metadata |-> NotNull(Json)]

tripEventsCheck(r) == r.title > 0

TripCheckin ==
    [tripStopId |-> Uuid,
     checkinType |-> Enumeration({"arrival", "departure", "pickup", "delivery", "checkpoint"}),
     source |-> SourceOf({"manual", "mobile", "gps", "integration"}), occurredAt |-> Instant,
     latitude |-> OptionalOrEmpty(Latitude), longitude |-> OptionalOrEmpty(Longitude),
     notes |-> OptionalString(1000)]

TripCheckinParsed(r) == Together(r.latitude, r.longitude)

tripCheckins ==
    [tripStopId |-> NotNull(Key),
     checkinType |-> NotNull(Words({"arrival", "departure", "pickup", "delivery", "checkpoint"})),
     source |-> NotNull(Words({"manual", "mobile", "gps", "integration"})),
     occurredAt |-> NotNull(Timestamp), latitude |-> Numeric, longitude |-> Numeric,
     notes |-> Varchar(1000)]

tripCheckinsCheck(r) == Together(r.latitude, r.longitude) /\ OnEarth(r)

(* headingDegrees is at most 359.999, and its column keeps two decimals.   *)
TripLocation ==
    [tripStopId |-> StopId,
     source |-> Enumeration({"manual", "mobile", "gps", "integration"}),
     provider |-> OptionalString(80), providerEventId |-> OptionalString(180),
     latitude |-> Latitude, longitude |-> Longitude,
     accuracyM |-> OptionalOrEmpty(NonNegative), speedKmh |-> OptionalOrEmpty(NonNegative),
     headingDegrees |-> OptionalOrEmpty(Number(0, 3599)),
     etaAt |-> When, etaSource |-> OptionalEnum({"provider", "calculated"}),
     recordedAt |-> Instant, metadata |-> ObjectOrNone]

TripLocationParsed(r) ==
    (r.source = "integration" => Filled(r.provider)) /\ Together(r.etaAt, r.etaSource)

(* What a provider sends says its source, and names its event.             *)
TripProviderLocation ==
    [TripLocation EXCEPT !.source = Rule({}, TripLocation.source.tries, "integration", Unsent, {}),
                         !.provider = RequiredString(80), !.providerEventId = RequiredString(180)]

tripLocations ==
    [tripStopId |-> Key,
     source |-> NotNull(Words({"manual", "mobile", "gps", "integration"})),
     provider |-> Varchar(80), providerEventId |-> Varchar(180),
     latitude |-> NotNull(Numeric), longitude |-> NotNull(Numeric),
     accuracyM |-> Numeric, speedKmh |-> Numeric, headingDegrees |-> Numeric,
     etaAt |-> Timestamp, etaSource |-> Words({"provider", "calculated"}),
     recordedAt |-> NotNull(Timestamp), metadata |-> NotNull(Json)]

tripLocationsCheck(r) ==
    /\ r.source # "integration" \/ (Filled(r.provider) /\ r.provider > 0)
    /\ OnEarth(r) /\ AtLeast(r.accuracyM, 0) /\ AtLeast(r.speedKmh, 0)
    /\ Within(r.headingDegrees, 0, 359)
    /\ Together(r.etaAt, r.etaSource)
    /\ InOrder(r.recordedAt, r.etaAt) /\ r.recordedAt <= Now

(* How long a position of a provider is fresh, and kept: as the deployment *)
(* is set, or as it is set for the provider.  A setting that makes no sense*)
(* stops the call.                                                         *)
PolicySetting(from, to, default) ==
    Rule(from..to, {Unsent, Null, Empty}, default, default, {from - 1, from, to, to + 1})
ProviderSetting(from, to) ==
    [PolicySetting(from, to, Null) EXCEPT !.usual = Unsent, !.tries = {Unsent, from - 1, from, to, to + 1}]

TrackingSettings ==
    [staleAfterSeconds |-> PolicySetting(60, 86400, 900),
     retentionDays |-> PolicySetting(1, 3650, 90),
     providerStaleAfterSeconds |-> ProviderSetting(60, 86400),
     providerRetentionDays |-> ProviderSetting(1, 3650)]

resolveTrackingPolicy(r) ==
    [staleAfterSeconds |-> IF Filled(r.providerStaleAfterSeconds)
                           THEN r.providerStaleAfterSeconds ELSE r.staleAfterSeconds,
     retentionDays |-> IF Filled(r.providerRetentionDays)
                       THEN r.providerRetentionDays ELSE r.retentionDays]

locationPolicies ==
    [staleAfterSeconds |-> NotNull(IntegerColumn), retentionDays |-> NotNull(IntegerColumn)]

(* retention_until is after received_at.                                   *)
locationPoliciesCheck(r) == r.staleAfterSeconds \in 60..86400 /\ r.retentionDays > 0

-----------------------------------------------------------------------------
TripChecklist ==
    [tripStopId |-> StopId, category |-> RequiredString(40), itemCode |-> RequiredString(80),
     label |-> RequiredString(240), required |-> FlagOr(FALSE), notes |-> OptionalString(1000)]

tripChecklists ==
    [tripStopId |-> Key, category |-> NotNull(Varchar(40)), itemCode |-> NotNull(Varchar(80)),
     label |-> NotNull(Varchar(240)), required |-> NotNull(Boolean), notes |-> Varchar(1000)]

tripChecklistsCheck(r) == r.category > 0 /\ r.itemCode > 0 /\ r.label > 0

TripChecklistStatus ==
    [status |-> Enumeration({"completed", "waived", "failed"}),
     waiverReason |-> OptionalString(1000), notes |-> OptionalString(1000)]

TripChecklistStatusParsed(r) == r.status = "waived" => Filled(r.waiverReason)

tripChecklistStatus ==
    [status |-> NotNull(Words({"pending", "completed", "waived", "failed"})),
     waiverReason |-> Varchar(1000), notes |-> Varchar(1000)]

tripChecklistStatusCheck(r) ==
    r.status # "waived" \/ (Filled(r.waiverReason) /\ r.waiverReason > 0)

TripDocument ==
    [tripStopId |-> StopId, documentId |-> Uuid,
     relationType |-> EnumerationOr("execution",
         {"execution", "pickup_proof", "delivery_proof", "expense_receipt", "toll_receipt",
          "fuel_receipt", "checklist_evidence", "other"})]

tripDocuments ==
    [tripStopId |-> Key, documentId |-> NotNull(Key),
     relationType |-> NotNull(Words({"execution", "pickup_proof", "delivery_proof",
         "expense_receipt", "toll_receipt", "fuel_receipt", "checklist_evidence", "other"}))]

TripExpense ==
    [tripStopId |-> StopId, tripDocumentId |-> StopId,
     category |-> Enumeration({"parking", "meal", "lodging", "repair", "loading", "unloading",
                               "other"}),
     amount |-> Number(10, Huge), currencyId |-> Uuid, incurredAt |-> Instant,
     merchant |-> OptionalString(180), externalReference |-> OptionalString(180),
     description |-> OptionalString(1000)]

tripExpenses ==
    [tripStopId |-> Key, tripDocumentId |-> Key,
     category |-> NotNull(Words({"parking", "meal", "lodging", "repair", "loading",
                                 "unloading", "other"})),
     amount |-> NotNull(Numeric), currencyId |-> NotNull(Key), incurredAt |-> NotNull(Timestamp),
     merchant |-> Varchar(180), externalReference |-> Varchar(180), description |-> Varchar(1000)]

tripExpensesCheck(r) == r.amount > 0

TripExpenseStatus ==
    [status |-> Enumeration({"approved", "rejected", "voided"}),
     reviewReason |-> OptionalString(1000)]

TripExpenseStatusParsed(r) == r.status \in {"rejected", "voided"} => Filled(r.reviewReason)

tripExpenseStatus ==
    [status |-> NotNull(Words({"reported", "approved", "rejected", "voided"})),
     reviewReason |-> Varchar(1000)]

tripExpenseStatusCheck(r) ==
    r.status \notin {"rejected", "voided"} \/ (Filled(r.reviewReason) /\ r.reviewReason > 0)

TripToll ==
    [tripStopId |-> StopId, tripDocumentId |-> StopId, plaza |-> RequiredString(180),
     road |-> OptionalString(120), amount |-> Number(10, Huge), currencyId |-> Uuid,
     occurredAt |-> Instant,
     paymentMethod |-> Enumeration({"cash", "tag", "card", "invoice", "other"}),
     tagReference |-> OptionalString(120), notes |-> OptionalString(1000)]

tripTolls ==
    [tripStopId |-> Key, tripDocumentId |-> Key, plaza |-> NotNull(Varchar(180)),
     road |-> Varchar(120), amount |-> NotNull(Numeric), currencyId |-> NotNull(Key),
     occurredAt |-> NotNull(Timestamp),
     paymentMethod |-> NotNull(Words({"cash", "tag", "card", "invoice", "other"})),
     tagReference |-> Varchar(120), notes |-> Varchar(1000)]

tripTollsCheck(r) == r.plaza > 0 /\ r.amount > 0

TripFuel ==
    [tripStopId |-> StopId, tripDocumentId |-> StopId,
     fuelType |-> Enumeration({"diesel", "gasoline", "ethanol", "cng", "electric", "other"}),
     liters |-> Number(10, Huge), unitPrice |-> Number(10, Huge),
     totalAmount |-> Number(10, Huge), currencyId |-> Uuid,
     odometerKm |-> OptionalOrEmpty(NonNegative), station |-> OptionalString(180),
     fueledAt |-> Instant, notes |-> OptionalString(1000)]

tripFuel ==
    [tripStopId |-> Key, tripDocumentId |-> Key,
     fuelType |-> NotNull(Words({"diesel", "gasoline", "ethanol", "cng", "electric", "other"})),
     liters |-> NotNull(Numeric), unitPrice |-> NotNull(Numeric),
     totalAmount |-> NotNull(Numeric), currencyId |-> NotNull(Key), odometerKm |-> Numeric,
     station |-> Varchar(180), fueledAt |-> NotNull(Timestamp), notes |-> Varchar(1000)]

tripFuelCheck(r) ==
    r.liters > 0 /\ r.unitPrice > 0 /\ r.totalAmount > 0 /\ AtLeast(r.odometerKm, 0)

TripProof ==
    [tripStopId |-> StopId, tripDocumentId |-> Uuid,
     proofType |-> Enumeration({"pickup", "delivery", "seal", "weight", "checklist", "other"}),
     capturedAt |-> Instant,
     source |-> SourceOf({"manual", "mobile", "integration", "generated"}),
     notes |-> OptionalString(1000), metadata |-> ObjectOrNone]

tripProofs ==
    [tripStopId |-> Key, tripDocumentId |-> NotNull(Key),
     proofType |-> NotNull(Words({"pickup", "delivery", "seal", "weight", "checklist", "other"})),
     capturedAt |-> NotNull(Timestamp),
     source |-> NotNull(Words({"manual", "mobile", "integration", "generated"})),
     notes |-> Varchar(1000), metadata |-> NotNull(Json)]

TripDeliveryProof ==
    [tripStopId |-> Uuid, tripProofId |-> Uuid, receivedByName |-> RequiredString(180),
     receivedByRole |-> OptionalString(120), deliveredAt |-> Instant,
     status |-> EnumerationOr("recorded", {"recorded", "accepted", "rejected"}),
     exceptionReason |-> OptionalString(1000)]

TripDeliveryProofParsed(r) == r.status = "rejected" => Filled(r.exceptionReason)

tripDeliveryProofs ==
    [tripStopId |-> NotNull(Key), tripProofId |-> NotNull(Key),
     receivedByName |-> NotNull(Varchar(180)), receivedByRole |-> Varchar(120),
     deliveredAt |-> NotNull(Timestamp),
     status |-> NotNull(Words({"recorded", "accepted", "rejected"})),
     exceptionReason |-> Varchar(1000)]

tripDeliveryProofsCheck(r) ==
    /\ r.receivedByName > 0
    /\ r.status # "rejected" \/ (Filled(r.exceptionReason) /\ r.exceptionReason > 0)

-----------------------------------------------------------------------------
OccurrenceTypes ==
    {"delay", "damage", "contact_loss", "accident", "breakdown", "route_deviation",
     "cargo_issue", "security", "documentation", "other"}

TripOccurrence ==
    [tripStopId |-> StopId, occurrenceType |-> Enumeration(OccurrenceTypes),
     severity |-> EnumerationOr("medium", {"low", "medium", "high", "critical"}),
     occurredAt |-> Instant, latitude |-> Optional(Latitude), longitude |-> Optional(Longitude),
     locationText |-> OptionalString(500), description |-> RequiredString(2000),
     responsibleUserId |-> OptionalOrEmpty(Uuid)]

TripOccurrenceParsed(r) == Together(r.latitude, r.longitude)

tripOccurrences ==
    [tripStopId |-> Key,
     occurrenceType |-> NotNull(Words({"delay", "damage", "contact_loss", "accident",
         "breakdown", "route_deviation", "cargo_issue", "security", "documentation", "other"})),
     severity |-> NotNull(Words({"low", "medium", "high", "critical"})),
     occurredAt |-> NotNull(Timestamp), latitude |-> Numeric, longitude |-> Numeric,
     locationText |-> Varchar(500), description |-> NotNull(Varchar(2000)),
     responsibleUserId |-> Key]

tripOccurrencesCheck(r) ==
    r.description > 0 /\ Together(r.latitude, r.longitude) /\ OnEarth(r)

TripOccurrenceStatus ==
    [toStatus |-> Enumeration({"open", "resolved"}), note |-> OptionalString(2000)]
TripOccurrenceTreatment ==
    [note |-> RequiredString(2000), responsibleUserId |-> OptionalOrEmpty(Uuid)]

(* The history's rows: one of a status, one of a treatment.                *)
tripOccurrenceStatus ==
    [toStatus |-> NotNull(Words({"open", "resolved"})), note |-> Varchar(2000)]
tripOccurrenceTreatment == [note |-> Varchar(2000), responsibleUserId |-> Key]
tripOccurrenceTreatmentCheck(r) == Filled(r.note) /\ r.note > 0

TripOccurrenceDocument ==
    [documentId |-> Uuid,
     relationType |-> EnumerationOr("evidence", {"evidence", "attachment", "other"})]
tripOccurrenceDocuments ==
    [documentId |-> NotNull(Key),
     relationType |-> NotNull(Words({"evidence", "attachment", "other"}))]

-----------------------------------------------------------------------------
TripDesk ==
    [trips |-> [form |-> TripCreate, columns |-> trips],
     trip_status_history |-> [form |-> TripStatus, columns |-> tripStatusHistory],
     trip_transport_requests |-> [form |-> TripRequestLink, columns |-> tripTransportRequests],
     trip_removals |-> [form |-> TripReason, columns |-> tripRemovals],
     trip_stops |-> [form |-> TripStopCreate, columns |-> tripStops],
     trip_drivers |-> [form |-> TripDriverCreate, columns |-> tripDrivers],
     trip_assets |-> [form |-> TripAssetCreate, columns |-> tripAssets],
     trip_events |-> [form |-> TripEvent, columns |-> tripEvents],
     trip_checkins |-> [form |-> TripCheckin, columns |-> tripCheckins],
     trip_locations |-> [form |-> TripLocation, columns |-> tripLocations],
     provider_locations |-> [form |-> TripProviderLocation, columns |-> tripLocations],
     location_policies |-> [form |-> TrackingSettings, columns |-> locationPolicies],
     trip_checklists |-> [form |-> TripChecklist, columns |-> tripChecklists],
     trip_checklist_status |-> [form |-> TripChecklistStatus, columns |-> tripChecklistStatus],
     trip_documents |-> [form |-> TripDocument, columns |-> tripDocuments],
     trip_expenses |-> [form |-> TripExpense, columns |-> tripExpenses],
     trip_expense_status |-> [form |-> TripExpenseStatus, columns |-> tripExpenseStatus],
     trip_tolls |-> [form |-> TripToll, columns |-> tripTolls],
     trip_fuel |-> [form |-> TripFuel, columns |-> tripFuel],
     trip_proofs |-> [form |-> TripProof, columns |-> tripProofs],
     trip_delivery_proofs |-> [form |-> TripDeliveryProof, columns |-> tripDeliveryProofs],
     trip_occurrences |-> [form |-> TripOccurrence, columns |-> tripOccurrences],
     trip_occurrence_status |-> [form |-> TripOccurrenceStatus, columns |-> tripOccurrenceStatus],
     trip_occurrence_treatment |->
         [form |-> TripOccurrenceTreatment, columns |-> tripOccurrenceTreatment],
     trip_occurrence_documents |->
         [form |-> TripOccurrenceDocument, columns |-> tripOccurrenceDocuments]]

TripAdmits(t, r) ==
    CASE t = "trips" -> TripCreateParsed(r)
      [] t = "trip_status_history" -> TripStatusParsed(r)
      [] t = "trip_stops" -> TripStopCreateParsed(r)
      [] t = "trip_checkins" -> TripCheckinParsed(r)
      [] t \in {"trip_locations", "provider_locations"} -> TripLocationParsed(r)
      [] t = "trip_checklist_status" -> TripChecklistStatusParsed(r)
      [] t = "trip_expense_status" -> TripExpenseStatusParsed(r)
      [] t = "trip_delivery_proofs" -> TripDeliveryProofParsed(r)
      [] t = "trip_occurrences" -> TripOccurrenceParsed(r)
      [] OTHER -> TRUE

TripInserts(t, r) ==
    CASE t \in {"trip_drivers", "trip_assets"} -> AssignmentInserted(r)
      [] t = "location_policies" -> resolveTrackingPolicy(r)
      [] OTHER -> r

TripTakes(t, r) ==
    CASE t = "trips" -> tripsCheck(r)
      [] t = "trip_status_history" -> tripStatusHistoryCheck(r)
      [] t = "trip_transport_requests" -> tripTransportRequestsCheck(r)
      [] t = "trip_removals" -> tripRemovalsCheck(r)
      [] t = "trip_stops" -> tripStopsCheck(r)
      [] t = "trip_events" -> tripEventsCheck(r)
      [] t = "trip_checkins" -> tripCheckinsCheck(r)
      [] t \in {"trip_locations", "provider_locations"} -> tripLocationsCheck(r)
      [] t = "location_policies" -> locationPoliciesCheck(r)
      [] t = "trip_checklists" -> tripChecklistsCheck(r)
      [] t = "trip_checklist_status" -> tripChecklistStatusCheck(r)
      [] t = "trip_expenses" -> tripExpensesCheck(r)
      [] t = "trip_expense_status" -> tripExpenseStatusCheck(r)
      [] t = "trip_tolls" -> tripTollsCheck(r)
      [] t = "trip_fuel" -> tripFuelCheck(r)
      [] t = "trip_delivery_proofs" -> tripDeliveryProofsCheck(r)
      [] t = "trip_occurrences" -> tripOccurrencesCheck(r)
      [] t = "trip_occurrence_treatment" -> tripOccurrenceTreatmentCheck(r)
      [] OTHER -> TRUE

(* Where a validator asks for less than its table: an arrival estimated    *)
(* before the position, a position of the future, a heading of 360.        *)
TripEdge(t, r) ==
    /\ t \in {"trip_locations", "provider_locations"}
    /\ \/ Filled(r.etaAt) /\ r.etaAt < r.recordedAt
       \/ r.recordedAt > Now
       \/ Filled(r.headingDegrees) /\ r.headingDegrees > 3594
=============================================================================
