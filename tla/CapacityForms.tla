--------------------------- MODULE CapacityForms ---------------------------
(***************************************************************************)
(* The forms of drivers and capacity assets and of everything filed about  *)
(* them: the validators of apps/api/src/capacity beside the tables of      *)
(* capacity.ts and capacity-qualification.ts.  X is what parseX reads of a *)
(* body, XParsed the rest it asks of what it read; the table is named as   *)
(* in the schema, its Checks are the CHECKs that its column types do not   *)
(* say.  The owner of a row and who wrote it are left out: the path and    *)
(* the session say them.                                                   *)
(***************************************************************************)
EXTENDS Admission

-----------------------------------------------------------------------------
(* The licence states a document, qualification or course may be in.       *)
FiledStatus == {"pending", "valid", "expired", "blocked", "inactive"}
PeriodStatus == {"scheduled", "active", "completed", "cancelled"}

DocumentRegister ==
    [documentTypeId |-> Uuid, documentNumber |-> OptionalString(120),
     issuer |-> OptionalString(180),
     issuedOn |-> OptionalOrEmpty(Day), expiresOn |-> OptionalOrEmpty(Day),
     status |-> EnumerationOr("pending", FiledStatus),
     validationStatus |-> EnumerationOr("pending",
                              {"pending", "validated", "rejected", "not_required"}),
     notes |-> OptionalString(1000)]

DocumentRegisterParsed(r) == InOrder(r.issuedOn, r.expiresOn)

driverDocuments ==
    [documentTypeId |-> NotNull(Key), documentNumber |-> Varchar(120),
     issuer |-> Varchar(180), issuedOn |-> DateColumn, expiresOn |-> DateColumn,
     status |-> NotNull(Words({"pending", "valid", "expired", "blocked", "inactive"})),
     validationStatus |-> NotNull(Words({"pending", "validated", "rejected", "not_required"})),
     notes |-> Varchar(1000)]

driverDocumentsCheck(r) == InOrder(r.issuedOn, r.expiresOn)

capacityAssetDocuments == driverDocuments
capacityAssetDocumentsCheck(r) == InOrder(r.issuedOn, r.expiresOn)

Qualification ==
    [qualificationType |-> Enumeration({"license", "endorsement", "certification",
                                        "authorization", "other"}),
     code |-> RequiredString(80), name |-> RequiredString(180),
     certificateNumber |-> OptionalString(120), issuer |-> OptionalString(180),
     issuedOn |-> OptionalOrEmpty(Day), expiresOn |-> OptionalOrEmpty(Day),
     status |-> EnumerationOr("valid", FiledStatus), notes |-> OptionalString(1000)]

QualificationParsed(r) == InOrder(r.issuedOn, r.expiresOn)

driverQualifications ==
    [qualificationType |-> NotNull(Words({"license", "endorsement", "certification",
                                          "authorization", "other"})),
     code |-> NotNull(Varchar(80)), name |-> NotNull(Varchar(180)),
     certificateNumber |-> Varchar(120), issuer |-> Varchar(180),
     issuedOn |-> DateColumn, expiresOn |-> DateColumn,
     status |-> NotNull(Words(FiledStatus)), notes |-> Varchar(1000)]

driverQualificationsCheck(r) ==
    r.code > 0 /\ r.name > 0 /\ InOrder(r.issuedOn, r.expiresOn)

Course ==
    [courseCode |-> RequiredString(80), courseName |-> RequiredString(200),
     provider |-> OptionalString(180), certificateNumber |-> OptionalString(120),
     completedOn |-> Day, expiresOn |-> OptionalOrEmpty(Day),
     workloadHours |-> Optional(Positive),
     status |-> EnumerationOr("valid", FiledStatus), notes |-> OptionalString(1000)]

CourseParsed(r) == InOrder(r.completedOn, r.expiresOn)

driverCourses ==
    [courseCode |-> NotNull(Varchar(80)), courseName |-> NotNull(Varchar(200)),
     provider |-> Varchar(180), certificateNumber |-> Varchar(120),
     completedOn |-> NotNull(DateColumn), expiresOn |-> DateColumn,
     workloadHours |-> Numeric, status |-> NotNull(Words(FiledStatus)),
     notes |-> Varchar(1000)]

driverCoursesCheck(r) ==
    /\ r.courseCode > 0 /\ r.courseName > 0
    /\ InOrder(r.completedOn, r.expiresOn)
    /\ AtLeast(r.workloadHours, 1)

-----------------------------------------------------------------------------
DriverStates == {"available", "assigned", "unavailable", "offline"}
AssetStates == DriverStates \cup {"maintenance"}

Availability ==
    [status |-> EnumerationOr("offline", DriverStates),
     availableFrom |-> OptionalOrEmpty(Instant), availableUntil |-> OptionalOrEmpty(Instant),
     currentCityId |-> OptionalOrEmpty(Uuid), destinationCityId |-> OptionalOrEmpty(Uuid),
     maxDistanceKm |-> Optional(NonNegative), notes |-> OptionalString(500)]

AssetAvailability ==
    [c \in DOMAIN Availability \ {"destinationCityId", "maxDistanceKm"} |->
        IF c = "status" THEN EnumerationOr("offline", AssetStates) ELSE Availability[c]]

AvailabilityParsed(r) == InOrder(r.availableFrom, r.availableUntil)

driverAvailability ==
    [status |-> NotNull(Words({"available", "assigned", "unavailable", "offline"})),
     availableFrom |-> Timestamp, availableUntil |-> Timestamp,
     currentCityId |-> Key, destinationCityId |-> Key,
     maxDistanceKm |-> Numeric, notes |-> Varchar(500)]

driverAvailabilityCheck(r) ==
    InOrder(r.availableFrom, r.availableUntil) /\ AtLeast(r.maxDistanceKm, 0)

capacityAssetAvailability ==
    [status |-> NotNull(Words({"available", "assigned", "maintenance",
                               "unavailable", "offline"})),
     availableFrom |-> Timestamp, availableUntil |-> Timestamp,
     currentCityId |-> Key, notes |-> Varchar(500)]

capacityAssetAvailabilityCheck(r) == InOrder(r.availableFrom, r.availableUntil)

Unavailability ==
    [reasonCode |-> RequiredString(64), reason |-> RequiredString(500),
     startsAt |-> Instant, endsAt |-> [Instant EXCEPT !.usual = 3],
     status |-> EnumerationOr("scheduled", PeriodStatus)]

UnavailabilityParsed(r) == InOrder(r.startsAt, r.endsAt) /\ r.endsAt # r.startsAt

driverUnavailabilityPeriods ==
    [reasonCode |-> NotNull(Varchar(64)), reason |-> NotNull(Varchar(500)),
     startsAt |-> NotNull(Timestamp), endsAt |-> NotNull(Timestamp),
     status |-> NotNull(Words({"scheduled", "active", "completed", "cancelled"}))]

driverUnavailabilityPeriodsCheck(r) ==
    r.reasonCode > 0 /\ r.reason > 0 /\ r.endsAt > r.startsAt

capacityAssetUnavailabilityPeriods == driverUnavailabilityPeriods
capacityAssetUnavailabilityPeriodsCheck(r) ==
    r.reasonCode > 0 /\ r.reason > 0 /\ r.endsAt > r.startsAt

(* The table asks for a name of two characters; the validator for one.     *)
EmergencyContact ==
    [name |-> RequiredString(180), relationship |-> OptionalString(80),
     phone |-> RequiredString(32), isPrimary |-> FlagOr(FALSE), isActive |-> FlagOr(TRUE)]

EmergencyContactParsed(r) == r.phone >= 8

driverEmergencyContacts ==
    [name |-> NotNull(Varchar(180)), relationship |-> Varchar(80),
     phone |-> NotNull(Varchar(32)), isPrimary |-> NotNull(Boolean),
     isActive |-> NotNull(Boolean)]

driverEmergencyContactsCheck(r) == r.name >= 2 /\ r.phone >= 8

(* A block may be given an end at its start or, given no start, before the *)
(* insert takes now for it; the table wants the end after the start.       *)
Block ==
    [reasonCode |-> RequiredString(64), reason |-> RequiredString(1000),
     severity |-> EnumerationOr("operational",
                                {"operational", "compliance", "legal", "safety"}),
     startsAt |-> OptionalOrEmpty(Instant), endsAt |-> OptionalOrEmpty(Instant)]

AssetBlock ==
    [Block EXCEPT !.severity = EnumerationOr("operational",
        {"operational", "compliance", "legal", "safety", "maintenance"})]

BlockParsed(r) == InOrder(r.startsAt, r.endsAt)

(* coalesce($6::timestamptz, now())                                        *)
BlockInserted(r) == [r EXCEPT !.startsAt = IF Filled(@) THEN @ ELSE Now]

driverBlocks ==
    [reasonCode |-> NotNull(Varchar(64)), reason |-> NotNull(Varchar(1000)),
     severity |-> NotNull(Words({"operational", "compliance", "legal", "safety"})),
     startsAt |-> NotNull(Timestamp), endsAt |-> Timestamp]

driverBlocksCheck(r) ==
    r.reasonCode > 0 /\ r.reason > 0 /\ (Filled(r.endsAt) => r.endsAt > r.startsAt)

capacityAssetBlocks ==
    [driverBlocks EXCEPT !.severity = NotNull(Words({"operational", "compliance",
        "legal", "safety", "maintenance"}))]

capacityAssetBlocksCheck(r) ==
    r.reasonCode > 0 /\ r.reason > 0 /\ (Filled(r.endsAt) => r.endsAt > r.startsAt)

Rating ==
    [transportRequestId |-> OptionalOrEmpty(Uuid), dimension |-> RequiredString(64),
     score |-> Number(0, 50), note |-> OptionalString(1000)]

driverRatings ==
    [transportRequestId |-> Key, dimension |-> NotNull(Varchar(64)),
     score |-> NotNull(Numeric), note |-> Varchar(1000)]

driverRatingsCheck(r) == r.dimension > 0 /\ r.score \in 0..5

-----------------------------------------------------------------------------
AssetCapabilities ==
    [refrigerated |-> FlagOr(FALSE), sealed |-> FlagOr(FALSE), sideLoading |-> FlagOr(FALSE),
     rearLoading |-> FlagOr(FALSE), dangerousGoods |-> FlagOr(FALSE),
     foodGrade |-> FlagOr(FALSE), trackingCapable |-> FlagOr(FALSE),
     maxPallets |-> Optional(Whole(1)),
     minTemperatureC |-> Optional(AnyNumber), maxTemperatureC |-> Optional(AnyNumber)]

AssetCapabilitiesParsed(r) == AtMost(r.minTemperatureC, r.maxTemperatureC)

capacityAssetCapabilities ==
    [refrigerated |-> NotNull(Boolean), sealed |-> NotNull(Boolean),
     sideLoading |-> NotNull(Boolean), rearLoading |-> NotNull(Boolean),
     dangerousGoods |-> NotNull(Boolean), foodGrade |-> NotNull(Boolean),
     trackingCapable |-> NotNull(Boolean), maxPallets |-> IntegerColumn,
     minTemperatureC |-> Numeric, maxTemperatureC |-> Numeric]

capacityAssetCapabilitiesCheck(r) ==
    AtLeast(r.maxPallets, 1) /\ AtMost(r.minTemperatureC, r.maxTemperatureC)

(* Any integer passes as intervalDays if the odometer says when.           *)
MaintenancePlan ==
    [name |-> RequiredString(180), maintenanceType |-> RequiredString(64),
     intervalDays |-> Optional(Whole(-Huge)), intervalOdometerKm |-> Optional(Positive),
     nextDueOn |-> OptionalOrEmpty(Day), nextDueOdometerKm |-> Optional(NonNegative),
     isActive |-> FlagOr(TRUE), notes |-> OptionalString(1000)]

MaintenancePlanParsed(r) ==
    (Filled(r.intervalDays) /\ r.intervalDays > 0) \/ Filled(r.intervalOdometerKm)

capacityAssetMaintenancePlans ==
    [name |-> NotNull(Varchar(180)), maintenanceType |-> NotNull(Varchar(64)),
     intervalDays |-> IntegerColumn, intervalOdometerKm |-> Numeric,
     nextDueOn |-> DateColumn, nextDueOdometerKm |-> Numeric,
     isActive |-> NotNull(Boolean), notes |-> Varchar(1000)]

capacityAssetMaintenancePlansCheck(r) ==
    /\ r.name > 0 /\ r.maintenanceType > 0
    /\ \/ Filled(r.intervalDays) /\ r.intervalDays > 0
       \/ Filled(r.intervalOdometerKm) /\ r.intervalOdometerKm > 0
    /\ AtLeast(r.nextDueOdometerKm, 0)

Maintenance ==
    [maintenancePlanId |-> OptionalOrEmpty(Uuid), providerPartyId |-> OptionalOrEmpty(Uuid),
     maintenanceType |-> RequiredString(64),
     status |-> EnumerationOr("planned", {"planned", "in_progress", "completed", "cancelled"}),
     plannedAt |-> OptionalOrEmpty(Instant), startedAt |-> OptionalOrEmpty(Instant),
     completedAt |-> OptionalOrEmpty(Instant), odometerKm |-> Optional(NonNegative),
     totalCost |-> Optional(NonNegative), currencyId |-> OptionalOrEmpty(Uuid),
     notes |-> OptionalString(1500)]

MaintenanceParsed(r) ==
    /\ InOrder(r.plannedAt, r.startedAt) /\ InOrder(r.startedAt, r.completedAt)
    /\ Filled(r.totalCost) => Filled(r.currencyId)

capacityAssetMaintenance ==
    [maintenancePlanId |-> Key, providerPartyId |-> Key,
     maintenanceType |-> NotNull(Varchar(64)),
     status |-> NotNull(Words({"planned", "in_progress", "completed", "cancelled"})),
     plannedAt |-> Timestamp, startedAt |-> Timestamp, completedAt |-> Timestamp,
     odometerKm |-> Numeric, totalCost |-> Numeric, currencyId |-> Key,
     notes |-> Varchar(1500)]

capacityAssetMaintenanceCheck(r) ==
    /\ AtLeast(r.odometerKm, 0) /\ AtLeast(r.totalCost, 0)
    /\ Filled(r.totalCost) => Filled(r.currencyId)
    /\ InOrder(r.plannedAt, r.startedAt) /\ InOrder(r.startedAt, r.completedAt)

MaintenanceItem ==
    [itemType |-> RequiredString(64), description |-> RequiredString(500),
     quantity |-> Left(Positive, 10),
     unitAmount |-> Optional(NonNegative), totalAmount |-> Optional(NonNegative),
     currencyId |-> OptionalOrEmpty(Uuid)]

MaintenanceItemParsed(r) ==
    Filled(r.unitAmount) \/ Filled(r.totalAmount) => Filled(r.currencyId)

capacityAssetMaintenanceItems ==
    [itemType |-> NotNull(Varchar(64)), description |-> NotNull(Varchar(500)),
     quantity |-> NotNull(Numeric), unitAmount |-> Numeric, totalAmount |-> Numeric,
     currencyId |-> Key]

capacityAssetMaintenanceItemsCheck(r) ==
    /\ r.quantity > 0 /\ AtLeast(r.unitAmount, 0) /\ AtLeast(r.totalAmount, 0)
    /\ Filled(r.unitAmount) \/ Filled(r.totalAmount) => Filled(r.currencyId)

Insurance ==
    [insurerPartyId |-> OptionalOrEmpty(Uuid), policyNumber |-> RequiredString(120),
     startsOn |-> Day, endsOn |-> Day, coverageAmount |-> Optional(NonNegative),
     currencyId |-> OptionalOrEmpty(Uuid),
     status |-> EnumerationOr("active", {"pending", "active", "expired", "cancelled"}),
     notes |-> OptionalString(1000)]

InsuranceParsedSlip(r) == Filled(r.coverageAmount) => Filled(r.currencyId)

InsuranceParsed(r) ==
    InOrder(r.startsOn, r.endsOn) /\ (Filled(r.coverageAmount) => Filled(r.currencyId))

capacityAssetInsurances ==
    [insurerPartyId |-> Key, policyNumber |-> NotNull(Varchar(120)),
     startsOn |-> NotNull(DateColumn), endsOn |-> NotNull(DateColumn),
     coverageAmount |-> Numeric, currencyId |-> Key,
     status |-> NotNull(Words({"pending", "active", "expired", "cancelled"})),
     notes |-> Varchar(1000)]

capacityAssetInsurancesCheck(r) ==
    /\ r.endsOn >= r.startsOn /\ AtLeast(r.coverageAmount, 0)
    /\ Filled(r.coverageAmount) => Filled(r.currencyId)

Inspection ==
    [inspectionType |-> RequiredString(64), inspectorUserId |-> OptionalOrEmpty(Uuid),
     performedAt |-> Instant,
     result |-> Enumeration({"passed", "failed", "conditional", "not_applicable"}),
     status |-> EnumerationOr("finalized", {"draft", "finalized", "cancelled"}),
     checklist |-> ObjectOrNone, notes |-> OptionalString(1500),
     nextDueAt |-> OptionalOrEmpty(Instant)]

InspectionParsed(r) == InOrder(r.performedAt, r.nextDueAt)

capacityAssetInspections ==
    [inspectionType |-> NotNull(Varchar(64)), inspectorUserId |-> Key,
     performedAt |-> NotNull(Timestamp),
     result |-> NotNull(Words({"passed", "failed", "conditional", "not_applicable"})),
     status |-> NotNull(Words({"draft", "finalized", "cancelled"})),
     checklist |-> NotNull(Json), notes |-> Varchar(1500), nextDueAt |-> Timestamp]

capacityAssetInspectionsCheck(r) == InOrder(r.performedAt, r.nextDueAt)

(* The last decimal place of a coordinate stands for a degree.             *)
AssetLocation ==
    [cityId |-> OptionalOrEmpty(Uuid), observedAt |-> Instant,
     latitude |-> Number(-900, 900), longitude |-> Number(-1800, 1800),
     source |-> Enumeration({"gps", "mobile", "manual", "integration", "telematics"}),
     accuracyM |-> Optional(NonNegative), providerReference |-> OptionalString(160)]

capacityAssetLocations ==
    [cityId |-> Key, observedAt |-> NotNull(Timestamp),
     latitude |-> NotNull(Numeric), longitude |-> NotNull(Numeric),
     source |-> NotNull(Words({"gps", "mobile", "manual", "integration", "telematics"})),
     accuracyM |-> Numeric, providerReference |-> Varchar(160)]

capacityAssetLocationsCheck(r) ==
    r.latitude \in -90..90 /\ r.longitude \in -180..180 /\ AtLeast(r.accuracyM, 0)

-----------------------------------------------------------------------------
(* Drivers and assets are updated, too: what a patch leaves out is kept,   *)
(* and the conditions are asked of the merged row.  Words of a fixed shape *)
(* (tax number, licence, plate) are one value.                             *)
Registration == {"pending", "qualified", "blocked", "inactive"}
Operation == {"active", "blocked", "inactive"}

Driver ==
    [carrierPartyId |-> OptionalOrEmpty(Referenced), fullName |-> Text(3, 180),
     taxId |-> Enumeration({"digits"}), email |-> OptionalString(254),
     phone |-> Text(8, 32), whatsapp |-> OptionalString(32),
     cnhNumber |-> Enumeration({"digits"}), cnhCategory |-> Enumeration({"category"}),
     cnhExpiresOn |-> Day,
     registrationStatus |-> Left(Enumeration(Registration), "pending"),
     operationalStatus |-> Left(Enumeration(Operation), "inactive"),
     statusReason |-> OptionalString(500)]

DriverParsed(r) ==
    /\ r.operationalStatus = "active" => r.registrationStatus = "qualified"
    /\ \/ r.registrationStatus \in {"blocked", "inactive"}
       \/ r.operationalStatus = "blocked"
       => Filled(r.statusReason)

(* validateCarrier: none, or an active party with the role.                *)
ActiveCarrier(party) == party # "retired"

drivers ==
    [carrierPartyId |-> ReferencedKey, fullName |-> NotNull(Varchar(180)),
     taxId |-> NotNull(Words({"digits"})), email |-> Varchar(254),
     phone |-> NotNull(Varchar(32)), whatsapp |-> Varchar(32),
     cnhNumber |-> NotNull(Words({"digits"})), cnhCategory |-> NotNull(Words({"category"})),
     cnhExpiresOn |-> NotNull(DateColumn),
     registrationStatus |-> NotNull(Words({"pending", "qualified", "blocked", "inactive"})),
     operationalStatus |-> NotNull(Words({"active", "blocked", "inactive"})),
     statusReason |-> Varchar(500)]

driversCheck(r) ==
    /\ r.fullName >= 3 /\ r.phone >= 8
    /\ r.operationalStatus # "active" \/ r.registrationStatus = "qualified"
    /\ \/ /\ r.registrationStatus \notin {"blocked", "inactive"}
          /\ r.operationalStatus # "blocked"
       \/ Filled(r.statusReason)

AssetDimensions == {"maxLengthM", "maxWidthM", "maxHeightM"}

CapacityAsset ==
    [carrierPartyId |-> OptionalOrEmpty(Referenced), ownerPartyId |-> OptionalOrEmpty(Referenced),
     ownerName |-> OptionalString(180), assetKind |-> Enumeration({"vehicle", "implement"}),
     identifier |-> Text(2, 64),
     plate |-> [OptionalEnum({"plate"}) EXCEPT !.usual = "plate"],
     vehicleType |-> Text(2, 80), bodyType |-> Text(2, 80),
     capacityWeightKg |-> Positive, capacityVolumeM3 |-> OptionalOrEmpty(Positive),
     maxLengthM |-> OptionalOrEmpty(Positive), maxWidthM |-> OptionalOrEmpty(Positive),
     maxHeightM |-> OptionalOrEmpty(Positive), trackingAvailable |-> Left(Flag, FALSE),
     status |-> Left(Enumeration(Operation), "inactive"), statusReason |-> OptionalString(500)]

(* The table wants three characters of an owner's name; here one will do.  *)
(* Its CHECK of the dimensions is null, and passes, where one is null.     *)
CapacityAssetParsed(r) ==
    /\ Filled(r.carrierPartyId) \/ Filled(r.ownerPartyId) \/ Filled(r.ownerName)
    /\ Cardinality({d \in AssetDimensions : Filled(r[d])}) \in {0, 3}
    /\ r.status = "blocked" => Filled(r.statusReason)

(* validateOwner: none, or an active party.                                *)
ActiveOwner(party) == party # "retired"

capacityAssets ==
    [carrierPartyId |-> ReferencedKey, ownerPartyId |-> ReferencedKey, ownerName |-> Varchar(180),
     assetKind |-> NotNull(Words({"vehicle", "implement"})),
     identifier |-> NotNull(Varchar(64)), plate |-> Words({"plate"}),
     vehicleType |-> NotNull(Varchar(80)), bodyType |-> NotNull(Varchar(80)),
     capacityWeightKg |-> NotNull(Numeric), capacityVolumeM3 |-> Numeric,
     maxLengthM |-> Numeric, maxWidthM |-> Numeric, maxHeightM |-> Numeric,
     trackingAvailable |-> NotNull(Boolean),
     status |-> NotNull(Words({"active", "blocked", "inactive"})),
     statusReason |-> Varchar(500)]

capacityAssetsCheck(r) ==
    /\ r.identifier >= 2 /\ r.vehicleType >= 2 /\ r.bodyType >= 2
    /\ r.capacityWeightKg > 0 /\ AtLeast(r.capacityVolumeM3, 1)
    /\ \A d \in AssetDimensions : AtLeast(r[d], 1)
    /\ \/ Filled(r.carrierPartyId) \/ Filled(r.ownerPartyId)
       \/ Filled(r.ownerName) /\ r.ownerName >= 3
    /\ r.status # "blocked" \/ Filled(r.statusReason)

-----------------------------------------------------------------------------
CapacityDesk ==
    [driver_documents |-> [form |-> DocumentRegister, columns |-> driverDocuments],
     driver_qualifications |-> [form |-> Qualification, columns |-> driverQualifications],
     driver_courses |-> [form |-> Course, columns |-> driverCourses],
     driver_availability |-> [form |-> Availability, columns |-> driverAvailability],
     driver_unavailability_periods |->
         [form |-> Unavailability, columns |-> driverUnavailabilityPeriods],
     driver_emergency_contacts |->
         [form |-> EmergencyContact, columns |-> driverEmergencyContacts],
     driver_blocks |-> [form |-> Block, columns |-> driverBlocks],
     driver_ratings |-> [form |-> Rating, columns |-> driverRatings],
     capacity_asset_documents |->
         [form |-> DocumentRegister, columns |-> capacityAssetDocuments],
     capacity_asset_availability |->
         [form |-> AssetAvailability, columns |-> capacityAssetAvailability],
     capacity_asset_unavailability_periods |->
         [form |-> Unavailability, columns |-> capacityAssetUnavailabilityPeriods],
     capacity_asset_blocks |-> [form |-> AssetBlock, columns |-> capacityAssetBlocks],
     capacity_asset_capabilities |->
         [form |-> AssetCapabilities, columns |-> capacityAssetCapabilities],
     capacity_asset_maintenance_plans |->
         [form |-> MaintenancePlan, columns |-> capacityAssetMaintenancePlans],
     capacity_asset_maintenance |-> [form |-> Maintenance, columns |-> capacityAssetMaintenance],
     capacity_asset_maintenance_items |->
         [form |-> MaintenanceItem, columns |-> capacityAssetMaintenanceItems],
     capacity_asset_insurances |-> [form |-> Insurance, columns |-> capacityAssetInsurances],
     capacity_asset_inspections |-> [form |-> Inspection, columns |-> capacityAssetInspections],
     capacity_asset_locations |-> [form |-> AssetLocation, columns |-> capacityAssetLocations],
     drivers |-> [form |-> Driver, columns |-> drivers],
     capacity_assets |-> [form |-> CapacityAsset, columns |-> capacityAssets]]

CapacityAdmits(t, r) ==
    CASE t \in {"driver_documents", "capacity_asset_documents"} -> DocumentRegisterParsed(r)
      [] t = "driver_qualifications" -> QualificationParsed(r)
      [] t = "driver_courses" -> CourseParsed(r)
      [] t \in {"driver_availability", "capacity_asset_availability"} -> AvailabilityParsed(r)
      [] t \in {"driver_unavailability_periods", "capacity_asset_unavailability_periods"} ->
             UnavailabilityParsed(r)
      [] t = "driver_emergency_contacts" -> EmergencyContactParsed(r)
      [] t \in {"driver_blocks", "capacity_asset_blocks"} -> BlockParsed(r)
      [] t = "capacity_asset_capabilities" -> AssetCapabilitiesParsed(r)
      [] t = "capacity_asset_maintenance_plans" -> MaintenancePlanParsed(r)
      [] t = "capacity_asset_maintenance" -> MaintenanceParsed(r)
      [] t = "capacity_asset_maintenance_items" -> MaintenanceItemParsed(r)
      [] t = "capacity_asset_insurances" -> InsuranceParsed(r)
      [] t = "capacity_asset_inspections" -> InspectionParsed(r)
      [] t = "drivers" -> DriverParsed(r) /\ ActiveCarrier(r.carrierPartyId)
      [] t = "capacity_assets" ->
             /\ CapacityAssetParsed(r)
             /\ ActiveCarrier(r.carrierPartyId) /\ ActiveOwner(r.ownerPartyId)
      [] OTHER -> TRUE

CapacityInserts(t, r) ==
    IF t \in {"driver_blocks", "capacity_asset_blocks"} THEN BlockInserted(r) ELSE r

CapacityTakes(t, r) ==
    CASE t = "driver_documents" -> driverDocumentsCheck(r)
      [] t = "driver_qualifications" -> driverQualificationsCheck(r)
      [] t = "driver_courses" -> driverCoursesCheck(r)
      [] t = "driver_availability" -> driverAvailabilityCheck(r)
      [] t = "driver_unavailability_periods" -> driverUnavailabilityPeriodsCheck(r)
      [] t = "driver_emergency_contacts" -> driverEmergencyContactsCheck(r)
      [] t = "driver_blocks" -> driverBlocksCheck(r)
      [] t = "driver_ratings" -> driverRatingsCheck(r)
      [] t = "capacity_asset_documents" -> capacityAssetDocumentsCheck(r)
      [] t = "capacity_asset_availability" -> capacityAssetAvailabilityCheck(r)
      [] t = "capacity_asset_unavailability_periods" ->
             capacityAssetUnavailabilityPeriodsCheck(r)
      [] t = "capacity_asset_blocks" -> capacityAssetBlocksCheck(r)
      [] t = "capacity_asset_capabilities" -> capacityAssetCapabilitiesCheck(r)
      [] t = "capacity_asset_maintenance_plans" -> capacityAssetMaintenancePlansCheck(r)
      [] t = "capacity_asset_maintenance" -> capacityAssetMaintenanceCheck(r)
      [] t = "capacity_asset_maintenance_items" -> capacityAssetMaintenanceItemsCheck(r)
      [] t = "capacity_asset_insurances" -> capacityAssetInsurancesCheck(r)
      [] t = "capacity_asset_inspections" -> capacityAssetInspectionsCheck(r)
      [] t = "capacity_asset_locations" -> capacityAssetLocationsCheck(r)
      [] t = "drivers" -> driversCheck(r)
      [] t = "capacity_assets" -> capacityAssetsCheck(r)

(* Where a validator asks for less than its table: an end at the start, or *)
(* before now; a name of one character; an owner's of two.                 *)
CapacityEdge(t, r) ==
    \/ t \in {"driver_blocks", "capacity_asset_blocks"} /\ Filled(r.endsAt) /\ r.endsAt <= r.startsAt
    \/ t = "driver_emergency_contacts" /\ r.name = 1
    \/ t = "capacity_assets" /\ Filled(r.ownerName) /\ r.ownerName < 3
=============================================================================
