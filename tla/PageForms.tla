------------------------------ MODULE PageForms ------------------------------
(***************************************************************************)
(* The pages of apps/web that write records: one more statement of the     *)
(* rules of a form, in what a page offers whoever fills it in.  The API    *)
(* trusts none of them, so that a page is a caller among others; but what  *)
(* it offers is meant to be what the API admits.  XPage is what the page   *)
(* of X sends, a control for each field; the options it lists are written  *)
(* out as the page has them.  Other fields of the desk are not sent.       *)
(***************************************************************************)
EXTENDS Admission, TLC

-----------------------------------------------------------------------------
(* A control: the values it offers, Null where it may be left blank; what  *)
(* may be typed into it, and the lengths it holds a text to.               *)
Control(offers, typed) == [offers |-> offers, typed |-> typed, least |-> 1, most |-> Most]

Choice(among) == Control(among, "nothing")
ChoiceOrNone(among) == Choice(among \cup {Null})
YesNo == Choice(BOOLEAN)
JsonBox == Choice({"object"})

TextBox == Control({Null}, "text")
Sized(box, least, most) == [box EXCEPT !.least = least, !.most = most]
KeyBox == Control({Null}, "key")
NumberBox == Control({Null}, "number")
PositiveBox == Control({Null}, "positive")
MoneyBox == Control({}, "money")
CountBox == Control({Null}, "count")
DateBox == Control({Null}, "day")

Needed(box) == [box EXCEPT !.offers = @ \ {Null}]

(* What is typed, of the values a rule distinguishes.  A key, a plate and a*)
(* tax number are texts of any shape; no page counts finer than a column;  *)
(* an amount has cents; the browser knows the days there are.              *)
Typed(box, rule) ==
    LET written == rule.tries \ {Unsent, Null, Empty}
        counted == written \ ({Unfit} \cup (-4..4 \ {0}))
    IN  CASE box.typed = "nothing" -> {}
          [] box.typed = "text" -> {v \in written \ {Unfit, 0} : v <= box.most}
          [] box.typed = "key" -> written
          [] box.typed = "words" -> {"text", "long"}
          [] box.typed = "number" -> counted
          [] box.typed = "positive" -> {v \in counted : v > 0}
          [] box.typed = "money" -> {v \in counted : v >= 10 /\ v % 10 = 0}
          [] box.typed = "count" -> written \ {Unfit}
          [] box.typed = "day" -> {v \in written : v \in Moments}

May(box, rule) == box.offers \cup Typed(box, rule)

(* What a page vouches for: what it offers, and a text of the length it    *)
(* asks for.                                                               *)
Vouched(box, v) ==
    v \in box.offers \/ (box.typed = "text" /\ box.most < Most /\ v \in box.least..box.most)

-----------------------------------------------------------------------------
(* What is filed about drivers and assets: qualification-config.ts.        *)
LifecycleStatus == ChoiceOrNone({"pending", "valid", "expired", "blocked", "inactive"})

DocumentRegisterPage ==
    [documentTypeId |-> Needed(KeyBox), documentNumber |-> TextBox, issuer |-> TextBox,
     issuedOn |-> DateBox, expiresOn |-> DateBox, status |-> LifecycleStatus,
     validationStatus |-> ChoiceOrNone({"pending", "validated", "rejected", "not_required"}),
     notes |-> TextBox]
DriverDocumentPage == DocumentRegisterPage
AssetDocumentPage == DocumentRegisterPage

QualificationPage ==
    [qualificationType |-> Choice({"license", "endorsement", "certification", "authorization",
                                   "other"}),
     code |-> Needed(TextBox), name |-> Needed(TextBox), certificateNumber |-> TextBox,
     issuer |-> TextBox, issuedOn |-> DateBox, expiresOn |-> DateBox,
     status |-> LifecycleStatus, notes |-> TextBox]

CoursePage ==
    [courseCode |-> Needed(TextBox), courseName |-> Needed(TextBox), provider |-> TextBox,
     certificateNumber |-> TextBox, completedOn |-> Needed(DateBox), expiresOn |-> DateBox,
     workloadHours |-> NumberBox, status |-> LifecycleStatus, notes |-> TextBox]

DriverAvailabilityPage ==
    [status |-> Choice({"available", "assigned", "unavailable", "offline"}),
     availableFrom |-> DateBox, availableUntil |-> DateBox, currentCityId |-> KeyBox,
     destinationCityId |-> KeyBox, maxDistanceKm |-> NumberBox, notes |-> TextBox]

AssetAvailabilityPage ==
    [status |-> Choice({"available", "assigned", "maintenance", "unavailable", "offline"}),
     availableFrom |-> DateBox, availableUntil |-> DateBox, currentCityId |-> KeyBox,
     notes |-> TextBox]

UnavailabilityPage ==
    [reasonCode |-> Needed(TextBox), reason |-> Needed(TextBox), startsAt |-> Needed(DateBox),
     endsAt |-> Needed(DateBox),
     status |-> ChoiceOrNone({"scheduled", "active", "completed", "cancelled"})]
DriverUnavailabilityPage == UnavailabilityPage
AssetUnavailabilityPage == UnavailabilityPage

EmergencyContactPage ==
    [name |-> Needed(TextBox), relationship |-> TextBox, phone |-> Needed(TextBox),
     isPrimary |-> YesNo, isActive |-> YesNo]

BlockPage(severities) ==
    [reasonCode |-> Needed(TextBox), reason |-> Needed(TextBox),
     severity |-> ChoiceOrNone(severities), startsAt |-> DateBox, endsAt |-> DateBox]
DriverBlockPage == BlockPage({"operational", "compliance", "legal", "safety"})
AssetBlockPage == BlockPage({"operational", "compliance", "legal", "safety", "maintenance"})

RatingPage ==
    [transportRequestId |-> KeyBox, dimension |-> Needed(TextBox), score |-> Needed(NumberBox),
     note |-> TextBox]

AssetCapabilitiesPage ==
    [refrigerated |-> YesNo, sealed |-> YesNo, sideLoading |-> YesNo, rearLoading |-> YesNo,
     dangerousGoods |-> YesNo, foodGrade |-> YesNo, trackingCapable |-> YesNo,
     maxPallets |-> CountBox, minTemperatureC |-> NumberBox, maxTemperatureC |-> NumberBox]

MaintenancePlanPage ==
    [name |-> Needed(TextBox), maintenanceType |-> Needed(TextBox), intervalDays |-> CountBox,
     intervalOdometerKm |-> NumberBox, nextDueOn |-> DateBox, nextDueOdometerKm |-> NumberBox,
     isActive |-> YesNo, notes |-> TextBox]

MaintenancePage ==
    [maintenancePlanId |-> KeyBox, providerPartyId |-> KeyBox,
     maintenanceType |-> Needed(TextBox),
     status |-> ChoiceOrNone({"planned", "in_progress", "completed", "cancelled"}),
     plannedAt |-> DateBox, startedAt |-> DateBox, completedAt |-> DateBox,
     odometerKm |-> NumberBox, totalCost |-> NumberBox, currencyId |-> KeyBox,
     notes |-> TextBox]

MaintenanceItemPage ==
    [itemType |-> Needed(TextBox), description |-> Needed(TextBox),
     quantity |-> Needed(NumberBox), unitAmount |-> NumberBox, totalAmount |-> NumberBox,
     currencyId |-> KeyBox]

InsurancePage ==
    [insurerPartyId |-> KeyBox, policyNumber |-> Needed(TextBox), startsOn |-> Needed(DateBox),
     endsOn |-> Needed(DateBox), coverageAmount |-> NumberBox, currencyId |-> KeyBox,
     status |-> ChoiceOrNone({"pending", "active", "expired", "cancelled"}), notes |-> TextBox]

InspectionPage ==
    [inspectionType |-> Needed(TextBox), inspectorUserId |-> KeyBox,
     performedAt |-> Needed(DateBox),
     result |-> Choice({"passed", "failed", "conditional", "not_applicable"}),
     status |-> ChoiceOrNone({"draft", "finalized", "cancelled"}), checklist |-> JsonBox,
     notes |-> TextBox, nextDueAt |-> DateBox]

AssetLocationPage ==
    [cityId |-> KeyBox, observedAt |-> Needed(DateBox), latitude |-> Needed(NumberBox),
     longitude |-> Needed(NumberBox),
     source |-> Choice({"gps", "mobile", "manual", "integration", "telematics"}),
     accuracyM |-> NumberBox, providerReference |-> TextBox]

-----------------------------------------------------------------------------
(* Parties, drivers, assets and the master data: record-config.ts.         *)
(* At least one role is ticked; the homologation goes with a partner only. *)
PartyPage(roles) ==
    [taxId |-> Needed(TextBox), legalName |-> Needed(TextBox), tradeName |-> TextBox,
     email |-> TextBox, phone |-> TextBox, roles |-> Choice(SUBSET roles \ {{}})]

HomologationPage ==
    [homologationStatus |-> Choice({"pending", "approved", "rejected"}),
     homologationNotes |-> TextBox]

ClientPage == PartyPage({"customer", "shipper", "consignee"})
SupplierPage == PartyPage({"supplier", "partner"}) @@ HomologationPage
CarrierPage == PartyPage({"carrier", "partner"}) @@ HomologationPage

DriverPage ==
    [carrierPartyId |-> KeyBox, fullName |-> Needed(TextBox), taxId |-> Needed(KeyBox),
     email |-> TextBox, phone |-> Needed(TextBox), whatsapp |-> TextBox,
     cnhNumber |-> Needed(KeyBox), cnhCategory |-> Choice({"category"}),
     cnhExpiresOn |-> Needed(DateBox),
     registrationStatus |-> Choice({"pending", "qualified", "blocked", "inactive"}),
     operationalStatus |-> Choice({"active", "blocked", "inactive"}), statusReason |-> TextBox]

(* The API takes an asset whose owner is a party; the page asks for a name.*)
AssetPage(kind) ==
    [carrierPartyId |-> KeyBox, ownerPartyId |-> KeyBox, ownerName |-> Needed(TextBox),
     assetKind |-> Choice({kind}), identifier |-> Needed(TextBox), plate |-> KeyBox,
     vehicleType |-> Needed(TextBox), bodyType |-> Needed(TextBox),
     capacityWeightKg |-> Needed(PositiveBox), capacityVolumeM3 |-> PositiveBox,
     maxLengthM |-> PositiveBox, maxWidthM |-> PositiveBox, maxHeightM |-> PositiveBox,
     trackingAvailable |-> YesNo, status |-> Choice({"active", "blocked", "inactive"}),
     statusReason |-> TextBox]

(* The page of a location of its own: it names no party, whatever is typed.*)
LocationPage ==
    [code |-> Needed(TextBox), name |-> Needed(TextBox),
     type |-> Choice({"customer", "shipper", "consignee", "terminal", "warehouse", "yard",
                      "port", "airport", "border", "support", "other"}),
     partyId |-> Choice({Null}), addressId |-> Choice({Null}), cityId |-> Needed(KeyBox),
     postalCode |-> TextBox, street |-> Needed(TextBox), number |-> TextBox,
     complement |-> TextBox, district |-> TextBox, latitude |-> NumberBox,
     longitude |-> NumberBox, operationalReference |-> TextBox, isActive |-> YesNo]

DimensionPage ==
    [organizationId |-> Needed(KeyBox), businessUnitId |-> KeyBox, code |-> Needed(TextBox),
     name |-> Needed(TextBox), isActive |-> YesNo]

CommodityPage ==
    [code |-> Needed(TextBox), name |-> Needed(TextBox), description |-> TextBox,
     defaultCargoTypeId |-> KeyBox, isHazardous |-> YesNo,
     requiresTemperatureControl |-> YesNo, isActive |-> YesNo]

PartyGroupPage ==
    [code |-> Needed(TextBox), name |-> Needed(TextBox),
     groupType |-> Choice({"economic", "commercial", "operational", "risk", "other"}),
     isActive |-> YesNo]

CustomFieldPage ==
    [entityType |-> Choice({"business_party", "driver", "capacity_asset", "transport_request",
                            "location"}),
     key |-> Needed(TextBox), label |-> Needed(TextBox),
     dataType |-> Choice({"string", "number", "boolean", "date", "datetime", "json"}),
     isRequired |-> YesNo, validation |-> ChoiceOrNone({"object"}), isActive |-> YesNo]

PartyRequirementPage ==
    [requirementType |-> Needed(TextBox), value |-> Control({}, "words"),
     isMandatory |-> YesNo, validFrom |-> DateBox, validUntil |-> DateBox, isActive |-> YesNo]

-----------------------------------------------------------------------------
(* The catalogues: reference-catalog-config.ts.                            *)
CommonPage == [code |-> Needed(TextBox), name |-> Needed(TextBox), isActive |-> YesNo]
DescribedPage == CommonPage @@ [description |-> TextBox]

VehicleTypePage == DescribedPage @@ [defaultMaxWeightKg |-> PositiveBox]
BodyTypePage ==
    DescribedPage @@ [isClosed |-> YesNo, supportsSideLoading |-> YesNo,
                      supportsRearLoading |-> YesNo]
CargoTypePage == DescribedPage @@ [requiresSpecialHandling |-> YesNo]
PackageTypePage == DescribedPage @@ [stackableDefault |-> ChoiceOrNone(BOOLEAN)]
DocumentTypePage ==
    CommonPage @@ [subjectScope |-> Choice({"party", "driver", "asset", "request", "trip",
                                            "financial", "other"}),
                   hasExpiry |-> YesNo, requiresValidation |-> YesNo]
TagPage == DescribedPage

-----------------------------------------------------------------------------
(* Documents: document-forms.tsx.  A list offers the rows there are.       *)
Rows == {"this", "other"}

DocumentEditPage ==
    [title |-> Needed(TextBox), externalReference |-> TextBox, issuedOn |-> DateBox,
     expiresOn |-> DateBox, metadata |-> JsonBox, notes |-> TextBox]
DocumentCreatePage == DocumentEditPage @@ [documentTypeId |-> Choice(Rows)]

DocumentValidationPage ==
    [documentVersionId |-> ChoiceOrNone(Rows),
     validationType |-> Choice({"manual", "system", "external"}),
     result |-> Choice({"valid", "invalid", "review_required"}), providerReference |-> TextBox,
     details |-> JsonBox, notes |-> TextBox]

(* What a document is to what it is linked with.  Of a type of the scope   *)
(* "other" the page offers the relations to a party and to a request alike.*)
RelationOptions(scope) ==
    CASE scope = "request" -> {"request", "commercial", "compliance", "reference", "other"}
      [] scope = "party" -> {"registration", "compliance", "contract", "insurance", "other"}
      [] scope = "other" -> {"registration", "compliance", "contract", "insurance", "request",
                             "commercial", "reference", "other"}
DocumentLinkPage(scope) == [relationType |-> Choice(RelationOptions(scope))]

DocumentArchivePage == [reason |-> Needed(TextBox)]

-----------------------------------------------------------------------------
(* What is owed and paid, and the statements of the bank.                  *)
ObligationPage ==
    [transportContractId |-> Choice(Rows), dueAt |-> Needed(DateBox), tripId |-> KeyBox,
     notes |-> TextBox]
ObligationEditPage == [dueAt |-> Needed(DateBox), tripId |-> KeyBox, notes |-> TextBox]

LedgerPage(kinds) ==
    [kind |-> Choice(kinds), amount |-> MoneyBox, relatedTransactionId |-> ChoiceOrNone(Rows),
     proofDocumentId |-> KeyBox, notes |-> TextBox]
PaymentPage == LedgerPage({"advance", "payment", "reversal"})
ReceiptPage == LedgerPage({"receipt", "reversal"})

ReceivablePage ==
    [transportRequestId |-> Choice(Rows), invoicedAmount |-> MoneyBox,
     dueAt |-> Needed(DateBox), fiscalDocumentId |-> KeyBox, fiscalReference |-> TextBox,
     notes |-> TextBox]
ReceivableEditPage ==
    [dueAt |-> Needed(DateBox), fiscalDocumentId |-> KeyBox, fiscalReference |-> TextBox,
     notes |-> TextBox]

CancelPage == [reason |-> Sized(Needed(TextBox), 10, Most)]

StatementPage ==
    [source |-> Sized(Needed(TextBox), 1, 40), provider |-> Sized(TextBox, 1, 80),
     externalBatchId |-> Sized(TextBox, 1, 160), accountReference |-> Sized(TextBox, 1, 160),
     periodStart |-> DateBox, periodEnd |-> DateBox]

SuggestedMatchPage ==
    [targetType |-> Choice({"customer_receivable", "carrier_payment"}),
     targetId |-> Choice(Rows), matchMethod |-> Choice({"suggested"}),
     proofDocumentId |-> KeyBox, notes |-> TextBox]
ManualMatchPage ==
    [SuggestedMatchPage EXCEPT !.targetId = Needed(KeyBox), !.matchMethod = Choice({"manual"})]

IgnorePage == [reason |-> Sized(Needed(TextBox), 10, 1000)]
ReversePage == [reason |-> Sized(Needed(TextBox), 10, 1000)]

-----------------------------------------------------------------------------
(* Where a page posts what it sends, and the controls of the page that     *)
(* edits a row, if there is one.                                           *)
Creates(desk, controls) == [desk |-> desk, controls |-> controls, edits |-> <<>>]
Keeps(desk, controls) == [desk |-> desk, controls |-> controls, edits |-> controls]

QualificationPages ==
    [driver_document |-> Creates("driver_documents", DriverDocumentPage),
     driver_qualification |-> Creates("driver_qualifications", QualificationPage),
     driver_course |-> Creates("driver_courses", CoursePage),
     driver_availability |-> Creates("driver_availability", DriverAvailabilityPage),
     driver_unavailability |->
         Creates("driver_unavailability_periods", DriverUnavailabilityPage),
     driver_emergency_contact |-> Creates("driver_emergency_contacts", EmergencyContactPage),
     driver_block |-> Creates("driver_blocks", DriverBlockPage),
     driver_rating |-> Creates("driver_ratings", RatingPage),
     asset_capabilities |-> Creates("capacity_asset_capabilities", AssetCapabilitiesPage),
     asset_document |-> Creates("capacity_asset_documents", AssetDocumentPage),
     asset_maintenance_plan |->
         Creates("capacity_asset_maintenance_plans", MaintenancePlanPage),
     asset_maintenance |-> Creates("capacity_asset_maintenance", MaintenancePage),
     asset_maintenance_item |->
         Creates("capacity_asset_maintenance_items", MaintenanceItemPage),
     asset_insurance |-> Creates("capacity_asset_insurances", InsurancePage),
     asset_inspection |-> Creates("capacity_asset_inspections", InspectionPage),
     asset_availability |-> Creates("capacity_asset_availability", AssetAvailabilityPage),
     asset_unavailability |->
         Creates("capacity_asset_unavailability_periods", AssetUnavailabilityPage),
     asset_location |-> Creates("capacity_asset_locations", AssetLocationPage),
     asset_block |-> Creates("capacity_asset_blocks", AssetBlockPage)]

RecordPages ==
    [party_client |-> Creates("business_parties", ClientPage),
     party_supplier |-> Creates("business_partners", SupplierPage),
     party_carrier |-> Creates("business_partners", CarrierPage),
     driver |-> Keeps("drivers", DriverPage),
     vehicle |-> Keeps("capacity_assets", AssetPage("vehicle")),
     implement |-> Keeps("capacity_assets", AssetPage("implement")),
     location |-> Creates("standalone_locations", LocationPage),
     department |-> Creates("departments", DimensionPage),
     cost_center |-> Creates("cost_centers", DimensionPage),
     commodity |-> Creates("commodities", CommodityPage),
     party_group |-> Creates("business_party_groups", PartyGroupPage),
     custom_field |-> Creates("custom_field_definitions", CustomFieldPage),
     party_requirement |-> Creates("business_party_requirements", PartyRequirementPage)]

CataloguePages ==
    [vehicle_types |-> Keeps("vehicle_types", VehicleTypePage),
     body_types |-> Keeps("body_types", BodyTypePage),
     cargo_types |-> Keeps("cargo_types", CargoTypePage),
     package_types |-> Keeps("package_types", PackageTypePage),
     document_types |-> Keeps("document_types", DocumentTypePage),
     tags |-> Keeps("tags", TagPage)]

DocumentPages ==
    [document |-> [Creates("documents", DocumentCreatePage) EXCEPT !.edits = DocumentEditPage],
     document_archive |-> Creates("deleted_documents", DocumentArchivePage),
     document_validation |-> Creates("document_validations", DocumentValidationPage),
     party_link |-> Creates("business_party_documents", DocumentLinkPage("party")),
     request_link |-> Creates("transport_request_documents", DocumentLinkPage("request")),
     other_party_link |-> Creates("business_party_documents", DocumentLinkPage("other")),
     other_request_link |-> Creates("transport_request_documents", DocumentLinkPage("other"))]

PaymentPages ==
    [obligation |-> [Creates("carrier_payment_obligations", ObligationPage)
                     EXCEPT !.edits = ObligationEditPage],
     payment |-> Creates("carrier_payment_transactions", PaymentPage),
     obligation_cancel |-> Creates("cancelled_obligations", CancelPage)]

ReceivablePages ==
    [receivable |-> [Creates("customer_receivables", ReceivablePage)
                     EXCEPT !.edits = ReceivableEditPage],
     receipt |-> Creates("customer_receivable_transactions", ReceiptPage),
     receivable_cancel |-> Creates("cancelled_receivables", CancelPage)]

ReconciliationPages ==
    [statement |-> Creates("financial_reconciliation_imports", StatementPage),
     suggested_match |-> Creates("financial_reconciliation_matches", SuggestedMatchPage),
     manual_match |-> Creates("financial_reconciliation_matches", ManualMatchPage),
     ignore |-> Creates("ignored_entries", IgnorePage),
     reverse |-> Creates("reversed_matches", ReversePage)]

Pages ==
    QualificationPages @@ RecordPages @@ CataloguePages @@ DocumentPages @@ PaymentPages
      @@ ReceivablePages @@ ReconciliationPages

(* A relation to the other of the two is refused: the page's own default   *)
(* is one, where the row is a request.                                     *)
PageEdge(page) == page \in {"other_party_link", "other_request_link"}
=============================================================================
