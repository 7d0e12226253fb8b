---------------------------- MODULE DemandForms ----------------------------
(***************************************************************************)
(* The forms of the rows below a transport request, of lanes, and of the   *)
(* master data: freight-normalization.validation.ts and the validators of  *)
(* apps/api/src/master-data beside their tables.  X is what a validator    *)
(* reads of a body, XParsed the rest it asks of what it read; the table is *)
(* named as in the schema, its Checks are the CHECKs that its column types *)
(* do not say.                                                             *)
(***************************************************************************)
EXTENDS Admission

-----------------------------------------------------------------------------
Item ==
    [sequence |-> Whole(1), commodityId |-> OptionalOrEmpty(Uuid),
     cargoTypeId |-> OptionalOrEmpty(Uuid), sku |-> OptionalString(120),
     description |-> RequiredString(500), quantity |-> Left(Positive, 10),
     unitOfMeasureId |-> OptionalOrEmpty(Uuid), totalWeightKg |-> OptionalOrEmpty(Positive),
     totalVolumeM3 |-> OptionalOrEmpty(Positive), hazardous |-> Left(Flag, FALSE),
     minTemperatureC |-> OptionalOrEmpty(AnyNumber),
     maxTemperatureC |-> OptionalOrEmpty(AnyNumber),
     stackable |-> OptionalOrEmpty(Flag), notes |-> OptionalString(1000)]

ItemParsed(r) == AtMost(r.minTemperatureC, r.maxTemperatureC)

transportRequestItems ==
    [sequence |-> NotNull(IntegerColumn), commodityId |-> Key, cargoTypeId |-> Key,
     sku |-> Varchar(120), description |-> NotNull(Varchar(500)),
     quantity |-> NotNull(Numeric), unitOfMeasureId |-> Key, totalWeightKg |-> Numeric,
     totalVolumeM3 |-> Numeric, hazardous |-> NotNull(Boolean),
     minTemperatureC |-> Numeric, maxTemperatureC |-> Numeric,
     stackable |-> Boolean, notes |-> Varchar(1000)]

transportRequestItemsCheck(r) ==
    /\ r.sequence > 0 /\ r.description > 0 /\ r.quantity > 0
    /\ AtLeast(r.totalWeightKg, 1) /\ AtLeast(r.totalVolumeM3, 1)
    /\ AtMost(r.minTemperatureC, r.maxTemperatureC)

PackageSides == {"lengthM", "widthM", "heightM"}

Package ==
    [itemId |-> OptionalOrEmpty(Uuid), sequence |-> Whole(1),
     packageTypeId |-> OptionalOrEmpty(Uuid), quantity |-> Left(Whole(1), 1),
     weightKg |-> OptionalOrEmpty(Positive), lengthM |-> Told(OptionalOrEmpty(Positive)),
     widthM |-> Told(OptionalOrEmpty(Positive)), heightM |-> Told(OptionalOrEmpty(Positive)),
     stackable |-> OptionalOrEmpty(Flag), label |-> OptionalString(160),
     barcode |-> OptionalString(160), notes |-> OptionalString(1000)]

(* All three sides are sent, or none; a side sent as null counts as sent.  *)
PackageParsed(r) == Cardinality({d \in PackageSides : r[d] # Unsent}) \in {0, 3}

transportRequestPackages ==
    [itemId |-> Key, sequence |-> NotNull(IntegerColumn), packageTypeId |-> Key,
     quantity |-> NotNull(IntegerColumn), weightKg |-> Numeric, lengthM |-> Numeric,
     widthM |-> Numeric, heightM |-> Numeric, stackable |-> Boolean, label |-> Varchar(160),
     barcode |-> Varchar(160), notes |-> Varchar(1000)]

(* The CHECK of the sides is null, and passes, where one of them is null.  *)
transportRequestPackagesCheck(r) ==
    /\ r.sequence > 0 /\ r.quantity > 0 /\ AtLeast(r.weightKg, 1)
    /\ \A d \in PackageSides : AtLeast(r[d], 1)

RequirementTypes ==
    {"vehicle_type", "body_type", "tracking", "temperature_min", "temperature_max",
     "handling", "certification", "equipment", "insurance", "other"}

Requirement ==
    [code |-> RequiredString(80),
     requirementType |-> [Enumeration(RequirementTypes) EXCEPT !.usual = "other"],
     vehicleTypeId |-> OptionalOrEmpty(Uuid), bodyTypeId |-> OptionalOrEmpty(Uuid),
     required |-> Left(Flag, TRUE), valueText |-> OptionalString(500),
     valueNumeric |-> Told(OptionalOrEmpty(AnyNumber)), valueBoolean |-> OptionalOrEmpty(Flag),
     metadata |-> ObjectOrNone, notes |-> OptionalString(1000)]

(* data.valueNumeric === null: a temperature that is not sent is not null. *)
RequirementParsed(r) ==
    /\ r.requirementType = "vehicle_type" => Filled(r.vehicleTypeId)
    /\ r.requirementType = "body_type" => Filled(r.bodyTypeId)
    /\ r.requirementType = "tracking" => Filled(r.valueBoolean)
    /\ r.requirementType \in {"temperature_min", "temperature_max"} => Filled(r.valueNumeric)

transportRequestRequirements ==
    [code |-> NotNull(Varchar(80)),
     requirementType |-> NotNull(Words({"vehicle_type", "body_type", "tracking",
         "temperature_min", "temperature_max", "handling", "certification", "equipment",
         "insurance", "other"})),
     vehicleTypeId |-> Key, bodyTypeId |-> Key, required |-> NotNull(Boolean),
     valueText |-> Varchar(500), valueNumeric |-> Numeric, valueBoolean |-> Boolean,
     metadata |-> NotNull(Json), notes |-> Varchar(1000)]

transportRequestRequirementsCheck(r) ==
    /\ r.code > 0
    /\ r.requirementType = "vehicle_type" => Filled(r.vehicleTypeId) /\ ~Filled(r.bodyTypeId)
    /\ r.requirementType = "body_type" => Filled(r.bodyTypeId) /\ ~Filled(r.vehicleTypeId)
    /\ r.requirementType # "tracking" \/ Filled(r.valueBoolean)
    /\ \/ r.requirementType \notin {"temperature_min", "temperature_max"}
       \/ Filled(r.valueNumeric)

Reference ==
    [referenceType |-> Enumeration({"customer_order", "purchase_order", "invoice", "shipment",
                                    "booking", "tracking", "external", "other"}),
     value |-> RequiredString(180), issuerPartyId |-> OptionalOrEmpty(Uuid),
     metadata |-> ObjectOrNone]

transportRequestReferences ==
    [referenceType |-> NotNull(Words({"customer_order", "purchase_order", "invoice",
         "shipment", "booking", "tracking", "external", "other"})),
     value |-> NotNull(Varchar(180)), issuerPartyId |-> Key, metadata |-> NotNull(Json)]

RequestEvent ==
    [eventType |-> RequiredString(80), correlationId |-> OptionalOrEmpty(Uuid),
     payload |-> ObjectOrNone]

transportRequestEvents ==
    [eventType |-> NotNull(Varchar(80)), correlationId |-> Key, payload |-> NotNull(Json)]

transportRequestEventsCheck(r) == r.eventType > 0

LaneForm ==
    [code |-> RequiredString(80), name |-> RequiredString(180), originCityId |-> Uuid,
     destinationCityId |-> [Uuid EXCEPT !.usual = "other"],
     originRadiusKm |-> OptionalOrEmpty(NonNegative),
     destinationRadiusKm |-> OptionalOrEmpty(NonNegative),
     distanceKm |-> OptionalOrEmpty(Positive), typicalTransitHours |-> OptionalOrEmpty(Positive),
     isActive |-> Left(Flag, TRUE)]

LaneFormParsed(r) == r.originCityId # r.destinationCityId

freightLanes ==
    [code |-> NotNull(Varchar(80)), name |-> NotNull(Varchar(180)),
     originCityId |-> NotNull(Key), destinationCityId |-> NotNull(Key),
     originRadiusKm |-> Numeric, destinationRadiusKm |-> Numeric, distanceKm |-> Numeric,
     typicalTransitHours |-> Numeric, isActive |-> NotNull(Boolean)]

freightLanesCheck(r) ==
    /\ r.code > 0 /\ r.name > 0 /\ r.originCityId # r.destinationCityId
    /\ AtLeast(r.originRadiusKm, 0) /\ AtLeast(r.destinationRadiusKm, 0)
    /\ AtLeast(r.distanceKm, 1) /\ AtLeast(r.typicalTransitHours, 1)

-----------------------------------------------------------------------------
(* The catalogues of a tenant: what all share, and what each adds.         *)
Catalogues == {"vehicle_types", "body_types", "cargo_types", "package_types",
               "document_types", "tags"}

Added ==
    [vehicle_types |-> [defaultMaxWeightKg |-> OptionalOrEmpty(Positive)],
     body_types |-> [isClosed |-> Left(Flag, FALSE), supportsSideLoading |-> Left(Flag, FALSE),
                     supportsRearLoading |-> Left(Flag, FALSE)],
     cargo_types |-> [requiresSpecialHandling |-> Left(Flag, FALSE)],
     package_types |-> [stackableDefault |-> Optional(Flag)],
     document_types |-> [subjectScope |-> Enumeration({"party", "driver", "asset", "request",
                                                       "trip", "financial", "other"}),
                         hasExpiry |-> Left(Flag, FALSE), requiresValidation |-> Left(Flag, FALSE)],
     tags |-> <<>>]

With(r, s) == [c \in DOMAIN r \cup DOMAIN s |-> IF c \in DOMAIN r THEN r[c] ELSE s[c]]

TenantCatalog(t) ==
    With([c \in {"code", "name", "isActive", "description"} \ (IF t = "document_types"
                                                               THEN {"description"} ELSE {}) |->
             CASE c = "code" -> RequiredString(80)
               [] c = "name" -> RequiredString(160)
               [] c = "isActive" -> Left(Flag, TRUE)
               [] c = "description" -> OptionalString(300)], Added[t])

CatalogColumns ==
    [code |-> NotNull(Varchar(80)), name |-> NotNull(Varchar(160)), isActive |-> NotNull(Boolean)]
Described == [description |-> Varchar(300)]

vehicleTypes == With(CatalogColumns, With(Described, [defaultMaxWeightKg |-> Numeric]))
bodyTypes == With(CatalogColumns, With(Described,
    [isClosed |-> NotNull(Boolean), supportsSideLoading |-> NotNull(Boolean),
     supportsRearLoading |-> NotNull(Boolean)]))
cargoTypes == With(CatalogColumns, With(Described, [requiresSpecialHandling |-> NotNull(Boolean)]))
packageTypes == With(CatalogColumns, With(Described, [stackableDefault |-> Boolean]))
documentTypes == With(CatalogColumns,
    [subjectScope |-> NotNull(Words({"party", "driver", "asset", "request", "trip",
                                     "financial", "other"})),
     hasExpiry |-> NotNull(Boolean), requiresValidation |-> NotNull(Boolean)])
tags == With(CatalogColumns, Described)

vehicleTypesCheck(r) == r.code > 0 /\ r.name > 0 /\ AtLeast(r.defaultMaxWeightKg, 1)
catalogCheck(r) == r.code > 0 /\ r.name > 0

-----------------------------------------------------------------------------
(* A location of its own has a street of two characters in its table, of   *)
(* one in its validator.                                                   *)
LocationTypes == {"customer", "shipper", "consignee", "terminal", "warehouse", "yard", "port",
                  "airport", "border", "support", "other"}

LocationForm ==
    [code |-> RequiredString(80), name |-> RequiredString(200),
     type |-> Enumeration(LocationTypes),
     partyId |-> OptionalOrEmpty(Uuid), addressId |-> OptionalOrEmpty(Uuid),
     cityId |-> OptionalOrEmpty(Uuid), postalCode |-> OptionalString(16),
     street |-> OptionalString(200), number |-> OptionalString(40),
     complement |-> OptionalString(160), district |-> OptionalString(120),
     latitude |-> OptionalOrEmpty(Number(-900, 900)),
     longitude |-> OptionalOrEmpty(Number(-1800, 1800)),
     operationalReference |-> OptionalString(500), isActive |-> Left(Flag, TRUE)]

LocationFormParsed(r) ==
    /\ Together(r.partyId, r.addressId) /\ Together(r.latitude, r.longitude)
    /\ Filled(r.addressId) \/ (Filled(r.cityId) /\ Filled(r.street))

(* A location without a party: the address is what the form itself says.   *)
StandaloneForm == [LocationForm EXCEPT !.partyId.usual = Null, !.addressId.usual = Null]

locations ==
    [code |-> NotNull(Varchar(80)), name |-> NotNull(Varchar(200)),
     type |-> NotNull(Words({"customer", "shipper", "consignee", "terminal", "warehouse",
                             "yard", "port", "airport", "border", "support", "other"})),
     partyId |-> Key, addressId |-> Key, cityId |-> Key, postalCode |-> Varchar(16),
     street |-> Varchar(200), number |-> Varchar(40), complement |-> Varchar(160),
     district |-> Varchar(120), latitude |-> Numeric, longitude |-> Numeric,
     operationalReference |-> Varchar(500), isActive |-> NotNull(Boolean)]

locationsCheck(r) ==
    /\ r.code > 0 /\ r.name > 0 /\ Together(r.partyId, r.addressId)
    /\ \/ Filled(r.addressId)
       \/ Filled(r.cityId) /\ Filled(r.street) /\ r.street >= 2
    /\ Within(r.latitude, -90, 90) /\ Within(r.longitude, -180, 180)
    /\ Together(r.latitude, r.longitude)

Dimension ==
    [organizationId |-> Uuid, businessUnitId |-> OptionalOrEmpty(Uuid),
     code |-> RequiredString(80), name |-> RequiredString(160), isActive |-> Left(Flag, TRUE)]

departments ==
    [organizationId |-> NotNull(Key), businessUnitId |-> Key, code |-> NotNull(Varchar(80)),
     name |-> NotNull(Varchar(160)), isActive |-> NotNull(Boolean)]
costCenters == departments

Commodity ==
    [code |-> RequiredString(80), name |-> RequiredString(160),
     description |-> OptionalString(500), defaultCargoTypeId |-> OptionalOrEmpty(Uuid),
     isHazardous |-> Left(Flag, FALSE), requiresTemperatureControl |-> Left(Flag, FALSE),
     isActive |-> Left(Flag, TRUE)]

commodities ==
    [code |-> NotNull(Varchar(80)), name |-> NotNull(Varchar(160)),
     description |-> Varchar(500), defaultCargoTypeId |-> Key,
     isHazardous |-> NotNull(Boolean), requiresTemperatureControl |-> NotNull(Boolean),
     isActive |-> NotNull(Boolean)]

PartyGroup ==
    [code |-> RequiredString(80), name |-> RequiredString(200),
     groupType |-> Enumeration({"economic", "commercial", "operational", "risk", "other"}),
     isActive |-> Left(Flag, TRUE)]

businessPartyGroups ==
    [code |-> NotNull(Varchar(80)), name |-> NotNull(Varchar(200)),
     groupType |-> NotNull(Words({"economic", "commercial", "operational", "risk", "other"})),
     isActive |-> NotNull(Boolean)]

(* A value is a text, of any length, or another JSON value.  A mandatory   *)
(* requirement must send one, and may send null; no one compares the days. *)
PartyRequirement ==
    [requirementType |-> RequiredString(64),
     value |-> Told(Rule({"text", "long", "object", Empty}, {Null}, Null, "text",
                         {"long", "object"})),
     isMandatory |-> Left(Flag, TRUE),
     validFrom |-> OptionalOrEmpty(Day), validUntil |-> OptionalOrEmpty(Day),
     isActive |-> Left(Flag, TRUE)]

PartyRequirementParsed(r) == r.isMandatory => r.value # Unsent

businessPartyRequirements ==
    [requirementType |-> NotNull(Varchar(64)), value |-> Words({"text", "object", Empty}),
     isMandatory |-> NotNull(Boolean), validFrom |-> DateColumn, validUntil |-> DateColumn,
     isActive |-> NotNull(Boolean)]

businessPartyRequirementsCheck(r) ==
    /\ r.requirementType > 0 /\ (~r.isMandatory \/ Filled(r.value))
    /\ InOrder(r.validFrom, r.validUntil)

CustomFieldDefinition ==
    [entityType |-> Enumeration({"business_party", "driver", "capacity_asset",
                                 "transport_request", "location"}),
     key |-> RequiredString(120), label |-> RequiredString(160),
     dataType |-> Enumeration({"string", "number", "boolean", "date", "datetime", "json"}),
     isRequired |-> Left(Flag, FALSE), validation |-> [ObjectOrNone EXCEPT !.default = Null],
     isActive |-> Left(Flag, TRUE)]

customFieldDefinitions ==
    [entityType |-> NotNull(Words({"business_party", "driver", "capacity_asset",
                                   "transport_request", "location"})),
     key |-> NotNull(Varchar(120)), label |-> NotNull(Varchar(160)),
     dataType |-> NotNull(Words({"string", "number", "boolean", "date", "datetime", "json"})),
     isRequired |-> NotNull(Boolean), validation |-> Json, isActive |-> NotNull(Boolean)]

customFieldDefinitionsCheck(r) == r.key > 0 /\ r.label > 0

-----------------------------------------------------------------------------
PartyAddress ==
    [type |-> Enumeration({"billing", "pickup", "delivery", "operational", "other"}),
     label |-> RequiredString(160), postalCode |-> OptionalText(16),
     street |-> RequiredString(200), number |-> OptionalText(40), complement |-> OptionalText(160),
     district |-> OptionalText(120), city |-> RequiredString(120),
     state |-> Enumeration({"letters"}), countryCode |-> Left(Enumeration({"letters"}), "letters"),
     operationalReference |-> OptionalText(500)]

businessPartyAddresses ==
    [type |-> NotNull(Words({"billing", "pickup", "delivery", "operational", "other"})),
     label |-> NotNull(Varchar(160)), postalCode |-> Varchar(16), street |-> NotNull(Varchar(200)),
     number |-> Varchar(40), complement |-> Varchar(160), district |-> Varchar(120),
     city |-> NotNull(Varchar(120)), state |-> NotNull(Words({"letters"})),
     countryCode |-> NotNull(Words({"letters"})), operationalReference |-> Varchar(500)]

PartyContact ==
    [addressId |-> OptionalOrEmpty(Uuid),
     type |-> Enumeration({"commercial", "logistics", "billing", "pickup", "delivery",
                           "operational", "other"}),
     name |-> RequiredString(160), title |-> OptionalText(120),
     email |-> [OptionalText(254) EXCEPT !.usual = Null], phone |-> Phone,
     whatsapp |-> [Phone EXCEPT !.usual = Null], operationalReference |-> OptionalText(500)]

(* validateContactChannels: of a form, and of a patched contact.           *)
PartyContactParsed(r) == Filled(r.email) \/ Filled(r.phone) \/ Filled(r.whatsapp)

businessPartyContacts ==
    [addressId |-> Key,
     type |-> NotNull(Words({"commercial", "logistics", "billing", "pickup", "delivery",
                             "operational", "other"})),
     name |-> NotNull(Varchar(160)), title |-> Varchar(120), email |-> Varchar(254),
     phone |-> Varchar(32), whatsapp |-> Varchar(32), operationalReference |-> Varchar(500)]

businessPartyContactsCheck(r) == Filled(r.email) \/ Filled(r.phone) \/ Filled(r.whatsapp)

-----------------------------------------------------------------------------
DemandDesk ==
    [transport_request_items |-> [form |-> Item, columns |-> transportRequestItems],
     transport_request_packages |-> [form |-> Package, columns |-> transportRequestPackages],
     transport_request_requirements |->
         [form |-> Requirement, columns |-> transportRequestRequirements],
     transport_request_references |->
         [form |-> Reference, columns |-> transportRequestReferences],
     transport_request_events |-> [form |-> RequestEvent, columns |-> transportRequestEvents],
     freight_lanes |-> [form |-> LaneForm, columns |-> freightLanes],
     vehicle_types |-> [form |-> TenantCatalog("vehicle_types"), columns |-> vehicleTypes],
     body_types |-> [form |-> TenantCatalog("body_types"), columns |-> bodyTypes],
     cargo_types |-> [form |-> TenantCatalog("cargo_types"), columns |-> cargoTypes],
     package_types |-> [form |-> TenantCatalog("package_types"), columns |-> packageTypes],
     document_types |-> [form |-> TenantCatalog("document_types"), columns |-> documentTypes],
     tags |-> [form |-> TenantCatalog("tags"), columns |-> tags],
     locations |-> [form |-> LocationForm, columns |-> locations],
     standalone_locations |-> [form |-> StandaloneForm, columns |-> locations],
     departments |-> [form |-> Dimension, columns |-> departments],
     cost_centers |-> [form |-> Dimension, columns |-> costCenters],
     commodities |-> [form |-> Commodity, columns |-> commodities],
     business_party_groups |-> [form |-> PartyGroup, columns |-> businessPartyGroups],
     business_party_requirements |->
         [form |-> PartyRequirement, columns |-> businessPartyRequirements],
     custom_field_definitions |->
         [form |-> CustomFieldDefinition, columns |-> customFieldDefinitions],
     business_party_addresses |-> [form |-> PartyAddress, columns |-> businessPartyAddresses],
     business_party_contacts |-> [form |-> PartyContact, columns |-> businessPartyContacts]]

DemandAdmits(t, r) ==
    CASE t = "transport_request_items" -> ItemParsed(r)
      [] t = "transport_request_packages" -> PackageParsed(r)
      [] t = "transport_request_requirements" -> RequirementParsed(r)
      [] t = "freight_lanes" -> LaneFormParsed(r)
      [] t \in {"locations", "standalone_locations"} -> LocationFormParsed(r)
      [] t = "business_party_requirements" -> PartyRequirementParsed(r)
      [] t = "business_party_contacts" -> PartyContactParsed(r)
      [] OTHER -> TRUE

DemandTakes(t, r) ==
    CASE t = "transport_request_items" -> transportRequestItemsCheck(r)
      [] t = "transport_request_packages" -> transportRequestPackagesCheck(r)
      [] t = "transport_request_requirements" -> transportRequestRequirementsCheck(r)
      [] t = "transport_request_events" -> transportRequestEventsCheck(r)
      [] t = "freight_lanes" -> freightLanesCheck(r)
      [] t = "vehicle_types" -> vehicleTypesCheck(r)
      [] t \in (Catalogues \ {"vehicle_types"})
               \cup {"departments", "cost_centers", "commodities"} -> catalogCheck(r)
      [] t \in {"locations", "standalone_locations"} -> locationsCheck(r)
      [] t = "business_party_requirements" -> businessPartyRequirementsCheck(r)
      [] t = "custom_field_definitions" -> customFieldDefinitionsCheck(r)
      [] t = "business_party_contacts" -> businessPartyContactsCheck(r)
      [] OTHER -> TRUE

(* Where a validator asks for less than its table: a temperature that was  *)
(* not sent, the two equipments of a requirement at once, a street of one  *)
(* character, a mandatory null, a long value, days out of order.           *)
DemandEdge(t, r) ==
    \/ /\ t = "transport_request_requirements"
       /\ \/ r.requirementType \in {"temperature_min", "temperature_max"} /\ ~Filled(r.valueNumeric)
          \/ r.requirementType \in {"vehicle_type", "body_type"}
               /\ Filled(r.vehicleTypeId) /\ Filled(r.bodyTypeId)
    \/ t = "standalone_locations" /\ r.street = 1
    \/ /\ t = "business_party_requirements"
       /\ \/ r.isMandatory /\ ~Filled(r.value)
          \/ r.value = "long" \/ ~InOrder(r.validFrom, r.validUntil)
=============================================================================
