----------------------------- MODULE DealForms -----------------------------
(***************************************************************************)
(* The forms of a deal: a transport request with its cargo, stops and      *)
(* terms, what is negotiated about it (proposals, threads), the capacity   *)
(* that is assigned, reserved and contracted, and the parties and documents*)
(* all of them name; beside their tables, as in DemandForms.               *)
(***************************************************************************)
EXTENDS Admission

-----------------------------------------------------------------------------
TransportRequest ==
    [customerPartyId |-> Referenced, shipperPartyId |-> Referenced,
     consigneePartyId |-> [Referenced EXCEPT !.usual = "other"], originAddressId |-> Referenced,
     destinationAddressId |-> [Referenced EXCEPT !.usual = "other"],
     plannedPickupAt |-> Instant, plannedDeliveryAt |-> Instant,
     cargoDescription |-> Text(3, 1000),
     status |-> Left(Enumeration({"draft", "ready_for_quote"}), "draft")]

(* Asked of a form, and of a request with a patch merged into it.          *)
TransportRequestParsed(r) ==
    /\ InOrder(r.plannedPickupAt, r.plannedDeliveryAt)
    /\ r.originAddressId # r.destinationAddressId

(* An active party with its role; an active address that is the party's,   *)
(* and is named as the party is.                                           *)
AssertPartyRole(party) == party # "retired"
AssertActiveAddress(address, party) == address # "retired" /\ address = party

AssertReferences(r) ==
    /\ \A c \in {"customerPartyId", "shipperPartyId", "consigneePartyId"} : AssertPartyRole(r[c])
    /\ AssertActiveAddress(r.originAddressId, r.shipperPartyId)
    /\ AssertActiveAddress(r.destinationAddressId, r.consigneePartyId)

transportRequests ==
    [customerPartyId |-> NotNull(ReferencedKey), shipperPartyId |-> NotNull(ReferencedKey),
     consigneePartyId |-> NotNull(ReferencedKey), originAddressId |-> NotNull(ReferencedKey),
     destinationAddressId |-> NotNull(ReferencedKey), plannedPickupAt |-> NotNull(Timestamp),
     plannedDeliveryAt |-> NotNull(Timestamp), cargoDescription |-> NotNull(Varchar(1000)),
     status |-> NotNull(Words({"draft", "ready_for_quote", "in_negotiation", "contracted",
                               "cancelled"}))]

transportRequestsCheck(r) ==
    /\ InOrder(r.plannedPickupAt, r.plannedDeliveryAt)
    /\ r.originAddressId # r.destinationAddressId

(* One stop of a route; its place in the list is its sequence.             *)
RouteStop ==
    [type |-> Enumeration({"pickup", "delivery", "support"}), partyId |-> Uuid,
     addressId |-> Uuid, contactId |-> Optional(Uuid), windowStartAt |-> Instant,
     windowEndAt |-> Instant, instructions |-> OptionalText(1000)]

RouteStopParsed(r) == InOrder(r.windowStartAt, r.windowEndAt)

transportRequestStops ==
    [type |-> NotNull(Words({"pickup", "delivery", "support"})), partyId |-> NotNull(Key),
     addressId |-> NotNull(Key), contactId |-> Key, windowStartAt |-> NotNull(Timestamp),
     windowEndAt |-> NotNull(Timestamp), instructions |-> Varchar(1000)]

transportRequestStopsCheck(r) == InOrder(r.windowStartAt, r.windowEndAt)

CargoSides == {"maxLengthM", "maxWidthM", "maxHeightM"}
CountOrNone == [Whole(0) EXCEPT !.blank = {Unsent, Null}, !.default = 0]

CargoProfile ==
    [material |-> RequiredString(200), cargoType |-> RequiredString(120),
     totalWeightKg |-> Positive, volumeCount |-> CountOrNone, palletCount |-> CountOrNone,
     cubageM3 |-> Optional(Positive), maxLengthM |-> Optional(Positive),
     maxWidthM |-> Optional(Positive), maxHeightM |-> Optional(Positive),
     trackingRequired |-> FlagOr(FALSE), vehicleType |-> RequiredString(80),
     bodyType |-> RequiredString(80), nonStackable |-> FlagOr(FALSE),
     specialCargo |-> FlagOr(FALSE), specialInstructions |-> OptionalText(1000)]

CargoProfileParsed(r) ==
    /\ (r.volumeCount > 0 \/ r.palletCount > 0)
    /\ Cardinality({d \in CargoSides : Filled(r[d])}) \in {0, 3}
    /\ r.specialCargo => Filled(r.specialInstructions)

transportRequestCargoProfiles ==
    [material |-> NotNull(Varchar(200)), cargoType |-> NotNull(Varchar(120)),
     totalWeightKg |-> NotNull(Numeric), volumeCount |-> NotNull(IntegerColumn),
     palletCount |-> NotNull(IntegerColumn), cubageM3 |-> Numeric, maxLengthM |-> Numeric,
     maxWidthM |-> Numeric, maxHeightM |-> Numeric, trackingRequired |-> NotNull(Boolean),
     vehicleType |-> NotNull(Varchar(80)), bodyType |-> NotNull(Varchar(80)),
     nonStackable |-> NotNull(Boolean), specialCargo |-> NotNull(Boolean),
     specialInstructions |-> Varchar(1000)]

(* The CHECK of the sides is null, and passes, where one of them is null.  *)
transportRequestCargoProfilesCheck(r) ==
    /\ r.totalWeightKg > 0 /\ r.volumeCount >= 0 /\ r.palletCount >= 0
    /\ (r.volumeCount > 0 \/ r.palletCount > 0)
    /\ AtLeast(r.cubageM3, 1) /\ (\A d \in CargoSides : AtLeast(r[d], 1))
    /\ r.material > 0 /\ r.cargoType > 0 /\ r.vehicleType > 0 /\ r.bodyType > 0
    /\ (r.specialCargo => Filled(r.specialInstructions) /\ r.specialInstructions > 0)

-----------------------------------------------------------------------------
(* money: in cents, so that 0.01 is 10; rounded as its column rounds.      *)
Money(least) == Number(least, Huge)
Currency == Left(Enumeration({"letters"}), "letters")

CommercialTerms ==
    [currencyCode |-> Currency, customerPrice |-> Optional(Money(0)),
     targetCarrierFreight |-> Money(10), tollAmount |-> Left(Money(0), 0),
     additionalAmount |-> Left(Money(0), 0), paymentTerms |-> RequiredString(300),
     commercialNotes |-> OptionalText(1000)]

transportRequestCommercialTerms ==
    [currencyCode |-> NotNull(Words({"letters"})), customerPrice |-> Numeric,
     targetCarrierFreight |-> NotNull(Numeric), tollAmount |-> NotNull(Numeric),
     additionalAmount |-> NotNull(Numeric), paymentTerms |-> NotNull(Varchar(300)),
     commercialNotes |-> Varchar(1000)]

transportRequestCommercialTermsCheck(r) ==
    /\ AtLeast(r.customerPrice, 0) /\ r.targetCarrierFreight > 0
    /\ r.tollAmount >= 0 /\ r.additionalAmount >= 0 /\ r.paymentTerms > 0

CommercialStatus ==
    [status |-> Enumeration({"pending_approval", "approved", "rejected"}),
     note |-> OptionalText(1000)]

CommercialStatusParsed(r) == r.status = "rejected" => Filled(r.note)

(* setStatus: what the history calls a change to pending_approval.         *)
CommercialEvent(r) ==
    [status |-> r.status, note |-> r.note,
     eventType |-> IF r.status = "pending_approval" THEN "submitted" ELSE r.status]

transportRequestCommercialHistory ==
    [status |-> NotNull(Words({"draft", "pending_approval", "approved", "rejected"})),
     note |-> Varchar(1000),
     eventType |-> NotNull(Words({"created", "updated", "submitted", "approved", "rejected"}))]

-----------------------------------------------------------------------------
ProposalTerms ==
    [currencyCode |-> Currency, freightAmount |-> Money(10), tollAmount |-> Left(Money(0), 0),
     additionalAmount |-> Left(Money(0), 0), paymentTerms |-> RequiredString(300),
     commercialNotes |-> OptionalText(1000),
     expiresAt |-> [OptionalOrEmpty(Instant) EXCEPT !.usual = 3]]

ProposalTermsParsed(r) == Filled(r.expiresAt) => r.expiresAt > Now

FreightProposalCreate ==
    [c \in DOMAIN ProposalTerms \cup {"capacityAssignmentId"} |->
        IF c = "capacityAssignmentId" THEN Uuid ELSE ProposalTerms[c]]

(* insertProposal: a counterproposal takes the assignment of its parent.   *)
ProposalInserted(kind, r) ==
    [c \in DOMAIN r \cup {"capacityAssignmentId", "kind", "parentProposalId"} |->
        CASE c = "kind" -> kind
          [] c = "parentProposalId" -> IF kind = "proposal" THEN Null ELSE "this"
          [] c = "capacityAssignmentId" /\ kind = "counterproposal" -> "this"
          [] OTHER -> r[c]]

freightProposals ==
    [capacityAssignmentId |-> NotNull(Key), parentProposalId |-> Key,
     kind |-> NotNull(Words({"proposal", "counterproposal"})),
     currencyCode |-> NotNull(Words({"letters"})), freightAmount |-> NotNull(Numeric),
     tollAmount |-> NotNull(Numeric), additionalAmount |-> NotNull(Numeric),
     paymentTerms |-> NotNull(Varchar(300)), commercialNotes |-> Varchar(1000),
     expiresAt |-> Timestamp]

freightProposalsCheck(r) ==
    /\ r.freightAmount > 0 /\ r.tollAmount >= 0 /\ r.additionalAmount >= 0
    /\ r.paymentTerms > 0 /\ (r.kind = "counterproposal" <=> Filled(r.parentProposalId))

FreightProposalStatus ==
    [status |-> Enumeration({"accepted", "rejected", "expired"}), reason |-> OptionalText(1000)]

FreightProposalStatusParsed(r) == r.status = "rejected" => Filled(r.reason)

freightProposalEvents ==
    [status |-> NotNull(Words({"open", "accepted", "rejected", "expired"})),
     reason |-> Varchar(1000)]

freightProposalEventsCheck(r) == r.status = "rejected" => Filled(r.reason) /\ r.reason > 0

ThreadCreate == [subject |-> RequiredString(240)]
negotiationThreads == [subject |-> NotNull(Varchar(240))]
negotiationThreadsCheck(r) == r.subject > 0

ParticipantCreate ==
    [kind |-> Enumeration({"internal", "external"}),
     role |-> Enumeration({"operator", "commercial", "carrier", "driver", "observer"}),
     membershipId |-> OptionalOrEmpty(Uuid), businessPartyId |-> OptionalOrEmpty(Uuid),
     businessPartyContactId |-> [OptionalOrEmpty(Uuid) EXCEPT !.usual = Null]]

ParticipantCreateParsed(r) ==
    IF r.kind = "internal"
    THEN Filled(r.membershipId) /\ ~Filled(r.businessPartyId) /\ ~Filled(r.businessPartyContactId)
    ELSE ~Filled(r.membershipId) /\ Filled(r.businessPartyId)

negotiationParticipants ==
    [kind |-> NotNull(Words({"internal", "external"})),
     role |-> NotNull(Words({"operator", "commercial", "carrier", "driver", "observer"})),
     membershipId |-> Key, businessPartyId |-> Key, businessPartyContactId |-> Key]

negotiationParticipantsCheck(r) ==
    \/ /\ r.kind = "internal" /\ Filled(r.membershipId)
       /\ ~Filled(r.businessPartyId) /\ ~Filled(r.businessPartyContactId)
    \/ r.kind = "external" /\ ~Filled(r.membershipId) /\ Filled(r.businessPartyId)

MessageCreate ==
    [kind |-> Left(Enumeration({"message", "note"}), "message"), body |-> RequiredString(8000),
     relatedProposalId |-> OptionalOrEmpty(Uuid), replyToMessageId |-> OptionalOrEmpty(Uuid)]

negotiationMessages ==
    [kind |-> NotNull(Words({"message", "note", "system"})), body |-> NotNull(Varchar(Most)),
     relatedProposalId |-> Key, replyToMessageId |-> Key]

negotiationMessagesCheck(r) == r.body \in 1..8000
-----------------------------------------------------------------------------
(* A capacity assignment starts now where its start is not given, and ends *)
(* now; startsAt of a closing is the one of the assignment it closes.      *)
AssignmentCreate ==
    [driverId |-> Uuid, vehicleId |-> Uuid, carrierPartyId |-> Uuid,
     startsAt |-> OptionalOrEmpty(Instant)]

AssignmentClose ==
    [status |-> Enumeration({"ended", "cancelled"}), startsAt |-> Instant,
     endsAt |-> OptionalOrEmpty(Instant), statusReason |-> OptionalString(500)]

OrNow(v) == IF Filled(v) THEN v ELSE Now

AssignmentCloseParsed(r) ==
    /\ r.status = "cancelled" => Filled(r.statusReason)
    /\ InOrder(r.startsAt, OrNow(r.endsAt))

capacityAssignments ==
    [driverId |-> NotNull(Key), vehicleId |-> NotNull(Key), carrierPartyId |-> NotNull(Key),
     startsAt |-> NotNull(Timestamp)]

closedAssignments ==
    [status |-> NotNull(Words({"active", "ended", "cancelled"})),
     startsAt |-> NotNull(Timestamp), endsAt |-> Timestamp, statusReason |-> Varchar(500)]

closedAssignmentsCheck(r) ==
    /\ InOrder(r.startsAt, r.endsAt) /\ (r.status # "active" <=> Filled(r.endsAt))
    /\ r.status = "cancelled" => Filled(r.statusReason)

(* A reservation is cancelled for a reason of its own, or for the one its  *)
(* contract was refused or cancelled for, behind a prefix that says so.    *)
ReservationCancel == [reason |-> RequiredString(1000)]
ContractReason == [reason |-> RequiredString(950)]

cancelledReservations ==
    [reason |-> NotNull(Varchar(1000)), cancelReason |-> NotNull(Varchar(1000)),
     eventReason |-> NotNull(Varchar(1000))]

cancelledReservationsCheck(r) == r.cancelReason > 0 /\ r.eventReason > 0

Cancelled(prefix, r) ==
    [reason |-> r.reason, cancelReason |-> r.reason + prefix, eventReason |-> r.reason + prefix]

(* A contract repeats the terms of the proposal it comes from.             *)
ContractTerms == [c \in DOMAIN ProposalTerms \ {"expiresAt"} |-> ProposalTerms[c]]

transportContracts ==
    [currencyCode |-> NotNull(Words({"letters"})), freightAmount |-> NotNull(Numeric),
     tollAmount |-> NotNull(Numeric), additionalAmount |-> NotNull(Numeric),
     paymentTerms |-> NotNull(Varchar(300)), commercialNotes |-> Varchar(1000)]

transportContractsCheck(r) ==
    r.freightAmount > 0 /\ r.tollAmount >= 0 /\ r.additionalAmount >= 0 /\ r.paymentTerms > 0

-----------------------------------------------------------------------------
(* A party is a partner by its roles, and only a partner is homologated:   *)
(* of any other the two fields may not even be sent.                       *)
Untold(sent) == Left(Rule({}, {}, Unfit, Unsent, {sent}), Null)

BusinessParty(partner) ==
    LET own == {"customer", "shipper", "consignee"}
        partners == {"carrier", "partner", "supplier"}
        roles == IF partner THEN {{p} \cup r : p \in partners, r \in SUBSET (own \cup partners)}
                 ELSE {{p} \cup r : p \in own, r \in SUBSET own}
    IN  [taxId |-> [Text(11, 14) EXCEPT !.accepts = {11, 14}, !.usual = 11],
         legalName |-> Text(2, 200), tradeName |-> OptionalText(200),
         email |-> OptionalText(254), phone |-> Phone, roles |-> Enumeration(roles),
         homologationStatus |-> IF partner
                                THEN Left(Enumeration({"pending", "approved", "rejected"}),
                                          "pending")
                                ELSE Untold("approved"),
         homologationNotes |-> IF partner THEN OptionalText(500) ELSE Untold(9)]

(* The roles are rows of a table of their own.                             *)
businessParties ==
    [taxId |-> NotNull(Varchar(20)), legalName |-> NotNull(Varchar(200)),
     tradeName |-> Varchar(200), email |-> Varchar(254), phone |-> Varchar(32),
     roles |-> NotNull(Words(SUBSET {"customer", "shipper", "consignee", "carrier", "partner",
                                     "supplier"})),
     homologationStatus |-> Words({"pending", "approved", "rejected"}),
     homologationNotes |-> Varchar(500)]

Document ==
    [documentTypeId |-> Uuid, title |-> RequiredString(240), issuedOn |-> OptionalOrEmpty(Day),
     expiresOn |-> OptionalOrEmpty(Day), externalReference |-> OptionalString(180),
     notes |-> OptionalString(1500), metadata |-> ObjectOrNone]

DocumentParsed(r) == InOrder(r.issuedOn, r.expiresOn)

documents ==
    [documentTypeId |-> NotNull(Key), title |-> NotNull(Varchar(240)), issuedOn |-> DateColumn,
     expiresOn |-> DateColumn, externalReference |-> Varchar(180), notes |-> Varchar(1500),
     metadata |-> NotNull(Json)]

documentsCheck(r) == r.title > 0 /\ InOrder(r.issuedOn, r.expiresOn)

DocumentDelete == [reason |-> RequiredString(1000)]
deletedDocuments == [reason |-> NotNull(Varchar(1000))]
deletedDocumentsCheck(r) == r.reason > 0

(* What is said when the upload is prepared, and when it is committed.     *)
Upload ==
    [originalFileName |-> RequiredString(255), mimeType |-> RequiredString(160),
     source |-> EnumerationOr("upload", {"upload", "import", "generated", "integration"}),
     metadata |-> ObjectOrNone]

documentVersions ==
    [originalFileName |-> NotNull(Varchar(255)), mimeType |-> NotNull(Varchar(160)),
     source |-> NotNull(Words({"upload", "import", "generated", "integration"})),
     metadata |-> NotNull(Json)]

documentVersionsCheck(r) == r.originalFileName > 0 /\ r.mimeType > 0

DocumentValidation ==
    [documentVersionId |-> OptionalOrEmpty(Uuid),
     validationType |-> EnumerationOr("manual", {"manual", "system", "external"}),
     result |-> Enumeration({"valid", "invalid", "review_required"}),
     notes |-> OptionalString(1500), providerReference |-> OptionalString(180),
     details |-> ObjectOrNone]

documentValidations ==
    [documentVersionId |-> Key, validationType |-> NotNull(Words({"manual", "system", "external"})),
     result |-> NotNull(Words({"valid", "invalid", "review_required"})),
     notes |-> Varchar(1500), providerReference |-> Varchar(180), details |-> NotNull(Json)]

PartyLink ==
    [relationType |-> EnumerationOr("registration", {"registration", "compliance", "contract",
                                                     "insurance", "other"})]
businessPartyDocuments ==
    [relationType |-> NotNull(Words({"registration", "compliance", "contract", "insurance",
                                     "other"}))]

RequestLink ==
    [relationType |-> EnumerationOr("request", {"request", "commercial", "compliance",
                                                "reference", "other"})]
transportRequestDocuments ==
    [relationType |-> NotNull(Words({"request", "commercial", "compliance", "reference",
                                     "other"}))]

-----------------------------------------------------------------------------
DealDesk ==
    [transport_requests |-> [form |-> TransportRequest, columns |-> transportRequests],
     transport_request_stops |-> [form |-> RouteStop, columns |-> transportRequestStops],
     transport_request_cargo_profiles |->
         [form |-> CargoProfile, columns |-> transportRequestCargoProfiles],
     transport_request_commercial_terms |->
         [form |-> CommercialTerms, columns |-> transportRequestCommercialTerms],
     transport_request_commercial_history |->
         [form |-> CommercialStatus, columns |-> transportRequestCommercialHistory],
     freight_proposals |-> [form |-> FreightProposalCreate, columns |-> freightProposals],
     freight_counterproposals |-> [form |-> ProposalTerms, columns |-> freightProposals],
     freight_proposal_events |->
         [form |-> FreightProposalStatus, columns |-> freightProposalEvents],
     negotiation_threads |-> [form |-> ThreadCreate, columns |-> negotiationThreads],
     negotiation_participants |->
         [form |-> ParticipantCreate, columns |-> negotiationParticipants],
     negotiation_messages |-> [form |-> MessageCreate, columns |-> negotiationMessages],
     capacity_assignments |-> [form |-> AssignmentCreate, columns |-> capacityAssignments],
     closed_assignments |-> [form |-> AssignmentClose, columns |-> closedAssignments],
     cancelled_reservations |-> [form |-> ReservationCancel, columns |-> cancelledReservations],
     refused_contracts |-> [form |-> ContractReason, columns |-> cancelledReservations],
     cancelled_contracts |-> [form |-> ContractReason, columns |-> cancelledReservations],
     transport_contracts |-> [form |-> ContractTerms, columns |-> transportContracts],
     business_partners |-> [form |-> BusinessParty(TRUE), columns |-> businessParties],
     business_parties |-> [form |-> BusinessParty(FALSE), columns |-> businessParties],
     documents |-> [form |-> Document, columns |-> documents],
     deleted_documents |-> [form |-> DocumentDelete, columns |-> deletedDocuments],
     document_versions |-> [form |-> Upload, columns |-> documentVersions],
     document_validations |-> [form |-> DocumentValidation, columns |-> documentValidations],
     business_party_documents |-> [form |-> PartyLink, columns |-> businessPartyDocuments],
     transport_request_documents |->
         [form |-> RequestLink, columns |-> transportRequestDocuments]]

DealAdmits(t, r) ==
    CASE t = "transport_requests" -> TransportRequestParsed(r) /\ AssertReferences(r)
      [] t = "transport_request_stops" -> RouteStopParsed(r)
      [] t = "transport_request_cargo_profiles" -> CargoProfileParsed(r)
      [] t = "transport_request_commercial_history" -> CommercialStatusParsed(r)
      [] t \in {"freight_proposals", "freight_counterproposals"} -> ProposalTermsParsed(r)
      [] t = "freight_proposal_events" -> FreightProposalStatusParsed(r)
      [] t = "negotiation_participants" -> ParticipantCreateParsed(r)
      [] t = "closed_assignments" -> AssignmentCloseParsed(r)
      [] t = "documents" -> DocumentParsed(r)
      [] OTHER -> TRUE

(* "Contract refused: " and "Contract cancelled: " have 18 and 20          *)
(* characters.                                                             *)
DealInserts(t, r) ==
    CASE t = "transport_request_commercial_history" -> CommercialEvent(r)
      [] t = "freight_proposals" -> ProposalInserted("proposal", r)
      [] t = "freight_counterproposals" -> ProposalInserted("counterproposal", r)
      [] t = "capacity_assignments" -> [r EXCEPT !.startsAt = OrNow(@)]
      [] t = "closed_assignments" -> [r EXCEPT !.endsAt = OrNow(@)]
      [] t = "cancelled_reservations" -> Cancelled(0, r)
      [] t = "refused_contracts" -> Cancelled(18, r)
      [] t = "cancelled_contracts" -> Cancelled(20, r)
      [] OTHER -> r

DealTakes(t, r) ==
    CASE t = "transport_requests" -> transportRequestsCheck(r)
      [] t = "transport_request_stops" -> transportRequestStopsCheck(r)
      [] t = "transport_request_cargo_profiles" -> transportRequestCargoProfilesCheck(r)
      [] t = "transport_request_commercial_terms" -> transportRequestCommercialTermsCheck(r)
      [] t \in {"freight_proposals", "freight_counterproposals"} -> freightProposalsCheck(r)
      [] t = "freight_proposal_events" -> freightProposalEventsCheck(r)
      [] t = "negotiation_threads" -> negotiationThreadsCheck(r)
      [] t = "negotiation_participants" -> negotiationParticipantsCheck(r)
      [] t = "negotiation_messages" -> negotiationMessagesCheck(r)
      [] t = "closed_assignments" -> closedAssignmentsCheck(r)
      [] t \in {"cancelled_reservations", "refused_contracts", "cancelled_contracts"} ->
            cancelledReservationsCheck(r)
      [] t = "transport_contracts" -> transportContractsCheck(r)
      [] t = "documents" -> documentsCheck(r)
      [] t = "deleted_documents" -> deletedDocumentsCheck(r)
      [] t = "document_versions" -> documentVersionsCheck(r)
      [] OTHER -> TRUE
=============================================================================
