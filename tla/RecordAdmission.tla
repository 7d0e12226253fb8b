--------------------------- MODULE RecordAdmission ---------------------------
(***************************************************************************)
(* One call after another posts a form: it is parsed, inserted, and taken  *)
(* or refused by its table.                                                *)
(*                                                                         *)
(* Some rows that were taken may be patched.  A patch is read by a         *)
(* validator of its own, that keeps what was not sent apart from what was  *)
(* sent as null; the service puts it over the row and asks, or does not    *)
(* ask, the conditions of the form anew of the result.  XPatch is what     *)
(* parseUpdateX reads, and UpdateX the rows the service may write: one, or *)
(* none where it refuses.                                                  *)
(*                                                                         *)
(* A body is made by any caller of the API, or by a page of the web        *)
(* application out of what it offers: a page that creates submits one, a   *)
(* page that edits shows the row, and sends all it shows as a patch.       *)
(***************************************************************************)
EXTENDS CapacityForms, TripForms, DemandForms, DealForms, BackOfficeForms, PageForms, TLC

CONSTANTS MaxPatches,    \* bound: patches of one row
          MaxUnusual     \* bound: unusual values in a row that is patched

ASSUME AdmissionAssumption == MaxPatches \in Nat /\ MaxUnusual \in Nat

VARIABLES desk,          \* the row of the last call: its table, what the
                         \* validator made of it, what the table took
          sheet          \* the page that is open, if one is: for a row that is
                         \* new or there already, what it shows or has sent

admissionVars == <<desk, sheet>>

-----------------------------------------------------------------------------
(* Nothing is left out of a patch by default: it is sent, or it is not.    *)
PatchOf(form) ==
    [c \in DOMAIN form |-> Told([form[c] EXCEPT !.blank = @ \ {Unsent}])]

Sent(patch) == {c \in DOMAIN patch : patch[c] # Unsent}

Overwritten(row, patch) ==
    [c \in DOMAIN row |-> IF c \in Sent(patch) THEN patch[c] ELSE row[c]]

-----------------------------------------------------------------------------
DriverPatch == PatchOf(Driver)
CapacityAssetPatch == PatchOf(CapacityAsset)
DocumentPatch == PatchOf([c \in DOMAIN Document \ {"documentTypeId"} |-> Document[c]])
TransportRequestPatch == PatchOf(TransportRequest)
ObligationPatch == PatchOf([c \in {"dueAt", "tripId", "notes"} |-> Obligation[c]])
ReceivablePatch ==
    PatchOf([c \in {"dueAt", "fiscalDocumentId", "fiscalReference", "notes"} |-> Receivable[c]])
PartyAddressPatch == PatchOf(PartyAddress)
PartyContactPatch == PatchOf(PartyContact)

(* A catalogue's own fields, beside those that all catalogues have.        *)
AddedPatch(t) == PatchOf(Added[t])
TenantCatalogPatch(t) ==
    With(PatchOf([c \in DOMAIN TenantCatalog(t) \ DOMAIN Added[t] |-> TenantCatalog(t)[c]]),
         AddedPatch(t))

(* The columns of the rows below a request, and of a lane.                 *)
ItemPatch == PatchOf(Item)
PackagePatch == PatchOf(Package)
RequirementPatch == PatchOf(Requirement)
ReferencePatch == PatchOf(Reference)
LanePatch == PatchOf(LaneForm)

Patches ==
    With([drivers |-> DriverPatch, capacity_assets |-> CapacityAssetPatch,
          documents |-> DocumentPatch, transport_requests |-> TransportRequestPatch,
          carrier_payment_obligations |-> ObligationPatch,
          customer_receivables |-> ReceivablePatch,
          business_party_addresses |-> PartyAddressPatch,
          business_party_contacts |-> PartyContactPatch,
          transport_request_items |-> ItemPatch, transport_request_packages |-> PackagePatch,
          transport_request_requirements |-> RequirementPatch,
          transport_request_references |-> ReferencePatch, freight_lanes |-> LanePatch],
         [t \in Catalogues |-> TenantCatalogPatch(t)])

(* What a validator asks of a patch alone: of two ends, only if both are   *)
(* sent; of the sides of a package, that all are.                          *)
Ordered(p, from, to) == {from, to} \subseteq Sent(p) => InOrder(p[from], p[to])

PatchParsed(t, p) ==
    /\ AllFit(p) /\ Sent(p) # {}
    /\ CASE t = "documents" -> Ordered(p, "issuedOn", "expiresOn")
         [] t = "transport_requests" ->
                /\ Ordered(p, "plannedPickupAt", "plannedDeliveryAt")
                /\ {"originAddressId", "destinationAddressId"} \subseteq Sent(p) =>
                       p.originAddressId # p.destinationAddressId
         [] t = "transport_request_items" ->
                {"minTemperatureC", "maxTemperatureC"} \subseteq Sent(p) => ItemParsed(p)
         [] t = "transport_request_packages" -> PackageParsed(p)
         [] OTHER -> TRUE

-----------------------------------------------------------------------------
UpdateDriver(row, p) ==
    {r \in {Overwritten(row, p)} : ActiveCarrier(r.carrierPartyId) /\ DriverParsed(r)}

UpdateCapacityAsset(row, p) ==
    {r \in {Overwritten(row, p)} : /\ CapacityAssetParsed(r)
                                   /\ ActiveCarrier(r.carrierPartyId)
                                   /\ ActiveOwner(r.ownerPartyId)}

UpdateDocument(row, p) == {r \in {Overwritten(row, p)} : DocumentParsed(r)}

UpdateTransportRequest(row, p) ==
    {r \in {Overwritten(row, p)} : TransportRequestParsed(r) /\ AssertReferences(r)}

UpdatePartyContact(row, p) == {r \in {Overwritten(row, p)} : PartyContactParsed(r)}

(* The rest is written as it was parsed: only the table still objects.     *)
UpdateMutable(row, p) == {Overwritten(row, p)}

Updates(t, row, p) ==
    CASE t = "drivers" -> UpdateDriver(row, p)
      [] t = "capacity_assets" -> UpdateCapacityAsset(row, p)
      [] t = "documents" -> UpdateDocument(row, p)
      [] t = "transport_requests" -> UpdateTransportRequest(row, p)
      [] t = "business_party_contacts" -> UpdatePartyContact(row, p)
      [] OTHER -> UpdateMutable(row, p)

(* What nobody asks of the patched row, and its table refuses.             *)
PatchEdge(t, r) ==
    \/ t = "transport_request_items" /\ ~ItemParsed(r)
    \/ t = "transport_request_requirements" /\ ~RequirementParsed(r)
    \/ t = "freight_lanes" /\ ~LaneFormParsed(r)

(* Fields that are sent together, and what is sent.                        *)
Jointly ==
    [transport_request_items |-> [{"minTemperatureC", "maxTemperatureC"} -> {-10, 10, Null}],
     transport_request_packages |-> [PackageSides -> {10, 4, Null}],
     capacity_assets |-> [AssetDimensions -> {10, Null}],
     documents |-> [{"issuedOn", "expiresOn"} -> {1, 3}],
     transport_requests |->
         [{"plannedPickupAt", "plannedDeliveryAt"} -> {1, 3}]
             \cup [{"shipperPartyId", "originAddressId"} -> {"this", "other"}]
             \cup [{"originAddressId", "destinationAddressId"} -> {"this", "other"}]]

-----------------------------------------------------------------------------
Desks == CapacityDesk @@ TripDesk @@ DemandDesk @@ DealDesk @@ BackOfficeDesk
Admits(t, r) ==
    /\ AllFit(r)
    /\ t \in DOMAIN CapacityDesk => CapacityAdmits(t, r)
    /\ t \in DOMAIN TripDesk => TripAdmits(t, r)
    /\ t \in DOMAIN DemandDesk => DemandAdmits(t, r)
    /\ t \in DOMAIN DealDesk => DealAdmits(t, r)
    /\ t \in DOMAIN BackOfficeDesk => BackOfficeAdmits(t, r)

(* A column that is not inserted is null, or what the insert gives it.     *)
Inserts(t, r) ==
    LET sent == [c \in DOMAIN r |-> IF r[c] = Unsent THEN Null ELSE r[c]]
    IN  CASE t \in DOMAIN CapacityDesk -> CapacityInserts(t, sent)
          [] t \in DOMAIN TripDesk -> TripInserts(t, sent)
          [] t \in DOMAIN DealDesk -> DealInserts(t, sent)
          [] t \in DOMAIN BackOfficeDesk -> BackOfficeInserts(t, sent)
          [] OTHER -> sent

Takes(t, row) ==
    /\ AllFit(row)
    /\ t \in DOMAIN CapacityDesk => CapacityTakes(t, row)
    /\ t \in DOMAIN TripDesk => TripTakes(t, row)
    /\ t \in DOMAIN DemandDesk => DemandTakes(t, row)
    /\ t \in DOMAIN DealDesk => DealTakes(t, row)
    /\ t \in DOMAIN BackOfficeDesk => BackOfficeTakes(t, row)

AtTableEdge(t, r) ==
    \/ t \in DOMAIN CapacityDesk /\ CapacityEdge(t, r)
    \/ t \in DOMAIN TripDesk /\ TripEdge(t, r)
    \/ t \in DOMAIN DemandDesk /\ DemandEdge(t, r)
    \/ t \in DOMAIN BackOfficeDesk /\ BackOfficeEdge(t, r)

Usual(rules) == [c \in DOMAIN rules |-> rules[c].usual]

Unusual(t, r) == {c \in DOMAIN r : r[c] # Desks[t].form[c].usual}

(* What becomes of a form that was read as r.                              *)
Outcome(t, r, patches) ==
    IF ~Admits(t, r) THEN [table |-> t, answer |-> "refused", patches |-> patches]
    ELSE LET into == Inserts(t, r)
             row == Stored(Desks[t].columns, into)
         IN  [table |-> t, answer |-> IF Takes(t, row) THEN "taken" ELSE "failed",
              sent |-> into, row |-> row, patches |-> patches]

NoSheet == [page |-> "none"]
Sheet(page, of, as, body) == [page |-> page, of |-> of, as |-> as, body |-> body]

AdmissionInit ==
    /\ \E t \in DOMAIN Desks : desk = [table |-> t, answer |-> "blank", patches |-> 0]
    /\ sheet = NoSheet

(* A form with the usual values but for two fields.                        *)
Post(c, v, d, w) ==
    desk' = Outcome(desk.table, Parsed(Desks[desk.table].form,
                        [Usual(Desks[desk.table].form) EXCEPT ![c] = v, ![d] = w]), 0)

(* What was stored, as the numbers of a form.                              *)
Again(columns, row) ==
    [c \in DOMAIN row |-> IF columns[c].rounds /\ Filled(row[c]) THEN 10 * row[c] ELSE row[c]]

(* A patch of the fields of sent; the table takes the merged row anew.     *)
Amend(sent) ==
    LET t == desk.table
        p == [c \in DOMAIN Patches[t] |->
                 Reads(Patches[t][c], IF c \in DOMAIN sent THEN sent[c] ELSE Unsent)]
        merged == Updates(t, Again(Desks[t].columns, desk.row), p)
        times == desk.patches + 1
    IN  IF ~PatchParsed(t, p) \/ merged = {}
        THEN desk' = [table |-> t, answer |-> "refused", patches |-> times]
        ELSE \E after \in merged :
                desk' = LET row == Stored(Desks[t].columns, after)
                        IN  [table |-> t, answer |-> IF Takes(t, row) THEN "taken" ELSE "failed",
                             sent |-> after, row |-> row, patches |-> times]

(* What a page shows at first, or what is usually entered.                 *)
Expected(control, rule) ==
    IF rule.usual \in May(control, rule) THEN rule.usual
    ELSE CHOOSE v \in May(control, rule) : TRUE

(* The values for each of the fields of a page.                            *)
Enterable(boxes, rules) ==
    UNION {{<<c, v>> : v \in May(boxes[c], rules[c])} : c \in DOMAIN boxes}

Open(p) ==
    /\ sheet' = Sheet(p, "new", "shown",
                      [c \in DOMAIN Pages[p].controls |->
                          Expected(Pages[p].controls[c], Desks[desk.table].form[c])])
    /\ UNCHANGED desk

(* It is submitted with a field of any kind, and has no other fields of the*)
(* desk; what two fields do to each other, Post tries.                     *)
Submit(x) ==
    LET form == Desks[desk.table].form
        body == [sheet.body EXCEPT ![x[1]] = x[2]]
    IN  /\ desk' = Outcome(desk.table,
                       Parsed(form, [c \in DOMAIN form |->
                                        IF c \in DOMAIN body THEN body[c] ELSE Unsent]), 0)
        /\ sheet' = Sheet(sheet.page, "new", "changed", body)

(* The page that edits a row shows it; one edits vehicles, one implements. *)
Show(p) ==
    /\ "assetKind" \in DOMAIN Pages[p].edits =>
           desk.row.assetKind \in Pages[p].edits.assetKind.offers
    /\ sheet' = Sheet(p, "row", "shown",
                      [c \in DOMAIN Pages[p].edits |->
                          Again(Desks[desk.table].columns, desk.row)[c]])
    /\ UNCHANGED desk

(* Saved with one field changed, or none; the browser holds it back while a*)
(* field that must be filled in is not.                                    *)
Save(body) ==
    /\ \A c \in DOMAIN body : body[c] = Null => Null \in Pages[sheet.page].edits[c].offers
    /\ Amend(body)
    /\ sheet' = Sheet(sheet.page, "row", IF body = sheet.body THEN "kept" ELSE "changed", body)

Posted ==
    \E c, d \in DOMAIN Desks[desk.table].form :
        \E v \in Desks[desk.table].form[c].tries, w \in Desks[desk.table].form[d].tries :
            Post(c, v, d, w)

(* A patch sends one field, or some that are sent together.                *)
Amendments(t) ==
    {[x \in {f[1]} |-> f[2]] :
         f \in UNION {{<<c, v>> : v \in Patches[t][c].tries} : c \in DOMAIN Patches[t]}}
      \cup (IF t \in DOMAIN Jointly THEN Jointly[t] ELSE {})

Amended == \E sent \in Amendments(desk.table) : Amend(sent)

Submitted ==
    \E x \in Enterable(Pages[sheet.page].controls, Desks[desk.table].form) : Submit(x)

Saved ==
    \E body \in {sheet.body} \cup
                   {[sheet.body EXCEPT ![x[1]] = x[2]] :
                        x \in Enterable(Pages[sheet.page].edits, Patches[desk.table])} :
        Save(body)

AdmissionNext ==
    \/ /\ desk.answer = "blank"
       /\ \/ sheet = NoSheet /\ Posted /\ UNCHANGED sheet
          \/ sheet = NoSheet /\ \E p \in DOMAIN Pages : Pages[p].desk = desk.table /\ Open(p)
          \/ sheet # NoSheet /\ Submitted
    \/ /\ desk.table \in DOMAIN Patches /\ desk.answer = "taken" /\ desk.patches < MaxPatches
       /\ Cardinality(Unusual(desk.table, desk.sent)) <= MaxUnusual
       /\ \/ sheet = NoSheet /\ Amended /\ UNCHANGED sheet
          \/ /\ sheet = NoSheet
             /\ \E p \in DOMAIN Pages :
                   Pages[p].desk = desk.table /\ Pages[p].edits # <<>> /\ Show(p)
          \/ sheet # NoSheet /\ sheet.of = "row" /\ Saved

-----------------------------------------------------------------------------
AdmissionTypeOK ==
    /\ desk.table \in DOMAIN Desks
    /\ desk.answer \in {"blank", "refused", "taken", "failed"}
    /\ desk.patches \in 0..MaxPatches
    /\ sheet.page \in DOMAIN Pages \cup {"none"}
    /\ sheet # NoSheet => sheet.of \in {"new", "row"} /\ sheet.as \in {"shown", "changed", "kept"}

(* What a page lets through for a field the API does not refuse for being  *)
(* what it is; and a page that is saved as it was opened saves the row: it *)
(* has a choice for whatever the row holds.                                *)
PagesAgree ==
    sheet # NoSheet =>
        LET new == sheet.of = "new"
            boxes == IF new THEN Pages[sheet.page].controls ELSE Pages[sheet.page].edits
            rules == IF new THEN Desks[desk.table].form ELSE Patches[desk.table]
        IN  /\ \A c \in DOMAIN boxes :
                   Vouched(boxes[c], sheet.body[c]) =>
                       Reads(rules[c], sheet.body[c]) # Unfit \/ PageEdge(sheet.page)
            /\ sheet.as = "kept" =>
                   /\ desk.answer = "taken"
                   /\ \A c \in DOMAIN boxes :
                          boxes[c].typed = "nothing" => sheet.body[c] \in boxes[c].offers

(* What a validator admits its table takes, but for the edges that are     *)
(* named; and a row that was taken is one its validator would admit again: *)
(* the statements of each rule agree, as far as they are meant to, and the *)
(* pages of the web application with them.                                 *)
StoredAsAdmitted ==
    /\ desk.answer = "failed" =>
          \/ AtTypeEdge(Desks[desk.table].columns, desk.sent)
          \/ AtTableEdge(desk.table, desk.sent)
          \/ desk.patches > 0 /\ PatchEdge(desk.table, desk.sent)
    /\ desk.answer = "taken" => Admits(desk.table, Again(Desks[desk.table].columns, desk.row))
    /\ PagesAgree
=============================================================================
