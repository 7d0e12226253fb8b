------------------------- MODULE DocumentCompliance -------------------------
(***************************************************************************)
(* The documents of one subject (a party, driver or asset) of one document *)
(* type, the tenant's compliance policy for that type and its overrides    *)
(* (documents.service.ts, document-compliance.service.ts, migrations 0018, *)
(* 0032, 0033).  Every handler locks its document for the whole of its     *)
(* transaction, so a handler is one step; the type is not locked with it,  *)
(* and a type that is edited while a call waits for its document is as if  *)
(* it were edited after the call.  Days are counted: expires_on is the     *)
(* last day of a document, 0 if it has none.  Of the linked documents and  *)
(* of the rows a driver's or an asset's register keeps without one, the    *)
(* newest decides; contracts and trips ask Blocking before they start.     *)
(*                                                                         *)
(* The risk assessments of the same subject (compliance-risk.service.ts)   *)
(* ask the same facts a second way: the signals a snapshot raises, those   *)
(* an external provider adds, and the decision they lead to.  Assessments  *)
(* are append-only; a manager's decision supersedes one of them.           *)
(***************************************************************************)
EXTENDS Integers, Sequences, FiniteSets, FiniteSetsExt

CONSTANTS Docs, Policies, OverrideDays, ExpiryDates, MaxDay, MaxUploads,
          Moments,          \* values of created_at, apart for any two rows
          Snapshots,        \* what may be read of a subject: the records below
          ProviderSignals,  \* sets of signals a provider may add, {} if none
          MaxAssessments

ASSUME ComplianceAssumption ==
    /\ MaxDay \in Nat \ {0}
    /\ ExpiryDates \subseteq Nat /\ OverrideDays \subseteq Nat /\ Moments \subseteq Nat

VARIABLES today,      \* current_date
          docType,    \* DocumentType
          document,   \* [Docs -> DocumentRow]
          register,   \* SUBSET RegisterRow
          policy,     \* NoPolicy or a member of Policies
          overrides,  \* {[context, until]}: unexpired and expired ones
          assessments \* Seq([decision, of]): of is what one supersedes

documentVars == <<today, docType, document, register, policy, overrides>>
riskVars == <<documentVars, assessments>>

NoPolicy == [active |-> FALSE, contexts |-> {}, warning |-> 0, blocks |-> {}]

DocumentStatus == {"absent", "draft", "pending", "valid", "rejected", "expired",
                   "archived"}

Results == {"valid", "invalid", "review_required"}

(* The scope of a type stays as it is.                                     *)
DocumentType == [hasExpiry : BOOLEAN, requiresValidation : BOOLEAN, active : BOOLEAN]

(* created: created_at, the start of the transaction, so that rows commit  *)
(* in any order of it; last: what was done to the file last, "trusted" for *)
(* an upload of a type that asks for no review.                            *)
DocumentRow == [status : DocumentStatus, expires : Nat, created : Nat,
                uploads : Nat, review : Results \cup {"none"},
                last : {"none", "upload", "trusted"} \cup Results, linked : BOOLEAN]

NoDocument == [status |-> "absent", expires |-> 0, created |-> 0, uploads |-> 0,
               review |-> "none", last |-> "none", linked |-> FALSE]

(* A row of driver_documents or capacity_asset_documents that names no     *)
(* document; it is written once.                                           *)
RegisterRow == [status : {"pending", "valid", "expired", "blocked", "inactive"},
                validation : {"pending", "validated", "rejected", "not_required"},
                expires : Nat, created : Moments]

DocumentInit ==
    /\ today = 1
    /\ docType \in DocumentType
    /\ document = [d \in Docs |-> NoDocument]
    /\ register = {}
    /\ policy = NoPolicy
    /\ overrides = {}

-----------------------------------------------------------------------------
Existing(d) == document[d].status \notin {"absent", "archived"}

(* expires_on < current_date, as every query computes it.                  *)
Lapsed(row) == row.expires # 0 /\ row.expires < today

(* expiryAwareStatus compares midnight of expires_on with the time of day: *)
(* on its last day a document is expired already.                          *)
ExpiryAware(expires, otherwise) ==
    IF expires # 0 /\ expires <= today THEN "expired" ELSE otherwise

Dated(expires) == docType.hasExpiry => expires # 0

SetDocument(d, row) == /\ document' = [document EXCEPT ![d] = row]
                       /\ UNCHANGED <<today, docType, register, policy, overrides>>

NewMoment(moment) ==
    /\ \A d \in Docs : document[d].status # "absent" => document[d].created # moment
    /\ \A row \in register : row.created # moment

CreateDocument(d, expires, moment) ==
    /\ document[d].status = "absent"
    /\ docType.active
    /\ Dated(expires)
    /\ NewMoment(moment)
    /\ SetDocument(d, [NoDocument EXCEPT !.status = "draft", !.expires = expires,
                                         !.created = moment])

(* update: the dates change, the status does not.                          *)
UpdateDocument(d, expires) ==
    /\ Existing(d)
    /\ Dated(expires)
    /\ SetDocument(d, [document[d] EXCEPT !.expires = expires])

SoftDelete(d) == /\ Existing(d)
                 /\ SetDocument(d, [document[d] EXCEPT !.status = "archived"])

Uploaded(row, status) ==
    [row EXCEPT !.uploads = @ + 1, !.status = status,
                !.last = IF docType.requiresValidation THEN "upload" ELSE "trusted"]

(* The slip of keeping the status of a document that was valid.            *)
CommitUploadKeepingStatus(d) ==
    /\ Existing(d)
    /\ document[d].uploads < MaxUploads
    /\ SetDocument(d, Uploaded(document[d],
           IF docType.requiresValidation /\ document[d].status # "valid" THEN "pending"
           ELSE ExpiryAware(document[d].expires, "valid")))

(* A storage object is committed once: a repeated upload id is refused.    *)
CommitUpload(d) ==
    /\ Existing(d)
    /\ document[d].uploads < MaxUploads
    /\ SetDocument(d, Uploaded(document[d],
           IF docType.requiresValidation THEN "pending"
           ELSE ExpiryAware(document[d].expires, "valid")))

(* Of any version: the review of an old one decides the document too.  The *)
(* latest review is that of the call begun last, so a call that waited for *)
(* the document may decide its status and leave the review as it was.      *)
Validate(d, result) ==
    /\ Existing(d)
    /\ \E latest \in {result, document[d].review} \ {"none"} :
          SetDocument(d, [document[d] EXCEPT !.review = latest, !.last = result,
              !.status = CASE result = "valid"   -> ExpiryAware(document[d].expires, "valid")
                           [] result = "invalid" -> "rejected"
                           [] OTHER              -> "pending"])

LinkDocument(d) ==
    /\ Existing(d)
    /\ ~document[d].linked
    /\ SetDocument(d, [document[d] EXCEPT !.linked = TRUE])

(* createDriverDocument and createAssetDocument, in any state and dates.   *)
RegisterDocument(status, validation, expires, moment) ==
    /\ docType.active
    /\ NewMoment(moment)
    /\ register' = register \cup {[status |-> status, validation |-> validation,
                                   expires |-> expires, created |-> moment]}
    /\ UNCHANGED <<today, docType, document, policy, overrides>>

(* The tenant's catalogue: its documents stay as they are.                 *)
UpdateDocumentType(type) ==
    /\ docType' = type
    /\ UNCHANGED <<today, document, register, policy, overrides>>

UpsertPolicy(p) == /\ docType.active
                   /\ policy' = p
                   /\ UNCHANGED <<today, docType, document, register, overrides>>

(* nexora_document_compliance_override_guard: in the future, for 30 days.  *)
OverrideGuard(context, until) ==
    /\ docType.active /\ policy.active /\ context \in policy.contexts
    /\ until >= today

CreateOverride(context, until) ==
    /\ policy.active /\ context \in policy.contexts
    /\ OverrideGuard(context, until)
    /\ overrides' = overrides \cup {[context |-> context, until |-> until]}
    /\ UNCHANGED <<today, docType, document, register, policy>>

NextDay == /\ today < MaxDay
           /\ today' = today + 1
           /\ UNCHANGED <<docType, document, register, policy, overrides>>

-----------------------------------------------------------------------------
(* nexora_evaluate_document_compliance for the policy's type.              *)
AsCandidate(d) ==
    [status |-> document[d].status, expires |-> document[d].expires,
     created |-> document[d].created,
     validation |-> CASE document[d].status = "valid"    -> "validated"
                      [] document[d].status = "rejected" -> "rejected"
                      [] OTHER                           -> "pending"]

PolicyDocuments == {AsCandidate(d) : d \in {x \in Docs : Existing(x) /\ document[x].linked}}
                   \cup {row \in register : row.status # "inactive"}

StateOf(row) ==
    IF Lapsed(row) THEN "expired"
    ELSE IF row.status \in {"rejected", "blocked"} \/ row.validation = "rejected" THEN "rejected"
    ELSE IF row.status \in {"draft", "pending"} \/ row.validation = "pending" THEN "pending"
    ELSE IF row.expires # 0 /\ row.expires <= today + policy.warning THEN "expiring_soon"
    ELSE "valid"

ComplianceState ==
    IF PolicyDocuments = {} THEN "missing"
    ELSE StateOf(CHOOSE row \in PolicyDocuments : \A x \in PolicyDocuments : x.created <= row.created)

Required(context) == docType.active /\ policy.active /\ context \in policy.contexts

Overridden(context) ==
    \E o \in overrides : o.context = context /\ o.until >= today

Blocking(context) ==
    /\ Required(context)
    /\ ~Overridden(context)
    /\ ComplianceState \in {"missing"} \cup policy.blocks

-----------------------------------------------------------------------------
DocumentNext ==
    \/ \E d \in Docs :
          \/ \E expires \in ExpiryDates \cup {0} :
                \/ \E moment \in Moments : CreateDocument(d, expires, moment)
                \/ UpdateDocument(d, expires)
          \/ SoftDelete(d)
          \/ CommitUpload(d)
          \/ \E result \in Results : Validate(d, result)
          \/ LinkDocument(d)
    \/ \E status \in {"pending", "valid", "expired", "blocked", "inactive"},
          validation \in {"pending", "validated", "rejected", "not_required"},
          expires \in ExpiryDates \cup {0}, moment \in Moments :
          RegisterDocument(status, validation, expires, moment)
    \/ \E type \in DocumentType : UpdateDocumentType(type)
    \/ \E p \in Policies : UpsertPolicy(p)
    \/ \E context \in {"contracting", "trip"}, until \in OverrideDays :
          CreateOverride(context, until)
    \/ NextDay

-----------------------------------------------------------------------------
(* Risk.                                                                   *)

Signal(code, severity, score) == [code |-> code, severity |-> severity, score |-> score]

Clamp(score) == IF score > 100 THEN 100 ELSE IF score < 0 THEN 0 ELSE score

TotalScore(signals) == Clamp(MapThenSumSet(LAMBDA s : Clamp(s.score), signals))

ResolveDecision(signals) ==
    LET severities == {s.severity : s \in signals}
    IN  IF "critical" \in severities \/ TotalScore(signals) >= 80 THEN "block"
        ELSE IF severities \cap {"high", "medium"} # {} \/ TotalScore(signals) >= 40
             THEN "review"
        ELSE "approve"

(* What a party, a driver or an asset itself raises: one field, one signal.*)
PartySignals(s) ==
    (IF s.status = "inactive" THEN {Signal("PARTY_INACTIVE", "medium", 30)} ELSE {})
    \cup (CASE s.homologation = "rejected" ->
                  {Signal("PARTY_HOMOLOGATION_REJECTED", "critical", 80)}
            [] s.partner /\ s.homologation \in {"none", "pending"} ->
                  {Signal("PARTY_HOMOLOGATION_PENDING", "high", 40)}
            [] OTHER -> {})
    \cup (IF s.email THEN {} ELSE {Signal("PARTY_EMAIL_MISSING", "low", 5)})
    \cup (IF s.phone THEN {} ELSE {Signal("PARTY_PHONE_MISSING", "low", 5)})

DriverSignals(s) ==
    (CASE s.registration = "blocked" -> {Signal("DRIVER_REGISTRATION_BLOCKED", "critical", 80)}
       [] s.registration = "pending" -> {Signal("DRIVER_REGISTRATION_PENDING", "medium", 30)}
       [] s.registration = "inactive" -> {Signal("DRIVER_REGISTRATION_INACTIVE", "medium", 30)}
       [] OTHER -> {})
    \cup (CASE s.operational = "blocked" ->
                  {Signal("DRIVER_OPERATIONAL_BLOCKED", "critical", 80)}
            [] s.operational = "inactive" ->
                  {Signal("DRIVER_OPERATIONAL_INACTIVE", "medium", 30)}
            [] OTHER -> {})
    \cup (IF s.cnhExpired THEN {Signal("DRIVER_CNH_EXPIRED", "critical", 80)} ELSE {})
    \cup (IF s.carrier THEN {} ELSE {Signal("DRIVER_CARRIER_MISSING", "low", 10)})
    \cup (IF s.email THEN {} ELSE {Signal("DRIVER_EMAIL_MISSING", "low", 5)})

AssetSignals(s) ==
    (CASE s.status = "blocked"  -> {Signal("ASSET_BLOCKED", "critical", 80)}
       [] s.status = "inactive" -> {Signal("ASSET_INACTIVE", "medium", 30)}
       [] OTHER -> {})
    \cup (IF s.carrier THEN {} ELSE {Signal("ASSET_CARRIER_MISSING", "low", 10)})

SubjectSignals(s) == CASE s.scope = "party"  -> PartySignals(s)
                       [] s.scope = "driver" -> DriverSignals(s)
                       [] s.scope = "asset"  -> AssetSignals(s)

(* The first signal of a code wins: the subject's own, then the provider's.*)
Merged(own, provider) ==
    own \cup {s \in provider : \A t \in own : t.code # s.code}

DocumentSignals(d) ==
    LET row == document[d]
        codes == IF row.status = "rejected" THEN {Signal("DOCUMENT_REJECTED", "critical", 80)}
                 ELSE IF row.status = "expired" \/ Lapsed(row)
                      THEN {Signal("DOCUMENT_EXPIRED", "critical", 80)}
                 ELSE IF row.status \in {"draft", "pending"}
                      THEN {Signal("DOCUMENT_PENDING", "medium", 30)}
                 ELSE {}
    IN  codes
        \cup (CASE row.review = "invalid" -> {Signal("VALIDATION_INVALID", "critical", 80)}
                [] row.review = "review_required" -> {Signal("VALIDATION_REVIEW", "high", 40)}
                [] OTHER -> {})

(* The slip of reporting every state by its own severity, blocking or not. *)
ComplianceSignalsUnblocked ==
    IF ~Required("contracting") THEN {}
    ELSE CASE ComplianceState = "pending"       -> {Signal("COMPLIANCE_PENDING", "medium", 30)}
           [] ComplianceState = "expiring_soon" -> {Signal("COMPLIANCE_EXPIRING", "low", 10)}
           [] ComplianceState = "valid"         -> {}
           [] OTHER -> {Signal("COMPLIANCE_LAPSED", "high", 40)}

(* evaluateDocumentCompliance, in the contracting context.                 *)
ComplianceSignals ==
    IF ~Required("contracting") THEN {}
    ELSE IF Blocking("contracting") THEN {Signal("COMPLIANCE_BLOCK", "critical", 80)}
    ELSE CASE ComplianceState = "pending"       -> {Signal("COMPLIANCE_PENDING", "medium", 30)}
           [] ComplianceState = "expiring_soon" -> {Signal("COMPLIANCE_EXPIRING", "low", 10)}
           [] ComplianceState \in {"expired", "rejected"} ->
                  {Signal("COMPLIANCE_LAPSED", "high", 40)}
           [] OTHER -> {}

SubjectDecision(s, provider) ==
    ResolveDecision(Merged(SubjectSignals(s) \cup ComplianceSignals, provider))

DocumentDecision(d, provider) == ResolveDecision(Merged(DocumentSignals(d), provider))

Insert(decision, of) ==
    /\ Len(assessments) < MaxAssessments
    /\ assessments' = Append(assessments, [decision |-> decision, of |-> of])
    /\ UNCHANGED documentVars

EvaluateSubject(s, provider) == Insert(SubjectDecision(s, provider), 0)

EvaluateDocument(d, provider) == Existing(d) /\ Insert(DocumentDecision(d, provider), 0)

(* A manager decides on any assessment of the subject, an old one too.     *)
Decide(i, decision) == i \in DOMAIN assessments /\ Insert(decision, i)

RiskInit == DocumentInit /\ assessments = <<>>

RiskNext ==
    \/ DocumentNext /\ UNCHANGED assessments
    \/ \E s \in Snapshots, provider \in ProviderSignals : EvaluateSubject(s, provider)
    \/ \E d \in Docs, provider \in ProviderSignals : EvaluateDocument(d, provider)
    \/ \E i \in DOMAIN assessments, decision \in {"approve", "review", "block"} :
          Decide(i, decision)

RiskSpec == RiskInit /\ [][RiskNext]_riskVars

-----------------------------------------------------------------------------
DocumentTypeOK ==
    /\ today \in 1..MaxDay
    /\ docType \in DocumentType
    /\ document \in [Docs -> DocumentRow]
    /\ register \subseteq RegisterRow
    /\ policy \in Policies \cup {NoPolicy}
    /\ overrides \subseteq [context : {"contracting", "trip"}, until : OverrideDays]

(* A document is valid only while the last thing done to it was a review   *)
(* that found it valid, or an upload made when its type asked for none: an *)
(* upload takes the standing of the review before it.  A type that comes   *)
(* to ask for reviews leaves what was uploaded before as it stands.        *)
ValidWasReviewed ==
    \A d \in Docs : document[d].status = "valid" => document[d].last \in {"valid", "trusted"}

RiskTypeOK ==
    /\ DocumentTypeOK
    /\ assessments \in Seq([decision : {"approve", "review", "block"}, of : Nat])

(* The two answers the API gives agree, whatever a provider adds: a        *)
(* subject that contracting refuses is assessed "block", and a document    *)
(* that is assessed "approve" would be compliant as the deciding one.      *)
RiskAgreesWithCompliance ==
    \A provider \in ProviderSignals :
        /\ \A s \in Snapshots :
              Blocking("contracting") => SubjectDecision(s, provider) = "block"
        /\ \A d \in Docs :
              Existing(d) /\ DocumentDecision(d, provider) = "approve" =>
                  StateOf(AsCandidate(d)) \in {"valid", "expiring_soon"}
=============================================================================
