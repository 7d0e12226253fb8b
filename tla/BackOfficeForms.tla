--------------------------- MODULE BackOfficeForms ---------------------------
(***************************************************************************)
(* The forms of the back office beside their tables: what is owed and paid,*)
(* statements and their matches, the rules documents are held to, messages *)
(* to recipients and the clients of other systems.  Amounts are read here  *)
(* as text of at most two decimals, so no column has to round one.         *)
(***************************************************************************)
EXTENDS Admission

-----------------------------------------------------------------------------
(* requireMoney: exactly what a numeric(14,2) above zero holds.            *)
ExactMoney == Rule({10, 100, 10 * Most}, {}, Unfit, 100, {-10, 0, 4, 10, 14, 10 * Most, Huge})

(* A reason of so many characters; a prefix may be put before it.          *)
Reason(least, most) == [Text(least, most) EXCEPT !.usual = 10, !.tries = @ \cup {10, 500, 960}]

Obligation ==
    [transportContractId |-> Uuid, tripId |-> OptionalOrEmpty(Uuid), dueAt |-> Instant,
     notes |-> OptionalText(1000)]

carrierPaymentObligations ==
    [transportContractId |-> NotNull(Key), tripId |-> Key, dueAt |-> NotNull(Timestamp),
     notes |-> Varchar(1000)]

ObligationCancel == [reason |-> Reason(10, 1000)]
cancelledObligations == [reason |-> NotNull(Varchar(1000))]
cancelledObligationsCheck(r) == r.reason > 0

Receivable ==
    [transportRequestId |-> Uuid, invoicedAmount |-> ExactMoney, dueAt |-> Instant,
     fiscalDocumentId |-> OptionalOrEmpty(Uuid), fiscalReference |-> OptionalText(160),
     notes |-> OptionalText(1000)]

customerReceivables ==
    [transportRequestId |-> NotNull(Key), invoicedAmount |-> NotNull(Numeric),
     dueAt |-> NotNull(Timestamp), fiscalDocumentId |-> Key, fiscalReference |-> Varchar(160),
     notes |-> Varchar(1000)]

customerReceivablesCheck(r) == r.invoicedAmount > 0 /\ AtLeast(r.fiscalReference, 1)

(* A transaction of either ledger; only a reversal names another.          *)
LedgerEntry(kinds, usual) ==
    [kind |-> [Enumeration(kinds) EXCEPT !.usual = usual], amount |-> ExactMoney,
     relatedTransactionId |-> [OptionalOrEmpty(Uuid) EXCEPT !.usual = Null],
     proofDocumentId |-> OptionalOrEmpty(Uuid), occurredAt |-> Left(Instant, Now),
     notes |-> OptionalText(1000)]

LedgerEntryParsed(r) == r.kind = "reversal" <=> Filled(r.relatedTransactionId)

ledgerTransactions(kinds) ==
    [kind |-> NotNull(Words(kinds)), amount |-> NotNull(Numeric), relatedTransactionId |-> Key,
     proofDocumentId |-> Key, occurredAt |-> NotNull(Timestamp), notes |-> Varchar(1000)]

ledgerTransactionsCheck(r) ==
    r.amount > 0 /\ (r.kind = "reversal" <=> Filled(r.relatedTransactionId))

-----------------------------------------------------------------------------
Statement ==
    [source |-> RequiredString(40), provider |-> OptionalText(80),
     externalBatchId |-> OptionalText(160), accountReference |-> OptionalText(160),
     periodStart |-> OptionalOrEmpty(Day), periodEnd |-> OptionalOrEmpty(Day)]

StatementParsed(r) == InOrder(r.periodStart, r.periodEnd)

financialReconciliationImports ==
    [source |-> NotNull(Varchar(40)), provider |-> Varchar(80), externalBatchId |-> Varchar(160),
     accountReference |-> Varchar(160), periodStart |-> DateColumn, periodEnd |-> DateColumn]

financialReconciliationImportsCheck(r) == r.source > 0 /\ InOrder(r.periodStart, r.periodEnd)

StatementEntry ==
    [externalId |-> OptionalText(160), direction |-> Enumeration({"credit", "debit"}),
     amount |-> ExactMoney, currencyCode |-> Enumeration({"letters"}), occurredAt |-> Instant,
     reference |-> OptionalText(300), counterpartyName |-> OptionalText(200),
     rawPayload |-> ObjectOrNone]

financialReconciliationEntries ==
    [externalId |-> Varchar(160), direction |-> NotNull(Words({"credit", "debit"})),
     amount |-> NotNull(Numeric), currencyCode |-> NotNull(Words({"letters"})),
     occurredAt |-> NotNull(Timestamp), reference |-> Varchar(300),
     counterpartyName |-> Varchar(200), rawPayload |-> NotNull(Json)]

financialReconciliationEntriesCheck(r) == r.amount > 0

(* A match writes a ledger transaction, with its notes behind the entry's  *)
(* id: "Reconciliation <uuid>" has 51 characters, and ": " follows.        *)
Match ==
    [targetType |-> Enumeration({"customer_receivable", "carrier_payment"}), targetId |-> Uuid,
     matchMethod |-> Left(Enumeration({"suggested", "manual"}), "manual"),
     proofDocumentId |-> OptionalOrEmpty(Uuid),
     notes |-> [OptionalText(1000) EXCEPT !.tries = @ \cup {947, 948}]]

Reconciled(r) == [r EXCEPT !.notes = IF Filled(@) THEN @ + 53 ELSE 51]

financialReconciliationMatches ==
    [targetType |-> NotNull(Words({"customer_receivable", "carrier_payment"})),
     targetId |-> NotNull(Key), matchMethod |-> NotNull(Words({"suggested", "manual"})),
     proofDocumentId |-> Key, notes |-> Varchar(1000)]

(* What undoes a match, and what puts an entry aside.                      *)
MatchReverse == [reason |-> Reason(10, 1000)]
Ignore == [reason |-> Reason(10, 1000)]

(* "Reconciliation reversal: " and "Ignored: ".                            *)
Undone(r) == [reverseReason |-> r.reason, notes |-> r.reason + 25]
Ignored(r) == [suggestionReason |-> r.reason + 9]

reversedMatches == [reverseReason |-> NotNull(Varchar(1000)), notes |-> Varchar(1000)]
reversedMatchesCheck(r) == r.reverseReason > 0
ignoredEntries == [suggestionReason |-> Varchar(500)]

-----------------------------------------------------------------------------
CompliancePolicy ==
    [documentTypeId |-> Uuid, requiredForContracting |-> Left(Flag, FALSE),
     requiredForTrip |-> Left(Flag, FALSE),
     warningDays |-> Rule(0..365, {Unsent}, 30, 30, {-1, 0, 365, 366}),
     blockWhenExpiringSoon |-> Left(Flag, FALSE), blockWhenPending |-> Left(Flag, TRUE),
     blockWhenRejected |-> Left(Flag, TRUE), blockWhenExpired |-> Left(Flag, TRUE),
     isActive |-> Left(Flag, TRUE)]

CompliancePolicyParsed(r) == r.requiredForContracting \/ r.requiredForTrip

documentCompliancePolicies ==
    [c \in DOMAIN CompliancePolicy |->
        CASE c = "documentTypeId" -> NotNull(Key)
          [] c = "warningDays" -> NotNull(IntegerColumn)
          [] OTHER -> NotNull(Boolean)]

documentCompliancePoliciesCheck(r) ==
    r.warningDays \in 0..365 /\ (r.requiredForContracting \/ r.requiredForTrip)

ComplianceOverride ==
    [context |-> Enumeration({"contracting", "trip"}),
     subjectScope |-> Enumeration({"party", "driver", "asset"}), subjectId |-> Uuid,
     documentTypeId |-> Uuid, reason |-> Reason(10, 1000),
     validUntil |-> [Instant EXCEPT !.usual = 3]]

ComplianceOverrideParsed(r) == r.validUntil > Now

documentComplianceOverrides ==
    [context |-> NotNull(Words({"contracting", "trip"})),
     subjectScope |-> NotNull(Words({"party", "driver", "asset"})), subjectId |-> NotNull(Key),
     documentTypeId |-> NotNull(Key), reason |-> NotNull(Varchar(1000)),
     validUntil |-> NotNull(Timestamp)]

documentComplianceOverridesCheck(r) == r.reason >= 10 /\ r.validUntil > Now

RiskDecision ==
    [decision |-> Enumeration({"approve", "review", "block"}), reason |-> Reason(10, 1500)]

complianceRiskAssessments ==
    [decision |-> NotNull(Words({"approve", "review", "block"})), reason |-> NotNull(Varchar(1500))]

complianceRiskAssessmentsCheck(r) == r.reason >= 10

-----------------------------------------------------------------------------
MessageChannels == {"email", "whatsapp", "sms"}
RecipientTypes == {"driver", "party_contact"}

ProviderRoute ==
    [channel |-> Enumeration(MessageChannels), providerCode |-> Text(2, 80),
     status |-> Left(Enumeration({"active", "disabled"}), "active")]

communicationProviderRoutes ==
    [channel |-> NotNull(Words(MessageChannels)), providerCode |-> NotNull(Varchar(80)),
     status |-> NotNull(Words({"active", "disabled"}))]

communicationProviderRoutesCheck(r) == r.providerCode >= 2

(* The locale left out is pt-BR; a version is a million at most, which is  *)
(* well within its column.                                                 *)
Template ==
    [templateKey |-> Text(3, 120), channel |-> Enumeration(MessageChannels),
     locale |-> [OptionalString(16) EXCEPT !.accepts = 2..16, !.default = 5],
     version |-> Rule(1..Most, {}, Unfit, 1, {0, 1, Most, Huge}),
     subjectTemplate |-> OptionalString(500), bodyTemplate |-> Text(1, 10000),
     status |-> Left(Enumeration({"draft", "active"}), "draft")]

TemplateParsed(r) == r.channel = "email" => Filled(r.subjectTemplate)

communicationTemplates ==
    [templateKey |-> NotNull(Varchar(120)), channel |-> NotNull(Words(MessageChannels)),
     locale |-> NotNull(Varchar(16)), version |-> NotNull(IntegerColumn),
     subjectTemplate |-> Varchar(500), bodyTemplate |-> NotNull(Varchar(Most)),
     status |-> NotNull(Words({"draft", "active", "retired"}))]

communicationTemplatesCheck(r) ==
    /\ r.templateKey \in 3..120 /\ r.locale \in 2..16 /\ r.version > 0
    /\ r.bodyTemplate \in 1..10000
    /\ r.channel = "email" => Filled(r.subjectTemplate) /\ r.subjectTemplate > 0

Preference ==
    [recipientType |-> Enumeration(RecipientTypes), recipientId |-> Uuid,
     channel |-> Enumeration(MessageChannels), enabled |-> Flag,
     consentStatus |-> [Enumeration({"granted", "denied", "unknown"}) EXCEPT !.usual = "granted"],
     consentSource |-> [OptionalString(160) EXCEPT !.accepts = 2..160],
     consentedAt |-> OptionalOrEmpty(Instant), policyVersion |-> Text(1, 80)]

PreferenceParsed(r) ==
    /\ r.enabled => r.consentStatus = "granted"
    /\ r.consentStatus = "granted" => Filled(r.consentSource) /\ Filled(r.consentedAt)

communicationPreferences ==
    [recipientType |-> NotNull(Words(RecipientTypes)), recipientId |-> NotNull(Key),
     channel |-> NotNull(Words(MessageChannels)), enabled |-> NotNull(Boolean),
     consentStatus |-> NotNull(Words({"granted", "denied", "unknown"})),
     consentSource |-> Varchar(160), consentedAt |-> Timestamp,
     policyVersion |-> NotNull(Varchar(80))]

(* The function that writes the row also asks what its CHECKs leave out.   *)
communicationPreferencesCheck(r) ==
    /\ r.enabled => r.consentStatus = "granted"
    /\ r.consentStatus = "granted" =>
          Filled(r.consentedAt) /\ Filled(r.consentSource) /\ r.consentSource >= 2
    /\ r.policyVersion \in 1..80

(* The template is rendered with the variables as the message is queued:   *)
(* long ones take the text beyond its column, whatever the template's size.*)
Queueing ==
    [templateId |-> Uuid, recipientType |-> Enumeration(RecipientTypes), recipientId |-> Uuid,
     variables |-> Rule({"object", "long"}, {Unsent}, "object", "object", {"long"}),
     idempotencyKey |-> Text(3, 180), maxAttempts |-> Rule(1..20, {Unsent}, 5, 5, {0, 1, 20, 21})]

Rendered(r) ==
    [c \in DOMAIN r \cup {"renderedSubject", "renderedBody"} |->
        CASE c = "renderedSubject" -> IF r.variables = "long" THEN 501 ELSE 9
          [] c = "renderedBody" -> IF r.variables = "long" THEN 10001 ELSE 9
          [] OTHER -> r[c]]

outboundCommunications ==
    [templateId |-> NotNull(Key), recipientType |-> NotNull(Words(RecipientTypes)),
     recipientId |-> NotNull(Key), variables |-> NotNull(Words({"object", "long"})),
     renderedSubject |-> Varchar(500), renderedBody |-> NotNull(Varchar(Most)),
     idempotencyKey |-> NotNull(Varchar(180)), maxAttempts |-> NotNull(IntegerColumn)]

outboundCommunicationsCheck(r) ==
    r.renderedBody \in 1..10000 /\ r.idempotencyKey \in 3..180 /\ r.maxAttempts \in 1..20

-----------------------------------------------------------------------------
IntegrationScopes == {"freight.read", "trips.read", "documents.read"}
ScopeLists == {{"freight.read"}, {"trips.read", "documents.read"}, IntegrationScopes}

IntegrationClient ==
    [name |-> Text(1, 160),
     scopes |-> Rule(ScopeLists, {}, Unfit, {"freight.read"}, ScopeLists \cup {{}}),
     expiresAt |-> [OptionalOrEmpty(Instant) EXCEPT !.usual = 3]]

IntegrationClientParsed(r) == Filled(r.expiresAt) => r.expiresAt > Now

integrationClients ==
    [name |-> NotNull(Varchar(160)), scopes |-> NotNull(Words(SUBSET IntegrationScopes)),
     expiresAt |-> Timestamp]

integrationClientsCheck(r) ==
    /\ r.name \in 1..160 /\ Cardinality(r.scopes) \in 1..8
    /\ Filled(r.expiresAt) => r.expiresAt > Now

(* Of the event types only their number is told.                           *)
Subscription ==
    [integrationClientId |-> Uuid, name |-> Text(1, 160), endpointUrl |-> RequiredString(2048),
     eventTypes |-> Rule(1..50, {}, Unfit, 1, {0, 50, 51}),
     maxAttempts |-> Rule(1..10, {Unsent, Null}, 5, 5, {0, 1, 10, 11}),
     timeoutMs |-> Rule(500..15000, {Unsent, Null}, 5000, 5000, {499, 500, 15000, 15001})]

(* The URL is kept as the parser writes it: one without a path gains a     *)
(* slash after its length was looked at.                                   *)
Endpoint(r) == [r EXCEPT !.endpointUrl = @ + 1]

webhookSubscriptions ==
    [integrationClientId |-> NotNull(Key), name |-> NotNull(Varchar(160)),
     endpointUrl |-> NotNull(Varchar(2048)), eventTypes |-> NotNull(Varchar(Most)),
     maxAttempts |-> NotNull(IntegerColumn), timeoutMs |-> NotNull(IntegerColumn)]

webhookSubscriptionsCheck(r) ==
    /\ r.name \in 1..160 /\ r.eventTypes \in 1..50
    /\ r.maxAttempts \in 1..10 /\ r.timeoutMs \in 500..15000

(* A subscription's status is set on its own, or goes with its client; the *)
(* reason of either is kept only with a revocation.                        *)
SubscriptionStatus ==
    [status |-> Enumeration({"active", "paused", "revoked"}), reason |-> Left(Text(3, 1000), Null)]

SubscriptionStatusParsed(r) == r.status = "revoked" => Filled(r.reason)

Revoked(r) == [r EXCEPT !.reason = IF r.status = "revoked" THEN @ ELSE Null]

subscriptionStatuses ==
    [status |-> NotNull(Words({"active", "paused", "revoked"})), reason |-> Varchar(1000)]

subscriptionStatusesCheck(r) ==
    IF r.status = "revoked" THEN Filled(r.reason) /\ r.reason >= 3 ELSE ~Filled(r.reason)

ClientRevoke == [reason |-> Reason(3, 1000)]

(* "Integration client revoked: ", for the subscriptions of the client.    *)
WithItsSubscriptions(r) == [reason |-> r.reason, subscriptionReason |-> r.reason + 28]

revokedClients == [reason |-> NotNull(Varchar(1000)), subscriptionReason |-> Varchar(1000)]
revokedClientsCheck(r) == r.reason >= 3 /\ r.subscriptionReason >= 3

-----------------------------------------------------------------------------
PaymentKinds == {"advance", "payment", "reversal"}
ReceiptKinds == {"receipt", "reversal"}

BackOfficeDesk ==
    [carrier_payment_obligations |->
         [form |-> Obligation, columns |-> carrierPaymentObligations],
     cancelled_obligations |-> [form |-> ObligationCancel, columns |-> cancelledObligations],
     carrier_payment_transactions |->
         [form |-> LedgerEntry(PaymentKinds, "payment"),
          columns |-> ledgerTransactions(PaymentKinds)],
     customer_receivables |-> [form |-> Receivable, columns |-> customerReceivables],
     cancelled_receivables |-> [form |-> ObligationCancel, columns |-> cancelledObligations],
     customer_receivable_transactions |->
         [form |-> LedgerEntry(ReceiptKinds, "receipt"),
          columns |-> ledgerTransactions(ReceiptKinds)],
     financial_reconciliation_imports |->
         [form |-> Statement, columns |-> financialReconciliationImports],
     financial_reconciliation_entries |->
         [form |-> StatementEntry, columns |-> financialReconciliationEntries],
     financial_reconciliation_matches |->
         [form |-> Match, columns |-> financialReconciliationMatches],
     reversed_matches |-> [form |-> MatchReverse, columns |-> reversedMatches],
     ignored_entries |-> [form |-> Ignore, columns |-> ignoredEntries],
     document_compliance_policies |->
         [form |-> CompliancePolicy, columns |-> documentCompliancePolicies],
     document_compliance_overrides |->
         [form |-> ComplianceOverride, columns |-> documentComplianceOverrides],
     compliance_risk_assessments |->
         [form |-> RiskDecision, columns |-> complianceRiskAssessments],
     communication_provider_routes |->
         [form |-> ProviderRoute, columns |-> communicationProviderRoutes],
     communication_templates |-> [form |-> Template, columns |-> communicationTemplates],
     communication_preferences |-> [form |-> Preference, columns |-> communicationPreferences],
     outbound_communications |-> [form |-> Queueing, columns |-> outboundCommunications],
     integration_clients |-> [form |-> IntegrationClient, columns |-> integrationClients],
     webhook_subscriptions |-> [form |-> Subscription, columns |-> webhookSubscriptions],
     subscription_statuses |->
         [form |-> SubscriptionStatus, columns |-> subscriptionStatuses],
     revoked_clients |-> [form |-> ClientRevoke, columns |-> revokedClients]]

Transactions == {"carrier_payment_transactions", "customer_receivable_transactions"}

BackOfficeAdmits(t, r) ==
    CASE t \in Transactions -> LedgerEntryParsed(r)
      [] t = "financial_reconciliation_imports" -> StatementParsed(r)
      [] t = "document_compliance_policies" -> CompliancePolicyParsed(r)
      [] t = "document_compliance_overrides" -> ComplianceOverrideParsed(r)
      [] t = "communication_templates" -> TemplateParsed(r)
      [] t = "communication_preferences" -> PreferenceParsed(r)
      [] t = "integration_clients" -> IntegrationClientParsed(r)
      [] t = "subscription_statuses" -> SubscriptionStatusParsed(r)
      [] OTHER -> TRUE

BackOfficeInserts(t, r) ==
    CASE t = "financial_reconciliation_matches" -> Reconciled(r)
      [] t = "reversed_matches" -> Undone(r)
      [] t = "ignored_entries" -> Ignored(r)
      [] t = "outbound_communications" -> Rendered(r)
      [] t = "webhook_subscriptions" -> Endpoint(r)
      [] t = "subscription_statuses" -> Revoked(r)
      [] t = "revoked_clients" -> WithItsSubscriptions(r)
      [] OTHER -> r

BackOfficeTakes(t, r) ==
    CASE t \in {"cancelled_obligations", "cancelled_receivables"} -> cancelledObligationsCheck(r)
      [] t = "customer_receivables" -> customerReceivablesCheck(r)
      [] t \in Transactions -> ledgerTransactionsCheck(r)
      [] t = "financial_reconciliation_imports" -> financialReconciliationImportsCheck(r)
      [] t = "financial_reconciliation_entries" -> financialReconciliationEntriesCheck(r)
      [] t = "reversed_matches" -> reversedMatchesCheck(r)
      [] t = "document_compliance_policies" -> documentCompliancePoliciesCheck(r)
      [] t = "document_compliance_overrides" -> documentComplianceOverridesCheck(r)
      [] t = "compliance_risk_assessments" -> complianceRiskAssessmentsCheck(r)
      [] t = "communication_provider_routes" -> communicationProviderRoutesCheck(r)
      [] t = "communication_templates" -> communicationTemplatesCheck(r)
      [] t = "communication_preferences" -> communicationPreferencesCheck(r)
      [] t = "outbound_communications" -> outboundCommunicationsCheck(r)
      [] t = "integration_clients" -> integrationClientsCheck(r)
      [] t = "webhook_subscriptions" -> webhookSubscriptionsCheck(r)
      [] t = "subscription_statuses" -> subscriptionStatusesCheck(r)
      [] t = "revoked_clients" -> revokedClientsCheck(r)
      [] OTHER -> TRUE

(* A text that was short enough when it was looked at and is written behind*)
(* a prefix, rendered, or normalised into a column of the same length.     *)
BackOfficeEdge(t, r) ==
    \/ t = "financial_reconciliation_matches" /\ r.notes > 1000
    \/ t = "reversed_matches" /\ r.notes > 1000
    \/ t = "ignored_entries" /\ r.suggestionReason > 500
    \/ t = "outbound_communications" /\ r.variables = "long"
    \/ t = "webhook_subscriptions" /\ r.endpointUrl > 2048
    \/ t = "revoked_clients" /\ r.subscriptionReason > 1000
=============================================================================
