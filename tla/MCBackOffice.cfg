\* Thirteen small instances side by side; most of them come to an end: every call
\* made, every bound reached.
CONSTANTS
  Contracts = {c1}
  ContractAmount = 2
  PaymentAmounts = {1}
  PaymentCalls = {k1, k2}
  NoCall = NoCall
  MaxPostings = 3
  Requests = {r1}
  InvoicedAmounts = {2}
  ReceiptAmounts = {1}
  ReceiptCalls = {k3, k4}
  NoReceipt = NoReceipt
  MaxReceipts = 3
  Debits = {e1}
  Credits = {e2}
  EntryAmount <- EntryAmountValue
  Affinity <- AffinityValue
  NoTarget = NoTarget
  NoTask = NoTask
  FirstDoc = d1
  Docs = {d1, d2}
  Moments = {1, 2}
  Policies <- PolicyValues
  OverrideDays = {1}
  ExpiryDates = {1}
  MaxDay = 2
  MaxUploads = 1
  Snapshots <- OwnSnapshots
  ProviderSignals <- OtherSignals
  MaxAssessments = 2
  Drivers = {"driver"}
  Assets = {"asset"}
  Carriers = {"carrier"}
  NoCarrier = "none"
  CapacityCalls = {k1, k2}
  NoWork = NoWork
  Keys = {"x"}
  MaxAssignments = 2
  MaxBlocks = 1
  MaxFiled = 3
  Threads = {"t1"}
  Members = {"u1", "u2"}
  Externals = {"party"}
  ThreadCalls = {k1, k2}
  NoChange = NoChange
  MaxParticipants = 3
  MaxMessages = 1
  EventKeys = {"request", "contract"}
  Users = {"u1", "u2"}
  EmitCalls = {k1, k2}
  NoEmission = NoEmission
  Offered = {1, 2}
  CargoShapes <- Cargos
  OfferShapes <- Shapes
  Unknown = Unknown
  MaxMatchings = 1
  Preferences <- PreferenceValues
  NoPreference = NoPreference
  Journeys = {trip}
  PickupStops = {"pickup"}
  DeliveryStops = {"first", "second"}
  NoStop = "none"
  Papers = {paper1}
  Relations = {"execution", "delivery_proof"}
  ProviderEvents = {ping}
  Nowhere = Nowhere
  Occurrences = {occ}
  Responsibles = {"u1"}
  Nobody = "nobody"
  RecordCalls = {k1, k2}
  NoRecord = NoRecord
  MaxRecords = 2
  CallStarts = {1, 2, 3}
SPECIFICATION MCSpec
INVARIANTS
  BackOfficeTypeOK
  ReconciledIsBacked
  ValidWasReviewed
  RiskAgreesWithCompliance
  AlwaysStaffed
  RunsAreExplained
  HistoryExplainsOccurrence
  DeliveriesAreEvidenced
PROPERTIES
  AccountsImplementLedger
  DeadObligationsStay
  EndedStaysEnded
  RecipientsAreFixed
CHECK_DEADLOCK FALSE
