\* Ten small instances side by side; some come to an end when a bound is reached.
CONSTANTS
  Points = {"shipper", "consignee"}
  Profiles = {"dry"}
  Prices = {"low", "high"}
  Keys = {"x", "y"}
  ChildIds = {1, 2}
  Lanes = {"north"}
  Cities = {"a", "b", "c"}
  PlanCalls = {k1, k2}
  MaxStops = 3
  Nothing = Nothing
  MaxVersion = 4
  Parties = {p1, p2}
  FirstParty = p1
  TaxIds = {"t1", "t2"}
  Roles = {"carrier", "customer"}
  PartnerRoles = {"carrier"}
  Addresses = {"street"}
  Contacts = {"ana"}
  Channels = {"email"}
  Codes = {"c1", "c2"}
  Entries = {1, 2}
  Links = {"l1"}
  Scopes = {"cte", "invoice"}
  MasterCalls = {k1, k2}
  Keep = Keep
  UpdateStarts = {1, 2}
  MaxNumber = 2
  Clients = {"ana"}
  WindowLength = 2
  Limit <- LimitValue
  MaxTracked = 1
  PruneEvery = 3
  MaxInstant = 5
  NoWindow = NoWindow
  Unsent = Unsent
  Null = Null
  Empty = Empty
  Unfit = Unfit
  NoDay = NoDay
  MaxPatches = 1
  MaxUnusual = 1
SPECIFICATION MCSpec
INVARIANTS
  PlanningTypeOK
  PlanHoldsTogether
  HistoryTellsTerms
  BookkeepingHolds
  LimitsHold
  StoredAsAdmitted
PROPERTIES
  DecidedAsSubmitted
CHECK_DEADLOCK FALSE
