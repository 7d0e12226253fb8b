\* createWebhook against revokeClient, before any event.
SPECIFICATION OutboundSpec
CONSTANTS
  Handlers = {"webhook"}
  s1 = s1
  c1 = c1
  e1 = e1
  Subs = {s1}
  Clients = {c1}
  ClientOf <- OneClient
  Calls = {k1, k2}
  Events = {}
  Jobs <- DeliveryJobs
  Workers = {w1}
  NoWorker = NoWorker
  Providers = {pA}
  NoProvider = NoProvider
  MaxAttempts <- OneAttempt
  MaxDelay = 0
  LeaseSeconds = 1
  BaseBackoff = 1
  MaxBackoff = 1
  BatchSize = 1
INVARIANTS RevokedClientHasNoActiveSub
CHECK_DEADLOCK FALSE
