\* A worker that crashes between the record of its attempt and the completion.
SPECIFICATION OutboundSpec
CONSTANTS
  Handlers = {"webhook"}
  s1 = s1
  c1 = c1
  e1 = e1
  Subs = {s1}
  Clients = {c1}
  ClientOf <- OneClient
  Calls = {k1}
  Events = {e1}
  Jobs <- DeliveryJobs
  Workers = {w1}
  NoWorker = NoWorker
  Providers = {pA}
  NoProvider = NoProvider
  MaxAttempts <- OneAttempt
  MaxDelay = 0
  LeaseSeconds = 2
  BaseBackoff = 1
  MaxBackoff = 1
  BatchSize = 1
INVARIANTS ReaperCanEndJob
