\* One delivery or one message; two workers that crash, run late and steal leases;
\* for a message two providers.
SPECIFICATION OutboundSpec
CONSTANTS
  Handlers = {"webhook", "message"}
  s1 = s1
  c1 = c1
  e1 = e1
  Subs = {s1}
  Clients = {c1}
  ClientOf <- OneClient
  Calls = {k1}
  Events = {e1}
  Jobs <- DeliveryJobs
  Workers = {w1, w2}
  NoWorker = NoWorker
  Providers = {pA, pB}
  NoProvider = NoProvider
  MaxAttempts <- TwoAttempts
  MaxDelay = 0
  LeaseSeconds = 1
  BaseBackoff = 1
  MaxBackoff = 1
  BatchSize = 1
SYMMETRY WorkerSymmetry
INVARIANTS DeliveriesTypeOK SentIsTrue RowFollowsJob OneSenderPerDelivery
