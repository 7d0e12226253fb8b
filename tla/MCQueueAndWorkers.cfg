\* One event and two jobs, of which one has three attempts, two workers, batches
\* of one or two; the retry schedule (1, then 2 clamped to 1) reaches its clamp.
CONSTANTS
  p1 = p1
  p2 = p2
  w1 = w1
  w2 = w2
  j2 = j2
  Events = {e1}
  Jobs = {j1, j2}
  Workers = {w1, w2}
  NoWorker = NoWorker
  MaxAttempts <- Attempts
  MaxDelay = 1
  LeaseSeconds = 2
  BaseBackoff = 1
  MaxBackoff = 1
  BatchSize = 2
  Procs = {p1, p2}
  IdOf <- OwnIds
  Concurrency = 1
  HandlerTimeout = 1
  Faulty = FALSE
SPECIFICATION MCSpec
INVARIANTS RuntimeTypeOK RowChecks NoStrandedRow HandlerInLease
PROPERTIES ImplementsLeasedWork SettlesOwnAttempt
