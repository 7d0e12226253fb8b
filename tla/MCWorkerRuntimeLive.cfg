\* One process that may crash, be stopped, or lose calls.
SPECIFICATION FairRuntime
CONSTANTS
  p1 = p1
  p2 = p2
  w1 = w1
  w2 = w2
  Events = {}
  Jobs = {j1, j2}
  Workers = {w1, w2}
  NoWorker = NoWorker
  MaxAttempts <- OneAttempt
  MaxDelay = 0
  LeaseSeconds = 2
  BaseBackoff = 1
  MaxBackoff = 1
  BatchSize = 2
  Procs = {p1}
  IdOf <- SoleId
  Concurrency = 1
  HandlerTimeout = 1
  Faulty = TRUE
PROPERTIES WorkEnds TickTerminates
