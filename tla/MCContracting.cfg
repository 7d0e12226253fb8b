\* Two requests compete for one capacity: two proposals, two reservations and
\* two calls in flight.  Once every row is used and every proposal decided the
\* callers have nothing left to call.
CONSTANTS
  None = None
  Requests = {r1, r2}
  Capacities = {c1}
  Proposals = {p1, p2}
  Reservations = {v1, v2}
  Calls = {k1, k2}
SPECIFICATION ContractingSpec
SYMMETRY AlikeRows
INVARIANTS
  ContractingTypeOK
  CounteredIsRejected
  ContractedIsBacked
PROPERTY DecisionsAreFinal
CHECK_DEADLOCK FALSE
