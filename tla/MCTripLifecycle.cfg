\* Two requests contract one capacity in turn; one call of each kind in flight.
\* Once every trip has ended and every reservation is used nothing is left to do.
CONSTANTS
  None = None
  Contracted = c1
  Requests = {r1, r2}
  Capacities = {c1, c2}
  Proposals = {p1, p2}
  Reservations = {v1, v2}
  Calls = {k1}
  Trips = {t1, t2}
  TripCalls = {q1}
  Stops = {s1, s2}
  MinStops = 2
SPECIFICATION MCSpec
SYMMETRY Alike
INVARIANTS
  TripTypeOK
  FulfilledByItsTrip
  EndedTripEndsContracts
  EndedContractFreesCapacity
  ContractedIsExplained
CHECK_DEADLOCK FALSE
