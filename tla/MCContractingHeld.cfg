\* One request from its creation to a confirmed contract, whose reservation is
\* then cancelled by itself.  A request that is never negotiated ends there.
CONSTANTS
  None = None
  Requests = {r1}
  Capacities = {c1}
  Proposals = {p1}
  Reservations = {v1}
  Calls = {k1}
SPECIFICATION ContractingSpec
INVARIANT ConfirmedHoldsCapacity
CHECK_DEADLOCK FALSE
