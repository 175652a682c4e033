SPECIFICATION MCSpec
CONSTANTS
  a = a
  b = b
  d = d
  None = None
  Addrs = {a, b, d}
  Conns = {c1, c2}
  Lists <- MCLists
  MaxSets = 3
  MaxAborts = 1
  MaxUpgrades = 1
  Wrap = 8
  Weightings <- MCWeightings
  IPs = {p, q}
  NoHeader = NoHeader
  R = 3
  Cost = 2
  Burst = 3
  Idle = 2
  MaxTime = 7
INVARIANTS TypeOK CountsAwaited
INVARIANTS RouterTypeOK EvenSpread TalliesAreDeviations Smooth Cycle LoyalWeights
INVARIANTS ShieldTypeOK RateBound
PROPERTIES ImplementsBalancer ImplementsTokenBucket
