SPECIFICATION ShareSpec
CONSTANTS
  Requests = {r1, r2}
  Targets <- MCTargets
  Listings <- MCListings
  NoEndpoint = NoEndpoint
  WeightMod = 8
  CounterMod = 4
  MaxPicks = 5
SYMMETRY Interchangeable
INVARIANTS
  ServiceShare
