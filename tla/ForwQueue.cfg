\* One interface enabled and disabled twice, one slot for OGMs and one for broadcasts, aggregation.
SPECIFICATION FairSpec
CONSTANTS
  NPkts = 6
  Ifaces = {i1}
  None = None
  OgmSlots = 1
  BcastSlots = 1
  MaxBcasts = 2
  MaxAggr = 1
  MaxEnables = 2
  AllocFails = FALSE
INVARIANTS
  ForwConsistent
  NoOgmForgotten
PROPERTIES
  PurgeEnds
CHECK_DEADLOCK FALSE
