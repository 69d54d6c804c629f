\* The originator is a neighbour, and another neighbour passes its OGMs on; sequence numbers wrap.
\* A ping and a traceroute over three hops with two slots.
SPECIFICATION RoutesSpec
CONSTANTS
  Nbrs = {o, n1}
  Orig = o
  None = None
  M = 8
  W = 2
  SeqnoRange = 3
  GW = 2
  MaxTq = 1
  Ttls = {1, 5}
  ShortTtl = 1
  Seqs = {0, 1, 3}
  Base = 6
  p1 = p1
  p2 = p2
  IcClients = {p1, p2}
  IcSlots = {0, 1}
  IcNodes = 3
  IcKind <- ToolKind
  IcCount = 2
  IcTtl = 5
  IcTtlMax = 3
  IcTries = 1
  IcRrLen = 5
  IcQueueMax = 1
INVARIANTS
  OgmConsistent
  PassedOnOnce
  IcHopsAreNodes
PROPERTIES
  SilentRouterReplaced
CHECK_DEADLOCK FALSE
