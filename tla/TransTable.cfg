\* Client events on another CPU than the commit, allocations that fail, two receivers.
SPECIFICATION Spec
CONSTANTS
  Hosts = {c1}
  Mac = Mac
  Zero = Zero
  Receivers = {r1, r2}
  None = None
  VnMod = 6
  FirstVns = {5}
  AppendMax = 0
  MaxDiff = 3
  Wifis = {FALSE}
  Junk <- MCJunk
  LongInterval = TRUE
  SMP = TRUE
  AllocFails = TRUE
  MaxEvents = 2
  MaxLost = 0
  MaxMsgs = 1
  MaxOgms = 1
INVARIANTS
  FullIsCommitted
SYMMETRY Symmetry
CHECK_DEADLOCK FALSE
