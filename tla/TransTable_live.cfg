\* Lost OGMs, requests and responses, a lost route or a forgotten originator; the version wraps.
SPECIFICATION FairSpec
CONSTANTS
  Hosts = {c1}
  Mac = Mac
  Zero = Zero
  Receivers = {r1, r2}
  None = None
  VnMod = 6
  FirstVns = {0, 5}
  AppendMax = 1
  MaxDiff = 3
  Wifis = {FALSE}
  Junk <- MCJunk
  LongInterval = FALSE
  SMP = FALSE
  AllocFails = FALSE
  MaxEvents = 2
  MaxLost = 1
  MaxMsgs = 1
  MaxOgms = 1
CHECK_DEADLOCK FALSE
PROPERTY Synced
INVARIANT TTConsistent
