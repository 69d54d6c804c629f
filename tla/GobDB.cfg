\* Three racing requests of either kind; a system call may fail, the server may be killed.
SPECIFICATION Spec
CONSTANTS
  Requests = {r1, r2, r3}
  Values = {v1, v2}
  Zero = Zero
  OldFile = OldFile
  None = None
  MaxFaults = 1
  MaxCrashes = 1
SYMMETRY Symmetry
INVARIANTS
  TornOnlyWhileWriting
  NoTotalLoss
  SomeUpdateWins
PROPERTIES
  OnlyFailedStatRepairs
CHECK_DEADLOCK FALSE
