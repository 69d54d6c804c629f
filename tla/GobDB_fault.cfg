\* One system call of one request fails.
SPECIFICATION Spec
CONSTANTS
  Requests = {r1}
  Values = {v1, v2}
  Zero = Zero
  OldFile = OldFile
  None = None
  MaxFaults = 1
  MaxCrashes = 0
SYMMETRY Symmetry
INVARIANTS OkMeansStored
CHECK_DEADLOCK FALSE
