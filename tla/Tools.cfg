\* Three requests to the database; two dialogs in one browser or two, any two of whose calls fail;
\* logs of four nodes and eight lines, whose sequence numbers have a digit more than fits the loop magic.
SPECIFICATION ToolsSpec
CONSTANTS
  Requests = {r1, r2, r3}
  Values = {v1, v2}
  Zero = Zero
  OldFile = OldFile
  None = None
  MaxFaults = 0
  MaxCrashes = 0
  Editors = {e1, e2}
  Vals = {v1, v2}
  NoEdit = NoEdit
  Outcomes = {"ok", "refused", "unreachable", "lost", "garbled"}
  MaxCallFaults = 2
  MaxRounds = 2
  a = a
  b = b
  c = c
  d = d
  BsNodes = {a, b, c, d}
  BsOrder <- NodeOrder
  BsOrigs = {d, a}
  BsSeqs = {10000001, 10000002, 10000013}
  BsMagicLen = 7
  BsMaxLines = 8
  MaxTableLines = 6
  BsMaxHeard = 5
  BsDepth = 12
SYMMETRY Symmetry
INVARIANTS
  WirelessConsistent
  EverySaveLands
  BisectDatabase
  BisectCircleIsFound
PROPERTIES
  ImplementsAtomicStore
  SuccessMeansLastSaved
CHECK_DEADLOCK FALSE
