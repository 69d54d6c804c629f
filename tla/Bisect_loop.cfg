\* Logs of three nodes whose sequence numbers have eight digits, one more than fits the loop magic.
SPECIFICATION BisectSpec
CONSTANTS
  a = a
  b = b
  d = d
  BsNodes = {a, b, d}
  BsOrder <- NodeOrder
  BsOrigs = {d}
  BsSeqs = {10000011, 10000012, 10000013}
  BsMagicLen = 7
  BsMaxLines = 6
  BsMaxHeard = 6
  BsDepth = 12
INVARIANTS BisectLoopIsReal
CHECK_DEADLOCK FALSE
