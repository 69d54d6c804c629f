\* A receiver in either mode, one change of mode, two clients and one unasked transaction.
SPECIFICATION TxSpec
CONSTANTS
  Clients = {c1, c2}
  Pushes = {p1}
  Count <- SomeCounts
  NoTx = NoTx
  MaxRequests = 1
  TxMaxSwitches = 1
SYMMETRY Symmetry
INVARIANTS
  TxConsistent
  AnswerIsFresh
PROPERTIES
  AppliedWhole
CHECK_DEADLOCK FALSE
