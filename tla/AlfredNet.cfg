\* Two masters and a slave whose client stops writing; loss, duplicates, delay, a change of mode.
SPECIFICATION Spec
CONSTANTS
  Nodes = {m1, m2, s1}
  Masters = {m1, m2}
  Sources = {s1}
  None = None
  DataTimeout = 1
  ServerTimeout = 1
  RequestTimeout = 1
  MaxDelay = 1
  MaxNet = 1
  Switchers = {s1}
  MaxSwitches = 1
SYMMETRY Symmetry
INVARIANTS
  AlfredConsistent
  ForgottenEverywhere
