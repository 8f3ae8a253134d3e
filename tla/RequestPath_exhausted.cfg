SPECIFICATION Spec
CONSTANTS
  Sockets = {k1, k2}
  Slots = {s1, s2}
  Chunks = {c1}
  Jobs = {j1}
  WorkCap = 10
  None = None
  DelegateCap = 2
  MaxLog = 1
  LossyPost = FALSE
  Requested = {"/open-gate", "/close-gate", "/get-log", "/ota-update", "unmatched"}
INVARIANT
  NeverPanics
