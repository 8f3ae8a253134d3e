SPECIFICATION Spec
CONSTANTS
  Sockets = {k1, k2}
  Slots = {s1, s2}
  Chunks = {c1}
  Jobs = {j1}
  WorkCap = 2
  None = None
  DelegateCap = 2
  MaxLog = 2
  LossyPost = TRUE
  Requested = {"/open-gate", "/get-log", "/ota-update"}
SYMMETRY Symmetry
INVARIANTS
  IInv
  Replies
PROPERTY
  ServiceSpec
