SPECIFICATION Spec
CONSTANTS
  Sockets = {k1, k2}
  Slots = {s1, s2}
  Chunks = {c1, c2}
  Jobs = {j1, j2}
  WorkCap = 10
  None = None
  DelegateCap = 2
  MaxLog = 2
  LossyPost = FALSE
  Requested = {"/open-gate", "/close-gate", "/get-log", "/ota-update", "unmatched"}
SYMMETRY Symmetry
INVARIANTS
  TypeOK
  SlotOwnership
  AnswerReachesAsker
  DataBeforeClose
  PoolOwnership
  StreamOrder
  LoopNeverBlocks
  PoolsAccounted
  OnlyLateReleaseExhausts
  WorkBound
  Accounts
PROPERTY
  ServiceSpec
