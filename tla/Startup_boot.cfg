SPECIFICATION FairSpec
CONSTANTS
  GuiQueueLength = 10
  JobQueueLength = 16
  DelegateQueueLength = 4
  MaxRequests = 1
  MaxTroubles = 1
  MaxUriLength = 3
  MaxUris = 3
  Letters = {1, 2}
  Parts = {0, 9, 10, 11}
INVARIANTS
  TypeOK
  LockedOnceBuilt
  EarlyOrFailed
  BootInv
  VersionsInOrder
  EndpointsFound
PROPERTIES
  ScreenNeverGoesBack
  LastNewsShown
  NodeComesUp
