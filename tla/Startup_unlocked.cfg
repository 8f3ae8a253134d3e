SPECIFICATION Spec
CONSTANTS
  GuiQueueLength = 10
  JobQueueLength = 16
  DelegateQueueLength = 4
  MaxRequests = 1
  MaxTroubles = 1
INVARIANTS
  LvglExclusive
