SPECIFICATION FairSpec
CONSTANTS
  MaxVersion = 4
  Bad = {2}
  MaxEvents = 2
  Lossy = {"REBOOT_REQUIRED"}
INVARIANTS
  TypeOK
  UpdateInv
  AlwaysBoots
  RollbackTargetKept
  TrustEarned
  RejectedStaysOut
  NeverDowngrades
PROPERTIES
  TrialEnds
  RequestTaken
  PromiseKept
