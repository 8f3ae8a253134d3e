SPECIFICATION Spec
CONSTANTS
  MaxVersion = 4
  Bad = {2}
  MaxEvents = 2
  Lossy = {"REBOOT_REQUIRED"}
PROPERTY
  SkippedOnlyIfTried
