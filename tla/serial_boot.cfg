SPECIFICATION Spec
CONSTANTS
  Blocks <- ThreePayloads
  DTB = 2
  BLK_MOD = 2
  XMODEM_RETRY_MAX = 20
  HOST_RETRY_MAX = 10
  Scenarios <- BootScenarios
  MAX_FLAWS <- FlawBounds
INVARIANTS BootVerified StoredInOrder AckedIsStored
PROPERTIES BothEnd Completes
