SPECIFICATION Spec
CONSTANTS
  SECTOR = 2
  MAX_SEC <- Slots
  Versions = {1, 2}
  Size <- TwoSizes
  TEST_LBA = 2
  MAX_SEGS = 4
  MAX_COUNT = 3
  Flaws = {"item", "short", "reply", "sd", "kill", "program"}
  MAX_FLAWS = 1
  Tools = {"pack", "update", "boot"}
  Persistent = TRUE
  MAX_RUNS = 3
  MAX_EDITS = 1
INVARIANTS SlotsKeepApart ClaimHolds BootsWhatWasWritten
