SPECIFICATION Spec
CONSTANTS
  SECTOR = 2
  MAX_SEC <- Slots
  Versions = {1, 2}
  Size <- UsualSizes
  TEST_LBA = 2
  MAX_SEGS = 4
  MAX_COUNT = 3
  Flaws = {}
  MAX_FLAWS = 0
  Tools = {"pack", "update", "boot"}
  Persistent = FALSE
  MAX_RUNS = 3
  MAX_EDITS = 1
INVARIANTS TagIsHonest
