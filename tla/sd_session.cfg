SPECIFICATION Spec
CONSTANTS
  SECTOR = 2
  MAX_SEC <- Slots
  Versions = {1, 2}
  Size <- UsualSizes
  TEST_LBA = 2
  MAX_SEGS = 4
  MAX_COUNT = 3
  Flaws = {"item", "short", "reply", "sd", "kill", "program"}
  MAX_FLAWS = 2
  Tools = {"update", "bootup", "pack", "boot", "wtest"}
  Persistent = FALSE
  MAX_RUNS = 2
  MAX_EDITS = 0
INVARIANTS SessionUsable
PROPERTIES ToolsEnd
