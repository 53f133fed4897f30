SPECIFICATION Spec
CONSTANTS
  INIT_CYCLES = 20
  TRP = 1
  TRC = 4
  TRCD = 1
  TWR = 2
  TMRD = 2
  CL = 3
  REF_INTERVAL = 40
  NBANKS = 2
  NROWS = 2
  NCOLS = 1
  Byte <- NoData
  SDRAM_TAG = 1
  Requests <- ReadWriteRequests
  XBUS_TIMEOUT = 12
  EARLY_ACCESS = TRUE
  POR_CYCLES = 2
  MAX_KEYS = 1
  NoRequest = NoRequest
PROPERTIES CommandLegal SpacingLegal
