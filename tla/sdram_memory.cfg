SPECIFICATION Spec
CONSTANTS
  INIT_CYCLES = 2
  TRP = 1
  TRC = 4
  TRCD = 1
  TWR = 2
  TMRD = 2
  CL = 3
  REF_INTERVAL = 30
  NBANKS = 2
  NROWS = 1
  NCOLS = 2
  Byte <- TwoBytes
  SDRAM_TAG = 1
  Requests <- DataRequests
  XBUS_TIMEOUT = 60
  EARLY_ACCESS = TRUE
  POR_CYCLES = 1
  MAX_KEYS = 1
  NoRequest = NoRequest
PROPERTIES ImplementsMemory
