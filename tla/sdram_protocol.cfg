SPECIFICATION Spec
CONSTANTS
  INIT_CYCLES = 5
  TRP = 1
  TRC = 4
  TRCD = 1
  TWR = 2
  TMRD = 2
  CL = 3
  REF_INTERVAL = 40
  NBANKS = 2
  NROWS = 2
  NCOLS = 1
  Byte <- NoData
  SDRAM_TAG = 1
  Requests <- ProtocolRequests
  XBUS_TIMEOUT = 50
  EARLY_ACCESS = FALSE
  POR_CYCLES = 2
  MAX_KEYS = 1
  NoRequest = NoRequest
INVARIANTS TypeOK
  RowTracking NoContention RefreshGapBounded ServesTheRequest AckInTime
PROPERTIES CommandLegal SpacingLegal
