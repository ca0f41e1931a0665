\* every boot mode; up to two bytes lost or garbled on the way to the board
SPECIFICATION BootSpec
CONSTANTS
  Files <- ShortFiles
  ROOM = 4
  MaxPings = 4
  SyncReads = 2
  MaxFailed = 2
  StartFaults = {"lost"}
  BodyFaults = {"lost", "garbled"}
  ReplyFaults = {}
  Garbles <- Plain
  MaxFaults = 2
  Senders = {"sync", "exit"}
  Noise <- Stale
  Modes = {0, 1, 2, 3}
  SIM = FALSE
  WIDTH = 3
  SpiConfigs <- AllSpi
  FlashIds = {0, 31, 255}
  FlashImage <- Image
INVARIANTS
  StartsImage
  ExchangesWhole
  AckedIsStored
PROPERTIES
  BootCompletes
  BootEnds
CHECK_DEADLOCK FALSE
