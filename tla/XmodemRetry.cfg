\* one garbled data byte
SPECIFICATION Spec
CONSTANTS
  Files <- ShortFiles
  ROOM = 8
  MaxPings = 4
  SyncReads = 2
  MaxFailed = 1
  StartFaults = {}
  BodyFaults = {"garbled"}
  ReplyFaults = {}
  Garbles <- Plain
  MaxFaults = 1
  Senders = {"sync"}
  Noise <- Silent
PROPERTIES
  RetryRecovers
CHECK_DEADLOCK FALSE
