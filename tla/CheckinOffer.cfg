\* The handler waits for a sender that has ended.
CONSTANTS
  Stream = {s1}
  None = None
  Config = {cfg1}
  InitConfig = cfg0
  Updater = {u1}
  UpBound = 1
SPECIFICATION KeptRunning
PROPERTY BrokenStreamLetsGo
CHECK_DEADLOCK FALSE
