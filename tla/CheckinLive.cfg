\* A new client or a service gets the configuration or is told to stop.
CONSTANTS
  Stream = {s1}
  None = None
  Config = {cfg1}
  InitConfig = cfg0
  Updater = {u1}
  UpBound = 1
SPECIFICATION Service
PROPERTIES Converges StopReaches
CHECK_DEADLOCK FALSE
