\* Two updates, Destroy or Stop, and streams that compete, break and reconnect with
\* and without a configuration.  Agree is refuted here too, where Agreement excepts it.
CONSTANTS
  Stream = {s1, s2}
  None = None
  Config = {cfg1, cfg2}
  InitConfig = cfg0
  Updater = {u1, u2}
  UpBound = 1
SPECIFICATION Parts
INVARIANTS OneStream Agreement
PROPERTY Obeys
SYMMETRY Symmetry
CHECK_DEADLOCK FALSE
