\* Two calls on one stream, one of an undefined action: every call returns,
\* both ends leave a stream that is broken, and the protocol is ActionCall.
CONSTANTS
  Call = {c1, c2}
  Stream = {s1}
  None = None
  Undefined = {c2}
  PendingCap = 2
  ResultCap = 2
SPECIFICATION KeptRunning
PROPERTIES EveryCallReturns BrokenStreamLetsGo ClientLeavesBrokenStream KeepsPromise
CHECK_DEADLOCK FALSE
