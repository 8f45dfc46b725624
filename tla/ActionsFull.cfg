\* No client: the watchdog finds the channel full that it drained, and blocks.
\* Variants, each with Stream = {s1}:
\*   DestroyedRunning, PendingCap = 2: a call that is pushed after the drain;
\*   PendingCap = 2, ClientLeavesBrokenStream: the client fills the channel its
\*   sender puts a response back into;
\*   Call = {c1}, FirstReaderEnds: the offer of a first message nobody takes.
CONSTANTS
  Call = {c1, c2}
  Stream = {}
  None = None
  Undefined = {}
  PendingCap = 1
  ResultCap = 1
SPECIFICATION KeptRunning
PROPERTY EveryCallReturns
CHECK_DEADLOCK FALSE
