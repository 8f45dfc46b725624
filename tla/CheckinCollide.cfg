\* A client that reconnects takes the index of an update on its way.
\* Variants, with Stream = {s1}, Config and Updater empty and Spec:
\*   StoppedWasTold: a lost connection passes for a client that stopped;
\*   IndexMeansApplied: a check-in names what OnConfig is still applying.
\* With Config = {cfg1}, Updater = {u1} and Parts, as PROPERTY:
\*   NeverBack: the reply to a first check-in is overtaken by an update.
CONSTANTS
  Stream = {s1, s2}
  None = None
  Config = {cfg1, cfg2}
  InitConfig = cfg0
  Updater = {u1, u2}
  UpBound = 1
SPECIFICATION OneProcess
INVARIANT Agree
SYMMETRY Symmetry
CHECK_DEADLOCK FALSE
