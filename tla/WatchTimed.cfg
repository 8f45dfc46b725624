\* Rounds that take their time, check-ins, and three SetStatus calls that may cross.
CONSTANTS
  Limit = 3
  Patience = 1
  Delay = 2
  Receiver = {r1, r2}
  Setter = {x1, x2, x3}
  Reported = {"healthy"}
SPECIFICATION Timed
INVARIANTS Whole SilentIsFailed FailedWasSilent
SYMMETRY Symmetry
