\* One call over two streams: streams that compete for the application, sends
\* retried on the next stream, answers that arrive late, expiry and Destroy.
CONSTANTS
  Call = {c1}
  Stream = {s1, s2}
  None = None
  Undefined = {}
  PendingCap = 1
  ResultCap = 1
SPECIFICATION Spec
INVARIANTS HeldOnce AnsweredOnce OneStream ExecutedOnce
PROPERTIES NoAnswerDropped
SYMMETRY StreamSymmetry
CHECK_DEADLOCK FALSE
