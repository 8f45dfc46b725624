\* A batch of two is ACKed although one of it was not sent.
\* Variants: with OneStopped, PROPERTY SentAgain, what a call that failed was to
\* send is read and never sent again; LastBatchSent, the last batch of a stopped
\* input.
CONSTANTS
  MaxEvents = 2
  Rejected = {}
  BatchSize = 2
  Malformed = {}
  Refusable = {2}
  SpoolCap = 2
  GetMax = 2
  MaxRestarts = 0
SPECIFICATION Spec
INVARIANT UnsentIsKept
CHECK_DEADLOCK FALSE
