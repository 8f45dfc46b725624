\* As Delivery, with an event that the processor drops, which leaves two.
CONSTANTS
  MaxEvents = 3
  Rejected = {1}
  BatchSize = 2
  Malformed = {3}
  Refusable = {2}
  SpoolCap = 1
  GetMax = 2
  MaxRestarts = 1
SPECIFICATION OneStopped
INVARIANTS ReportedIsSpooled SpooledOnce InOrder FreedIsAnswered
PROPERTIES KeepsCustody InputEnds SpaceIsMade
CHECK_DEADLOCK FALSE
