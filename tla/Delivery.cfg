\* Three events in batches of two, and a spooler that holds two; Elasticsearch
\* may refuse the second event, and the third has no document.
CONSTANTS
  MaxEvents = 3
  Rejected = {}
  BatchSize = 2
  Malformed = {3}
  Refusable = {2}
  SpoolCap = 2
  GetMax = 2
  MaxRestarts = 1
SPECIFICATION OneStopped
INVARIANTS ReportedIsSpooled SpooledOnce InOrder FreedIsAnswered
PROPERTIES KeepsCustody InputEnds SpaceIsMade
CHECK_DEADLOCK FALSE
