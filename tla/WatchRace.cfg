\* A check-in arrives between the two locks.
\* Variants:
\*   FailedInTime: half the timeout is not enough for the watchdog;
\*   HandlerKnows: two notifications overtake each other;
\*   Reported = {"healthy", "degraded"}, TwoWereMissed: an application that
\*   reports DEGRADED misses one check-in;
\*   Setter = {x1, x2}, NeverTorn: two SetStatus write at once.
CONSTANTS
  Limit = 2
  Patience = 1
  Delay = 0
  Receiver = {r1}
  Setter = {}
  Reported = {"healthy"}
SPECIFICATION Timed
INVARIANT LastWasMissed
SYMMETRY Symmetry
