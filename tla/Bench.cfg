\* Two managers after each other, in every combination of modes, over an
\* empty path or the file of a process that was killed.  By hand, with one of
\* them as INVARIANT: SessionsSucceed (the older server's Stop removes the file
\* between the newer one's Stat and Remove, or before its Chmod),
\* StoppedBeforeExit, ServerAlwaysThere, NoEarlyCall, DoneHasEvents, ResultHosted;
\* each is refuted.
SPECIFICATION FairSpec
CONSTANTS
    Sessions = 2
    Last = 3
    Modes = {"direct", "inside", "process"}
INVARIANTS ServerThere AloneKeepsSocket
PROPERTIES AloneReturns ShutsDown
CHECK_DEADLOCK FALSE
