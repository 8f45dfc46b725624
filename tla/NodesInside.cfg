\* A runner in the agent's process is run again after it was refused a configuration.
\* Variants: EquippedOnceConfigured with Malformed <- SomeMalformed, Unusable <- None
\* and MaxConfig = 4, a runner that failed to reload has lost its receiver for good;
\* CancelIsHandled, a context cancelled before the receiver serves;
\* with MaxConfig = 2 and Stoppable = {2}, StopIsFinal, a runner that failed once
\* and is told to stop runs on.
\* With Modes = {"process"} and Unusable <- None: RunBeforeReceive, the receiver
\* of a node listens before its component runs; with Stoppable = {1} too,
\* as PROPERTY: StoppedStays, a process told to stop is executed again.
CONSTANTS
    Last = 3
    Modes = {"inside"}
    Chains <- SomeChains
    Malformed <- None
    Unusable <- SomeUnusable
    MaxConfig = 1
    Updated = {2}
    Stoppable = {}
    MaxFaults = 0
SPECIFICATION Spec
INVARIANT ReportedIsApplied
CHECK_DEADLOCK FALSE
