\* Nodes started from the tail, updated, refused, killed and executed again.
CONSTANTS
    Last = 3
    Modes = {"process", "inside", "direct"}
    Chains <- SomeChains
    Malformed <- SomeMalformed
    Unusable <- SomeUnusable
    MaxConfig = 4
    Updated = {2}
    Stoppable = {2}
    MaxFaults = 1
SPECIFICATION FairSpec
INVARIANTS AcceptedLoads ProcessReportsApplied ConfiguredIsEquipped ProcessStopIsFinal
PROPERTIES Settles StartsOver
CHECK_DEADLOCK FALSE
