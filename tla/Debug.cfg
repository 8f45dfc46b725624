\* The debug command with two streams, one after the other.  By hand, as
\* INVARIANT: InterruptIsHandled (receive.go:106), NoActionCrash (control.go:160);
\* each is refuted.
SPECIFICATION FairSpec
CONSTANTS
    Stream = {s1, s2}
    None = None
    Config = {}
    InitConfig = cfg0
    UpBound = 1
INVARIANTS ConfiguredOnce
PROPERTIES Configured InterruptEnds Obeys
CHECK_DEADLOCK FALSE
