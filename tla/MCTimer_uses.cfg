SPECIFICATION FairSpec
CONSTANT MaxInterval = 2
INVARIANT QuietOnce
PROPERTIES KeepsContract FiresAndStops
\* a second start() may terminate the program (Spawn)
CHECK_DEADLOCK FALSE
