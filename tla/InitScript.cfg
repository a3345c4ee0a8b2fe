SPECIFICATION Spec
CHECK_DEADLOCK FALSE
CONSTANTS
    Scripts <- MCScripts
    ValidPaths <- MCValidPaths
    LowBytes <- MCLowBytes
    MaxRuns = 2
INVARIANTS
    TypeOK
    EffectsOfPrefix
    SuspendedEndsItsRun
