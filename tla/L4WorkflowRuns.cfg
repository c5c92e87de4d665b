\* One refresh after another, with failing steps and crashes.
SPECIFICATION Spec
CONSTANTS
    MaxRuns = 2
    MaxSignals = 1
    Faults <- MCCallbackAndCrash
INVARIANTS
    StatusTellsTheTruth
PROPERTY
    ImplementsLifecycle
\* the number of refreshes is bounded
CHECK_DEADLOCK FALSE
