\* append_trace of a finished step raises; nothing else does.
SPECIFICATION Spec
CONSTANTS
    MaxRuns = 2
    MaxSignals = 1
    Faults <- MCTraceFault
INVARIANT
    FailedRunKeepsLatest
CHECK_DEADLOCK FALSE
