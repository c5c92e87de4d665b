\* One refresh, orderings of up to three signals, every fault at every point.
SPECIFICATION Spec
CONSTANTS
    MaxRuns = 1
    MaxSignals = 3
    Faults <- MCAllFaults
INVARIANTS
    TypeOK
    TracesTellThePath
    SuccessIsEarned
    LatestIsValidated
    ReplayMatchesArtifact
\* the number of refreshes is bounded, and a leaked lock ends everything
CHECK_DEADLOCK FALSE
