\* Two calls may be inside acquire_lock at once.
SPECIFICATION Spec
CONSTANTS
    web1 = web1
    web2 = web2
    cli = cli
    server = server
    shell = shell
    None = None
    Refreshes <- MCRefreshes
    Processes <- MCProcesses
    ProcessOf <- MCProcessOf
    SerialAcquire = FALSE
    Escapes = FALSE
    PidReuse = FALSE
INVARIANTS
    MutualExclusion
CHECK_DEADLOCK FALSE
