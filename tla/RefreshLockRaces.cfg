\* Any interleaving of the file operations and any crash, but no exception
\* outside the try and no reused pid.
SPECIFICATION FairSpec
CONSTANTS
    web1 = web1
    web2 = web2
    cli = cli
    server = server
    shell = shell
    None = None
    Refreshes <- MCTwoRefreshes
    Processes <- MCProcesses
    ProcessOf <- MCProcessOfTwo
    SerialAcquire = FALSE
    Escapes = FALSE
    PidReuse = FALSE
INVARIANTS
    BusyMeansRunning
PROPERTIES
    LockIsGivenBack
CHECK_DEADLOCK FALSE
