\* Requests arrive one at a time, everything else may go wrong.
SPECIFICATION Spec
CONSTANTS
    web1 = web1
    web2 = web2
    cli = cli
    server = server
    shell = shell
    None = None
    Refreshes <- MCRefreshes
    Processes <- MCProcesses
    ProcessOf <- MCProcessOf
    SerialAcquire = TRUE
    Escapes = TRUE
    PidReuse = TRUE
INVARIANTS
    TypeOK
    LockNamesHolder
    PublishedIsOwn
    StatusShowsHolder
\* every call is made at most once: the system stops when all have returned
CHECK_DEADLOCK FALSE
