\* The compiler object is shared by the threads that compile at once.
SPECIFICATION Spec
CONSTANTS
    Threads = {t1, t2}
    Refresh = Refresh
    None = None
    Events <- MCEvents
    Supersedes <- MCSupersedes
INVARIANT
    AuditIsOwn
