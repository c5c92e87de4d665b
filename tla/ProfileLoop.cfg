\* Two web threads, a refresh, rollbacks and crashes, over a statement and its
\* correction, which may arrive in either order.
SPECIFICATION Spec
CONSTANTS
    Threads = {t1, t2}
    Refresh = Refresh
    None = None
    Events <- MCEvents
    Supersedes <- MCSupersedes
INVARIANTS
    TypeOK
    AnswerCoversPost
    ContextIsNotLost
PROPERTIES
    ImplementsHistory
    ProfileConverges
