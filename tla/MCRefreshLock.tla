--------------------------- MODULE MCRefreshLock ---------------------------
(* Values for RefreshLock: two threads of the web server and one call of the *)
(* command line.                                                             *)
EXTENDS RefreshLock

CONSTANTS web1, web2, cli, server, shell

MCRefreshes == {web1, web2, cli}
MCProcesses == {server, shell}
MCTwoRefreshes == {web1, cli}
MCProcessOf == [r \in MCRefreshes |-> IF r = cli THEN shell ELSE server]
MCProcessOfTwo == [r \in MCTwoRefreshes |-> MCProcessOf[r]]

=============================================================================
