----------------------------- MODULE WebThreads -----------------------------
(* The threads of the web server that Database and Settings share: FastAPI's   *)
(* thread pool and the event loop.                                             *)

CONSTANTS Web, None

ASSUME WebThreadsAssumption == None \notin Web

=============================================================================
