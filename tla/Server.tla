------------------------------- MODULE Server -------------------------------
(* web_workbench/app.py as one process: each thread serves one request at a    *)
(* time, about stored data (Database) or about settings (Settings), on one     *)
(* shared connection, one environment and one pair of settings files.  Other   *)
(* processes open the same database.  The process dies as a whole.             *)
EXTENDS Database, Settings

CONSTANTS
    Server,      \* the web server's process
    MaxMixed     \* bound: requests there are in all when both kinds come

vars == <<databaseVars, settingsVars>>

Init == DatabaseInit /\ SettingsInit

Serving(t) == at[t] # "idle" \/ (t \in Web /\ Saving(t))
RoomFor(others) == others > 0 => requests + saves < MaxMixed

TakeRequest(t) == ~Serving(t) /\ RoomFor(saves) /\ Request(t) /\ UNCHANGED settingsVars
TakeSave(t) == ~Serving(t) /\ RoomFor(requests) /\ Submit(t) /\ UNCHANGED databaseVars

Serve(t) ==
    \/ DatabaseStep(t) /\ UNCHANGED settingsVars
    \/ t \in Web /\ SettingsStep(t) /\ UNCHANGED databaseVars

LoadConfig == Load /\ UNCHANGED databaseVars

ServerDies == DatabaseDies(Server) /\ SettingsDie

OtherDies ==
    /\ \E p \in {ProcessOf[c] : c \in Connections} \ {Server} : DatabaseDies(p)
    /\ UNCHANGED settingsVars

Next ==
    \/ \E t \in Threads : TakeRequest(t) \/ Serve(t)
    \/ \E t \in Web : TakeSave(t)
    \/ LoadConfig \/ ServerDies \/ OtherDies

\* A thread inside the database that can take its next step takes it: the locks
\* and SQLite's busy handler wake one that waits.  Saves wait for nobody, and
\* nobody has to send a request.
Fairness == \A t \in Threads : WF_databaseVars(DatabaseStep(t))

Spec == Init /\ [][Next]_vars /\ Fairness

-----------------------------------------------------------------------------
(* Properties                                                                 *)

TypeOK == DatabaseTypeOK /\ SettingsTypeOK

\* No thread waits for ever on the lock around the opening, on the connection's
\* lock or for the file, whoever holds them, raises or dies: every request about
\* stored data ends (app.py:182-198, database.py:364-388).
RequestsEnd ==
    \A t \in Threads : []<>(at[t] = "idle")

=============================================================================
